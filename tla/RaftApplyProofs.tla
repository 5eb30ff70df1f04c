-------------------------- MODULE RaftApplyProofs ---------------------------
(***************************************************************************)
(* The apply loop, the compactor and both sides of InstallSnapshot, for    *)
(* every bound and every number of callers, installs, snapshots and        *)
(* faults.  The layers:                                                    *)
(*   1. the order of the indexes and the shape of the state   ApplyInv     *)
(*   2. agreement of a node's log with the cluster            ChosenInv    *)
(*   3. the answers of proposeWait                            ResultInv    *)
(*   4. the contents of the store                   StoreInv, OnceInv      *)
(***************************************************************************)
EXTENDS RaftApply, TLAPS

(***************************************************************************)
(* Reading a log and appending to it; see RaftProofs.                      *)
(***************************************************************************)

\* The lesser of two indexes.
LEMMA MinOfTwo ==
  ASSUME NEW a \in Nat, NEW b \in Nat
  PROVE  Min({a, b}) \in {a, b} /\ Min({a, b}) <= a /\ Min({a, b}) <= b
<1>1. \E x \in {a, b} : \A y \in {a, b} : x <= y
  OBVIOUS
<1> QED
  BY Zenon, <1>1 DEF Min

\* The commit index after a request stays below the leader's, and goes back only to
\* the end of a log that was cut.
LEMMA AdvancedFacts ==
  ASSUME NEW old \in Nat, NEW lead \in Nat, NEW last \in Nat, lead >= old
  PROVE  /\ Advanced(old, lead, last) \in Nat
         /\ Advanced(old, lead, last) <= lead
         /\ Advanced(old, lead, last) >= old \/ Advanced(old, lead, last) = last
         /\ last >= old => Advanced(old, lead, last) >= old /\ Advanced(old, lead, last) <= last
BY MinOfTwo DEF Advanced

\* The terms in a sequence of entries are naturals.
LEMMA EntryTerms ==
  ASSUME NEW s \in Seq(Entry)
  PROVE  \A k \in 1..Len(s) : s[k].term \in Nat
<1>1. \A k \in 1..Len(s) : s[k] \in Entry
  OBVIOUS
<1> QED
  BY <1>1 DEF Entry

\* Types of the readers of a log.
LEMMA LogReaderTypes ==
  ASSUME NEW l \in NodeLog
  PROVE  /\ LastLogIndex(l) \in Nat /\ LastLogTerm(l) \in Nat \cup {-1}
         /\ \A idx \in Nat : LogTermAt(l, idx) \in Nat \cup {-1}
         /\ \A idx \in Nat : idx > l.base => EntriesFrom(l, idx) \in Seq(Entry)
<1>1. /\ l.base \in Nat /\ l.baseTerm \in Nat \cup {-1} /\ l.entries \in Seq(Entry)
      /\ Len(l.entries) \in Nat
  BY DEF NodeLog
<1>2. \A k \in 1..Len(l.entries) : l.entries[k].term \in Nat
  BY <1>1, EntryTerms
<1>3. LastLogIndex(l) \in Nat
  BY <1>1 DEF LastLogIndex
<1>4. LastLogTerm(l) \in Nat \cup {-1}
  <2>1. CASE l.entries = <<>>
    BY <1>1, <2>1 DEF LastLogTerm
  <2>2. CASE l.entries # <<>>
    <3>1. Len(l.entries) \in 1..Len(l.entries)
      BY <1>1, <2>2
    <3> QED
      BY <1>2, <2>2, <3>1 DEF LastLogTerm
  <2> QED
    BY <2>1, <2>2
<1>5. ASSUME NEW idx \in Nat
      PROVE  LogTermAt(l, idx) \in Nat \cup {-1}
  <2>1. HasEntry(l, idx) => EntryAt(l, idx).term \in Nat
    <3> SUFFICES ASSUME HasEntry(l, idx)
                 PROVE  EntryAt(l, idx).term \in Nat
      OBVIOUS
    <3>1. idx - l.base \in 1..Len(l.entries)
      BY <1>1 DEF HasEntry, LastLogIndex
    <3> QED
      BY <1>2, <3>1 DEF EntryAt
  <2> QED
    BY <1>1, <2>1 DEF LogTermAt
<1>6. ASSUME NEW idx \in Nat, idx > l.base
      PROVE  EntriesFrom(l, idx) \in Seq(Entry)
  <2>1. idx - l.base \in Nat \ {0}
    BY <1>1, <1>6
  <2> DEFINE a == idx - l.base
  <2>2. \A k \in a..Len(l.entries) : l.entries[k] \in Entry
    BY <1>1, <2>1
  <2>3. a \in Int /\ Len(l.entries) \in Int
    BY <1>1, <2>1
  <2> HIDE DEF a
  <2>4. SubSeq(l.entries, a, Len(l.entries)) \in Seq(Entry)
    BY <2>2, <2>3
  <2> QED
    BY <2>4 DEF EntriesFrom, a
<1> QED
  BY <1>3, <1>4, <1>5, <1>6

\* propose: the new entry goes to the end, the rest stays.
LEMMA AppendFacts ==
  ASSUME NEW l \in NodeLog, NEW e \in Entry
  PROVE  /\ AppendEntry(l, e) \in NodeLog
         /\ AppendEntry(l, e).base = l.base /\ AppendEntry(l, e).baseTerm = l.baseTerm
         /\ Len(AppendEntry(l, e).entries) = Len(l.entries) + 1
         /\ \A k \in 1..Len(l.entries) : AppendEntry(l, e).entries[k] = l.entries[k]
         /\ AppendEntry(l, e).entries[Len(l.entries) + 1] = e
<1>1. l.base \in Nat /\ l.baseTerm \in Nat \cup {-1} /\ l.entries \in Seq(Entry)
  BY DEF NodeLog
<1> DEFINE s == Append(l.entries, e)
<1>2. /\ s \in Seq(Entry) /\ Len(s) = Len(l.entries) + 1
      /\ \A k \in 1..Len(l.entries) : s[k] = l.entries[k]
      /\ s[Len(l.entries) + 1] = e
  BY <1>1
<1>3. AppendEntry(l, e) = [l EXCEPT !.entries = s]
  BY DEF AppendEntry
<1> HIDE DEF s
<1> QED
  BY <1>1, <1>2, <1>3 DEF NodeLog

(***************************************************************************)
(* Logs after compaction and installation.                                 *)
(***************************************************************************)

\* A log that loses everything up to s keeps the terms of the rest.
LEMMA InstallBaseFacts ==
  ASSUME NEW l \in NodeLog, NEW s \in Nat, NEW t \in Nat \cup {-1}, s > l.base
  PROVE  /\ InstallBase(l, s, t) \in NodeLog
         /\ InstallBase(l, s, t).base = s /\ InstallBase(l, s, t).baseTerm = t
         /\ LastLogIndex(InstallBase(l, s, t)) = IF s > LastLogIndex(l) THEN s ELSE LastLogIndex(l)
         /\ \A i \in Nat : i > s /\ i <= LastLogIndex(l) =>
              LogTermAt(InstallBase(l, s, t), i) = LogTermAt(l, i)
<1>1. l.base \in Nat /\ l.entries \in Seq(Entry) /\ Len(l.entries) \in Nat
  BY DEF NodeLog
<1> DEFINE a == s - l.base + 1
           es == SubSeq(l.entries, a, Len(l.entries))
           m == InstallBase(l, s, t)
<1>2. a \in Nat /\ a >= 2
  BY <1>1
<1>3. /\ es \in Seq(Entry)
      /\ Len(es) = IF a <= Len(l.entries) THEN Len(l.entries) - a + 1 ELSE 0
      /\ \A i \in 1..(Len(l.entries) - a + 1) : es[i] = l.entries[a + i - 1]
  <2> HIDE DEF a
  <2>1. \A i \in a..Len(l.entries) : l.entries[i] \in Entry
    BY <1>1, <1>2
  <2> QED
    BY SMTT(30), <1>1, <1>2, <2>1
<1>4. m = [base |-> s, baseTerm |-> t, entries |-> es]
  BY Zenon DEF InstallBase
<1> HIDE DEF es, m
<1>5. m \in NodeLog /\ m.base = s /\ m.baseTerm = t /\ m.entries = es
  BY Zenon, <1>3, <1>4 DEF NodeLog
<1>6. LastLogIndex(m) = IF s > LastLogIndex(l) THEN s ELSE LastLogIndex(l)
  <2>1. LastLogIndex(m) = s + Len(es) /\ LastLogIndex(l) = l.base + Len(l.entries)
    BY Zenon, <1>5 DEF LastLogIndex
  <2>2. Len(es) = IF a <= Len(l.entries) THEN Len(l.entries) - a + 1 ELSE 0
    BY Zenon, <1>3
  <2>3. CASE s >= LastLogIndex(l)
    <3>1. ~(a <= Len(l.entries))
      BY <1>1, <2>1, <2>3
    <3> QED
      BY <1>1, <2>1, <2>2, <2>3, <3>1
  <2>4. CASE s < LastLogIndex(l)
    <3>1. a <= Len(l.entries) /\ s + (Len(l.entries) - a + 1) = l.base + Len(l.entries)
      BY SMTT(40), <1>1, <2>1, <2>4
    <3> QED
      BY <1>1, <2>1, <2>2, <2>4, <3>1
  <2> QED
    BY <1>1, <2>1, <2>3, <2>4
<1>7. ASSUME NEW i \in Nat, i > s, i <= LastLogIndex(l)
      PROVE  LogTermAt(m, i) = LogTermAt(l, i)
  <2>1. HasEntry(m, i) /\ HasEntry(l, i) /\ i # 0 /\ i # m.base /\ i # l.base
    BY <1>1, <1>5, <1>6, <1>7 DEF HasEntry, LastLogIndex
  <2>2. i - s \in 1..(Len(l.entries) - a + 1) /\ a + (i - s) - 1 = i - l.base
    BY SMTT(40), <1>1, <1>7 DEF LastLogIndex
  <2>3. m.entries[i - m.base] = l.entries[i - l.base]
    BY Zenon, <1>3, <1>5, <2>2
  <2> QED
    BY Zenon, <2>1, <2>3 DEF LogTermAt, EntryAt
<1> QED
  BY Zenon, <1>5, <1>6, <1>7 DEF m

\* Above its base a log has the term of an entry, a natural number.
LEMMA EntryTermAt ==
  ASSUME NEW l \in NodeLog, NEW i \in Nat, HasEntry(l, i)
  PROVE  LogTermAt(l, i) \in Nat /\ LogTermAt(l, i) = EntryAt(l, i).term
<1>1. /\ l.base \in Nat /\ l.entries \in Seq(Entry) /\ Len(l.entries) \in Nat
      /\ i - l.base \in 1..Len(l.entries) /\ i # 0 /\ i # l.base
  BY DEF NodeLog, HasEntry, LastLogIndex
<1>2. l.entries[i - l.base].term \in Nat
  BY Zenon, <1>1, EntryTerms
<1> QED
  BY Zenon, <1>1, <1>2 DEF LogTermAt, EntryAt

\* CompactLog keeps the terms after its index.  The base has the term that was
\* given, or at the end of the log its last term; after a cut it may lie beyond.
LEMMA CompactedFacts ==
  ASSUME NEW l \in NodeLog, NEW idx \in Nat, NEW t \in Nat \cup {-1}, idx > l.base
  PROVE  /\ Compacted(l, idx, t) \in NodeLog
         /\ Compacted(l, idx, t).base = idx
         /\ LastLogIndex(Compacted(l, idx, t)) = IF idx > LastLogIndex(l) THEN idx ELSE LastLogIndex(l)
         /\ HasEntry(l, idx) => Compacted(l, idx, t).baseTerm \in {t, LogTermAt(l, idx)}
         /\ \A i \in Nat : i > idx /\ i <= LastLogIndex(l) =>
              LogTermAt(Compacted(l, idx, t), i) = LogTermAt(l, i)
<1>1. /\ l.base \in Nat /\ l.entries \in Seq(Entry) /\ Len(l.entries) \in Nat
      /\ LastLogIndex(l) \in Nat
  BY DEF NodeLog, LastLogIndex
<1>2. CASE idx >= LastLogIndex(l)
  <2> DEFINE m == [base |-> idx, baseTerm |-> LastLogTerm(l), entries |-> <<>>]
  <2>1. Compacted(l, idx, t) = m
    BY Zenon, <1>2 DEF Compacted
  <2>2. LastLogTerm(l) \in Nat \cup {-1}
    BY Zenon, LogReaderTypes
  <2>3. m \in NodeLog /\ m.base = idx /\ m.baseTerm = LastLogTerm(l) /\ m.entries = <<>>
    BY <2>2 DEF NodeLog
  <2> HIDE DEF m
  <2>4. LastLogIndex(m) = idx
    BY <1>1, <2>3 DEF LastLogIndex
  <2>5. HasEntry(l, idx) => LogTermAt(l, idx) = LastLogTerm(l)
    <3>1. SUFFICES ASSUME HasEntry(l, idx) PROVE LogTermAt(l, idx) = LastLogTerm(l)
      OBVIOUS
    <3>2. l.entries # <<>> /\ idx - l.base = Len(l.entries) /\ idx # 0 /\ idx # l.base
      BY <1>1, <1>2, <3>1 DEF LastLogIndex, HasEntry
    <3> QED
      BY Zenon, <3>1, <3>2 DEF LogTermAt, EntryAt, LastLogTerm
  <2>6. \A i \in Nat : ~(i > idx /\ i <= LastLogIndex(l))
    BY <1>1, <1>2
  <2>7. idx = IF idx > LastLogIndex(l) THEN idx ELSE LastLogIndex(l)
    BY <1>1, <1>2
  <2> QED
    BY Zenon, <2>1, <2>3, <2>4, <2>5, <2>6, <2>7
<1>3. CASE ~(idx >= LastLogIndex(l))
  <2>1. Compacted(l, idx, t) = InstallBase(l, idx, t)
    BY Zenon, <1>3 DEF Compacted
  <2> QED
    BY SMTT(40), <1>1, <1>3, <2>1, InstallBaseFacts
<1> QED
  BY Zenon, <1>2, <1>3

\* The entries a follower takes from the leader end where the request ends and
\* have the terms of the chosen entries as far as there are any.
LEMMA LeaderEntriesTerms ==
  ASSUME log \in NodeLog, chosen \in Seq(Nat), clusterTerm \in Nat,
         NEW m \in Nat, m >= log.base, NEW cmd \in Command
  PROVE  /\ LeaderEntries(m, cmd) \in Seq(Entry)
         /\ Len(LeaderEntries(m, cmd)) = m - log.base
         /\ \A k \in 1..(m - log.base) :
              log.base + k <= Len(chosen) => LeaderEntries(m, cmd)[k].term = chosen[log.base + k]
<1>1. log.base \in Nat /\ m - log.base \in Nat
  BY DEF NodeLog
<1>2. ASSUME NEW k \in 1..(m - log.base)
      PROVE  [term |-> IF log.base + k <= Len(chosen) THEN chosen[log.base + k] ELSE clusterTerm,
              cmd |-> cmd] \in Entry
  <2>1. log.base + k <= Len(chosen) => chosen[log.base + k] \in Nat
    BY SMTT(40), <1>1
  <2> QED
    BY Zenon, <2>1 DEF Entry
<1> DEFINE n == m - log.base
           f == [k \in 1..n |->
                   [term |-> IF log.base + k <= Len(chosen) THEN chosen[log.base + k] ELSE clusterTerm,
                    cmd |-> cmd]]
<1>3. f \in [1..n -> Entry]
  BY Zenon, <1>2
<1>4. \A k \in 1..n : log.base + k <= Len(chosen) => f[k].term = chosen[log.base + k]
  BY Zenon
<1>5. n \in Nat
  BY Zenon, <1>1
<1>6. f = LeaderEntries(m, cmd)
  BY Zenon DEF LeaderEntries
<1> HIDE DEF f, n
<1>7. f \in Seq(Entry) /\ Len(f) = n
  BY <1>3, <1>5
<1> QED
  BY Zenon, <1>4, <1>6, <1>7 DEF n

\* The follower's log with these entries.
LEMMA LeaderEntriesFacts ==
  ASSUME log \in NodeLog, chosen \in Seq(Nat),
         NEW m \in Nat, m >= log.base,
         NEW es \in Seq(Entry), Len(es) = m - log.base,
         \A k \in 1..(m - log.base) : log.base + k <= Len(chosen) => es[k].term = chosen[log.base + k],
         NEW r, r = [log EXCEPT !.entries = es]
  PROVE  /\ r \in NodeLog /\ r.base = log.base /\ LastLogIndex(r) = m
         /\ \A i \in Nat : i > log.base /\ i <= m /\ i <= Len(chosen) =>
              LogTermAt(r, i) = chosen[i]
         /\ r.baseTerm = log.baseTerm
<1>1. log.base \in Nat /\ log.baseTerm \in Nat \cup {-1}
  BY Zenon DEF NodeLog
<1>5. r \in NodeLog /\ r.base = log.base /\ r.baseTerm = log.baseTerm /\ r.entries = es
  BY Zenon DEF NodeLog
<1>6. LastLogIndex(r) = m
  BY <1>1, <1>5 DEF LastLogIndex
<1>7. ASSUME NEW i \in Nat, i > log.base, i <= m, i <= Len(chosen)
      PROVE  LogTermAt(r, i) = chosen[i]
  <2>1. HasEntry(r, i)
    BY Zenon, <1>5, <1>6, <1>7 DEF HasEntry
  <2>2. LogTermAt(r, i) = es[i - log.base].term
    BY ZenonT(40), <1>5, <2>1, EntryTermAt DEF EntryAt
  <2>3. i - log.base \in 1..(m - log.base) /\ log.base + (i - log.base) = i
    BY SMTT(40), <1>1, <1>7
  <2> QED
    BY Zenon, <1>7, <2>2, <2>3
<1> QED
  BY Zenon, <1>5, <1>6, <1>7

\* A proposal goes to the end of the log and leaves the other terms.
LEMMA ProposedFacts ==
  ASSUME NEW l \in NodeLog, NEW e \in Entry
  PROVE  /\ AppendEntry(l, e) \in NodeLog /\ AppendEntry(l, e).base = l.base
         /\ AppendEntry(l, e).baseTerm = l.baseTerm
         /\ LastLogIndex(AppendEntry(l, e)) = LastLogIndex(l) + 1
         /\ \A i \in Nat : i >= l.base /\ i <= LastLogIndex(l) =>
              LogTermAt(AppendEntry(l, e), i) = LogTermAt(l, i)
<1> DEFINE r == AppendEntry(l, e)
<1>1. /\ r \in NodeLog /\ r.base = l.base /\ r.baseTerm = l.baseTerm
      /\ Len(r.entries) = Len(l.entries) + 1
      /\ \A k \in 1..Len(l.entries) : r.entries[k] = l.entries[k]
  BY Zenon, AppendFacts
<1>2. l.base \in Nat /\ Len(l.entries) \in Nat
  BY DEF NodeLog
<1> HIDE DEF r
<1>3. LastLogIndex(r) = LastLogIndex(l) + 1
  <2>1. r.base = l.base /\ Len(r.entries) = Len(l.entries) + 1
    BY Zenon, <1>1
  <2>2. l.base + (Len(l.entries) + 1) = (l.base + Len(l.entries)) + 1
    BY <1>2
  <2> QED
    BY Zenon, <2>1, <2>2 DEF LastLogIndex
<1>4. ASSUME NEW i \in Nat, i >= l.base, i <= LastLogIndex(l)
      PROVE  LogTermAt(r, i) = LogTermAt(l, i)
  <2>1. CASE i = l.base
    BY Zenon, <1>1, <2>1 DEF LogTermAt
  <2>2. CASE i # l.base
    <3>1. HasEntry(l, i) /\ HasEntry(r, i) /\ i - l.base \in 1..Len(l.entries)
      BY SMTT(40), <1>1, <1>2, <1>4, <2>2 DEF HasEntry, LastLogIndex
    <3> QED
      BY SMTT(40), <1>1, <3>1, EntryTermAt DEF EntryAt
  <2> QED
    BY Zenon, <2>1, <2>2
<1> QED
  BY Zenon, <1>1, <1>3, <1>4 DEF r

(***************************************************************************)
(* First layer: the shape of the log's state and the order of the indexes. *)
(***************************************************************************)
LogInv ==
  /\ role \in {"leader", "follower"}
  /\ term \in 0..MaxTerm /\ clusterTerm \in 0..MaxTerm /\ term <= clusterTerm
  /\ log \in NodeLog /\ LastLogIndex(log) <= MaxLog
  /\ disk \in NodeLog /\ LastLogIndex(disk) <= MaxLog
  /\ commitIndex \in Nat /\ lastApplied \in Nat /\ dirty \in BOOLEAN
  /\ chosen \in Seq(Nat) /\ Len(chosen) <= MaxLog
  /\ commitIndex <= Len(chosen) /\ lastApplied <= Len(chosen)
  /\ cuts \in Nat /\ IndexesInOrder

\* What the goroutines remember is never ahead of the node.
LoopInv ==
  /\ loop \in [pc: {"top", "picked", "missing", "write", "raise", "skip", "tell", "notify"},
               idx: Index, result: Result]
  /\ loop.pc # "top" => loop.idx \in 1..Len(chosen) /\ loop.idx <= lastApplied + 1
  /\ loop.pc # "top" /\ cuts = 0 => loop.idx <= commitIndex

CompactorInv ==
  /\ compactor \in [pc: {"idle", "term", "trim", "flush"}, idx: Index, term: Int]
  /\ compactor.pc # "idle" => compactor.idx <= lastApplied
  /\ compactor.term \in Nat \cup {-1}

ShipInv ==
  /\ ship \in [pc: {"idle", "index", "term", "data", "send", "sent"}, idx: Index, term: Int,
               data: Seq(1..MaxLog), reqTerm: Nat, reqRole: {"none", "leader", "follower"}]
  /\ ship.pc \in {"term", "data"} => ship.idx <= lastApplied
  /\ nextIndex \in 1..(MaxLog + 1) /\ inFlight \in BOOLEAN

StoreShape ==
  /\ store \in Seq(1..MaxLog) /\ origin \in [idx: Index, data: Seq(1..MaxLog)]
  /\ raced \in BOOLEAN /\ mislabelled \in BOOLEAN /\ lacking \in BOOLEAN
ProposalShape == proposals \subseteq [idx: Index, term: Nat, pc: {"saving", "waiting"}, got: Result]
InstallShape ==
  installs \subseteq [idx: Index, data: Seq(1..MaxLog), stage: {"restore", "save"}]

\* A log's indexes are natural numbers.
LEMMA IndexNat ==
  ASSUME NEW l \in NodeLog
  PROVE  l.base \in Nat /\ LastLogIndex(l) \in Nat /\ l.base <= LastLogIndex(l)
BY DEF NodeLog, LastLogIndex

\* The chosen log c, extended with the entries of l up to i.
Extended(c, l, i) == c \o [k \in 1..(i - Len(c)) |-> LogTermAt(l, Len(c) + k)]

\* A node that commits an entry of its own extends the chosen log to it.
LEMMA ChosenExtended ==
  ASSUME NEW c \in Seq(Nat), NEW l \in NodeLog, NEW i \in Nat, HasEntry(l, i), Len(c) >= l.base
  PROVE  /\ Extended(c, l, i) \in Seq(Nat)
         /\ Len(Extended(c, l, i)) = IF i > Len(c) THEN i ELSE Len(c)
         /\ \A j \in 1..Len(c) : Extended(c, l, i)[j] = c[j]
         /\ \A j \in Nat : j > Len(c) /\ j <= i => Extended(c, l, i)[j] = LogTermAt(l, j)
<1> DEFINE n == IF i > Len(c) THEN i - Len(c) ELSE 0
           f == [k \in 1..n |-> LogTermAt(l, Len(c) + k)]
           d == Extended(c, l, i)
<1>1. /\ Len(c) \in Nat /\ n \in Nat /\ 1..n = 1..(i - Len(c))
      /\ i > Len(c) => n = i - Len(c)
      /\ ~(i > Len(c)) => n = 0
  OBVIOUS
<1> HIDE DEF n
<1>2. ASSUME NEW k \in 1..n PROVE LogTermAt(l, Len(c) + k) \in Nat
  <2>1. HasEntry(l, Len(c) + k) /\ Len(c) + k \in Nat
    <3>1. l.base \in Nat /\ LastLogIndex(l) \in Nat
      BY Zenon, IndexNat
    <3> QED
      BY <1>1, <3>1 DEF HasEntry
  <2> QED
    BY Zenon, <2>1, EntryTermAt
<1>3. f \in [1..n -> Nat]
  BY Zenon, <1>2
<1>4. d = c \o f
  BY Zenon, <1>1 DEF Extended
<1>5. \A k \in 1..n : f[k] = LogTermAt(l, Len(c) + k)
  BY Zenon
<1> HIDE DEF f, d
<1>6. f \in Seq(Nat) /\ Len(f) = n
  BY <1>1, <1>3
<1>7. /\ c \o f \in Seq(Nat) /\ Len(c \o f) = Len(c) + n
      /\ \A j \in 1..(Len(c) + n) :
           (c \o f)[j] = IF j <= Len(c) THEN c[j] ELSE f[j - Len(c)]
  <2>1. c \o f \in Seq(Nat) /\ Len(c \o f) = Len(c) + Len(f)
    BY SMTT(40), <1>6
  <2>2. \A j \in 1..(Len(c) + Len(f)) :
           (c \o f)[j] = IF j <= Len(c) THEN c[j] ELSE f[j - Len(c)]
    BY <1>6
  <2> QED
    BY Zenon, <1>6, <2>1, <2>2
<1>8. /\ d \in Seq(Nat) /\ Len(d) = Len(c) + n
      /\ \A j \in 1..(Len(c) + n) : d[j] = IF j <= Len(c) THEN c[j] ELSE f[j - Len(c)]
  BY Zenon, <1>4, <1>7
<1>9. ASSUME NEW j \in 1..Len(c) PROVE d[j] = c[j]
  <2>1. j \in 1..(Len(c) + n) /\ j <= Len(c)
    BY <1>1
  <2> QED
    BY Zenon, <1>8, <2>1
<1>10. ASSUME NEW j \in Nat, j > Len(c), j <= i
       PROVE  d[j] = LogTermAt(l, j)
  <2>1. /\ j - Len(c) \in 1..n /\ Len(c) + (j - Len(c)) = j
        /\ j \in 1..(Len(c) + n) /\ ~(j <= Len(c))
    BY <1>1, <1>10
  <2>2. d[j] = f[j - Len(c)]
    BY Zenon, <1>8, <2>1
  <2> QED
    BY Zenon, <1>5, <2>1, <2>2
<1>11. Len(d) = IF i > Len(c) THEN i ELSE Len(c)
  <2>1. Len(d) = Len(c) + n
    BY Zenon, <1>8
  <2>2. Len(c) + n = IF i > Len(c) THEN i ELSE Len(c)
    BY <1>1
  <2> QED
    BY Zenon, <2>1, <2>2
<1> QED
  BY Zenon, <1>8, <1>9, <1>10, <1>11 DEF d

\* What no step but a crash takes back.
Grows ==
  /\ lastApplied' >= lastApplied /\ log'.base >= log.base
  /\ cuts' = 0 => cuts = 0 /\ commitIndex' >= commitIndex
  /\ Len(chosen') >= Len(chosen) /\ \A j \in 1..Len(chosen) : chosen'[j] = chosen[j]

\* The numbers of LogInv.
LEMMA LogNumbers ==
  ASSUME LogInv
  PROVE  /\ {log.base, disk.base, lastApplied, commitIndex, LastLogIndex(log),
             LastLogIndex(disk), Len(chosen)} \subseteq Nat
         /\ MaxLog \in Nat /\ MaxTerm \in Nat
         /\ disk.base <= log.base /\ log.base <= lastApplied /\ log.base <= commitIndex
         /\ lastApplied <= Len(chosen) /\ commitIndex <= Len(chosen) /\ Len(chosen) <= MaxLog
         /\ cuts \in Nat
         /\ cuts = 0 => lastApplied <= commitIndex /\ commitIndex <= LastLogIndex(log)
         /\ log.base <= LastLogIndex(log) /\ LastLogIndex(log) <= MaxLog
         /\ disk.base <= LastLogIndex(disk)
BY SMTT(40), IndexNat, ApplyAssumption DEF LogInv, IndexesInOrder

\* The steps that leave the log, its file and the indexes alone.
LEMMA LogQuiet ==
  ASSUME LogInv, UNCHANGED <<log, disk, commitIndex, lastApplied, dirty, chosen, cuts>>,
         role' \in {"leader", "follower"}, term' \in 0..MaxTerm, clusterTerm' \in 0..MaxTerm,
         term' <= clusterTerm'
  PROVE  LogInv' /\ Grows
BY SMTT(40), LogNumbers DEF LogInv, IndexesInOrder, Grows

\* The steps that may save the log.
LEMMA LogSaved ==
  ASSUME LogInv, UNCHANGED <<role, term, clusterTerm, log, commitIndex, lastApplied, chosen, cuts>>,
         disk' \in {log, disk}, dirty' \in BOOLEAN
  PROVE  LogInv' /\ Grows
BY SMTT(40), LogNumbers DEF LogInv, IndexesInOrder, Grows

\* The steps that change the log or move an index, without a cut up to the end of
\* the log.
LEMMA LogMoved ==
  ASSUME LogInv, UNCHANGED <<disk, clusterTerm, chosen>>,
         role' \in {"leader", "follower"}, term' \in {term, clusterTerm}, dirty' \in BOOLEAN,
         log' \in NodeLog, LastLogIndex(log') <= MaxLog,
         commitIndex' \in Nat, lastApplied' \in Nat,
         log'.base >= log.base, lastApplied' >= lastApplied, cuts' \in {cuts, cuts + 1},
         log'.base <= lastApplied', log'.base <= commitIndex',
         commitIndex' <= Len(chosen), lastApplied' <= Len(chosen),
         cuts' = 0 => /\ commitIndex' >= commitIndex /\ lastApplied' <= commitIndex'
                      /\ commitIndex' <= LastLogIndex(log')
  PROVE  LogInv' /\ Grows
<1>1. log'.base \in Nat /\ LastLogIndex(log') \in Nat /\ cuts' \in Nat /\ (cuts' = 0 => cuts = 0)
  BY IndexNat, LogNumbers
<1>2. IndexesInOrder'
  BY SMTT(40), <1>1, LogNumbers DEF IndexesInOrder
<1>3. Grows
  BY <1>1 DEF LogInv, Grows
<1>4. term' \in 0..MaxTerm /\ term' <= clusterTerm'
  BY DEF LogInv
<1> QED
  BY Zenon, <1>1, <1>2, <1>3, <1>4 DEF LogInv

\* What a request makes of the log and of the commit index.
LEMMA AppendedFacts ==
  ASSUME LogInv, HandleAppendEntries
  PROVE  \E m \in Nat, lead \in Nat :
           /\ m >= log.base /\ m <= MaxLog
           /\ log' \in NodeLog /\ log'.base = log.base /\ log'.baseTerm = log.baseTerm
           /\ LastLogIndex(log') = m
           /\ \A i \in Nat : i > log.base /\ i <= m /\ i <= Len(chosen) => LogTermAt(log', i) = chosen[i]
           /\ lead >= commitIndex /\ lead <= Len(chosen)
           /\ commitIndex' = Advanced(commitIndex, lead, m)
<1>1. PICK m \in log.base..MaxLog, cmd \in Command, lead \in commitIndex..Len(chosen) :
        /\ log' = [log EXCEPT !.entries = LeaderEntries(m, cmd)]
        /\ commitIndex' = Advanced(commitIndex, lead, m)
  BY Zenon DEF HandleAppendEntries
<1>2. /\ m \in Nat /\ m <= MaxLog /\ m >= log.base
      /\ lead \in Nat /\ lead >= commitIndex /\ lead <= Len(chosen)
  BY SMTT(40), LogNumbers
<1>3. log \in NodeLog /\ chosen \in Seq(Nat) /\ clusterTerm \in Nat
  BY LogNumbers DEF LogInv
<1> DEFINE es == LeaderEntries(m, cmd)
<1>4. log' = [log EXCEPT !.entries = es]
  BY Zenon, <1>1
<1>5. /\ es \in Seq(Entry) /\ Len(es) = m - log.base
      /\ \A k \in 1..(m - log.base) : log.base + k <= Len(chosen) => es[k].term = chosen[log.base + k]
  BY Zenon, <1>2, <1>3, LeaderEntriesTerms
<1> HIDE DEF es
<1>6. /\ log' \in NodeLog /\ log'.base = log.base /\ log'.baseTerm = log.baseTerm
      /\ LastLogIndex(log') = m
      /\ \A i \in Nat : i > log.base /\ i <= m /\ i <= Len(chosen) => LogTermAt(log', i) = chosen[i]
  BY SMTT(40), <1>2, <1>3, <1>4, <1>5, LeaderEntriesFacts
<1> QED
  BY Zenon, <1>1, <1>2, <1>6

\* Following the leader's log.
LEMMA LogAppended ==
  ASSUME LogInv, HandleAppendEntries
  PROVE  LogInv' /\ Grows
<1>1. PICK m \in Nat, lead \in Nat :
        /\ m >= log.base /\ m <= MaxLog
        /\ log' \in NodeLog /\ log'.base = log.base /\ LastLogIndex(log') = m
        /\ lead >= commitIndex /\ lead <= Len(chosen)
        /\ commitIndex' = Advanced(commitIndex, lead, m)
  BY Zenon, AppendedFacts
<1>2. /\ commitIndex' \in Nat /\ commitIndex' <= lead
      /\ commitIndex' >= commitIndex \/ commitIndex' = m
      /\ m >= commitIndex => commitIndex' >= commitIndex /\ commitIndex' <= m
  BY Zenon, <1>1, LogNumbers, AdvancedFacts
<1>3. /\ role' \in {"leader", "follower"} /\ term' \in {term, clusterTerm}
      /\ UNCHANGED <<disk, clusterTerm, chosen, lastApplied>>
      /\ \/ LastLogIndex(log') >= commitIndex /\ UNCHANGED cuts
         \/ LastLogIndex(log') < commitIndex /\ cuts' = cuts + 1
  BY Zenon DEF HandleAppendEntries, FollowCluster, loopVars, clusterVars
<1>4. dirty' \in BOOLEAN
  BY Zenon DEF HandleAppendEntries, LogInv
<1>5. log'.base >= log.base /\ LastLogIndex(log') <= MaxLog /\ cuts' \in {cuts, cuts + 1}
  BY <1>1, <1>3, LogNumbers
<1>6. /\ lastApplied' \in Nat /\ lastApplied' >= lastApplied
      /\ log'.base <= lastApplied' /\ log'.base <= commitIndex'
      /\ commitIndex' <= Len(chosen) /\ lastApplied' <= Len(chosen)
  BY SMTT(40), <1>1, <1>2, <1>3, LogNumbers
<1>7. ASSUME cuts' = 0
      PROVE  /\ commitIndex' >= commitIndex /\ lastApplied' <= commitIndex'
             /\ commitIndex' <= LastLogIndex(log')
  <2>1. cuts = 0 /\ m >= commitIndex
    BY <1>1, <1>3, <1>7, LogNumbers
  <2> QED
    BY SMTT(40), <1>1, <1>2, <1>3, <2>1, LogNumbers
<1> QED
  BY Zenon, <1>1, <1>2, <1>3, <1>4, <1>5, <1>6, <1>7, LogMoved

\* Committing as a leader.
LEMMA LogCommitted ==
  ASSUME LogInv, MaybeCommit
  PROVE  LogInv' /\ Grows
<1>1. PICK i \in Index :
        /\ i > commitIndex /\ HasEntry(log, i)
        /\ commitIndex' = i
        /\ chosen' = chosen \o [k \in 1..(i - Len(chosen)) |-> LogTermAt(log, Len(chosen) + k)]
  BY Zenon DEF MaybeCommit
<1>2. chosen' = Extended(chosen, log, i)
  BY Zenon, <1>1 DEF Extended
<1>3. i \in Nat /\ i <= LastLogIndex(log) /\ log \in NodeLog /\ chosen \in Seq(Nat)
  BY <1>1, LogNumbers DEF Index, HasEntry, LogInv
<1>4. Len(chosen) >= log.base
  BY LogNumbers DEF LogInv
<1>5. /\ chosen' \in Seq(Nat)
      /\ Len(chosen') = IF i > Len(chosen) THEN i ELSE Len(chosen)
      /\ \A j \in 1..Len(chosen) : chosen'[j] = chosen[j]
  <2>1. HasEntry(log, i)
    BY Zenon, <1>1
  <2> QED
    BY Zenon, <1>2, <1>3, <1>4, <2>1, ChosenExtended
<1>6. commitIndex' = i /\ i > commitIndex
  BY Zenon, <1>1
<1>7. UNCHANGED <<role, term, log, dirty, disk, lastApplied, clusterTerm, cuts>>
  BY Zenon DEF MaybeCommit, loopVars, historyVars
<1>8. /\ Len(chosen') \in Nat /\ Len(chosen') <= MaxLog /\ i <= Len(chosen')
      /\ Len(chosen) <= Len(chosen') /\ lastApplied <= Len(chosen')
  <2>1. Len(chosen') = IF i > Len(chosen) THEN i ELSE Len(chosen)
    BY Zenon, <1>5
  <2>2. Len(chosen) <= MaxLog /\ i <= MaxLog
    BY <1>3, LogNumbers DEF LogInv
  <2> QED
    BY SMTT(30), <1>3, <2>1, <2>2, LogNumbers
<1>9. IndexesInOrder'
  <2>1. LastLogIndex(log)' = LastLogIndex(log) /\ log'.base = log.base /\ disk'.base = disk.base
    BY Zenon, <1>7
  <2> QED
    BY <1>3, <1>6, <1>7, <2>1, LogNumbers DEF IndexesInOrder
<1>10. Grows
  <2>1. \A j \in 1..Len(chosen) : chosen'[j] = chosen[j]
    BY Zenon, <1>5
  <2>2. /\ lastApplied' >= lastApplied /\ log'.base >= log.base
        /\ cuts' = 0 => cuts = 0 /\ commitIndex' >= commitIndex
    BY <1>3, <1>6, <1>7, LogNumbers
  <2> QED
    BY Zenon, <1>8, <2>1, <2>2 DEF Grows
<1> QED
  BY Zenon, <1>3, <1>5, <1>6, <1>7, <1>8, <1>9, <1>10 DEF LogInv

\* The rest of the cluster commits one entry more.
LEMMA LogOvertaken ==
  ASSUME LogInv, CommitElsewhere
  PROVE  LogInv' /\ Grows /\ Len(chosen') = Len(chosen) + 1
<1>1. UNCHANGED <<role, term, log, commitIndex, dirty, disk, lastApplied, clusterTerm, cuts>>
  BY Zenon DEF CommitElsewhere, raftVars, loopVars, historyVars
<1>2. PICK t \in Nat : chosen' = Append(chosen, t)
  <2>1. CASE chosen' = Append(chosen, clusterTerm)
    BY <2>1, LogNumbers DEF LogInv
  <2>2. CASE /\ HasEntry(log, Len(chosen) + 1)
             /\ chosen' = Append(chosen, LogTermAt(log, Len(chosen) + 1))
    <3>1. LogTermAt(log, Len(chosen) + 1) \in Nat
      BY <2>2, EntryTermAt, LogNumbers DEF LogInv
    <3> QED
      BY Zenon, <2>2, <3>1
  <2> QED
    BY Zenon, <2>1, <2>2 DEF CommitElsewhere
<1>3. /\ chosen' \in Seq(Nat) /\ Len(chosen') = Len(chosen) + 1
      /\ \A j \in 1..Len(chosen) : chosen'[j] = chosen[j]
  BY <1>2 DEF LogInv
<1>4. Len(chosen) < MaxLog
  BY Zenon DEF CommitElsewhere
<1>5. LastLogIndex(log)' = LastLogIndex(log) /\ LastLogIndex(disk)' = LastLogIndex(disk)
  BY Zenon, <1>1
<1>6. IndexesInOrder'
  BY Zenon, <1>1, <1>5 DEF LogInv, IndexesInOrder
<1>7. /\ Len(chosen') \in Nat /\ Len(chosen') <= MaxLog /\ Len(chosen') >= Len(chosen)
      /\ commitIndex' <= Len(chosen') /\ lastApplied' <= Len(chosen')
  BY SMTT(40), <1>1, <1>3, <1>4, LogNumbers DEF LogInv
<1>8. Grows
  <2>1. /\ lastApplied' >= lastApplied /\ log'.base >= log.base
        /\ cuts' = 0 => cuts = 0 /\ commitIndex' >= commitIndex
    BY <1>1, LogNumbers
  <2> QED
    BY Zenon, <1>3, <1>7, <2>1 DEF Grows
<1>9. LogInv'
  BY Zenon, <1>1, <1>3, <1>5, <1>6, <1>7 DEF LogInv
<1> QED
  BY Zenon, <1>3, <1>8, <1>9

\* A proposal.
LEMMA LogProposed ==
  ASSUME LogInv, ProposeWait
  PROVE  LogInv' /\ Grows
<1>1. PICK cmd \in Command : log' = AppendEntry(log, [term |-> term, cmd |-> cmd])
  BY Zenon DEF ProposeWait
<1> DEFINE e == [term |-> term, cmd |-> cmd]
<1>2. e \in Entry
  BY DEF Entry, LogInv
<1>3. log \in NodeLog
  BY Zenon DEF LogInv
<1> HIDE DEF e
<1>4. log' \in NodeLog /\ log'.base = log.base /\ LastLogIndex(log') = LastLogIndex(log) + 1
  <2>1. log' = AppendEntry(log, e)
    BY Zenon, <1>1 DEF e
  <2> QED
    BY Zenon, <1>2, <1>3, <2>1, ProposedFacts
<1>5. /\ UNCHANGED <<role, term, commitIndex, disk, lastApplied, clusterTerm, chosen, cuts>>
      /\ dirty' \in BOOLEAN /\ LastLogIndex(log) < MaxLog
  BY Zenon DEF ProposeWait, loopVars, clusterVars, historyVars
<1>6. role' \in {"leader", "follower"} /\ term' \in {term, clusterTerm}
  BY Zenon, <1>5 DEF LogInv
<1>7. /\ log'.base >= log.base /\ LastLogIndex(log') <= MaxLog
      /\ cuts' = 0 => /\ commitIndex' >= commitIndex /\ lastApplied' <= commitIndex'
                      /\ commitIndex' <= LastLogIndex(log')
  BY SMTT(40), <1>4, <1>5, LogNumbers
<1>8. /\ commitIndex' \in Nat /\ lastApplied' \in Nat /\ lastApplied' >= lastApplied
      /\ log'.base <= lastApplied' /\ log'.base <= commitIndex'
      /\ commitIndex' <= Len(chosen) /\ lastApplied' <= Len(chosen) /\ cuts' \in {cuts, cuts + 1}
  BY SMTT(40), <1>4, <1>5, LogNumbers
<1> QED
  BY Zenon, <1>4, <1>5, <1>6, <1>7, <1>8, LogMoved

\* The first half of an install adopts the base, or leaves the log alone.
LEMMA InstalledFacts ==
  ASSUME LogInv, HandleInstallSnapshot
  PROVE  \/ UNCHANGED <<log, commitIndex, lastApplied, dirty, mislabelled>>
         \/ \E s \in 1..Len(chosen), t \in Nat \cup {-1} :
              /\ s > lastApplied /\ s > log.base /\ s \in Nat
              /\ log' = InstallBase(log, s, t) /\ log' \in NodeLog
              /\ log'.base = s /\ log'.baseTerm = t
              /\ LastLogIndex(log') = IF s > LastLogIndex(log) THEN s ELSE LastLogIndex(log)
              /\ commitIndex' = Raised(commitIndex, s) /\ lastApplied' = s /\ dirty' = TRUE
              /\ mislabelled' = (mislabelled \/ t # chosen[s])
<1> DEFINE Adopts(s, t) ==
             IF s > lastApplied
             THEN /\ log' = InstallBase(log, s, t)
                  /\ commitIndex' = Raised(commitIndex, s)
                  /\ lastApplied' = Raised(lastApplied, s)
                  /\ dirty' = TRUE
                  /\ mislabelled' = (mislabelled \/ t # chosen[s])
             ELSE UNCHANGED <<log, commitIndex, lastApplied, dirty, mislabelled>>
<1>0. PICK s \in 1..Len(chosen) : \E t \in WrongTerm \cup {chosen[s]} : Adopts(s, t)
  BY Zenon DEF HandleInstallSnapshot
<1>1. PICK t \in WrongTerm \cup {chosen[s]} : Adopts(s, t)
  BY Zenon, <1>0
<1>2. CASE ~(s > lastApplied)
  BY Zenon, <1>1, <1>2
<1>3. CASE s > lastApplied
  <2>1. log \in NodeLog /\ chosen \in Seq(Nat)
    BY Zenon DEF LogInv
  <2>2. s \in Nat /\ s > log.base /\ chosen[s] \in Nat /\ lastApplied < s
    BY SMTT(40), <1>3, <2>1, LogNumbers
  <2>3. t \in Nat \cup {-1}
    BY Zenon, <2>2, ApplyAssumption
  <2>4. log' = InstallBase(log, s, t) /\ lastApplied' = s
    BY Zenon, <1>1, <1>3, <2>2 DEF Raised
  <2>5. /\ log' \in NodeLog /\ log'.base = s /\ log'.baseTerm = t
        /\ LastLogIndex(log') = IF s > LastLogIndex(log) THEN s ELSE LastLogIndex(log)
    BY SMTT(40), <2>1, <2>2, <2>3, <2>4, InstallBaseFacts
  <2> QED
    BY Zenon, <1>1, <1>3, <2>2, <2>3, <2>4, <2>5
<1> QED
  BY Zenon, <1>2, <1>3

\* The order of the indexes after it.
LEMMA LogInstalled ==
  ASSUME LogInv, HandleInstallSnapshot
  PROVE  LogInv' /\ Grows
<1>1. /\ role' \in {"leader", "follower"} /\ term' \in {term, clusterTerm}
      /\ UNCHANGED <<disk, clusterTerm, chosen, cuts>>
  BY Zenon DEF HandleInstallSnapshot, FollowCluster, clusterVars
<1>2. CASE UNCHANGED <<log, commitIndex, lastApplied, dirty>>
  <2>1. term' \in 0..MaxTerm /\ clusterTerm' \in 0..MaxTerm /\ term' <= clusterTerm'
    BY <1>1 DEF LogInv
  <2> QED
    BY Zenon, <1>1, <1>2, <2>1, LogQuiet
<1>3. CASE \E s \in 1..Len(chosen) :
             /\ s > lastApplied /\ s > log.base /\ s \in Nat
             /\ log' \in NodeLog /\ log'.base = s
             /\ LastLogIndex(log') = IF s > LastLogIndex(log) THEN s ELSE LastLogIndex(log)
             /\ commitIndex' = Raised(commitIndex, s) /\ lastApplied' = s /\ dirty' = TRUE
  <2>1. PICK s \in 1..Len(chosen) :
             /\ s > lastApplied /\ s > log.base /\ s \in Nat
             /\ log' \in NodeLog /\ log'.base = s
             /\ LastLogIndex(log') = IF s > LastLogIndex(log) THEN s ELSE LastLogIndex(log)
             /\ commitIndex' = Raised(commitIndex, s) /\ lastApplied' = s /\ dirty' = TRUE
    BY Zenon, <1>3
  <2>2. commitIndex' = IF commitIndex < s THEN s ELSE commitIndex
    BY Zenon, <2>1 DEF Raised
  <2>3. s <= Len(chosen) /\ s > lastApplied /\ s > log.base
    BY <2>1, LogNumbers
  <2>4. LastLogIndex(log') = IF s > LastLogIndex(log) THEN s ELSE LastLogIndex(log)
    BY Zenon, <2>1
  <2>5. /\ commitIndex' \in Nat /\ LastLogIndex(log') <= MaxLog
        /\ commitIndex' <= Len(chosen) /\ s <= commitIndex' /\ commitIndex' >= commitIndex
        /\ cuts = 0 => commitIndex' <= LastLogIndex(log')
    BY SMTT(40), <2>1, <2>2, <2>3, <2>4, LogNumbers
  <2>6. /\ lastApplied' \in Nat /\ log'.base >= log.base /\ lastApplied' >= lastApplied
        /\ cuts' \in {cuts, cuts + 1}
        /\ log'.base <= lastApplied' /\ log'.base <= commitIndex' /\ lastApplied' <= Len(chosen)
        /\ lastApplied' <= commitIndex'
    BY <1>1, <2>1, <2>3, <2>5, LogNumbers
  <2> QED
    BY Zenon, <1>1, <2>1, <2>5, <2>6, LogMoved
<1> QED
  BY Zenon, <1>2, <1>3, InstalledFacts

\* CompactLog moves the base to an index that was applied when the compactor read
\* it, and leaves lastApplied where it is.
LEMMA TrimmedFacts ==
  ASSUME LogInv, CompactorInv, CompactLog
  PROVE  /\ compactor.pc = "trim" /\ compactor.idx \in Nat /\ compactor.idx <= lastApplied
         /\ lastApplied' = lastApplied
         /\ \/ /\ ~(compactor.idx > log.base)
               /\ UNCHANGED <<log, commitIndex, dirty, mislabelled>>
            \/ /\ compactor.idx > log.base
               /\ log' \in NodeLog /\ log'.base = compactor.idx
               /\ LastLogIndex(log') =
                    IF compactor.idx > LastLogIndex(log) THEN compactor.idx ELSE LastLogIndex(log)
               /\ HasEntry(log, compactor.idx) =>
                    log'.baseTerm \in {compactor.term, LogTermAt(log, compactor.idx)}
               /\ \A i \in Nat : i > compactor.idx /\ i <= LastLogIndex(log) =>
                    LogTermAt(log', i) = LogTermAt(log, i)
               /\ commitIndex' = Raised(commitIndex, compactor.idx) /\ dirty' = TRUE
               /\ mislabelled' = (mislabelled \/ cuts > 0)
<1>1. compactor.pc = "trim" /\ compactor.idx \in Nat /\ compactor.idx <= lastApplied
  BY LogNumbers DEF CompactLog, CompactorInv, Index
<1>2. CASE ~(compactor.idx > log.base)
  <2>1. UNCHANGED <<log, commitIndex, lastApplied, dirty, mislabelled>>
    BY Zenon, <1>2 DEF CompactLog
  <2> QED
    BY Zenon, <1>1, <1>2, <2>1
<1>3. CASE compactor.idx > log.base
  <2>1. /\ log' = Compacted(log, compactor.idx, compactor.term)
        /\ commitIndex' = Raised(commitIndex, compactor.idx)
        /\ lastApplied' = Raised(lastApplied, compactor.idx)
        /\ dirty' = TRUE /\ mislabelled' = (mislabelled \/ cuts > 0)
    BY Zenon, <1>3 DEF CompactLog
  <2>2. compactor.term \in Nat \cup {-1} /\ log \in NodeLog
    BY Zenon DEF CompactorInv, LogInv
  <2>3. /\ log' \in NodeLog /\ log'.base = compactor.idx
        /\ LastLogIndex(log') =
             IF compactor.idx > LastLogIndex(log) THEN compactor.idx ELSE LastLogIndex(log)
        /\ HasEntry(log, compactor.idx) =>
             log'.baseTerm \in {compactor.term, LogTermAt(log, compactor.idx)}
        /\ \A i \in Nat : i > compactor.idx /\ i <= LastLogIndex(log) =>
             LogTermAt(log', i) = LogTermAt(log, i)
    BY SMTT(40), <1>1, <1>3, <2>1, <2>2, CompactedFacts
  <2>4. lastApplied' = lastApplied
    BY <1>1, <2>1, LogNumbers DEF Raised
  <2> QED
    BY Zenon, <1>1, <1>3, <2>1, <2>3, <2>4
<1> QED
  BY Zenon, <1>2, <1>3

\* The order of the indexes after it.
LEMMA LogCompacted ==
  ASSUME LogInv, CompactorInv, CompactLog
  PROVE  LogInv' /\ Grows
<1>1. /\ UNCHANGED <<role, term, disk, clusterTerm, chosen, cuts>>
      /\ compactor.idx \in Nat /\ compactor.idx <= lastApplied /\ lastApplied' = lastApplied
  BY Zenon, TrimmedFacts DEF CompactLog, clusterVars
<1>2. /\ role' \in {"leader", "follower"} /\ term' \in {term, clusterTerm}
      /\ term' \in 0..MaxTerm /\ clusterTerm' \in 0..MaxTerm /\ term' <= clusterTerm'
  BY Zenon, <1>1 DEF LogInv
<1>3. CASE UNCHANGED <<log, commitIndex, dirty>>
  BY Zenon, <1>1, <1>2, <1>3, LogQuiet
<1>4. CASE /\ compactor.idx > log.base
           /\ log' \in NodeLog /\ log'.base = compactor.idx
           /\ LastLogIndex(log') =
                IF compactor.idx > LastLogIndex(log) THEN compactor.idx ELSE LastLogIndex(log)
           /\ commitIndex' = Raised(commitIndex, compactor.idx) /\ dirty' = TRUE
  <2>1. commitIndex' = IF commitIndex < compactor.idx THEN compactor.idx ELSE commitIndex
    BY Zenon, <1>4 DEF Raised
  <2>2. /\ commitIndex' \in Nat /\ commitIndex' >= commitIndex /\ compactor.idx <= commitIndex'
        /\ commitIndex' <= Len(chosen)
    BY SMTT(40), <1>1, <2>1, LogNumbers
  <2>3. LastLogIndex(log') =
          IF compactor.idx > LastLogIndex(log) THEN compactor.idx ELSE LastLogIndex(log)
    BY Zenon, <1>4
  <2>4. LastLogIndex(log') <= MaxLog /\ LastLogIndex(log') >= LastLogIndex(log) /\ LastLogIndex(log') \in Nat
    BY SMTT(40), <1>1, <2>3, LogNumbers
  <2>5. /\ lastApplied' \in Nat /\ log'.base >= log.base /\ lastApplied' >= lastApplied
        /\ cuts' \in {cuts, cuts + 1}
        /\ log'.base <= lastApplied' /\ log'.base <= commitIndex' /\ lastApplied' <= Len(chosen)
    BY <1>1, <1>4, <2>2, LogNumbers
  <2>6. cuts' = 0 => lastApplied' <= commitIndex' /\ commitIndex' <= LastLogIndex(log')
    <3>1. cuts = 0 => commitIndex' = commitIndex
      BY SMTT(40), <1>1, <2>1, LogNumbers
    <3> QED
      BY SMTT(40), <1>1, <2>4, <3>1, LogNumbers
  <2> QED
    BY Zenon, <1>1, <1>2, <1>4, <2>2, <2>4, <2>5, <2>6, LogMoved
<1> QED
  BY Zenon, <1>3, <1>4, TrimmedFacts

\* The loop raises lastApplied to an index it found committed, written or not.
LEMMA LogRaised ==
  ASSUME LogInv, LoopInv, Raise \/ Skip
  PROVE  LogInv' /\ Grows
<1>1. /\ UNCHANGED <<role, term, log, commitIndex, dirty, disk, clusterTerm, chosen, cuts>>
      /\ lastApplied' = Raised(lastApplied, loop.idx)
      /\ loop.idx \in 1..Len(chosen)
      /\ cuts = 0 => loop.idx <= commitIndex
  BY Zenon DEF Raise, Skip, raftVars, clusterVars, historyVars, LoopInv
<1>2. /\ lastApplied' \in Nat /\ lastApplied' >= lastApplied /\ lastApplied' <= Len(chosen)
      /\ cuts = 0 => lastApplied' <= commitIndex
  BY SMTT(40), <1>1, LogNumbers DEF Raised
<1>3. LastLogIndex(log') = LastLogIndex(log)
  BY Zenon, <1>1
<1>4. /\ role' \in {"leader", "follower"} /\ term' \in {term, clusterTerm} /\ dirty' \in BOOLEAN
      /\ log' \in NodeLog /\ commitIndex' <= Len(chosen)
  BY Zenon, <1>1 DEF LogInv
<1>5. /\ log'.base >= log.base /\ cuts' \in {cuts, cuts + 1} /\ LastLogIndex(log') <= MaxLog
      /\ commitIndex' \in Nat /\ log'.base <= lastApplied' /\ log'.base <= commitIndex'
      /\ cuts' = 0 => /\ commitIndex' >= commitIndex /\ lastApplied' <= commitIndex'
                      /\ commitIndex' <= LastLogIndex(log')
  BY SMTT(40), <1>1, <1>2, <1>3, LogNumbers
<1> QED
  BY Zenon, <1>1, <1>2, <1>4, <1>5, LogMoved

\* A restart takes the saved base for applied and committed.
LEMMA LogRestarted ==
  ASSUME LogInv, CrashAndRestart
  PROVE  LogInv'
<1>1. /\ role' = "follower" /\ log' = disk /\ commitIndex' = disk.base /\ lastApplied' = disk.base
      /\ dirty' = FALSE /\ UNCHANGED <<term, disk, chosen, clusterTerm, cuts>>
  BY Zenon DEF CrashAndRestart, RestoredIndex, clusterVars
<1>2. LastLogIndex(log') = LastLogIndex(disk) /\ LastLogIndex(disk') = LastLogIndex(disk)
  BY Zenon, <1>1
<1>3. IndexesInOrder'
  BY SMTT(30), <1>1, <1>2, LogNumbers DEF IndexesInOrder
<1>4. commitIndex' <= Len(chosen') /\ lastApplied' <= Len(chosen')
  BY SMTT(40), <1>1, LogNumbers DEF LogInv
<1> QED
  BY ZenonT(30), <1>1, <1>2, <1>3, <1>4, LogNumbers DEF LogInv

\* Whoever calls persist, the file takes the log or stays as it is.
LEMMA SavedOrNot ==
  ASSUME LogInv, Persist \/ PersistFails \/ PersistOrLog
  PROVE  disk' \in {log, disk} /\ dirty' \in BOOLEAN
BY Zenon DEF Persist, PersistFails, PersistOrLog, LogInv

\* Each step keeps the order of the indexes, and only a crash takes any of them back.
LEMMA LogStep ==
  ASSUME LogInv, LoopInv, CompactorInv, Next
  PROVE  LogInv' /\ (Grows \/ CrashAndRestart)
<1> DEFINE Terms == /\ role' \in {"leader", "follower"} /\ term' \in 0..MaxTerm
                    /\ clusterTerm' \in 0..MaxTerm /\ term' <= clusterTerm'
           Quiet == UNCHANGED <<log, disk, commitIndex, lastApplied, dirty, chosen, cuts>>
           Same == UNCHANGED <<role, term, clusterTerm, log, commitIndex, lastApplied, chosen, cuts>>
<1>1. CASE ElectOther \/ BecomeLeader \/ StepDown \/ ShipRefused
  <2>1. Quiet
    BY Zenon, <1>1 DEF ElectOther, BecomeLeader, StepDown, ShipRefused, raftVars, loopVars, clusterVars,
      historyVars
  <2>2. Terms
    BY SMTT(40), <1>1, LogNumbers DEF ElectOther, BecomeLeader, StepDown, ShipRefused, FollowCluster,
      raftVars, clusterVars, LogInv
  <2> QED
    BY Zenon, <2>1, <2>2, LogQuiet
<1>2. CASE CommitElsewhere
  BY Zenon, <1>2, LogOvertaken
<1>3. CASE HandleAppendEntries
  BY Zenon, <1>3, LogAppended
<1>4. CASE MaybeCommit
  BY Zenon, <1>4, LogCommitted
<1>5. CASE ProposeWait
  BY Zenon, <1>5, LogProposed
<1>6. CASE HandleInstallSnapshot
  BY Zenon, <1>6, LogInstalled
<1>7. CASE CompactLog
  BY Zenon, <1>7, LogCompacted
<1>8. CASE Raise \/ Skip
  BY Zenon, <1>8, LogRaised
<1>9. CASE CrashAndRestart
  BY Zenon, <1>9, LogRestarted
<1>10. CASE PersistElsewhere \/ Flush
  <2>1. Same
    BY Zenon, <1>10 DEF PersistElsewhere, Flush, loopVars, clusterVars, historyVars
  <2>2. disk' \in {log, disk} /\ dirty' \in BOOLEAN
    BY Zenon, <1>10, SavedOrNot DEF PersistElsewhere, Flush
  <2> QED
    BY Zenon, <2>1, <2>2, LogSaved
<1>11. ASSUME NEW p \in proposals, ProposalSaved(p) \/ ProposalUnsaved(p)
       PROVE  LogInv' /\ Grows
  <2>1. Same
    BY Zenon, <1>11 DEF ProposalSaved, ProposalUnsaved, loopVars, clusterVars, historyVars
  <2>2. disk' \in {log, disk} /\ dirty' \in BOOLEAN
    BY Zenon, <1>11, SavedOrNot DEF ProposalSaved, ProposalUnsaved
  <2> QED
    BY Zenon, <2>1, <2>2, LogSaved
<1>12. ASSUME NEW h \in installs, InstallSaved(h)
       PROVE  LogInv' /\ Grows
  <2>1. Same
    BY Zenon, <1>12 DEF InstallSaved, loopVars, clusterVars, historyVars
  <2>2. disk' \in {log, disk} /\ dirty' \in BOOLEAN
    BY Zenon, <1>12, SavedOrNot DEF InstallSaved
  <2> QED
    BY Zenon, <2>1, <2>2, LogSaved
<1>13. ASSUME Quiet, UNCHANGED <<role, term, clusterTerm>>
       PROVE  LogInv' /\ Grows
  <2>1. Terms
    BY Zenon, <1>13 DEF LogInv
  <2> QED
    BY Zenon, <1>13, <2>1, LogQuiet
<1>14. CASE \/ \E p \in proposals : ProposalAnswered(p) \/ ProposalTimesOut(p)
            \/ Pick \/ Recheck \/ ApplyCmd \/ Notify
            \/ \E h \in installs : Restore(h)
  BY Zenon, <1>13, <1>14 DEF ProposalAnswered, ProposalTimesOut, Pick, Recheck, ApplyCmd, Notify, Restore,
    raftVars, loopVars, clusterVars, historyVars
<1>15. CASE \/ CompactorTick \/ CompactorStore
            \/ AppendCall \/ ShipStart \/ ShipIndex \/ ShipTerm \/ ShipData \/ ShipSkip \/ ShipSend
            \/ ShipLost \/ ShipAcked
  BY Zenon, <1>13, <1>15 DEF CompactorTick, CompactorStore, AppendCall, ShipStart, ShipIndex, ShipTerm,
    ShipData, ShipSkip, ShipSend, ShipLost, ShipAcked, compactorUnchanged, shipUnchanged,
    raftVars, loopVars, clusterVars, historyVars
<1> HIDE DEF Quiet, Same, Terms
<1> QED
  BY Zenon, <1>1, <1>2, <1>3, <1>4, <1>5, <1>6, <1>7, <1>8, <1>9, <1>10, <1>11, <1>12, <1>14, <1>15 DEF Next

(***************************************************************************)
(* Who changes what.                                                       *)
(***************************************************************************)
RaftSteps ==
  /\ \/ ElectOther \/ CommitElsewhere \/ BecomeLeader \/ StepDown \/ HandleAppendEntries
     \/ MaybeCommit \/ PersistElsewhere
  /\ UNCHANGED <<lastApplied, store, loop, proposals, installs, compactor, ship, nextIndex,
                 inFlight, crashes, storeErrors, mislabelled, lacking, origin>>

ProposalSteps ==
  /\ \/ ProposeWait
     \/ \E p \in proposals : \/ ProposalSaved(p) \/ ProposalUnsaved(p)
                             \/ ProposalAnswered(p) \/ ProposalTimesOut(p)
  /\ UNCHANGED <<lastApplied, store, loop, installs, compactor, ship, nextIndex, inFlight,
                 role, term, commitIndex, chosen, clusterTerm, crashes, storeErrors,
                 cuts, mislabelled, lacking, origin>>

LoopSteps ==
  /\ Pick \/ Recheck \/ Skip \/ ApplyCmd \/ Raise \/ Notify
  /\ UNCHANGED <<raftVars, disk, installs, compactor, ship, nextIndex, inFlight, chosen,
                 clusterTerm, crashes, cuts, mislabelled, origin>>

InstallSteps ==
  /\ HandleInstallSnapshot \/ \E h \in installs : Restore(h) \/ InstallSaved(h)
  /\ UNCHANGED <<loop, proposals, compactor, ship, nextIndex, inFlight, chosen, clusterTerm,
                 crashes, cuts>>

CompactorSteps ==
  /\ CompactorTick \/ CompactorStore \/ CompactLog \/ Flush
  /\ UNCHANGED <<store, loop, proposals, installs, ship, nextIndex, inFlight, role, term,
                 chosen, clusterTerm, crashes, storeErrors, cuts, lacking, origin>>

ShipSteps ==
  /\ \/ AppendCall \/ ShipStart \/ ShipIndex \/ ShipTerm \/ ShipData \/ ShipSkip \/ ShipSend
     \/ ShipLost \/ ShipRefused \/ ShipAcked
  /\ UNCHANGED <<log, commitIndex, dirty, disk, lastApplied, store, loop, proposals, installs,
                 compactor, chosen, clusterTerm, crashes, storeErrors, cuts, mislabelled,
                 lacking, origin>>

\* Each step belongs to one goroutine, and leaves what belongs to the others.
LEMMA StepGroups ==
  ASSUME Next
  PROVE  RaftSteps \/ ProposalSteps \/ LoopSteps \/ InstallSteps \/ CompactorSteps \/ ShipSteps
         \/ CrashAndRestart
<1> USE DEF raftVars, loopVars, shipVars, clusterVars, faultVars, installVars, historyVars
<1>1. ASSUME \/ ElectOther \/ CommitElsewhere \/ BecomeLeader \/ StepDown \/ HandleAppendEntries
             \/ MaybeCommit \/ PersistElsewhere
      PROVE  RaftSteps
  BY ZenonT(30), <1>1 DEF RaftSteps, ElectOther, CommitElsewhere, BecomeLeader, StepDown,
    HandleAppendEntries, MaybeCommit, PersistElsewhere
<1>2. ASSUME ProposeWait PROVE ProposalSteps
  BY Zenon, <1>2 DEF ProposalSteps, ProposeWait
<1>3. ASSUME NEW p \in proposals, \/ ProposalSaved(p) \/ ProposalUnsaved(p)
                                  \/ ProposalAnswered(p) \/ ProposalTimesOut(p)
      PROVE  ProposalSteps
  <2>1. UNCHANGED <<lastApplied, store, loop, installs, compactor, ship, nextIndex, inFlight,
                 role, term, commitIndex, chosen, clusterTerm, crashes, storeErrors,
                 cuts, mislabelled, lacking, origin>>
    BY Zenon, <1>3 DEF ProposalSaved, ProposalUnsaved, ProposalAnswered, ProposalTimesOut
  <2> QED
    BY Zenon, <1>3, <2>1 DEF ProposalSteps
<1>4. ASSUME Pick \/ Recheck \/ Skip \/ ApplyCmd \/ Raise \/ Notify PROVE LoopSteps
  BY Zenon, <1>4 DEF LoopSteps, Pick, Recheck, Skip, ApplyCmd, Raise, Notify
<1>5. ASSUME HandleInstallSnapshot PROVE InstallSteps
  BY Zenon, <1>5 DEF InstallSteps, HandleInstallSnapshot
<1>6. ASSUME NEW h \in installs, Restore(h) \/ InstallSaved(h) PROVE InstallSteps
  <2>1. UNCHANGED <<loop, proposals, compactor, ship, nextIndex, inFlight, chosen, clusterTerm,
                 crashes, cuts>>
    BY Zenon, <1>6 DEF Restore, InstallSaved
  <2> QED
    BY Zenon, <1>6, <2>1 DEF InstallSteps
<1>7. ASSUME CompactorTick \/ CompactorStore \/ CompactLog \/ Flush PROVE CompactorSteps
  BY Zenon, <1>7 DEF CompactorSteps, CompactorTick, CompactorStore, CompactLog, Flush, compactorUnchanged
<1>8. ASSUME \/ AppendCall \/ ShipStart \/ ShipIndex \/ ShipTerm \/ ShipData \/ ShipSkip
             \/ ShipSend \/ ShipLost \/ ShipRefused \/ ShipAcked
      PROVE  ShipSteps
  BY Zenon, <1>8 DEF ShipSteps, AppendCall, ShipStart, ShipIndex, ShipTerm, ShipData, ShipSkip,
    ShipSend, ShipLost, ShipRefused, ShipAcked, shipUnchanged
<1> QED
  BY Zenon, <1>1, <1>2, <1>3, <1>4, <1>5, <1>6, <1>7, <1>8 DEF Next

(***************************************************************************)
(* The goroutines.                                                         *)
(***************************************************************************)
\* The index the loop picks is committed, and the entry it finds has a term.
LEMMA PickFinds ==
  ASSUME LogInv, lastApplied < commitIndex
  PROVE  /\ lastApplied + 1 \in Index /\ lastApplied + 1 \in 1..Len(chosen)
         /\ lastApplied + 1 <= commitIndex
         /\ HasEntry(log, lastApplied + 1) =>
              /\ EntryAt(log, lastApplied + 1).term \in Nat
              /\ EntryAt(log, lastApplied + 1).term = LogTermAt(log, lastApplied + 1)
<1>1. /\ lastApplied + 1 \in Index /\ lastApplied + 1 \in 1..Len(chosen)
      /\ lastApplied + 1 <= commitIndex /\ lastApplied + 1 \in Nat
  BY SMTT(40), LogNumbers DEF Index
<1>2. log \in NodeLog
  BY Zenon DEF LogInv
<1> QED
  BY Zenon, <1>1, <1>2, EntryTermAt

\* What a step of the loop makes of its place: it picks, it goes on with the same
\* index, or it is back at the top.
LEMMA LoopMoves ==
  ASSUME LoopSteps, LoopInv, LogInv
  PROVE  \/ Pick /\ loop'.pc \in {"picked", "missing"} /\ loop'.idx = lastApplied + 1
            /\ loop' \in [pc: {"picked", "missing"}, idx: Index, result: Result]
         \/ /\ loop.pc # "top" /\ loop'.pc # "top" /\ loop'.idx = loop.idx
            /\ loop'.result.idx = loop.result.idx /\ loop'.result.term = loop.result.term
            /\ loop'.result.kind = "value" => loop.result.kind = "value"
            /\ loop' \in [pc: {"write", "raise", "skip", "tell", "notify"}, idx: Index, result: Result]
         \/ Notify /\ loop' = AtTop
<1>1. CASE Pick
  <2>1. lastApplied < commitIndex
    BY Zenon, <1>1 DEF Pick
  <2>2. CASE /\ HasEntry(log, lastApplied + 1)
             /\ loop' = [pc |-> "picked", idx |-> lastApplied + 1,
                         result |-> [kind |-> "value", idx |-> lastApplied + 1,
                                     term |-> EntryAt(log, lastApplied + 1).term]]
    BY Zenon, <1>1, <2>1, <2>2, PickFinds DEF Result
  <2>3. CASE loop' = [pc |-> "missing", idx |-> lastApplied + 1,
                      result |-> [kind |-> "none", idx |-> lastApplied + 1, term |-> 0]]
    <3>1. 0 \in Nat
      OBVIOUS
    <3> QED
      BY Zenon, <1>1, <2>1, <2>3, <3>1, PickFinds DEF Result
  <2> QED
    BY Zenon, <1>1, <2>2, <2>3 DEF Pick
<1>2. CASE Recheck \/ Skip \/ ApplyCmd \/ Raise
  <2>1. /\ loop.pc # "top"
        /\ \E pc \in {"write", "raise", "skip", "tell", "notify"}, k \in {"none", "error"} :
             \/ loop' = [loop EXCEPT !.pc = pc]
             \/ loop' = [loop EXCEPT !.pc = pc, !.result.kind = k]
    BY Zenon, <1>2 DEF Recheck, Skip, ApplyCmd, Raise
  <2>2. PICK pc \in {"write", "raise", "skip", "tell", "notify"}, k \in {"none", "error"} :
             \/ loop' = [loop EXCEPT !.pc = pc]
             \/ loop' = [loop EXCEPT !.pc = pc, !.result.kind = k]
    BY Zenon, <2>1
  <2>3. CASE loop' = [loop EXCEPT !.pc = pc]
    BY Zenon, <2>1, <2>3 DEF LoopInv
  <2>4. CASE loop' = [loop EXCEPT !.pc = pc, !.result.kind = k]
    <3>1. loop' = [loop EXCEPT !.pc = pc, !.result = [loop.result EXCEPT !.kind = k]]
      BY Zenon, <2>4
    <3>2. /\ [loop.result EXCEPT !.kind = k] \in Result
          /\ [loop.result EXCEPT !.kind = k].idx = loop.result.idx
          /\ [loop.result EXCEPT !.kind = k].term = loop.result.term
          /\ [loop.result EXCEPT !.kind = k].kind = k
      BY Zenon DEF LoopInv, Result
    <3>3. k # "value"
      OBVIOUS
    <3> QED
      BY Zenon, <2>1, <3>1, <3>2, <3>3 DEF LoopInv
  <2> QED
    BY Zenon, <2>2, <2>3, <2>4
<1>3. CASE Notify
  BY Zenon, <1>3 DEF Notify
<1> QED
  BY Zenon, <1>1, <1>2, <1>3 DEF LoopSteps

\* The loop's index stays a chosen one, at most one ahead of lastApplied.
LEMMA LoopStep ==
  ASSUME LogInv, LogInv', LoopInv, Next, Grows \/ CrashAndRestart
  PROVE  LoopInv'
<1>n. /\ lastApplied \in Nat /\ commitIndex \in Nat /\ Len(chosen) \in Nat
      /\ lastApplied' \in Nat /\ commitIndex' \in Nat /\ Len(chosen') \in Nat
      /\ Grows => /\ lastApplied' >= lastApplied /\ Len(chosen') >= Len(chosen)
                  /\ cuts' = 0 => cuts = 0 /\ commitIndex' >= commitIndex
  <2>1. lastApplied \in Nat /\ commitIndex \in Nat /\ Len(chosen) \in Nat
    BY Zenon, LogNumbers
  <2>2. lastApplied' \in Nat /\ commitIndex' \in Nat /\ chosen' \in Seq(Nat)
    BY Zenon DEF LogInv
  <2>3. Len(chosen') \in Nat
    BY <2>2
  <2> QED
    BY Zenon, <2>1, <2>2, <2>3 DEF Grows
<1>i. loop.idx \in Int /\ 0 \in Index
  BY LogNumbers DEF LoopInv, Index
<1>1. ASSUME loop'.idx = loop.idx, loop.pc # "top", Grows
      PROVE  /\ loop'.idx \in 1..Len(chosen') /\ loop'.idx <= lastApplied' + 1
             /\ cuts' = 0 => loop'.idx <= commitIndex'
  BY <1>1, <1>n, <1>i DEF LoopInv
<1>2. CASE UNCHANGED loop /\ Grows
  BY Zenon, <1>1, <1>2 DEF LoopInv
<1>3. CASE loop' = AtTop
  BY Zenon, <1>3, <1>i DEF LoopInv, AtTop, NoResult, Result
<1>4. CASE LoopSteps
  <2>1. CASE /\ Pick /\ loop'.idx = lastApplied + 1
             /\ loop' \in [pc: {"picked", "missing"}, idx: Index, result: Result]
    <3>1. UNCHANGED <<lastApplied, commitIndex, chosen, cuts>> /\ lastApplied < commitIndex
      BY Zenon, <1>4, <2>1 DEF LoopSteps, Pick, raftVars
    <3>2. lastApplied + 1 \in 1..Len(chosen) /\ lastApplied + 1 <= commitIndex
      BY Zenon, <3>1, PickFinds
    <3>3. lastApplied + 1 <= lastApplied + 1
      BY <1>n
    <3> QED
      BY Zenon, <2>1, <3>1, <3>2, <3>3 DEF LoopInv
  <2>2. CASE /\ loop.pc # "top" /\ loop'.idx = loop.idx
             /\ loop' \in [pc: {"write", "raise", "skip", "tell", "notify"}, idx: Index, result: Result]
    <3>1. CASE Grows
      BY Zenon, <1>1, <2>2, <3>1 DEF LoopInv
    <3>2. CASE CrashAndRestart
      BY Zenon, <1>3, <3>2 DEF CrashAndRestart
    <3> QED
      BY Zenon, <3>1, <3>2
  <2> QED
    BY Zenon, <1>3, <1>4, <2>1, <2>2, LoopMoves
<1>5. CASE CrashAndRestart
  BY Zenon, <1>3, <1>5 DEF CrashAndRestart
<1> QED
  BY Zenon, <1>2, <1>4, <1>5, StepGroups
    DEF RaftSteps, ProposalSteps, InstallSteps, CompactorSteps, ShipSteps

\* The compactor's index stays applied.
LEMMA CompactorStep ==
  ASSUME LogInv, LogInv', CompactorInv, Next, Grows \/ CrashAndRestart
  PROVE  CompactorInv'
<1>n. /\ lastApplied \in Nat /\ log.base \in Nat /\ MaxLog \in Nat /\ lastApplied \in Index
      /\ Grows => lastApplied' >= lastApplied /\ log'.base >= log.base
  BY LogNumbers DEF Grows, Index
<1>m. lastApplied' \in Nat /\ log'.base \in Nat
  BY Zenon, IndexNat DEF LogInv
<1>i. compactor.idx \in Nat
  BY <1>n DEF CompactorInv, Index
<1>1. ASSUME UNCHANGED compactor, Grows PROVE CompactorInv'
  BY <1>1, <1>n, <1>m, <1>i DEF CompactorInv
<1>2. CASE CompactorTick
  <2>1. compactor' = [pc |-> "term", idx |-> lastApplied, term |-> 0] /\ UNCHANGED lastApplied
    BY Zenon, <1>2 DEF CompactorTick, compactorUnchanged, loopVars
  <2>2. 0 \in Nat \cup {-1} /\ 0 \in Int /\ lastApplied <= lastApplied
    BY <1>n
  <2> QED
    BY Zenon, <1>n, <2>1, <2>2 DEF CompactorInv
<1>3. CASE CompactorStore
  <2>1. /\ compactor.pc = "term" /\ UNCHANGED <<lastApplied, log>>
        /\ \/ compactor' = [compactor EXCEPT !.pc = "trim", !.term = LogTermAt(log, compactor.idx)]
           \/ compactor' = Unread
    BY Zenon, <1>3 DEF CompactorStore, compactorUnchanged, loopVars, raftVars
  <2>2. CASE compactor' = Unread
    BY <1>n, <2>2 DEF CompactorInv, Unread, Index
  <2>3. CASE compactor' = [compactor EXCEPT !.pc = "trim", !.term = LogTermAt(log, compactor.idx)]
    <3>1. log \in NodeLog
      BY Zenon DEF LogInv
    <3>2. LogTermAt(log, compactor.idx) \in Nat \cup {-1}
      BY Zenon, <1>i, <3>1, LogReaderTypes
    <3>3. LogTermAt(log, compactor.idx) \in Int
      BY <3>2
    <3>4. compactor.idx <= lastApplied
      BY Zenon, <2>1 DEF CompactorInv
    <3> HIDE DEF LogTermAt
    <3> QED
      BY ZenonT(30), <2>1, <2>3, <3>2, <3>3, <3>4 DEF CompactorInv
  <2> QED
    BY Zenon, <2>1, <2>2, <2>3
<1>4. CASE CompactLog
  <2>1. Grows
    BY Zenon, <1>4, LogCompacted
  <2>2. compactor.pc = "trim" /\ compactor' = [compactor EXCEPT !.pc = "flush"]
    BY Zenon, <1>4 DEF CompactLog
  <2> QED
    BY <1>n, <1>m, <1>i, <2>1, <2>2 DEF CompactorInv
<1>5. CASE Flush \/ CrashAndRestart
  <2>1. compactor' = Unread
    BY Zenon, <1>5 DEF Flush, CrashAndRestart
  <2> QED
    BY SMTT(30), <1>n, <2>1 DEF CompactorInv, Unread, Index
<1> QED
  BY Zenon, <1>1, <1>2, <1>3, <1>4, <1>5, StepGroups
    DEF RaftSteps, ProposalSteps, LoopSteps, InstallSteps, CompactorSteps, ShipSteps

\* The index of a snapshot that is being read stays applied.
LEMMA ShipStep ==
  ASSUME LogInv, LogInv', StoreShape, ShipInv, Next, Grows \/ CrashAndRestart
  PROVE  ShipInv'
<1>n. /\ lastApplied \in Nat /\ MaxLog \in Nat /\ lastApplied \in Index /\ 0 \in Index
      /\ Grows => lastApplied' >= lastApplied
  BY LogNumbers DEF Grows, Index
<1>m. lastApplied' \in Nat
  BY Zenon DEF LogInv
<1>i. ship.idx \in Nat /\ ship.idx <= MaxLog /\ nextIndex \in 1..(MaxLog + 1) /\ inFlight \in BOOLEAN
  BY <1>n DEF ShipInv, Index
<1>1. ASSUME UNCHANGED <<ship, nextIndex, inFlight>>, Grows PROVE ShipInv'
  BY SMTT(30), <1>1, <1>n, <1>m, <1>i DEF ShipInv
<1>2. ASSUME ship' = NoShip, nextIndex' \in 1..(MaxLog + 1), inFlight' \in BOOLEAN PROVE ShipInv'
  <2>1. <<>> \in Seq(1..MaxLog)
    OBVIOUS
  <2> QED
    BY <1>2, <1>n, <2>1 DEF ShipInv, NoShip
<1>3. CASE ShipSkip \/ ShipLost \/ ShipRefused
  BY Zenon, <1>2, <1>3, <1>i DEF ShipSkip, ShipLost, ShipRefused
<1>4. CASE ShipAcked
  <2>1. ship' = NoShip /\ inFlight' = FALSE /\ nextIndex' = Raised(nextIndex, ship.idx + 1)
    BY Zenon, <1>4 DEF ShipAcked
  <2>2. nextIndex' \in 1..(MaxLog + 1)
    BY <1>n, <1>i, <2>1 DEF Raised
  <2> QED
    BY ZenonT(30), <1>2, <2>1, <2>2
<1>5. CASE CrashAndRestart
  <2>1. 1 \in 1..(MaxLog + 1)
    BY <1>n
  <2> QED
    BY Zenon, <1>2, <1>5, <2>1 DEF CrashAndRestart
<1>6. CASE AppendCall
  <2>1. /\ inFlight' = ~inFlight /\ UNCHANGED <<ship, nextIndex, lastApplied>>
    BY Zenon, <1>6 DEF AppendCall, shipUnchanged, loopVars
  <2>2. inFlight' \in BOOLEAN
    BY Zenon, <2>1
  <2> QED
    BY Zenon, <1>i, <2>1, <2>2 DEF ShipInv
<1>7. CASE ShipStart
  BY Zenon, <1>7, <1>i DEF ShipStart, shipUnchanged, loopVars, ShipInv
<1>8. CASE ShipIndex
  <2>1. /\ ship' = [ship EXCEPT !.pc = "term", !.idx = lastApplied]
        /\ UNCHANGED <<nextIndex, inFlight, lastApplied>>
    BY Zenon, <1>8 DEF ShipIndex, shipUnchanged, loopVars
  <2>2. lastApplied <= lastApplied
    BY <1>n
  <2> QED
    BY Zenon, <1>i, <1>n, <2>1, <2>2 DEF ShipInv
<1>9. CASE ShipTerm
  <2>0. LogTermAt(log, ship.idx) \in Nat \cup {-1}
    BY Zenon, <1>i, LogReaderTypes DEF LogInv
  <2>1. LogTermAt(log, ship.idx) \in Int
    BY <2>0
  <2>2. /\ ship.pc = "term" /\ ship' = [ship EXCEPT !.pc = "data", !.term = LogTermAt(log, ship.idx)]
        /\ UNCHANGED <<nextIndex, inFlight, lastApplied>>
    BY Zenon, <1>9 DEF ShipTerm, shipUnchanged, loopVars
  <2> QED
    BY Zenon, <1>i, <2>1, <2>2 DEF ShipInv
<1>10. CASE ShipData
  <2>1. /\ ship' = [ship EXCEPT !.pc = "send", !.data = store] \/ ship' = NoShip
        /\ UNCHANGED <<nextIndex, inFlight>>
    BY Zenon, <1>10 DEF ShipData
  <2>2. CASE ship' = [ship EXCEPT !.pc = "send", !.data = store]
    BY Zenon, <1>i, <2>1, <2>2 DEF ShipInv, StoreShape
  <2>3. CASE ship' = NoShip
    BY Zenon, <1>2, <1>i, <2>1, <2>3
  <2> QED
    BY Zenon, <2>1, <2>2, <2>3
<1>11. CASE ShipSend
  <2>1. /\ ship' = [ship EXCEPT !.pc = "sent", !.reqTerm = term, !.reqRole = role]
        /\ nextIndex' = nextIndex /\ inFlight' = TRUE
    BY Zenon, <1>11 DEF ShipSend
  <2>2. term \in Nat /\ role \in {"none", "leader", "follower"}
    BY DEF LogInv
  <2> QED
    BY Zenon, <1>i, <2>1, <2>2 DEF ShipInv
<1> QED
  BY ZenonT(30), <1>1, <1>3, <1>4, <1>5, <1>6, <1>7, <1>8, <1>9, <1>10, <1>11, StepGroups
    DEF RaftSteps, ProposalSteps, LoopSteps, InstallSteps, CompactorSteps, ShipSteps

\* The history variables are never forgotten, and stay Boolean.
LEMMA HistoryStep ==
  ASSUME Next
  PROVE  /\ raced' = raced \/ raced' \in BOOLEAN
         /\ mislabelled' = mislabelled \/ mislabelled' \in BOOLEAN
         /\ lacking' = lacking \/ lacking' \in BOOLEAN
<1> USE DEF installVars
<1>1. CASE RaftSteps
  BY Zenon, <1>1 DEF RaftSteps, ElectOther, CommitElsewhere, BecomeLeader, StepDown,
    HandleAppendEntries, MaybeCommit, PersistElsewhere, Persist
<1>2. CASE ProposalSteps
  BY Zenon, <1>2 DEF ProposalSteps, ProposeWait, ProposalSaved, ProposalUnsaved,
    ProposalAnswered, ProposalTimesOut, Persist, PersistFails
<1>3. CASE LoopSteps
  BY Zenon, <1>3 DEF LoopSteps, Pick, Recheck, Skip, ApplyCmd, Raise, Notify, historyVars
<1>4. CASE InstallSteps
  BY Zenon, <1>4 DEF InstallSteps, HandleInstallSnapshot, Restore, InstallSaved, PersistOrLog,
    Persist, PersistFails, historyVars
<1>5. CASE CompactorSteps
  BY Zenon, <1>5 DEF CompactorSteps, CompactorTick, CompactorStore, CompactLog, Flush,
    compactorUnchanged, PersistOrLog, Persist, PersistFails, historyVars
<1>6. CASE ShipSteps
  BY Zenon, <1>6 DEF ShipSteps, AppendCall, ShipStart, ShipIndex, ShipTerm, ShipData, ShipSkip,
    ShipSend, ShipLost, ShipRefused, ShipAcked
<1>7. CASE CrashAndRestart
  BY Zenon, <1>7 DEF CrashAndRestart
<1> QED
  BY Zenon, <1>1, <1>2, <1>3, <1>4, <1>5, <1>6, <1>7, StepGroups

\* The store stays a sequence of indexes.
LEMMA StoreStep ==
  ASSUME LogInv, LoopInv, InstallShape, StoreShape, Next
  PROVE  StoreShape'
<1>0. /\ store \in Seq(1..MaxLog) /\ origin \in [idx: Index, data: Seq(1..MaxLog)] /\ MaxLog \in Nat
      /\ raced \in BOOLEAN /\ mislabelled \in BOOLEAN /\ lacking \in BOOLEAN
  BY Zenon, LogNumbers DEF StoreShape
<1>1. raced' \in BOOLEAN /\ mislabelled' \in BOOLEAN /\ lacking' \in BOOLEAN
  BY Zenon, <1>0, HistoryStep
<1>2. ASSUME UNCHANGED <<store, origin>> PROVE StoreShape'
  BY Zenon, <1>0, <1>1, <1>2 DEF StoreShape
<1>3. CASE LoopSteps
  <2>1. CASE ApplyCmd /\ store' = Append(store, loop.idx)
    <3>1. loop.idx \in 1..MaxLog
      BY <2>1, LogNumbers DEF ApplyCmd, LoopInv
    <3>2. store' \in Seq(1..MaxLog)
      BY <1>0, <2>1, <3>1
    <3> QED
      BY Zenon, <1>0, <1>1, <1>3, <3>2 DEF StoreShape, LoopSteps
  <2> QED
    BY Zenon, <1>2, <1>3, <2>1 DEF LoopSteps, Pick, Recheck, Skip, ApplyCmd, Raise, Notify
<1>4. CASE InstallSteps
  <2>1. ASSUME NEW h \in installs, store' = h.data, origin' = [idx |-> h.idx, data |-> h.data]
        PROVE  StoreShape'
    <3>1. h.data \in Seq(1..MaxLog) /\ h.idx \in Index
      BY Zenon DEF InstallShape
    <3> QED
      BY Zenon, <1>1, <2>1, <3>1 DEF StoreShape
  <2> QED
    BY Zenon, <1>2, <1>4, <2>1
      DEF InstallSteps, HandleInstallSnapshot, Restore, InstallSaved, loopVars, historyVars
<1>5. CASE CrashAndRestart
  <2>1. store' = store /\ origin' = [idx |-> disk.base, data |-> store]
    BY Zenon, <1>5 DEF CrashAndRestart, RestoredIndex
  <2>2. disk.base \in Index
    BY LogNumbers DEF Index
  <2> QED
    BY Zenon, <1>0, <1>1, <2>1, <2>2 DEF StoreShape
<1> QED
  BY Zenon, <1>2, <1>3, <1>4, <1>5, StepGroups DEF RaftSteps, ProposalSteps, CompactorSteps, ShipSteps

\* The callers keep their shape.
LEMMA ProposalStep ==
  ASSUME LogInv, LoopInv, ProposalShape, Next
  PROVE  ProposalShape'
<1> DEFINE P == [idx: Index, term: Nat, pc: {"saving", "waiting"}, got: Result]
<1>0. proposals \subseteq P
  BY Zenon DEF ProposalShape
<1>1. CASE ProposeWait
  <2>1. LastLogIndex(log) + 1 \in Index /\ 0 \in Index /\ term \in Nat
    BY SMTT(40), <1>1, LogNumbers DEF ProposeWait, Index, LogInv
  <2>2. [idx |-> LastLogIndex(log) + 1, term |-> term, pc |-> "saving", got |-> NoResult] \in P
    BY Zenon, <2>1 DEF NoResult, Result
  <2> QED
    BY ZenonT(30), <1>0, <1>1, <2>2 DEF ProposeWait, ProposalShape
<1>2. CASE \E p \in proposals : \/ ProposalSaved(p) \/ ProposalUnsaved(p)
                                \/ ProposalAnswered(p) \/ ProposalTimesOut(p)
  <2>1. PICK p \in proposals :
          \/ proposals' = (proposals \ {p}) \cup {[p EXCEPT !.pc = "waiting"]}
          \/ proposals' = proposals \ {p}
    BY Zenon, <1>2 DEF ProposalSaved, ProposalUnsaved, ProposalAnswered, ProposalTimesOut
  <2>2. p \in P
    BY Zenon, <1>0
  <2>3. [p EXCEPT !.pc = "waiting"] \in P
    BY Zenon, <2>2
  <2> QED
    BY Zenon, <1>0, <2>1, <2>3 DEF ProposalShape
<1>3. CASE Notify
  <2>1. proposals' = {[p EXCEPT !.got = IF p.idx = loop.idx THEN loop.result ELSE @] : p \in proposals}
    BY Zenon, <1>3 DEF Notify
  <2>2. loop.result \in Result
    BY Zenon DEF LoopInv
  <2>3. ASSUME NEW p \in proposals
        PROVE  [p EXCEPT !.got = IF p.idx = loop.idx THEN loop.result ELSE @] \in P
    BY Zenon, <1>0, <2>2
  <2> QED
    BY Zenon, <2>1, <2>3 DEF ProposalShape
<1>4. CASE UNCHANGED proposals \/ proposals' = {}
  BY Zenon, <1>0, <1>4 DEF ProposalShape
<1> QED
  <2>1. CASE LoopSteps
    BY Zenon, <1>3, <1>4, <2>1 DEF LoopSteps, Pick, Recheck, Skip, ApplyCmd, Raise
  <2> QED
    BY ZenonT(30), <1>1, <1>2, <1>4, <2>1, StepGroups
      DEF RaftSteps, ProposalSteps, InstallSteps, CompactorSteps, ShipSteps, CrashAndRestart

\* A sequence that is made of indexes only.
LEMMA DataTypes ==
  ASSUME NEW d \in Data, NEW n \in Nat, n <= MaxLog, MaxLog \in Nat, Occurring(d) \subseteq 1..n
  PROVE  d \in Seq(1..MaxLog)
<1>1. d \in Seq(Nat \ {0})
  BY Zenon, ApplyAssumption
<1>2. DOMAIN d = 1..Len(d) /\ Len(d) \in Nat /\ d = [k \in 1..Len(d) |-> d[k]]
  BY <1>1
<1>3. \A k \in 1..Len(d) : d[k] \in 1..n
  BY Zenon, <1>2 DEF Occurring
<1>4. 1..n \subseteq 1..MaxLog
  OBVIOUS
<1>5. d \in [1..Len(d) -> 1..MaxLog]
  BY Zenon, <1>2, <1>3, <1>4
<1> QED
  BY <1>2, <1>5

\* The installs keep their shape.
LEMMA InstallStep ==
  ASSUME LogInv, InstallShape, Next
  PROVE  InstallShape'
<1> DEFINE I == [idx: Index, data: Seq(1..MaxLog), stage: {"restore", "save"}]
<1>0. installs \subseteq I /\ <<>> \in Seq(1..MaxLog)
  BY DEF InstallShape
<1>1. CASE HandleInstallSnapshot
  <2>1. PICK s \in 1..Len(chosen), d \in Data :
          /\ Occurring(d) \subseteq 1..Len(chosen)
          /\ \/ installs' = installs \cup {[idx |-> s, data |-> d, stage |-> "restore"]}
             \/ installs' = installs \cup {[idx |-> s, data |-> <<>>, stage |-> "save"]}
    BY Zenon, <1>1 DEF HandleInstallSnapshot
  <2>2. s \in Index /\ d \in Seq(1..MaxLog)
    <3>1. s \in Index
      BY LogNumbers DEF Index
    <3> QED
      BY Zenon, <2>1, <3>1, LogNumbers, DataTypes
  <2>3. [idx |-> s, data |-> d, stage |-> "restore"] \in I /\ [idx |-> s, data |-> <<>>, stage |-> "save"] \in I
    BY Zenon, <1>0, <2>2
  <2> QED
    BY Zenon, <1>0, <2>1, <2>3 DEF InstallShape
<1>2. CASE \E h \in installs : Restore(h) \/ InstallSaved(h)
  <2>1. PICK h \in installs :
          \/ installs' = (installs \ {h}) \cup {[h EXCEPT !.stage = "save", !.data = <<>>]}
          \/ installs' = installs \ {h}
    BY Zenon, <1>2 DEF Restore, InstallSaved
  <2>2. [h EXCEPT !.stage = "save", !.data = <<>>] \in I
    BY <1>0
  <2> QED
    BY Zenon, <1>0, <2>1, <2>2 DEF InstallShape
<1>3. CASE UNCHANGED installs \/ installs' = {}
  BY Zenon, <1>0, <1>3 DEF InstallShape
<1> QED
  BY Zenon, <1>1, <1>2, <1>3, StepGroups
    DEF RaftSteps, ProposalSteps, LoopSteps, InstallSteps, CompactorSteps, ShipSteps, CrashAndRestart

(***************************************************************************)
(* The first layer as a whole.                                             *)
(***************************************************************************)
ApplyInv ==
  /\ LogInv /\ LoopInv /\ CompactorInv /\ ShipInv
  /\ StoreShape /\ ProposalShape /\ InstallShape

\* The first layer holds at the start,
LEMMA ApplyInit ==
  ASSUME Init
  PROVE  ApplyInv
<1>1. /\ MaxLog \in Nat /\ MaxTerm \in Nat /\ 0 \in Index
  BY ApplyAssumption DEF Index
<1>2. EmptyLog \in NodeLog /\ LastLogIndex(EmptyLog) = 0 /\ EmptyLog.base = 0
  BY DEF EmptyLog, NodeLog, LastLogIndex
<1>3. LogInv
  <2>1. /\ role = "follower" /\ term = 0 /\ clusterTerm = 0 /\ log = EmptyLog /\ disk = EmptyLog
        /\ commitIndex = 0 /\ lastApplied = 0 /\ dirty \in BOOLEAN /\ chosen = <<>> /\ cuts = 0
    BY Zenon DEF Init
  <2>2. chosen \in Seq(Nat) /\ Len(chosen) = 0
    BY <2>1
  <2>3. IndexesInOrder
    BY SMTT(40), <1>2, <2>1 DEF IndexesInOrder
  <2> QED
    BY <1>1, <1>2, <2>1, <2>2, <2>3 DEF LogInv
<1>4. LoopInv /\ CompactorInv
  BY SMTT(30), <1>1 DEF Init, LoopInv, CompactorInv, AtTop, NoResult, Result, Unread
<1>5. ShipInv
  <2>1. ship = NoShip /\ nextIndex = 1 /\ inFlight \in BOOLEAN
    BY Zenon DEF Init
  <2>2. <<>> \in Seq(1..MaxLog) /\ 1 \in 1..(MaxLog + 1)
    BY <1>1
  <2> QED
    BY <1>1, <2>1, <2>2 DEF ShipInv, NoShip
<1>6. StoreShape /\ ProposalShape /\ InstallShape
  <2>1. /\ store = <<>> /\ origin = [idx |-> 0, data |-> <<>>] /\ proposals = {} /\ installs = {}
        /\ raced \in BOOLEAN /\ mislabelled \in BOOLEAN /\ lacking \in BOOLEAN
    BY Zenon DEF Init
  <2>2. <<>> \in Seq(1..MaxLog)
    OBVIOUS
  <2> QED
    BY Zenon, <1>1, <2>1, <2>2 DEF StoreShape, ProposalShape, InstallShape
<1> QED
  BY Zenon, <1>3, <1>4, <1>5, <1>6 DEF ApplyInv

\* is kept by every step,
LEMMA ApplyStep ==
  ASSUME ApplyInv, [Next]_vars
  PROVE  ApplyInv' /\ (Grows \/ CrashAndRestart)
<1>1. CASE Next
  <2>1. LogInv' /\ (Grows \/ CrashAndRestart)
    BY Zenon, <1>1, LogStep DEF ApplyInv
  <2> QED
    BY Zenon, <1>1, <2>1, LoopStep, CompactorStep, ShipStep, StoreStep, ProposalStep, InstallStep
      DEF ApplyInv
<1>2. CASE UNCHANGED vars
  <2> USE DEF vars, raftVars, loopVars, shipVars, clusterVars, installVars, historyVars
  <2>1. LogInv' /\ LoopInv' /\ CompactorInv'
    BY SMTT(30), <1>2 DEF ApplyInv, LogInv, LoopInv, CompactorInv, IndexesInOrder
  <2>2. ShipInv' /\ StoreShape' /\ ProposalShape' /\ InstallShape'
    BY ZenonT(30), <1>2 DEF ApplyInv, ShipInv, StoreShape, ProposalShape, InstallShape
  <2>3. Grows
    BY <1>2, LogNumbers DEF ApplyInv, Grows
  <2> QED
    BY ZenonT(40), <2>1, <2>2, <2>3 DEF ApplyInv
<1> QED
  BY Zenon, <1>1, <1>2

\* and so always holds.
LEMMA ApplyInvariant == Spec => []ApplyInv
<1>1. Init => ApplyInv
  BY Zenon, ApplyInit
<1>2. ApplyInv /\ [Next]_vars => ApplyInv'
  BY Zenon, ApplyStep
<1> QED
  BY <1>1, <1>2, PTL DEF Spec

\* The state has its type, whatever order the goroutines run in.
THEOREM ApplyTypeCorrect == Spec => []TypeOK
<1>1. ApplyInv => TypeOK
  <2> SUFFICES ASSUME ApplyInv PROVE TypeOK
    BY Zenon
  <2>1. /\ role \in {"leader", "follower"} /\ term \in 0..MaxTerm /\ clusterTerm \in 0..MaxTerm
        /\ log \in NodeLog /\ disk \in NodeLog /\ dirty \in BOOLEAN
        /\ chosen \in Seq(Nat) /\ Len(chosen) <= MaxLog
    BY Zenon DEF ApplyInv, LogInv
  <2>2. commitIndex \in Index /\ lastApplied \in Index
    BY LogNumbers DEF ApplyInv, Index
  <2>3. /\ raced \in BOOLEAN /\ mislabelled \in BOOLEAN /\ lacking \in BOOLEAN
        /\ inFlight \in BOOLEAN /\ store \in Seq(1..MaxLog)
        /\ origin \in [idx: Index, data: Seq(1..MaxLog)]
        /\ nextIndex \in 1..(MaxLog + 1)
    BY Zenon DEF ApplyInv, StoreShape, ShipInv
  <2> QED
    BY Zenon, <2>1, <2>2, <2>3
      DEF TypeOK, ApplyInv, LoopInv, CompactorInv, ShipInv, ProposalShape, InstallShape
<1> QED
  BY <1>1, ApplyInvariant, PTL

\* The saved base, the base, and lastApplied and the commit index stay in this order
\* through applies, compactions, installs, cuts, saves that fail and restarts; and
\* until a request cuts the log below it, the commit index is between lastApplied
\* and the end of the log.
THEOREM IndexesStayInOrder == Spec => []IndexesInOrder
<1>1. ApplyInv => IndexesInOrder
  BY Zenon DEF ApplyInv, LogInv
<1> QED
  BY <1>1, ApplyInvariant, PTL

(***************************************************************************)
(* Second layer: the log and the cluster.                                  *)
(***************************************************************************)
\* AgreesUpTo, with the terms as LogTermAt reads them.
Agrees(l, c, n) == \A i \in 1..n : HasEntry(l, i) => LogTermAt(l, i) = c[i]

LeaderAgrees == Leads => LastLogIndex(log) >= Len(chosen) /\ Agrees(log, chosen, Len(chosen))

\* A leader, even an old one, has no committed or applied index beyond its log.
LeaderHolds ==
  role = "leader" =>
    /\ commitIndex <= LastLogIndex(log) /\ lastApplied <= LastLogIndex(log)
    /\ loop.pc # "top" => loop.idx <= LastLogIndex(log)

\* The term the compactor read is the one of its index for as long as it matters.
TrimAgrees ==
  cuts = 0 /\ compactor.pc = "trim" /\ compactor.idx > log.base =>
    compactor.term = chosen[compactor.idx]

BaseAgrees(l) == l.base > 0 /\ ~mislabelled => l.baseTerm = chosen[l.base]

ChosenInv ==
  /\ Agrees(log, chosen, commitIndex) /\ LeaderAgrees /\ LeaderHolds
  /\ TrimAgrees /\ BaseAgrees(log) /\ BaseAgrees(disk)

\* Both ways of reading a term are the same.
LEMMA AgreesTerms ==
  ASSUME NEW l \in NodeLog, NEW c, NEW n \in Nat
  PROVE  Agrees(l, c, n) <=> \A i \in 1..n : HasEntry(l, i) => EntryAt(l, i).term = c[i]
<1>1. \A i \in 1..n : i \in Nat
  OBVIOUS
<1>2. \A i \in 1..n : HasEntry(l, i) => LogTermAt(l, i) = EntryAt(l, i).term
  BY Zenon, <1>1, EntryTermAt
<1> QED
  BY Zenon, <1>2 DEF Agrees

\* Where a log agrees up to n it agrees up to less.
LEMMA AgreesLess ==
  ASSUME NEW l, NEW c, NEW n \in Nat, NEW m \in Nat, m <= n, Agrees(l, c, n)
  PROVE  Agrees(l, c, m)
<1>1. 1..m \subseteq 1..n
  OBVIOUS
<1> QED
  BY Zenon, <1>1 DEF Agrees

\* The file takes the log or stays as it is.
LEMMA DiskFrame ==
  ASSUME Next
  PROVE  disk' \in {log, disk}
<1>1. CASE RaftSteps
  BY Zenon, <1>1 DEF RaftSteps, ElectOther, CommitElsewhere, BecomeLeader, StepDown,
    HandleAppendEntries, MaybeCommit, PersistElsewhere, Persist
<1>2. CASE ProposalSteps
  BY Zenon, <1>2 DEF ProposalSteps, ProposeWait, ProposalSaved, ProposalUnsaved,
    ProposalAnswered, ProposalTimesOut, Persist, PersistFails
<1>3. CASE InstallSteps
  BY Zenon, <1>3 DEF InstallSteps, HandleInstallSnapshot, Restore, InstallSaved, PersistOrLog,
    Persist, PersistFails
<1>4. CASE CompactorSteps
  BY Zenon, <1>4 DEF CompactorSteps, CompactorTick, CompactorStore, CompactLog, Flush,
    compactorUnchanged, PersistOrLog, Persist, PersistFails
<1> QED
  BY ZenonT(30), <1>1, <1>2, <1>3, <1>4, StepGroups DEF LoopSteps, ShipSteps, CrashAndRestart

\* A base of doubtful origin stays one.
LEMMA MislabelledStays ==
  ASSUME Next, ~mislabelled'
  PROVE  ~mislabelled
<1>1. CASE InstallSteps
  BY Zenon, <1>1 DEF InstallSteps, HandleInstallSnapshot, Restore, InstallSaved, historyVars
<1>2. CASE CompactorSteps
  BY Zenon, <1>2 DEF CompactorSteps, CompactorTick, CompactorStore, CompactLog, Flush,
    compactorUnchanged, historyVars
<1> QED
  BY Zenon, <1>1, <1>2, StepGroups DEF RaftSteps, ProposalSteps, LoopSteps, ShipSteps, CrashAndRestart

\* A leader's log reaches as far as its indexes.
LEMMA LeaderHoldsStep ==
  ASSUME ApplyInv, ChosenInv, Next
  PROVE  LeaderHolds'
<1>0. /\ LogInv /\ LoopInv /\ CompactorInv /\ LeaderHolds /\ log \in NodeLog
      /\ LastLogIndex(log) \in Nat /\ commitIndex \in Nat /\ lastApplied \in Nat /\ loop.idx \in Int
  BY LogNumbers DEF ApplyInv, LogInv, ChosenInv, LoopInv, Index
<1>1. CASE UNCHANGED <<role, log, commitIndex, lastApplied, loop>>
  BY Zenon, <1>0, <1>1 DEF LeaderHolds
<1>2. CASE role' = "follower"
  BY Zenon, <1>2 DEF LeaderHolds
<1>3. CASE BecomeLeader
  <2>1. LastLogIndex(log) >= Len(chosen) /\ UNCHANGED <<log, commitIndex, lastApplied, loop>>
    BY Zenon, <1>3 DEF BecomeLeader, loopVars
  <2>2. /\ commitIndex <= LastLogIndex(log) /\ lastApplied <= LastLogIndex(log)
        /\ loop.pc # "top" => loop.idx <= LastLogIndex(log)
    BY <1>0, <2>1, LogNumbers DEF LoopInv
  <2> QED
    BY Zenon, <2>1, <2>2 DEF LeaderHolds
<1>4. CASE MaybeCommit
  <2>1. /\ commitIndex' <= LastLogIndex(log) /\ UNCHANGED <<role, log, lastApplied, loop>>
    BY Zenon, <1>4 DEF MaybeCommit, HasEntry, loopVars
  <2> QED
    BY Zenon, <1>0, <2>1 DEF LeaderHolds
<1>5. CASE ProposeWait
  <2>1. PICK cmd \in Command : log' = AppendEntry(log, [term |-> term, cmd |-> cmd])
    BY Zenon, <1>5 DEF ProposeWait
  <2>2. [term |-> term, cmd |-> cmd] \in Entry
    BY <1>0 DEF Entry, LogInv
  <2>3. LastLogIndex(log') = LastLogIndex(log) + 1
    BY Zenon, <1>0, <2>1, <2>2, ProposedFacts
  <2>4. role = "leader" /\ UNCHANGED <<commitIndex, lastApplied, loop>>
    BY Zenon, <1>5 DEF ProposeWait, loopVars
  <2> QED
    BY SMTT(40), <1>0, <2>3, <2>4 DEF LeaderHolds
<1>6. CASE LoopSteps
  <2>1. UNCHANGED <<role, log, commitIndex>>
    BY Zenon, <1>6 DEF LoopSteps, raftVars
  <2>2. SUFFICES ASSUME role = "leader"
                 PROVE  /\ lastApplied' <= LastLogIndex(log)
                        /\ loop'.pc # "top" => loop'.idx <= LastLogIndex(log)
    BY Zenon, <1>0, <2>1 DEF LeaderHolds
  <2>3. /\ lastApplied <= LastLogIndex(log) /\ commitIndex <= LastLogIndex(log)
        /\ loop.pc # "top" => loop.idx <= LastLogIndex(log)
    BY Zenon, <1>0, <2>2 DEF LeaderHolds
  <2>4. \/ lastApplied' = lastApplied
        \/ loop.pc # "top" /\ lastApplied' = Raised(lastApplied, loop.idx)
    BY Zenon, <1>6 DEF LoopSteps, Pick, Recheck, Skip, ApplyCmd, Raise, Notify
  <2>5. lastApplied' <= LastLogIndex(log)
    BY Zenon, <2>3, <2>4 DEF Raised
  <2>6. ASSUME Pick, loop'.idx = lastApplied + 1 PROVE loop'.idx <= LastLogIndex(log)
    <3>1. lastApplied < commitIndex
      BY Zenon, <2>6 DEF Pick
    <3> QED
      BY <1>0, <2>3, <2>6, <3>1
  <2> QED
    <3>1. \/ Pick /\ loop'.idx = lastApplied + 1
          \/ loop.pc # "top" /\ loop'.idx = loop.idx
          \/ loop' = AtTop
      BY Zenon, <1>0, <1>6, LoopMoves
    <3>2. AtTop.pc = "top"
      BY Zenon DEF AtTop
    <3> QED
      BY Zenon, <2>3, <2>5, <2>6, <3>1, <3>2
<1>7. CASE CompactLog
  <2>1. /\ UNCHANGED <<role, loop, lastApplied>> /\ compactor.idx \in Nat /\ compactor.idx <= lastApplied
        /\ \/ UNCHANGED <<log, commitIndex>>
           \/ /\ LastLogIndex(log') =
                   IF compactor.idx > LastLogIndex(log) THEN compactor.idx ELSE LastLogIndex(log)
              /\ commitIndex' = Raised(commitIndex, compactor.idx)
    BY Zenon, <1>0, <1>7, TrimmedFacts DEF CompactLog
  <2>2. CASE UNCHANGED <<log, commitIndex>>
    BY Zenon, <1>1, <2>1, <2>2
  <2>3. CASE /\ LastLogIndex(log') =
                  IF compactor.idx > LastLogIndex(log) THEN compactor.idx ELSE LastLogIndex(log)
             /\ commitIndex' = Raised(commitIndex, compactor.idx)
    <3>1. role = "leader" => LastLogIndex(log') = LastLogIndex(log) /\ commitIndex' <= LastLogIndex(log)
      BY SMTT(40), <1>0, <2>1, <2>3 DEF LeaderHolds, Raised
    <3> QED
      BY Zenon, <1>0, <2>1, <3>1 DEF LeaderHolds
  <2> QED
    BY Zenon, <2>1, <2>2, <2>3
<1> QED
  <2>1. CASE RaftSteps
    BY Zenon, <1>1, <1>2, <1>3, <1>4, <2>1 DEF RaftSteps, ElectOther, CommitElsewhere, StepDown,
      HandleAppendEntries, PersistElsewhere, FollowCluster, raftVars
  <2>2. CASE ProposalSteps
    BY Zenon, <1>1, <1>5, <2>2 DEF ProposalSteps, ProposalSaved, ProposalUnsaved, ProposalAnswered,
      ProposalTimesOut, raftVars, loopVars
  <2>3. CASE InstallSteps
    BY Zenon, <1>1, <1>2, <2>3 DEF InstallSteps, HandleInstallSnapshot, Restore, InstallSaved,
      FollowCluster, raftVars, loopVars
  <2>4. CASE CompactorSteps
    BY Zenon, <1>1, <1>7, <2>4 DEF CompactorSteps, CompactorTick, CompactorStore, Flush,
      compactorUnchanged, raftVars, loopVars
  <2>5. CASE ShipSteps
    BY Zenon, <1>1, <1>2, <2>5 DEF ShipSteps, AppendCall, ShipStart, ShipIndex, ShipTerm, ShipData,
      ShipSkip, ShipSend, ShipLost, ShipRefused, ShipAcked, FollowCluster, shipUnchanged, raftVars
  <2> QED
    BY Zenon, <1>2, <1>6, <2>1, <2>2, <2>3, <2>4, <2>5, StepGroups DEF CrashAndRestart

\* The bases keep the terms of their entries, in memory and in the file.
LEMMA BaseAgreesStep ==
  ASSUME ApplyInv, ChosenInv, Next, Grows \/ CrashAndRestart
  PROVE  BaseAgrees(log)' /\ BaseAgrees(disk)'
<1> SUFFICES ASSUME ~mislabelled'
             PROVE  /\ log'.base > 0 => log'.baseTerm = chosen'[log'.base]
                    /\ disk'.base > 0 => disk'.baseTerm = chosen'[disk'.base]
  BY Zenon DEF BaseAgrees
<1>0. LogInv /\ CompactorInv /\ log \in NodeLog /\ disk \in NodeLog /\ ~mislabelled
  BY Zenon, MislabelledStays DEF ApplyInv, LogInv
<1>1. \A j \in 1..Len(chosen) : chosen'[j] = chosen[j]
  BY Zenon DEF Grows, CrashAndRestart, clusterVars
<1>2. ASSUME NEW l \in {log, disk}, l.base > 0
      PROVE  l.baseTerm = chosen'[l.base]
  <2>1. l.baseTerm = chosen[l.base]
    BY Zenon, <1>0, <1>2 DEF ChosenInv, BaseAgrees
  <2>2. l.base \in 1..Len(chosen)
    BY SMTT(40), <1>0, <1>2, LogNumbers
  <2> QED
    BY Zenon, <1>1, <2>1, <2>2
<1>3. disk'.base > 0 => disk'.baseTerm = chosen'[disk'.base]
  <2>1. disk' \in {log, disk}
    BY Zenon, DiskFrame
  <2> QED
    BY Zenon, <1>2, <2>1
<1>4. CASE log' = log \/ log' = disk \/ (log'.base = log.base /\ log'.baseTerm = log.baseTerm)
  BY Zenon, <1>2, <1>3, <1>4
<1>5. CASE HandleAppendEntries
  BY Zenon, <1>0, <1>4, <1>5, AppendedFacts
<1>6. CASE ProposeWait
  <2>1. PICK cmd \in Command : log' = AppendEntry(log, [term |-> term, cmd |-> cmd])
    BY Zenon, <1>6 DEF ProposeWait
  <2>2. [term |-> term, cmd |-> cmd] \in Entry
    BY <1>0 DEF Entry, LogInv
  <2> QED
    BY Zenon, <1>0, <1>4, <2>1, <2>2, ProposedFacts
<1>7. CASE HandleInstallSnapshot
  <2>1. CASE UNCHANGED log
    BY Zenon, <1>4, <2>1
  <2>2. CASE \E s \in 1..Len(chosen), t \in Nat \cup {-1} :
               /\ log'.base = s /\ log'.baseTerm = t
               /\ mislabelled' = (mislabelled \/ t # chosen[s])
    <3>1. PICK s \in 1..Len(chosen), t \in Nat \cup {-1} :
               /\ log'.base = s /\ log'.baseTerm = t
               /\ mislabelled' = (mislabelled \/ t # chosen[s])
      BY Zenon, <2>2
    <3>2. t = chosen[s]
      BY Zenon, <3>1
    <3> QED
      BY Zenon, <1>1, <1>3, <3>1, <3>2
  <2> QED
    BY Zenon, <1>0, <1>7, <2>1, <2>2, InstalledFacts
<1>8. CASE CompactLog
  <2>1. CASE UNCHANGED log
    BY Zenon, <1>4, <2>1
  <2>2. CASE /\ compactor.idx > log.base /\ log'.base = compactor.idx
             /\ HasEntry(log, compactor.idx) =>
                  log'.baseTerm \in {compactor.term, LogTermAt(log, compactor.idx)}
             /\ mislabelled' = (mislabelled \/ cuts > 0)
    <3>1. ~(cuts > 0)
      BY Zenon, <2>2
    <3>2. cuts = 0
      BY <1>0, <3>1, LogNumbers
    <3>3. compactor.pc = "trim" /\ compactor.idx \in Nat /\ compactor.idx <= lastApplied
      BY Zenon, <1>0, <1>8, TrimmedFacts
    <3>4. compactor.idx \in 1..commitIndex /\ compactor.idx \in 1..Len(chosen) /\ HasEntry(log, compactor.idx)
      BY SMTT(40), <1>0, <2>2, <3>2, <3>3, LogNumbers DEF HasEntry
    <3>5. LogTermAt(log, compactor.idx) = chosen[compactor.idx]
      BY Zenon, <3>4 DEF ChosenInv, Agrees
    <3>6. compactor.term = chosen[compactor.idx]
      BY Zenon, <2>2, <3>2, <3>3 DEF ChosenInv, TrimAgrees
    <3> QED
      BY Zenon, <1>1, <1>3, <2>2, <3>4, <3>5, <3>6
  <2> QED
    BY Zenon, <1>0, <1>8, <2>1, <2>2, TrimmedFacts
<1> QED
  <2>1. CASE RaftSteps
    BY Zenon, <1>4, <1>5, <2>1 DEF RaftSteps, ElectOther, CommitElsewhere, BecomeLeader, StepDown,
      MaybeCommit, PersistElsewhere, raftVars
  <2>2. CASE ProposalSteps
    BY Zenon, <1>4, <1>6, <2>2 DEF ProposalSteps, ProposalSaved, ProposalUnsaved, ProposalAnswered,
      ProposalTimesOut, raftVars
  <2>3. CASE InstallSteps
    BY Zenon, <1>4, <1>7, <2>3 DEF InstallSteps, Restore, InstallSaved, raftVars
  <2>4. CASE CompactorSteps
    BY Zenon, <1>4, <1>8, <2>4 DEF CompactorSteps, CompactorTick, CompactorStore, Flush,
      compactorUnchanged, raftVars
  <2> QED
    BY Zenon, <1>4, <2>1, <2>2, <2>3, <2>4, StepGroups DEF LoopSteps, ShipSteps, CrashAndRestart, raftVars

\* So does the compactor's index, from its reading to the trimming.
LEMMA TrimAgreesStep ==
  ASSUME ApplyInv, ApplyInv', ChosenInv, Next, Grows \/ CrashAndRestart
  PROVE  TrimAgrees'
<1>1. /\ LogInv /\ Agrees(log, chosen, commitIndex)
      /\ CompactorInv /\ compactor.idx \in Nat
  BY LogNumbers DEF ApplyInv, ChosenInv, CompactorInv, Index
<1>2. ASSUME UNCHANGED compactor, Grows PROVE TrimAgrees'
  <2>1. /\ log'.base >= log.base /\ \A j \in 1..Len(chosen) : chosen'[j] = chosen[j]
        /\ cuts' = 0 => cuts = 0
    BY Zenon, <1>2 DEF Grows
  <2>2. log'.base \in Nat /\ log.base \in Nat
    BY Zenon, IndexNat DEF ApplyInv, LogInv
  <2>3. SUFFICES ASSUME cuts' = 0, compactor.pc = "trim", compactor.idx > log'.base
                 PROVE  compactor.term = chosen'[compactor.idx]
    BY Zenon, <1>2 DEF TrimAgrees
  <2>4. compactor.idx > log.base /\ compactor.idx \in 1..Len(chosen)
    BY SMTT(40), <1>1, <2>1, <2>2, <2>3, LogNumbers DEF CompactorInv
  <2> QED
    BY Zenon, <2>1, <2>3, <2>4 DEF ChosenInv, TrimAgrees
<1>3. CASE CompactorStore
  <2>1. /\ compactor.pc = "term" /\ UNCHANGED <<log, chosen, cuts>>
        /\ \/ compactor' = [compactor EXCEPT !.pc = "trim", !.term = LogTermAt(log, compactor.idx)]
           \/ compactor' = Unread
    BY Zenon, <1>3 DEF CompactorStore, compactorUnchanged, raftVars, clusterVars, historyVars
  <2>2. CASE compactor' = Unread
    BY Zenon, <2>2 DEF TrimAgrees, Unread
  <2>3. CASE compactor' = [compactor EXCEPT !.pc = "trim", !.term = LogTermAt(log, compactor.idx)]
    <3>1. compactor.idx <= lastApplied
      BY Zenon, <1>1, <2>1 DEF CompactorInv
    <3>2. cuts = 0 /\ compactor.idx > log.base =>
            compactor.idx \in 1..commitIndex /\ HasEntry(log, compactor.idx)
      BY SMTT(40), <1>1, <3>1, LogNumbers DEF HasEntry
    <3>3. compactor'.idx = compactor.idx /\ compactor'.term = LogTermAt(log, compactor.idx)
      BY Zenon, <1>1, <2>3 DEF CompactorInv
    <3> QED
      BY Zenon, <1>1, <2>1, <3>2, <3>3 DEF TrimAgrees, Agrees
  <2> QED
    BY Zenon, <2>1, <2>2, <2>3
<1>4. CASE CompactorTick \/ CompactLog \/ Flush \/ CrashAndRestart
  <2>1. compactor'.pc # "trim"
    BY <1>1, <1>4 DEF CompactorTick, CompactLog, Flush, CrashAndRestart, Unread, CompactorInv
  <2> QED
    BY Zenon, <2>1 DEF TrimAgrees
<1> QED
  BY ZenonT(40), <1>2, <1>3, <1>4, StepGroups
    DEF RaftSteps, ProposalSteps, LoopSteps, InstallSteps, CompactorSteps, ShipSteps



\* Entries from the leader agree with the chosen ones.
LEMMA AppendedAgrees ==
  ASSUME ApplyInv, ChosenInv, HandleAppendEntries
  PROVE  Agrees(log, chosen, commitIndex)' /\ LeaderAgrees'
<1>0. LogInv
  BY Zenon DEF ApplyInv
<1>1. PICK m \in Nat, lead \in Nat :
        /\ log'.base = log.base
        /\ LastLogIndex(log') = m
        /\ \A i \in Nat : i > log.base /\ i <= m /\ i <= Len(chosen) => LogTermAt(log', i) = chosen[i]
        /\ lead >= commitIndex /\ lead <= Len(chosen)
        /\ commitIndex' = Advanced(commitIndex, lead, m)
  BY Zenon, <1>0, AppendedFacts
<1>2. commitIndex' \in Nat /\ commitIndex' <= Len(chosen)
  <2>1. commitIndex \in Nat /\ Len(chosen) \in Nat /\ lead >= commitIndex
    BY Zenon, <1>0, <1>1, LogNumbers
  <2>2. commitIndex' \in Nat /\ commitIndex' <= lead
    BY Zenon, <1>1, <2>1, AdvancedFacts
  <2>3. lead <= Len(chosen)
    BY Zenon, <1>1
  <2> QED
    BY <2>1, <2>2, <2>3
<1>3. chosen' = chosen /\ role' = "follower"
  BY Zenon DEF HandleAppendEntries, clusterVars, FollowCluster
<1>4. ASSUME NEW i \in 1..commitIndex', HasEntry(log', i)
      PROVE  LogTermAt(log', i) = chosen[i]
  <2>1. i \in Nat /\ i > log.base /\ i <= m /\ i <= Len(chosen)
    BY SMTT(40), <1>0, <1>1, <1>2, <1>4, LogNumbers DEF HasEntry
  <2> QED
    BY Zenon, <1>1, <2>1
<1> QED
  BY Zenon, <1>3, <1>4 DEF Agrees, LeaderAgrees, Leads

\* What a leader commits is in its log and becomes chosen.
LEMMA CommittedAgrees ==
  ASSUME ApplyInv, ChosenInv, MaybeCommit
  PROVE  Agrees(log, chosen, commitIndex)' /\ LeaderAgrees'
<1>0. LogInv /\ log \in NodeLog /\ chosen \in Seq(Nat) /\ commitIndex <= Len(chosen)
  BY Zenon DEF ApplyInv, LogInv
<1>1. PICK i \in Index :
        /\ HasEntry(log, i)
        /\ commitIndex' = i
        /\ chosen' = chosen \o [k \in 1..(i - Len(chosen)) |-> LogTermAt(log, Len(chosen) + k)]
  BY Zenon DEF MaybeCommit
<1>2. chosen' = Extended(chosen, log, i) /\ HasEntry(log, i)
  BY Zenon, <1>1 DEF Extended
<1>3. i \in Nat /\ i <= LastLogIndex(log) /\ Len(chosen) >= log.base
  BY <1>0, <1>2, LogNumbers DEF Index, HasEntry
<1>4. /\ Len(chosen') = IF i > Len(chosen) THEN i ELSE Len(chosen)
      /\ \A j \in 1..Len(chosen) : chosen'[j] = chosen[j]
      /\ \A j \in Nat : j > Len(chosen) /\ j <= i => chosen'[j] = LogTermAt(log, j)
  BY Zenon, <1>0, <1>2, <1>3, ChosenExtended
<1>5. Leads /\ log' = log /\ commitIndex' = i
  BY Zenon, <1>1 DEF MaybeCommit
<1>6. LastLogIndex(log) >= Len(chosen) /\ Agrees(log, chosen, Len(chosen))
  BY Zenon, <1>5 DEF ChosenInv, LeaderAgrees
<1>7. Len(chosen') \in Nat /\ i <= Len(chosen') /\ Len(chosen') <= LastLogIndex(log)
      /\ \A j \in Nat : j <= Len(chosen') => j <= Len(chosen) \/ j <= i
  <2>1. Len(chosen') = IF i > Len(chosen) THEN i ELSE Len(chosen)
    BY Zenon, <1>4
  <2> QED
    BY SMTT(40), <1>0, <1>3, <1>6, <2>1, LogNumbers
<1>8. ASSUME NEW j \in 1..Len(chosen'), HasEntry(log, j)
      PROVE  LogTermAt(log, j) = chosen'[j]
  <2>1. j \in Nat /\ j > 0 /\ Len(chosen) \in Nat /\ (j <= Len(chosen) \/ j <= i)
    BY <1>0, <1>7, LogNumbers
  <2>2. CASE j <= Len(chosen)
    <3>1. j \in 1..Len(chosen)
      BY <2>1, <2>2
    <3> QED
      BY Zenon, <1>4, <1>6, <1>8, <3>1 DEF Agrees
  <2>3. CASE j > Len(chosen)
    BY <1>4, <2>1, <2>3
  <2> QED
    BY <2>1, <2>2, <2>3
<1>9. Agrees(log, chosen, Len(chosen))'
  BY Zenon, <1>5, <1>8 DEF Agrees
<1>10. Agrees(log, chosen, commitIndex)'
  BY Zenon, <1>3, <1>5, <1>7, <1>9, AgreesLess
<1> QED
  BY Zenon, <1>5, <1>7, <1>9, <1>10 DEF LeaderAgrees

\* A proposal comes after everything that is chosen.
LEMMA ProposedAgrees ==
  ASSUME ApplyInv, ChosenInv, ProposeWait
  PROVE  Agrees(log, chosen, commitIndex)' /\ LeaderAgrees'
<1>0. LogInv /\ log \in NodeLog
  BY Zenon DEF ApplyInv, LogInv
<1>1. PICK cmd \in Command : log' = AppendEntry(log, [term |-> term, cmd |-> cmd])
  BY Zenon DEF ProposeWait
<1>2. [term |-> term, cmd |-> cmd] \in Entry
  BY <1>0 DEF Entry, LogInv
<1>4. /\ log'.base = log.base /\ LastLogIndex(log') = LastLogIndex(log) + 1
      /\ \A i \in Nat : i >= log.base /\ i <= LastLogIndex(log) => LogTermAt(log', i) = LogTermAt(log, i)
  BY Zenon, <1>0, <1>1, <1>2, ProposedFacts
<1>5. UNCHANGED <<role, term, commitIndex, clusterTerm, chosen>> /\ role = "leader"
  BY Zenon DEF ProposeWait, clusterVars
<1>6. ASSUME NEW n \in Nat, n <= LastLogIndex(log), Agrees(log, chosen, n)
      PROVE  Agrees(log', chosen', n)
  <2>1. \A i \in 1..n : HasEntry(log', i) =>
          i \in Nat /\ i >= log.base /\ i <= LastLogIndex(log) /\ HasEntry(log, i)
    BY SMTT(40), <1>0, <1>4, <1>6, LogNumbers DEF HasEntry
  <2> QED
    BY Zenon, <1>4, <1>5, <1>6, <2>1 DEF Agrees
<1>7. Agrees(log, chosen, commitIndex)'
  <2>1. Agrees(log, chosen, commitIndex) /\ commitIndex \in Nat /\ commitIndex <= LastLogIndex(log)
    BY Zenon, <1>0, <1>5, LogNumbers DEF ChosenInv, LeaderHolds
  <2> QED
    BY Zenon, <1>5, <1>6, <2>1
<1>8. LeaderAgrees'
  <2>1. SUFFICES ASSUME Leads'
                 PROVE  LastLogIndex(log') >= Len(chosen') /\ Agrees(log', chosen', Len(chosen'))
    BY Zenon DEF LeaderAgrees
  <2>2. Leads
    BY Zenon, <1>5, <2>1 DEF Leads
  <2>3. LastLogIndex(log) >= Len(chosen) /\ Agrees(log, chosen, Len(chosen)) /\ Len(chosen) \in Nat
    BY Zenon, <1>0, <2>2, LogNumbers DEF ChosenInv, LeaderAgrees
  <2>4. Len(chosen) <= LastLogIndex(log) /\ LastLogIndex(log') >= Len(chosen)
    BY <1>0, <1>4, <2>3, LogNumbers
  <2> QED
    BY Zenon, <1>5, <1>6, <2>3, <2>4
<1> QED
  BY Zenon, <1>7, <1>8

\* What the log keeps after a snapshot up to the commit index was chosen before.
LEMMA InstalledAgrees ==
  ASSUME ApplyInv, ChosenInv, HandleInstallSnapshot
  PROVE  Agrees(log, chosen, commitIndex)' /\ LeaderAgrees'
<1>0. LogInv /\ log \in NodeLog /\ Agrees(log, chosen, commitIndex)
  BY Zenon DEF ApplyInv, LogInv, ChosenInv
<1>1. chosen' = chosen /\ role' = "follower"
  BY Zenon DEF HandleInstallSnapshot, clusterVars, FollowCluster
<1>2. LeaderAgrees'
  BY Zenon, <1>1 DEF LeaderAgrees, Leads
<1>3. CASE UNCHANGED <<log, commitIndex>>
  BY Zenon, <1>0, <1>1, <1>2, <1>3
<1>4. CASE \E s \in 1..Len(chosen), t \in Nat \cup {-1} :
             /\ s > log.base /\ s \in Nat
             /\ log' = InstallBase(log, s, t)
             /\ commitIndex' = Raised(commitIndex, s)
  <2>1. PICK s \in 1..Len(chosen), t \in Nat \cup {-1} :
             /\ s > log.base /\ s \in Nat
             /\ log' = InstallBase(log, s, t)
             /\ commitIndex' = Raised(commitIndex, s)
    BY Zenon, <1>4
  <2>2. /\ log'.base = s
        /\ LastLogIndex(log') = IF s > LastLogIndex(log) THEN s ELSE LastLogIndex(log)
        /\ \A i \in Nat : i > s /\ i <= LastLogIndex(log) => LogTermAt(log', i) = LogTermAt(log, i)
    BY SMTT(40), <1>0, <2>1, InstallBaseFacts
  <2>3. ASSUME NEW i \in 1..commitIndex', HasEntry(log', i)
        PROVE  LogTermAt(log', i) = chosen[i]
    <3>1. i \in Nat /\ i > s /\ i <= LastLogIndex(log) /\ i \in 1..commitIndex /\ HasEntry(log, i)
      BY SMTT(40), <1>0, <2>1, <2>2, <2>3, LogNumbers DEF Raised, HasEntry
    <3>2. LogTermAt(log, i) = chosen[i]
      BY Zenon, <1>0, <3>1 DEF Agrees
    <3> QED
      BY Zenon, <2>2, <3>1, <3>2
  <2> QED
    BY Zenon, <1>1, <1>2, <2>3 DEF Agrees
<1> QED
  BY Zenon, <1>0, <1>3, <1>4, InstalledFacts

\* What the log keeps after a compaction has the terms it had.
LEMMA CompactedAgrees ==
  ASSUME ApplyInv, ChosenInv, CompactLog
  PROVE  Agrees(log, chosen, commitIndex)' /\ LeaderAgrees'
<1>0. /\ LogInv /\ CompactorInv /\ log \in NodeLog /\ Agrees(log, chosen, commitIndex) /\ LeaderAgrees
      /\ UNCHANGED <<role, term, clusterTerm, chosen>> /\ compactor.idx \in Nat
  BY Zenon, TrimmedFacts DEF ApplyInv, LogInv, ChosenInv, CompactLog, clusterVars
<1>1. CASE UNCHANGED <<log, commitIndex>>
  BY Zenon, <1>0, <1>1 DEF LeaderAgrees, Leads
<1>2. CASE /\ compactor.idx > log.base /\ log'.base = compactor.idx
           /\ LastLogIndex(log') =
                IF compactor.idx > LastLogIndex(log) THEN compactor.idx ELSE LastLogIndex(log)
           /\ \A i \in Nat : i > compactor.idx /\ i <= LastLogIndex(log) =>
                LogTermAt(log', i) = LogTermAt(log, i)
           /\ commitIndex' = Raised(commitIndex, compactor.idx)
  <2>1. ASSUME NEW i \in Nat, HasEntry(log', i)
        PROVE  /\ i > compactor.idx /\ HasEntry(log, i) /\ LogTermAt(log', i) = LogTermAt(log, i)
               /\ i <= commitIndex' => i <= commitIndex
    <3>1. i > compactor.idx /\ i <= LastLogIndex(log) /\ i > log.base
          /\ (i <= commitIndex' => i <= commitIndex)
      BY SMTT(40), <1>0, <1>2, <2>1, LogNumbers DEF HasEntry, Raised
    <3> QED
      BY Zenon, <1>2, <3>1 DEF HasEntry
  <2>2. ASSUME NEW i \in 1..commitIndex', HasEntry(log', i)
        PROVE  LogTermAt(log', i) = chosen[i]
    <3>1. i \in Nat /\ i <= commitIndex' /\ i > 0
      <4>1. commitIndex' \in Int
        BY SMTT(40), <1>0, <1>2, LogNumbers DEF Raised
      <4> QED
        BY <2>2, <4>1
    <3>2. i <= commitIndex /\ HasEntry(log, i) /\ LogTermAt(log', i) = LogTermAt(log, i)
      BY Zenon, <2>1, <2>2, <3>1
    <3>3. i \in 1..commitIndex
      BY <1>0, <3>1, <3>2, LogNumbers
    <3> QED
      BY Zenon, <1>0, <3>2, <3>3 DEF Agrees
  <2>3. Agrees(log, chosen, commitIndex)'
    BY Zenon, <1>0, <2>2 DEF Agrees
  <2>4. LeaderAgrees'
    <3>1. SUFFICES ASSUME Leads'
                   PROVE  LastLogIndex(log') >= Len(chosen) /\ Agrees(log', chosen, Len(chosen))
      BY Zenon, <1>0 DEF LeaderAgrees
    <3>2. LastLogIndex(log) >= Len(chosen) /\ Agrees(log, chosen, Len(chosen))
      BY Zenon, <1>0, <3>1 DEF Leads, LeaderAgrees
    <3>3. LastLogIndex(log') >= Len(chosen)
      BY SMTT(40), <1>0, <1>2, <3>2, LogNumbers
    <3>4. \A i \in 1..Len(chosen) : i \in Nat
      OBVIOUS
    <3> QED
      BY Zenon, <2>1, <3>2, <3>3, <3>4 DEF Agrees
  <2> QED
    BY Zenon, <2>3, <2>4
<1> QED
  BY Zenon, <1>0, <1>1, <1>2, TrimmedFacts

\* After a restart only the saved base is committed.
LEMMA RestartedAgrees ==
  ASSUME ApplyInv, CrashAndRestart
  PROVE  Agrees(log, chosen, commitIndex)' /\ LeaderAgrees'
<1>1. /\ log' = disk /\ commitIndex' = disk.base /\ role' = "follower"
  BY Zenon DEF CrashAndRestart, RestoredIndex
<1>2. disk.base \in Nat
  BY Zenon, IndexNat DEF ApplyInv, LogInv
<1>3. \A i \in 1..disk.base : ~HasEntry(disk, i)
  BY <1>2 DEF HasEntry
<1> QED
  BY Zenon, <1>1, <1>3 DEF Agrees, LeaderAgrees, Leads

\* Every step keeps the log and the cluster in agreement.
LEMMA AgreesStep ==
  ASSUME ApplyInv, ChosenInv, Next, Grows \/ CrashAndRestart
  PROVE  Agrees(log, chosen, commitIndex)' /\ LeaderAgrees'
<1>0. /\ LogInv /\ log \in NodeLog /\ Agrees(log, chosen, commitIndex) /\ LeaderAgrees
      /\ term <= clusterTerm /\ commitIndex <= Len(chosen)
  BY Zenon DEF ApplyInv, ChosenInv, LogInv
<1>1. CASE ElectOther \/ BecomeLeader \/ StepDown \/ ShipRefused
  <2>1. UNCHANGED <<log, commitIndex, chosen>>
    BY Zenon, <1>1 DEF ElectOther, BecomeLeader, StepDown, ShipRefused, raftVars, clusterVars
  <2>2. Agrees(log, chosen, commitIndex)'
    BY Zenon, <1>0, <2>1
  <2>3. CASE BecomeLeader
    <3>1. LastLogIndex(log) >= Len(chosen) /\ AgreesUpTo(Len(chosen))
      BY Zenon, <2>3 DEF BecomeLeader
    <3>2. Agrees(log, chosen, Len(chosen))
      BY Zenon, <1>0, <3>1, LogNumbers, AgreesTerms DEF AgreesUpTo
    <3> QED
      BY Zenon, <2>1, <2>2, <3>1, <3>2 DEF LeaderAgrees
  <2>4. CASE ElectOther
    <3>1. ~Leads'
      <4>1. term' = term /\ clusterTerm' = clusterTerm + 1
        BY Zenon, <2>4 DEF ElectOther, raftVars
      <4>2. term \in Nat /\ clusterTerm \in Nat
        BY <1>0, LogNumbers DEF LogInv
      <4> QED
        BY <1>0, <4>1, <4>2 DEF Leads
    <3> QED
      BY Zenon, <2>2, <3>1 DEF LeaderAgrees
  <2>5. CASE StepDown \/ ShipRefused
    BY Zenon, <2>2, <2>5 DEF StepDown, ShipRefused, FollowCluster, LeaderAgrees, Leads
  <2> QED
    BY Zenon, <1>1, <2>3, <2>4, <2>5
<1>2. CASE CommitElsewhere
  <2>1. UNCHANGED <<role, term, log, commitIndex, clusterTerm>> /\ ~Leads
    BY Zenon, <1>2 DEF CommitElsewhere, raftVars
  <2>2. ~Leads'
    BY Zenon, <2>1 DEF Leads
  <2>3. \A j \in 1..Len(chosen) : chosen'[j] = chosen[j]
    BY Zenon, <1>0, <1>2, LogOvertaken DEF Grows
  <2>4. \A j \in 1..commitIndex : j \in 1..Len(chosen)
    BY SMTT(30), <1>0, LogNumbers
  <2> QED
    BY Zenon, <1>0, <2>1, <2>2, <2>3, <2>4 DEF Agrees, LeaderAgrees
<1>3. CASE UNCHANGED <<role, term, clusterTerm, log, commitIndex, chosen>>
  BY Zenon, <1>0, <1>3 DEF LeaderAgrees, Leads
<1>4. CASE RaftSteps
  BY Zenon, <1>1, <1>2, <1>3, <1>4, AppendedAgrees, CommittedAgrees
    DEF RaftSteps, PersistElsewhere, clusterVars
<1>5. CASE ProposalSteps
  BY Zenon, <1>3, <1>5, ProposedAgrees
    DEF ProposalSteps, ProposalSaved, ProposalUnsaved, ProposalAnswered, ProposalTimesOut, raftVars
<1>6. CASE InstallSteps
  BY Zenon, <1>3, <1>6, InstalledAgrees DEF InstallSteps, Restore, InstallSaved, raftVars
<1>7. CASE CompactorSteps
  BY Zenon, <1>3, <1>7, CompactedAgrees
    DEF CompactorSteps, CompactorTick, CompactorStore, Flush, compactorUnchanged, raftVars
<1>8. CASE ShipSteps
  BY Zenon, <1>1, <1>3, <1>8 DEF ShipSteps, AppendCall, ShipStart, ShipIndex, ShipTerm, ShipData,
    ShipSkip, ShipSend, ShipLost, ShipAcked, shipUnchanged, raftVars
<1>9. CASE LoopSteps
  BY Zenon, <1>3, <1>9 DEF LoopSteps, raftVars
<1> QED
  BY Zenon, <1>4, <1>5, <1>6, <1>7, <1>8, <1>9, RestartedAgrees, StepGroups

\* The second layer is kept by every step,
LEMMA ChosenStep ==
  ASSUME ApplyInv, ChosenInv, [Next]_vars
  PROVE  ChosenInv'
<1>1. CASE Next
  <2>1. ApplyInv' /\ (Grows \/ CrashAndRestart)
    BY ZenonT(30), <1>1, ApplyStep
  <2>2. Agrees(log, chosen, commitIndex)' /\ LeaderAgrees'
    BY ZenonT(30), <1>1, <2>1, AgreesStep
  <2>3. LeaderHolds'
    BY ZenonT(30), <1>1, LeaderHoldsStep
  <2>4. TrimAgrees'
    BY ZenonT(30), <1>1, <2>1, TrimAgreesStep
  <2>5. BaseAgrees(log)' /\ BaseAgrees(disk)'
    BY ZenonT(30), <1>1, <2>1, BaseAgreesStep
  <2> QED
    BY Zenon, <2>2, <2>3, <2>4, <2>5 DEF ChosenInv
<1>2. CASE UNCHANGED vars
  BY Zenon, <1>2 DEF vars, raftVars, loopVars, clusterVars, historyVars, ChosenInv, LeaderAgrees,
    LeaderHolds, TrimAgrees, BaseAgrees, Leads
<1> QED
  BY Zenon, <1>1, <1>2

\* and so always holds.
LEMMA ChosenInvariant == Spec => []ChosenInv
<1>1. Init => ChosenInv
  <2> SUFFICES ASSUME Init PROVE ChosenInv
    BY Zenon
  <2>1. /\ role = "follower" /\ log = EmptyLog /\ disk = EmptyLog /\ commitIndex = 0
        /\ compactor = Unread
    BY Zenon DEF Init
  <2>2. Agrees(log, chosen, commitIndex)
    BY <2>1 DEF Agrees
  <2>3. LeaderAgrees /\ LeaderHolds /\ TrimAgrees /\ BaseAgrees(log) /\ BaseAgrees(disk)
    BY <2>1 DEF LeaderAgrees, LeaderHolds, Leads, TrimAgrees, BaseAgrees, Unread, EmptyLog
  <2> QED
    BY Zenon, <2>2, <2>3 DEF ChosenInv
<1>2. ApplyInv /\ ChosenInv /\ [Next]_vars => ChosenInv'
  BY Zenon, ChosenStep
<1> QED
  BY <1>1, <1>2, ApplyInvariant, PTL DEF Spec

\* What the node has committed or applied is chosen, whatever requests, cuts,
\* snapshots and restarts it went through: its log up to the commit index holds the
\* cluster's entries, and its base has the term of the entry it stands for unless a
\* snapshot came under another term or a cut log was compacted.
THEOREM CommittedAreChosen == Spec => []CommittedIsChosen
<1>1. ApplyInv /\ ChosenInv => CommittedIsChosen
  <2> SUFFICES ASSUME ApplyInv, ChosenInv PROVE CommittedIsChosen
    BY Zenon
  <2>1. LogInv /\ log \in NodeLog /\ commitIndex \in Nat
    BY Zenon, LogNumbers DEF ApplyInv, LogInv
  <2>2. {commitIndex, lastApplied} \subseteq 0..Len(chosen)
    BY SMTT(40), <2>1, LogNumbers
  <2>3. AgreesUpTo(commitIndex)
    BY Zenon, <2>1, AgreesTerms DEF ChosenInv, AgreesUpTo
  <2> QED
    BY Zenon, <2>2, <2>3 DEF CommittedIsChosen, ChosenInv, BaseAgrees
<1> QED
  BY <1>1, ApplyInvariant, ChosenInvariant, PTL

(***************************************************************************)
(* What the callers of proposeWait are handed.                             *)
(***************************************************************************)
LoopResult ==
  loop.pc # "top" =>
    /\ loop.result.idx = loop.idx
    /\ loop.result.kind = "value" => loop.result.term = chosen[loop.idx]

Answered(p) ==
  p.got # NoResult =>
    /\ p.got.idx = p.idx /\ p.idx \in 1..Len(chosen)
    /\ p.got.kind = "value" => p.got.term = chosen[p.idx]

ResultInv == LoopResult /\ \A p \in proposals : Answered(p)

\* A value in the loop is the one of the chosen entry it picked.
LEMMA LoopResultStep ==
  ASSUME ApplyInv, ChosenInv, ResultInv, Next, Grows \/ CrashAndRestart
  PROVE  LoopResult'
<1>0. /\ LogInv /\ LoopInv /\ LoopResult /\ Agrees(log, chosen, commitIndex)
      /\ lastApplied \in Nat /\ commitIndex \in Nat
  BY Zenon, LogNumbers DEF ApplyInv, ChosenInv, ResultInv
<1>1. ASSUME loop.pc # "top", Grows
      PROVE  chosen'[loop.idx] = chosen[loop.idx]
  <2>1. loop.idx \in 1..Len(chosen)
    BY Zenon, <1>0, <1>1 DEF LoopInv
  <2> QED
    BY Zenon, <1>1, <2>1 DEF Grows
<1>2. CASE UNCHANGED loop /\ Grows
  BY ZenonT(30), <1>0, <1>1, <1>2 DEF LoopResult
<1>3. CASE Pick
  <2>1. chosen' = chosen /\ lastApplied < commitIndex
    BY Zenon, <1>3 DEF Pick, clusterVars
  <2>2. CASE /\ HasEntry(log, lastApplied + 1)
             /\ loop' = [pc |-> "picked", idx |-> lastApplied + 1,
                         result |-> [kind |-> "value", idx |-> lastApplied + 1,
                                     term |-> EntryAt(log, lastApplied + 1).term]]
    <3>1. EntryAt(log, lastApplied + 1).term = LogTermAt(log, lastApplied + 1)
      BY Zenon, <1>0, <2>1, <2>2, PickFinds
    <3>2. lastApplied + 1 \in 1..commitIndex
      BY <1>0, <2>1
    <3>3. EntryAt(log, lastApplied + 1).term = chosen[lastApplied + 1]
      BY Zenon, <1>0, <2>2, <3>1, <3>2 DEF Agrees
    <3> QED
      BY Zenon, <2>1, <2>2, <3>3 DEF LoopResult
  <2>3. CASE loop' = [pc |-> "missing", idx |-> lastApplied + 1,
                      result |-> [kind |-> "none", idx |-> lastApplied + 1, term |-> 0]]
    BY Zenon, <2>3 DEF LoopResult
  <2> QED
    BY Zenon, <1>3, <2>2, <2>3 DEF Pick
<1>4. CASE LoopSteps
  <2>1. chosen' = chosen
    BY Zenon, <1>4 DEF LoopSteps, clusterVars
  <2>2. \/ Pick
        \/ /\ loop.pc # "top" /\ loop'.idx = loop.idx
           /\ loop'.result.idx = loop.result.idx /\ loop'.result.term = loop.result.term
           /\ loop'.result.kind = "value" => loop.result.kind = "value"
        \/ loop' = AtTop
    BY Zenon, <1>0, <1>4, LoopMoves
  <2>3. AtTop.pc = "top"
    BY Zenon DEF AtTop
  <2> QED
    BY Zenon, <1>0, <1>3, <2>1, <2>2, <2>3 DEF LoopResult
<1>5. CASE CrashAndRestart
  BY ZenonT(30), <1>5 DEF CrashAndRestart, AtTop, LoopResult
<1> QED
  BY ZenonT(30), <1>2, <1>4, <1>5, StepGroups
    DEF RaftSteps, ProposalSteps, InstallSteps, CompactorSteps, ShipSteps

\* A caller is woken with the result of its own index only.
LEMMA AnsweredStep ==
  ASSUME ApplyInv, ResultInv, Next, Grows \/ CrashAndRestart
  PROVE  \A p \in proposals' : Answered(p)'
<1>0. /\ LogInv /\ LoopInv /\ LoopResult /\ (\A p \in proposals : Answered(p))
      /\ proposals \subseteq [idx: Index, term: Nat, pc: {"saving", "waiting"}, got: Result]
      /\ Len(chosen) \in Nat
  BY Zenon, LogNumbers DEF ApplyInv, ResultInv, ProposalShape
<1>1. ASSUME NEW p, Answered(p), Grows PROVE Answered(p)'
  <2>1. p.idx \in 1..Len(chosen) => p.idx \in 1..Len(chosen') /\ chosen'[p.idx] = chosen[p.idx]
    <3>1. Len(chosen') \in Nat /\ Len(chosen') >= Len(chosen)
      <4>1. ApplyInv'
        BY Zenon, ApplyStep
      <4>2. LogInv'
        BY Zenon, <4>1 DEF ApplyInv
      <4>3. chosen' \in Seq(Nat)
        BY Zenon, <4>2 DEF LogInv
      <4> QED
        BY SMTT(30), <1>1, <4>3 DEF Grows
    <3> QED
      BY SMTT(40), <1>0, <1>1, <3>1 DEF Grows
  <2> QED
    BY Zenon, <1>1, <2>1 DEF Answered
<1>2. CASE proposals' \subseteq proposals /\ Grows
  BY Zenon, <1>0, <1>1, <1>2
<1>3. CASE ProposeWait
  <2>1. proposals' = proposals \cup
          {[idx |-> LastLogIndex(log) + 1, term |-> term, pc |-> "saving", got |-> NoResult]}
    BY Zenon, <1>3 DEF ProposeWait
  <2>2. Grows
    BY Zenon, <1>0, <1>3, LogProposed
  <2>3. \A p : p.got = NoResult => Answered(p)'
    BY Zenon DEF Answered
  <2> QED
    BY ZenonT(30), <1>0, <1>1, <2>1, <2>2, <2>3
<1>4. ASSUME NEW q \in proposals, ProposalSaved(q), Grows PROVE \A p \in proposals' : Answered(p)'
  <2>1. proposals' = (proposals \ {q}) \cup {[q EXCEPT !.pc = "waiting"]}
    BY Zenon, <1>4 DEF ProposalSaved
  <2> DEFINE r == [q EXCEPT !.pc = "waiting"]
  <2>2. r.idx = q.idx /\ r.got = q.got
    BY Zenon, <1>0
  <2> HIDE DEF r
  <2>3. Answered(r)'
    BY ZenonT(30), <1>0, <1>1, <1>4, <2>2 DEF Answered
  <2> QED
    BY Zenon, <1>0, <1>1, <1>4, <2>1, <2>3 DEF r
<1>5. CASE Notify
  <2>1. /\ proposals' = {[p EXCEPT !.got = IF p.idx = loop.idx THEN loop.result ELSE @] : p \in proposals}
        /\ loop.pc # "top" /\ chosen' = chosen
    BY Zenon, <1>5 DEF Notify, clusterVars
  <2>2. /\ loop.result.idx = loop.idx /\ loop.idx \in 1..Len(chosen)
        /\ loop.result.kind = "value" => loop.result.term = chosen[loop.idx]
    BY Zenon, <1>0, <2>1 DEF LoopResult, LoopInv
  <2>3. ASSUME NEW q \in proposals, NEW r, r = [q EXCEPT !.got = IF q.idx = loop.idx THEN loop.result ELSE @]
        PROVE  Answered(r)'
    <3>1. r.idx = q.idx /\ (r.got = q.got \/ (q.idx = loop.idx /\ r.got = loop.result))
      BY Zenon, <1>0, <2>3
    <3>2. Answered(q)
      BY Zenon, <1>0
    <3> QED
      BY Zenon, <2>1, <2>2, <3>1, <3>2 DEF Answered
  <2> QED
    BY Zenon, <2>1, <2>3
<1>6. CASE CrashAndRestart
  BY Zenon, <1>6 DEF CrashAndRestart
<1>7. CASE ProposalSteps
  <2>1. CASE Grows
    BY Zenon, <1>2, <1>3, <1>4, <1>7, <2>1
      DEF ProposalSteps, ProposalUnsaved, ProposalAnswered, ProposalTimesOut
  <2> QED
    BY Zenon, <1>6, <2>1
<1>8. CASE LoopSteps
  BY Zenon, <1>2, <1>5, <1>6, <1>8 DEF LoopSteps, Pick, Recheck, Skip, ApplyCmd, Raise
<1> QED
  BY Zenon, <1>2, <1>6, <1>7, <1>8, StepGroups
    DEF RaftSteps, InstallSteps, CompactorSteps, ShipSteps

\* So the results are always those of the chosen entries.
LEMMA ResultInvariant == Spec => []ResultInv
<1>1. Init => ResultInv
  BY DEF Init, ResultInv, LoopResult, AtTop
<1>2. ApplyInv /\ ChosenInv /\ ResultInv /\ [Next]_vars => ResultInv'
  <2> SUFFICES ASSUME ApplyInv, ChosenInv, ResultInv, [Next]_vars PROVE ResultInv'
    BY Zenon
  <2>1. CASE Next
    <3>1. Grows \/ CrashAndRestart
      BY Zenon, ApplyStep
    <3>2. LoopResult'
      BY Zenon, <2>1, <3>1, LoopResultStep
    <3>3. \A p \in proposals' : Answered(p)'
      BY Zenon, <2>1, <3>1, AnsweredStep
    <3> QED
      BY Zenon, <3>2, <3>3 DEF ResultInv
  <2>2. CASE UNCHANGED vars
    <3>1. UNCHANGED <<loop, chosen, proposals>>
      BY Zenon, <2>2 DEF vars, loopVars, clusterVars
    <3> QED
      BY Zenon, <3>1 DEF ResultInv, LoopResult, Answered
  <2> QED
    BY Zenon, <2>1, <2>2
<1> QED
  BY <1>1, <1>2, ApplyInvariant, ChosenInvariant, PTL DEF Spec

\* Whatever elections, truncations and installs come between a proposal and its
\* answer, a caller whose entry was chosen never gets the value of another entry.
THEOREM CallersGetTheirOwnValue == Spec => []OwnValueWhenChosen
<1>1. ApplyInv /\ ResultInv => OwnValueWhenChosen
  BY DEF ResultInv, Answered, NoResult, OwnValueWhenChosen
<1> QED
  BY <1>1, ApplyInvariant, ResultInvariant, PTL

(***************************************************************************)
(* Fourth layer: the contents of the store.                                *)
(***************************************************************************)
\* Before an install is restored the store may be behind lastApplied, and then
\* the loop has nothing to add to it: the snapshot covers what it picked.  What the
\* loop is about to write comes after everything that must not be undone.
StoreHolds ==
  /\ Replays(store, disk.base)
  /\ ~Restoring => Replays(store, lastApplied)
  /\ \A h \in installs : h.stage = "restore" => h.idx = lastApplied /\ Replays(h.data, h.idx)
  /\ loop.pc = "raise" /\ ~Restoring => Replays(store, loop.idx)
  /\ loop.pc \in {"write", "raise", "skip"} /\ ~Restoring => loop.idx = lastApplied + 1
  /\ loop.pc # "top" /\ Restoring => loop.idx <= lastApplied
  /\ loop.pc = "write" => disk.base < loop.idx

ShipHolds ==
  /\ ship.pc \in {"term", "data"} =>
       Replays(store, ship.idx) /\ (loop.pc = "write" => ship.idx < loop.idx)
  /\ ship.pc \in {"send", "sent"} => Replays(ship.data, ship.idx)

StoreInv == storeErrors \in Nat /\ (Intact => StoreHolds /\ ShipHolds)

\* What replays up to n replays up to less.
LEMMA ReplaysLess ==
  ASSUME NEW s, NEW n \in Nat, NEW m \in Nat, m <= n, Replays(s, n)
  PROVE  Replays(s, m)
<1>1. 1..m \subseteq 1..n
  OBVIOUS
<1> QED
  BY Zenon, <1>1 DEF Replays

\* Applying an entry above n undoes nothing up to n, and adds the entry after n.
LEMMA ReplaysAppend ==
  ASSUME NEW S \in SUBSET Nat, NEW s \in Seq(S), NEW n \in Nat, NEW i \in S, i > n, Replays(s, n)
  PROVE  /\ Replays(Append(s, i), n)
         /\ i = n + 1 => Replays(Append(s, i), i)
<1> DEFINE r == Append(s, i)
<1>1. /\ Len(s) \in Nat /\ Len(r) = Len(s) + 1 /\ r[Len(s) + 1] = i
      /\ \A k \in 1..Len(s) : r[k] = s[k]
  OBVIOUS
<1> HIDE DEF r
<1>2. ASSUME NEW k \in 0..Len(r), NEW j \in 1..n, k = 0 \/ r[k] < j
      PROVE  \E m \in (k + 1)..Len(r) : r[m] = j
  <2>1. k \in 0..Len(s)
    <3>1. k # Len(s) + 1
      BY <1>1, <1>2
    <3> QED
      BY <1>1, <1>2, <3>1
  <2>2. k = 0 \/ s[k] < j
    <3>1. k = 0 \/ k \in 1..Len(s)
      BY <1>1, <2>1
    <3> QED
      BY Zenon, <1>1, <1>2, <3>1
  <2>3. PICK m \in (k + 1)..Len(s) : s[m] = j
    BY Zenon, <2>1, <2>2 DEF Replays
  <2>4. m \in 1..Len(s) /\ m \in (k + 1)..Len(r)
    BY <1>1, <2>1, <2>3
  <2> QED
    BY Zenon, <1>1, <2>3, <2>4
<1>3. ASSUME NEW k \in 0..Len(r), k = 0 \/ r[k] < i
      PROVE  \E m \in (k + 1)..Len(r) : r[m] = i
  <2>1. k # Len(s) + 1
    BY <1>1, <1>3
  <2>2. Len(s) + 1 \in (k + 1)..Len(r)
    BY <1>1, <1>3, <2>1
  <2> QED
    BY Zenon, <1>1, <2>2
<1>4. i = n + 1 => \A j \in 1..i : j \in 1..n \/ j = i
  OBVIOUS
<1>5. Replays(r, n)
  BY Zenon, <1>2 DEF Replays
<1>6. ASSUME i = n + 1 PROVE Replays(r, i)
  <2>1. ASSUME NEW k \in 0..Len(r), NEW j \in 1..i, k = 0 \/ r[k] < j
        PROVE  \E m \in (k + 1)..Len(r) : r[m] = j
    <3>1. CASE j \in 1..n
      BY Zenon, <1>2, <2>1, <3>1
    <3>2. CASE j = i
      BY Zenon, <1>3, <2>1, <3>2
    <3> QED
      BY Zenon, <1>4, <1>6, <2>1, <3>1, <3>2
  <2> QED
    BY Zenon, <2>1 DEF Replays
<1> QED
  BY Zenon, <1>5, <1>6 DEF r

\* A failed write, a race and a missing entry are never forgotten, and a save that
\* goes into the middle of an install is a race.
LEMMA IntactFrame ==
  ASSUME StoreShape, storeErrors \in Nat, Next, Intact'
  PROVE  /\ Intact /\ storeErrors' = storeErrors
         /\ disk' = disk \/ (~Restoring /\ disk' = log)
<1>0. raced \in BOOLEAN /\ lacking \in BOOLEAN
  BY Zenon DEF StoreShape
<1>1. /\ storeErrors' \in {storeErrors, storeErrors + 1}
      /\ ~raced' => ~raced /\ (disk' = disk \/ (~Restoring /\ disk' = log))
      /\ ~lacking' => ~lacking
  <2> USE DEF installVars, faultVars, historyVars
  <2>1. CASE RaftSteps
    BY Zenon, <1>0, <2>1 DEF RaftSteps, ElectOther, CommitElsewhere, BecomeLeader, StepDown,
      HandleAppendEntries, MaybeCommit, PersistElsewhere, Persist
  <2>2. CASE ProposalSteps
    BY Zenon, <1>0, <2>2 DEF ProposalSteps, ProposeWait, ProposalSaved, ProposalUnsaved,
      ProposalAnswered, ProposalTimesOut, Persist, PersistFails
  <2>3. CASE LoopSteps
    BY Zenon, <1>0, <2>3 DEF LoopSteps, Pick, Recheck, Skip, ApplyCmd, Raise, Notify, StoreFails
  <2>4. CASE InstallSteps
    BY Zenon, <1>0, <2>4 DEF InstallSteps, HandleInstallSnapshot, Restore, InstallSaved, PersistOrLog,
      Persist, PersistFails, StoreFails
  <2>5. CASE CompactorSteps
    BY ZenonT(30), <1>0, <2>5 DEF CompactorSteps, CompactorTick, CompactorStore, CompactLog, Flush,
      compactorUnchanged, PersistOrLog, Persist, PersistFails
  <2>6. CASE ShipSteps
    BY Zenon, <1>0, <2>6 DEF ShipSteps, AppendCall, ShipStart, ShipIndex, ShipTerm, ShipData, ShipSkip,
      ShipSend, ShipLost, ShipRefused, ShipAcked
  <2>7. CASE CrashAndRestart
    BY Zenon, <1>0, <2>7 DEF CrashAndRestart
  <2> QED
    BY Zenon, <2>1, <2>2, <2>3, <2>4, <2>5, <2>6, <2>7, StepGroups
<1>2. storeErrors' = 0 => storeErrors = 0
  <2>1. storeErrors' = storeErrors \/ storeErrors' = storeErrors + 1
    BY Zenon, <1>1
  <2> QED
    BY <2>1
<1> QED
  BY Zenon, <1>1, <1>2 DEF Intact

\* The installs in hand are the same as before, as far as they are to be restored.
SameRestores ==
  /\ \A h \in installs' : h.stage = "restore" => h \in installs
  /\ \A h \in installs : h.stage = "restore" => h \in installs'

\* Then the same halves of installs are still to come.
LEMMA SameRestoring ==
  ASSUME SameRestores
  PROVE  Restoring' <=> Restoring
BY Zenon DEF SameRestores, Restoring

\* Steps that leave the store, the loop and lastApplied alone; some of them save.
LEMMA StoreQuiet ==
  ASSUME LogInv, StoreHolds, UNCHANGED <<store, lastApplied, loop>>, SameRestores,
         disk' = disk \/ (~Restoring /\ disk' = log)
  PROVE  StoreHolds'
<1>1. Restoring' <=> Restoring
  BY Zenon, SameRestoring
<1>2. Replays(store', disk'.base) /\ (loop'.pc = "write" => disk'.base < loop'.idx)
  <2>1. CASE disk' = disk
    BY Zenon, <2>1 DEF StoreHolds
  <2>2. CASE ~Restoring /\ disk' = log
    <3>1. Replays(store, log.base)
      BY Zenon, <2>2, LogNumbers, ReplaysLess DEF StoreHolds
    <3>2. loop.pc = "write" => loop.idx = lastApplied + 1
      BY Zenon, <2>2 DEF StoreHolds
    <3>3. loop.pc = "write" => log.base < loop.idx
      BY SMTT(40), <3>2, LogNumbers
    <3> QED
      BY Zenon, <2>2, <3>1, <3>3
  <2> QED
    BY Zenon, <2>1, <2>2
<1>3. ~Restoring' => Replays(store', lastApplied')
  BY Zenon, <1>1 DEF StoreHolds
<1>4. \A h \in installs' : h.stage = "restore" => h.idx = lastApplied' /\ Replays(h.data, h.idx)
  BY Zenon DEF StoreHolds, SameRestores
<1> QED
  BY Zenon, <1>1, <1>2, <1>3, <1>4 DEF StoreHolds

\* The loop's steps keep the contents of the store.
LEMMA LoopHolds ==
  ASSUME ApplyInv, StoreHolds, LoopSteps, Intact', Intact, storeErrors' = storeErrors,
         storeErrors \in Nat
  PROVE  StoreHolds'
<1>0. /\ LogInv /\ LoopInv /\ store \in Seq(1..MaxLog) /\ MaxLog \in Nat /\ installs' = installs
      /\ disk' = disk /\ disk.base \in Nat /\ lastApplied \in Nat
  BY Zenon, LogNumbers DEF ApplyInv, StoreShape, LoopSteps
<1>1. Restoring' <=> Restoring
  BY Zenon, <1>0 DEF Restoring
<1>2. CASE Pick
  <2>1. UNCHANGED <<store, lastApplied>> /\ raced' = (raced \/ Restoring)
    BY Zenon, <1>2 DEF Pick
  <2>2. loop'.pc \in {"picked", "missing"}
    BY SMTT(40), <1>2 DEF Pick
  <2>3. ~Restoring
    BY Zenon, <2>1 DEF Intact
  <2> QED
    BY Zenon, <1>0, <1>1, <2>1, <2>2, <2>3 DEF StoreHolds
<1>3. CASE Recheck
  <2>1. UNCHANGED <<store, lastApplied>> /\ loop.pc \in {"picked", "missing"}
    BY Zenon, <1>3 DEF Recheck
  <2>2. /\ loop'.idx = loop.idx
        /\ loop'.pc = "notify" \/ (loop'.pc \in {"write", "skip"} /\ ~(lastApplied >= loop.idx))
    BY Zenon, <1>0, <1>3 DEF Recheck, LoopInv
  <2>3. ~(lastApplied >= loop.idx) => loop.idx = lastApplied + 1 /\ disk.base < loop.idx
    <3>1. loop.idx \in Int /\ loop.idx <= lastApplied + 1
      BY <1>0, <2>1, LogNumbers DEF LoopInv
    <3> QED
      BY SMTT(40), <1>0, <3>1, LogNumbers
  <2> QED
    BY Zenon, <1>0, <1>1, <2>1, <2>2, <2>3 DEF StoreHolds
<1>4. CASE Skip
  <2>1. /\ loop.pc = "skip" /\ store' = store /\ lastApplied' = Raised(lastApplied, loop.idx)
        /\ lacking' = (lacking \/ lastApplied < loop.idx)
    BY Zenon, <1>4 DEF Skip
  <2>2. loop'.pc = "tell" /\ loop'.idx = loop.idx
    BY Zenon, <1>0, <1>4 DEF Skip, LoopInv
  <2>3. lastApplied' = lastApplied
    BY Zenon, <2>1 DEF Intact, Raised
  <2> QED
    BY Zenon, <1>0, <1>1, <2>1, <2>2, <2>3 DEF StoreHolds
<1>5. CASE ApplyCmd
  <2>1. /\ loop.pc = "write" /\ lastApplied' = lastApplied
        /\ store' = Append(store, loop.idx) /\ loop' = [loop EXCEPT !.pc = "raise"]
    BY <1>5 DEF ApplyCmd, StoreFails
  <2>2. loop.idx \in 1..MaxLog /\ loop'.idx = loop.idx /\ loop'.pc = "raise" /\ 1..MaxLog \in SUBSET Nat
    BY SMTT(40), <1>0, <2>1, LogNumbers DEF LoopInv
  <2>3. Replays(store', disk.base)
    <3>1. loop.idx > disk.base
      BY <1>0, <2>1, <2>2 DEF StoreHolds
    <3> QED
      BY Zenon, <1>0, <2>1, <2>2, <3>1, ReplaysAppend DEF StoreHolds
  <2>4. ~Restoring => Replays(store', lastApplied) /\ Replays(store', loop.idx) /\ loop.idx = lastApplied + 1
    <3>1. SUFFICES ASSUME ~Restoring
                   PROVE  Replays(store', lastApplied) /\ Replays(store', loop.idx) /\ loop.idx = lastApplied + 1
      BY Zenon
    <3>2. loop.idx = lastApplied + 1 /\ Replays(store, lastApplied)
      BY Zenon, <2>1, <3>1 DEF StoreHolds
    <3>3. loop.idx > lastApplied
      BY <1>0, <3>2
    <3> QED
      BY Zenon, <1>0, <2>1, <2>2, <3>2, <3>3, ReplaysAppend
  <2> QED
    BY Zenon, <1>0, <1>1, <2>1, <2>2, <2>3, <2>4 DEF StoreHolds
<1>6. CASE Raise
  <2>1. /\ loop.pc = "raise" /\ store' = store /\ lastApplied' = Raised(lastApplied, loop.idx)
        /\ loop' = [loop EXCEPT !.pc = "notify"]
    BY Zenon, <1>6 DEF Raise
  <2>2. loop'.idx = loop.idx /\ loop'.pc = "notify" /\ loop.idx \in Int
    BY <1>0, <2>1, LogNumbers DEF LoopInv, Index
  <2>3. CASE Restoring
    <3>1. lastApplied' = lastApplied
      BY SMTT(40), <1>0, <2>1, <2>2, <2>3 DEF StoreHolds, Raised
    <3> QED
      BY Zenon, <1>0, <1>1, <2>1, <2>2, <2>3, <3>1 DEF StoreHolds
  <2>4. CASE ~Restoring
    <3>1. loop.idx = lastApplied + 1 /\ Replays(store, loop.idx)
      BY Zenon, <2>1, <2>4 DEF StoreHolds
    <3>2. lastApplied' = loop.idx
      BY <1>0, <2>1, <3>1 DEF Raised
    <3>3. \A h \in installs : h.stage # "restore"
      BY Zenon, <2>4 DEF Restoring
    <3> QED
      BY Zenon, <1>0, <1>1, <2>1, <2>2, <2>4, <3>1, <3>2, <3>3 DEF StoreHolds
  <2> QED
    BY Zenon, <2>3, <2>4
<1>7. CASE Notify
  <2>1. UNCHANGED <<store, lastApplied>> /\ loop'.pc = "top"
    BY Zenon, <1>7 DEF Notify, AtTop
  <2> QED
    BY Zenon, <1>0, <1>1, <2>1 DEF StoreHolds
<1> QED
  BY Zenon, <1>2, <1>3, <1>4, <1>5, <1>6, <1>7 DEF LoopSteps

\* So do both halves of an install.
LEMMA InstallHolds ==
  ASSUME ApplyInv, StoreHolds, InstallSteps, Intact', Intact, storeErrors' = storeErrors,
         storeErrors \in Nat, disk' = disk \/ (~Restoring /\ disk' = log)
  PROVE  StoreHolds'
<1>0. /\ LogInv /\ LoopInv /\ loop' = loop /\ lastApplied \in Nat /\ disk.base \in Nat
      /\ installs \subseteq [idx: Index, data: Seq(1..MaxLog), stage: {"restore", "save"}]
  BY Zenon, LogNumbers DEF ApplyInv, InstallShape, InstallSteps
<1>1. CASE HandleInstallSnapshot
  <2> DEFINE new(s, d, st) == [idx |-> s, data |-> d, stage |-> st]
  <2>1. /\ UNCHANGED <<disk, store>>
        /\ \E s \in 1..Len(chosen), d \in Data :
             \/ /\ s > lastApplied /\ lastApplied' = Raised(lastApplied, s)
                /\ installs' = installs \cup {new(s, d, "restore")}
                /\ raced' = (raced \/ Restoring) /\ lacking' = (lacking \/ ~Replays(d, s))
             \/ /\ installs' = installs \cup {new(s, <<>>, "save")}
                /\ UNCHANGED lastApplied
    BY Zenon, <1>1 DEF HandleInstallSnapshot
  <2>2. PICK s \in 1..Len(chosen), d \in Data :
             \/ /\ s > lastApplied /\ lastApplied' = Raised(lastApplied, s)
                /\ installs' = installs \cup {new(s, d, "restore")}
                /\ raced' = (raced \/ Restoring) /\ lacking' = (lacking \/ ~Replays(d, s))
             \/ /\ installs' = installs \cup {new(s, <<>>, "save")}
                /\ UNCHANGED lastApplied
    BY Zenon, <2>1
  <2>3. /\ new(s, d, "restore").idx = s /\ new(s, d, "restore").data = d
        /\ new(s, d, "restore").stage = "restore" /\ new(s, <<>>, "save").stage = "save"
    BY Zenon
  <2> HIDE DEF new
  <2>4. CASE installs' = installs \cup {new(s, <<>>, "save")} /\ UNCHANGED lastApplied
    <3>1. SameRestores
      BY Zenon, <2>3, <2>4 DEF SameRestores
    <3> QED
      BY Zenon, <1>0, <2>1, <2>4, <3>1, StoreQuiet
  <2>5. CASE /\ s > lastApplied /\ lastApplied' = Raised(lastApplied, s)
             /\ installs' = installs \cup {new(s, d, "restore")}
             /\ raced' = (raced \/ Restoring) /\ lacking' = (lacking \/ ~Replays(d, s))
    <3>1. ~Restoring /\ Replays(d, s)
      BY Zenon, <2>5 DEF Intact
    <3>2. \A h \in installs : h.stage # "restore"
      BY Zenon, <3>1 DEF Restoring
    <3>3. lastApplied' = s
      BY <1>0, <2>5 DEF Raised
    <3>4. \A h \in installs' : h.stage = "restore" => h.idx = lastApplied' /\ Replays(h.data, h.idx)
      BY Zenon, <2>3, <2>5, <3>1, <3>2, <3>3
    <3>5. Restoring'
      BY Zenon, <2>3, <2>5 DEF Restoring
    <3>6. loop.pc # "top" => loop.idx <= lastApplied'
      <4>1. loop.pc # "top" => loop.idx \in Int /\ loop.idx <= lastApplied + 1
        BY SMTT(40), <1>0 DEF LoopInv, Index
      <4> QED
        BY SMTT(40), <1>0, <2>5, <3>3, <4>1
    <3> QED
      BY Zenon, <1>0, <2>1, <3>4, <3>5, <3>6 DEF StoreHolds
  <2> QED
    BY Zenon, <2>2, <2>4, <2>5
<1>2. ASSUME NEW h \in installs, InstallSaved(h) PROVE StoreHolds'
  <2>1. installs' = installs \ {h} /\ h.stage = "save" /\ UNCHANGED <<store, lastApplied, loop>>
    BY Zenon, <1>2 DEF InstallSaved, loopVars
  <2>2. SameRestores
    BY Zenon, <2>1 DEF SameRestores
  <2> QED
    BY Zenon, <1>0, <2>1, <2>2, StoreQuiet
<1>3. ASSUME NEW h \in installs, Restore(h) PROVE StoreHolds'
  <2>1. /\ h.stage = "restore" /\ ~ApplyMuHeld /\ store' = h.data
        /\ installs' = (installs \ {h}) \cup {[h EXCEPT !.stage = "save", !.data = <<>>]}
        /\ UNCHANGED <<disk, lastApplied>>
    BY <1>3 DEF Restore, StoreFails
  <2>2. h.idx = lastApplied /\ Replays(store', lastApplied)
    BY Zenon, <2>1 DEF StoreHolds
  <2>3. Replays(store', disk.base)
    <3>1. disk.base <= lastApplied
      BY SMTT(40), <1>0, LogNumbers
    <3> QED
      BY Zenon, <1>0, <2>2, <3>1, ReplaysLess
  <2>4. [h EXCEPT !.stage = "save", !.data = <<>>].stage = "save"
    BY Zenon, <1>0
  <2>5. \A g \in installs' : g.stage = "restore" => g \in installs
    BY Zenon, <2>1, <2>4
  <2>6. loop.pc \notin {"write", "raise", "skip"}
    BY Zenon, <2>1 DEF ApplyMuHeld
  <2>7. Restoring
    BY Zenon, <2>1 DEF Restoring
  <2> QED
    BY Zenon, <1>0, <2>1, <2>2, <2>3, <2>5, <2>6, <2>7 DEF StoreHolds
<1> QED
  BY Zenon, <1>1, <1>2, <1>3 DEF InstallSteps

\* So does every step.
LEMMA StoreHoldsStep ==
  ASSUME ApplyInv, StoreInv, Next, Intact'
  PROVE  StoreHolds'
<1>0. /\ Intact /\ StoreHolds /\ storeErrors' = storeErrors /\ storeErrors \in Nat
      /\ disk' = disk \/ (~Restoring /\ disk' = log)
      /\ LogInv /\ CompactorInv
  BY Zenon, IntactFrame DEF ApplyInv, StoreInv
<1>1. CASE UNCHANGED <<store, lastApplied, loop, installs>>
  <2>1. SameRestores
    BY Zenon, <1>1 DEF SameRestores
  <2> QED
    BY Zenon, <1>0, <1>1, <2>1, StoreQuiet
<1>2. CASE CompactorSteps
  <2>1. lastApplied' = lastApplied
    BY Zenon, <1>0, <1>2, TrimmedFacts DEF CompactorSteps, CompactorTick, CompactorStore, Flush,
      compactorUnchanged, loopVars
  <2> QED
    BY Zenon, <1>1, <1>2, <2>1 DEF CompactorSteps
<1>3. CASE CrashAndRestart
  <2>1. /\ disk' = disk /\ store' = store /\ lastApplied' = disk.base /\ installs' = {} /\ loop' = AtTop
    BY Zenon, <1>3 DEF CrashAndRestart, RestoredIndex
  <2> QED
    BY Zenon, <1>0, <2>1 DEF StoreHolds, Restoring, AtTop
<1> QED
  BY Zenon, <1>0, <1>1, <1>2, <1>3, LoopHolds, InstallHolds, StepGroups DEF RaftSteps, ProposalSteps, ShipSteps

\* The data that is read for a snapshot covers its index.
LEMMA ShipHoldsStep ==
  ASSUME ApplyInv, StoreInv, Next, Intact'
  PROVE  ShipHolds'
<1>0. /\ Intact /\ StoreHolds /\ ShipHolds /\ storeErrors' = storeErrors /\ storeErrors \in Nat
      /\ LogInv /\ LoopInv /\ ShipInv /\ InstallShape /\ store \in Seq(1..MaxLog) /\ MaxLog \in Nat
  BY Zenon, IntactFrame, LogNumbers DEF ApplyInv, StoreInv, StoreShape
<1>1. CASE UNCHANGED <<ship, store, loop>>
  BY Zenon, <1>0, <1>1 DEF ShipHolds
<1>2. ASSUME NEW h \in installs, Restore(h) PROVE ShipHolds'
  <2>1. h.stage = "restore" /\ store' = h.data /\ ship' = ship /\ loop' = loop
    BY SMTT(30), <1>0, <1>2 DEF Restore, StoreFails, shipVars
  <2>2. Replays(store', lastApplied)
    BY Zenon, <1>0, <2>1 DEF StoreHolds
  <2>3. ship.pc \in {"term", "data"} => ship.idx \in Nat /\ ship.idx <= lastApplied
    BY SMTT(40), <1>0, LogNumbers DEF ShipInv, Index
  <2>4. ship.pc \in {"term", "data"} => Replays(store', ship.idx)
    BY Zenon, <1>0, <2>2, <2>3, LogNumbers, ReplaysLess
  <2> QED
    BY Zenon, <1>0, <2>1, <2>4 DEF ShipHolds
<1>3. CASE LoopSteps
  <2>1. ship' = ship
    BY Zenon, <1>3 DEF LoopSteps
  <2>2. CASE ApplyCmd
    <3>1. /\ loop.pc = "write" /\ store' = Append(store, loop.idx) /\ loop' = [loop EXCEPT !.pc = "raise"]
      BY <1>0, <2>2 DEF ApplyCmd, StoreFails
    <3>2. loop.idx \in 1..MaxLog /\ loop'.pc = "raise" /\ 1..MaxLog \in SUBSET Nat /\ ship.idx \in Nat
      BY SMTT(40), <1>0, <3>1, LogNumbers DEF LoopInv, ShipInv, Index
    <3>3. ship.pc \in {"term", "data"} => Replays(store, ship.idx) /\ loop.idx > ship.idx
      BY <1>0, <3>1, <3>2 DEF ShipHolds
    <3>4. ship.pc \in {"term", "data"} => Replays(store', ship.idx)
      BY Zenon, <1>0, <3>1, <3>2, <3>3, ReplaysAppend
    <3> QED
      BY Zenon, <1>0, <2>1, <3>2, <3>4 DEF ShipHolds
  <2>3. CASE Recheck
    <3>1. store' = store /\ loop.pc \in {"picked", "missing"}
      BY Zenon, <2>3 DEF Recheck
    <3>2. loop'.idx = loop.idx /\ (loop'.pc # "write" \/ ~(lastApplied >= loop.idx))
      BY Zenon, <1>0, <2>3 DEF Recheck, LoopInv
    <3>3. ~(lastApplied >= loop.idx) /\ ship.pc \in {"term", "data"} => ship.idx < loop.idx
      BY SMTT(40), <1>0, LogNumbers DEF ShipInv, LoopInv, Index
    <3> QED
      BY Zenon, <1>0, <2>1, <3>1, <3>2, <3>3 DEF ShipHolds
  <2>4. CASE Pick \/ Skip \/ Raise \/ Notify
    <3>1. store' = store
      BY Zenon, <2>4 DEF Pick, Skip, Raise, Notify
    <3>2. loop'.pc # "write"
      BY SMTT(40), <1>0, <2>4 DEF Pick, Skip, Raise, Notify, AtTop, LoopInv
    <3> QED
      BY Zenon, <1>0, <2>1, <3>1, <3>2 DEF ShipHolds
  <2> QED
    BY Zenon, <1>3, <2>2, <2>3, <2>4 DEF LoopSteps
<1>4. CASE InstallSteps
  BY Zenon, <1>1, <1>2, <1>4 DEF InstallSteps, HandleInstallSnapshot, InstallSaved, loopVars
<1>5. CASE ship' = NoShip
  BY Zenon, <1>5 DEF ShipHolds, NoShip
<1>6. CASE ShipIndex
  <2>1. ship' = [ship EXCEPT !.pc = "term", !.idx = lastApplied] /\ raced' = (raced \/ Restoring)
        /\ UNCHANGED <<store, loop>>
    BY Zenon, <1>6 DEF ShipIndex, shipUnchanged, loopVars
  <2>2. Replays(store, lastApplied) /\ (loop.pc = "write" => loop.idx = lastApplied + 1)
    BY Zenon, <1>0, <2>1 DEF Intact, StoreHolds
  <2>4. loop.pc = "write" => lastApplied < loop.idx
    BY <1>0, <2>2, LogNumbers
  <2>3. ship'.pc = "term" /\ ship'.idx = lastApplied
    BY Zenon, <1>0, <2>1 DEF ShipInv
  <2> QED
    BY Zenon, <2>1, <2>2, <2>3, <2>4 DEF ShipHolds
<1>7. CASE ShipTerm
  <2>1. ship.pc = "term" /\ ship' = [ship EXCEPT !.pc = "data", !.term = LogTermAt(log, ship.idx)]
        /\ UNCHANGED <<store, loop>>
    BY Zenon, <1>7 DEF ShipTerm, shipUnchanged, loopVars
  <2>2. ship'.pc = "data" /\ ship'.idx = ship.idx
    BY Zenon, <1>0, <2>1 DEF ShipInv
  <2> QED
    BY Zenon, <1>0, <2>1, <2>2 DEF ShipHolds
<1>8. CASE ShipData /\ ship' # NoShip
  <2>1. ship.pc = "data" /\ ship' = [ship EXCEPT !.pc = "send", !.data = store]
    BY Zenon, <1>8 DEF ShipData
  <2>2. ship'.pc = "send" /\ ship'.idx = ship.idx /\ ship'.data = store
    BY Zenon, <1>0, <2>1 DEF ShipInv
  <2> QED
    BY Zenon, <1>0, <2>1, <2>2 DEF ShipHolds
<1>9. CASE ShipSend
  <2>1. ship.pc = "send" /\ ship' = [ship EXCEPT !.pc = "sent", !.reqTerm = term, !.reqRole = role]
    BY Zenon, <1>9 DEF ShipSend
  <2>2. ship'.pc = "sent" /\ ship'.idx = ship.idx /\ ship'.data = ship.data
    BY Zenon, <1>0, <2>1 DEF ShipInv
  <2> QED
    BY Zenon, <1>0, <2>1, <2>2 DEF ShipHolds
<1>10. CASE AppendCall \/ ShipStart
  <2>1. \/ ship' = ship
        \/ ship.pc = "idle" /\ ship' = [ship EXCEPT !.pc = "index"]
    BY Zenon, <1>10 DEF AppendCall, ShipStart
  <2>2. UNCHANGED <<store, loop>>
    BY Zenon, <1>10 DEF AppendCall, ShipStart, shipUnchanged, loopVars
  <2>3. CASE ship' = [ship EXCEPT !.pc = "index"]
    BY Zenon, <1>0, <2>3 DEF ShipHolds, ShipInv
  <2> QED
    BY Zenon, <1>1, <2>1, <2>2, <2>3
<1>11. CASE ShipSteps
  BY ZenonT(30), <1>5, <1>6, <1>7, <1>8, <1>9, <1>10, <1>11 DEF ShipSteps, ShipSkip, ShipLost, ShipRefused, ShipAcked
<1> QED
  BY ZenonT(30), <1>1, <1>3, <1>4, <1>5, <1>11, StepGroups DEF RaftSteps, ProposalSteps, CompactorSteps, CrashAndRestart

\* The contents of the store as this layer has them, always.
LEMMA StoreInvariant == Spec => []StoreInv
<1>1. Init => StoreInv
  <2> SUFFICES ASSUME Init PROVE StoreInv
    BY Zenon
  <2>1. /\ disk = EmptyLog /\ lastApplied = 0 /\ installs = {} /\ loop = AtTop /\ ship = NoShip
        /\ storeErrors = 0
    BY Zenon DEF Init
  <2> QED
    <3>1. 1..0 = {}
      OBVIOUS
    <3>2. \A s : Replays(s, 0)
      BY Zenon, <3>1 DEF Replays
    <3>3. disk.base = 0 /\ loop.pc = "top" /\ ship.pc = "idle" /\ storeErrors \in Nat
      BY <2>1 DEF EmptyLog, AtTop, NoShip
    <3> QED
      BY Zenon, <2>1, <3>2, <3>3 DEF StoreInv, StoreHolds, ShipHolds, Restoring
<1>2. ApplyInv /\ StoreInv /\ [Next]_vars => StoreInv'
  <2> SUFFICES ASSUME ApplyInv, StoreInv, [Next]_vars PROVE StoreInv'
    BY Zenon
  <2>1. CASE Next
    <3>1. storeErrors' \in Nat
      <4>1. storeErrors \in Nat
        BY Zenon DEF StoreInv
      <4>2. storeErrors' = storeErrors \/ storeErrors' = storeErrors + 1
        <5>1. CASE LoopSteps
          BY Zenon, <5>1 DEF LoopSteps, Pick, Recheck, Skip, ApplyCmd, Raise, Notify, StoreFails, faultVars
        <5>2. CASE InstallSteps
          BY Zenon, <5>2 DEF InstallSteps, HandleInstallSnapshot, Restore, InstallSaved, StoreFails, faultVars
        <5> QED
          BY ZenonT(30), <2>1, <5>1, <5>2, StepGroups
            DEF RaftSteps, ProposalSteps, CompactorSteps, ShipSteps, CrashAndRestart
      <4> QED
        BY <4>1, <4>2
    <3> QED
      BY Zenon, <2>1, <3>1, StoreHoldsStep, ShipHoldsStep DEF StoreInv
  <2>2. CASE UNCHANGED vars
    BY Zenon, <2>2 DEF vars, loopVars, shipVars, installVars, faultVars, historyVars, StoreInv, Intact,
      StoreHolds, ShipHolds, Restoring
  <2> QED
    BY Zenon, <2>1, <2>2
<1> QED
  BY <1>1, <1>2, ApplyInvariant, PTL DEF Spec

\* No crash loses an applied entry or brings an old one back: what the saved base
\* stands for is in the store in an order that replays, whoever saves it and
\* whichever of compaction and install moved it.
THEOREM BaseStaysBacked == Spec => []BaseIsBacked
<1>1. StoreInv => BaseIsBacked
  BY Zenon DEF StoreInv, StoreHolds, BaseIsBacked
<1> QED
  BY <1>1, StoreInvariant, PTL

\* A snapshot that is sent is never behind the index it is sent under, although
\* index, term and data are read in three steps.
THEOREM ShippedAlwaysCovers == Spec => []ShippedCoversIndex
<1>1. StoreInv => ShippedCoversIndex
  BY Zenon DEF StoreInv, ShipHolds, ShippedCoversIndex
<1> QED
  BY <1>1, StoreInvariant, PTL

\* Applying again after a restart or a snapshot leaves nothing out and nothing
\* undone, at every moment of it.
THEOREM ReplayAlwaysConverges == Spec => []ReplayConverges
<1>1. StoreInv => ReplayConverges
  BY Zenon DEF StoreInv, StoreHolds, ReplayConverges
<1> QED
  BY <1>1, StoreInvariant, PTL

(***************************************************************************)
(* Exactly once, from each start of the loop to the next.                  *)
(***************************************************************************)
OnceBody ==
  /\ store = origin.data \o
               Run(origin.idx, IF loop.pc = "raise" THEN loop.idx ELSE lastApplied)
  /\ origin.idx <= lastApplied

OnceInv == Intact /\ ~Restoring => OnceBody

\* Where the loop goes on from nothing has been applied yet.
LEMMA RunStarts ==
  ASSUME NEW S, NEW d \in Seq(S), NEW a \in Nat
  PROVE  d \o Run(a, a) = d
<1>1. Run(a, a) \in Seq(S) /\ Len(Run(a, a)) = 0
  <2>1. 1..(a - a) = {}
    OBVIOUS
  <2> QED
    BY <2>1 DEF Run
<1>2. Run(a, a) = <<>>
  BY <1>1
<1> QED
  BY <1>2

\* The elements of a concatenation.
LEMMA ConcatFacts ==
  ASSUME NEW c \in Seq(Nat), NEW f \in Seq(Nat)
  PROVE  /\ c \o f \in Seq(Nat) /\ Len(c \o f) = Len(c) + Len(f) /\ Len(c) \in Nat /\ Len(f) \in Nat
         /\ \A j \in 1..Len(c) : (c \o f)[j] = c[j]
         /\ \A j \in 1..Len(f) : (c \o f)[Len(c) + j] = f[j]
<1>1. c \o f \in Seq(Nat) /\ Len(c \o f) = Len(c) + Len(f) /\ Len(c) \in Nat /\ Len(f) \in Nat
  BY SMTT(40)
<1>2. \A j \in 1..(Len(c) + Len(f)) : (c \o f)[j] = IF j <= Len(c) THEN c[j] ELSE f[j - Len(c)]
  BY SMTT(40)
<1>3. ASSUME NEW j \in 1..Len(c) PROVE (c \o f)[j] = c[j]
  <2>1. j \in 1..(Len(c) + Len(f)) /\ j <= Len(c)
    BY <1>1, <1>3
  <2> QED
    BY Zenon, <1>2, <2>1
<1>4. ASSUME NEW j \in 1..Len(f) PROVE (c \o f)[Len(c) + j] = f[j]
  <2>1. Len(c) + j \in 1..(Len(c) + Len(f)) /\ ~(Len(c) + j <= Len(c)) /\ Len(c) + j - Len(c) = j
    BY <1>1, <1>4
  <2>2. (c \o f)[Len(c) + j] = f[Len(c) + j - Len(c)]
    BY SMTT(40), <1>2, <2>1
  <2> QED
    BY Zenon, <2>1, <2>2
<1> QED
  BY Zenon, <1>1, <1>3, <1>4

\* The next entry makes the run longer by one.
LEMMA RunGrows ==
  ASSUME NEW d \in Seq(Nat), NEW a \in Nat, NEW b \in Nat, a <= b
  PROVE  Append(d \o Run(a, b), b + 1) = d \o Run(a, b + 1)
<1> DEFINE p == Run(a, b)
           q == Run(a, b + 1)
           n == b - a
<1>1. /\ n \in Nat /\ a + (n + 1) = b + 1
      /\ p \in Seq(Nat) /\ Len(p) = n /\ \A k \in 1..n : p[k] = a + k
      /\ q \in Seq(Nat) /\ Len(q) = n + 1 /\ \A k \in 1..(n + 1) : q[k] = a + k
  BY DEF Run
<1> HIDE DEF p, q, n
<1> DEFINE c == d \o p
           l == Append(c, b + 1)
           r == d \o q
<1>2. /\ c \in Seq(Nat) /\ Len(c) = Len(d) + n /\ Len(d) \in Nat
      /\ (\A j \in 1..Len(d) : c[j] = d[j]) /\ (\A j \in 1..n : c[Len(d) + j] = p[j])
  BY Zenon, <1>1, ConcatFacts
<1>3. /\ r \in Seq(Nat) /\ Len(r) = Len(d) + (n + 1)
      /\ (\A j \in 1..Len(d) : r[j] = d[j]) /\ (\A j \in 1..(n + 1) : r[Len(d) + j] = q[j])
  <2>1. /\ r \in Seq(Nat) /\ Len(r) = Len(d) + Len(q)
        /\ (\A j \in 1..Len(d) : r[j] = d[j]) /\ (\A j \in 1..Len(q) : r[Len(d) + j] = q[j])
    BY Zenon, <1>1, ConcatFacts
  <2>2. Len(q) = n + 1
    BY Zenon, <1>1
  <2> QED
    BY Zenon, <2>1, <2>2
<1> HIDE DEF c, r
<1>4. /\ l \in Seq(Nat) /\ Len(l) = Len(c) + 1 /\ l[Len(c) + 1] = b + 1
      /\ \A j \in 1..Len(c) : l[j] = c[j]
  BY <1>2
<1> HIDE DEF l
<1>5. n \in Nat /\ Len(d) \in Nat /\ Len(c) = Len(d) + n /\ Len(r) = Len(d) + (n + 1)
      /\ Len(l) = Len(d) + (n + 1) /\ Len(c) + 1 = Len(d) + (n + 1)
  BY <1>1, <1>2, <1>3, <1>4
<1>6. ASSUME NEW k \in 1..Len(d) PROVE l[k] = r[k]
  <2>1. k \in 1..Len(c)
    BY <1>5, <1>6
  <2> QED
    BY Zenon, <1>2, <1>3, <1>4, <2>1
<1>7. ASSUME NEW j \in 1..n PROVE l[Len(d) + j] = r[Len(d) + j]
  <2>1. Len(d) + j \in 1..Len(c) /\ j \in 1..(n + 1)
    BY <1>5, <1>7
  <2>2. l[Len(d) + j] = c[Len(d) + j] /\ c[Len(d) + j] = p[j] /\ p[j] = a + j
    BY Zenon, <1>1, <1>2, <1>4, <1>7, <2>1
  <2>3. r[Len(d) + j] = q[j] /\ q[j] = a + j
    BY Zenon, <1>1, <1>3, <2>1
  <2> QED
    BY Zenon, <2>2, <2>3
<1>8. l[Len(d) + (n + 1)] = r[Len(d) + (n + 1)]
  <2>1. n + 1 \in 1..(n + 1)
    BY <1>5
  <2> QED
    BY Zenon, <1>1, <1>3, <1>4, <1>5, <2>1
<1>9. ASSUME NEW k \in 1..Len(l) PROVE l[k] = r[k]
  <2>1. \/ k \in 1..Len(d) \/ k = Len(d) + (n + 1)
        \/ k - Len(d) \in 1..n /\ k = Len(d) + (k - Len(d))
    BY <1>5, <1>9
  <2> QED
    BY Zenon, <1>6, <1>7, <1>8, <2>1
<1>10. Len(l) = Len(r) /\ l \in Seq(Nat) /\ r \in Seq(Nat) /\ \A k \in 1..Len(l) : l[k] = r[k]
  BY Zenon, <1>3, <1>4, <1>5, <1>9
<1>11. l = r
  <2>1. l = [k \in 1..Len(l) |-> l[k]] /\ r = [k \in 1..Len(r) |-> r[k]]
    BY <1>10
  <2> QED
    BY Zenon, <1>10, <2>1
<1> QED
  BY Zenon, <1>11 DEF l, r, c, p, q

\* A sequence of positive numbers is one of natural numbers.
LEMMA NumbersNatural ==
  ASSUME NEW m \in Nat, NEW d \in Seq(1..m)
  PROVE  d \in Seq(Nat)
<1>1. Len(d) \in Nat /\ d = [k \in 1..Len(d) |-> d[k]] /\ \A k \in 1..Len(d) : d[k] \in 1..m
  OBVIOUS
<1>2. 1..m \subseteq Nat
  OBVIOUS
<1>3. d \in [1..Len(d) -> Nat]
  BY Zenon, <1>1, <1>2
<1> QED
  BY <1>1, <1>3

\* What goes into the store are natural numbers.
LEMMA StoreNumbers ==
  ASSUME ApplyInv
  PROVE  /\ store \in Seq(1..MaxLog) /\ origin.data \in Seq(Nat) /\ origin.idx \in Nat
         /\ lastApplied \in Nat /\ disk.base \in Nat
<1>1. /\ store \in Seq(1..MaxLog) /\ origin.data \in Seq(1..MaxLog) /\ origin.idx \in Index
      /\ MaxLog \in Nat /\ lastApplied \in Nat /\ disk.base \in Nat
  BY Zenon, LogNumbers DEF ApplyInv, StoreShape
<1>2. origin.idx \in Nat
  BY <1>1 DEF Index
<1> QED
  BY Zenon, <1>1, <1>2, NumbersNatural

\* Nothing is applied twice between two starting points.
LEMMA OnceStep ==
  ASSUME ApplyInv, StoreInv, OnceInv, Next
  PROVE  OnceInv'
<1> SUFFICES ASSUME Intact', ~Restoring' PROVE OnceBody'
  BY Zenon DEF OnceInv
<1>0. /\ Intact /\ StoreHolds /\ storeErrors' = storeErrors /\ storeErrors \in Nat
      /\ LogInv /\ LoopInv /\ CompactorInv /\ InstallShape /\ lastApplied \in Nat
  BY Zenon, IntactFrame, LogNumbers DEF ApplyInv, StoreInv
<1>1. ~Restoring => OnceBody
  BY Zenon, <1>0 DEF OnceInv
<1>2. ASSUME ~Restoring, UNCHANGED <<store, lastApplied, loop, origin>> PROVE OnceBody'
  BY Zenon, <1>1, <1>2 DEF OnceBody
<1>3. CASE UNCHANGED <<store, lastApplied, loop, installs, origin>>
  <2>1. ~Restoring
    BY Zenon, <1>3 DEF Restoring
  <2> QED
    BY Zenon, <1>2, <1>3, <2>1
<1>4. CASE CompactorSteps
  <2>1. lastApplied' = lastApplied
    BY Zenon, <1>0, <1>4, TrimmedFacts DEF CompactorSteps, CompactorTick, CompactorStore, Flush,
      compactorUnchanged, loopVars
  <2> QED
    BY Zenon, <1>3, <1>4, <2>1 DEF CompactorSteps
<1>5. CASE HandleInstallSnapshot
  <2> DEFINE new(s, d, st) == [idx |-> s, data |-> d, stage |-> st]
  <2>1. PICK s \in 1..Len(chosen), d \in Data :
             \/ installs' = installs \cup {new(s, d, "restore")}
             \/ installs' = installs \cup {new(s, <<>>, "save")} /\ UNCHANGED lastApplied
    BY Zenon, <1>5 DEF HandleInstallSnapshot
  <2>2. new(s, d, "restore").stage = "restore"
    BY Zenon
  <2> HIDE DEF new
  <2>3. installs' # installs \cup {new(s, d, "restore")}
    BY Zenon, <2>2 DEF Restoring
  <2>4. ~Restoring
    BY Zenon, <2>1, <2>3 DEF Restoring
  <2>5. UNCHANGED <<store, loop, origin>>
    BY Zenon, <1>5 DEF HandleInstallSnapshot
  <2> QED
    BY Zenon, <1>2, <2>1, <2>3, <2>4, <2>5
<1>6. ASSUME NEW h \in installs, InstallSaved(h) PROVE OnceBody'
  <2>1. installs' = installs \ {h} /\ h.stage = "save"
        /\ UNCHANGED <<store, lastApplied, loop, origin>>
    BY Zenon, <1>6 DEF InstallSaved, loopVars, historyVars
  <2>2. ~Restoring
    BY Zenon, <2>1 DEF Restoring
  <2> QED
    BY Zenon, <1>2, <2>1, <2>2
<1>7. ASSUME NEW h \in installs, Restore(h) PROVE OnceBody'
  <2>1. /\ h.stage = "restore" /\ ~ApplyMuHeld /\ store' = h.data
        /\ origin' = [idx |-> h.idx, data |-> h.data] /\ UNCHANGED <<lastApplied, loop>>
    BY <1>0, <1>7 DEF Restore, StoreFails
  <2>2. h.idx = lastApplied
    BY Zenon, <1>0, <2>1 DEF StoreHolds
  <2>3. h.data \in Seq(1..MaxLog)
    BY Zenon, <1>0 DEF InstallShape
  <2> QED
    <3>1. store' = store' \o Run(lastApplied, lastApplied)
      BY Zenon, <1>0, <2>1, <2>3, RunStarts
    <3>2. lastApplied <= lastApplied
      BY <1>0
    <3>3. origin'.idx = lastApplied /\ origin'.data = store' /\ loop'.pc # "raise"
      BY Zenon, <2>1, <2>2 DEF ApplyMuHeld
    <3> QED
      BY Zenon, <2>1, <3>1, <3>2, <3>3 DEF OnceBody
<1>8. CASE LoopSteps
  <2>1. ~Restoring /\ OnceBody /\ origin' = origin
    <3>1. installs' = installs /\ origin' = origin
      BY Zenon, <1>8 DEF LoopSteps
    <3>2. ~Restoring
      BY Zenon, <3>1 DEF Restoring
    <3> QED
      BY Zenon, <1>1, <3>1, <3>2
  <2>2. CASE Pick \/ Recheck \/ Notify
    <3>1. UNCHANGED <<store, lastApplied>> /\ loop.pc # "raise"
      BY <2>2 DEF Pick, Recheck, Notify
    <3>2. loop'.pc # "raise"
      <4>1. CASE Recheck
        BY <1>0, <4>1 DEF Recheck, LoopInv
      <4>2. CASE Notify
        BY Zenon, <4>2 DEF Notify, AtTop
      <4>3. CASE Pick
        BY <4>3 DEF Pick
      <4> QED
        BY Zenon, <2>2, <4>1, <4>2, <4>3
    <3> QED
      BY Zenon, <2>1, <3>1, <3>2 DEF OnceBody
  <2>3. CASE Skip
    <3>1. loop.idx = lastApplied + 1 /\ lacking' = (lacking \/ lastApplied < loop.idx)
      BY Zenon, <1>0, <2>1, <2>3 DEF Skip, StoreHolds
    <3>2. lastApplied < loop.idx
      BY <1>0, <3>1
    <3> QED
      BY Zenon, <3>1, <3>2 DEF Intact
  <2>4. CASE ApplyCmd
    <3>1. /\ loop.pc = "write" /\ lastApplied' = lastApplied
          /\ store' = Append(store, loop.idx) /\ loop' = [loop EXCEPT !.pc = "raise"]
      BY <1>0, <2>4 DEF ApplyCmd, StoreFails
    <3>2. loop'.idx = loop.idx /\ loop'.pc = "raise"
      BY Zenon, <1>0, <3>1 DEF LoopInv
    <3>3. loop.idx = lastApplied + 1
      BY Zenon, <1>0, <2>1, <3>1 DEF StoreHolds
    <3>4. store = origin.data \o Run(origin.idx, lastApplied) /\ origin.idx <= lastApplied
      BY Zenon, <2>1, <3>1 DEF OnceBody
    <3>5. store' = origin.data \o Run(origin.idx, loop.idx)
      BY Zenon, <3>1, <3>3, <3>4, StoreNumbers, RunGrows
    <3> QED
      BY Zenon, <2>1, <3>1, <3>2, <3>4, <3>5 DEF OnceBody
  <2>5. CASE Raise
    <3>1. /\ loop.pc = "raise" /\ store' = store /\ lastApplied' = Raised(lastApplied, loop.idx)
          /\ loop' = [loop EXCEPT !.pc = "notify"]
      BY Zenon, <2>5 DEF Raise
    <3>2. loop'.pc = "notify"
      BY Zenon, <1>0, <3>1 DEF LoopInv
    <3>3. loop.idx = lastApplied + 1
      BY Zenon, <1>0, <2>1, <3>1 DEF StoreHolds
    <3>4. lastApplied' = loop.idx
      BY <1>0, <3>1, <3>3 DEF Raised
    <3>5. store = origin.data \o Run(origin.idx, loop.idx) /\ origin.idx <= lastApplied
      BY Zenon, <2>1, <3>1 DEF OnceBody
    <3>6. origin.idx <= lastApplied'
      BY <1>0, <3>3, <3>4, <3>5, StoreNumbers
    <3> QED
      BY Zenon, <2>1, <3>1, <3>2, <3>4, <3>5, <3>6 DEF OnceBody
  <2> QED
    BY Zenon, <1>8, <2>2, <2>3, <2>4, <2>5 DEF LoopSteps
<1>9. CASE InstallSteps
  BY Zenon, <1>5, <1>6, <1>7, <1>9 DEF InstallSteps
<1>10. CASE CrashAndRestart
  <2>1. /\ lastApplied' = disk.base /\ store' = store /\ loop' = AtTop
        /\ origin' = [idx |-> disk.base, data |-> store]
    BY Zenon, <1>10 DEF CrashAndRestart, RestoredIndex
  <2>2. loop'.pc = "top" /\ disk.base \in Nat
    BY Zenon, <1>0, <2>1, LogNumbers DEF AtTop
  <2> QED
    <3>1. store = store \o Run(disk.base, disk.base)
      BY Zenon, <2>2, StoreNumbers, RunStarts
    <3>2. disk.base <= disk.base
      BY <2>2
    <3>3. origin'.idx = disk.base /\ origin'.data = store /\ loop'.pc # "raise"
      BY Zenon, <2>1, <2>2
    <3> QED
      BY Zenon, <2>1, <3>1, <3>2, <3>3 DEF OnceBody
<1> QED
  BY ZenonT(30), <1>3, <1>4, <1>8, <1>9, <1>10, StepGroups DEF RaftSteps, ProposalSteps, ShipSteps

\* From one restart or installed snapshot to the next every entry reaches the store
\* exactly once and in order, whatever elections, proposals, compactions and
\* requests go on beside the loop.
THEOREM EntriesAppliedOnce == Spec => []AppliedOnceInOrder
<1>1. Init => OnceInv
  <2> SUFFICES ASSUME Init PROVE OnceInv
    BY Zenon
  <2>1. store = <<>> /\ lastApplied = 0 /\ loop = AtTop /\ origin = [idx |-> 0, data |-> <<>>]
    BY Zenon DEF Init
  <2>2. origin.idx = 0 /\ origin.data = <<>> /\ Run(0, 0) = <<>> /\ loop.pc = "top"
    BY <2>1 DEF Run, AtTop
  <2>3. store = origin.data \o Run(origin.idx, lastApplied) /\ origin.idx <= lastApplied
    BY <2>1, <2>2
  <2> QED
    BY Zenon, <2>2, <2>3 DEF OnceInv, OnceBody
<1>2. ApplyInv /\ StoreInv /\ OnceInv /\ [Next]_vars => OnceInv'
  <2> SUFFICES ASSUME ApplyInv, StoreInv, OnceInv, [Next]_vars PROVE OnceInv'
    BY Zenon
  <2>1. CASE Next
    BY Zenon, <2>1, OnceStep
  <2>2. CASE UNCHANGED vars
    BY Zenon, <2>2 DEF vars, loopVars, installVars, faultVars, historyVars, OnceInv, OnceBody, Intact,
      Restoring
  <2> QED
    BY Zenon, <2>1, <2>2
<1>3. OnceInv => AppliedOnceInOrder
  BY Zenon DEF OnceInv, OnceBody, AppliedOnceInOrder
<1> QED
  BY <1>1, <1>2, <1>3, ApplyInvariant, StoreInvariant, PTL DEF Spec

=============================================================================
