------------------------------ MODULE RaftProofs ------------------------------
(***************************************************************************)
(* Theorems about the raft cluster, for every set of nodes and commands    *)
(* and all bounds.                                                         *)
(*                                                                         *)
(* The proofs are layered: each layer is an invariant of Spec proved with  *)
(* the help of the layers below it.                                        *)
(*   0. the operators of RaftLog           MergeFacts, ...                 *)
(*   1. types                              TypeOK, NoCompaction            *)
(*   2. memory and file                    CleanMeansSaved, TermSaved      *)
(*   3. votes and candidacies              VoteCallsInv, ElectionInv       *)
(*   4. elections won                      ElectedInv, ...                 *)
(* and, in RaftOrderProofs,                                                *)
(*   5. terms along the logs               LogTermsAscend                  *)
(*   6. calls in flight                    OneCallPerPeer                  *)
(*   7. matching logs                      MatchInv, LogMatching           *)
(*   8. majorities                         ElectionIsDurable               *)
(***************************************************************************)
EXTENDS RaftSafety, WellFoundedInduction, TLAPS

(***************************************************************************)
(* 0. Reading a log.                                                       *)
(***************************************************************************)

\* Every non-empty set of naturals has a least element, the one Min returns.
LEMMA MinOfNaturals ==
  ASSUME NEW S, S \subseteq Nat, S # {}
  PROVE  Min(S) \in S /\ \A y \in S : Min(S) <= y
<1> DEFINE R == {ss \in Nat \X Nat : ss[1] < ss[2]}
<1>1. IsWellFoundedOn(R, Nat)
  BY Zenon, NatLessThanWellFounded DEF OpToRel
<1>2. PICK x \in S : \A y \in S : ~(<<y, x>> \in R)
  <2> HIDE DEF R
  <2> QED BY Zenon, <1>1, WFMin
<1>3. \A y \in S : ~(y < x)
  BY Zenon, <1>2
<1>4. \A y \in S : x <= y
  BY <1>3
<1> QED
  BY Zenon, <1>4 DEF Min

\* The larger of two integers, as replicateToPeer takes it for nextIndex and matchIndex.
LEMMA MaxOfTwo ==
  ASSUME NEW a \in Int, NEW b \in Int
  PROVE  Max({a, b}) = IF a >= b THEN a ELSE b
<1>1. \E x \in {a, b} : \A y \in {a, b} : x >= y
  OBVIOUS
<1>2. Max({a, b}) \in {a, b} /\ \A y \in {a, b} : Max({a, b}) >= y
  BY Zenon, <1>1 DEF Max
<1> QED
  BY <1>2

\* The same for the smaller one, as CommitAtFollower takes it.
LEMMA MinOfTwo ==
  ASSUME NEW a \in Int, NEW b \in Int
  PROVE  Min({a, b}) = IF a <= b THEN a ELSE b
<1>1. \E x \in {a, b} : \A y \in {a, b} : x <= y
  OBVIOUS
<1>2. Min({a, b}) \in {a, b} /\ \A y \in {a, b} : Min({a, b}) <= y
  BY Zenon, <1>1 DEF Min
<1> QED
  BY <1>2

\* The terms in a sequence of entries are naturals.
LEMMA EntryTerms ==
  ASSUME NEW s \in Seq(Entry)
  PROVE  \A k \in 1..Len(s) : s[k].term \in Nat
<1>1. \A k \in 1..Len(s) : s[k] \in Entry
  OBVIOUS
<1> QED
  BY <1>1 DEF Entry

\* Types of the readers of a log.
LEMMA LogReaderTypes ==
  ASSUME NEW l \in Log
  PROVE  /\ LastLogIndex(l) \in Nat /\ LastLogTerm(l) \in Nat
         /\ \A idx \in Nat : LogTermAt(l, idx) \in Int
         /\ \A idx \in Nat : idx > l.base => EntriesFrom(l, idx) \in Seq(Entry)
<1>1. /\ l.base \in Nat /\ l.baseTerm \in Nat /\ l.entries \in Seq(Entry)
      /\ Len(l.entries) \in Nat
  BY DEF Log
<1>2. \A k \in 1..Len(l.entries) : l.entries[k].term \in Nat
  BY <1>1, EntryTerms
<1>3. LastLogIndex(l) \in Nat
  BY <1>1 DEF LastLogIndex
<1>4. LastLogTerm(l) \in Nat
  <2>1. CASE l.entries = <<>>
    BY <1>1, <2>1 DEF LastLogTerm
  <2>2. CASE l.entries # <<>>
    <3>1. Len(l.entries) \in 1..Len(l.entries)
      BY <1>1, <2>2
    <3> QED
      BY <1>2, <2>2, <3>1 DEF LastLogTerm
  <2> QED
    BY <2>1, <2>2
<1>5. ASSUME NEW idx \in Nat
      PROVE  LogTermAt(l, idx) \in Int
  <2>1. HasEntry(l, idx) => EntryAt(l, idx).term \in Nat
    <3> SUFFICES ASSUME HasEntry(l, idx)
                 PROVE  EntryAt(l, idx).term \in Nat
      OBVIOUS
    <3>1. idx - l.base \in 1..Len(l.entries)
      BY <1>1 DEF HasEntry, LastLogIndex
    <3> QED
      BY <1>2, <3>1 DEF EntryAt
  <2> QED
    BY <1>1, <2>1 DEF LogTermAt
<1>6. ASSUME NEW idx \in Nat, idx > l.base
      PROVE  EntriesFrom(l, idx) \in Seq(Entry)
  <2>1. idx - l.base \in Nat \ {0}
    BY <1>1, <1>6
  <2> DEFINE a == idx - l.base
  <2>2. \A k \in a..Len(l.entries) : l.entries[k] \in Entry
    BY <1>1, <2>1
  <2>3. a \in Int /\ Len(l.entries) \in Int
    BY <1>1, <2>1
  <2> HIDE DEF a
  <2>4. SubSeq(l.entries, a, Len(l.entries)) \in Seq(Entry)
    BY <2>2, <2>3
  <2> QED
    BY <2>4 DEF EntriesFrom, a
<1> QED
  BY <1>3, <1>4, <1>5, <1>6

\* Above the compaction base and up to its end a log has an entry, whose term
\* logTermAt returns.
LEMMA RetainedTerm ==
  ASSUME NEW l \in Log, NEW prev \in Nat, NEW k \in Nat \ {0},
         prev >= l.base, prev + k <= LastLogIndex(l)
  PROVE  LogTermAt(l, prev + k) = l.entries[prev + k - l.base].term
<1>1. l.base \in Nat
  BY DEF Log
<1> QED
  BY <1>1 DEF LogTermAt, HasEntry, EntryAt

(***************************************************************************)
(* mergeEntries and appending, for all logs.                               *)
(***************************************************************************)

\* An entry e at index idx of a merged log is the request's entry x, or the one the log
\* had there, if that has the same term.
FromEither(e, l, idx, x) ==
  \/ e = x
  \/ HasEntry(l, idx) /\ e = EntryAt(l, idx) /\ e.term = x.term

\* Dropping the suffix beyond the request leaves a log that ends at the request's
\* end at the latest, with the entries up to there unchanged.
LEMMA DropBeyondFacts ==
  ASSUME NEW l \in Log, NEW end \in Nat, end >= l.base
  PROVE  LET d == DropBeyond(l, end) IN
         /\ d \in Log
         /\ d.base = l.base /\ d.baseTerm = l.baseTerm
         /\ Len(d.entries) = IF end < LastLogIndex(l) THEN end - l.base ELSE Len(l.entries)
         /\ \A k \in 1..Len(d.entries) : d.entries[k] = l.entries[k]
<1> DEFINE d == DropBeyond(l, end)
<1>1. l.entries \in Seq(Entry) /\ l.base \in Nat /\ l.baseTerm \in Nat
  BY DEF Log
<1>2. CASE ~(end < LastLogIndex(l))
  BY <1>1, <1>2 DEF DropBeyond
<1>3. CASE end < LastLogIndex(l)
  <2> DEFINE s == SubSeq(l.entries, 1, end - l.base)
  <2>1. end - l.base \in 0..Len(l.entries)
    BY <1>1, <1>3 DEF LastLogIndex
  <2>2. s \in Seq(Entry) /\ Len(s) = end - l.base /\ \A k \in 1..Len(s) : s[k] = l.entries[k]
    BY SMTT(30), <1>1, <2>1
  <2>3. d = [l EXCEPT !.entries = s]
    BY <1>3 DEF DropBeyond, TruncateAfter
  <2> QED
    BY Zenon, <1>1, <1>3, <2>2, <2>3 DEF Log
<1> QED
  BY <1>2, <1>3

\* Positions of a concatenation.
LEMMA ConcatFacts ==
  ASSUME NEW S, NEW a \in Seq(S), NEW b \in Seq(S)
  PROVE  /\ a \o b \in Seq(S)
         /\ Len(a \o b) = Len(a) + Len(b)
         /\ \A k \in 1..Len(a) : (a \o b)[k] = a[k]
         /\ \A k \in 1..Len(b) : (a \o b)[Len(a) + k] = b[k]
OBVIOUS

\* Positions of a suffix.
LEMMA SubSeqFacts ==
  ASSUME NEW s \in Seq(Entry), NEW n \in Nat, NEW a \in Nat, n = Len(s), a >= 1
  PROVE  /\ SubSeq(s, a, n) \in Seq(Entry)
         /\ Len(SubSeq(s, a, n)) = IF a <= n THEN n - a + 1 ELSE 0
         /\ \A k \in 1..(n - a + 1) : SubSeq(s, a, n)[k] = s[a + k - 1]
<1>1. \A k \in a..n : s[k] \in Entry
  OBVIOUS
<1>2. SubSeq(s, a, n) \in Seq(Entry) /\ Len(SubSeq(s, a, n)) = IF a <= n THEN n - a + 1 ELSE 0
  BY <1>1
<1>3. \A k \in 1..(n - a + 1) : SubSeq(s, a, n)[k] = s[a + k - 1]
  BY <1>1
<1> QED
  BY Zenon, <1>2, <1>3

\* A prefix of one sequence followed by a suffix of another, position by position.
LEMMA SpliceFacts ==
  ASSUME NEW s \in Seq(Entry), NEW es \in Seq(Entry), NEW n \in 0..Len(s),
         NEW f \in 1..(Len(es) + 1)
  PROVE  /\ Splice(s, n, es, f) \in Seq(Entry)
         /\ Len(Splice(s, n, es, f)) = n + Len(es) - f + 1
         /\ \A k \in 1..n : Splice(s, n, es, f)[k] = s[k]
         /\ \A k \in f..Len(es) : Splice(s, n, es, f)[n + k - f + 1] = es[k]
<1> DEFINE a == SubSeq(s, 1, n)
           b == SubSeq(es, f, Len(es))
           r == a \o b
<1>0. a \in Seq(Entry) /\ b \in Seq(Entry)
  OBVIOUS
<1>1. a \in Seq(Entry) /\ Len(a) = n /\ \A k \in 1..n : a[k] = s[k]
  OBVIOUS
<1>2. b \in Seq(Entry) /\ Len(b) = Len(es) - f + 1 /\ \A k \in 1..Len(b) : b[k] = es[f + k - 1]
  OBVIOUS
<1>3. n \in Nat /\ f \in Nat /\ Len(es) \in Nat
  OBVIOUS
<1> HIDE DEF a, b
<1>4. /\ r \in Seq(Entry) /\ Len(r) = Len(a) + Len(b)
      /\ \A k \in 1..Len(a) : r[k] = a[k]
      /\ \A k \in 1..Len(b) : r[Len(a) + k] = b[k]
  BY <1>0, ConcatFacts
<1> HIDE DEF r
<1>5. Len(r) = n + Len(es) - f + 1
  BY <1>1, <1>2, <1>3, <1>4
<1>6. \A k \in 1..n : r[k] = s[k]
  BY <1>1, <1>4
<1>7. ASSUME NEW k \in f..Len(es)
      PROVE  r[n + k - f + 1] = es[k]
  <2>1. /\ Len(a) + (k - f + 1) = n + k - f + 1
        /\ k - f + 1 \in 1..Len(b) /\ f + (k - f + 1) - 1 = k
    BY <1>1, <1>2, <1>3
  <2>2. r[Len(a) + (k - f + 1)] = b[k - f + 1]
    BY Zenon, <1>4, <2>1
  <2>3. b[k - f + 1] = es[f + (k - f + 1) - 1]
    BY <1>2, <2>1
  <2> QED
    BY Zenon, <2>1, <2>2, <2>3
<1> QED
  BY Zenon, <1>4, <1>5, <1>6, <1>7 DEF Splice, r, a, b

\* Grafting the request onto a log that ends between the request's start and its
\* end: the result ends where the request ends, keeps what precedes the request,
\* and after that has the request's entries, or its own of the same terms.
LEMMA GraftFacts ==
  ASSUME NEW l \in Log, NEW prev \in Nat, NEW es \in Seq(Entry), NEW m,
         prev >= l.base, prev <= LastLogIndex(l), LastLogIndex(l) <= prev + Len(es),
         m = Graft(l, prev, es)
  PROVE  /\ m \in Log
         /\ m.base = l.base /\ m.baseTerm = l.baseTerm
         /\ Len(m.entries) = prev + Len(es) - l.base
         /\ \A k \in 1..(prev - l.base) : m.entries[k] = l.entries[k]
         /\ \A k \in 1..Len(es) : FromEither(m.entries[prev - l.base + k], l, prev + k, es[k])
<1>1. /\ l.entries \in Seq(Entry) /\ l.base \in Nat /\ l.baseTerm \in Nat
      /\ Len(l.entries) \in Nat /\ Len(es) \in Nat
  BY DEF Log
<1>2. PICK b \in Nat, n \in Nat, z \in Nat : b = l.base /\ n = Len(l.entries) /\ z = Len(es)
  BY <1>1
<1>3. LastLogIndex(l) = b + n /\ prev >= b /\ prev <= b + n /\ b + n <= prev + z
  BY <1>2 DEF LastLogIndex
<1>4. PICK p \in Nat : p = prev - b /\ p <= n /\ n <= p + z
  BY <1>3
<1> DEFINE miss == Missing(l, prev, es)
<1>5. miss \subseteq 1..z
  BY <1>2 DEF Missing
<1>6. ASSUME NEW k \in 1..z, k \notin miss
      PROVE  p + k <= n /\ FromEither(l.entries[p + k], l, prev + k, es[k])
  <2>0. prev + k > b
    BY <1>3
  <2>1. ~(prev + k > LastLogIndex(l)) /\ LogTermAt(l, prev + k) = es[k].term
    BY Zenon, <1>2, <1>6, <2>0 DEF Missing
  <2>2. prev + k <= b + n /\ prev + k \in Nat
    BY <1>3, <2>1
  <2>3. LogTermAt(l, prev + k) = l.entries[prev + k - b].term
    BY <1>2, <1>3, <2>2, RetainedTerm
  <2>4. (prev + k) - b = p + k /\ prev + k - b = p + k /\ p + k <= n /\ p + k \in Nat /\ prev + k > b
    BY <1>4, <2>2
  <2>5. HasEntry(l, prev + k)
    BY <1>2, <1>3, <2>2, <2>4 DEF HasEntry
  <2>6. EntryAt(l, prev + k) = l.entries[p + k]
    <3>1. (prev + k) - l.base = p + k
      BY Zenon, <1>2, <2>4
    <3> QED
      BY Zenon, <3>1 DEF EntryAt
  <2> QED
    BY Zenon, <2>1, <2>3, <2>4, <2>5, <2>6 DEF FromEither
<1>7. m = IF miss = {} THEN l
          ELSE [l EXCEPT !.entries = Splice(l.entries, prev + Min(miss) - b - 1, es, Min(miss))]
  BY <1>2 DEF Graft
<1> HIDE DEF miss
<1>8. CASE miss = {}
  <2>1. m = l
    BY <1>7, <1>8
  <2>2. n = p + z
    <3>1. CASE z = 0
      BY <1>4, <3>1
    <3>2. CASE z # 0
      <4>1. z \in 1..z
        BY <3>2
      <4>2. p + z <= n
        BY <1>6, <1>8, <4>1
      <4> QED
        BY <1>4, <4>2
    <3> QED
      BY <3>1, <3>2
  <2>3. n = prev + z - b
    BY <1>4, <2>2
  <2>4. \A k \in 1..z : FromEither(l.entries[p + k], l, prev + k, es[k])
    BY Zenon, <1>6, <1>8
  <2> QED
    BY Zenon, <1>2, <1>4, <2>1, <2>3, <2>4
<1>9. CASE miss # {}
  <2>1. PICK first \in 1..z : first = Min(miss) /\ \A k \in 1..z : k < first => k \notin miss
    <3>1. miss \subseteq Nat
      BY <1>5
    <3>2. Min(miss) \in miss /\ \A k \in miss : Min(miss) <= k
      BY Zenon, <1>9, <3>1, MinOfNaturals
    <3>3. PICK f \in Nat : f = Min(miss)
      BY <3>1, <3>2
    <3>4. f \in 1..z /\ \A k \in 1..z : k < f => k \notin miss
      BY <1>5, <3>2, <3>3
    <3> QED
      BY Zenon, <3>3, <3>4
  <2>2. PICK c \in Nat : c = prev + first - b - 1 /\ c = p + first - 1 /\ c <= n
    <3>1. CASE first = 1
      BY <1>4, <3>1
    <3>2. CASE first # 1
      <4>1. first - 1 \in 1..z /\ first - 1 < first
        BY <3>2
      <4>2. p + (first - 1) <= n
        BY <1>6, <2>1, <4>1
      <4> QED
        BY <1>4, <4>2
    <3> QED
      BY <3>1, <3>2
  <2> DEFINE r == Splice(l.entries, c, es, first)
  <2>3. m = [l EXCEPT !.entries = r]
    BY <1>7, <1>9, <2>1, <2>2
  <2>4. c \in 0..Len(l.entries) /\ first \in 1..(Len(es) + 1)
    <3>1. c \in 0..n /\ first \in 1..(z + 1)
      BY <2>2
    <3> QED
      BY <1>2, <3>1
  <2>5. /\ r \in Seq(Entry)
        /\ Len(r) = c + Len(es) - first + 1
        /\ \A k \in 1..c : r[k] = l.entries[k]
        /\ \A k \in first..Len(es) : r[c + k - first + 1] = es[k]
    BY ZenonT(30), <1>1, <2>4, SpliceFacts
  <2> HIDE DEF r
  <2>6. m \in Log /\ m.base = l.base /\ m.baseTerm = l.baseTerm /\ m.entries = r
    BY Zenon, <1>1, <2>3, <2>5 DEF Log
  <2>7. Len(r) = prev + z - b
    <3>1. Len(r) = c + z - first + 1
      BY <1>2, <2>5
    <3> QED
      BY <2>2, <3>1
  <2>8. \A k \in 1..p : r[k] = l.entries[k]
    <3>1. \A k \in 1..p : k \in 1..c
      BY <2>2
    <3> QED
      BY <2>5, <3>1
  <2>9. ASSUME NEW k \in 1..z
        PROVE  FromEither(r[p + k], l, prev + k, es[k])
    <3>1. CASE k < first
      <4>1. p + k \in 1..c
        BY <2>2, <3>1
      <4>2. r[p + k] = l.entries[p + k]
        BY <2>5, <4>1
      <4> QED
        BY <1>6, <2>1, <3>1, <4>2
    <3>2. CASE k >= first
      <4>1. k \in first..z /\ c + k - first + 1 = p + k
        BY <2>2, <3>2
      <4>2. r[p + k] = es[k]
        BY <1>2, <2>5, <4>1
      <4> QED
        BY <4>2 DEF FromEither
    <3> QED
      BY <3>1, <3>2
  <2> QED
    BY <1>2, <1>4, <2>6, <2>7, <2>8, <2>9
<1> QED
  BY <1>8, <1>9

\* What mergeEntries makes of a log it matches with a request that starts at or
\* after the compaction base: the log ends exactly where the request ends, is
\* unchanged up to prevLogIndex, and after it has the request's entries, or its own
\* of the same terms.
THEOREM MergeFacts ==
  ASSUME NEW l \in Log, NEW prev \in Nat, NEW es \in Seq(Entry), NEW m,
         prev >= l.base, prev <= LastLogIndex(l), m = MergeEntries(l, prev, es)
  PROVE  /\ m \in Log
         /\ m.base = l.base /\ m.baseTerm = l.baseTerm
         /\ Len(m.entries) = prev + Len(es) - l.base
         /\ \A k \in 1..(prev - l.base) : m.entries[k] = l.entries[k]
         /\ \A k \in 1..Len(es) : FromEither(m.entries[prev - l.base + k], l, prev + k, es[k])
<1>1. PICK b \in Nat, n \in Nat, z \in Nat, end \in Nat :
        b = l.base /\ n = Len(l.entries) /\ z = Len(es) /\ end = prev + z
  BY DEF Log
<1>2. LastLogIndex(l) = b + n /\ prev >= b /\ prev <= b + n /\ end >= b /\ end >= prev
  BY <1>1 DEF LastLogIndex
<1> DEFINE d == DropBeyond(l, end)
<1>3. /\ d \in Log
      /\ d.base = l.base /\ d.baseTerm = l.baseTerm
      /\ Len(d.entries) = IF end < LastLogIndex(l) THEN end - l.base ELSE Len(l.entries)
      /\ \A k \in 1..Len(d.entries) : d.entries[k] = l.entries[k]
  BY <1>1, <1>2, DropBeyondFacts
<1>4. m = Graft(d, prev, es)
  BY <1>1 DEF MergeEntries
<1> HIDE DEF d
<1>5. PICK c \in Nat : c = Len(d.entries) /\ c = IF end < b + n THEN end - b ELSE n
  BY <1>1, <1>2, <1>3
<1>6. prev <= b + c /\ b + c <= end /\ c <= n
  BY <1>2, <1>5
<1>7. d.base = b /\ LastLogIndex(d) = b + c
  BY <1>1, <1>3, <1>5 DEF LastLogIndex
<1>8. prev >= d.base /\ prev <= LastLogIndex(d) /\ LastLogIndex(d) <= prev + Len(es)
  BY <1>1, <1>2, <1>6, <1>7
<1>9. /\ m \in Log
      /\ m.base = d.base /\ m.baseTerm = d.baseTerm
      /\ Len(m.entries) = prev + Len(es) - d.base
      /\ \A k \in 1..(prev - d.base) : m.entries[k] = d.entries[k]
      /\ \A k \in 1..Len(es) : FromEither(m.entries[prev - d.base + k], d, prev + k, es[k])
  BY Zenon, <1>3, <1>4, <1>8, GraftFacts
<1>10. \A k \in 1..(prev - b) : m.entries[k] = l.entries[k]
  <2> TAKE k \in 1..(prev - b)
  <2>1. k \in 1..c
    BY <1>2, <1>6
  <2>2. d.entries[k] = l.entries[k]
    BY Zenon, <1>3, <1>5, <2>1
  <2>3. m.entries[k] = d.entries[k]
    BY Zenon, <1>7, <1>9
  <2> QED
    BY Zenon, <2>2, <2>3
<1>11. ASSUME NEW k \in 1..z
       PROVE  FromEither(m.entries[prev - b + k], l, prev + k, es[k])
  <2>1. FromEither(m.entries[prev - b + k], d, prev + k, es[k])
    BY Zenon, <1>1, <1>7, <1>9
  <2>2. HasEntry(d, prev + k) => HasEntry(l, prev + k) /\ EntryAt(d, prev + k) = EntryAt(l, prev + k)
    <3> SUFFICES ASSUME HasEntry(d, prev + k)
                 PROVE  HasEntry(l, prev + k) /\ EntryAt(d, prev + k) = EntryAt(l, prev + k)
      OBVIOUS
    <3>1. prev + k > b /\ prev + k <= b + c
      BY <1>7 DEF HasEntry
    <3>2. PICK x \in 1..c : x = (prev + k) - b
      BY <3>1
    <3>3. d.entries[x] = l.entries[x]
      BY <1>3, <1>5
    <3>4. HasEntry(l, prev + k)
      <4>1. prev + k <= b + n
        BY <1>6, <3>1
      <4> QED
        BY Zenon, <1>1, <1>2, <3>1, <4>1 DEF HasEntry
    <3>5. (prev + k) - d.base = x /\ (prev + k) - l.base = x
      BY Zenon, <1>1, <1>7, <3>2
    <3> QED
      BY Zenon, <3>3, <3>4, <3>5 DEF EntryAt
  <2> QED
    BY Zenon, <2>1, <2>2 DEF FromEither
<1> QED
  BY Zenon, <1>1, <1>3, <1>7, <1>9, <1>10, <1>11

\* propose: the new entry goes to the end, the rest stays.
LEMMA AppendFacts ==
  ASSUME NEW l \in Log, NEW e \in Entry
  PROVE  /\ AppendEntry(l, e) \in Log
         /\ AppendEntry(l, e).base = l.base /\ AppendEntry(l, e).baseTerm = l.baseTerm
         /\ Len(AppendEntry(l, e).entries) = Len(l.entries) + 1
         /\ \A k \in 1..Len(l.entries) : AppendEntry(l, e).entries[k] = l.entries[k]
         /\ AppendEntry(l, e).entries[Len(l.entries) + 1] = e
<1>1. l.base \in Nat /\ l.baseTerm \in Nat /\ l.entries \in Seq(Entry)
  BY DEF Log
<1> DEFINE s == Append(l.entries, e)
<1>2. /\ s \in Seq(Entry) /\ Len(s) = Len(l.entries) + 1
      /\ \A k \in 1..Len(l.entries) : s[k] = l.entries[k]
      /\ s[Len(l.entries) + 1] = e
  BY <1>1
<1>3. AppendEntry(l, e) = [l EXCEPT !.entries = s]
  BY DEF AppendEntry
<1> HIDE DEF s
<1> QED
  BY <1>1, <1>2, <1>3 DEF Log

(***************************************************************************)
(* 1. Types.                                                               *)
(***************************************************************************)

\* Where a call in the set that remains after an abandonment, or after a crash of
\* node i, comes from.
LEMMA AbandonMembers ==
  ASSUME NEW calls, NEW i, NEW d \in AbandonCalls(calls, i)
  PROVE  \/ d \in calls /\ d.src # i
         \/ \E c \in calls : /\ c.src = i /\ c.stage \in {"sent", "saving"}
                             /\ d = [c EXCEPT !.live = FALSE]
BY Zenon DEF AbandonCalls, Abandoned, From

\* The same for the RequestVote calls left by a crash.
LEMMA VoteCrashMembers ==
  ASSUME NEW calls \in SUBSET VoteCall, NEW i \in Node, NEW d \in AfterCrash(calls, i)
  PROVE  \E c \in calls :
           \/ /\ d = c /\ c.src # i
              /\ ~(c.dst = i /\ c.stage \in {"saving", "unsaved"})
           \/ /\ d = [c EXCEPT !.stage = "lost"] /\ c.src # i /\ c.live
           \/ /\ d = [c EXCEPT !.live = FALSE] /\ c.src = i
              /\ c.stage \in {"sent", "saving"} /\ ~(c.dst = i /\ c.stage = "saving")
<1> DEFINE gone == {c \in calls : c.dst = i /\ c.stage \in {"saving", "unsaved"}}
           lost == {[c EXCEPT !.stage = "lost"] : c \in {x \in gone : x.live}}
           rest == (calls \ gone) \cup lost
<1>1. AfterCrash(calls, i) = AbandonCalls(rest, i)
  BY Zenon DEF AfterCrash
<1>2. ASSUME NEW x \in lost
      PROVE  \E c \in calls : x = [c EXCEPT !.stage = "lost"] /\ c.live /\ x.src = c.src
                              /\ x.stage = "lost"
  BY Zenon DEF VoteCall
<1> HIDE DEF lost
<1>3. ASSUME NEW x \in rest
      PROVE  x \in calls \ gone \/ x \in lost
  BY Zenon
<1> HIDE DEF rest
<1>4. CASE d \in rest /\ d.src # i
  BY <1>2, <1>3, <1>4
<1>5. CASE \E c \in rest : c.src = i /\ c.stage \in {"sent", "saving"} /\ d = [c EXCEPT !.live = FALSE]
  BY Zenon, <1>2, <1>3, <1>5
<1> QED
  BY <1>1, <1>4, <1>5, AbandonMembers

\* The same for the AppendEntries calls left by a crash.
LEMMA AppendCrashMembers ==
  ASSUME NEW calls \in SUBSET AppendCall, NEW i \in Node, NEW d \in AfterCrash(calls, i)
  PROVE  \E c \in calls :
           \/ /\ d = c /\ c.src # i
              /\ ~(c.dst = i /\ c.stage \in {"saving", "unsaved"})
           \/ /\ d = [c EXCEPT !.stage = "lost"] /\ c.src # i /\ c.live
              /\ c.dst = i /\ c.stage \in {"saving", "unsaved"}
           \/ /\ d = [c EXCEPT !.live = FALSE] /\ c.src = i
              /\ c.stage \in {"sent", "saving"} /\ ~(c.dst = i /\ c.stage = "saving")
<1> DEFINE gone == {c \in calls : c.dst = i /\ c.stage \in {"saving", "unsaved"}}
           lost == {[c EXCEPT !.stage = "lost"] : c \in {x \in gone : x.live}}
           rest == (calls \ gone) \cup lost
<1>1. AfterCrash(calls, i) = AbandonCalls(rest, i)
  BY Zenon DEF AfterCrash
<1>2. ASSUME NEW x \in lost
      PROVE  \E c \in calls : x = [c EXCEPT !.stage = "lost"] /\ c.live /\ x.src = c.src
                              /\ x.stage = "lost"
                              /\ c.dst = i /\ c.stage \in {"saving", "unsaved"}
  BY Zenon DEF AppendCall
<1> HIDE DEF lost
<1>3. ASSUME NEW x \in rest
      PROVE  x \in calls \ gone \/ x \in lost
  BY Zenon
<1> HIDE DEF rest
<1>4. CASE d \in rest /\ d.src # i
  BY <1>2, <1>3, <1>4
<1>5. CASE \E c \in rest : c.src = i /\ c.stage \in {"sent", "saving"} /\ d = [c EXCEPT !.live = FALSE]
  BY Zenon, <1>2, <1>3, <1>5
<1> QED
  BY <1>1, <1>4, <1>5, AbandonMembers

\* Changing a call's stage, answer or liveness leaves a call.
LEMMA VoteCallUpdates ==
  ASSUME NEW c \in VoteCall, NEW t \in Nat, NEW g \in BOOLEAN, NEW s \in Stage
  PROVE  /\ [c EXCEPT !.live = FALSE] \in VoteCall
         /\ [c EXCEPT !.stage = s] \in VoteCall
         /\ [c EXCEPT !.stage = s, !.respTerm = t, !.granted = g] \in VoteCall
BY Zenon DEF VoteCall

\* The same for AppendEntries.
LEMMA AppendCallUpdates ==
  ASSUME NEW c \in AppendCall, NEW t \in Nat, NEW ok \in BOOLEAN, NEW s \in Stage
  PROVE  /\ [c EXCEPT !.live = FALSE] \in AppendCall
         /\ [c EXCEPT !.stage = s] \in AppendCall
         /\ [c EXCEPT !.stage = s, !.respTerm = t, !.success = ok] \in AppendCall
BY Zenon DEF AppendCall

\* The sets of calls that remain after an abandonment or a crash.
LEMMA VoteCallTypes ==
  ASSUME NEW calls \in SUBSET VoteCall, NEW i \in Node
  PROVE  /\ AbandonCalls(calls, i) \subseteq VoteCall
         /\ AfterCrash(calls, i) \subseteq VoteCall
<1>1. \A c \in calls : /\ [c EXCEPT !.live = FALSE] \in VoteCall
                       /\ [c EXCEPT !.stage = "lost"] \in VoteCall
  BY Zenon, VoteCallUpdates DEF Stage
<1>2. ASSUME NEW d \in AbandonCalls(calls, i)
      PROVE  d \in VoteCall
  <2>1. \/ d \in calls /\ d.src # i
        \/ \E c \in calls : /\ c.src = i /\ c.stage \in {"sent", "saving"}
                            /\ d = [c EXCEPT !.live = FALSE]
    BY AbandonMembers
  <2> QED
    BY Zenon, <1>1, <2>1
<1>3. ASSUME NEW d \in AfterCrash(calls, i)
      PROVE  d \in VoteCall
  <2>1. \E c \in calls : d \in {c, [c EXCEPT !.stage = "lost"], [c EXCEPT !.live = FALSE]}
    BY SMTT(40), VoteCrashMembers
  <2> QED
    BY Zenon, <1>1, <2>1
<1> QED
  BY Zenon, <1>2, <1>3

\* The same for AppendEntries.
LEMMA AppendCallTypes ==
  ASSUME NEW calls \in SUBSET AppendCall, NEW i \in Node
  PROVE  AfterCrash(calls, i) \subseteq AppendCall
<1>1. \A c \in calls : /\ [c EXCEPT !.live = FALSE] \in AppendCall
                       /\ [c EXCEPT !.stage = "lost"] \in AppendCall
  BY Zenon, AppendCallUpdates DEF Stage
<1>2. ASSUME NEW d \in AfterCrash(calls, i)
      PROVE  d \in AppendCall
  <2>1. \E c \in calls : d \in {c, [c EXCEPT !.stage = "lost"], [c EXCEPT !.live = FALSE]}
    BY AppendCrashMembers
  <2> QED
    BY Zenon, <1>1, <2>1
<1> QED
  BY Zenon, <1>2

\* NewNode and SetRaftStore with no file give a well-typed, uncompacted node.
LEMMA InitTypes == Init => TypeOK /\ NoCompaction
<1> SUFFICES ASSUME Init
             PROVE  TypeOK /\ NoCompaction
  BY Zenon
<1>1. EmptyLog \in Log /\ EmptyLog.base = 0 /\ EmptyLog.baseTerm = 0
  BY DEF EmptyLog, Log
<1>2. Idle \in Election
  BY Zenon DEF Idle, Election, Phase
<1>3. ServerTypes /\ LogTypes /\ DiskTypes
  BY Zenon, <1>1 DEF Init, ServerTypes, LogTypes, DiskTypes, Role, RaftState
<1>4. ReplTypes /\ ElectionTypes
  BY Zenon, <1>2 DEF Init, ReplTypes, ElectionTypes
<1>5. ClientTypes /\ CallTypes /\ BoundTypes
  BY Zenon DEF Init, ClientTypes, CallTypes, BoundTypes
<1>6. NoCompaction
  BY Zenon, <1>1 DEF Init, NoCompaction
<1> QED
  BY Zenon, <1>3, <1>4, <1>5, <1>6 DEF TypeOK

\* The transitions of types.go.
LEMMA RoleTypes ==
  ASSUME ServerTypes, NEW i \in Node
  PROVE  /\ BecomeCandidate(i) => ServerTypes'
         /\ BecomeLeader(i) => ServerTypes'
         /\ \A t \in Nat, l \in Node \cup {Nil} : BecomeFollower(i, t, l) => ServerTypes'
<1>1. BecomeCandidate(i) => ServerTypes'
  BY DEF BecomeCandidate, ServerTypes, Role
<1>2. BecomeLeader(i) => ServerTypes'
  BY Zenon DEF BecomeLeader, ServerTypes, Role
<1>3. ASSUME NEW t \in Nat, NEW l \in Node \cup {Nil}, BecomeFollower(i, t, l)
      PROVE  ServerTypes'
  BY Zenon, <1>3 DEF BecomeFollower, ServerTypes, Role
<1> QED
  BY Zenon, <1>1, <1>2, <1>3

\* persist, whether it succeeds or fails.
LEMMA PersistTypes ==
  ASSUME TypeOK, NEW i \in Node, UNCHANGED <<role, term, votedFor, leaderID>>,
         Persist(i) \/ PersistFails(i)
  PROVE  ServerTypes' /\ DiskTypes' /\ saveFailures' \in Nat
<1>1. Durable(i) \in RaftState
  BY Zenon DEF TypeOK, ServerTypes, LogTypes, Durable, RaftState
<1>2. DiskTypes'
  BY Zenon, <1>1 DEF TypeOK, DiskTypes, Persist, PersistFails
<1>3. dirty' \in [Node -> BOOLEAN]
  BY Zenon DEF TypeOK, ServerTypes, Persist, PersistFails
<1>4. saveFailures' \in Nat
  BY DEF TypeOK, BoundTypes, Persist, PersistFails
<1> QED
  BY Zenon, <1>2, <1>3, <1>4 DEF TypeOK, ServerTypes

\* Groups of variables that a step leaves alone keep their types.
LEMMA SameTypes ==
  ASSUME TypeOK
  PROVE  /\ UNCHANGED serverVars => ServerTypes'
         /\ UNCHANGED logVars => LogTypes'
         /\ UNCHANGED disk => DiskTypes'
         /\ UNCHANGED replVars => ReplTypes'
         /\ UNCHANGED <<election, elected>> => ElectionTypes'
         /\ UNCHANGED clientVars => ClientTypes'
         /\ UNCHANGED callVars => CallTypes'
         /\ UNCHANGED boundVars => BoundTypes'
BY Zenon DEF TypeOK, ServerTypes, LogTypes, DiskTypes, ReplTypes, ElectionTypes, ClientTypes, CallTypes,
       BoundTypes, serverVars, logVars, replVars, clientVars, callVars, boundVars

\* A step of the election goroutine keeps the types.
LEMMA ElectionStepTypes ==
  ASSUME TypeOK, NEW i \in Node,
         \/ StartElection(i) \/ Campaign(i) \/ CampaignNotSaved(i) \/ StepDownSaved(i)
         \/ WinElection(i) \/ LoseElection(i) \/ LoseQuorumContact(i)
  PROVE  TypeOK'
<1>1. Idle \in Election
  BY Zenon DEF Idle, Election, Phase
<1>2. CASE StartElection(i)
  <2> DEFINE e == [phase |-> "save", term |-> term[i] + 1, lastLogIndex |-> LastLogIndex(log[i]),
                   lastLogTerm |-> LastLogTerm(log[i]), granted |-> {}]
  <2>1. LastLogIndex(log[i]) \in Nat /\ LastLogTerm(log[i]) \in Nat
    BY Zenon, LogReaderTypes DEF TypeOK, LogTypes
  <2>2. e \in Election
    BY <2>1 DEF TypeOK, ServerTypes, Election, Phase
  <2> HIDE DEF e
  <2>3. election' = [election EXCEPT ![i] = e] /\ elected' = elected
    BY Zenon, <1>2 DEF StartElection, e
  <2>4. ElectionTypes'
    BY Zenon, <2>2, <2>3 DEF TypeOK, ElectionTypes
  <2>5. ServerTypes'
    BY Zenon, <1>2, RoleTypes DEF StartElection, TypeOK
  <2> QED
    BY Zenon, <1>2, <2>4, <2>5, SameTypes DEF StartElection, TypeOK
<1>3. CASE Campaign(i)
  <2>1. /\ election[i].term \in Nat /\ election[i].lastLogIndex \in Nat
        /\ election[i].lastLogTerm \in Nat
    BY Zenon DEF TypeOK, ElectionTypes, Election
  <2>2. VoteRequests(i) \subseteq VoteCall
    <3>1. ASSUME NEW j \in Node
          PROVE  [src |-> i, dst |-> j, term |-> election[i].term,
                  lastLogIndex |-> election[i].lastLogIndex, lastLogTerm |-> election[i].lastLogTerm,
                  stage |-> "sent", live |-> TRUE, respTerm |-> 0, granted |-> FALSE] \in VoteCall
      BY Zenon, <2>1 DEF VoteCall, Stage
    <3> QED
      BY Zenon, <3>1 DEF VoteRequests, Peers
  <2>3. CallTypes'
    BY Zenon, <1>3, <2>2 DEF Campaign, TypeOK, CallTypes
  <2>4. [election[i] EXCEPT !.phase = "collect"] \in Election
    BY DEF TypeOK, ElectionTypes, Election, Phase
  <2>5. ElectionTypes'
    BY Zenon, <1>3, <2>4 DEF Campaign, TypeOK, ElectionTypes
  <2>6. ServerTypes' /\ DiskTypes' /\ saveFailures' \in Nat
    BY Zenon, <1>3, PersistTypes DEF Campaign
  <2>7. BoundTypes'
    BY Zenon, <1>3, <2>6 DEF Campaign, TypeOK, BoundTypes
  <2> QED
    BY Zenon, <1>3, <2>3, <2>5, <2>6, <2>7, SameTypes DEF Campaign, TypeOK
<1>4. CASE CampaignNotSaved(i) \/ StepDownSaved(i)
  <2>1. ServerTypes' /\ DiskTypes' /\ saveFailures' \in Nat
    BY Zenon, <1>4, PersistTypes DEF CampaignNotSaved, StepDownSaved
  <2>2. ElectionTypes'
    BY Zenon, <1>1, <1>4 DEF CampaignNotSaved, StepDownSaved, TypeOK, ElectionTypes
  <2>3. BoundTypes'
    BY Zenon, <1>4, <2>1 DEF CampaignNotSaved, StepDownSaved, TypeOK, BoundTypes
  <2> QED
    BY Zenon, <1>4, <2>1, <2>2, <2>3, SameTypes DEF CampaignNotSaved, StepDownSaved, TypeOK
<1>5. CASE WinElection(i) \/ LoseElection(i)
  <2>1. CallTypes'
    <3>1. AbandonCalls(voteCalls, i) \subseteq VoteCall
      BY Zenon, VoteCallTypes DEF TypeOK, CallTypes
    <3> QED
      BY Zenon, <1>5, <3>1 DEF WinElection, LoseElection, TallyDone, TypeOK, CallTypes
  <2>2. term[i] \in Nat
    BY Zenon DEF TypeOK, ServerTypes
  <2>3. ElectionTypes'
    BY <1>1, <1>5, <2>2 DEF WinElection, LoseElection, TallyDone, BecomeLeader, TypeOK, ElectionTypes
  <2>4. ServerTypes'
    BY Zenon, <1>5, <2>2, RoleTypes DEF WinElection, LoseElection, TypeOK
  <2> QED
    BY Zenon, <1>5, <2>1, <2>3, <2>4, SameTypes DEF WinElection, LoseElection, TallyDone, TypeOK
<1>6. CASE LoseQuorumContact(i)
  <2>1. term[i] \in Nat
    BY Zenon DEF TypeOK, ServerTypes
  <2>2. ServerTypes'
    BY Zenon, <1>6, <2>1, RoleTypes DEF LoseQuorumContact, TypeOK
  <2> QED
    BY Zenon, <1>6, <2>2, SameTypes DEF LoseQuorumContact, TypeOK
<1> QED
  BY Zenon, <1>2, <1>3, <1>4, <1>5, <1>6

\* The answers: the set of calls stays a set of calls.
LEMMA AnswerTypes ==
  ASSUME TypeOK
  PROVE  /\ \A c \in voteCalls, t \in Nat, g \in BOOLEAN :
              AnswerVote(c, t, g) => voteCalls' \subseteq VoteCall
         /\ \A c \in appendCalls, t \in Nat, ok \in BOOLEAN :
              AnswerAppend(c, t, ok) => appendCalls' \subseteq AppendCall
<1>1. ASSUME NEW c \in voteCalls, NEW t \in Nat, NEW g \in BOOLEAN, AnswerVote(c, t, g)
      PROVE  voteCalls' \subseteq VoteCall
  <2>1. [c EXCEPT !.stage = "replied", !.respTerm = t, !.granted = g] \in VoteCall
    BY Zenon, VoteCallUpdates DEF TypeOK, CallTypes, Stage
  <2> QED
    BY Zenon, <1>1, <2>1 DEF AnswerVote, TypeOK, CallTypes
<1>2. ASSUME NEW c \in appendCalls, NEW t \in Nat, NEW ok \in BOOLEAN, AnswerAppend(c, t, ok)
      PROVE  appendCalls' \subseteq AppendCall
  <2>1. [c EXCEPT !.stage = "replied", !.respTerm = t, !.success = ok] \in AppendCall
    BY Zenon, AppendCallUpdates DEF TypeOK, CallTypes, Stage
  <2> QED
    BY Zenon, <1>2, <2>1 DEF AnswerAppend, TypeOK, CallTypes
<1> QED
  BY Zenon, <1>1, <1>2

\* The fields of a call.
LEMMA CallFields ==
  ASSUME TypeOK
  PROVE  /\ \A c \in voteCalls :
              /\ c \in VoteCall /\ c.src \in Node /\ c.dst \in Node /\ c.term \in Nat
              /\ c.respTerm \in Nat /\ c.granted \in BOOLEAN /\ c.live \in BOOLEAN
         /\ \A c \in appendCalls :
              /\ c \in AppendCall /\ c.src \in Node /\ c.dst \in Node /\ c.term \in Nat
              /\ c.prevLogIndex \in Nat /\ c.prevLogTerm \in Int /\ c.entries \in Seq(Entry)
              /\ c.leaderCommit \in Nat /\ c.respTerm \in Nat /\ c.success \in BOOLEAN
              /\ c.live \in BOOLEAN
BY Zenon DEF TypeOK, CallTypes, VoteCall, AppendCall

\* A step of a RequestVote call keeps the types.
LEMMA VoteStepTypes ==
  ASSUME TypeOK, NEW c \in voteCalls, VoteStep(c)
  PROVE  TypeOK'
<1>0. /\ c \in VoteCall /\ c.src \in Node /\ c.dst \in Node /\ c.term \in Nat
      /\ c.respTerm \in Nat /\ c.granted \in BOOLEAN
      /\ term[c.dst] \in Nat /\ term[c.src] \in Nat
  BY Zenon, CallFields DEF TypeOK, ServerTypes
<1>1. Idle \in Election /\ [Idle EXCEPT !.phase = "stepdown"] \in Election
  BY Zenon DEF Idle, Election, Phase
<1>2. /\ [c EXCEPT !.stage = "saving", !.respTerm = c.term, !.granted = TRUE] \in VoteCall
      /\ [c EXCEPT !.stage = "unsaved"] \in VoteCall
      /\ [c EXCEPT !.live = FALSE] \in VoteCall
  BY Zenon, <1>0, VoteCallUpdates DEF Stage
<1>3. CASE HandleRequestVote(c)
  <2>1. voteCalls' \subseteq VoteCall
    <3>1. CASE VoteStaleTerm(c) \/ VoteAgain(c) \/ VoteStaleLog(c)
      BY Zenon, <1>0, <3>1, AnswerTypes DEF VoteStaleTerm, VoteAgain, VoteStaleLog
    <3>2. CASE GrantVote(c)
      BY Zenon, <1>2, <3>2 DEF GrantVote, TypeOK, CallTypes
    <3> QED
      BY Zenon, <1>3, <3>1, <3>2 DEF HandleRequestVote
  <2>2. CallTypes'
    BY Zenon, <1>3, <2>1 DEF HandleRequestVote, TypeOK, CallTypes
  <2>3. ServerTypes'
    <3>1. CASE VoteStaleTerm(c) \/ VoteAgain(c)
      BY Zenon, <3>1, SameTypes DEF VoteStaleTerm, VoteAgain
    <3>2. CASE VoteStaleLog(c)
      BY Zenon, <1>0, <3>2, RoleTypes DEF VoteStaleLog, TypeOK
    <3>3. CASE GrantVote(c)
      BY Zenon, <1>0, <3>3 DEF GrantVote, TypeOK, ServerTypes, Role
    <3> QED
      BY Zenon, <1>3, <3>1, <3>2, <3>3 DEF HandleRequestVote
  <2> QED
    BY Zenon, <1>3, <2>2, <2>3, SameTypes DEF HandleRequestVote, TypeOK
<1>4. CASE SaveVote(c)
  <2>1. voteCalls' \subseteq VoteCall
    <3>1. CASE AnswerVote(c, c.respTerm, TRUE)
      BY Zenon, <1>0, <3>1, AnswerTypes
    <3>2. CASE voteCalls' = (voteCalls \ {c}) \cup {[c EXCEPT !.stage = "unsaved"]}
      BY Zenon, <1>2, <3>2 DEF TypeOK, CallTypes
    <3> QED
      BY Zenon, <1>4, <3>1, <3>2 DEF SaveVote
  <2>2. CallTypes'
    BY Zenon, <1>4, <2>1 DEF SaveVote, TypeOK, CallTypes
  <2>3. ServerTypes' /\ DiskTypes' /\ saveFailures' \in Nat
    BY Zenon, <1>0, <1>4, PersistTypes DEF SaveVote
  <2>4. BoundTypes'
    BY Zenon, <1>4, <2>3 DEF SaveVote, TypeOK, BoundTypes
  <2> QED
    BY Zenon, <1>4, <2>2, <2>3, <2>4, SameTypes DEF SaveVote, TypeOK
<1>5. CASE RefuseUnsavedVote(c)
  <2>1. CallTypes'
    BY Zenon, <1>0, <1>5, AnswerTypes DEF RefuseUnsavedVote, TypeOK, CallTypes
  <2> QED
    BY Zenon, <1>5, <2>1, SameTypes DEF RefuseUnsavedVote, TypeOK
<1>6. CASE TallyVote(c)
  <2> DEFINE e == [election[c.src] EXCEPT !.granted = IF c.granted THEN @ \cup {c.dst} ELSE @]
  <2>1. e \in Election
    BY <1>0 DEF TypeOK, ElectionTypes, Election
  <2> HIDE DEF e
  <2>2. election' = [election EXCEPT ![c.src] = e]
    BY Zenon, <1>6, <1>0 DEF TallyVote, e, TypeOK, ElectionTypes
  <2>3. ElectionTypes'
    BY Zenon, <1>0, <1>6, <2>1, <2>2 DEF TallyVote, TypeOK, ElectionTypes
  <2>4. CallTypes'
    BY Zenon, <1>6 DEF TallyVote, TypeOK, CallTypes
  <2> QED
    BY Zenon, <1>6, <2>3, <2>4, SameTypes DEF TallyVote, TypeOK
<1>7. CASE HigherTermVote(c)
  <2>1. AbandonCalls(voteCalls, c.src) \subseteq VoteCall
    BY Zenon, <1>0, VoteCallTypes DEF TypeOK, CallTypes
  <2>2. CallTypes'
    BY Zenon, <1>7, <2>1 DEF HigherTermVote, TypeOK, CallTypes
  <2>3. ElectionTypes'
    BY Zenon, <1>0, <1>1, <1>7 DEF HigherTermVote, TypeOK, ElectionTypes
  <2>4. ServerTypes'
    BY Zenon, <1>0, <1>7, RoleTypes DEF HigherTermVote, TypeOK
  <2> QED
    BY Zenon, <1>7, <2>2, <2>3, <2>4, SameTypes DEF HigherTermVote, TypeOK
<1>8. CASE VoteCallFails(c)
  <2>1. CallTypes'
    BY Zenon, <1>2, <1>8 DEF VoteCallFails, TypeOK, CallTypes
  <2>2. BoundTypes'
    BY <1>8 DEF VoteCallFails, TypeOK, BoundTypes
  <2> QED
    BY Zenon, <1>8, <2>1, <2>2, SameTypes DEF VoteCallFails, TypeOK
<1> QED
  BY Zenon, <1>3, <1>4, <1>5, <1>6, <1>7, <1>8 DEF VoteStep

\* What HandleAppendEntries makes of a matching log.
LEMMA MergedLog ==
  ASSUME TypeOK, NoCompaction, NEW c \in appendCalls,
         CheckPrevLog(log[c.dst], c.prevLogIndex, c.prevLogTerm)
  PROVE  LET l == MergeEntries(log[c.dst], c.prevLogIndex, c.entries)
         IN  l \in Log /\ l.base = 0 /\ l.baseTerm = 0
<1> DEFINE l == MergeEntries(log[c.dst], c.prevLogIndex, c.entries)
<1>1. /\ c.dst \in Node /\ c.prevLogIndex \in Nat /\ c.entries \in Seq(Entry)
      /\ log[c.dst] \in Log /\ log[c.dst].base = 0 /\ log[c.dst].baseTerm = 0
  BY Zenon, CallFields DEF TypeOK, LogTypes, NoCompaction
<1>2. c.prevLogIndex >= log[c.dst].base /\ c.prevLogIndex <= LastLogIndex(log[c.dst])
  BY <1>1 DEF CheckPrevLog
<1>3. l \in Log /\ l.base = log[c.dst].base /\ l.baseTerm = log[c.dst].baseTerm
  BY <1>1, <1>2, MergeFacts
<1> QED
  BY Zenon, <1>1, <1>3

\* A step of an AppendEntries call keeps the types.
LEMMA AppendStepTypes ==
  ASSUME TypeOK, NoCompaction, NEW c \in appendCalls, AppendStep(c)
  PROVE  TypeOK'
<1>0. /\ c \in AppendCall /\ c.src \in Node /\ c.dst \in Node /\ c.term \in Nat
      /\ c.prevLogIndex \in Nat /\ c.entries \in Seq(Entry) /\ Len(c.entries) \in Nat
      /\ c.leaderCommit \in Nat /\ c.respTerm \in Nat
      /\ term[c.dst] \in Nat /\ term[c.src] \in Nat
      /\ log[c.dst] \in Log /\ commitIndex[c.dst] \in Nat
  BY CallFields DEF TypeOK, ServerTypes, LogTypes
<1>1. /\ [c EXCEPT !.stage = "saving", !.respTerm = c.term, !.success = TRUE] \in AppendCall
      /\ [c EXCEPT !.stage = "unsaved"] \in AppendCall
      /\ [c EXCEPT !.live = FALSE] \in AppendCall
  BY Zenon, <1>0, AppendCallUpdates DEF Stage
<1>2. ASSUME FollowSender(c), NEW b \in BOOLEAN, dirty' = [dirty EXCEPT ![c.dst] = b]
      PROVE  ServerTypes'
  BY Zenon, <1>0, <1>2 DEF FollowSender, TypeOK, ServerTypes, Role
<1>3. CASE HandleAppendEntries(c)
  <2>1. CASE AppendStaleTerm(c)
    <3>1. CallTypes'
      BY Zenon, <1>0, <1>3, <2>1, AnswerTypes DEF HandleAppendEntries, AppendStaleTerm, TypeOK, CallTypes
    <3> QED
      BY Zenon, <1>3, <2>1, <3>1, SameTypes DEF HandleAppendEntries, AppendStaleTerm, TypeOK
  <2>2. CASE AppendMismatch(c)
    <3>1. CallTypes'
      BY Zenon, <1>0, <1>3, <2>2, AnswerTypes DEF HandleAppendEntries, AppendMismatch, TypeOK, CallTypes
    <3>2. ServerTypes'
      <4>1. (dirty[c.dst] \/ FollowDirties(c)) \in BOOLEAN
        BY Zenon DEF FollowDirties
      <4> QED
        BY Zenon, <1>2, <2>2, <4>1 DEF AppendMismatch
    <3> QED
      BY Zenon, <1>3, <2>2, <3>1, <3>2, SameTypes DEF HandleAppendEntries, AppendMismatch, TypeOK
  <2>3. CASE AppendMatch(c)
    <3> DEFINE l == MergeEntries(log[c.dst], c.prevLogIndex, c.entries)
               changed == \/ MergeChanges(log[c.dst], c.prevLogIndex, c.entries)
                          \/ c.leaderCommit > commitIndex[c.dst]
    <3>1. l \in Log
      BY Zenon, <2>3, MergedLog DEF AppendMatch
    <3>2. CommitAtFollower(c, l) \in Nat
      <4>1. LastLogIndex(l) \in Nat
        BY Zenon, <3>1, LogReaderTypes
      <4> HIDE DEF l
      <4>2. Min({c.leaderCommit, LastLogIndex(l)}) \in Nat
        <5> DEFINE last == LastLogIndex(l)
        <5>1. last \in Nat /\ c.leaderCommit \in Nat
          BY Zenon, <1>0, <4>1
        <5> HIDE DEF last
        <5>2. Min({c.leaderCommit, last}) \in Nat
          BY <5>1, MinOfTwo
        <5> QED
          BY Zenon, <5>2 DEF last
      <4> QED
        BY Zenon, <1>0, <4>2 DEF CommitAtFollower
    <3>3. LogTypes'
      <4> HIDE DEF l
      <4>1. log' = [log EXCEPT ![c.dst] = l]
            /\ commitIndex' = [commitIndex EXCEPT ![c.dst] = CommitAtFollower(c, l)]
        BY Zenon, <2>3 DEF AppendMatch, l
      <4> QED
        BY Zenon, <1>0, <3>1, <3>2, <4>1 DEF TypeOK, LogTypes
    <3>4. ServerTypes'
      <4>1. (dirty[c.dst] \/ FollowDirties(c) \/ changed) \in BOOLEAN
        BY Zenon DEF FollowDirties
      <4> HIDE DEF changed
      <4>2. dirty' = [dirty EXCEPT ![c.dst] = dirty[c.dst] \/ FollowDirties(c) \/ changed]
            /\ FollowSender(c)
        BY Zenon, <2>3 DEF AppendMatch, changed
      <4> QED
        BY Zenon, <1>2, <4>1, <4>2
    <3>5. appendCalls' \subseteq AppendCall
      <4>1. \/ appendCalls' = (appendCalls \ {c}) \cup
                 {[c EXCEPT !.stage = "saving", !.respTerm = c.term, !.success = TRUE]}
            \/ AnswerAppend(c, c.term, TRUE)
        BY Zenon, <2>3 DEF AppendMatch
      <4>2. CASE AnswerAppend(c, c.term, TRUE)
        BY Zenon, <1>0, <4>2, AnswerTypes
      <4> QED
        BY Zenon, <1>1, <4>1, <4>2 DEF TypeOK, CallTypes
    <3>6. CallTypes'
      BY Zenon, <1>3, <3>5 DEF HandleAppendEntries, TypeOK, CallTypes
    <3> QED
      BY Zenon, <1>3, <3>3, <3>4, <3>6, SameTypes DEF HandleAppendEntries, TypeOK
  <2> QED
    BY Zenon, <1>3, <2>1, <2>2, <2>3 DEF HandleAppendEntries
<1>4. CASE SaveAppend(c)
  <2>1. appendCalls' \subseteq AppendCall
    <3>1. CASE AnswerAppend(c, c.respTerm, TRUE)
      BY Zenon, <1>0, <3>1, AnswerTypes
    <3>2. CASE appendCalls' = (appendCalls \ {c}) \cup {[c EXCEPT !.stage = "unsaved"]}
      BY Zenon, <1>1, <3>2 DEF TypeOK, CallTypes
    <3> QED
      BY Zenon, <1>4, <3>1, <3>2 DEF SaveAppend
  <2>2. CallTypes'
    BY Zenon, <1>4, <2>1 DEF SaveAppend, TypeOK, CallTypes
  <2>3. ServerTypes' /\ DiskTypes' /\ saveFailures' \in Nat
    BY Zenon, <1>0, <1>4, PersistTypes DEF SaveAppend
  <2>4. BoundTypes'
    BY Zenon, <1>4, <2>3 DEF SaveAppend, TypeOK, BoundTypes
  <2> QED
    BY Zenon, <1>4, <2>2, <2>3, <2>4, SameTypes DEF SaveAppend, TypeOK
<1>5. CASE RefuseUnsavedAppend(c)
  <2>1. CallTypes'
    BY Zenon, <1>0, <1>5, AnswerTypes DEF RefuseUnsavedAppend, TypeOK, CallTypes
  <2> QED
    BY Zenon, <1>5, <2>1, SameTypes DEF RefuseUnsavedAppend, TypeOK
<1>6. inFlight' = inFlight \/ ClearInFlight(c) => inFlight' \in [Node -> [Node -> BOOLEAN]]
  <2>1. inFlight \in [Node -> [Node -> BOOLEAN]]
    BY Zenon DEF TypeOK, ReplTypes
  <2>2. [inFlight EXCEPT ![c.src][c.dst] = FALSE] \in [Node -> [Node -> BOOLEAN]]
    BY Zenon, <1>0, <2>1
  <2> QED
    BY Zenon, <2>1, <2>2 DEF ClearInFlight
<1>7. CASE AppendAnswer(c)
  <2>1. CallTypes'
    BY Zenon, <1>7 DEF AppendAnswer, TypeOK, CallTypes
  <2>2. ServerTypes'
    <3>1. CASE AnswerHigherTerm(c)
      BY Zenon, <1>0, <3>1, RoleTypes DEF AnswerHigherTerm, TypeOK
    <3>2. CASE AnswerOldTerm(c) \/ AnswerRejected(c) \/ AnswerAccepted(c)
      BY Zenon, <3>2, SameTypes DEF AnswerOldTerm, AnswerRejected, AnswerAccepted
    <3> QED
      BY Zenon, <1>7, <3>1, <3>2 DEF AppendAnswer
  <2>3. LogTypes' /\ nextIndex' \in [Node -> [Node -> Nat]]
        /\ matchIndex' \in [Node -> [Node -> Nat]] /\ backoff' \in [Node -> [Node -> Nat]]
    <3>1. CASE AnswerHigherTerm(c) \/ AnswerOldTerm(c)
      BY Zenon, <1>7, <3>1 DEF AppendAnswer, AnswerHigherTerm, AnswerOldTerm, TypeOK, LogTypes, ReplTypes
    <3>2. CASE AnswerRejected(c)
      <4> DEFINE step == Max({1, backoff[c.src][c.dst]})
                 next == nextIndex[c.src][c.dst]
      <4>1. backoff[c.src][c.dst] \in Nat /\ next \in Nat
        BY Zenon, <1>0 DEF TypeOK, ReplTypes
      <4>2. step \in Nat
        BY <4>1, MaxOfTwo
      <4> HIDE DEF step
      <4>3. Max({1, next - step}) \in Nat
        <5>1. next - step \in Int
          BY <4>1, <4>2
        <5> QED
          BY <5>1, MaxOfTwo
      <4>4. /\ nextIndex' = [nextIndex EXCEPT ![c.src][c.dst] = Max({1, next - step})]
            /\ backoff' = [backoff EXCEPT ![c.src][c.dst] = IF step < maxReplBackoff THEN 2 * step ELSE @]
            /\ UNCHANGED <<commitIndex, matchIndex>>
        BY Zenon, <1>0, <3>2 DEF AnswerRejected, step, TypeOK, ReplTypes
      <4>5. nextIndex' \in [Node -> [Node -> Nat]]
        <5> DEFINE lower == Max({1, next - step})
        <5>1. lower \in Nat /\ nextIndex \in [Node -> [Node -> Nat]]
              /\ nextIndex' = [nextIndex EXCEPT ![c.src][c.dst] = lower]
          BY Zenon, <4>3, <4>4 DEF TypeOK, ReplTypes
        <5> HIDE DEF lower
        <5> QED
          BY Zenon, <1>0, <5>1
      <4>6. backoff' \in [Node -> [Node -> Nat]]
        <5> DEFINE wider == IF step < maxReplBackoff THEN 2 * step ELSE backoff[c.src][c.dst]
        <5>1. wider \in Nat
          BY <4>1, <4>2
        <5>2. backoff \in [Node -> [Node -> Nat]]
              /\ backoff' = [backoff EXCEPT ![c.src][c.dst] = wider]
          BY Zenon, <1>0, <4>4 DEF TypeOK, ReplTypes
        <5> HIDE DEF wider
        <5> QED
          BY Zenon, <1>0, <5>1, <5>2
      <4> QED
        BY Zenon, <1>7, <4>4, <4>5, <4>6 DEF AppendAnswer, TypeOK, LogTypes, ReplTypes
    <3>3. CASE AnswerAccepted(c)
      <4> DEFINE matched == c.prevLogIndex + Len(c.entries)
      <4>1. matched \in Nat /\ matchIndex[c.src][c.dst] \in Nat /\ nextIndex[c.src][c.dst] \in Nat
        <5>1. matched \in Nat
          BY <1>0
        <5>2. matchIndex[c.src][c.dst] \in Nat /\ nextIndex[c.src][c.dst] \in Nat
          BY Zenon, <1>0 DEF TypeOK, ReplTypes
        <5> QED
          BY Zenon, <5>1, <5>2
      <4> HIDE DEF matched
      <4>2. /\ Max({matchIndex[c.src][c.dst], matched}) \in Nat
            /\ Max({nextIndex[c.src][c.dst], matched + 1}) \in Nat
        BY <4>1, MaxOfTwo
      <4>3. /\ matchIndex' = [matchIndex EXCEPT ![c.src][c.dst] = Max({@, matched})]
            /\ nextIndex' = [nextIndex EXCEPT ![c.src][c.dst] = Max({@, matched + 1})]
            /\ backoff' = [backoff EXCEPT ![c.src][c.dst] = 0]
        BY Zenon, <3>3 DEF AnswerAccepted, matched
      <4>4. /\ matchIndex' \in [Node -> [Node -> Nat]] /\ nextIndex' \in [Node -> [Node -> Nat]]
            /\ backoff' \in [Node -> [Node -> Nat]]
        BY Zenon, <1>0, <4>2, <4>3 DEF TypeOK, ReplTypes
      <4>5. commitIndex' \in [Node -> Nat]
        <5> DEFINE reached == [matchIndex'[c.src] EXCEPT ![c.src] = LastLogIndex(log[c.src])]
        <5>1. LastLogIndex(log[c.src]) \in Nat
          BY Zenon, <1>0, LogReaderTypes DEF TypeOK, LogTypes
        <5>2. reached \in [Node -> Nat]
          BY Zenon, <1>0, <4>4, <5>1
        <5>3. \E k \in Node : commitIndex' =
                [commitIndex EXCEPT ![c.src] = IF MayCommit(c.src, reached[k]) THEN reached[k] ELSE @]
          BY Zenon, <3>3 DEF AnswerAccepted, MaybeCommit
        <5> HIDE DEF reached
        <5> QED
          BY Zenon, <1>0, <5>2, <5>3 DEF TypeOK, LogTypes
      <4> QED
        BY Zenon, <1>7, <4>4, <4>5 DEF AppendAnswer, TypeOK, LogTypes
    <3> QED
      BY Zenon, <1>7, <3>1, <3>2, <3>3 DEF AppendAnswer
  <2>4. ReplTypes'
    BY Zenon, <1>6, <1>7, <2>3 DEF AppendAnswer, TypeOK, ReplTypes
  <2> QED
    BY Zenon, <1>7, <2>1, <2>2, <2>3, <2>4, SameTypes DEF AppendAnswer, TypeOK
<1>8. CASE AppendCallFails(c)
  <2>1. CallTypes'
    BY Zenon, <1>1, <1>8 DEF AppendCallFails, TypeOK, CallTypes
  <2>2. BoundTypes'
    BY <1>8 DEF AppendCallFails, TypeOK, BoundTypes
  <2>3. ReplTypes'
    BY Zenon, <1>6, <1>8 DEF AppendCallFails, TypeOK, ReplTypes
  <2> QED
    BY Zenon, <1>8, <2>1, <2>2, <2>3, SameTypes DEF AppendCallFails, TypeOK
<1> QED
  BY Zenon, <1>3, <1>4, <1>5, <1>7, <1>8 DEF AppendStep

\* A proposal, and the two ways it ends, keep the types.
LEMMA ProposeTypes ==
  ASSUME TypeOK, NEW i \in Node,
         \/ \E cmd \in Command : Propose(i, cmd)
         \/ \E p \in proposing[i] : ProposeSaved(i, p) \/ ProposeNotSaved(i, p)
  PROVE  TypeOK'
<1>0. /\ term[i] \in Nat /\ log[i] \in Log /\ proposing[i] \in SUBSET (Nat \X Nat)
      /\ LastLogIndex(log[i]) \in Nat
  BY Zenon, LogReaderTypes DEF TypeOK, ServerTypes, LogTypes, ClientTypes
<1>1. ASSUME NEW cmd \in Command, Propose(i, cmd)
      PROVE  TypeOK'
  <2> DEFINE e == [term |-> term[i], cmd |-> cmd]
  <2>1. e \in Entry
    BY Zenon, <1>0 DEF Entry
  <2>2. AppendEntry(log[i], e) \in Log
    BY Zenon, <1>0, <2>1, AppendFacts
  <2>3. LogTypes'
    <3> HIDE DEF e
    <3>1. log' = [log EXCEPT ![i] = AppendEntry(log[i], e)] /\ commitIndex' = commitIndex
      BY Zenon, <1>1 DEF Propose, e
    <3> QED
      BY Zenon, <2>2, <3>1 DEF TypeOK, LogTypes
  <2>4. ServerTypes'
    BY Zenon, <1>1 DEF Propose, TypeOK, ServerTypes
  <2>5. ClientTypes'
    <3>1. <<LastLogIndex(log[i]) + 1, term[i]>> \in Nat \X Nat
      BY <1>0
    <3> QED
      BY Zenon, <1>1, <3>1 DEF Propose, TypeOK, ClientTypes
  <2> QED
    BY Zenon, <1>1, <2>3, <2>4, <2>5, SameTypes DEF Propose, TypeOK
<1>2. ASSUME NEW p \in proposing[i], ProposeSaved(i, p) \/ ProposeNotSaved(i, p)
      PROVE  TypeOK'
  <2>1. ServerTypes' /\ DiskTypes' /\ saveFailures' \in Nat
    BY Zenon, <1>2, PersistTypes DEF ProposeSaved, ProposeNotSaved
  <2>2. ClientTypes'
    <3>1. /\ proposing' = [proposing EXCEPT ![i] = @ \ {p}]
          /\ acked' = acked \/ acked' = acked \cup {p}
      BY Zenon, <1>2 DEF ProposeSaved, ProposeNotSaved
    <3>2. proposing[i] \ {p} \in SUBSET (Nat \X Nat) /\ p \in Nat \X Nat
      BY Zenon, <1>0
    <3> QED
      BY Zenon, <3>1, <3>2 DEF TypeOK, ClientTypes
  <2>3. BoundTypes'
    BY Zenon, <1>2, <2>1 DEF ProposeSaved, ProposeNotSaved, TypeOK, BoundTypes
  <2> QED
    BY Zenon, <1>2, <2>1, <2>2, <2>3, SameTypes DEF ProposeSaved, ProposeNotSaved, TypeOK
<1> QED
  BY Zenon, <1>1, <1>2

\* The request replicateToPeer builds has the types of AppendEntriesRequest.
LEMMA AppendRequestTypes ==
  ASSUME TypeOK, NEW i \in Node, NEW j \in Node, NEW next \in Nat, next >= FirstIndex(log[i])
  PROVE  AppendRequest(i, j, next) \in AppendCall
<1>1. /\ term[i] \in Nat /\ log[i] \in Log /\ commitIndex[i] \in Nat
  BY Zenon DEF TypeOK, ServerTypes, LogTypes
<1>2. next - 1 \in Nat
  BY <1>1 DEF FirstIndex, Log
<1>3. LogTermAt(log[i], next - 1) \in Int /\ EntriesFrom(log[i], next) \in Seq(Entry)
  <2>1. /\ \A idx \in Nat : LogTermAt(log[i], idx) \in Int
        /\ \A idx \in Nat : idx > log[i].base => EntriesFrom(log[i], idx) \in Seq(Entry)
    BY Zenon, <1>1, LogReaderTypes
  <2>2. next > log[i].base
    BY <1>1 DEF FirstIndex, Log
  <2> QED
    BY Zenon, <1>2, <2>1, <2>2
<1> QED
  BY Zenon, <1>1, <1>2, <1>3 DEF AppendRequest, AppendCall, Stage

\* replicateToPeer keeps the types when it sends.
LEMMA SendAppendTypes ==
  ASSUME TypeOK, NEW i \in Node, NEW j \in Peers(i), SendAppend(i, j)
  PROVE  TypeOK'
<1> DEFINE next == Max({1, NextOf(i)[j]})
<1>0. /\ j \in Node /\ log[i] \in Log /\ LastLogIndex(log[i]) \in Nat
  BY Zenon, LogReaderTypes DEF TypeOK, LogTypes, Peers
<1>1. NextOf(i) \in [Node -> Nat]
  BY <1>0 DEF NextOf, TypeOK, ReplTypes
<1>2. next \in Nat
  <2>1. NextOf(i)[j] \in Nat
    BY Zenon, <1>0, <1>1
  <2> QED
    BY <2>1, MaxOfTwo
<1> HIDE DEF next
<1>3. AppendRequest(i, j, next) \in AppendCall
  <2>1. next >= FirstIndex(log[i])
    BY Zenon DEF SendAppend, next
  <2> QED
    BY Zenon, <1>0, <1>2, <2>1, AppendRequestTypes
<1>4. CallTypes'
  <2>1. appendCalls' = appendCalls \cup {AppendRequest(i, j, next)} /\ voteCalls' = voteCalls
    BY Zenon DEF SendAppend, next
  <2> QED
    BY Zenon, <1>3, <2>1 DEF TypeOK, CallTypes
<1>5. ReplTypes'
  BY Zenon, <1>0, <1>1 DEF SendAppend, TypeOK, ReplTypes
<1> QED
  BY Zenon, <1>4, <1>5, SameTypes DEF SendAppend, TypeOK

\* A crash and restart keeps the types.
LEMMA RestartTypes ==
  ASSUME TypeOK, NEW i \in Node, Restart(i)
  PROVE  TypeOK'
<1>0. /\ disk[i] \in RaftState /\ disk[i].term \in Nat /\ disk[i].votedFor \in Node \cup {Nil}
      /\ disk[i].log \in Log
  BY Zenon DEF TypeOK, DiskTypes, RaftState
<1>1. disk[i].log.base \in Nat
  BY Zenon, <1>0 DEF Log
<1>2. LogTypes'
  BY Zenon, <1>0, <1>1 DEF Restart, SetRaftStore, TypeOK, LogTypes
<1>3. ServerTypes'
  BY Zenon, <1>0 DEF Restart, SetRaftStore, TypeOK, ServerTypes, Role
<1>4. ReplTypes'
  BY Zenon DEF Restart, TypeOK, ReplTypes
<1>5. ElectionTypes'
  BY Zenon DEF Restart, TypeOK, ElectionTypes, Election, Idle, Phase
<1>6. ClientTypes'
  BY Zenon DEF Restart, TypeOK, ClientTypes
<1>7. CallTypes'
  <2>1. voteCalls' \subseteq VoteCall
    <3>1. AfterCrash(voteCalls, i) \subseteq VoteCall
      BY Zenon, VoteCallTypes DEF TypeOK, CallTypes
    <3> QED
      BY Zenon, <3>1 DEF Restart
  <2>2. appendCalls' \subseteq AppendCall
    <3>1. AfterCrash(appendCalls, i) \subseteq AppendCall
      BY Zenon, AppendCallTypes DEF TypeOK, CallTypes
    <3> QED
      BY Zenon, <3>1 DEF Restart
  <2> QED
    BY Zenon, <2>1, <2>2 DEF CallTypes
<1>8. BoundTypes'
  BY DEF Restart, TypeOK, BoundTypes
<1> QED
  BY Zenon, <1>2, <1>3, <1>4, <1>5, <1>6, <1>7, <1>8, SameTypes DEF Restart, TypeOK

\* A duplicated request is a request.
LEMMA DuplicateTypes ==
  ASSUME TypeOK, DuplicateRequest
  PROVE  TypeOK'
<1>1. ASSUME NEW c \in voteCalls PROVE [c EXCEPT !.live = FALSE] \in VoteCall
  BY Zenon DEF TypeOK, CallTypes, VoteCall
<1>2. ASSUME NEW c \in appendCalls PROVE [c EXCEPT !.live = FALSE] \in AppendCall
  BY Zenon DEF TypeOK, CallTypes, AppendCall
<1>3. CallTypes'
  BY Zenon, <1>1, <1>2 DEF DuplicateRequest, TypeOK, CallTypes
<1>4. BoundTypes'
  BY DEF DuplicateRequest, TypeOK, BoundTypes
<1> QED
  BY Zenon, <1>3, <1>4, SameTypes DEF DuplicateRequest, TypeOK

\* No step moves a compaction base: only propose, HandleAppendEntries and a restart
\* change a log, and they keep its base.
LEMMA NoCompactionStep ==
  ASSUME TypeOK, NoCompaction, Next
  PROVE  NoCompaction'
<1> DEFINE Base0(l) == l.base = 0 /\ l.baseTerm = 0
<1>1. \A i \in Node : Base0(log[i]) /\ Base0(disk[i].log)
  BY Zenon DEF NoCompaction
<1>2. \A i \in Node : Base0(log'[i])
  <2>1. log' = log \/ (\E i \in Node, l \in Log : Base0(l) /\ log' = [log EXCEPT ![i] = l])
    <3>1. ASSUME NEW i \in Node, NEW cmd \in Command, Propose(i, cmd)
          PROVE  \E l \in Log : Base0(l) /\ log' = [log EXCEPT ![i] = l]
      <4> DEFINE e == [term |-> term[i], cmd |-> cmd]
      <4>1. e \in Entry /\ log[i] \in Log
        BY Zenon DEF TypeOK, ServerTypes, LogTypes, Entry
      <4>2. AppendEntry(log[i], e) \in Log /\ AppendEntry(log[i], e).base = log[i].base
            /\ AppendEntry(log[i], e).baseTerm = log[i].baseTerm
        BY Zenon, <4>1, AppendFacts
      <4>3. log' = [log EXCEPT ![i] = AppendEntry(log[i], e)]
        BY Zenon, <3>1 DEF Propose
      <4> HIDE DEF e
      <4> QED
        BY Zenon, <1>1, <4>2, <4>3
    <3>2. ASSUME NEW i \in Node, Restart(i)
          PROVE  \E l \in Log : Base0(l) /\ log' = [log EXCEPT ![i] = l]
      BY Zenon, <1>1, <3>2 DEF Restart, SetRaftStore, TypeOK, DiskTypes, RaftState
    <3>3. ASSUME NEW c \in appendCalls, AppendMatch(c)
          PROVE  \E i \in Node, l \in Log : Base0(l) /\ log' = [log EXCEPT ![i] = l]
      <4> DEFINE l == MergeEntries(log[c.dst], c.prevLogIndex, c.entries)
      <4>1. c.dst \in Node
        BY Zenon, CallFields
      <4>2. l \in Log /\ Base0(l) /\ log' = [log EXCEPT ![c.dst] = l]
        BY Zenon, <3>3, MergedLog DEF AppendMatch
      <4> HIDE DEF l
      <4> QED
        BY Zenon, <4>1, <4>2
    <3>4. ASSUME NEW c \in appendCalls, AppendStep(c)
          PROVE  log' = log \/ AppendMatch(c)
      BY Zenon, <3>4 DEF AppendStep, HandleAppendEntries, AppendStaleTerm, AppendMismatch, SaveAppend,
                  RefuseUnsavedAppend, AppendAnswer, AppendCallFails, logVars
    <3>5. ASSUME NEW c \in voteCalls, VoteStep(c)
          PROVE  log' = log
      BY Zenon, <3>5 DEF VoteStep, HandleRequestVote, SaveVote, RefuseUnsavedVote, TallyVote,
                  HigherTermVote, VoteCallFails, logVars
    <3>6. ASSUME NEW i \in Node, NodeStep(i)
          PROVE  \/ log' = log
                 \/ \E cmd \in Command : Propose(i, cmd)
                 \/ Restart(i)
      BY Zenon, <3>6 DEF NodeStep, StartElection, Campaign, CampaignNotSaved, StepDownSaved,
                  WinElection, LoseElection, TallyDone, LoseQuorumContact, ProposeSaved,
                  ProposeNotSaved, SendAppend, logVars
    <3>7. DuplicateRequest => log' = log
      BY Zenon DEF DuplicateRequest, logVars
    <3> QED
      BY Zenon, <3>1, <3>2, <3>3, <3>4, <3>5, <3>6, <3>7 DEF Next
  <2> QED
    BY Zenon, <1>1, <2>1 DEF TypeOK, LogTypes
<1>3. \A i \in Node : Base0(disk'[i].log)
  <2>1. \/ disk' = disk
        \/ \E i \in Node : disk' = [disk EXCEPT ![i] = Durable(i)]
    <3>1. ASSUME NEW i \in Node, Persist(i) \/ PersistFails(i)
          PROVE  disk' = disk \/ disk' = [disk EXCEPT ![i] = Durable(i)]
      BY Zenon, <3>1 DEF Persist, PersistFails
    <3>2. ASSUME NEW c \in appendCalls, AppendStep(c)
          PROVE  disk' = disk \/ (c.dst \in Node /\ (Persist(c.dst) \/ PersistFails(c.dst)))
      BY Zenon, <3>2, CallFields DEF AppendStep, HandleAppendEntries, SaveAppend,
           RefuseUnsavedAppend, AppendAnswer, AppendCallFails
    <3>3. ASSUME NEW c \in voteCalls, VoteStep(c)
          PROVE  disk' = disk \/ (c.dst \in Node /\ (Persist(c.dst) \/ PersistFails(c.dst)))
      BY Zenon, <3>3, CallFields DEF VoteStep, HandleRequestVote, SaveVote, RefuseUnsavedVote,
           TallyVote, HigherTermVote, VoteCallFails
    <3>4. ASSUME NEW i \in Node, NodeStep(i)
          PROVE  disk' = disk \/ Persist(i) \/ PersistFails(i)
      BY Zenon, <3>4 DEF NodeStep, StartElection, Campaign, CampaignNotSaved, StepDownSaved,
                  WinElection, LoseElection, TallyDone, LoseQuorumContact, Propose,
                  ProposeSaved, ProposeNotSaved, SendAppend, Restart
    <3>5. DuplicateRequest => disk' = disk
      BY Zenon DEF DuplicateRequest
    <3> QED
      BY Zenon, <3>1, <3>2, <3>3, <3>4, <3>5 DEF Next
  <2>2. \A i \in Node : Durable(i).log = log[i]
    BY Zenon DEF Durable
  <2> QED
    BY Zenon, <1>1, <2>1, <2>2 DEF TypeOK, DiskTypes
<1> QED
  BY Zenon, <1>2, <1>3 DEF NoCompaction

\* Every step keeps the types.
LEMMA TypeStep ==
  ASSUME TypeOK, NoCompaction, [Next]_vars
  PROVE  TypeOK' /\ NoCompaction'
<1>1. CASE Next
  <2>1. ASSUME NEW i \in Node, NodeStep(i) PROVE TypeOK'
    BY Zenon, <2>1, ElectionStepTypes, ProposeTypes, SendAppendTypes, RestartTypes DEF NodeStep
  <2>2. ASSUME NEW c \in voteCalls, VoteStep(c) PROVE TypeOK'
    BY Zenon, <2>2, VoteStepTypes
  <2>3. ASSUME NEW c \in appendCalls, AppendStep(c) PROVE TypeOK'
    BY Zenon, <2>3, AppendStepTypes
  <2> QED
    BY Zenon, <1>1, <2>1, <2>2, <2>3, DuplicateTypes, NoCompactionStep DEF Next
<1>2. CASE UNCHANGED vars
  <2>1. TypeOK'
    BY Zenon, <1>2, SameTypes DEF vars, TypeOK
  <2>2. NoCompaction'
    BY Zenon, <1>2 DEF vars, logVars, NoCompaction
  <2> QED
    BY Zenon, <2>1, <2>2
<1> QED
  BY Zenon, <1>1, <1>2

\* In every reachable state of a cluster of any size, every field of every node, file
\* and request holds a value of its type: the indexes and terms of the replication
\* bookkeeping, of the logs and of the requests never leave the natural numbers, and
\* mergeEntries always leaves a log.
THEOREM TypeCorrect == Spec => [](TypeOK /\ NoCompaction)
<1>1. Init => TypeOK /\ NoCompaction
  BY Zenon, InitTypes
<1>2. TypeOK /\ NoCompaction /\ [Next]_vars => TypeOK' /\ NoCompaction'
  BY Zenon, TypeStep
<1> QED
  BY <1>1, <1>2, PTL DEF Spec

(***************************************************************************)
(* What one step can do to a node.                                         *)
(***************************************************************************)

\* To its memory and its file: nothing, a change that is marked dirty, a save, or
\* a reload after a crash.
Keeps(i) ==
  /\ term'[i] = term[i] /\ votedFor'[i] = votedFor[i] /\ log'[i] = log[i]
  /\ dirty'[i] = dirty[i] /\ disk'[i] = disk[i]

Dirties(i) == dirty'[i] /\ disk'[i] = disk[i] /\ term[i] <= term'[i]

Saves(i) ==
  /\ term'[i] = term[i] /\ votedFor'[i] = votedFor[i] /\ log'[i] = log[i]
  /\ disk'[i] = disk[i] \/ disk'[i] = Durable(i)
  /\ ~dirty'[i] => disk'[i] = Durable(i) \/ (~dirty[i] /\ disk'[i] = disk[i])

Reloads(i) ==
  /\ Restart(i)
  /\ term'[i] = disk[i].term /\ votedFor'[i] = disk[i].votedFor /\ log'[i] = disk[i].log
  /\ ~dirty'[i] /\ disk'[i] = disk[i]

MemoryStep(i) == Keeps(i) \/ Dirties(i) \/ Saves(i) \/ Reloads(i)

\* To its place in the election: nothing, a step down, the leader of a request is
\* adopted, a candidacy, or a victory.
Stays(i) == role'[i] = role[i] /\ term'[i] = term[i] /\ leaderID'[i] = leaderID[i]

StepsDown(i) == role'[i] = "follower" /\ leaderID'[i] = Nil

Follows(i) ==
  /\ role'[i] = "follower"
  /\ \E c \in appendCalls : leaderID'[i] = c.src /\ term'[i] = c.term

Stands(i) == role'[i] = "candidate" /\ term'[i] = term[i] + 1 /\ leaderID'[i] = Nil

Wins(i) == WinElection(i) /\ role'[i] = "leader" /\ term'[i] = term[i] /\ leaderID'[i] = i

ServerStep(i) ==
  \/ elected' = elected /\ (Stays(i) \/ StepsDown(i) \/ Follows(i) \/ Stands(i))
  \/ Wins(i)
  \/ Stays(i) /\ \E k \in Node \ {i} : WinElection(k)

\* A merge that changes nothing is the identity: HandleAppendEntries skips persist
\* and the dirty flag only then.
LEMMA UnchangedMerge ==
  ASSUME NEW l, NEW prev, NEW es, ~MergeChanges(l, prev, es)
  PROVE  MergeEntries(l, prev, es) = l
BY Zenon DEF MergeChanges, MergeEntries, DropBeyond, Graft

\* Both forms of step for a call of persist.
LEMMA PersistSteps ==
  ASSUME TypeOK, NEW i \in Node, Persist(i) \/ PersistFails(i),
         UNCHANGED <<role, term, votedFor, leaderID, log, elected>>
  PROVE  \A k \in Node : MemoryStep(k) /\ ServerStep(k)
<1> SUFFICES ASSUME NEW k \in Node PROVE MemoryStep(k) /\ ServerStep(k)
  BY Zenon
<1>1. ServerStep(k)
  BY Zenon DEF ServerStep, Stays
<1>2. Keeps(k) \/ Saves(k)
  <2>1. /\ term'[k] = term[k] /\ votedFor'[k] = votedFor[k] /\ log'[k] = log[k]
    BY Zenon
  <2>2. CASE k # i
    <3>1. disk'[k] = disk[k] /\ dirty'[k] = dirty[k]
      BY Zenon, <2>2 DEF Persist, PersistFails, TypeOK, DiskTypes, ServerTypes
    <3> QED
      BY Zenon, <2>1, <3>1 DEF Keeps
  <2>3. CASE k = i
    <3>1. CASE Persist(i)
      <4>1. dirty'[i] = FALSE
            /\ (dirty[i] => disk'[i] = Durable(i)) /\ (~dirty[i] => disk'[i] = disk[i])
        BY Zenon, <3>1 DEF Persist, TypeOK, DiskTypes, ServerTypes
      <4> QED
        BY Zenon, <2>1, <2>3, <4>1 DEF Saves
    <3>2. CASE PersistFails(i)
      <4>1. dirty'[i] = dirty[i] /\ dirty[i] /\ (disk'[i] = disk[i] \/ disk'[i] = Durable(i))
        BY Zenon, <3>2 DEF PersistFails, TypeOK, DiskTypes
      <4> QED
        BY Zenon, <2>1, <2>3, <4>1 DEF Saves
    <3> QED
      BY Zenon, <3>1, <3>2
  <2> QED
    BY Zenon, <2>2, <2>3
<1> QED
  BY Zenon, <1>1, <1>2 DEF MemoryStep

\* Both forms of step for becomeFollower without a leader.
LEMMA StepDownSteps ==
  ASSUME TypeOK, NEW i \in Node, NEW t \in Nat, t >= term[i], BecomeFollower(i, t, Nil),
         UNCHANGED <<log, disk, elected>>
  PROVE  \A k \in Node : MemoryStep(k) /\ ServerStep(k)
<1> SUFFICES ASSUME NEW k \in Node PROVE MemoryStep(k) /\ ServerStep(k)
  BY Zenon
<1>1. CASE k # i
  BY Zenon, <1>1 DEF BecomeFollower, TypeOK, ServerTypes, MemoryStep, Keeps, ServerStep, Stays
<1>2. CASE k = i
  <2>1. Dirties(i) /\ StepsDown(i)
    BY Zenon DEF BecomeFollower, TypeOK, ServerTypes, Dirties, StepsDown
  <2> QED
    BY Zenon, <1>2, <2>1 DEF MemoryStep, ServerStep
<1> QED
  BY Zenon, <1>1, <1>2

\* Nothing happens to the nodes.
LEMMA QuietSteps ==
  ASSUME UNCHANGED <<serverVars, log, disk, elected>>
  PROVE  \A k \in Node : MemoryStep(k) /\ ServerStep(k)
BY Zenon DEF serverVars, MemoryStep, Keeps, ServerStep, Stays

\* The steps of the goroutines of node i.
LEMMA NodeSteps ==
  ASSUME TypeOK, NEW i \in Node, NodeStep(i)
  PROVE  \A k \in Node : MemoryStep(k) /\ ServerStep(k)
<1>0. term[i] \in Nat
  BY Zenon DEF TypeOK, ServerTypes
<1>1. CASE StartElection(i)
  <2> SUFFICES ASSUME NEW k \in Node PROVE MemoryStep(k) /\ ServerStep(k)
    BY Zenon
  <2>1. CASE k # i
    BY Zenon, <1>1, <2>1 DEF StartElection, BecomeCandidate, TypeOK, ServerTypes, logVars, MemoryStep,
                      Keeps, ServerStep, Stays
  <2>2. CASE k = i
    <3>1. Dirties(i) /\ Stands(i)
      BY <1>0, <1>1 DEF StartElection, BecomeCandidate, TypeOK, ServerTypes, Dirties, Stands
    <3> QED
      BY Zenon, <1>1, <2>2, <3>1 DEF StartElection, MemoryStep, ServerStep
  <2> QED
    BY Zenon, <2>1, <2>2
<1>2. CASE Campaign(i) \/ CampaignNotSaved(i) \/ StepDownSaved(i)
  BY Zenon, <1>2, PersistSteps DEF Campaign, CampaignNotSaved, StepDownSaved, logVars
<1>3. CASE WinElection(i)
  <2> SUFFICES ASSUME NEW k \in Node PROVE MemoryStep(k) /\ ServerStep(k)
    BY Zenon
  <2>1. MemoryStep(k)
    BY Zenon, <1>3 DEF WinElection, TallyDone, BecomeLeader, logVars, MemoryStep, Keeps
  <2>2. k # i => Stays(k)
    BY Zenon, <1>3 DEF WinElection, BecomeLeader, TypeOK, ServerTypes, Stays
  <2>3. Wins(i)
    BY Zenon, <1>3 DEF WinElection, BecomeLeader, TypeOK, ServerTypes, Wins
  <2> QED
    BY Zenon, <1>3, <2>1, <2>2, <2>3 DEF ServerStep
<1>4. CASE LoseElection(i)
  BY <1>0, <1>4, StepDownSteps DEF LoseElection, TallyDone, logVars
<1>5. CASE LoseQuorumContact(i)
  BY <1>0, <1>5, StepDownSteps DEF LoseQuorumContact, logVars
<1>6. ASSUME NEW cmd \in Command, Propose(i, cmd)
      PROVE  \A k \in Node : MemoryStep(k) /\ ServerStep(k)
  <2> SUFFICES ASSUME NEW k \in Node PROVE MemoryStep(k) /\ ServerStep(k)
    BY Zenon
  <2>1. ServerStep(k)
    BY Zenon, <1>6 DEF Propose, ServerStep, Stays
  <2>2. CASE k # i
    BY Zenon, <1>6, <2>1, <2>2 DEF Propose, TypeOK, ServerTypes, LogTypes, MemoryStep, Keeps
  <2>3. CASE k = i
    <3>1. Dirties(i)
      BY <1>0, <1>6 DEF Propose, TypeOK, ServerTypes, Dirties
    <3> QED
      BY Zenon, <2>1, <2>3, <3>1 DEF MemoryStep
  <2> QED
    BY Zenon, <2>2, <2>3
<1>7. ASSUME NEW p \in proposing[i], ProposeSaved(i, p) \/ ProposeNotSaved(i, p)
      PROVE  \A k \in Node : MemoryStep(k) /\ ServerStep(k)
  BY Zenon, <1>7, PersistSteps DEF ProposeSaved, ProposeNotSaved, logVars
<1>8. ASSUME NEW j \in Peers(i), SendAppend(i, j)
      PROVE  \A k \in Node : MemoryStep(k) /\ ServerStep(k)
  BY Zenon, <1>8, QuietSteps DEF SendAppend, logVars
<1>9. CASE Restart(i)
  <2> SUFFICES ASSUME NEW k \in Node PROVE MemoryStep(k) /\ ServerStep(k)
    BY Zenon
  <2>1. CASE k # i
    BY Zenon, <1>9, <2>1 DEF Restart, SetRaftStore, TypeOK, ServerTypes, LogTypes, MemoryStep, Keeps,
                      ServerStep, Stays
  <2>2. CASE k = i
    <3>1. Reloads(i) /\ StepsDown(i)
      BY Zenon, <1>9 DEF Restart, SetRaftStore, TypeOK, ServerTypes, LogTypes, Reloads, StepsDown
    <3> QED
      BY Zenon, <1>9, <2>2, <3>1 DEF Restart, MemoryStep, ServerStep
  <2> QED
    BY Zenon, <2>1, <2>2
<1> QED
  BY Zenon, <1>1, <1>2, <1>3, <1>4, <1>5, <1>6, <1>7, <1>8, <1>9 DEF NodeStep

\* The steps of RequestVote calls.
LEMMA VoteSteps ==
  ASSUME TypeOK, NEW c \in voteCalls, VoteStep(c)
  PROVE  \A k \in Node : MemoryStep(k) /\ ServerStep(k)
<1>0. /\ c.src \in Node /\ c.dst \in Node /\ c.term \in Nat /\ c.respTerm \in Nat
      /\ term[c.src] \in Nat /\ term[c.dst] \in Nat
  BY Zenon, CallFields DEF TypeOK, ServerTypes
<1>1. CASE HandleRequestVote(c)
  <2>1. CASE VoteStaleTerm(c) \/ VoteAgain(c)
    BY Zenon, <1>1, <2>1, QuietSteps DEF HandleRequestVote, VoteStaleTerm, VoteAgain, logVars
  <2>2. CASE VoteStaleLog(c)
    <3>1. c.term >= term[c.dst]
      BY <1>0, <2>2 DEF VoteStaleLog
    <3> QED
      BY Zenon, <1>0, <1>1, <2>2, <3>1, StepDownSteps DEF HandleRequestVote, VoteStaleLog, logVars
  <2>3. CASE GrantVote(c)
    <3> SUFFICES ASSUME NEW k \in Node PROVE MemoryStep(k) /\ ServerStep(k)
      BY Zenon
    <3>0. disk' = disk /\ log' = log /\ elected' = elected
      BY Zenon, <1>1 DEF HandleRequestVote, logVars
    <3>1. CASE k # c.dst
      <4>1. Keeps(k) /\ Stays(k)
        BY Zenon, <1>0, <2>3, <3>0, <3>1 DEF GrantVote, TypeOK, ServerTypes, Keeps, Stays
      <4> QED
        BY Zenon, <3>0, <4>1 DEF MemoryStep, ServerStep
    <3>2. CASE k = c.dst
      <4>1. Dirties(k)
        BY Zenon, <1>0, <2>3, <3>0, <3>2 DEF GrantVote, TypeOK, ServerTypes, Dirties
      <4>2. Stays(k) \/ StepsDown(k)
        BY <1>0, <2>3, <3>2 DEF GrantVote, TypeOK, ServerTypes, Stays, StepsDown
      <4> QED
        BY Zenon, <3>0, <4>1, <4>2 DEF MemoryStep, ServerStep
    <3> QED
      BY Zenon, <3>1, <3>2
  <2> QED
    BY Zenon, <1>1, <2>1, <2>2, <2>3 DEF HandleRequestVote
<1>2. CASE SaveVote(c)
  BY Zenon, <1>0, <1>2, PersistSteps DEF SaveVote, logVars
<1>3. CASE RefuseUnsavedVote(c) \/ TallyVote(c) \/ VoteCallFails(c)
  BY Zenon, <1>3, QuietSteps DEF RefuseUnsavedVote, TallyVote, VoteCallFails, logVars
<1>4. CASE HigherTermVote(c)
  <2>1. c.respTerm >= term[c.src]
    BY <1>0, <1>4 DEF HigherTermVote
  <2> QED
    BY Zenon, <1>0, <1>4, <2>1, StepDownSteps DEF HigherTermVote, logVars
<1> QED
  BY Zenon, <1>1, <1>2, <1>3, <1>4 DEF VoteStep

\* The steps of AppendEntries calls.
LEMMA AppendSteps ==
  ASSUME TypeOK, NEW c \in appendCalls, AppendStep(c)
  PROVE  \A k \in Node : MemoryStep(k) /\ ServerStep(k)
<1>0. /\ c.src \in Node /\ c.dst \in Node /\ c.term \in Nat /\ c.respTerm \in Nat
      /\ term[c.src] \in Nat /\ term[c.dst] \in Nat
  BY Zenon, CallFields DEF TypeOK, ServerTypes
<1>1. CASE HandleAppendEntries(c)
  <2>0. disk' = disk /\ elected' = elected
    BY Zenon, <1>1 DEF HandleAppendEntries
  <2>1. CASE AppendStaleTerm(c)
    BY Zenon, <1>1, <2>0, <2>1, QuietSteps DEF AppendStaleTerm, logVars
  <2>2. CASE AppendMismatch(c) \/ AppendMatch(c)
    <3> SUFFICES ASSUME NEW k \in Node PROVE MemoryStep(k) /\ ServerStep(k)
      BY Zenon
    <3>1. /\ c.term >= term[c.dst]
          /\ role' = [role EXCEPT ![c.dst] = "follower"]
          /\ term' = [term EXCEPT ![c.dst] = c.term]
          /\ leaderID' = [leaderID EXCEPT ![c.dst] = c.src]
          /\ votedFor' = IF FollowDirties(c) THEN [votedFor EXCEPT ![c.dst] = Nil] ELSE votedFor
      BY Zenon, <2>2 DEF AppendMismatch, AppendMatch, FollowSender, FollowDirties
    <3>2. ServerStep(k)
      <4>1. k # c.dst => Stays(k)
        BY Zenon, <3>1 DEF TypeOK, ServerTypes, Stays
      <4>2. k = c.dst => Follows(k)
        BY Zenon, <3>1 DEF TypeOK, ServerTypes, Follows
      <4> QED
        BY Zenon, <2>0, <4>1, <4>2 DEF ServerStep
    <3>3. ~FollowDirties(c) => term' = term /\ votedFor' = votedFor
      BY <1>0, <3>1 DEF FollowDirties, TypeOK, ServerTypes
    <3> DEFINE l == MergeEntries(log[c.dst], c.prevLogIndex, c.entries)
               changed == \/ MergeChanges(log[c.dst], c.prevLogIndex, c.entries)
                          \/ c.leaderCommit > commitIndex[c.dst]
    <3>4. CASE AppendMismatch(c)
      <4>1. log' = log /\ dirty' = [dirty EXCEPT ![c.dst] = dirty[c.dst] \/ FollowDirties(c)]
        BY Zenon, <3>4 DEF AppendMismatch, logVars
      <4>2. k # c.dst => Keeps(k)
        BY Zenon, <2>0, <3>1, <4>1 DEF TypeOK, ServerTypes, Keeps
      <4>3. k = c.dst /\ FollowDirties(c) => Dirties(k)
        BY Zenon, <1>0, <2>0, <3>1, <4>1 DEF TypeOK, ServerTypes, Dirties
      <4>4. k = c.dst /\ ~FollowDirties(c) => Keeps(k)
        BY Zenon, <1>0, <2>0, <3>3, <4>1 DEF TypeOK, ServerTypes, Keeps
      <4> QED
        BY Zenon, <3>2, <4>2, <4>3, <4>4 DEF MemoryStep
    <3>5. CASE AppendMatch(c)
      <4>1. log' = [log EXCEPT ![c.dst] = l]
            /\ dirty' = [dirty EXCEPT ![c.dst] = dirty[c.dst] \/ FollowDirties(c) \/ changed]
        BY Zenon, <3>5 DEF AppendMatch
      <4>2. ~changed => l = log[c.dst]
        BY Zenon, UnchangedMerge
      <4> HIDE DEF l, changed
      <4>3. k # c.dst => Keeps(k)
        BY Zenon, <2>0, <3>1, <4>1 DEF TypeOK, ServerTypes, LogTypes, Keeps
      <4>4. k = c.dst /\ (FollowDirties(c) \/ changed) => Dirties(k)
        BY Zenon, <1>0, <2>0, <3>1, <4>1 DEF TypeOK, ServerTypes, Dirties
      <4>5. k = c.dst /\ ~(FollowDirties(c) \/ changed) => Keeps(k)
        BY Zenon, <1>0, <2>0, <3>3, <4>1, <4>2 DEF TypeOK, ServerTypes, LogTypes, Keeps
      <4> QED
        BY Zenon, <3>2, <4>3, <4>4, <4>5 DEF MemoryStep
    <3> QED
      BY Zenon, <2>2, <3>4, <3>5
  <2> QED
    BY Zenon, <1>1, <2>1, <2>2 DEF HandleAppendEntries
<1>2. CASE SaveAppend(c)
  BY Zenon, <1>0, <1>2, PersistSteps DEF SaveAppend, logVars
<1>3. CASE RefuseUnsavedAppend(c) \/ AppendCallFails(c)
  BY Zenon, <1>3, QuietSteps DEF RefuseUnsavedAppend, AppendCallFails, logVars
<1>4. CASE AppendAnswer(c)
  <2>1. CASE AnswerHigherTerm(c)
    <3>1. c.respTerm >= term[c.src]
      BY <1>0, <2>1 DEF AnswerHigherTerm
    <3> QED
      BY Zenon, <1>0, <1>4, <2>1, <3>1, StepDownSteps DEF AppendAnswer, AnswerHigherTerm
  <2>2. CASE AnswerOldTerm(c) \/ AnswerRejected(c) \/ AnswerAccepted(c)
    BY Zenon, <1>4, <2>2, QuietSteps DEF AppendAnswer, AnswerOldTerm, AnswerRejected, AnswerAccepted
  <2> QED
    BY Zenon, <1>4, <2>1, <2>2 DEF AppendAnswer
<1> QED
  BY Zenon, <1>1, <1>2, <1>3, <1>4 DEF AppendStep

\* Every step of the cluster, seen from any node.
LEMMA EveryStep ==
  ASSUME TypeOK, [Next]_vars
  PROVE  \A k \in Node : MemoryStep(k) /\ ServerStep(k)
<1>1. DuplicateRequest \/ UNCHANGED vars => UNCHANGED <<serverVars, log, disk, elected>>
  BY Zenon DEF DuplicateRequest, vars, logVars
<1> QED
  BY Zenon, <1>1, NodeSteps, VoteSteps, AppendSteps, QuietSteps DEF Next

(***************************************************************************)
(* 2. Memory and file.                                                     *)
(***************************************************************************)
FileInv == CleanMeansSaved /\ TermSaved

\* Every step keeps the file in line with the dirty flag and behind the memory.
LEMMA FileStep ==
  ASSUME TypeOK, TypeOK', FileInv, [Next]_vars
  PROVE  FileInv' /\ \A i \in Node : disk[i].term <= disk'[i].term
<1> SUFFICES ASSUME NEW i \in Node
             PROVE  /\ ~dirty'[i] => disk'[i] = Durable(i)'
                    /\ disk'[i].term <= term'[i]
                    /\ disk[i].term <= disk'[i].term
  BY Zenon DEF FileInv, CleanMeansSaved, TermSaved
<1>1. MemoryStep(i)
  BY Zenon, EveryStep
<1>2. /\ ~dirty[i] => disk[i] = Durable(i)
      /\ disk[i].term <= term[i]
      /\ term[i] \in Nat /\ disk[i].term \in Nat
      /\ disk[i] \in RaftState /\ Durable(i).term = term[i]
  BY Zenon DEF FileInv, CleanMeansSaved, TermSaved, TypeOK, ServerTypes, DiskTypes, RaftState, Durable
<1>3. term'[i] \in Nat
  BY Zenon DEF TypeOK, ServerTypes
<1>4. CASE Keeps(i)
  BY <1>2, <1>4 DEF Keeps, Durable
<1>5. CASE Dirties(i)
  BY <1>2, <1>3, <1>5 DEF Dirties
<1>6. CASE Saves(i)
  BY <1>2, <1>6 DEF Saves, Durable
<1>7. CASE Reloads(i)
  <2>1. disk[i] = [term |-> disk[i].term, votedFor |-> disk[i].votedFor, log |-> disk[i].log]
    BY Zenon, <1>2 DEF RaftState
  <2>2. disk'[i] = disk[i] /\ term'[i] = disk[i].term
        /\ votedFor'[i] = disk[i].votedFor /\ log'[i] = disk[i].log
    BY Zenon, <1>7 DEF Reloads
  <2>3. Durable(i)' = [term |-> disk[i].term, votedFor |-> disk[i].votedFor, log |-> disk[i].log]
    BY Zenon, <2>2 DEF Durable
  <2> QED
    BY <1>2, <2>1, <2>2, <2>3
<1> QED
  BY Zenon, <1>1, <1>4, <1>5, <1>6, <1>7 DEF MemoryStep

\* Once the flag is clear the file holds the current term.
LEMMA SavedTerm ==
  ASSUME FileInv', NEW i \in Node, dirty'[i] = FALSE
  PROVE  disk'[i].term = term'[i]
<1>1. disk'[i] = Durable(i)'
  <2>1. \A k \in Node : ~dirty'[k] => disk'[k] = Durable(k)'
    BY Zenon DEF FileInv, CleanMeansSaved
  <2> QED
    BY Zenon, <2>1
<1>2. Durable(i)'.term = term'[i]
  BY Zenon DEF Durable
<1> QED
  BY Zenon, <1>1, <1>2

(***************************************************************************)
(* 3. Votes and candidacies.                                               *)
(***************************************************************************)

\* What VoteCallsInv says of one call.
VoteCallOK(c) ==
  /\ c.src # c.dst
  /\ c.term <= disk[c.src].term
  /\ c.stage = "replied" /\ c.granted => c.term <= disk[c.dst].term
  /\ c.stage = "saving" => c.term <= term[c.dst]
  /\ c.live => election[c.src].phase = "collect" /\ c.term = election[c.src].term

\* What ElectionInv says of one candidacy.
CandidacyOK(i) ==
  /\ election[i].phase = "save" => election[i].term <= term[i]
  /\ election[i].phase = "collect" => election[i].term <= disk[i].term
  /\ \A j \in election[i].granted : j # i /\ election[i].term <= disk[j].term

VoteInv == VoteCallsInv /\ ElectionInv

\* Unless its node restarts, the term of a node only grows.
LEMMA TermGrows ==
  ASSUME TypeOK, [Next]_vars, NEW i \in Node
  PROVE  term[i] <= term'[i] \/ Reloads(i)
BY EveryStep DEF MemoryStep, Keeps, Dirties, Saves, TypeOK, ServerTypes

\* A restart ends the node's own election and the handlers it was running.
LEMMA ReloadedVotes ==
  ASSUME TypeOK, NEW i \in Node, Reloads(i)
  PROVE  /\ election'[i].phase = "idle"
         /\ \A d \in voteCalls' : ~(d.dst = i /\ d.stage = "saving")
<1>1. election'[i].phase = "idle"
  BY Zenon DEF Reloads, Restart, Idle, TypeOK, ElectionTypes
<1>2. ASSUME NEW d \in voteCalls'
      PROVE  ~(d.dst = i /\ d.stage = "saving")
  <2>1. voteCalls \in SUBSET VoteCall /\ d \in AfterCrash(voteCalls, i)
    BY Zenon DEF Reloads, Restart, TypeOK, CallTypes
  <2>2. PICK c \in voteCalls :
          \/ /\ d = c /\ c.src # i
             /\ ~(c.dst = i /\ c.stage \in {"saving", "unsaved"})
          \/ /\ d = [c EXCEPT !.stage = "lost"] /\ c.src # i /\ c.live
          \/ /\ d = [c EXCEPT !.live = FALSE] /\ c.src = i
             /\ c.stage \in {"sent", "saving"} /\ ~(c.dst = i /\ c.stage = "saving")
    BY <2>1, VoteCrashMembers
  <2> QED
    BY Zenon, <2>1, <2>2 DEF VoteCall
<1> QED
  BY Zenon, <1>1, <1>2

\* A call that a step leaves alone stays in order, unless the step moves its sender's
\* election.
LEMMA SameVoteCall ==
  ASSUME TypeOK, TypeOK', FileInv, [Next]_vars, NEW c \in voteCalls', VoteCallOK(c),
         c.live => election'[c.src].phase = "collect"
                   /\ election'[c.src].term = election[c.src].term
  PROVE  VoteCallOK(c)'
<1>1. /\ c.src \in Node /\ c.dst \in Node /\ c.term \in Nat
  BY Zenon DEF TypeOK, CallTypes, VoteCall
<1>2. /\ disk[c.src].term <= disk'[c.src].term /\ disk[c.dst].term <= disk'[c.dst].term
  BY Zenon, <1>1, FileStep
<1>3. c.stage = "saving" => term[c.dst] <= term'[c.dst]
  BY Zenon, <1>1, TermGrows, ReloadedVotes
<1>4. /\ disk[c.src].term \in Nat /\ disk'[c.src].term \in Nat
      /\ disk[c.dst].term \in Nat /\ disk'[c.dst].term \in Nat
      /\ term[c.dst] \in Nat /\ term'[c.dst] \in Nat
  BY Zenon, <1>1 DEF TypeOK, ServerTypes, DiskTypes, RaftState
<1>5. c.src # c.dst /\ c.term <= disk'[c.src].term
  BY <1>1, <1>2, <1>4 DEF VoteCallOK
<1>6. c.stage = "replied" /\ c.granted => c.term <= disk'[c.dst].term
  BY <1>1, <1>2, <1>4 DEF VoteCallOK
<1>7. c.stage = "saving" => c.term <= term'[c.dst]
  BY <1>1, <1>3, <1>4 DEF VoteCallOK
<1>8. c.live => election'[c.src].phase = "collect" /\ c.term = election'[c.src].term
  BY Zenon DEF VoteCallOK
<1> QED
  BY Zenon, <1>5, <1>6, <1>7, <1>8 DEF VoteCallOK

\* The same for a candidacy.
LEMMA SameCandidacy ==
  ASSUME TypeOK, TypeOK', FileInv, [Next]_vars, NEW i \in Node, CandidacyOK(i),
         election'[i].term = election[i].term,
         election'[i].phase \in {election[i].phase, "idle"},
         election'[i].granted = election[i].granted
  PROVE  CandidacyOK(i)'
<1>1. \A j \in Node : disk[j].term <= disk'[j].term
                      /\ disk[j].term \in Nat /\ disk'[j].term \in Nat
  BY Zenon, FileStep DEF TypeOK, DiskTypes, RaftState
<1>2. election[i].term \in Nat /\ election[i].granted \subseteq Node
  BY Zenon DEF TypeOK, ElectionTypes, Election
<1>3. term[i] \in Nat /\ term'[i] \in Nat
  BY Zenon DEF TypeOK, ServerTypes
<1>4. election'[i].phase = "save" => term[i] <= term'[i]
  BY Zenon, TermGrows, ReloadedVotes
<1> QED
  BY <1>1, <1>2, <1>3, <1>4 DEF CandidacyOK

\* Copies of a call in order that an abandonment, a crash, a refusal or a failed save
\* leaves behind are in order.
LEMMA VoteCopies ==
  ASSUME NEW c \in VoteCall, VoteCallOK(c), NEW t \in Nat
  PROVE  /\ VoteCallOK([c EXCEPT !.live = FALSE])
         /\ VoteCallOK([c EXCEPT !.stage = "lost"])
         /\ VoteCallOK([c EXCEPT !.stage = "unsaved"])
         /\ VoteCallOK([c EXCEPT !.stage = "replied", !.respTerm = t, !.granted = FALSE])
         /\ [c EXCEPT !.live = FALSE] \in VoteCall
         /\ [c EXCEPT !.stage = "lost"] \in VoteCall
         /\ [c EXCEPT !.stage = "unsaved"] \in VoteCall
         /\ [c EXCEPT !.stage = "replied", !.respTerm = t, !.granted = FALSE] \in VoteCall
<1>1. /\ [c EXCEPT !.live = FALSE] \in VoteCall
      /\ [c EXCEPT !.stage = "lost"] \in VoteCall
      /\ [c EXCEPT !.stage = "unsaved"] \in VoteCall
      /\ [c EXCEPT !.stage = "replied", !.respTerm = t, !.granted = FALSE] \in VoteCall
  BY Zenon, VoteCallUpdates DEF Stage
<1>2. VoteCallOK([c EXCEPT !.live = FALSE])
  BY Zenon DEF VoteCallOK, VoteCall
<1>3. VoteCallOK([c EXCEPT !.stage = "lost"]) /\ VoteCallOK([c EXCEPT !.stage = "unsaved"])
  BY Zenon DEF VoteCallOK, VoteCall
<1>4. VoteCallOK([c EXCEPT !.stage = "replied", !.respTerm = t, !.granted = FALSE])
  BY Zenon DEF VoteCallOK, VoteCall
<1> QED
  BY Zenon, <1>1, <1>2, <1>3, <1>4

\* A step that moves at most the election of node i: the calls that stay live are not
\* from i, and the candidacy of i is in order.
LEMMA ElectionMoves ==
  ASSUME TypeOK, TypeOK', FileInv, VoteInv, [Next]_vars, NEW i \in Node,
         \A k \in Node : k # i => election'[k] = election[k],
         \A d \in voteCalls' : \/ VoteCallOK(d) /\ (d.live => d.src # i)
                              \/ VoteCallOK(d)',
         CandidacyOK(i)'
  PROVE  VoteInv'
<1>1. ASSUME NEW d \in voteCalls' PROVE VoteCallOK(d)'
  <2>1. d.src \in Node
    BY Zenon DEF TypeOK, CallTypes, VoteCall
  <2>2. CASE VoteCallOK(d) /\ (d.live => d.src # i)
    <3>1. d.live => election'[d.src].phase = "collect"
                    /\ election'[d.src].term = election[d.src].term
      BY Zenon, <2>1, <2>2 DEF VoteCallOK
    <3> QED
      BY Zenon, <2>2, <3>1, SameVoteCall
  <2> QED
    BY Zenon, <2>2
<1>2. ASSUME NEW k \in Node PROVE CandidacyOK(k)'
  <2>1. CandidacyOK(k)
    BY Zenon DEF VoteInv, ElectionInv, CandidacyOK
  <2>2. CASE k # i
    BY Zenon, <2>1, <2>2, SameCandidacy
  <2> QED
    BY Zenon, <2>2
<1> QED
  BY Zenon, <1>1, <1>2 DEF VoteInv, VoteCallsInv, ElectionInv, VoteCallOK, CandidacyOK

\* A step that moves no election, and after which every call is in order.
LEMMA CopiedVotes ==
  ASSUME TypeOK, TypeOK', FileInv, VoteInv, [Next]_vars, election' = election,
         \A d \in voteCalls' : VoteCallOK(d) \/ VoteCallOK(d)'
  PROVE  VoteInv'
<1>1. ASSUME NEW d \in voteCalls' PROVE VoteCallOK(d)'
  <2>1. CASE VoteCallOK(d)
    <3>1. d.live => election'[d.src].phase = "collect"
                    /\ election'[d.src].term = election[d.src].term
      BY Zenon, <2>1 DEF VoteCallOK
    <3> QED
      BY Zenon, <2>1, <3>1, SameVoteCall
  <2> QED
    BY Zenon, <2>1
<1>2. ASSUME NEW i \in Node PROVE CandidacyOK(i)'
  <2>1. CandidacyOK(i)
    BY Zenon DEF VoteInv, ElectionInv, CandidacyOK
  <2> QED
    BY Zenon, <2>1, SameCandidacy
<1> QED
  BY Zenon, <1>1, <1>2 DEF VoteInv, VoteCallsInv, ElectionInv, VoteCallOK, CandidacyOK

\* The calls of node i once it has stopped waiting.
LEMMA AbandonedVotes ==
  ASSUME TypeOK, VoteInv, NEW i \in Node, NEW d \in AbandonCalls(voteCalls, i)
  PROVE  VoteCallOK(d) /\ (d.live => d.src # i)
<1>1. \A c \in voteCalls : c \in VoteCall /\ VoteCallOK(c)
  BY Zenon DEF TypeOK, CallTypes, VoteInv, VoteCallsInv, VoteCallOK
<1>2. CASE d \in voteCalls /\ d.src # i
  BY Zenon, <1>1, <1>2
<1>3. ASSUME NEW c \in voteCalls, d = [c EXCEPT !.live = FALSE]
      PROVE  VoteCallOK(d) /\ ~d.live
  <2>1. c \in VoteCall /\ VoteCallOK(c)
    BY Zenon, <1>1
  <2>2. VoteCallOK([c EXCEPT !.live = FALSE])
    BY Zenon, <2>1, VoteCopies
  <2>3. ~[c EXCEPT !.live = FALSE].live
    BY Zenon, <2>1 DEF VoteCall
  <2> QED
    BY Zenon, <1>3, <2>2, <2>3
<1> QED
  BY <1>2, <1>3, AbandonMembers

\* The steps of startElection and of Loop.
LEMMA ElectionVotes ==
  ASSUME TypeOK, TypeOK', FileInv, FileInv', VoteInv, Next, NEW i \in Node, NodeStep(i)
  PROVE  VoteInv'
<1>0. /\ \A c \in voteCalls : c \in VoteCall /\ VoteCallOK(c)
      /\ CandidacyOK(i) /\ election[i] \in Election
      /\ term[i] \in Nat /\ term'[i] \in Nat /\ disk'[i].term \in Nat
  BY Zenon DEF TypeOK, ServerTypes, DiskTypes, RaftState, CallTypes, ElectionTypes, VoteInv, VoteCallsInv,
         VoteCallOK, ElectionInv, CandidacyOK
<1>1. Idle.phase = "idle" /\ Idle.granted = {}
  BY Zenon DEF Idle
<1>2. CASE StartElection(i)
  <2>1. /\ election'[i].phase = "save" /\ election'[i].term = term'[i] /\ election'[i].granted = {}
        /\ \A k \in Node : k # i => election'[k] = election[k]
        /\ voteCalls' = voteCalls
    BY <1>2 DEF StartElection, BecomeCandidate, TypeOK, ElectionTypes, ServerTypes, callVars
  <2>2. CandidacyOK(i)'
    <3>1. /\ election'[i].term <= term'[i]
          /\ election'[i].phase # "collect" /\ election'[i].granted = {}
      BY <1>0, <2>1
    <3> QED
      BY Zenon, <3>1 DEF CandidacyOK
  <2>3. \A d \in voteCalls' : VoteCallOK(d) /\ (d.live => d.src # i)
    BY Zenon, <1>0, <1>2, <2>1 DEF StartElection, VoteCallOK
  <2> QED
    BY Zenon, <2>1, <2>2, <2>3, ElectionMoves
<1>3. CASE Campaign(i)
  <2>1. /\ election'[i].phase = "collect" /\ election'[i].term = election[i].term
        /\ election'[i].granted = election[i].granted
        /\ \A k \in Node : k # i => election'[k] = election[k]
        /\ voteCalls' = voteCalls \cup VoteRequests(i)
    BY Zenon, <1>0, <1>3 DEF Campaign, TypeOK, ElectionTypes, Election
  <2>2. election[i].term <= disk'[i].term
    <3>1. term'[i] = term[i] /\ dirty'[i] = FALSE /\ election[i].term <= term[i]
      BY Zenon, <1>0, <1>3 DEF Campaign, Persist, TypeOK, ServerTypes, CandidacyOK
    <3>2. disk'[i].term = term'[i]
      BY Zenon, <3>1, SavedTerm
    <3> QED
      BY Zenon, <3>1, <3>2
  <2>3. \A j \in Node : disk[j].term <= disk'[j].term
                        /\ disk[j].term \in Nat /\ disk'[j].term \in Nat
    BY Zenon, FileStep DEF TypeOK, DiskTypes, RaftState
  <2>4. CandidacyOK(i)'
    <3>1. election[i].granted \subseteq Node /\ election[i].term \in Nat
      BY Zenon, <1>0 DEF Election
    <3>2. ASSUME NEW j \in election'[i].granted
          PROVE  j # i /\ election'[i].term <= disk'[j].term
      <4>1. j \in Node /\ j # i /\ election[i].term <= disk[j].term
        BY Zenon, <1>0, <2>1, <3>1 DEF CandidacyOK
      <4>2. election'[i].term = election[i].term
        BY Zenon, <2>1
      <4>3. /\ disk[j].term <= disk'[j].term
            /\ disk[j].term \in Nat /\ disk'[j].term \in Nat
        BY Zenon, <2>3, <4>1
      <4> QED
        BY <3>1, <4>1, <4>2, <4>3
    <3>3. election'[i].phase # "save" /\ election'[i].term <= disk'[i].term
      BY Zenon, <2>1, <2>2
    <3> QED
      BY Zenon, <3>2, <3>3 DEF CandidacyOK
  <2>5. \A d \in VoteRequests(i) : VoteCallOK(d)'
    <3> SUFFICES ASSUME NEW d \in VoteRequests(i)
                 PROVE  VoteCallOK(d)'
      BY Zenon
    <3>1. PICK j \in Peers(i) :
            d = [src |-> i, dst |-> j, term |-> election[i].term,
                 lastLogIndex |-> election[i].lastLogIndex,
                 lastLogTerm |-> election[i].lastLogTerm,
                 stage |-> "sent", live |-> TRUE, respTerm |-> 0, granted |-> FALSE]
      BY Zenon DEF VoteRequests
    <3>2. d.src = i /\ d.dst = j /\ d.term = election[i].term /\ d.stage = "sent"
      BY Zenon, <3>1
    <3>3. j # i
      BY Zenon DEF Peers
    <3> QED
      BY Zenon, <2>1, <2>2, <3>2, <3>3 DEF VoteCallOK
  <2>6. \A d \in voteCalls : VoteCallOK(d) /\ (d.live => d.src # i)
    BY Zenon, <1>0, <1>3 DEF Campaign, VoteCallOK
  <2> QED
    BY Zenon, <2>1, <2>4, <2>5, <2>6, ElectionMoves
<1>4. CASE CampaignNotSaved(i) \/ StepDownSaved(i)
  <2>1. /\ election'[i] = Idle /\ \A k \in Node : k # i => election'[k] = election[k]
        /\ voteCalls' = voteCalls /\ election[i].phase # "collect"
    BY Zenon, <1>4 DEF CampaignNotSaved, StepDownSaved, TypeOK, ElectionTypes, callVars
  <2>2. CandidacyOK(i)'
    BY Zenon, <1>1, <2>1 DEF CandidacyOK
  <2>3. \A d \in voteCalls' : VoteCallOK(d) /\ (d.live => d.src # i)
    BY Zenon, <1>0, <2>1 DEF VoteCallOK
  <2> QED
    BY Zenon, <2>1, <2>2, <2>3, ElectionMoves
<1>5. CASE WinElection(i) \/ LoseElection(i)
  <2>1. /\ election'[i] = Idle /\ \A k \in Node : k # i => election'[k] = election[k]
        /\ voteCalls' = AbandonCalls(voteCalls, i)
    BY Zenon, <1>5 DEF WinElection, LoseElection, TallyDone, TypeOK, ElectionTypes
  <2>2. CandidacyOK(i)'
    BY Zenon, <1>1, <2>1 DEF CandidacyOK
  <2>3. \A d \in voteCalls' : VoteCallOK(d) /\ (d.live => d.src # i)
    BY Zenon, <2>1, AbandonedVotes
  <2> QED
    BY Zenon, <2>1, <2>2, <2>3, ElectionMoves
<1>6. CASE Restart(i)
  <2>1. /\ election'[i] = Idle /\ \A k \in Node : k # i => election'[k] = election[k]
        /\ voteCalls' = AfterCrash(voteCalls, i) /\ voteCalls \in SUBSET VoteCall
    BY Zenon, <1>6 DEF Restart, TypeOK, ElectionTypes, CallTypes
  <2>2. CandidacyOK(i)'
    BY Zenon, <1>1, <2>1 DEF CandidacyOK
  <2>3. ASSUME NEW d \in voteCalls' PROVE VoteCallOK(d) /\ (d.live => d.src # i)
    <3>1. PICK c \in voteCalls :
          \/ /\ d = c /\ c.src # i
             /\ ~(c.dst = i /\ c.stage \in {"saving", "unsaved"})
          \/ /\ d = [c EXCEPT !.stage = "lost"] /\ c.src # i /\ c.live
          \/ /\ d = [c EXCEPT !.live = FALSE] /\ c.src = i
             /\ c.stage \in {"sent", "saving"} /\ ~(c.dst = i /\ c.stage = "saving")
      BY <2>1, VoteCrashMembers
    <3>2. VoteCallOK(c) /\ c \in VoteCall
      BY Zenon, <1>0
    <3>3. VoteCallOK([c EXCEPT !.stage = "lost"]) /\ VoteCallOK([c EXCEPT !.live = FALSE])
      BY Zenon, <3>2, VoteCopies
    <3>4. [c EXCEPT !.stage = "lost"].src = c.src /\ ~[c EXCEPT !.live = FALSE].live
      BY Zenon, <3>2 DEF VoteCall
    <3> QED
      BY Zenon, <3>1, <3>2, <3>3, <3>4
  <2> QED
    BY Zenon, <2>1, <2>2, <2>3, ElectionMoves
<1>7. ASSUME voteCalls' = voteCalls, election' = election
      PROVE  VoteInv'
  BY Zenon, <1>0, <1>7, CopiedVotes
<1> QED
  BY Zenon, <1>2, <1>3, <1>4, <1>5, <1>6, <1>7 DEF NodeStep, LoseQuorumContact, Propose, ProposeSaved,
     ProposeNotSaved, SendAppend, callVars

\* The steps of RequestVote calls.
LEMMA CallVotes ==
  ASSUME TypeOK, TypeOK', FileInv, FileInv', VoteInv, Next, NEW c \in voteCalls, VoteStep(c)
  PROVE  VoteInv'
<1>0. /\ c \in VoteCall /\ c.src \in Node /\ c.dst \in Node /\ c.term \in Nat
      /\ VoteCallOK(c) /\ \A d \in voteCalls : VoteCallOK(d)
      /\ term[c.dst] \in Nat /\ term'[c.dst] \in Nat /\ disk'[c.dst].term \in Nat
      /\ disk[c.src].term <= disk'[c.src].term
      /\ disk[c.src].term \in Nat /\ disk'[c.src].term \in Nat
  BY Zenon, CallFields, FileStep DEF TypeOK, ServerTypes, DiskTypes, RaftState, CallTypes, VoteInv,
     VoteCallsInv, VoteCallOK
<1>8. /\ c.src # c.dst /\ c.term <= disk'[c.src].term /\ c.term \in Nat
      /\ c.live => election[c.src].phase = "collect" /\ c.term = election[c.src].term
  <2>1. VoteCallOK(c) /\ c.term \in Nat
    BY Zenon, <1>0 DEF VoteCall
  <2>2. /\ disk[c.src].term <= disk'[c.src].term
        /\ disk[c.src].term \in Nat /\ disk'[c.src].term \in Nat
    BY Zenon, <1>0
  <2> QED
    BY <2>1, <2>2 DEF VoteCallOK
<1>1. ASSUME NEW t \in Nat, AnswerVote(c, t, FALSE), election' = election
      PROVE  VoteInv'
  <2>1. VoteCallOK([c EXCEPT !.stage = "replied", !.respTerm = t, !.granted = FALSE])
    BY Zenon, <1>0, VoteCopies
  <2>2. \A d \in voteCalls' : VoteCallOK(d)
    BY Zenon, <1>0, <1>1, <2>1 DEF AnswerVote
  <2> QED
    BY Zenon, <1>1, <2>2, CopiedVotes
<1>2. CASE HandleRequestVote(c)
  <2>0. election' = election
    BY Zenon, <1>2 DEF HandleRequestVote
  <2>1. CASE VoteStaleTerm(c) \/ VoteAgain(c) \/ VoteStaleLog(c)
    BY Zenon, <1>0, <1>1, <2>0, <2>1 DEF VoteStaleTerm, VoteAgain, VoteStaleLog
  <2>2. CASE GrantVote(c)
    <3> DEFINE d == [c EXCEPT !.stage = "saving", !.respTerm = c.term, !.granted = TRUE]
    <3>1. voteCalls' = (voteCalls \ {c}) \cup {d} /\ term'[c.dst] = c.term
      BY Zenon, <1>0, <2>2 DEF GrantVote, TypeOK, ServerTypes
    <3>2. d.src = c.src /\ d.dst = c.dst /\ d.term = c.term /\ d.stage = "saving" /\ d.live = c.live
      BY Zenon, <1>0 DEF VoteCall
    <3> HIDE DEF d
    <3>3. VoteCallOK(d)'
      <4>1. c.term <= term'[c.dst]
        BY <1>8, <3>1
      <4>2. c.live => election'[c.src].phase = "collect" /\ c.term = election'[c.src].term
        BY Zenon, <1>8, <2>0
      <4> QED
        BY Zenon, <1>8, <3>2, <4>1, <4>2 DEF VoteCallOK
    <3> QED
      BY Zenon, <1>0, <2>0, <3>1, <3>3, CopiedVotes
  <2> QED
    BY Zenon, <1>2, <2>1, <2>2 DEF HandleRequestVote
<1>3. CASE SaveVote(c)
  <2>0. election' = election /\ term' = term
    BY Zenon, <1>3 DEF SaveVote
  <2>1. CASE Persist(c.dst) /\ AnswerVote(c, c.respTerm, TRUE)
    <3> DEFINE d == [c EXCEPT !.stage = "replied", !.respTerm = c.respTerm, !.granted = TRUE]
    <3>1. voteCalls' \subseteq voteCalls \cup {d}
      BY Zenon, <2>1 DEF AnswerVote
    <3>2. d.src = c.src /\ d.dst = c.dst /\ d.term = c.term /\ d.stage = "replied" /\ d.live = c.live
      BY Zenon, <1>0 DEF VoteCall
    <3> HIDE DEF d
    <3>3. dirty'[c.dst] = FALSE
      BY Zenon, <1>0, <2>1 DEF Persist, TypeOK, ServerTypes
    <3>4. disk'[c.dst].term = term'[c.dst]
      BY Zenon, <1>0, <3>3, SavedTerm
    <3>5. c.term <= term[c.dst]
      BY Zenon, <1>0, <1>3 DEF SaveVote, VoteCallOK
    <3>6. VoteCallOK(d)'
      <4>1. c.term <= disk'[c.dst].term
        BY Zenon, <2>0, <3>4, <3>5
      <4>2. c.live => election'[c.src].phase = "collect" /\ c.term = election'[c.src].term
        BY Zenon, <1>8, <2>0
      <4> QED
        BY Zenon, <1>8, <3>2, <4>1, <4>2 DEF VoteCallOK
    <3> QED
      BY Zenon, <1>0, <2>0, <3>1, <3>6, CopiedVotes
  <2>2. CASE voteCalls' = (voteCalls \ {c}) \cup {[c EXCEPT !.stage = "unsaved"]}
    <3>1. VoteCallOK([c EXCEPT !.stage = "unsaved"])
      BY Zenon, <1>0, VoteCopies
    <3> QED
      BY Zenon, <1>0, <2>0, <2>2, <3>1, CopiedVotes
  <2> QED
    BY Zenon, <1>3, <2>1, <2>2 DEF SaveVote
<1>4. CASE RefuseUnsavedVote(c)
  BY Zenon, <1>0, <1>1, <1>4 DEF RefuseUnsavedVote
<1>5. CASE TallyVote(c)
  <2> DEFINE i == c.src
  <2>1. /\ election[i].phase = "collect" /\ election'[i].phase = "collect"
        /\ election'[i].term = election[i].term
        /\ election'[i].granted \subseteq
             election[i].granted \cup (IF c.granted THEN {c.dst} ELSE {})
        /\ \A k \in Node : k # i => election'[k] = election[k]
        /\ voteCalls' \subseteq voteCalls
    BY <1>0, <1>5 DEF TallyVote, TypeOK, ElectionTypes, Election
  <2>2. c.granted => c.term <= disk[c.dst].term /\ c.term = election[i].term /\ c.dst # i
    BY Zenon, <1>0, <1>5 DEF TallyVote, VoteCallOK
  <2>3. \A j \in Node : disk[j].term <= disk'[j].term
                        /\ disk[j].term \in Nat /\ disk'[j].term \in Nat
    BY Zenon, FileStep DEF TypeOK, DiskTypes, RaftState
  <2>4. CandidacyOK(i) /\ election[i].granted \subseteq Node /\ election[i].term \in Nat
    BY Zenon, <1>0 DEF VoteInv, ElectionInv, CandidacyOK, TypeOK, ElectionTypes, Election
  <2>5. CandidacyOK(i)'
    <3>1. election[i].term <= disk'[i].term
      <4>1. i \in Node /\ election[i].term <= disk[i].term
        BY Zenon, <1>0, <2>1, <2>4 DEF CandidacyOK
      <4> QED
        BY <2>3, <2>4, <4>1
    <3>2. ASSUME NEW j \in election[i].granted
          PROVE  j # i /\ election[i].term <= disk'[j].term
      <4>1. j \in Node /\ j # i /\ election[i].term <= disk[j].term
        BY Zenon, <2>4 DEF CandidacyOK
      <4> QED
        BY <2>3, <2>4, <4>1
    <3>3. c.granted => c.dst # i /\ election[i].term <= disk'[c.dst].term
      <4>1. c.dst \in Node
        BY Zenon, <1>0
      <4> QED
        BY <2>2, <2>3, <2>4, <4>1
    <3>4. ASSUME NEW j \in election'[i].granted
          PROVE  j # i /\ election'[i].term <= disk'[j].term
      <4>1. j \in election[i].granted \/ (c.granted /\ j = c.dst)
        BY Zenon, <2>1, <3>4
      <4>2. j # i /\ election[i].term <= disk'[j].term
        BY Zenon, <3>2, <3>3, <4>1
      <4> QED
        BY Zenon, <2>1, <4>2
    <3>5. election'[i].phase # "save" /\ election'[i].term <= disk'[i].term
      BY Zenon, <2>1, <3>1
    <3> QED
      BY Zenon, <3>4, <3>5 DEF CandidacyOK
  <2>6. ASSUME NEW d \in voteCalls' PROVE VoteCallOK(d)'
    <3>1. VoteCallOK(d) /\ d.src \in Node
      BY Zenon, <1>0, <2>1, CallFields
    <3>2. d.live => election'[d.src].phase = "collect"
                    /\ election'[d.src].term = election[d.src].term
      BY Zenon, <2>1, <3>1 DEF VoteCallOK
    <3> QED
      BY Zenon, <3>1, <3>2, SameVoteCall
  <2> QED
    BY ZenonT(40), <1>0, <2>1, <2>5, <2>6, ElectionMoves
<1>6. CASE HigherTermVote(c)
  <2> DEFINE i == c.src
  <2>1. /\ election'[i].phase = "stepdown" /\ election'[i].granted = {}
        /\ \A k \in Node : k # i => election'[k] = election[k]
        /\ voteCalls' = AbandonCalls(voteCalls, i)
    BY Zenon, <1>0, <1>6 DEF HigherTermVote, Idle, TypeOK, ElectionTypes
  <2>2. CandidacyOK(i)'
    BY Zenon, <2>1 DEF CandidacyOK
  <2>3. \A d \in voteCalls' : VoteCallOK(d) /\ (d.live => d.src # i)
    BY Zenon, <1>0, <2>1, AbandonedVotes
  <2> QED
    BY Zenon, <1>0, <2>1, <2>2, <2>3, ElectionMoves
<1>7. CASE VoteCallFails(c)
  <2>1. VoteCallOK([c EXCEPT !.live = FALSE])
    BY Zenon, <1>0, VoteCopies
  <2>2. election' = election /\ \A d \in voteCalls' : VoteCallOK(d)
    BY Zenon, <1>0, <1>7, <2>1 DEF VoteCallFails
  <2> QED
    BY Zenon, <2>2, CopiedVotes
<1> QED
  BY Zenon, <1>2, <1>3, <1>4, <1>5, <1>6, <1>7 DEF VoteStep

\* Every step keeps the layer of votes and candidacies.
LEMMA VoteInvStep ==
  ASSUME TypeOK, TypeOK', FileInv, FileInv', VoteInv, [Next]_vars
  PROVE  VoteInv'
<1>0. \A c \in voteCalls : c \in VoteCall /\ VoteCallOK(c)
  BY Zenon DEF TypeOK, CallTypes, VoteInv, VoteCallsInv, VoteCallOK
<1>1. ASSUME voteCalls' = voteCalls, election' = election
      PROVE  VoteInv'
  BY Zenon, <1>0, <1>1, CopiedVotes
<1>2. ASSUME NEW c \in appendCalls, AppendStep(c)
      PROVE  voteCalls' = voteCalls /\ election' = election
  BY Zenon, <1>2 DEF AppendStep, HandleAppendEntries, SaveAppend, RefuseUnsavedAppend, AppendAnswer,
              AppendCallFails
<1>3. CASE DuplicateRequest
  <2>1. ASSUME NEW c \in voteCalls PROVE VoteCallOK([c EXCEPT !.live = FALSE])
    BY Zenon, <1>0, VoteCopies
  <2>2. election' = election /\ \A d \in voteCalls' : VoteCallOK(d)
    BY Zenon, <1>0, <1>3, <2>1 DEF DuplicateRequest
  <2> QED
    BY Zenon, <2>2, CopiedVotes
<1>4. CASE UNCHANGED vars
  BY Zenon, <1>1, <1>4 DEF vars, callVars
<1> QED
  BY Zenon, <1>1, <1>2, <1>3, <1>4, ElectionVotes, CallVotes DEF Next

(***************************************************************************)
(* 4. Elections won.                                                       *)
(***************************************************************************)
LeaderInv == ElectedInv /\ KnownLeaderWasElected

\* Only WinElection adds to the elections won, and it adds one of a node whose file
\* holds the term.
LEMMA Victories ==
  ASSUME TypeOK, TypeOK', FileInv, VoteInv, [Next]_vars
  PROVE  /\ elected \subseteq elected'
         /\ elected' # elected => \E i \in Node : WinElection(i)
         /\ \A i \in Node : WinElection(i) =>
              /\ elected' = elected \cup {<<i, term[i]>>}
              /\ role[i] = "candidate" /\ election[i].phase = "collect" /\ HasQuorum(i)
              /\ term[i] = election[i].term /\ disk' = disk
<1>1. \A i \in Node : WinElection(i) =>
        /\ elected' = elected \cup {<<i, term[i]>>}
        /\ role[i] = "candidate" /\ election[i].phase = "collect" /\ HasQuorum(i)
        /\ term[i] = election[i].term /\ disk' = disk
  BY Zenon DEF WinElection, TallyDone, BecomeLeader
<1>2. ASSUME NEW k \in Node
      PROVE  elected' = elected \/ \E i \in Node : WinElection(i)
  BY Zenon, EveryStep DEF ServerStep, Wins
<1>3. Node = {} => elected' = elected
  BY Zenon DEF TypeOK, ElectionTypes
<1> QED
  BY Zenon, <1>1, <1>2, <1>3

\* Call d carries the request of call c.
SameRequest(d, c) ==
  /\ d.src = c.src /\ d.dst = c.dst /\ d.term = c.term
  /\ d.prevLogIndex = c.prevLogIndex /\ d.prevLogTerm = c.prevLogTerm
  /\ d.entries = c.entries

\* Copies of a call carry its request.
LEMMA RequestCopies ==
  ASSUME NEW c \in AppendCall
  PROVE  /\ SameRequest(c, c)
         /\ SameRequest([c EXCEPT !.live = FALSE], c)
         /\ SameRequest([c EXCEPT !.stage = "lost"], c)
         /\ SameRequest([c EXCEPT !.stage = "unsaved"], c)
         /\ SameRequest([c EXCEPT !.stage = "saving", !.respTerm = c.term, !.success = TRUE], c)
BY Zenon DEF AppendCall, SameRequest

\* AppendEntries calls keep their request, and new ones are sent by replicateToPeer.
LEMMA AppendSources ==
  ASSUME TypeOK, [Next]_vars, NEW d \in appendCalls'
  PROVE  \/ \E c \in appendCalls : SameRequest(d, c)
         \/ \E i \in Node : \E j \in Peers(i) :
              SendAppend(i, j) /\ d = AppendRequest(i, j, Max({1, NextOf(i)[j]}))
<1>0. \A c \in appendCalls : c \in AppendCall
  BY Zenon DEF TypeOK, CallTypes
<1>8. d \in appendCalls => \E b \in appendCalls : SameRequest(d, b)
  BY Zenon, <1>0, RequestCopies
<1>1. ASSUME NEW i \in Node, NodeStep(i), ~Restart(i), appendCalls' # appendCalls
      PROVE  \E j \in Peers(i) : SendAppend(i, j)
  BY Zenon, <1>1 DEF NodeStep, StartElection, Campaign, CampaignNotSaved, StepDownSaved, WinElection,
     LoseElection, TallyDone, LoseQuorumContact, Propose, ProposeSaved, ProposeNotSaved, callVars
<1>2. ASSUME NEW i \in Node, NEW j \in Peers(i), SendAppend(i, j)
      PROVE  d \in appendCalls \/ d = AppendRequest(i, j, Max({1, NextOf(i)[j]}))
  BY Zenon, <1>2 DEF SendAppend
<1>3. ASSUME NEW i \in Node, Restart(i)
      PROVE  \E c \in appendCalls : SameRequest(d, c)
  <2>1. appendCalls \in SUBSET AppendCall /\ d \in AfterCrash(appendCalls, i)
    BY Zenon, <1>3 DEF Restart, TypeOK, CallTypes
  <2>2. PICK c \in appendCalls :
          \/ d = c \/ d = [c EXCEPT !.stage = "lost"] \/ d = [c EXCEPT !.live = FALSE]
    BY <2>1, AppendCrashMembers
  <2>3. SameRequest([c EXCEPT !.stage = "lost"], c) /\ SameRequest([c EXCEPT !.live = FALSE], c)
    BY Zenon, <1>0, RequestCopies
  <2> QED
    BY Zenon, <1>8, <2>2, <2>3
<1>4. ASSUME NEW c \in appendCalls, AppendStep(c)
      PROVE  \E b \in appendCalls : SameRequest(d, b)
  <2>1. ASSUME NEW t, NEW ok, AnswerAppend(c, t, ok)
        PROVE  d \in appendCalls
               \/ d = [c EXCEPT !.stage = "replied", !.respTerm = t, !.success = ok]
    BY Zenon, <2>1 DEF AnswerAppend
  <2>2. ASSUME NEW t, NEW ok, AnswerAppend(c, t, ok)
        PROVE  \E b \in appendCalls : SameRequest(d, b)
    <3>1. SameRequest([c EXCEPT !.stage = "replied", !.respTerm = t, !.success = ok], c)
      BY Zenon, <1>0 DEF AppendCall, SameRequest
    <3> QED
      BY Zenon, <1>8, <2>1, <2>2, <3>1
  <2>3. CASE HandleAppendEntries(c)
    <3>1. CASE AppendStaleTerm(c) \/ AppendMismatch(c)
      BY Zenon, <2>2, <3>1 DEF AppendStaleTerm, AppendMismatch
    <3>2. CASE AppendMatch(c)
      <4>1. \/ appendCalls' = (appendCalls \ {c}) \cup
                 {[c EXCEPT !.stage = "saving", !.respTerm = c.term, !.success = TRUE]}
            \/ AnswerAppend(c, c.term, TRUE)
        BY Zenon, <3>2 DEF AppendMatch
      <4>2. SameRequest([c EXCEPT !.stage = "saving", !.respTerm = c.term, !.success = TRUE], c)
        BY Zenon, <1>0, RequestCopies
      <4> QED
        BY Zenon, <1>8, <2>2, <4>1, <4>2
    <3> QED
      BY Zenon, <2>3, <3>1, <3>2 DEF HandleAppendEntries
  <2>4. CASE SaveAppend(c) \/ RefuseUnsavedAppend(c)
    <3>1. \/ AnswerAppend(c, c.respTerm, TRUE) \/ AnswerAppend(c, term[c.dst], FALSE)
          \/ appendCalls' = (appendCalls \ {c}) \cup {[c EXCEPT !.stage = "unsaved"]}
      BY Zenon, <2>4 DEF SaveAppend, RefuseUnsavedAppend
    <3>2. SameRequest([c EXCEPT !.stage = "unsaved"], c)
      BY Zenon, <1>0, RequestCopies
    <3> QED
      BY Zenon, <1>8, <2>2, <3>1, <3>2
  <2>5. CASE AppendAnswer(c) \/ AppendCallFails(c)
    <3>1. d \in appendCalls \/ d = [c EXCEPT !.live = FALSE]
      BY Zenon, <2>5 DEF AppendAnswer, AppendCallFails
    <3>2. SameRequest([c EXCEPT !.live = FALSE], c)
      BY Zenon, <1>0, RequestCopies
    <3> QED
      BY Zenon, <1>8, <3>1, <3>2
  <2> QED
    BY Zenon, <1>4, <2>3, <2>4, <2>5 DEF AppendStep
<1>5. ASSUME NEW c \in voteCalls, VoteStep(c) PROVE appendCalls' = appendCalls
  BY Zenon, <1>5 DEF VoteStep, HandleRequestVote, SaveVote, RefuseUnsavedVote, TallyVote,
     HigherTermVote, VoteCallFails
<1>6. ASSUME DuplicateRequest
      PROVE  \E b \in appendCalls : SameRequest(d, b)
  <2>1. d \in appendCalls \/ \E c \in appendCalls : d = [c EXCEPT !.live = FALSE]
    BY Zenon, <1>6 DEF DuplicateRequest
  <2> QED
    BY Zenon, <1>0, <2>1, RequestCopies
<1>7. UNCHANGED vars => appendCalls' = appendCalls
  BY Zenon DEF vars, callVars
<1> QED
  BY Zenon, <1>1, <1>2, <1>3, <1>4, <1>5, <1>6, <1>7, <1>8 DEF Next

\* Every step keeps the layer of elections won.
LEMMA LeaderInvStep ==
  ASSUME TypeOK, TypeOK', FileInv, FileInv', VoteInv, LeaderInv, [Next]_vars
  PROVE  LeaderInv'
<1>0. /\ elected \subseteq elected' /\ elected \subseteq Node \X Nat
      /\ \A i \in Node : disk[i].term <= disk'[i].term
                         /\ disk[i].term \in Nat /\ disk'[i].term \in Nat
      /\ \A i \in Node : term[i] \in Nat /\ disk[i].term <= term[i]
  BY Zenon, Victories, FileStep DEF TypeOK, ElectionTypes, ServerTypes, DiskTypes, RaftState, FileInv,
     TermSaved
<1>1. ASSUME NEW w \in elected' PROVE w[2] <= disk'[w[1]].term
  <2>1. CASE w \in elected
    <3>1. w[1] \in Node /\ w[2] \in Nat /\ w[2] <= disk[w[1]].term
      BY Zenon, <1>0, <2>1 DEF LeaderInv, ElectedInv
    <3> QED
      BY <1>0, <3>1
  <2>2. CASE w \notin elected
    <3>1. PICK i \in Node : WinElection(i)
      BY Zenon, <2>2, Victories
    <3>2. w = <<i, term[i]>> /\ term[i] <= disk[i].term /\ disk' = disk
      BY Zenon, <2>2, <3>1, Victories DEF VoteInv, ElectionInv
    <3> QED
      BY Zenon, <3>2
  <2> QED
    BY Zenon, <2>1, <2>2
<1>3. ASSUME NEW i \in Node
      PROVE  /\ role'[i] = "leader" => <<i, term'[i]>> \in elected'
             /\ role'[i] = "candidate" => <<i, term'[i]>> \notin elected'
             /\ leaderID'[i] # Nil => <<leaderID'[i], term'[i]>> \in elected'
  <2>1. /\ role[i] = "leader" => <<i, term[i]>> \in elected
        /\ role[i] = "candidate" => <<i, term[i]>> \notin elected
        /\ leaderID[i] # Nil => <<leaderID[i], term[i]>> \in elected
        /\ \A c \in appendCalls : <<c.src, c.term>> \in elected
        /\ \A w \in elected : w[2] <= disk[w[1]].term
    BY Zenon DEF LeaderInv, ElectedInv, KnownLeaderWasElected
  <2>2. CASE elected' = elected /\ (Stays(i) \/ StepsDown(i) \/ Follows(i))
    BY Zenon, <2>1, <2>2 DEF Stays, StepsDown, Follows
  <2>3. CASE elected' = elected /\ Stands(i)
    <3>1. <<i, term[i] + 1>> \notin elected
      BY <1>0, <2>1
    <3> QED
      BY Zenon, <2>3, <3>1 DEF Stands
  <2>4. CASE Wins(i)
    BY Zenon, <2>4, Victories DEF Wins
  <2>5. CASE Stays(i) /\ \E k \in Node \ {i} : WinElection(k)
    <3>1. PICK k \in Node \ {i} : elected' = elected \cup {<<k, term[k]>>}
      BY Zenon, <2>5, Victories
    <3> QED
      BY Zenon, <2>1, <2>5, <3>1 DEF Stays
  <2> QED
    BY Zenon, <2>2, <2>3, <2>4, <2>5, EveryStep DEF ServerStep
<1>4. ASSUME NEW d \in appendCalls' PROVE <<d.src, d.term>> \in elected'
  <2>1. CASE \E c \in appendCalls : SameRequest(d, c)
    BY Zenon, <1>0, <2>1 DEF LeaderInv, ElectedInv, SameRequest
  <2>2. ASSUME NEW i \in Node, NEW j \in Peers(i), SendAppend(i, j),
               d = AppendRequest(i, j, Max({1, NextOf(i)[j]}))
        PROVE  <<d.src, d.term>> \in elected
    BY Zenon, <2>2 DEF SendAppend, AppendRequest, LeaderInv, ElectedInv
  <2> QED
    BY Zenon, <1>0, <2>1, <2>2, AppendSources
<1>5. ElectedInv'
  BY Zenon, <1>1, <1>3, <1>4 DEF ElectedInv
<1>6. KnownLeaderWasElected'
  BY Zenon, <1>3 DEF KnownLeaderWasElected
<1> QED
  BY Zenon, <1>5, <1>6 DEF LeaderInv

\* A node becomes leader only as a candidate, whose term it has not led before.
LEMMA LeadsOnceStep ==
  ASSUME TypeOK, TypeOK', FileInv, VoteInv, LeaderInv, [Next]_vars, NEW i \in Node,
         role[i] # "leader", role'[i] = "leader"
  PROVE  <<i, term'[i]>> \notin elected
<1>1. Wins(i)
  BY Zenon, EveryStep DEF ServerStep, Stays, StepsDown, Follows, Stands
<1>2. role[i] = "candidate" /\ term'[i] = term[i]
  BY Zenon, <1>1, Victories DEF Wins
<1> QED
  BY Zenon, <1>2 DEF LeaderInv, ElectedInv

\* What can change the log of a node.
LEMMA LogChanges ==
  ASSUME TypeOK, [Next]_vars, NEW k \in Node
  PROVE  \/ log'[k] = log[k] /\ (term[k] <= term'[k] \/ Reloads(k))
         \/ Reloads(k)
         \/ \E cmd \in Command : Propose(k, cmd)
         \/ \E c \in appendCalls : c.dst = k /\ AppendMatch(c)
<1>0. term[k] <= term'[k] \/ Reloads(k)
  BY Zenon, TermGrows
<1>1. ASSUME NEW i \in Node, NodeStep(i)
      PROVE  log'[k] = log[k] \/ Reloads(k) \/ \E cmd \in Command : Propose(k, cmd)
  <2>1. log' = log \/ Restart(i) \/ \E cmd \in Command : Propose(i, cmd)
    BY Zenon, <1>1 DEF NodeStep, StartElection, Campaign, CampaignNotSaved, StepDownSaved,
       WinElection, LoseElection, TallyDone, LoseQuorumContact, ProposeSaved,
       ProposeNotSaved, SendAppend, logVars
  <2>2. CASE Restart(i)
    <3>1. k # i => log'[k] = log[k]
      BY Zenon, <2>2 DEF Restart, SetRaftStore, TypeOK, LogTypes
    <3>2. k = i => Reloads(k)
      BY Zenon, <2>2 DEF Restart, SetRaftStore, TypeOK, LogTypes, ServerTypes, Reloads
    <3> QED
      BY Zenon, <3>1, <3>2
  <2>3. ASSUME NEW cmd \in Command, Propose(i, cmd)
        PROVE  log'[k] = log[k] \/ k = i
    BY Zenon, <2>3 DEF Propose, TypeOK, LogTypes
  <2> QED
    BY Zenon, <2>1, <2>2, <2>3
<1>2. ASSUME NEW c \in voteCalls, VoteStep(c) PROVE log' = log
  BY Zenon, <1>2 DEF VoteStep, HandleRequestVote, SaveVote, RefuseUnsavedVote, TallyVote,
     HigherTermVote, VoteCallFails, logVars
<1>3. ASSUME NEW c \in appendCalls, AppendStep(c)
      PROVE  log'[k] = log[k] \/ (c.dst = k /\ AppendMatch(c))
  <2>1. log' = log \/ AppendMatch(c)
    BY Zenon, <1>3 DEF AppendStep, HandleAppendEntries, AppendStaleTerm, AppendMismatch, SaveAppend,
       RefuseUnsavedAppend, AppendAnswer, AppendCallFails, logVars
  <2>2. AppendMatch(c) => log'[k] = log[k] \/ c.dst = k
    BY Zenon DEF AppendMatch, TypeOK, LogTypes
  <2> QED
    BY Zenon, <2>1, <2>2
<1>4. DuplicateRequest \/ UNCHANGED vars => log' = log
  BY Zenon DEF DuplicateRequest, vars, logVars
<1> QED
  BY Zenon, <1>0, <1>1, <1>2, <1>3, <1>4 DEF Next

(***************************************************************************)
(* The layers together.                                                    *)
(***************************************************************************)
ElectionLayers == TypeOK /\ NoCompaction /\ FileInv /\ VoteInv /\ LeaderInv

\* A fresh cluster: nothing written, nothing asked, nobody elected.
LEMMA InitLayers == Init => ElectionLayers
<1> SUFFICES ASSUME Init PROVE ElectionLayers
  BY Zenon
<1>1. TypeOK /\ NoCompaction
  BY Zenon, InitTypes
<1>2. FileInv
  BY DEF Init, FileInv, CleanMeansSaved, TermSaved, Durable
<1>3. VoteInv
  BY Zenon DEF Init, VoteInv, VoteCallsInv, ElectionInv, Idle
<1>4. LeaderInv
  BY Zenon DEF Init, LeaderInv, ElectedInv, KnownLeaderWasElected
<1> QED
  BY Zenon, <1>1, <1>2, <1>3, <1>4 DEF ElectionLayers

\* The four layers are an inductive invariant of the cluster.
THEOREM LayersInvariant == Spec => []ElectionLayers
<1>1. ElectionLayers /\ [Next]_vars => ElectionLayers'
  BY Zenon, TypeStep, FileStep, VoteInvStep, LeaderInvStep DEF ElectionLayers
<1> QED
  BY <1>1, InitLayers, PTL DEF Spec

\* persist may rely on the dirty flag: while it is clear, the file holds exactly the
\* term, vote and log in memory, whatever saves failed and whatever crashed.
THEOREM FileMatchesMemory == Spec => []CleanMeansSaved
<1>1. ElectionLayers => CleanMeansSaved
  BY Zenon DEF ElectionLayers, FileInv
<1> QED
  BY <1>1, LayersInvariant, PTL

\* No vote is asked for, and no vote is given, at a term that the asking or the giving
\* node could forget in a crash.
THEOREM VotesSurviveCrashes == Spec => []VotesAreDurable
<1>1. ElectionLayers => VotesAreDurable
  BY Zenon DEF ElectionLayers, VoteInv, VoteCallsInv, VotesAreDurable
<1> QED
  BY <1>1, LayersInvariant, PTL

\* LeaderID never names a node that has not won an election of the current term.
THEOREM LeadersAreElected == Spec => []KnownLeaderWasElected
<1>1. ElectionLayers => KnownLeaderWasElected
  BY Zenon DEF ElectionLayers, LeaderInv
<1> QED
  BY <1>1, LayersInvariant, PTL

\* startElection never makes a node leader of a term it has led before, not even after
\* crashes and failed saves.
THEOREM NoTermIsLedTwice == Spec => LeadsTermOnce
<1>1. ElectionLayers /\ [Next]_vars
        => [\A i \in Node : role[i] # "leader" /\ role'[i] = "leader"
              => <<i, term'[i]>> \notin elected]_vars
  BY Zenon, LeadsOnceStep, TypeStep DEF ElectionLayers
<1> QED
  BY <1>1, LayersInvariant, PTL DEF Spec, LeadsTermOnce

(***************************************************************************)
(* Terms along a log that is merged, appended to or sent.                  *)
(***************************************************************************)

\* Steps of an estimate.
LEMMA AtMostTwice ==
  ASSUME NEW a \in Int, NEW b \in Int, NEW c \in Int, a <= b, b <= c
  PROVE  a <= c
OBVIOUS

\* In a log with ascending terms the last term bounds them all.
LEMMA TermsBounded ==
  ASSUME NEW l \in Log, NEW t \in Nat, TermsAscend(l), LastLogTerm(l) <= t
  PROVE  l.baseTerm <= t /\ \A k \in 1..Len(l.entries) : l.entries[k].term <= t
<1> DEFINE n == Len(l.entries)
<1>1. l.baseTerm \in Nat /\ l.entries \in Seq(Entry) /\ n \in Nat
  BY DEF Log
<1>2. \A k \in 1..n : l.entries[k].term \in Nat
  BY <1>1, EntryTerms
<1>3. CASE l.entries = <<>>
  <2>1. LastLogTerm(l) = l.baseTerm /\ n = 0
    BY <1>3 DEF LastLogTerm
  <2> QED
    BY <2>1
<1>4. CASE l.entries # <<>>
  <2>1. n \in 1..n
    BY <1>1, <1>4
  <2>2. l.entries[n].term <= t
    BY <1>4 DEF LastLogTerm
  <2>3. l.baseTerm <= l.entries[n].term /\ l.baseTerm <= t
    BY <1>1, <1>2, <2>1, <2>2 DEF TermsAscend
  <2>4. ASSUME NEW k \in 1..n
        PROVE  l.entries[k].term <= t
    <3>1. k <= n
      BY <1>1
    <3>2. l.entries[k].term <= l.entries[n].term
      BY <2>1, <3>1 DEF TermsAscend
    <3> QED
      BY SMTT(30), <1>2, <2>1, <2>2, <3>2
  <2> QED
    BY <2>3, <2>4
<1> QED
  BY <1>3, <1>4

\* Either way the merged log has the request's terms.
LEMMA MergedTerms ==
  ASSUME NEW e, NEW l, NEW idx, NEW x, FromEither(e, l, idx, x)
  PROVE  e.term = x.term
BY DEF FromEither

\* mergeEntries keeps terms ascending: when the log and the request both have
\* ascending terms and checkPrevLog has found the same term at prevLogIndex, the
\* merged log has ascending terms too, within the term of the request.
THEOREM MergeAscends ==
  ASSUME NEW l \in Log, NEW prev \in Nat, NEW prevTerm \in Int, NEW es \in Seq(Entry),
         NEW t \in Nat, NEW m,
         prev >= l.base, l.base = 0 => l.baseTerm = 0,
         CheckPrevLog(l, prev, prevTerm),
         TermsAscend(l), LastLogTerm(l) <= t,
         RequestAscends(prevTerm, es, t),
         m = MergeEntries(l, prev, es)
  PROVE  TermsAscend(m) /\ LastLogTerm(m) <= t
<1>1. /\ l.base \in Nat /\ l.baseTerm \in Nat /\ l.entries \in Seq(Entry)
      /\ Len(l.entries) \in Nat /\ Len(es) \in Nat
  BY DEF Log
<1>2. LastLogIndex(l) = l.base + Len(l.entries) /\ prev <= LastLogIndex(l)
  BY DEF LastLogIndex, CheckPrevLog
<1>3. PICK b \in Nat, n \in Nat, z \in Nat, p \in Nat :
        /\ b = l.base /\ n = Len(l.entries) /\ z = Len(es)
        /\ p = prev - l.base /\ p = prev - b /\ p <= n
  <2>1. PICK b \in Nat, n \in Nat, z \in Nat : b = l.base /\ n = Len(l.entries) /\ z = Len(es)
    BY <1>1
  <2>2. prev >= b /\ prev <= b + n
    BY Zenon, <1>2, <2>1
  <2>3. PICK p \in Nat : p = prev - b /\ p <= n
    BY <2>2
  <2> QED
    BY Zenon, <2>1, <2>3
<1>4. /\ m \in Log
      /\ m.base = l.base /\ m.baseTerm = l.baseTerm
      /\ Len(m.entries) = prev + Len(es) - l.base
      /\ \A k \in 1..p : m.entries[k] = l.entries[k]
      /\ \A k \in 1..z : m.entries[p + k].term = es[k].term
  <2>1. /\ m \in Log
        /\ m.base = l.base /\ m.baseTerm = l.baseTerm
        /\ Len(m.entries) = prev + Len(es) - l.base
        /\ \A k \in 1..(prev - l.base) : m.entries[k] = l.entries[k]
        /\ \A k \in 1..Len(es) : FromEither(m.entries[prev - l.base + k], l, prev + k, es[k])
    BY SMTT(30), <1>2, MergeFacts
  <2>2. \A k \in 1..Len(es) : m.entries[prev - l.base + k].term = es[k].term
    BY <2>1, MergedTerms
  <2> QED
    BY Zenon, <1>3, <2>1, <2>2
<1>0. p <= n /\ p = prev - b
  BY Zenon, <1>3
<1>5. Len(m.entries) = p + z
  <2>1. prev + z - b = p + z
    BY <1>0
  <2> QED
    BY Zenon, <1>3, <1>4, <2>1
<1>6. /\ \A k \in 1..n : l.entries[k].term \in Nat
      /\ \A k \in 1..z : es[k].term \in Nat
  BY Zenon, <1>1, <1>3, EntryTerms
<1>7. /\ \A k \in 1..n : l.baseTerm <= l.entries[k].term
      /\ \A j, k \in 1..n : j <= k => l.entries[j].term <= l.entries[k].term
  BY Zenon, <1>3 DEF TermsAscend
<1>8. /\ \A k \in 1..z : prevTerm <= es[k].term /\ es[k].term <= t
      /\ \A j, k \in 1..z : j <= k => es[j].term <= es[k].term
  BY Zenon, <1>3 DEF RequestAscends
<1>9. p > 0 => l.entries[p].term = prevTerm
  <2> SUFFICES ASSUME p > 0
               PROVE  l.entries[p].term = prevTerm
    OBVIOUS
  <2>0. prev > 0 /\ prev # b /\ prev > b
    BY <1>0
  <2>1. prev > 0 /\ prev # l.base /\ prev > l.base /\ prev <= LastLogIndex(l)
    BY Zenon, <1>2, <1>3, <2>0
  <2>2. LogTermAt(l, prev) = prevTerm
    BY <2>1 DEF CheckPrevLog
  <2>3. LogTermAt(l, prev) = l.entries[prev - l.base].term
    BY <1>1, <2>1 DEF LogTermAt, HasEntry, EntryAt
  <2> QED
    BY Zenon, <1>3, <2>2, <2>3
<1>10. \A k \in 1..z : l.baseTerm <= es[k].term
  <2>1. CASE p > 0
    <3>1. p \in 1..n
      BY <1>0, <2>1
    <3>2. l.baseTerm <= prevTerm
      BY Zenon, <1>7, <1>9, <2>1, <3>1
    <3> QED
      BY <1>1, <1>6, <1>8, <3>2
  <2>2. CASE p = 0
    <3>1. prev = l.base
      BY <1>1, <1>3, <2>2
    <3>2. l.baseTerm = 0 \/ l.baseTerm = prevTerm
      BY <1>1, <3>1 DEF CheckPrevLog, LogTermAt
    <3> QED
      BY <1>1, <1>6, <1>8, <3>2
  <2> QED
    BY <2>1, <2>2
<1>11. \A k \in 1..p : k \in 1..n
  BY <1>0
<1>12. \A j \in 1..p, k \in 1..z : l.entries[j].term <= es[k].term
  <2> TAKE j \in 1..p, k \in 1..z
  <2>1. p > 0 /\ p \in 1..n /\ j \in 1..n /\ j <= p
    BY <1>0
  <2>2. l.entries[j].term <= prevTerm
    BY Zenon, <1>7, <1>9, <2>1
  <2>3. prevTerm <= es[k].term /\ es[k].term \in Nat /\ l.entries[j].term \in Nat
    BY Zenon, <1>6, <1>8, <2>1
  <2>4. es[k].term \in Int /\ l.entries[j].term \in Int
    BY <2>3
  <2> QED
    BY Zenon, <2>2, <2>3, <2>4, AtMostTwice
<1>13. ASSUME NEW k \in 1..Len(m.entries)
       PROVE  \/ k \in 1..p /\ m.entries[k].term = l.entries[k].term
              \/ k - p \in 1..z /\ m.entries[k].term = es[k - p].term
  <2>1. k \in 1..(p + z)
    BY <1>5
  <2>2. CASE k <= p
    <3>1. k \in 1..p
      BY <2>1, <2>2
    <3> QED
      BY Zenon, <1>4, <3>1
  <2>3. CASE k > p
    <3>1. k - p \in 1..z /\ p + (k - p) = k
      BY <2>1, <2>3
    <3>2. m.entries[p + (k - p)].term = es[k - p].term
      BY Zenon, <1>4, <3>1
    <3> QED
      BY Zenon, <3>1, <3>2
  <2> QED
    BY <2>1, <2>2, <2>3
<1>14. \A k \in 1..Len(m.entries) : m.baseTerm <= m.entries[k].term
  BY ZenonT(30), <1>4, <1>7, <1>10, <1>11, <1>13
<1>15. ASSUME NEW j \in 1..Len(m.entries), NEW k \in 1..Len(m.entries), j <= k
       PROVE  m.entries[j].term <= m.entries[k].term
  <2>0. j \in Nat /\ k \in Nat
    BY <1>5
  <2>1. CASE k \in 1..p
    <3>1. j \in 1..p
      BY <1>5, <1>15, <2>1
    <3>2. m.entries[j] = l.entries[j] /\ m.entries[k] = l.entries[k]
      BY Zenon, <1>4, <2>1, <3>1
    <3> QED
      BY Zenon, <1>7, <1>11, <1>15, <2>1, <3>1, <3>2
  <2>2. CASE k - p \in 1..z /\ m.entries[k].term = es[k - p].term
    <3>1. CASE j \in 1..p /\ m.entries[j].term = l.entries[j].term
      BY Zenon, <1>12, <2>2, <3>1
    <3>2. CASE j - p \in 1..z /\ m.entries[j].term = es[j - p].term
      <4>1. j - p <= k - p
        BY <1>15, <2>0
      <4> QED
        BY Zenon, <1>8, <2>2, <3>2, <4>1
    <3> QED
      BY Zenon, <1>13, <3>1, <3>2
  <2> QED
    BY Zenon, <1>13, <2>1, <2>2
<1>16. LastLogTerm(m) <= t
  <2>1. l.baseTerm <= t /\ \A k \in 1..n : l.entries[k].term <= t
    BY Zenon, <1>3, TermsBounded
  <2>2. m.entries \in Seq(Entry) /\ Len(m.entries) \in Nat
    BY <1>4 DEF Log
  <2>3. CASE m.entries = <<>>
    BY <1>4, <2>1, <2>3 DEF LastLogTerm
  <2>4. CASE m.entries # <<>>
    <3>1. Len(m.entries) \in 1..Len(m.entries)
      BY <2>2, <2>4
    <3>2. m.entries[Len(m.entries)].term <= t
      BY Zenon, <1>8, <1>11, <1>13, <2>1, <3>1
    <3> QED
      BY Zenon, <2>4, <3>2 DEF LastLogTerm
  <2> QED
    BY <2>3, <2>4
<1> QED
  BY Zenon, <1>14, <1>15, <1>16 DEF TermsAscend

\* A proposal of the current term keeps the terms ascending.
LEMMA AppendAscends ==
  ASSUME NEW l \in Log, NEW e \in Entry, TermsAscend(l), LastLogTerm(l) <= e.term
  PROVE  TermsAscend(AppendEntry(l, e)) /\ LastLogTerm(AppendEntry(l, e)) = e.term
<1> DEFINE m == AppendEntry(l, e)
           n == Len(l.entries)
<1>1. /\ l.baseTerm \in Nat /\ l.entries \in Seq(Entry) /\ n \in Nat
      /\ e.term \in Nat
  BY DEF Log, Entry
<1>2. /\ m \in Log
      /\ m.baseTerm = l.baseTerm
      /\ Len(m.entries) = n + 1
      /\ \A k \in 1..n : m.entries[k] = l.entries[k]
      /\ m.entries[n + 1] = e
  BY AppendFacts
<1>3. l.baseTerm <= e.term /\ \A k \in 1..n : l.entries[k].term <= e.term
  BY <1>1, TermsBounded
<1> HIDE DEF m
<1>4. \A k \in 1..Len(m.entries) : k \in 1..n \/ k = n + 1
  BY <1>1, <1>2
<1>5. \A k \in 1..Len(m.entries) : m.baseTerm <= m.entries[k].term
  BY SMTT(30), <1>2, <1>3, <1>4 DEF TermsAscend
<1>6. \A j, k \in 1..Len(m.entries) : j <= k => m.entries[j].term <= m.entries[k].term
  <2> SUFFICES ASSUME NEW j \in 1..Len(m.entries), NEW k \in 1..Len(m.entries), j <= k
               PROVE  m.entries[j].term <= m.entries[k].term
    OBVIOUS
  <2>1. CASE k = n + 1
    <3>1. CASE j = n + 1
      BY <1>1, <1>2, <2>1, <3>1
    <3>2. CASE j \in 1..n
      BY <1>2, <1>3, <2>1, <3>2
    <3> QED
      BY <1>4, <3>1, <3>2
  <2>2. CASE k \in 1..n
    <3>1. j \in 1..n
      BY <1>1, <1>2, <2>2
    <3> QED
      BY Zenon, <1>2, <2>2, <3>1 DEF TermsAscend
  <2> QED
    BY <1>4, <2>1, <2>2
<1>7. LastLogTerm(m) = e.term
  <2>1. m.entries # <<>>
    BY <1>1, <1>2
  <2> QED
    BY <1>2, <2>1 DEF LastLogTerm
<1> QED
  BY <1>5, <1>6, <1>7 DEF TermsAscend, m

\* replicateToPeer: what it cuts off a log, from any index after the base, are the
\* log's entries from that index on.
LEMMA CutFacts ==
  ASSUME NEW l \in Log, NEW idx \in Nat, idx > l.base
  PROVE  /\ EntriesFrom(l, idx) \in Seq(Entry)
         /\ \A k \in 1..Len(EntriesFrom(l, idx)) :
              /\ HasEntry(l, (idx - 1) + k)
              /\ EntriesFrom(l, idx)[k] = EntryAt(l, (idx - 1) + k)
<1> DEFINE es == EntriesFrom(l, idx)
<1>1. PICK b \in Nat, n \in Nat : b = l.base /\ n = Len(l.entries) /\ l.entries \in Seq(Entry)
  BY DEF Log
<1>2. idx > b
  BY <1>1
<1>3. PICK a \in Nat : a = idx - b /\ a >= 1
  BY <1>2
<1>4. es = SubSeq(l.entries, a, n)
  BY Zenon, <1>1, <1>3 DEF EntriesFrom
<1>5. /\ es \in Seq(Entry)
      /\ Len(es) = IF a <= n THEN n - a + 1 ELSE 0
      /\ \A k \in 1..(n - a + 1) : es[k] = l.entries[a + k - 1]
  <2>1. /\ SubSeq(l.entries, a, n) \in Seq(Entry)
        /\ Len(SubSeq(l.entries, a, n)) = IF a <= n THEN n - a + 1 ELSE 0
        /\ \A k \in 1..(n - a + 1) : SubSeq(l.entries, a, n)[k] = l.entries[a + k - 1]
    <3>1. l.entries \in Seq(Entry) /\ n = Len(l.entries) /\ a >= 1
      BY <1>1, <1>3
    <3> HIDE DEF es
    <3> QED
      BY SMTT(40), <3>1, SubSeqFacts
  <2> HIDE DEF es
  <2> QED
    BY Zenon, <1>4, <2>1
<1> HIDE DEF es
<1>6. PICK z \in Nat : z = Len(es) /\ z = IF a <= n THEN n - a + 1 ELSE 0
  <2>1. (IF a <= n THEN n - a + 1 ELSE 0) \in Nat
    OBVIOUS
  <2> QED
    BY Zenon, <1>5, <2>1
<1>7. ASSUME NEW k \in 1..z
      PROVE  HasEntry(l, (idx - 1) + k) /\ es[k] = EntryAt(l, (idx - 1) + k)
  <2>1. PICK x \in 1..n : x = a + k - 1 /\ x = ((idx - 1) + k) - b /\ k \in 1..(n - a + 1)
    BY <1>3, <1>6
  <2>2. (idx - 1) + k > b /\ (idx - 1) + k <= b + n
    BY <1>3, <2>1
  <2>3. HasEntry(l, (idx - 1) + k)
    BY Zenon, <1>1, <2>2 DEF HasEntry, LastLogIndex
  <2>4. EntryAt(l, (idx - 1) + k) = l.entries[x]
    BY Zenon, <1>1, <2>1 DEF EntryAt
  <2>5. es[k] = l.entries[x]
    BY Zenon, <1>5, <2>1
  <2> QED
    BY Zenon, <2>3, <2>4, <2>5
<1> QED
  BY Zenon, <1>5, <1>6, <1>7 DEF es

\* Positions of ascending terms, read by index.
LEMMA AscendByIndex ==
  ASSUME NEW l \in Log, TermsAscend(l), NEW i \in Nat, NEW j \in Nat, i <= j,
         HasEntry(l, i), HasEntry(l, j)
  PROVE  /\ EntryAt(l, i).term \in Nat /\ EntryAt(l, j).term \in Nat
         /\ l.baseTerm <= EntryAt(l, i).term /\ EntryAt(l, i).term <= EntryAt(l, j).term
<1>1. PICK b \in Nat, n \in Nat : b = l.base /\ n = Len(l.entries) /\ l.entries \in Seq(Entry)
  BY DEF Log
<1>2. i > b /\ i <= b + n /\ j > b /\ j <= b + n
  BY Zenon, <1>1 DEF HasEntry, LastLogIndex
<1>3. PICK x \in 1..n, y \in 1..n : x = i - b /\ y = j - b /\ x <= y
  BY <1>2
<1>4. EntryAt(l, i) = l.entries[x] /\ EntryAt(l, j) = l.entries[y]
  BY Zenon, <1>1, <1>3 DEF EntryAt
<1>5. l.entries[x].term \in Nat /\ l.entries[y].term \in Nat
  BY <1>1, EntryTerms
<1>6. l.baseTerm <= l.entries[x].term /\ l.entries[x].term <= l.entries[y].term
  BY Zenon, <1>1, <1>3 DEF TermsAscend
<1> QED
  BY Zenon, <1>4, <1>5, <1>6

\* replicateToPeer: a request cut off a log with ascending terms has ascending terms.
LEMMA RequestFacts ==
  ASSUME NEW l \in Log, NEW idx \in Nat, NEW t \in Nat, idx > l.base,
         TermsAscend(l), LastLogTerm(l) <= t
  PROVE  RequestAscends(LogTermAt(l, idx - 1), EntriesFrom(l, idx), t)
<1> DEFINE es == EntriesFrom(l, idx)
           prevTerm == LogTermAt(l, idx - 1)
<1>1. PICK b \in Nat, n \in Nat, z \in Nat :
        b = l.base /\ n = Len(l.entries) /\ z = Len(es) /\ l.entries \in Seq(Entry)
  BY CutFacts DEF Log
<1>2. idx > b
  BY <1>1
<1>3. ASSUME NEW k \in 1..z
      PROVE  /\ HasEntry(l, (idx - 1) + k) /\ es[k] = EntryAt(l, (idx - 1) + k)
             /\ (idx - 1) + k \in Nat /\ es[k].term \in Nat /\ l.baseTerm <= es[k].term
  <2>1. HasEntry(l, (idx - 1) + k) /\ es[k] = EntryAt(l, (idx - 1) + k)
    BY Zenon, <1>1, CutFacts
  <2>2. (idx - 1) + k \in Nat /\ (idx - 1) + k <= (idx - 1) + k
    BY <1>2
  <2> QED
    BY Zenon, <2>1, <2>2, AscendByIndex
<1> HIDE DEF es
<1>4. ASSUME NEW k \in 1..z PROVE es[k].term <= t
  <2>1. (idx - 1) + k > b /\ (idx - 1) + k <= b + n
    BY Zenon, <1>1, <1>3 DEF HasEntry, LastLogIndex
  <2>2. PICK x \in 1..n : x = ((idx - 1) + k) - b
    BY <2>1
  <2>3. es[k] = l.entries[x]
    BY Zenon, <1>1, <1>3, <2>2 DEF EntryAt
  <2> QED
    BY Zenon, <1>1, <2>3, TermsBounded
<1>5. ASSUME NEW j \in 1..z, NEW k \in 1..z, j <= k PROVE es[j].term <= es[k].term
  <2>1. (idx - 1) + j <= (idx - 1) + k
    BY <1>5
  <2> QED
    BY Zenon, <1>3, <2>1, AscendByIndex
<1>6. ASSUME NEW k \in 1..z PROVE prevTerm <= es[k].term
  <2>1. CASE idx - 1 = 0 \/ idx - 1 = b
    <3>1. prevTerm = 0 \/ prevTerm = l.baseTerm
      BY Zenon, <1>1, <2>1 DEF LogTermAt
    <3> HIDE DEF prevTerm
    <3> QED
      BY <1>3, <3>1
  <2>2. CASE idx - 1 # 0 /\ idx - 1 # b
    <3>1. (idx - 1) + k > b /\ (idx - 1) + k <= b + n
      BY Zenon, <1>1, <1>3 DEF HasEntry, LastLogIndex
    <3>2. idx - 1 \in Nat /\ idx - 1 > b /\ idx - 1 <= b + n /\ idx - 1 <= (idx - 1) + k
      BY <1>2, <2>2, <3>1
    <3>3. HasEntry(l, idx - 1)
      BY Zenon, <1>1, <3>2 DEF HasEntry, LastLogIndex
    <3>4. prevTerm = EntryAt(l, idx - 1).term
      BY Zenon, <1>1, <2>2, <3>3 DEF LogTermAt
    <3> QED
      BY Zenon, <1>3, <3>2, <3>3, <3>4, AscendByIndex
  <2> QED
    BY <2>1, <2>2
<1> QED
  BY Zenon, <1>1, <1>4, <1>5, <1>6 DEF RequestAscends, es

(***************************************************************************)
(* Matching copies of a log.                                               *)
(***************************************************************************)

\* A log, or the part of one that a request carries: its prevLogTerm is -1 when the
\* sender has no entry there.
Copy == [base: Nat, baseTerm: Int, entries: Seq(Entry)]

\* Both have an entry at k, of the same term.
MeetAt(a, b, k) ==
  HasEntry(a, k) /\ HasEntry(b, k) /\ EntryAt(a, k).term = EntryAt(b, k).term

\* Every log is a copy.
LEMMA LogIsCopy ==
  ASSUME NEW l \in Log
  PROVE  l \in Copy
BY DEF Log, Copy

\* A copy by the indexes it covers.
LEMMA CopyFacts ==
  ASSUME NEW a \in Copy
  PROVE  /\ a.base \in Nat /\ LastLogIndex(a) \in Nat /\ a.base <= LastLogIndex(a)
         /\ \A k \in Nat : HasEntry(a, k) <=> a.base < k /\ k <= LastLogIndex(a)
         /\ \A k \in Nat : HasEntry(a, k) => LogTermAt(a, k) = EntryAt(a, k).term
<1>1. PICK b \in Nat, n \in Nat : b = a.base /\ n = Len(a.entries)
  BY DEF Copy
<1>2. b + n \in Nat /\ b <= b + n
  OBVIOUS
<1>3. LastLogIndex(a) = b + n
  BY Zenon, <1>1 DEF LastLogIndex
<1>4. ASSUME NEW k \in Nat, HasEntry(a, k)
      PROVE  LogTermAt(a, k) = EntryAt(a, k).term
  <2>1. k > b
    BY Zenon, <1>1, <1>4 DEF HasEntry
  <2>2. k # 0 /\ k # b
    BY <2>1
  <2> QED
    BY Zenon, <1>1, <1>4, <2>2 DEF LogTermAt
<1>5. \A k \in Nat : HasEntry(a, k) <=> b < k /\ k <= b + n
  BY <1>1, <1>3 DEF HasEntry
<1> QED
  BY Zenon, <1>1, <1>2, <1>3, <1>4, <1>5

\* Where two matching copies meet, they agree on everything before.
LEMMA MatchUse ==
  ASSUME NEW a \in Copy, NEW b \in Copy, LogsMatch(a, b), NEW k \in Nat, MeetAt(a, b, k)
  PROVE  \A m \in 0..k : SameAt(a, b, m)
<1>1. k > a.base /\ k <= LastLogIndex(a) /\ a.base \in Nat /\ LastLogIndex(a) \in Nat
  BY Zenon, CopyFacts DEF MeetAt
<1>2. k \in 1..LastLogIndex(a)
  BY <1>1
<1> QED
  BY Zenon, <1>2 DEF LogsMatch, MeetAt

\* The converse: it is enough to look where both have entries.
LEMMA MatchIntro ==
  ASSUME NEW a \in Copy, NEW b \in Copy,
         \A k \in Nat : MeetAt(a, b, k) => \A m \in 0..k : SameAt(a, b, m)
  PROVE  LogsMatch(a, b)
<1>1. \A k \in 1..LastLogIndex(a) : k \in Nat
  BY CopyFacts
<1> QED
  BY Zenon, <1>1 DEF LogsMatch, MeetAt

\* Matching is reflexive and symmetric.
LEMMA MatchSelf ==
  ASSUME NEW a \in Copy
  PROVE  LogsMatch(a, a)
BY DEF LogsMatch, SameAt

\* Matching does not depend on the order of the two copies.
LEMMA MatchSym ==
  ASSUME NEW a \in Copy, NEW b \in Copy, LogsMatch(a, b)
  PROVE  LogsMatch(b, a)
<1>1. ASSUME NEW k \in Nat, MeetAt(b, a, k), NEW m \in 0..k
      PROVE  SameAt(b, a, m)
  <2>1. MeetAt(a, b, k)
    BY Zenon, <1>1 DEF MeetAt
  <2>2. SameAt(a, b, m)
    BY Zenon, <2>1, MatchUse
  <2> QED
    BY Zenon, <2>2 DEF SameAt
<1> QED
  BY Zenon, <1>1, MatchIntro

\* What is cut off a copy matches whatever the copy matches.
LEMMA MatchCut ==
  ASSUME NEW l \in Copy, NEW x \in Copy, NEW b \in Copy, LogsMatch(l, b), x.base >= l.base,
         LogTermAt(x, x.base) = LogTermAt(l, x.base),
         \A k \in Nat : HasEntry(x, k) => HasEntry(l, k) /\ EntryAt(x, k) = EntryAt(l, k)
  PROVE  LogsMatch(x, b)
<1>1. ASSUME NEW k \in Nat, MeetAt(x, b, k), NEW m \in 0..k
      PROVE  SameAt(x, b, m)
  <2>1. SameAt(l, b, m)
    <3>1. MeetAt(l, b, k)
      BY Zenon, <1>1 DEF MeetAt
    <3> QED
      BY Zenon, <3>1, MatchUse
  <2>2. PICK p \in Nat, q \in Nat, n \in Nat : p = x.base /\ q = l.base /\ n = LastLogIndex(x)
    BY Zenon, CopyFacts
  <2>3. p >= q /\ k <= n /\ m \in Nat /\ m <= k
    <3>1. p >= q /\ k <= n
      BY Zenon, <1>1, <2>2, CopyFacts DEF MeetAt
    <3> QED
      BY <3>1
  <2>4. CASE m > p
    <3>1. HasEntry(x, m) /\ m >= q /\ m > q
      <4>1. p < m /\ m <= n /\ m >= q /\ m > q
        BY <2>3, <2>4
      <4> QED
        BY Zenon, <2>2, <2>3, <4>1, CopyFacts
    <3>2. EntryAt(x, m) = EntryAt(l, m) /\ LogTermAt(x, m) = LogTermAt(l, m)
      BY ZenonT(40), <2>3, <3>1, CopyFacts
    <3> QED
      BY Zenon, <2>1, <2>2, <3>1, <3>2 DEF SameAt
  <2>5. CASE m = p
    <3>1. ~(m > p) /\ m >= q
      BY <2>3, <2>5
    <3> QED
      BY Zenon, <2>1, <2>2, <2>5, <3>1 DEF SameAt
  <2>6. CASE m < p
    <3>1. ~(m > p) /\ ~(m >= p)
      BY <2>3, <2>6
    <3> QED
      BY Zenon, <2>2, <3>1 DEF SameAt
  <2> QED
    BY <2>3, <2>4, <2>5, <2>6
<1> QED
  BY Zenon, <1>1, MatchIntro

\* A copy that grows by an entry goes on matching a copy that has no entry of that
\* term there.
LEMMA MatchAppend ==
  ASSUME NEW l \in Copy, NEW x \in Copy, NEW b \in Copy, LogsMatch(l, b), x.base = l.base,
         NEW n \in Nat, n = LastLogIndex(l), LastLogIndex(x) = n + 1,
         \A k \in 0..n : LogTermAt(x, k) = LogTermAt(l, k),
         \A k \in 0..n : k > l.base => EntryAt(x, k) = EntryAt(l, k),
         ~MeetAt(x, b, n + 1)
  PROVE  LogsMatch(x, b)
<1>1. ASSUME NEW k \in Nat, MeetAt(x, b, k), NEW m \in 0..k
      PROVE  SameAt(x, b, m)
  <2>1. k <= n /\ k > l.base
    <3>1. k <= n + 1 /\ k # n + 1 /\ k > l.base
      BY Zenon, <1>1, CopyFacts DEF MeetAt
    <3> QED
      BY <3>1
  <2>2. k \in 0..n /\ m \in 0..n
    BY <2>1
  <2>3. MeetAt(l, b, k)
    <3>1. HasEntry(l, k) /\ EntryAt(x, k) = EntryAt(l, k)
      BY Zenon, <2>1, <2>2, CopyFacts
    <3> QED
      BY Zenon, <1>1, <3>1 DEF MeetAt
  <2>4. SameAt(l, b, m)
    BY Zenon, <2>3, MatchUse
  <2> QED
    BY Zenon, <2>2, <2>4 DEF SameAt
<1> QED
  BY Zenon, <1>1, MatchIntro

\* Log x is log f up to index p, and from there on segment r, which starts at p with
\* the term that f has there: x matches whatever f and r match.
LEMMA MatchSplice ==
  ASSUME NEW f \in Copy, NEW r \in Copy, NEW x \in Copy, NEW b \in Copy, NEW p \in Nat,
         LogsMatch(f, b), LogsMatch(r, b),
         f.base = 0, x.base = 0, r.base = p, p <= LastLogIndex(f),
         LogTermAt(f, p) = LogTermAt(r, p), LastLogIndex(x) = LastLogIndex(r),
         \A k \in 0..p : LogTermAt(x, k) = LogTermAt(f, k),
         \A k \in 1..p : EntryAt(x, k) = EntryAt(f, k),
         \A k \in Nat : HasEntry(r, k) => EntryAt(x, k) = EntryAt(r, k)
  PROVE  LogsMatch(x, b)
<1>0. PICK y \in Nat, z \in Nat, n \in Nat :
        y = LastLogIndex(f) /\ z = LastLogIndex(r) /\ n = b.base /\ p <= y /\ p <= z
  BY Zenon, CopyFacts
<1>1. ASSUME NEW k \in Nat, MeetAt(x, b, k), NEW m \in 0..k
      PROVE  SameAt(x, b, m)
  <2>0. m \in Nat /\ m <= k
    OBVIOUS
  <2>1. 0 < k /\ k <= z /\ n < k /\ k <= LastLogIndex(b) /\ LastLogIndex(b) \in Nat
    BY Zenon, <1>0, <1>1, CopyFacts DEF MeetAt
  <2>2. ASSUME NEW j \in 1..p, MeetAt(f, b, j), NEW i \in 0..j
        PROVE  SameAt(x, b, i)
    <3>1. j \in Nat /\ i \in 0..p /\ (i > 0 => i \in 1..p)
      OBVIOUS
    <3>2. SameAt(f, b, i)
      BY Zenon, <2>2, <3>1, MatchUse
    <3> QED
      BY Zenon, <3>1, <3>2 DEF SameAt
  <2>3. CASE k <= p
    <3>1. k \in 1..p /\ k <= y
      BY <1>0, <2>1, <2>3
    <3>2. MeetAt(f, b, k)
      <4>1. HasEntry(f, k) /\ EntryAt(x, k) = EntryAt(f, k)
        BY Zenon, <1>0, <2>1, <3>1, CopyFacts
      <4> QED
        BY Zenon, <1>1, <4>1 DEF MeetAt
    <3> QED
      BY Zenon, <2>2, <3>1, <3>2
  <2>4. CASE k > p
    <3>1. MeetAt(r, b, k)
      <4>1. HasEntry(r, k) /\ EntryAt(x, k) = EntryAt(r, k)
        BY Zenon, <1>0, <2>1, <2>4, CopyFacts
      <4> QED
        BY Zenon, <1>1, <4>1 DEF MeetAt
    <3>2. \A i \in 0..k : SameAt(r, b, i)
      BY Zenon, <3>1, MatchUse
    <3>3. CASE m > p
      <4>1. m <= z /\ m >= p /\ m >= 0 /\ m > 0
        BY <2>0, <2>1, <3>3
      <4>2. HasEntry(r, m) /\ HasEntry(x, m)
        BY Zenon, <1>0, <2>0, <3>3, <4>1, CopyFacts
      <4>3. EntryAt(x, m) = EntryAt(r, m) /\ LogTermAt(x, m) = LogTermAt(r, m)
        <5>1. LogTermAt(x, m) = EntryAt(x, m).term /\ LogTermAt(r, m) = EntryAt(r, m).term
          BY Zenon, <2>0, <4>2, CopyFacts
        <5>2. EntryAt(x, m) = EntryAt(r, m)
          BY Zenon, <2>0, <4>2
        <5> QED
          BY <5>1, <5>2
      <4>4. SameAt(r, b, m)
        BY <3>2
      <4> QED
        BY Zenon, <3>3, <4>1, <4>3, <4>4 DEF SameAt
    <3>4. CASE m <= p /\ n < p
      <4>1. p \in 0..k /\ p \in 0..p /\ p \in 1..p /\ p >= n /\ p >= p /\ p <= LastLogIndex(b)
            /\ m \in 0..p /\ 0 < p
        BY <2>0, <2>1, <2>4, <3>4
      <4>2. LogTermAt(r, p) = LogTermAt(b, p)
        BY Zenon, <1>0, <3>2, <4>1 DEF SameAt
      <4>3. HasEntry(f, p) /\ HasEntry(b, p)
        BY Zenon, <1>0, <3>4, <4>1, CopyFacts
      <4>4. EntryAt(f, p).term = EntryAt(b, p).term
        <5>1. LogTermAt(f, p) = EntryAt(f, p).term /\ LogTermAt(b, p) = EntryAt(b, p).term
          BY Zenon, <4>3, CopyFacts
        <5> QED
          BY <4>2, <5>1
      <4>5. MeetAt(f, b, p)
        BY Zenon, <4>3, <4>4 DEF MeetAt
      <4> QED
        BY Zenon, <2>2, <4>1, <4>5
    <3>5. CASE m <= p /\ ~(n < p)
      <4>1. ~(m > n) /\ (m >= n => m = p) /\ p \in 0..p /\ p \in 0..k /\ p >= p
        BY <2>0, <2>4, <3>5
      <4>2. LogTermAt(x, p) = LogTermAt(r, p) /\ SameAt(r, b, p)
        BY Zenon, <3>2, <4>1
      <4> QED
        BY Zenon, <1>0, <4>1, <4>2 DEF SameAt
    <3> QED
      BY <2>0, <3>3, <3>4, <3>5
  <2> QED
    BY <2>1, <2>3, <2>4
<1> QED
  BY Zenon, <1>1, MatchIntro

\* Copy x holds a part of log l.
PartOf(l, x) ==
  /\ x \in Copy /\ x.base >= l.base
  /\ LogTermAt(x, x.base) = LogTermAt(l, x.base)
  /\ \A k \in Nat : HasEntry(x, k) => HasEntry(l, k) /\ EntryAt(x, k) = EntryAt(l, k)

\* The request that replicateToPeer cuts off a log is a copy of a part of it.
LEMMA CutIsPart ==
  ASSUME NEW l \in Log, NEW idx \in Nat, idx > l.base, NEW x,
         x = [base |-> idx - 1, baseTerm |-> LogTermAt(l, idx - 1), entries |-> EntriesFrom(l, idx)]
  PROVE  PartOf(l, x)
<1>1. PICK b \in Nat, prev \in Nat : b = l.base /\ prev = idx - 1 /\ prev >= b
  BY DEF Log
<1>2. x.base = prev /\ x.baseTerm = LogTermAt(l, prev) /\ x.entries = EntriesFrom(l, idx)
  BY <1>1
<1>3. /\ EntriesFrom(l, idx) \in Seq(Entry)
      /\ \A k \in 1..Len(EntriesFrom(l, idx)) :
           HasEntry(l, prev + k) /\ EntriesFrom(l, idx)[k] = EntryAt(l, prev + k)
  BY Zenon, <1>1, CutFacts
<1>4. x \in Copy
  <2>1. LogTermAt(l, prev) \in Int
    BY Zenon, <1>1, LogReaderTypes
  <2>2. x = [base |-> prev, baseTerm |-> LogTermAt(l, prev), entries |-> EntriesFrom(l, idx)]
    BY Zenon, <1>1
  <2> QED
    BY <1>3, <2>1, <2>2 DEF Copy
<1>5. LogTermAt(x, prev) = LogTermAt(l, prev)
  BY <1>2 DEF LogTermAt
<1>6. ASSUME NEW k \in Nat, HasEntry(x, k)
      PROVE  HasEntry(l, k) /\ EntryAt(x, k) = EntryAt(l, k)
  <2>1. PICK z \in Nat : z = Len(x.entries)
    BY <1>2, <1>3
  <2>2. k > prev /\ k <= prev + z
    BY Zenon, <1>2, <1>6, <2>1 DEF HasEntry, LastLogIndex
  <2>3. PICK j \in 1..z : j = k - prev /\ k = prev + j
    BY <2>2
  <2>4. EntryAt(x, k) = EntriesFrom(l, idx)[j]
    BY Zenon, <1>2, <2>3 DEF EntryAt
  <2> QED
    BY Zenon, <1>2, <1>3, <2>1, <2>3, <2>4
<1> QED
  BY Zenon, <1>1, <1>2, <1>4, <1>5, <1>6 DEF PartOf

\* Log x is log l with one more entry, by index.
AppendedTo(l, e, x) ==
  /\ x \in Log /\ x.base = l.base /\ LastLogIndex(x) = LastLogIndex(l) + 1
  /\ \A k \in 0..LastLogIndex(l) : LogTermAt(x, k) = LogTermAt(l, k)
  /\ \A k \in 0..LastLogIndex(l) : k > l.base => EntryAt(x, k) = EntryAt(l, k)
  /\ EntryAt(x, LastLogIndex(l) + 1) = e

\* That is what propose does.
LEMMA AppendByIndex ==
  ASSUME NEW l \in Log, NEW e \in Entry, NEW x, x = AppendEntry(l, e)
  PROVE  AppendedTo(l, e, x)
<1>1. PICK b \in Nat, n \in Nat : b = l.base /\ n = Len(l.entries)
  BY DEF Log
<1>2. /\ x \in Log /\ x.base = b /\ x.baseTerm = l.baseTerm /\ Len(x.entries) = n + 1
      /\ \A k \in 1..n : x.entries[k] = l.entries[k]
      /\ x.entries[n + 1] = e
  BY Zenon, <1>1, AppendFacts
<1>3. LastLogIndex(l) = b + n /\ LastLogIndex(x) = b + (n + 1)
  BY Zenon, <1>1, <1>2 DEF LastLogIndex
<1>4. b + (n + 1) = (b + n) + 1 /\ ((b + n) + 1) - b = n + 1
  OBVIOUS
<1>5. ASSUME NEW k \in 0..(b + n), k > b
      PROVE  EntryAt(x, k) = EntryAt(l, k)
  <2>1. PICK j \in 1..n : j = k - b
    BY <1>5
  <2> QED
    BY Zenon, <1>1, <1>2, <2>1 DEF EntryAt
<1>6. ASSUME NEW k \in 0..(b + n)
      PROVE  LogTermAt(x, k) = LogTermAt(l, k)
  <2>1. k <= b + n /\ k <= b + (n + 1)
    OBVIOUS
  <2>2. HasEntry(x, k) <=> HasEntry(l, k)
    BY Zenon, <1>1, <1>2, <1>3, <2>1 DEF HasEntry
  <2>3. HasEntry(l, k) => EntryAt(x, k) = EntryAt(l, k)
    BY Zenon, <1>1, <1>5 DEF HasEntry
  <2> QED
    BY <1>1, <1>2, <2>2, <2>3 DEF LogTermAt
<1>7. EntryAt(x, (b + n) + 1) = e
  BY Zenon, <1>2, <1>4 DEF EntryAt
<1> QED
  BY Zenon, <1>1, <1>2, <1>3, <1>4, <1>5, <1>6, <1>7 DEF AppendedTo

\* A merged log x: the follower's log l up to prevLogIndex, the request r after it.
MergedBy(l, r, x) ==
  /\ x \in Log /\ x.base = 0 /\ l \in Log /\ l.base = 0 /\ r.base <= LastLogIndex(l)
  /\ LogTermAt(l, r.base) = LogTermAt(r, r.base) /\ LastLogIndex(x) = LastLogIndex(r)
  /\ \A k \in 0..r.base : LogTermAt(x, k) = LogTermAt(l, k)
  /\ \A k \in 1..r.base : EntryAt(x, k) = EntryAt(l, k)
  /\ \A k \in Nat : HasEntry(r, k) => EntryAt(x, k) = EntryAt(r, k)

\* mergeEntries: where log and request match, the merged log is the log up to
\* prevLogIndex and the request after it.
LEMMA MergeByIndex ==
  ASSUME NEW l \in Log, l.base = 0, NEW r \in Copy, NEW x, LogsMatch(l, r),
         CheckPrevLog(l, r.base, r.baseTerm), x = MergeEntries(l, r.base, r.entries)
  PROVE  MergedBy(l, r, x)
<1>1. PICK p \in Nat, n \in Nat, z \in Nat :
        p = r.base /\ n = Len(l.entries) /\ z = Len(r.entries) /\ r.entries \in Seq(Entry)
  BY DEF Log, Copy
<1>2. LastLogIndex(l) = n /\ LastLogIndex(r) = p + z
  BY <1>1 DEF LastLogIndex
<1>3. p <= n /\ (p > 0 => LogTermAt(l, p) = r.baseTerm)
  BY Zenon, <1>1, <1>2 DEF CheckPrevLog
<1>4. LogTermAt(l, p) = LogTermAt(r, p)
  BY <1>1, <1>3 DEF LogTermAt
<1>5. /\ x \in Log /\ x.base = 0 /\ x.baseTerm = l.baseTerm
      /\ Len(x.entries) = p + z - 0
      /\ \A k \in 1..(p - 0) : x.entries[k] = l.entries[k]
      /\ \A k \in 1..z : FromEither(x.entries[p - 0 + k], l, p + k, r.entries[k])
  <2>1. p >= l.base /\ p <= LastLogIndex(l)
    BY <1>2, <1>3
  <2>2. x = MergeEntries(l, p, r.entries)
    BY Zenon, <1>1
  <2>3. /\ x \in Log /\ x.base = l.base /\ x.baseTerm = l.baseTerm
        /\ Len(x.entries) = p + Len(r.entries) - l.base
        /\ \A k \in 1..(p - l.base) : x.entries[k] = l.entries[k]
        /\ \A k \in 1..Len(r.entries) :
             FromEither(x.entries[p - l.base + k], l, p + k, r.entries[k])
    BY SMTT(40), <1>1, <2>1, <2>2, MergeFacts
  <2> QED
    BY Zenon, <1>1, <2>3
<1>6. p + z - 0 = p + z /\ p - 0 = p /\ 0 + (p + z) = p + z
  OBVIOUS
<1>7. LastLogIndex(x) = p + z
  BY Zenon, <1>5, <1>6 DEF LastLogIndex
<1>8. ASSUME NEW k \in 1..p PROVE EntryAt(x, k) = EntryAt(l, k)
  <2>1. k - 0 = k
    OBVIOUS
  <2> QED
    BY Zenon, <1>5, <1>6, <2>1 DEF EntryAt
<1>9. ASSUME NEW k \in 0..p PROVE LogTermAt(x, k) = LogTermAt(l, k)
  <2>1. CASE k = 0
    BY Zenon, <2>1 DEF LogTermAt
  <2>2. CASE k # 0
    <3>1. k \in 1..p /\ k \in Nat /\ 0 < k /\ k <= n /\ k <= p + z
      BY <1>3, <2>2
    <3>2. HasEntry(l, k) /\ HasEntry(x, k)
      BY <1>2, <1>5, <1>7, <3>1 DEF HasEntry
    <3>3. LogTermAt(l, k) = EntryAt(l, k).term /\ LogTermAt(x, k) = EntryAt(x, k).term
      BY Zenon, <1>5, <3>1, <3>2, LogIsCopy, CopyFacts
    <3> QED
      BY <1>8, <3>1, <3>3
  <2> QED
    BY <2>1, <2>2
<1>10. ASSUME NEW k \in Nat, HasEntry(r, k) PROVE EntryAt(x, k) = EntryAt(r, k)
  <2>1. k > p /\ k <= p + z
    BY Zenon, <1>1, <1>2, <1>10 DEF HasEntry
  <2>2. PICK j \in 1..z : j = k - p /\ k = p + j /\ p - 0 + j = k /\ k - 0 = k /\ k > 0 /\ k \in 0..k
    BY <2>1
  <2>3. EntryAt(x, k) = x.entries[k] /\ EntryAt(r, k) = r.entries[j]
    BY Zenon, <1>1, <1>5, <2>2 DEF EntryAt
  <2>4. FromEither(EntryAt(x, k), l, k, EntryAt(r, k))
    BY Zenon, <1>5, <2>2, <2>3
  <2>5. ASSUME HasEntry(l, k), EntryAt(x, k) = EntryAt(l, k), EntryAt(x, k).term = EntryAt(r, k).term
        PROVE  EntryAt(x, k) = EntryAt(r, k)
    <3>1. MeetAt(l, r, k)
      BY Zenon, <1>10, <2>5 DEF MeetAt
    <3>2. SameAt(l, r, k)
      BY Zenon, <2>2, <3>1, LogIsCopy, MatchUse
    <3> QED
      BY Zenon, <1>1, <2>1, <2>2, <2>5, <3>2 DEF SameAt
  <2> QED
    BY Zenon, <2>4, <2>5 DEF FromEither
<1> QED
  BY Zenon, <1>1, <1>2, <1>3, <1>4, <1>5, <1>7, <1>8, <1>9, <1>10 DEF MergedBy

\* A merged log matches whatever the log and the request match.
LEMMA MergeMatches ==
  ASSUME NEW l, NEW r \in Copy, NEW x, NEW b \in Copy,
         MergedBy(l, r, x), LogsMatch(l, b), LogsMatch(r, b)
  PROVE  LogsMatch(x, b)
<1>1. l \in Copy /\ x \in Copy
  BY Zenon, LogIsCopy DEF MergedBy
<1>2. PICK p \in Nat : p = r.base
  BY Zenon, CopyFacts
<1> QED
  BY SMTT(40), <1>1, <1>2, MatchSplice DEF MergedBy
===============================================================================
