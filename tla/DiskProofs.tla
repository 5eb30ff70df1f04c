----------------------------- MODULE DiskProofs -----------------------------
(***************************************************************************)
(* Proofs about DiskStore for every set of keys and commands and every     *)
(* bound: shapes, what a log without failures gives back, and what a crash *)
(* leaves of acknowledged writes.                                          *)
(***************************************************************************)
EXTENDS DiskStore, WellFoundedInduction, TLAPS

(***************************************************************************)
(* Replay.  ApplyAll is the last state of a run over the records.  The     *)
(* inductions below look at the least length at which a claim would fail.  *)
(***************************************************************************)

\* A set of numbers that is not empty has a least one.
LEMMA LeastNumber ==
  ASSUME NEW S, S \subseteq Nat, S # {}
  PROVE  \E x \in S : \A y \in S : x <= y
<1> DEFINE R == {ss \in Nat \X Nat : ss[1] < ss[2]}
<1>1. IsWellFoundedOn(R, Nat)
  BY Zenon, NatLessThanWellFounded DEF OpToRel
<1>2. PICK x \in S : \A y \in S : ~(<<y, x>> \in R)
  <2> HIDE DEF R
  <2> QED BY Zenon, <1>1, WFMin
<1>3. \A y \in S : ~(y < x)
  BY Zenon, <1>2
<1>4. \A y \in S : x <= y
  BY <1>3
<1> QED
  BY Zenon, <1>4

\* What holds at 0 and at every number whose predecessor has it, holds up to n.
LEMMA UpTo ==
  ASSUME NEW n \in Nat, NEW T, 0 \in T, \A i \in 1..n : i - 1 \in T => i \in T
  PROVE  0..n \subseteq T
<1> SUFFICES ASSUME ~(0..n \subseteq T) PROVE FALSE
  OBVIOUS
<1> DEFINE Bad == {i \in 0..n : i \notin T}
<1>1. Bad \subseteq Nat /\ Bad # {}
  OBVIOUS
<1>2. PICK i \in Bad : \A j \in Bad : i <= j
  <2> HIDE DEF Bad
  <2> QED
    BY Zenon, <1>1, LeastNumber
<1>3. i \in 1..n /\ i - 1 \in 0..n /\ ~(i <= i - 1) /\ i \notin T
  BY <1>2
<1>4. i - 1 \notin Bad
  BY Zenon, <1>2, <1>3
<1> QED
  BY Zenon, <1>3, <1>4

IsRun(f, d, cmds, t) ==
  f = [n \in 0..Len(cmds) |-> IF n = 0 THEN d ELSE ApplyRecord(f[n - 1], cmds[n], t)]

\* What a run is at each length.
LEMMA RunSteps ==
  ASSUME NEW f, NEW d, NEW cmds, NEW t, IsRun(f, d, cmds, t), Len(cmds) \in Nat
  PROVE  /\ f[0] = d
         /\ \A n \in 1..Len(cmds) : f[n] = ApplyRecord(f[n - 1], cmds[n], t)
<1>1. \A n \in 0..Len(cmds) :
        f[n] = IF n = 0 THEN d ELSE ApplyRecord(f[n - 1], cmds[n], t)
  BY Zenon DEF IsRun
<1>2. 0 \in 0..Len(cmds) /\ \A n \in 1..Len(cmds) : n \in 0..Len(cmds) /\ n # 0
  OBVIOUS
<1> QED
  BY Zenon, <1>1, <1>2

\* Every sequence of records has a run from every state.
LEMMA RunExists ==
  ASSUME NEW d, NEW S, NEW cmds \in Seq(S), NEW t
  PROVE  \E f : IsRun(f, d, cmds, t)
<1> DEFINE Part(f, m) == f = [n \in 0..m |-> IF n = 0 THEN d ELSE ApplyRecord(f[n - 1], cmds[n], t)]
           T == {m \in 0..Len(cmds) : \E f : Part(f, m)}
<1>0. Len(cmds) \in Nat
  OBVIOUS
<1>1. 0 \in T
  <2>1. Part([n \in 0..0 |-> d], 0)
    BY <1>0
  <2>2. 0 \in 0..Len(cmds)
    BY <1>0
  <2> QED
    BY Zenon, <2>1, <2>2
<1>2. ASSUME NEW m \in 1..Len(cmds), m - 1 \in T PROVE m \in T
  <2>1. PICK f : Part(f, m - 1)
    BY Zenon, <1>2
  <2> DEFINE g == [n \in 0..m |-> IF n < m THEN f[n] ELSE ApplyRecord(f[m - 1], cmds[m], t)]
  <2>2. \A n \in 0..(m - 1) : f[n] = IF n = 0 THEN d ELSE ApplyRecord(f[n - 1], cmds[n], t)
    BY Zenon, <2>1
  <2>3. ASSUME NEW n \in 0..m
        PROVE  g[n] = IF n = 0 THEN d ELSE ApplyRecord(g[n - 1], cmds[n], t)
    <3>1. CASE n = m
      <4>1. m - 1 \in 0..m /\ m - 1 < m /\ ~(m < m) /\ m # 0
        BY <1>0
      <4>2. g[m - 1] = f[m - 1] /\ g[m] = ApplyRecord(f[m - 1], cmds[m], t)
        BY Zenon, <4>1, <3>1
      <4> QED
        BY Zenon, <3>1, <4>1, <4>2
    <3>2. CASE n = 0
      <4>1. 0 < m /\ 0 \in 0..(m - 1)
        BY <1>0
      <4>2. g[0] = f[0] /\ f[0] = d
        BY Zenon, <2>2, <3>2, <4>1
      <4> QED
        BY Zenon, <3>2, <4>2
    <3>3. CASE n # m /\ n # 0
      <4>1. n \in 0..(m - 1) /\ n - 1 \in 0..m /\ n < m /\ n - 1 < m
        BY <1>0, <3>3
      <4>2. g[n] = f[n] /\ g[n - 1] = f[n - 1]
        BY Zenon, <4>1
      <4> QED
        BY Zenon, <2>2, <3>3, <4>1, <4>2
    <3> QED
      BY Zenon, <3>1, <3>2, <3>3
  <2>4. Part(g, m)
    <3>1. g = [n \in 0..m |-> g[n]]
      BY Zenon
    <3> HIDE DEF g
    <3> QED
      BY Zenon, <2>3, <3>1
  <2>5. m \in 0..Len(cmds)
    BY <1>0
  <2> QED
    BY Zenon, <2>4, <2>5
<1>3. 0..Len(cmds) \subseteq T
  <2> HIDE DEF T
  <2> QED
    BY Zenon, <1>0, <1>1, <1>2, UpTo
<1>4. Len(cmds) \in T
  <2>1. Len(cmds) \in 0..Len(cmds)
    BY <1>0
  <2> QED
    BY Zenon, <1>3, <2>1
<1> QED
  BY Zenon, <1>4 DEF IsRun

\* ApplyAll returns the last state of such a run.
LEMMA ApplyAllRuns ==
  ASSUME NEW d, NEW S, NEW cmds \in Seq(S), NEW t
  PROVE  \E f : IsRun(f, d, cmds, t) /\ ApplyAll(d, cmds, t) = f[Len(cmds)]
<1> DEFINE after == CHOOSE f : IsRun(f, d, cmds, t)
<1>1. IsRun(after, d, cmds, t)
  BY Zenon, RunExists
<1>2. ApplyAll(d, cmds, t) = after[Len(cmds)]
  BY DEF ApplyAll, IsRun
<1> QED
  BY Zenon, <1>1, <1>2

\* A prefix of a sequence and its elements.
LEMMA PrefixFacts ==
  ASSUME NEW S, NEW s \in Seq(S), NEW n \in 0..Len(s)
  PROVE  /\ SubSeq(s, 1, n) \in Seq(S) /\ Len(SubSeq(s, 1, n)) = n
         /\ \A i \in 1..n : SubSeq(s, 1, n)[i] = s[i]
OBVIOUS

\* The whole of a sequence is a prefix of it.
LEMMA WholePrefix ==
  ASSUME NEW S, NEW s \in Seq(S)
  PROVE  SubSeq(s, 1, Len(s)) = s /\ Len(s) \in Nat
OBVIOUS

\* Runs from the same state over the same records are the same.
LEMMA RunsAgree ==
  ASSUME NEW f, NEW g, NEW d, NEW cmds, NEW more, NEW t,
         IsRun(f, d, cmds, t), IsRun(g, d, more, t), Len(cmds) \in Nat, Len(more) \in Nat,
         Len(cmds) <= Len(more), \A n \in 1..Len(cmds) : cmds[n] = more[n]
  PROVE  \A n \in 0..Len(cmds) : f[n] = g[n]
<1> DEFINE T == {n \in 0..Len(cmds) : f[n] = g[n]}
<1>1. /\ f[0] = d /\ \A n \in 1..Len(cmds) : f[n] = ApplyRecord(f[n - 1], cmds[n], t)
      /\ g[0] = d /\ \A n \in 1..Len(more) : g[n] = ApplyRecord(g[n - 1], more[n], t)
  BY SMTT(30), RunSteps
<1>2. 0 \in 0..Len(cmds) /\ \A n \in 1..Len(cmds) : n \in 0..Len(cmds) /\ n \in 1..Len(more)
  OBVIOUS
<1>3. 0 \in T
  BY Zenon, <1>1, <1>2
<1>4. \A n \in 1..Len(cmds) : n - 1 \in T => n \in T
  BY Zenon, <1>1, <1>2
<1>5. 0..Len(cmds) \subseteq T
  <2> HIDE DEF T
  <2> QED
    BY Zenon, <1>3, <1>4, UpTo
<1> QED
  BY Zenon, <1>5

\* Replaying nothing changes nothing.
LEMMA ApplyNone ==
  ASSUME NEW d, NEW t
  PROVE  ApplyAll(d, <<>>, t) = d
<1>1. <<>> \in Seq({}) /\ Len(<<>>) = 0
  OBVIOUS
<1>2. PICK f : IsRun(f, d, <<>>, t) /\ ApplyAll(d, <<>>, t) = f[Len(<<>>)]
  BY Zenon, <1>1, ApplyAllRuns
<1>3. Len(<<>>) \in Nat
  BY <1>1
<1> QED
  BY Zenon, <1>1, <1>2, <1>3, RunSteps

\* Replaying one record more applies that record to what was there.
LEMMA ApplyPrefix ==
  ASSUME NEW d, NEW S, NEW cmds \in Seq(S), NEW t, NEW n \in 1..Len(cmds)
  PROVE  ApplyAll(d, SubSeq(cmds, 1, n), t)
           = ApplyRecord(ApplyAll(d, SubSeq(cmds, 1, n - 1), t), cmds[n], t)
<1> DEFINE p == SubSeq(cmds, 1, n)
           q == SubSeq(cmds, 1, n - 1)
<1>0. Len(cmds) \in Nat /\ n \in 0..Len(cmds) /\ n - 1 \in 0..Len(cmds) /\ n \in Nat /\ n - 1 \in Nat
      /\ n - 1 <= n /\ n \in 1..n /\ n - 1 \in 0..(n - 1) /\ \A i \in 1..(n - 1) : i \in 1..n
  OBVIOUS
<1>1. /\ p \in Seq(S) /\ Len(p) = n /\ \A i \in 1..n : p[i] = cmds[i]
      /\ q \in Seq(S) /\ Len(q) = n - 1 /\ \A i \in 1..(n - 1) : q[i] = cmds[i]
  BY Zenon, <1>0, PrefixFacts
<1> HIDE DEF p, q
<1>2. PICK f : IsRun(f, d, p, t) /\ ApplyAll(d, p, t) = f[n]
  BY ZenonT(40), <1>1, ApplyAllRuns
<1>3. PICK g : IsRun(g, d, q, t) /\ ApplyAll(d, q, t) = g[n - 1]
  BY ZenonT(40), <1>1, ApplyAllRuns
<1>4. f[n] = ApplyRecord(f[n - 1], p[n], t)
  BY SMTT(40), <1>0, <1>1, <1>2, RunSteps
<1>5. \A i \in 1..Len(q) : q[i] = p[i]
  BY Zenon, <1>0, <1>1
<1>6. g[n - 1] = f[n - 1]
  <2>1. \A i \in 0..Len(q) : g[i] = f[i]
    BY SMTT(40), <1>0, <1>1, <1>2, <1>3, <1>5, RunsAgree
  <2> QED
    BY Zenon, <1>0, <1>1, <2>1
<1>7. ApplyAll(d, p, t) = ApplyRecord(ApplyAll(d, q, t), cmds[n], t)
  BY Zenon, <1>0, <1>1, <1>2, <1>3, <1>4, <1>6
<1> QED
  BY Zenon, <1>7 DEF p, q

\* Replaying one record applies it.
LEMMA ApplyOne ==
  ASSUME NEW d, NEW c, NEW t
  PROVE  ApplyAll(d, <<c>>, t) = ApplyRecord(d, c, t)
<1> DEFINE s == <<c>>
<1>1. s \in Seq({c}) /\ Len(s) = 1 /\ s[1] = c
  OBVIOUS
<1> HIDE DEF s
<1>2. PICK f : IsRun(f, d, s, t) /\ ApplyAll(d, s, t) = f[Len(s)]
  BY Zenon, <1>1, ApplyAllRuns
<1>3. Len(s) \in Nat /\ 1 \in 1..Len(s) /\ 1 - 1 = 0
  BY <1>1
<1>4. f[0] = d /\ f[1] = ApplyRecord(f[1 - 1], s[1], t)
  BY SMTT(30), <1>2, <1>3, RunSteps
<1>5. ApplyAll(d, s, t) = ApplyRecord(d, c, t)
  BY Zenon, <1>1, <1>2, <1>3, <1>4
<1> QED
  BY Zenon, <1>5 DEF s

(***************************************************************************)
(* One record                                                              *)
(***************************************************************************)

\* The fields of each kind of command.
LEMMA CommandKinds ==
  ASSUME NEW c \in Command
  PROVE  \/ c[1] = "clear"
         \/ c[1] \in {"delete", "incr"} /\ c[2] \in Key
         \/ c[1] = "put" /\ c[2] \in Key /\ c[3] \in Text
         \/ c[1] = "cas" /\ c[2] \in Key /\ c[3] \in Text /\ c[4] \in Text
         \/ c[1] = "expire" /\ c[2] \in Key /\ c[3] \in Nat
<1>1. CASE c = <<"clear">>
  BY <1>1
<1>2. CASE c \in {"delete", "incr"} \X Key
  BY <1>2
<1>3. CASE c \in {"put"} \X Key \X Text
  BY <1>3
<1>4. CASE c \in {"cas"} \X Key \X Text \X Text
  BY <1>4
<1>5. CASE c \in {"expire"} \X Key \X Nat
  BY <1>5
<1> QED
  BY Zenon, <1>1, <1>2, <1>3, <1>4, <1>5, CommandAssumption

\* A command is no debris.
LEMMA CommandsAreRecords ==
  ASSUME NEW c \in Command
  PROVE  IsRecord(c)
<1>1. c[1] \in {"clear", "delete", "incr", "put", "cas", "expire"}
  BY Zenon, CommandKinds
<1>2. Torn[1] = "torn" /\ Header[1] = "header" /\ Unstamped[1] = "unstamped"
  BY DEF Torn, Header, Unstamped
<1> QED
  BY <1>1, <1>2 DEF IsRecord

\* The mutations of the map keep its shape.
LEMMA MapShapes ==
  ASSUME NEW d \in Data, NEW k \in Key, NEW t
  PROVE  /\ NewMemStore \in Data /\ MemDelete(d, k) \in Data /\ DropDead(d, k, t) \in Data
         /\ \A v \in Text : MemPut(d, k, v) \in Data
<1>1. NewMemStore \in Data
  BY DEF NewMemStore, Data
<1>2. MemDelete(d, k) \in Data
  BY DEF MemDelete, Data
<1>3. DropDead(d, k, t) \in Data
  BY DEF DropDead, Data
<1>4. ASSUME NEW v \in Text PROVE MemPut(d, k, v) \in Data
  <2>1. [Value |-> v, Exp |-> 0] \in Entry
    BY DEF Entry
  <2> QED
    BY <2>1 DEF MemPut, Data
<1> QED
  BY Zenon, <1>1, <1>2, <1>3, <1>4

\* A number below MaxInt64 is counted up to one that is not above it.
LEMMA CountedText ==
  ASSUME NEW v \in Text, v[2] # MaxInt64
  PROVE  FormatInt(v[2] + 1) \in Text
<1>1. v[2] \in 0..MaxInt64
  BY DEF Text
<1>2. v[2] + 1 \in 0..MaxInt64
  BY <1>1, MaxInt64Assumption
<1> QED
  BY <1>2 DEF FormatInt, Text

\* Replaying or applying one command keeps the shape of the map.
LEMMA RecordShape ==
  ASSUME NEW d \in Data, NEW c \in Command, NEW t
  PROVE  ApplyRecord(d, c, t) \in Data
<1>1. CASE c[1] = "clear"
  <2>1. NewMemStore \in Data
    BY DEF NewMemStore, Data
  <2> QED
    BY <1>1, <2>1 DEF ApplyRecord
<1>2. CASE c[1] = "delete" /\ c[2] \in Key
  <2>1. ApplyRecord(d, c, t) = MemDelete(d, c[2])
    BY <1>2 DEF ApplyRecord
  <2> QED
    BY Zenon, <1>2, <2>1, MapShapes
<1>3. CASE c[1] = "incr" /\ c[2] \in Key
  <2>1. ApplyRecord(d, c, t) = MemIncr(d, c[2], t)
    BY <1>3 DEF ApplyRecord
  <2>2. FormatInt(1) \in Text
    BY MaxInt64Assumption DEF FormatInt, Text
  <2>3. ASSUME Live(d, c[2], t), CanIncr(d, c[2], t)
        PROVE  FormatInt(ParseInt(d[c[2]].Value) + 1) \in Text
    <3>1. d[c[2]] \in Entry
      BY <1>3, <2>3 DEF Live, Data
    <3>2. d[c[2]].Value \in Text
      BY <3>1 DEF Entry
    <3> QED
      BY Zenon, <2>3, <3>2, CountedText DEF CanIncr, ParseInt
  <2> QED
    BY Zenon, <1>3, <2>1, <2>2, <2>3, MapShapes DEF MemIncr
<1>4. CASE c[1] = "put" /\ c[2] \in Key /\ c[3] \in Text
  <2>1. ApplyRecord(d, c, t) = MemPut(d, c[2], c[3])
    BY <1>4 DEF ApplyRecord
  <2> QED
    BY Zenon, <1>4, <2>1, MapShapes
<1>5. CASE c[1] = "cas" /\ c[2] \in Key /\ c[3] \in Text /\ c[4] \in Text
  <2>1. ApplyRecord(d, c, t) = MemCAS(d, c[2], c[3], c[4], t)
    BY <1>5 DEF ApplyRecord
  <2> QED
    BY Zenon, <1>5, <2>1, MapShapes DEF MemCAS
<1>6. CASE c[1] = "expire" /\ c[2] \in Key /\ c[3] \in Nat
  <2>1. ApplyRecord(d, c, t) = MemExpire(d, c[2], c[3], t)
    BY <1>6 DEF ApplyRecord
  <2>2. ASSUME Live(d, c[2], t) PROVE [d EXCEPT ![c[2]].Exp = c[3]] \in Data
    BY <1>6, <2>2 DEF Live, Data, Entry
  <2> QED
    BY Zenon, <1>6, <2>1, <2>2, MapShapes DEF MemExpire
<1> QED
  BY Zenon, <1>1, <1>2, <1>3, <1>4, <1>5, <1>6, CommandKinds

\* Replaying commands keeps the shape of the map.
LEMMA ReplayShape ==
  ASSUME NEW d \in Data, NEW cmds \in Seq(Command), NEW t
  PROVE  ApplyAll(d, cmds, t) \in Data
<1>1. PICK f : IsRun(f, d, cmds, t) /\ ApplyAll(d, cmds, t) = f[Len(cmds)]
  BY Zenon, ApplyAllRuns
<1>2. Len(cmds) \in Nat /\ (\A n \in 1..Len(cmds) : cmds[n] \in Command) /\ Len(cmds) \in 0..Len(cmds)
  OBVIOUS
<1>3. f[0] = d /\ \A n \in 1..Len(cmds) : f[n] = ApplyRecord(f[n - 1], cmds[n], t)
  BY SMTT(30), <1>1, <1>2, RunSteps
<1> DEFINE T == {n \in Nat : f[n] \in Data}
<1>4. 0 \in T /\ \A n \in 1..Len(cmds) : n - 1 \in T => n \in T
  <2>1. \A n \in 1..Len(cmds) : n \in Nat
    OBVIOUS
  <2> QED
    BY Zenon, <1>2, <1>3, <2>1, RecordShape
<1>5. 0..Len(cmds) \subseteq T
  <2> HIDE DEF T
  <2> QED
    BY Zenon, <1>2, <1>4, UpTo
<1> QED
  BY Zenon, <1>1, <1>2, <1>5

(***************************************************************************)
(* Shapes                                                                  *)
(***************************************************************************)
Written == Command \cup Debris \cup {Unstamped}

JobShape ==
  /\ job \in Job /\ job.n <= Len(job.cmds)
  /\ job.phase \in {"append", "apply"} => job.cmds # <<>>

DataShape == mem \in Data /\ snapshot \in Data /\ possible \subseteq Data
FileShape == wal \in Seq(Written) /\ stable \in Seq(Written)
BatchShape == batch \in Seq(Command) /\ Len(batch) <= MaxBatch
Shapes == DataShape /\ FileShape /\ BatchShape /\ JobShape /\ now \in Nat /\ refused \in BOOLEAN

\* A prefix whose elements are all in U is a sequence over U.
LEMMA PrefixOver ==
  ASSUME NEW S, NEW U, NEW s \in Seq(S), NEW n \in 0..Len(s), \A i \in 1..n : s[i] \in U
  PROVE  SubSeq(s, 1, n) \in Seq(U)
<1>1. SubSeq(s, 1, n) \in Seq(S) /\ Len(SubSeq(s, 1, n)) = n
      /\ \A i \in 1..n : SubSeq(s, 1, n)[i] = s[i]
  BY Zenon, PrefixFacts
<1> QED
  BY <1>1

\* The records of a file that can be replayed are the commands before its tail.
LEMMA RecordsFacts ==
  ASSUME NEW f \in Seq(Written), Replayable(f)
  PROVE  /\ Records(f) \in Seq(Command)
         /\ \E n \in 0..Len(f) : Records(f) = SubSeq(f, 1, n) /\ n \in {Len(f), Len(f) - 1}
<1>1. Len(f) \in Nat /\ SubSeq(f, 1, Len(f)) = f /\ \A n \in 1..Len(f) : f[n] \in Written
  OBVIOUS
<1>2. \A n \in 1..Len(f) : IsRecord(f[n]) => f[n] \in Command
  BY Zenon, <1>1 DEF Written, IsRecord, Debris
<1>3. CASE \A n \in 1..Len(f) : IsRecord(f[n])
  <2>1. SubSeq(f, 1, Len(f)) \in Seq(Command) /\ Len(f) \in 0..Len(f)
    <3>1. Len(f) \in 0..Len(f)
      BY <1>1
    <3> QED
      BY Zenon, <1>2, <1>3, <3>1, PrefixOver
  <2> QED
    BY Zenon, <1>1, <1>3, <2>1 DEF Records
<1>4. CASE ~\A n \in 1..Len(f) : IsRecord(f[n])
  <2>1. Records(f) = SubSeq(f, 1, Len(f) - 1)
    BY Zenon, <1>4 DEF Records
  <2>2. PICK m \in 1..Len(f) : ~IsRecord(f[m])
    BY Zenon, <1>4
  <2>3. Len(f) - 1 \in 0..Len(f) /\ \A i \in 1..(Len(f) - 1) : i \in 1..Len(f) /\ i # Len(f)
    <3>1. m \in 1..Len(f)
      BY Zenon, <2>2
    <3>2. Len(f) \in Nat
      BY Zenon, <1>1
    <3> QED
      BY <3>1, <3>2
  <2>4. \A i \in 1..(Len(f) - 1) : f[i] \in Command
    BY Zenon, <1>2, <2>3 DEF Replayable
  <2>5. SubSeq(f, 1, Len(f) - 1) \in Seq(Command)
    BY SMTT(30), <2>3, <2>4, PrefixOver
  <2> QED
    BY Zenon, <2>1, <2>3, <2>5
<1> QED
  BY Zenon, <1>3, <1>4

\* What a crash leaves is a prefix of the file, the synced file, or a prefix with debris.
LEMMA SurvivorKinds ==
  ASSUME NEW f \in Survivors
  PROVE  LET lo == IF SyncedFirst THEN Len(stable) ELSE 0
         IN  \/ \E n \in lo..Len(wal) : f = SubSeq(wal, 1, n)
             \/ f = stable
             \/ \E n \in lo..Len(wal), r \in Debris : f = Append(SubSeq(wal, 1, n), r)
<1> DEFINE lo == IF SyncedFirst THEN Len(stable) ELSE 0
           whole == {SubSeq(wal, 1, n) : n \in lo..Len(wal)}
           cut == {g \in whole : g # wal \/ job.phase = "append"}
<1>1. f \in whole \/ f = stable \/ f \in {Append(g, r) : g \in cut, r \in Debris}
  <2>1. Survivors = whole \cup {stable} \cup {Append(g, r) : g \in cut, r \in Debris}
    BY SMTT(40) DEF Survivors
  <2> HIDE DEF whole, cut
  <2> QED
    BY SMTT(40), <2>1
<1>2. f \in whole => \E n \in lo..Len(wal) : f = SubSeq(wal, 1, n)
  BY Zenon
<1>3. ASSUME f \in {Append(g, r) : g \in cut, r \in Debris}
      PROVE  \E n \in lo..Len(wal), r \in Debris : f = Append(SubSeq(wal, 1, n), r)
  <2>1. PICK g \in cut, r \in Debris : f = Append(g, r)
    <3> HIDE DEF whole, cut
    <3> QED
      BY SMTT(40), <1>3
  <2>2. PICK n \in lo..Len(wal) : g = SubSeq(wal, 1, n)
    BY Zenon, <2>1
  <2> QED
    BY Zenon, <2>1, <2>2
<1> HIDE DEF whole, cut
<1> QED
  BY SMTT(40), <1>1, <1>2, <1>3

\* What a crash leaves has the shape of a file.
LEMMA SurvivorShape ==
  ASSUME FileShape, NEW f \in Survivors
  PROVE  f \in Seq(Written) /\ Stamped(f) \in Seq(Written)
<1> DEFINE lo == IF SyncedFirst THEN Len(stable) ELSE 0
<1>1. wal \in Seq(Written) /\ stable \in Seq(Written) /\ <<>> \in Seq(Written)
  BY DEF FileShape
<1>2. lo \in Nat /\ Len(wal) \in Nat
  BY <1>1
<1> HIDE DEF lo
<1>3. \A n \in lo..Len(wal) : SubSeq(wal, 1, n) \in Seq(Written)
  <2>1. \A n \in lo..Len(wal) : n \in 0..Len(wal)
    BY <1>2
  <2> QED
    BY Zenon, <1>1, <2>1, PrefixFacts
<1>4. \A n \in lo..Len(wal), r \in Debris : Append(SubSeq(wal, 1, n), r) \in Seq(Written)
  <2>1. Debris \subseteq Written
    BY Zenon DEF Written
  <2> QED
    BY <1>3, <2>1
<1>5. f \in Seq(Written)
  BY Zenon, <1>1, <1>3, <1>4, SurvivorKinds DEF lo
<1> QED
  BY Zenon, <1>1, <1>5 DEF Stamped

\* Jobs that a section begins with, and the end of one.
LEMMA JobShapes ==
  ASSUME NEW cmds \in Seq(Command)
  PROVE  /\ Idle \in Job /\ Idle.n <= Len(Idle.cmds) /\ Idle.phase = "idle"
         /\ \A p \in {"idle", "append", "apply", "truncate", "save", "discard"} :
              /\ [phase |-> p, cmds |-> cmds, n |-> 0] \in Job
              /\ [phase |-> p, cmds |-> cmds, n |-> 0].n <= Len([phase |-> p, cmds |-> cmds, n |-> 0].cmds)
<1>1. <<>> \in Seq(Command) /\ Len(<<>>) = 0 /\ Len(cmds) \in Nat /\ 0 <= Len(cmds) /\ 0 <= 0
  OBVIOUS
<1> QED
  BY SMTT(30), <1>1 DEF Idle, Job

\* What memory can be after a failed write keeps its shape.
LEMMA PartlyShape ==
  ASSUME JobShape, possible \subseteq Data, NEW s \in possible
  PROVE  PartlyWritten(s) \subseteq Data
<1>1. job.cmds \in Seq(Command) /\ \A n \in 0..job.n : n \in 0..Len(job.cmds)
  BY DEF JobShape, Job
<1>2. \A n \in 0..job.n : SubSeq(job.cmds, 1, n) \in Seq(Command)
  BY Zenon, <1>1, PrefixFacts
<1>3. \A n \in 0..job.n : ApplyAll(s, SubSeq(job.cmds, 1, n), now) \in Data
  BY Zenon, <1>2, ReplayShape
<1> QED
  BY Zenon, <1>3 DEF PartlyWritten

\* The states that agree with an answer have the shape of the map.
LEMMA AnsweredShape ==
  ASSUME possible \subseteq Data, NEW c \in Command
  PROVE  Answered(c) \subseteq Data
<1>0. \A s \in possible : ApplyRecord(s, c, now) \in Data
  BY Zenon, RecordShape
<1>1. CASE c[1] = "cas"
  <2>1. Answered(c) = {MemPut(s, c[2], c[4]) :
            s \in {x \in possible : x[c[2]] # Absent /\ x[c[2]].Value = c[3]}}
    BY Zenon, <1>1 DEF Answered, Blind
  <2>2. c[2] \in Key /\ c[4] \in Text
    BY <1>1, CommandKinds
  <2> QED
    BY Zenon, <2>1, <2>2, MapShapes
<1>2. CASE c[1] # "cas" /\ Blind(c)
  <2>1. Answered(c) = {ApplyRecord(s, c, now) : s \in possible}
    BY Zenon, <1>2 DEF Answered, Blind
  <2> QED
    BY Zenon, <1>0, <2>1
<1>3. CASE c[1] # "cas" /\ ~Blind(c)
  <2>1. Answered(c) = {ApplyRecord(s, c, now) :
                      s \in {x \in possible : Outcome(x, c, now) = Outcome(mem, c, now)}}
    BY Zenon, <1>3 DEF Answered
  <2> QED
    BY Zenon, <1>0, <2>1
<1> QED
  BY Zenon, <1>1, <1>2, <1>3

\* A record of the job that is next to be written is a command.
LEMMA NextCommand ==
  ASSUME JobShape, job.n < Len(job.cmds)
  PROVE  /\ job.cmds[job.n + 1] \in Command
         /\ [job EXCEPT !.n = @ + 1] \in Job
         /\ [job EXCEPT !.n = @ + 1].n <= Len([job EXCEPT !.n = @ + 1].cmds)
         /\ [job EXCEPT !.n = @ + 1].phase = job.phase /\ [job EXCEPT !.n = @ + 1].cmds = job.cmds
<1>1. job.cmds \in Seq(Command) /\ job.n \in Nat /\ Len(job.cmds) \in Nat /\ job \in Job
  BY DEF JobShape, Job
<1>2. job.n + 1 \in 1..Len(job.cmds)
  BY <1>1
<1>3. job.cmds[job.n + 1] \in Command
  BY <1>1, <1>2
<1>4. /\ [job EXCEPT !.n = @ + 1] \in Job /\ [job EXCEPT !.n = @ + 1].n = job.n + 1
      /\ [job EXCEPT !.n = @ + 1].phase = job.phase /\ [job EXCEPT !.n = @ + 1].cmds = job.cmds
  BY <1>1 DEF Job
<1>5. job.n + 1 <= Len(job.cmds)
  BY <1>1
<1> QED
  BY Zenon, <1>3, <1>4, <1>5

\* The steps of batchLoop keep the shapes.
LEMMA LoopShapes ==
  ASSUME Shapes,
         \/ \E c \in Command : Collect(c) \/ WriteSingle(c)
         \/ WriteBatch \/ AppendRecord \/ Sync \/ WriteFails \/ ApplyToMemory
  PROVE  Shapes'
<1> USE DEF Shapes
<1>1. ASSUME NEW c \in Command, Collect(c) PROVE Shapes'
  <2>1. batch' = Append(batch, c) /\ Len(batch) < MaxBatch
        /\ UNCHANGED <<mem, wal, stable, snapshot, job, now, refused, possible>>
    BY Zenon, <1>1 DEF Collect
  <2>2. BatchShape'
    BY <2>1, DiskStoreAssumption DEF BatchShape
  <2> QED
    BY Zenon, <2>1, <2>2 DEF DataShape, FileShape, JobShape
<1>2. ASSUME NEW c \in Command, WriteSingle(c) PROVE Shapes'
  <2>1. /\ UNCHANGED <<wal, stable, snapshot, batch, now, refused, possible>>
        /\ \/ Begin("append", <<c>>) /\ UNCHANGED mem
           \/ mem' = DropDead(mem, c[2], now) /\ UNCHANGED job /\ ~Blind(c)
    BY Zenon, <1>2 DEF WriteSingle
  <2>2. CASE Begin("append", <<c>>) /\ UNCHANGED mem
    <3>1. <<c>> \in Seq(Command) /\ <<c>> # <<>>
      OBVIOUS
    <3>2. JobShape'
      BY Zenon, <2>2, <3>1, JobShapes DEF JobShape, Begin
    <3> QED
      BY Zenon, <2>1, <2>2, <3>2 DEF DataShape, FileShape, BatchShape
  <2>3. CASE mem' = DropDead(mem, c[2], now) /\ UNCHANGED job /\ ~Blind(c)
    <3>1. c[2] \in Key
      BY Zenon, <2>3, CommandKinds DEF Blind
    <3>2. mem' \in Data
      BY Zenon, <2>3, <3>1, MapShapes DEF DataShape
    <3> QED
      BY Zenon, <2>1, <2>3, <3>2 DEF DataShape, FileShape, BatchShape, JobShape
  <2> QED
    BY Zenon, <2>1, <2>2, <2>3
<1>3. CASE WriteBatch
  <2>1. /\ Begin("append", batch) /\ batch' = <<>> /\ batch # <<>>
        /\ UNCHANGED <<mem, wal, stable, snapshot, now, refused, possible>>
    BY Zenon, <1>3 DEF WriteBatch
  <2>2. JobShape'
    BY Zenon, <2>1, JobShapes DEF JobShape, Begin, BatchShape
  <2>3. BatchShape'
    BY <2>1, DiskStoreAssumption DEF BatchShape
  <2> QED
    BY Zenon, <2>1, <2>2, <2>3 DEF DataShape, FileShape
<1>4. CASE AppendRecord
  <2>1. /\ wal' = Append(wal, job.cmds[job.n + 1]) /\ job' = [job EXCEPT !.n = @ + 1]
        /\ job.n < Len(job.cmds)
        /\ UNCHANGED <<mem, stable, snapshot, batch, now, refused, possible>>
    BY Zenon, <1>4 DEF AppendRecord
  <2>2. job.cmds[job.n + 1] \in Written
    BY Zenon, <2>1, NextCommand DEF Written
  <2>3. wal' \in Seq(Written)
    BY <2>1, <2>2 DEF FileShape
  <2>4. JobShape'
    BY Zenon, <2>1, NextCommand DEF JobShape
  <2> QED
    BY Zenon, <2>1, <2>3, <2>4 DEF DataShape, FileShape, BatchShape
<1>5. CASE Sync
  <2>1. /\ stable' = wal /\ job' = [job EXCEPT !.phase = "apply"] /\ job.phase = "append"
        /\ UNCHANGED <<mem, wal, snapshot, batch, now, refused, possible>>
    BY Zenon, <1>5 DEF Sync
  <2>2. job' \in Job /\ job'.n = job.n /\ job'.cmds = job.cmds
    BY <2>1 DEF JobShape, Job
  <2> QED
    BY Zenon, <2>1, <2>2 DEF DataShape, FileShape, BatchShape, JobShape
<1>6. CASE WriteFails
  <2>1. /\ wal' = wal \/ \E r \in Debris : wal' = Append(wal, r)
        /\ job' = Idle /\ possible' = UNION {PartlyWritten(s) : s \in possible}
        /\ UNCHANGED <<mem, stable, snapshot, batch, now, refused>>
    BY Zenon, <1>6 DEF WriteFails
  <2>2. wal' \in Seq(Written)
    BY SMTT(40), <2>1 DEF FileShape, Written
  <2>3. possible' \subseteq Data
    BY Zenon, <2>1, PartlyShape DEF DataShape
  <2>4. JobShape'
    BY Zenon, <2>1, JobShapes DEF JobShape, BatchShape
  <2> QED
    BY Zenon, <2>1, <2>2, <2>3, <2>4 DEF DataShape, FileShape, BatchShape
<1>7. CASE ApplyToMemory
  <2>1. /\ mem' = ApplyInMemory(job.cmds) /\ job.phase = "apply" /\ job' = Idle
        /\ \/ Len(job.cmds) = 1 /\ possible' = Answered(job.cmds[1])
           \/ possible' = {ApplyAll(s, job.cmds, now) : s \in possible}
        /\ UNCHANGED <<wal, stable, snapshot, batch, now, refused>>
    BY Zenon, <1>7 DEF ApplyToMemory
  <2>2. job.cmds \in Seq(Command) /\ job.cmds # <<>>
    BY <2>1 DEF JobShape, Job
  <2>3. job.cmds[1] \in Command
    BY <2>2
  <2>4. mem' \in Data
    <3>1. CASE job.cmds[1][1] = "cas"
      <4>1. job.cmds[1][2] \in Key /\ job.cmds[1][4] \in Text
        BY <2>3, <3>1, CommandKinds
      <4> QED
        BY Zenon, <2>1, <3>1, <4>1, MapShapes DEF ApplyInMemory, DataShape
    <3>2. CASE job.cmds[1][1] # "cas"
      BY Zenon, <2>1, <2>2, <3>2, ReplayShape DEF ApplyInMemory, DataShape
    <3> QED
      BY Zenon, <3>1, <3>2
  <2>5. possible' \subseteq Data
    <3>1. Answered(job.cmds[1]) \subseteq Data
      BY Zenon, <2>3, AnsweredShape DEF DataShape
    <3>2. {ApplyAll(s, job.cmds, now) : s \in possible} \subseteq Data
      BY Zenon, <2>2, ReplayShape DEF DataShape
    <3> QED
      BY Zenon, <2>1, <3>1, <3>2
  <2>6. JobShape'
    BY Zenon, <2>1, <2>2, JobShapes DEF JobShape
  <2> QED
    BY Zenon, <2>1, <2>4, <2>5, <2>6 DEF DataShape, FileShape, BatchShape
<1> QED
  BY Zenon, <1>1, <1>2, <1>3, <1>4, <1>5, <1>6, <1>7

\* Compaction and restored snapshots keep the shapes.
LEMMA CompactionShapes ==
  ASSUME Shapes,
         \/ SaveSnapshot \/ SaveSnapshotFails \/ Truncate \/ TruncateFails
         \/ \E d \in Installable : RestoreSnapshot(d)
         \/ SaveRestored \/ SaveRestoredFails
  PROVE  Shapes'
<1> USE DEF Shapes
<1>0. <<>> \in Seq(Command) /\ <<>> \in Seq(Written) /\ <<Unstamped>> \in Seq(Written)
  BY DEF Written
<1>1. \/ job' = job \/ job' = Idle
      \/ \E p \in {"truncate", "save", "discard"} : job' = [phase |-> p, cmds |-> <<>>, n |-> 0]
  BY Zenon DEF SaveSnapshot, SaveSnapshotFails, Truncate, TruncateFails, RestoreSnapshot, SaveRestored,
    SaveRestoredFails, Begin
<1>2. JobShape'
  <2>1. CASE job' = job
    BY Zenon, <2>1 DEF JobShape
  <2>2. CASE job' = Idle
    BY Zenon, <1>0, <2>2, JobShapes DEF JobShape
  <2>3. ASSUME NEW p \in {"truncate", "save", "discard"}, job' = [phase |-> p, cmds |-> <<>>, n |-> 0]
        PROVE  JobShape'
    <3>1. p \in {"idle", "append", "apply", "truncate", "save", "discard"} /\ job'.phase = p
          /\ p \notin {"append", "apply"}
      BY Zenon, <2>3
    <3> QED
      BY Zenon, <1>0, <2>3, <3>1, JobShapes DEF JobShape
  <2> QED
    BY Zenon, <1>1, <2>1, <2>2, <2>3
<1>3. /\ mem' = mem \/ mem' \in Installable
      /\ snapshot' \in {snapshot, mem}
      /\ possible' = possible \/ possible' = {mem} \/ \E d \in Installable : possible' = possible \cup {d}
      /\ wal' \in {wal, <<>>, <<Unstamped>>} /\ stable' \in {stable, <<>>}
      /\ UNCHANGED <<batch, now, refused>>
  BY Zenon DEF SaveSnapshot, SaveSnapshotFails, Truncate, TruncateFails, RestoreSnapshot, SaveRestored,
    SaveRestoredFails
<1>4. DataShape'
  BY Zenon, <1>3, DiskStoreAssumption DEF DataShape
<1>5. FileShape'
  BY Zenon, <1>0, <1>3 DEF FileShape
<1> QED
  BY Zenon, <1>2, <1>3, <1>4, <1>5 DEF BatchShape

\* Time, expiry and a crash keep the shapes.
LEMMA OtherShapes ==
  ASSUME Shapes, Tick \/ ExpireLoop \/ (\E k \in Key : Get(k)) \/ CrashAndOpen
  PROVE  Shapes'
<1> USE DEF Shapes
<1>1. CASE Tick
  <2>1. now' = now + 1 /\ UNCHANGED <<mem, wal, stable, snapshot, batch, job, refused, possible>>
    BY Zenon, <1>1 DEF Tick, store
  <2>2. now' \in Nat
    BY <2>1
  <2> QED
    BY Zenon, <2>1, <2>2 DEF DataShape, FileShape, BatchShape, JobShape
<1>2. CASE ExpireLoop \/ \E k \in Key : Get(k)
  <2>1. /\ mem' = SweepExpired(mem, now) \/ \E k \in Key : mem' = DropDead(mem, k, now)
        /\ UNCHANGED <<wal, stable, snapshot, batch, job, now, refused, possible>>
    BY Zenon, <1>2 DEF ExpireLoop, Get
  <2>2. SweepExpired(mem, now) \in Data
    BY DEF SweepExpired, Data, DataShape
  <2>3. mem' \in Data
    BY Zenon, <2>1, <2>2, MapShapes DEF DataShape
  <2> QED
    BY Zenon, <2>1, <2>3 DEF DataShape, FileShape, BatchShape, JobShape
<1>3. CASE CrashAndOpen
  <2>1. /\ batch' = <<>> /\ job' = Idle /\ UNCHANGED <<snapshot, now>>
        /\ \E f \in Survivors :
             /\ wal' = Stamped(f) /\ stable' = Stamped(f)
             /\ \/ /\ Replayable(f) /\ mem' = Recover(snapshot, f, now)
                   /\ possible' = {mem'} /\ UNCHANGED refused
                \/ refused' = TRUE /\ UNCHANGED <<mem, possible>>
    BY Zenon, <1>3 DEF CrashAndOpen
  <2>2. PICK f \in Survivors :
             /\ wal' = Stamped(f) /\ stable' = Stamped(f)
             /\ \/ /\ Replayable(f) /\ mem' = Recover(snapshot, f, now)
                   /\ possible' = {mem'} /\ UNCHANGED refused
                \/ refused' = TRUE /\ UNCHANGED <<mem, possible>>
    BY Zenon, <2>1
  <2>3. f \in Seq(Written) /\ FileShape'
    BY Zenon, <2>2, SurvivorShape DEF FileShape
  <2>4. Replayable(f) => Recover(snapshot, f, now) \in Data
    BY Zenon, <2>3, RecordsFacts, ReplayShape DEF Recover, DataShape
  <2>5. DataShape' /\ refused' \in BOOLEAN
    BY Zenon, <2>1, <2>2, <2>4 DEF DataShape
  <2>6. BatchShape' /\ <<>> \in Seq(Command)
    BY <2>1, DiskStoreAssumption DEF BatchShape
  <2>7. JobShape'
    BY Zenon, <2>1, <2>6, JobShapes DEF JobShape
  <2> QED
    BY Zenon, <2>1, <2>3, <2>5, <2>6, <2>7
<1> QED
  BY Zenon, <1>1, <1>2, <1>3

\* The shapes hold in every state.
LEMMA ShapesInvariant == Spec => []Shapes
<1>1. Init => Shapes
  <2> SUFFICES ASSUME Init PROVE Shapes
    OBVIOUS
  <2>1. NewMemStore \in Data
    BY DEF NewMemStore, Data
  <2>2. <<>> \in Seq(Command) /\ <<>> \in Seq(Written) /\ Len(<<>>) <= MaxBatch /\ 1 \in Nat
    BY DiskStoreAssumption
  <2>3. JobShape
    BY Zenon, <2>2, JobShapes DEF Init, JobShape
  <2> QED
    BY Zenon, <2>1, <2>2, <2>3 DEF Init, Shapes, DataShape, FileShape, BatchShape
<1>2. Shapes /\ [Next]_vars => Shapes'
  <2>1. ASSUME Shapes, UNCHANGED vars PROVE Shapes'
    BY Zenon, <2>1 DEF vars, store, Shapes, DataShape, FileShape, BatchShape, JobShape
  <2>2. ASSUME Shapes, Next PROVE Shapes'
    BY ZenonT(30), <2>2, LoopShapes, CompactionShapes, OtherShapes DEF Next
  <2> QED
    BY Zenon, <2>1, <2>2
<1> QED
  BY <1>1, <1>2, PTL DEF Spec

\* Through every write section, compaction, restore, failure, crash and open, the maps,
\* the files, the batch and the section in progress keep their shapes, and the batch
\* stays within maxBatchSize.
THEOREM DiskShapesAreKept == Spec => []TypeOK
<1>1. Shapes => TypeOK
  BY Zenon DEF Shapes, DataShape, FileShape, BatchShape, JobShape, Written, TypeOK
<1> QED
  BY <1>1, ShapesInvariant, PTL

(***************************************************************************)
(* Logs that stay readable                                                 *)
(***************************************************************************)

\* In a plain log an append leaves whole records or a torn one, and the store does not
\* open on the latter.
PlainInv ==
  /\ wal \in Seq(Command \cup {Torn}) /\ stable \in Seq(Command \cup {Torn})
  /\ Working /\ faults = 0 => wal \in Seq(Command)

\* A plain file that can be replayed has nothing but commands.
LEMMA PlainReplayable ==
  ASSUME NEW f \in Seq(Command \cup {Torn})
  PROVE  Replayable(f) <=> f \in Seq(Command)
<1>1. \A n \in 1..Len(f) : f[n] \in Command \/ f[n] = Torn
  OBVIOUS
<1>2. \A c \in Command : IsRecord(c) /\ c # Torn
  BY Zenon, CommandsAreRecords DEF IsRecord
<1>3. ~IsRecord(Torn)
  BY Zenon DEF IsRecord
<1>4. ASSUME Replayable(f) PROVE f \in Seq(Command)
  <2>1. \A n \in 1..Len(f) : f[n] \in Command
    BY Zenon, <1>1, <1>3, <1>4 DEF Replayable
  <2> QED
    BY <2>1
<1>5. ASSUME f \in Seq(Command) PROVE Replayable(f)
  <2>1. \A n \in 1..Len(f) : f[n] \in Command
    BY <1>5
  <2> QED
    BY Zenon, <1>2, <2>1 DEF Replayable
<1> QED
  BY Zenon, <1>4, <1>5

\* The steps in which no file operation fails.
Succeeds ==
  \/ \E c \in Command : Collect(c) \/ WriteSingle(c)
  \/ WriteBatch \/ AppendRecord \/ Sync \/ ApplyToMemory
  \/ SaveSnapshot \/ Truncate \/ (\E d \in Installable : RestoreSnapshot(d)) \/ SaveRestored
  \/ Tick \/ ExpireLoop \/ (\E k \in Key : Get(k)) \/ CrashAndOpen

\* Failures are counted.
LEMMA FaultSteps ==
  ASSUME faults \in Nat, Next
  PROVE  faults' \in Nat /\ (faults' = 0 => faults = 0 /\ Succeeds)
<1>1. CASE Succeeds
  <2>1. faults' = faults
    BY Zenon, <1>1 DEF Succeeds, Collect, WriteSingle, WriteBatch, AppendRecord, Sync, ApplyToMemory,
      SaveSnapshot, Truncate, RestoreSnapshot, SaveRestored, Tick, ExpireLoop, Get, CrashAndOpen, counts
  <2> QED
    BY Zenon, <1>1, <2>1
<1>2. CASE WriteFails \/ SaveSnapshotFails \/ TruncateFails \/ SaveRestoredFails
  <2>1. faults' = faults + 1
    BY Zenon, <1>2 DEF WriteFails, SaveSnapshotFails, TruncateFails, SaveRestoredFails
  <2> QED
    BY <2>1
<1> QED
  BY Zenon, <1>1, <1>2 DEF Next, Succeeds

\* Every step keeps a plain log readable.
LEMMA PlainStep ==
  ASSUME ~Encrypted, Shapes, PlainInv, faults \in Nat, Next
  PROVE  PlainInv'
<1>0. /\ wal \in Seq(Command \cup {Torn}) /\ stable \in Seq(Command \cup {Torn})
      /\ Debris = {Torn} /\ JobShape
      /\ Working /\ faults = 0 => wal \in Seq(Command)
  BY Zenon DEF PlainInv, Debris, Shapes
<1>1. faults' \in Nat /\ (faults' = 0 => faults = 0 /\ Succeeds)
  BY Zenon, FaultSteps
<1>2. CASE CrashAndOpen
  <2>1. PICK f \in Survivors :
             /\ wal' = Stamped(f) /\ stable' = Stamped(f)
             /\ refused' \/ Replayable(f)
    BY Zenon, <1>2 DEF CrashAndOpen
  <2>2. f \in Seq(Command \cup {Torn})
    <3> DEFINE lo == IF SyncedFirst THEN Len(stable) ELSE 0
    <3>1. lo \in Nat /\ Len(wal) \in Nat
      BY <1>0
    <3> HIDE DEF lo
    <3>2. \A n \in lo..Len(wal) : n \in 0..Len(wal)
      BY <3>1
    <3>3. \A n \in lo..Len(wal) : SubSeq(wal, 1, n) \in Seq(Command \cup {Torn})
      BY Zenon, <1>0, <3>2, PrefixFacts
    <3>4. \A n \in lo..Len(wal) : Append(SubSeq(wal, 1, n), Torn) \in Seq(Command \cup {Torn})
      BY <3>3
    <3> QED
      BY ZenonT(40), <1>0, <3>3, <3>4, SurvivorKinds DEF lo
  <2>3. Stamped(f) \in {f, <<>>} /\ <<>> \in Seq(Command) /\ <<>> \in Seq(Command \cup {Torn})
    BY DEF Stamped
  <2>4. Replayable(f) => f \in Seq(Command)
    BY Zenon, <2>2, PlainReplayable
  <2> QED
    BY Zenon, <2>1, <2>2, <2>3, <2>4 DEF PlainInv, Working
<1>3. CASE WriteFails
  <2>1. faults' # 0
    <3>1. faults' = faults + 1
      BY Zenon, <1>3 DEF WriteFails
    <3> QED
      BY <3>1
  <2>2. wal' \in {wal, Append(wal, Torn)} /\ stable' = stable
    BY Zenon, <1>0, <1>3 DEF WriteFails
  <2>3. Append(wal, Torn) \in Seq(Command \cup {Torn})
    BY <1>0
  <2> QED
    BY Zenon, <1>0, <2>1, <2>2, <2>3 DEF PlainInv
<1>4. CASE AppendRecord
  <2>1. wal' = Append(wal, job.cmds[job.n + 1]) /\ stable' = stable /\ refused' = refused /\ faults' = faults
    BY Zenon, <1>4 DEF AppendRecord, counts
  <2>2. job.cmds[job.n + 1] \in Command
    BY Zenon, <1>0, <1>4, NextCommand DEF AppendRecord
  <2>3. /\ wal' \in Seq(Command \cup {Torn})
        /\ wal \in Seq(Command) => wal' \in Seq(Command)
    BY <1>0, <2>1, <2>2
  <2> QED
    BY Zenon, <1>0, <2>1, <2>3 DEF PlainInv, Working
<1>5. CASE /\ wal' \in {wal, <<>>} /\ stable' \in {stable, wal, <<>>} /\ refused' = refused
  <2>1. <<>> \in Seq(Command) /\ <<>> \in Seq(Command \cup {Torn})
    OBVIOUS
  <2> QED
    BY Zenon, <1>0, <1>1, <1>5, <2>1 DEF PlainInv, Working
<1>6. \/ CrashAndOpen \/ WriteFails \/ AppendRecord
      \/ wal' \in {wal, <<>>} /\ stable' \in {stable, wal, <<>>} /\ refused' = refused
  BY ZenonT(30) DEF Next, Collect, WriteSingle, WriteBatch, Sync, ApplyToMemory, SaveSnapshot,
    SaveSnapshotFails, Truncate, TruncateFails, RestoreSnapshot, SaveRestored, SaveRestoredFails,
    Tick, ExpireLoop, Get, store
<1> QED
  BY Zenon, <1>2, <1>3, <1>4, <1>5, <1>6

\* The failures so far are a number.
LEMMA FaultsCounted == Spec => [](faults \in Nat)
<1>1. Init => faults \in Nat
  BY DEF Init
<1>2. faults \in Nat /\ [Next]_vars => (faults \in Nat)'
  BY Zenon, FaultSteps DEF vars, counts
<1> QED
  BY <1>1, <1>2, PTL DEF Spec

\* A plain log of a store that is open can be replayed, as long as no file operation
\* failed: whatever was crashed and compacted before, replayPlain comes to its end.
THEOREM PlainLogsStayReadable == ~Encrypted => (Spec => []LogStaysReadable)
<1> SUFFICES ASSUME ~Encrypted PROVE Spec => []LogStaysReadable
  OBVIOUS
<1>1. Init => PlainInv
  <2>1. <<>> \in Seq(Command) /\ <<>> \in Seq(Command \cup {Torn})
    OBVIOUS
  <2> QED
    BY Zenon, <2>1 DEF Init, PlainInv
<1>2. Shapes /\ faults \in Nat /\ PlainInv /\ [Next]_vars => PlainInv'
  <2>1. ASSUME PlainInv, UNCHANGED vars PROVE PlainInv'
    BY Zenon, <2>1 DEF vars, store, counts, PlainInv, Working
  <2> QED
    BY Zenon, <2>1, PlainStep
<1>3. PlainInv => LogStaysReadable
  BY Zenon, PlainReplayable DEF PlainInv, LogStaysReadable
<1> QED
  BY <1>1, <1>2, <1>3, ShapesInvariant, FaultsCounted, PTL DEF Spec

(***************************************************************************)
(* Files between write sections                                            *)
(***************************************************************************)

\* The end of the log is what the section in progress has written of its commands; the
\* commands of a batch do not look at the state.
TailInv ==
  /\ job.n <= Len(wal)
  /\ \A i \in 1..job.n : wal[Len(wal) - job.n + i] = job.cmds[i]
  /\ job.phase = "apply" => job.n = Len(job.cmds)
  /\ job.phase \notin {"append", "apply"} => job.n = 0 /\ job.cmds = <<>>
  /\ \A i \in 1..Len(batch) : Blind(batch[i])

\* The log before the section in progress.
Before == SubSeq(wal, 1, Len(wal) - job.n)

\* A section that has written nothing holds no part of the log.
LEMMA NothingWritten ==
  ASSUME FileShape', job'.n = 0
  PROVE  /\ job'.n <= Len(wal') /\ \A i \in 1..job'.n : wal'[Len(wal') - job'.n + i] = job'.cmds[i]
         /\ Before' = wal'
<1>1. Len(wal') \in Nat /\ Len(wal') - 0 = Len(wal') /\ 1..0 = {} /\ 0 <= Len(wal')
      /\ SubSeq(wal', 1, Len(wal')) = wal'
  BY DEF FileShape
<1> QED
  BY Zenon, <1>1 DEF Before

\* Writing the next record of a section.
LEMMA RecordWritten ==
  ASSUME FileShape, JobShape, TailInv, AppendRecord
  PROVE  /\ job'.n = job.n + 1 /\ job'.cmds = job.cmds /\ job'.phase = "append"
         /\ Before' = Before
         /\ TailInv'
<1>1. /\ wal' = Append(wal, job.cmds[job.n + 1]) /\ job' = [job EXCEPT !.n = @ + 1]
      /\ job.n < Len(job.cmds) /\ job.phase = "append" /\ batch' = batch
  BY Zenon DEF AppendRecord
<1>2. job'.n = job.n + 1 /\ job'.cmds = job.cmds /\ job'.phase = "append" /\ job.n \in Nat
  BY <1>1 DEF JobShape, Job
<1>3. /\ Len(wal) \in Nat /\ Len(wal') = Len(wal) + 1 /\ wal'[Len(wal) + 1] = job.cmds[job.n + 1]
      /\ \A i \in 1..Len(wal) : wal'[i] = wal[i]
  BY <1>1 DEF FileShape
<1>4. job.n <= Len(wal) /\ \A i \in 1..job.n : wal[Len(wal) - job.n + i] = job.cmds[i]
  BY Zenon DEF TailInv
<1>5. Len(wal') - job'.n = Len(wal) - job.n /\ job'.n <= Len(wal')
  <2>1. /\ Len(wal) \in Nat /\ Len(wal') = Len(wal) + 1 /\ job.n \in Nat /\ job'.n = job.n + 1
        /\ job.n <= Len(wal)
    BY Zenon, <1>2, <1>3, <1>4
  <2> QED
    BY <2>1
<1>6. ASSUME NEW i \in 1..job'.n PROVE wal'[Len(wal') - job'.n + i] = job'.cmds[i]
  <2>1. CASE i = job.n + 1
    <3>1. Len(wal) - job.n + i = Len(wal) + 1
      BY <1>2, <1>3, <2>1
    <3> QED
      BY Zenon, <1>2, <1>3, <1>5, <2>1, <3>1
  <2>2. CASE i # job.n + 1
    <3>1. i \in 1..job.n /\ Len(wal) - job.n + i \in 1..Len(wal)
      BY <1>2, <1>3, <1>4, <2>2
    <3> QED
      BY Zenon, <1>2, <1>3, <1>4, <1>5, <3>1
  <2> QED
    BY Zenon, <2>1, <2>2
<1>7. Before' = Before
  <2>1. SubSeq(wal', 1, Len(wal) - job.n) = SubSeq(wal, 1, Len(wal) - job.n)
    <3> DEFINE m == Len(wal) - job.n
    <3>1. m \in 0..Len(wal)
      BY <1>2, <1>3, <1>4
    <3> HIDE DEF m
    <3>2. SubSeq(wal', 1, m) = SubSeq(wal, 1, m)
      BY <1>1, <1>3, <3>1 DEF FileShape
    <3> QED
      BY Zenon, <3>2 DEF m
  <2> QED
    BY Zenon, <1>5, <2>1 DEF Before
<1>8. TailInv'
  BY Zenon, <1>1, <1>2, <1>5, <1>6 DEF TailInv
<1> QED
  BY Zenon, <1>2, <1>7, <1>8

\* Every step keeps it.
LEMMA TailStep ==
  ASSUME Shapes, Shapes', TailInv, Next
  PROVE  TailInv'
<1>0. FileShape /\ FileShape' /\ JobShape /\ BatchShape
  BY Zenon DEF Shapes
<1>1. CASE AppendRecord
  BY Zenon, <1>0, <1>1, RecordWritten
<1>2. CASE job' = Idle /\ batch' \in {batch, <<>>}
  <2>1. job'.n = 0 /\ job'.cmds = <<>> /\ job'.phase = "idle" /\ Len(<<>>) = 0 /\ 1..0 = {}
    BY <1>2 DEF Idle
  <2>2. \A i \in 1..Len(batch') : Blind(batch'[i])
    BY Zenon, <1>2, <2>1 DEF TailInv
  <2> QED
    BY Zenon, <1>0, <2>1, <2>2, NothingWritten DEF TailInv
<1>3. ASSUME NEW p \in {"truncate", "save", "discard"}, Begin(p, <<>>), batch' = batch
      PROVE  TailInv'
  <2>1. job'.n = 0 /\ job'.cmds = <<>> /\ job'.phase = p /\ p \notin {"append", "apply"} /\ p # "apply"
    BY Zenon, <1>3 DEF Begin
  <2> QED
    BY Zenon, <1>0, <1>3, <2>1, NothingWritten DEF TailInv
<1>4. ASSUME NEW cmds, Begin("append", cmds), batch' \in {batch, <<>>} PROVE TailInv'
  <2>1. job'.n = 0 /\ job'.phase = "append" /\ Len(<<>>) = 0 /\ 1..0 = {}
    BY <1>4 DEF Begin
  <2>2. \A i \in 1..Len(batch') : Blind(batch'[i])
    BY Zenon, <1>4, <2>1 DEF TailInv
  <2> QED
    BY Zenon, <1>0, <2>1, <2>2, NothingWritten DEF TailInv
<1>5. CASE Sync
  <2>1. job' = [job EXCEPT !.phase = "apply"] /\ job.n = Len(job.cmds) /\ UNCHANGED <<wal, batch>>
    BY Zenon, <1>5 DEF Sync
  <2>2. job'.phase = "apply" /\ job'.n = job.n /\ job'.cmds = job.cmds
    BY <1>0, <2>1 DEF JobShape, Job
  <2> QED
    BY Zenon, <2>1, <2>2 DEF TailInv
<1>6. ASSUME NEW c \in Command, Collect(c) PROVE TailInv'
  <2>1. batch' = Append(batch, c) /\ Blind(c) /\ UNCHANGED <<wal, job>>
    BY Zenon, <1>6 DEF Collect
  <2>2. \A i \in 1..Len(batch') : batch'[i] = c \/ (i \in 1..Len(batch) /\ batch'[i] = batch[i])
    BY <1>0, <2>1 DEF BatchShape
  <2>3. \A i \in 1..Len(batch') : Blind(batch'[i])
    BY Zenon, <2>1, <2>2 DEF TailInv
  <2> QED
    BY Zenon, <2>1, <2>3 DEF TailInv
<1>7. CASE UNCHANGED <<wal, job, batch>>
  BY Zenon, <1>7 DEF TailInv
<1>8. ASSUME NEW c \in Command, WriteSingle(c) PROVE TailInv'
  BY Zenon, <1>4, <1>7, <1>8 DEF WriteSingle
<1> QED
  BY ZenonT(60), <1>1, <1>2, <1>3, <1>4, <1>5, <1>6, <1>7, <1>8
    DEF Next, WriteBatch, WriteFails, ApplyToMemory, SaveSnapshot, SaveSnapshotFails,
        Truncate, TruncateFails, RestoreSnapshot, SaveRestored, SaveRestoredFails, Tick, ExpireLoop,
        Get, store, CrashAndOpen

\* It holds in every state.
LEMMA TailInvariant == Spec => []TailInv
<1>1. Init => TailInv
  BY DEF Init, TailInv, Idle
<1>2. Shapes /\ Shapes' /\ TailInv /\ [Next]_vars => TailInv'
  <2>1. ASSUME TailInv, UNCHANGED vars PROVE TailInv'
    BY Zenon, <2>1 DEF vars, store, TailInv
  <2> QED
    BY Zenon, <2>1, TailStep
<1> QED
  BY <1>1, <1>2, ShapesInvariant, PTL DEF Spec

\* A file that can be replayed has records alone before its last place, and its prefixes
\* can be replayed too.
LEMMA ReplayablePrefix ==
  ASSUME NEW f \in Seq(Written), Replayable(f), NEW n \in 0..Len(f)
  PROVE  /\ Replayable(SubSeq(f, 1, n))
         /\ n < Len(f) \/ (Len(f) \in 1..Len(f) => IsRecord(f[Len(f)]))
              => /\ Records(SubSeq(f, 1, n)) = SubSeq(f, 1, n)
                 /\ SubSeq(f, 1, n) \in Seq(Command)
<1> DEFINE g == SubSeq(f, 1, n)
<1>1. /\ g \in Seq(Written) /\ Len(g) = n /\ \A i \in 1..n : g[i] = f[i]
      /\ Len(f) \in Nat /\ n \in Nat /\ \A i \in 1..n : i \in 1..Len(f)
  <2>1. Len(f) \in Nat /\ n \in Nat /\ \A i \in 1..n : i \in 1..Len(f)
    OBVIOUS
  <2> QED
    BY Zenon, <2>1, PrefixFacts
<1>2. \A i \in 1..n : IsRecord(f[i]) \/ (f[i] # Torn /\ i = Len(f))
  BY Zenon, <1>1 DEF Replayable
<1>4. \A i \in 1..n : i = Len(f) => i = n
  OBVIOUS
<1>5. Replayable(g)
  BY Zenon, <1>1, <1>2, <1>4 DEF Replayable
<1>6. ASSUME n < Len(f) \/ (Len(f) \in 1..Len(f) => IsRecord(f[Len(f)]))
      PROVE  Records(g) = g /\ g \in Seq(Command)
  <2>1. n < Len(f) => \A i \in 1..n : i # Len(f)
    BY <1>1
  <2>2. \A i \in 1..n : IsRecord(f[i])
    BY Zenon, <1>1, <1>2, <1>6, <2>1
  <2>3. Records(g) = g
    BY Zenon, <1>1, <2>2 DEF Records
  <2> QED
    BY Zenon, <1>1, <1>5, <2>3, RecordsFacts
<1> QED
  BY Zenon, <1>5, <1>6

\* Replaying the log with the first records of a section is replaying what was before the
\* section and then those records.
LEMMA SectionJoined ==
  ASSUME FileShape, JobShape, TailInv, NEW d, NEW t, NEW m \in 0..job.n
  PROVE  ApplyAll(d, SubSeq(wal, 1, Len(wal) - job.n + m), t)
           = ApplyAll(ApplyAll(d, Before, t), SubSeq(job.cmds, 1, m), t)
<1> DEFINE b == Len(wal) - job.n
           e == ApplyAll(d, SubSeq(wal, 1, b), t)
           T == {i \in Nat : ApplyAll(d, SubSeq(wal, 1, b + i), t) = ApplyAll(e, SubSeq(job.cmds, 1, i), t)}
<1>0. /\ wal \in Seq(Written) /\ job.cmds \in Seq(Command) /\ job.n \in Nat /\ job.n <= Len(job.cmds)
      /\ Len(wal) \in Nat /\ Len(job.cmds) \in Nat
  BY DEF FileShape, JobShape, Job
<1>1. job.n <= Len(wal) /\ \A i \in 1..job.n : wal[b + i] = job.cmds[i]
  BY Zenon DEF TailInv
<1>2. b \in Nat /\ b + job.n = Len(wal)
  BY <1>0, <1>1
<1> HIDE DEF b
<1>3. 0 \in T
  <2>1. b + 0 = b /\ 0 \in Nat /\ SubSeq(job.cmds, 1, 0) = <<>>
    BY <1>0, <1>2
  <2> QED
    BY Zenon, <2>1, ApplyNone
<1>4. ASSUME NEW i \in 1..job.n, i - 1 \in T PROVE i \in T
  <2> DEFINE j == b + i
  <2>1. /\ i \in Nat /\ i \in 1..Len(job.cmds) /\ j \in 1..Len(wal)
        /\ j - 1 = b + (i - 1) /\ j = b + i
    BY <1>0, <1>2
  <2> HIDE DEF j
  <2>2. ApplyAll(d, SubSeq(wal, 1, j), t)
          = ApplyRecord(ApplyAll(d, SubSeq(wal, 1, j - 1), t), wal[j], t)
    BY SMTT(30), <1>0, <2>1, ApplyPrefix
  <2>3. ApplyAll(e, SubSeq(job.cmds, 1, i), t)
          = ApplyRecord(ApplyAll(e, SubSeq(job.cmds, 1, i - 1), t), job.cmds[i], t)
    BY SMTT(30), <1>0, <2>1, ApplyPrefix
  <2> HIDE DEF e
  <2> QED
    BY Zenon, <1>1, <1>4, <2>1, <2>2, <2>3
<1>5. 0..job.n \subseteq T
  <2> HIDE DEF T
  <2> QED
    BY Zenon, <1>0, <1>3, <1>4, UpTo
<1> QED
  BY Zenon, <1>5 DEF b, Before

\* Replaying a section that wrote its first m records, or less of the file: the log before
\* the section and then those records.
LEMMA SectionReplay ==
  ASSUME FileShape, JobShape, TailInv, NEW m \in 0..job.n, NEW d, NEW t,
         Replayable(SubSeq(wal, 1, Len(wal) - job.n + m))
  PROVE  /\ Replayable(Before)
         /\ m > 0 => /\ Records(SubSeq(wal, 1, Len(wal) - job.n + m)) = SubSeq(wal, 1, Len(wal) - job.n + m)
                     /\ Records(Before) = Before
         /\ Recover(d, SubSeq(wal, 1, Len(wal) - job.n + m), t)
              = ApplyAll(Recover(d, Before, t), SubSeq(job.cmds, 1, m), t)
<1> DEFINE b == Len(wal) - job.n
           j == b + m
           f == SubSeq(wal, 1, j)
<1>1. /\ wal \in Seq(Written) /\ job.cmds \in Seq(Command) /\ job.n \in Nat /\ job.n <= Len(job.cmds)
      /\ Len(wal) \in Nat /\ Len(job.cmds) \in Nat
  BY DEF FileShape, JobShape, Job
<1>2. job.n <= Len(wal) /\ \A i \in 1..job.n : wal[Len(wal) - job.n + i] = job.cmds[i]
  BY Zenon DEF TailInv
<1>3. b \in Nat /\ j \in 0..Len(wal) /\ b \in 0..j /\ m \in Nat /\ m <= Len(job.cmds)
      /\ (\A i \in 1..m : i \in 1..job.n) /\ b + m = j
  BY <1>1, <1>2
<1>4. \A i \in 1..m : wal[b + i] = job.cmds[i]
  BY Zenon, <1>2, <1>3
<1> HIDE DEF b, j
<1>5. f \in Seq(Written) /\ Len(f) = j /\ \A i \in 1..j : f[i] = wal[i]
  BY Zenon, <1>1, <1>3, PrefixFacts
<1>6. SubSeq(f, 1, b) = Before
  <2>1. SubSeq(f, 1, b) = SubSeq(wal, 1, b)
    BY <1>1, <1>3
  <2> QED
    BY Zenon, <2>1 DEF Before, b
<1>7. Replayable(f)
  BY Zenon DEF f, j, b
<1>8. Replayable(Before)
  BY Zenon, <1>3, <1>5, <1>6, <1>7, ReplayablePrefix
<1>9. CASE m = 0
  <2>1. j = b /\ SubSeq(job.cmds, 1, 0) = <<>>
    BY <1>1, <1>3, <1>9
  <2>2. f = Before
    BY Zenon, <2>1 DEF Before, b
  <2>3. ~(m > 0)
    BY <1>9
  <2> QED
    BY Zenon, <1>8, <1>9, <2>1, <2>2, <2>3, ApplyNone DEF f, j, b
<1>10. CASE m # 0
  <2>1. b < j /\ j \in 1..j /\ m \in 1..m /\ m \in 1..Len(job.cmds)
    BY <1>1, <1>3, <1>10
  <2>2. f[j] = job.cmds[m]
    BY Zenon, <1>3, <1>4, <1>5, <2>1
  <2>3. IsRecord(f[Len(f)])
    <3>1. job.cmds[m] \in Command
      BY <1>1, <2>1
    <3> QED
      BY Zenon, <1>5, <2>2, <3>1, CommandsAreRecords
  <2>4. Records(Before) = Before /\ Before \in Seq(Command)
    BY Zenon, <1>3, <1>5, <1>6, <1>7, <2>1, ReplayablePrefix
  <2>5. Records(f) = f
    <3>1. SubSeq(f, 1, Len(f)) = f /\ Len(f) \in 0..Len(f)
      BY <1>3, <1>5
    <3> QED
      BY Zenon, <1>5, <1>7, <2>3, <3>1, ReplayablePrefix
  <2>7. ApplyAll(d, f, t) = ApplyAll(ApplyAll(d, Before, t), SubSeq(job.cmds, 1, m), t)
    BY Zenon, SectionJoined DEF f, j, b
  <2>8. Recover(d, f, t) = ApplyAll(Recover(d, Before, t), SubSeq(job.cmds, 1, m), t)
    BY Zenon, <2>4, <2>5, <2>7 DEF Recover
  <2> QED
    BY Zenon, <1>8, <2>4, <2>5, <2>8 DEF f, j, b
<1> QED
  BY Zenon, <1>9, <1>10

(***************************************************************************)
(* What readers saw, without deadlines                                     *)
(***************************************************************************)
NoDeadlines(d) == \A k \in Key : d[k] # Absent => d[k].Exp = 0

\* Nobody sets a deadline, here or at the leader whose states are installed.
Timeless ==
  /\ \A c \in Command : c[1] # "expire"
  /\ \A d \in Installable : NoDeadlines(d)

\* Without deadlines nothing expires.
LEMMA NothingExpires ==
  ASSUME NEW d \in Data, NoDeadlines(d), NEW t
  PROVE  /\ \A k \in Key : (Live(d, k, t) <=> d[k] # Absent) /\ DropDead(d, k, t) = d
         /\ SweepExpired(d, t) = d
<1>1. \A k \in Key : ~(d[k] # Absent /\ EntryExpired(d[k], t))
  BY Zenon DEF NoDeadlines, EntryExpired
<1>2. \A k \in Key : (Live(d, k, t) <=> d[k] # Absent) /\ DropDead(d, k, t) = d
  BY Zenon, <1>1 DEF Live, DropDead
<1>3. SweepExpired(d, t) = [k \in Key |-> d[k]]
  BY Zenon, <1>1 DEF SweepExpired
<1>4. d = [k \in Key |-> d[k]]
  BY DEF Data
<1> QED
  BY Zenon, <1>2, <1>3, <1>4

\* A map without deadlines gets none by a put or a delete.
LEMMA PutsSetNone ==
  ASSUME NEW d \in Data, NoDeadlines(d), NEW k \in Key, NEW v
  PROVE  NoDeadlines(MemPut(d, k, v)) /\ NoDeadlines(MemDelete(d, k)) /\ NoDeadlines(NewMemStore)
<1>1. d \in [Key -> Entry \cup {Absent}]
  BY Zenon DEF Data
<1>2. \A y \in Key : MemDelete(d, k)[y] = IF y = k THEN Absent ELSE d[y]
  BY Zenon, <1>1 DEF MemDelete
<1>3. \A y \in Key : MemPut(d, k, v)[y] = IF y = k THEN [Value |-> v, Exp |-> 0] ELSE d[y]
  BY Zenon, <1>1 DEF MemPut
<1>4. [Value |-> v, Exp |-> 0].Exp = 0
  OBVIOUS
<1>5. NoDeadlines(MemPut(d, k, v))
  BY Zenon, <1>3, <1>4 DEF NoDeadlines
<1>6. NoDeadlines(MemDelete(d, k))
  BY Zenon, <1>2 DEF NoDeadlines
<1>7. NoDeadlines(NewMemStore)
  BY Zenon DEF NoDeadlines, NewMemStore
<1> QED
  BY Zenon, <1>5, <1>6, <1>7

\* Then a record has the same effect at every time.
LEMMA TimelessRecord ==
  ASSUME NEW d \in Data, NoDeadlines(d), NEW c \in Command, c[1] # "expire", NEW t, NEW u
  PROVE  ApplyRecord(d, c, t) = ApplyRecord(d, c, u) /\ NoDeadlines(ApplyRecord(d, c, t))
<1>0. \A k \in Key : /\ (Live(d, k, t) <=> Live(d, k, u)) /\ DropDead(d, k, t) = d /\ DropDead(d, k, u) = d
                     /\ \A v : NoDeadlines(MemPut(d, k, v)) /\ NoDeadlines(MemDelete(d, k))
  BY Zenon, NothingExpires, PutsSetNone
<1>1. CASE c[1] = "clear"
  <2>1. ApplyRecord(d, c, t) = NewMemStore /\ ApplyRecord(d, c, u) = NewMemStore
    BY <1>1 DEF ApplyRecord
  <2> QED
    BY Zenon, <2>1 DEF NoDeadlines, NewMemStore
<1>2. CASE c[1] = "delete" /\ c[2] \in Key
  <2>1. ApplyRecord(d, c, t) = MemDelete(d, c[2]) /\ ApplyRecord(d, c, u) = MemDelete(d, c[2])
    BY <1>2 DEF ApplyRecord
  <2> QED
    BY Zenon, <1>0, <1>2, <2>1
<1>3. CASE c[1] = "incr" /\ c[2] \in Key
  <2>1. ApplyRecord(d, c, t) = MemIncr(d, c[2], t) /\ ApplyRecord(d, c, u) = MemIncr(d, c[2], u)
    BY <1>3 DEF ApplyRecord
  <2>2. CanIncr(d, c[2], t) <=> CanIncr(d, c[2], u)
    BY Zenon, <1>0, <1>3 DEF CanIncr
  <2>3. MemIncr(d, c[2], t) = MemIncr(d, c[2], u)
    BY Zenon, <1>0, <1>3, <2>2 DEF MemIncr
  <2>4. NoDeadlines(MemIncr(d, c[2], t))
    BY Zenon, <1>0, <1>3 DEF MemIncr
  <2> QED
    BY Zenon, <2>1, <2>3, <2>4
<1>4. CASE c[1] = "put" /\ c[2] \in Key /\ c[3] \in Text
  <2>1. ApplyRecord(d, c, t) = MemPut(d, c[2], c[3]) /\ ApplyRecord(d, c, u) = MemPut(d, c[2], c[3])
    BY <1>4 DEF ApplyRecord
  <2> QED
    BY Zenon, <1>0, <1>4, <2>1
<1>5. CASE c[1] = "cas" /\ c[2] \in Key /\ c[3] \in Text /\ c[4] \in Text
  <2>1. /\ ApplyRecord(d, c, t) = MemCAS(d, c[2], c[3], c[4], t)
        /\ ApplyRecord(d, c, u) = MemCAS(d, c[2], c[3], c[4], u)
    BY <1>5 DEF ApplyRecord
  <2> QED
    BY Zenon, <1>0, <1>5, <2>1 DEF MemCAS
<1> QED
  BY Zenon, <1>1, <1>2, <1>3, <1>4, <1>5, CommandKinds

\* And so has a replay.
LEMMA TimelessReplay ==
  ASSUME Timeless, NEW d \in Data, NoDeadlines(d), NEW cmds \in Seq(Command), NEW t, NEW u
  PROVE  ApplyAll(d, cmds, t) = ApplyAll(d, cmds, u) /\ NoDeadlines(ApplyAll(d, cmds, t))
<1>1. PICK f : IsRun(f, d, cmds, t) /\ ApplyAll(d, cmds, t) = f[Len(cmds)]
  BY Zenon, ApplyAllRuns
<1>2. PICK g : IsRun(g, d, cmds, u) /\ ApplyAll(d, cmds, u) = g[Len(cmds)]
  BY Zenon, ApplyAllRuns
<1>3. Len(cmds) \in Nat /\ (\A n \in 1..Len(cmds) : cmds[n] \in Command) /\ Len(cmds) \in 0..Len(cmds)
      /\ \A n \in 1..Len(cmds) : n \in Nat
  OBVIOUS
<1>4. f[0] = d /\ \A n \in 1..Len(cmds) : f[n] = ApplyRecord(f[n - 1], cmds[n], t)
  BY SMTT(30), <1>1, <1>3, RunSteps
<1>5. g[0] = d /\ \A n \in 1..Len(cmds) : g[n] = ApplyRecord(g[n - 1], cmds[n], u)
  BY SMTT(30), <1>2, <1>3, RunSteps
<1> DEFINE T == {n \in Nat : f[n] = g[n] /\ f[n] \in Data /\ NoDeadlines(f[n])}
<1>6. 0 \in T
  BY Zenon, <1>4, <1>5
<1>7. ASSUME NEW n \in 1..Len(cmds), n - 1 \in T PROVE n \in T
  <2>1. f[n - 1] = g[n - 1] /\ f[n - 1] \in Data /\ NoDeadlines(f[n - 1])
    BY Zenon, <1>7
  <2>2. cmds[n] \in Command /\ cmds[n][1] # "expire"
    BY Zenon, <1>3 DEF Timeless
  <2>3. /\ ApplyRecord(f[n - 1], cmds[n], t) = ApplyRecord(f[n - 1], cmds[n], u)
        /\ NoDeadlines(ApplyRecord(f[n - 1], cmds[n], t))
    BY Zenon, <2>1, <2>2, TimelessRecord
  <2>4. ApplyRecord(f[n - 1], cmds[n], t) \in Data
    BY Zenon, <2>1, <2>2, RecordShape
  <2> QED
    BY Zenon, <1>3, <1>4, <1>5, <2>1, <2>3, <2>4
<1>8. 0..Len(cmds) \subseteq T
  <2> HIDE DEF T
  <2> QED
    BY Zenon, <1>3, <1>6, <1>7, UpTo
<1> QED
  BY Zenon, <1>1, <1>2, <1>3, <1>8

\* While nothing failed, the snapshot and the log before the section in progress give the
\* state in memory, and a swap that was decided can still be made.
ServedBody ==
  /\ NoDeadlines(mem) /\ NoDeadlines(snapshot)
  /\ job.phase \in {"idle", "append", "apply"} /\ Replayable(Before) =>
       Recover(snapshot, Before, now) = mem
  /\ job.phase \in {"truncate", "discard"} => snapshot = mem
  /\ job.phase \in {"append", "apply"} /\ job.cmds[1][1] = "cas" =>
       /\ Len(job.cmds) = 1
       /\ mem[job.cmds[1][2]] # Absent /\ mem[job.cmds[1][2]].Value = job.cmds[1][3]

ServedInv == Working /\ faults = 0 => ServedBody

\* Applying a section to memory is replaying it: a swap is made where it was decided.
LEMMA AppliedIsReplayed ==
  ASSUME Shapes, ServedBody, job.phase = "apply"
  PROVE  ApplyInMemory(job.cmds) = ApplyAll(mem, job.cmds, now)
<1>1. job.cmds \in Seq(Command) /\ job.cmds # <<>> /\ mem \in Data
  BY DEF Shapes, JobShape, Job, DataShape
<1>2. CASE job.cmds[1][1] # "cas"
  BY Zenon, <1>2 DEF ApplyInMemory
<1>3. CASE job.cmds[1][1] = "cas"
  <2> DEFINE c == job.cmds[1]
  <2>1. /\ Len(job.cmds) = 1 /\ mem[c[2]] # Absent /\ mem[c[2]].Value = c[3]
        /\ NoDeadlines(mem)
    BY Zenon, <1>3 DEF ServedBody
  <2>2. c \in Command /\ job.cmds = <<c>>
    BY <1>1, <2>1
  <2>3. c[2] \in Key
    BY <1>3, <2>2, CommandKinds
  <2>4. Live(mem, c[2], now)
    BY Zenon, <1>1, <2>1, <2>3, NothingExpires
  <2>5. ApplyRecord(mem, c, now) = MemCAS(mem, c[2], c[3], c[4], now)
    BY <1>3 DEF ApplyRecord
  <2>6. ApplyRecord(mem, c, now) = MemPut(mem, c[2], c[4])
    BY Zenon, <2>1, <2>4, <2>5 DEF MemCAS
  <2>7. ApplyAll(mem, job.cmds, now) = ApplyRecord(mem, c, now)
    <3> HIDE DEF c
    <3> QED
      BY Zenon, <2>2, ApplyOne
  <2> QED
    BY Zenon, <1>3, <2>6, <2>7 DEF ApplyInMemory
<1> QED
  BY Zenon, <1>2, <1>3

\* A file that was stamped again has the same records.
LEMMA StampedRecords ==
  ASSUME NEW f \in Seq(Written)
  PROVE  /\ Records(Stamped(f)) = Records(f)
         /\ Replayable(f) => Replayable(Stamped(f))
<1>1. CASE f = <<Unstamped>>
  <2>1. Len(f) = 1 /\ f[1] = Unstamped /\ 1 \in 1..Len(f) /\ SubSeq(f, 1, Len(f) - 1) = <<>>
    BY <1>1
  <2>2. ~IsRecord(f[1])
    BY Zenon, <2>1 DEF IsRecord
  <2>3. Records(f) = <<>>
    BY Zenon, <2>1, <2>2 DEF Records
  <2>4. Len(<<>>) = 0 /\ 1..0 = {}
    OBVIOUS
  <2>5. Records(<<>>) = <<>> /\ Replayable(<<>>)
    BY Zenon, <2>4 DEF Records, Replayable
  <2> QED
    BY Zenon, <1>1, <2>3, <2>5 DEF Stamped
<1>2. CASE f # <<Unstamped>>
  BY Zenon, <1>2 DEF Stamped
<1> QED
  BY Zenon, <1>1, <1>2

\* The log before a section that has written nothing is the whole log.
LEMMA BeforeIsAll ==
  ASSUME FileShape, job.n = 0
  PROVE  Before = wal
<1>1. Len(wal) - 0 = Len(wal) /\ SubSeq(wal, 1, Len(wal)) = wal
  BY DEF FileShape
<1> QED
  BY Zenon, <1>1 DEF Before

\* An empty log gives the snapshot back.
LEMMA EmptyLog ==
  ASSUME NEW d, NEW t
  PROVE  Recover(d, <<>>, t) = d
<1>1. Len(<<>>) = 0 /\ 1..0 = {}
  OBVIOUS
<1>2. Records(<<>>) = <<>>
  BY Zenon, <1>1 DEF Records
<1> QED
  BY Zenon, <1>2, ApplyNone DEF Recover

\* The writer's steps keep it.
LEMMA ServedByLoop ==
  ASSUME Timeless, Shapes, Shapes', TailInv, TailInv', ServedBody,
         \/ \E c \in Command : Collect(c) \/ WriteSingle(c)
         \/ WriteBatch \/ AppendRecord \/ Sync \/ ApplyToMemory
  PROVE  ServedBody'
<1>0. /\ FileShape /\ FileShape' /\ JobShape /\ JobShape' /\ mem \in Data /\ snapshot \in Data
      /\ NoDeadlines(mem) /\ NoDeadlines(snapshot)
  BY Zenon DEF Shapes, DataShape, ServedBody
<1>1. ASSUME NEW c \in Command, Collect(c) PROVE ServedBody'
  <2>1. UNCHANGED <<mem, wal, snapshot, job, now>>
    BY Zenon, <1>1 DEF Collect
  <2> QED
    BY Zenon, <2>1 DEF ServedBody, Before
<1>2. ASSUME job.phase = "idle", UNCHANGED <<mem, wal, snapshot, now>>, job'.phase = "append", job'.n = 0,
             job'.cmds[1][1] = "cas" => /\ Len(job'.cmds) = 1
                                        /\ mem[job'.cmds[1][2]] # Absent
                                        /\ mem[job'.cmds[1][2]].Value = job'.cmds[1][3]
      PROVE  ServedBody'
  <2>1. job.n = 0
    BY Zenon, <1>2 DEF TailInv
  <2>2. Before = wal /\ Before' = wal'
    BY Zenon, <1>0, <1>2, <2>1, BeforeIsAll, NothingWritten
  <2> QED
    BY Zenon, <1>2, <2>2 DEF ServedBody
<1>3. ASSUME NEW c \in Command, WriteSingle(c) PROVE ServedBody'
  <2>1. /\ UNCHANGED <<wal, snapshot, now>> /\ job = Idle /\ ~Blind(c)
        /\ \/ /\ c[1] = "incr" \/ Outcome(mem, c, now) \in {<<"swapped">>, <<"ok">>}
              /\ Begin("append", <<c>>) /\ UNCHANGED mem
           \/ mem' = DropDead(mem, c[2], now) /\ UNCHANGED job
    BY Zenon, <1>3 DEF WriteSingle
  <2>2. c[2] \in Key
    BY Zenon, <2>1, CommandKinds DEF Blind
  <2>3. CASE mem' = DropDead(mem, c[2], now) /\ UNCHANGED job
    <3>1. mem' = mem
      BY Zenon, <1>0, <2>2, <2>3, NothingExpires
    <3> QED
      BY Zenon, <2>1, <2>3, <3>1 DEF ServedBody, Before
  <2>4. CASE /\ c[1] = "incr" \/ Outcome(mem, c, now) \in {<<"swapped">>, <<"ok">>}
             /\ Begin("append", <<c>>) /\ UNCHANGED mem
    <3>1. job'.phase = "append" /\ job'.n = 0 /\ job'.cmds[1] = c /\ Len(job'.cmds) = 1
      BY <2>4 DEF Begin
    <3>2. ASSUME c[1] = "cas" PROVE mem[c[2]] # Absent /\ mem[c[2]].Value = c[3]
      <4>1. /\ Outcome(mem, c, now) \in {<<"swapped">>, <<"ok">>}
            /\ Outcome(mem, c, now) = IF ~Live(mem, c[2], now) THEN <<"not found">>
                                      ELSE IF mem[c[2]].Value = c[3] THEN <<"swapped">> ELSE <<"mismatch">>
        BY <2>4, <3>2 DEF Outcome
      <4>2. /\ <<"not found">> \notin {<<"swapped">>, <<"ok">>}
            /\ <<"mismatch">> \notin {<<"swapped">>, <<"ok">>}
        OBVIOUS
      <4> QED
        BY Zenon, <4>1, <4>2 DEF Live
    <3>3. job.phase = "idle"
      BY <2>1 DEF Idle
    <3> QED
      BY Zenon, <1>2, <2>1, <2>4, <3>1, <3>2, <3>3
  <2> QED
    BY Zenon, <2>1, <2>3, <2>4
<1>4. CASE WriteBatch
  <2>1. /\ job = Idle /\ batch # <<>> /\ Begin("append", batch) /\ UNCHANGED <<mem, wal, snapshot, now>>
    BY Zenon, <1>4 DEF WriteBatch
  <2>2. job'.phase = "append" /\ job'.n = 0 /\ job'.cmds = batch /\ job.phase = "idle"
    BY <2>1 DEF Begin, Idle
  <2>3. 1 \in 1..Len(batch)
    BY <2>1 DEF Shapes, BatchShape
  <2>4. batch[1][1] # "cas"
    BY Zenon, <2>3 DEF TailInv, Blind
  <2> QED
    BY Zenon, <1>2, <2>1, <2>2, <2>4
<1>5. CASE AppendRecord
  <2>1. UNCHANGED <<mem, snapshot, now>> /\ job.phase = "append"
    BY Zenon, <1>5 DEF AppendRecord
  <2>2. job'.cmds = job.cmds /\ job'.phase = "append" /\ Before' = Before
    BY Zenon, <1>0, <1>5, RecordWritten
  <2> QED
    BY Zenon, <2>1, <2>2 DEF ServedBody
<1>6. CASE Sync
  <2>1. UNCHANGED <<mem, wal, snapshot, now>> /\ job.phase = "append" /\ job' = [job EXCEPT !.phase = "apply"]
    BY Zenon, <1>6 DEF Sync
  <2>2. job'.phase = "apply" /\ job'.n = job.n /\ job'.cmds = job.cmds
    BY <1>0, <2>1 DEF JobShape, Job
  <2> QED
    BY Zenon, <2>1, <2>2 DEF ServedBody, Before
<1>7. CASE ApplyToMemory
  <2>1. /\ UNCHANGED <<wal, snapshot, now>> /\ job.phase = "apply" /\ job' = Idle
        /\ mem' = ApplyInMemory(job.cmds)
    BY Zenon, <1>7 DEF ApplyToMemory
  <2>2. mem' = ApplyAll(mem, job.cmds, now)
    BY Zenon, <2>1, AppliedIsReplayed
  <2>3. job.cmds \in Seq(Command) /\ job.n \in Nat /\ Len(wal) \in Nat
    BY <1>0 DEF JobShape, Job, FileShape
  <2>4. NoDeadlines(mem')
    BY Zenon, <1>0, <2>2, <2>3, TimelessReplay
  <2>5. job'.phase = "idle" /\ job'.n = 0
    BY <2>1 DEF Idle
  <2>6. Before' = wal
    BY Zenon, <1>0, <2>1, <2>5, NothingWritten
  <2>7. ASSUME Replayable(wal) PROVE Recover(snapshot, wal, now) = mem'
    <3>1. SubSeq(wal, 1, Len(wal) - job.n + job.n) = wal /\ job.n \in 0..job.n
      <4>1. job.n <= Len(wal)
        BY Zenon DEF TailInv
      <4>2. Len(wal) - job.n + job.n = Len(wal) /\ job.n \in 0..job.n
        BY <2>3, <4>1
      <4>3. SubSeq(wal, 1, Len(wal)) = wal
        BY <1>0 DEF FileShape
      <4> QED
        BY Zenon, <4>2, <4>3
    <3>2. /\ Replayable(Before)
          /\ Recover(snapshot, wal, now)
               = ApplyAll(Recover(snapshot, Before, now), SubSeq(job.cmds, 1, job.n), now)
      BY Zenon, <1>0, <2>7, <3>1, SectionReplay
    <3>3. SubSeq(job.cmds, 1, job.n) = job.cmds
      <4>1. job.n = Len(job.cmds)
        BY Zenon, <2>1 DEF TailInv
      <4> QED
        BY <2>3, <4>1
    <3>4. Recover(snapshot, Before, now) = mem
      BY Zenon, <2>1, <3>2 DEF ServedBody
    <3> QED
      BY Zenon, <2>2, <3>2, <3>3, <3>4
  <2> QED
    BY Zenon, <1>0, <2>1, <2>4, <2>5, <2>6, <2>7 DEF ServedBody
<1> QED
  BY Zenon, <1>1, <1>3, <1>4, <1>5, <1>6, <1>7

\* So do compaction, restored snapshots, time and expiry.
LEMMA ServedByOthers ==
  ASSUME Timeless, Shapes, Shapes', TailInv, ServedBody,
         \/ SaveSnapshot \/ Truncate \/ (\E d \in Installable : RestoreSnapshot(d)) \/ SaveRestored
         \/ Tick \/ ExpireLoop \/ \E k \in Key : Get(k)
  PROVE  ServedBody'
<1>0. /\ FileShape /\ FileShape' /\ mem \in Data /\ snapshot \in Data
      /\ NoDeadlines(mem) /\ NoDeadlines(snapshot)
  BY Zenon DEF Shapes, DataShape, ServedBody
<1>1. ASSUME NEW p \in {"truncate", "discard"}, Begin(p, <<>>), snapshot' = mem, mem' = mem
      PROVE  ServedBody'
  <2>1. job'.phase = p /\ p \notin {"idle", "append", "apply"}
    BY Zenon, <1>1 DEF Begin
  <2> QED
    BY Zenon, <1>0, <1>1, <2>1 DEF ServedBody
<1>2. CASE SaveSnapshot \/ SaveRestored
  BY Zenon, <1>1, <1>2 DEF SaveSnapshot, SaveRestored
<1>3. CASE Truncate
  <2>1. /\ job.phase \in {"truncate", "discard"} /\ wal' = <<>> /\ job' = Idle
        /\ UNCHANGED <<mem, snapshot, now>>
    BY Zenon, <1>3 DEF Truncate
  <2>2. job'.phase = "idle" /\ job'.n = 0
    BY <2>1 DEF Idle
  <2>3. Before' = <<>>
    BY Zenon, <1>0, <2>1, <2>2, NothingWritten
  <2>4. snapshot = mem
    BY Zenon, <2>1 DEF ServedBody
  <2> QED
    BY Zenon, <1>0, <2>1, <2>2, <2>3, <2>4, EmptyLog DEF ServedBody
<1>4. ASSUME NEW d \in Installable, RestoreSnapshot(d) PROVE ServedBody'
  <2>1. mem' = d /\ Begin("save", <<>>) /\ UNCHANGED snapshot
    BY Zenon, <1>4 DEF RestoreSnapshot
  <2>2. job'.phase = "save"
    BY <2>1 DEF Begin
  <2> QED
    BY Zenon, <1>0, <2>1, <2>2 DEF ServedBody, Timeless
<1>5. CASE Tick
  <2>1. UNCHANGED <<mem, wal, snapshot, job>>
    BY Zenon, <1>5 DEF Tick, store
  <2>2. ASSUME Replayable(Before) PROVE Recover(snapshot, Before, now') = Recover(snapshot, Before, now)
    <3>1. Before \in Seq(Written)
      <4>1. job.n \in Nat /\ job.n <= Len(wal) /\ Len(wal) \in Nat
        <5>1. job.n <= Len(wal)
          BY Zenon DEF TailInv
        <5> QED
          BY <1>0, <5>1 DEF FileShape, Shapes, JobShape, Job
      <4>2. Len(wal) - job.n \in 0..Len(wal)
        BY <4>1
      <4> QED
        BY Zenon, <1>0, <4>2, PrefixFacts DEF FileShape, Before
    <3>2. Records(Before) \in Seq(Command)
      BY Zenon, <2>2, <3>1, RecordsFacts
    <3> QED
      BY Zenon, <1>0, <3>2, TimelessReplay DEF Recover
  <2>3. Before' = Before
    BY Zenon, <2>1 DEF Before
  <2> QED
    BY Zenon, <2>1, <2>2, <2>3 DEF ServedBody
<1>6. CASE ExpireLoop \/ \E k \in Key : Get(k)
  <2>1. /\ mem' # mem
        /\ mem' = SweepExpired(mem, now) \/ \E k \in Key : mem' = DropDead(mem, k, now)
    BY Zenon, <1>6 DEF ExpireLoop, Get
  <2> QED
    BY Zenon, <1>0, <2>1, NothingExpires
<1> QED
  BY Zenon, <1>2, <1>3, <1>4, <1>5, <1>6

\* So does opening the store after a crash.
LEMMA ServedAfterCrash ==
  ASSUME Timeless, Shapes, Shapes', ServedBody, CrashAndOpen, Working'
  PROVE  ServedBody'
<1>0. /\ FileShape /\ FileShape' /\ snapshot \in Data /\ NoDeadlines(snapshot)
  BY Zenon DEF Shapes, DataShape, ServedBody
<1>1. PICK f \in Survivors :
        wal' = Stamped(f) /\ Replayable(f) /\ mem' = Recover(snapshot, f, now)
  BY Zenon DEF CrashAndOpen, Working
<1>2. job' = Idle /\ UNCHANGED <<snapshot, now>>
  BY Zenon DEF CrashAndOpen
<1>3. job'.phase = "idle" /\ job'.n = 0
  BY <1>2 DEF Idle
<1>4. Before' = Stamped(f)
  BY Zenon, <1>0, <1>1, <1>3, NothingWritten
<1>5. f \in Seq(Written)
  BY Zenon, <1>0, SurvivorShape
<1>6. Recover(snapshot, Stamped(f), now) = mem'
  BY Zenon, <1>1, <1>5, StampedRecords DEF Recover
<1>7. NoDeadlines(mem')
  <2>1. Records(f) \in Seq(Command)
    BY Zenon, <1>1, <1>5, RecordsFacts
  <2> QED
    BY Zenon, <1>0, <1>1, <2>1, TimelessReplay DEF Recover
<1> QED
  BY Zenon, <1>0, <1>2, <1>3, <1>4, <1>6, <1>7 DEF ServedBody

\* Nobody setting deadlines and no file operation failing, the store that is opened again is
\* the one that readers saw: increments and swaps are replayed to the result they had,
\* whatever was compacted or installed in between, on a plain or a sealed log.
THEOREM RecoveryRestoresService == Timeless => (Spec => []RecoversWhatWasServed)
<1> SUFFICES ASSUME Timeless PROVE Spec => []RecoversWhatWasServed
  OBVIOUS
<1>1. Init => ServedInv
  <2> SUFFICES ASSUME Init PROVE ServedBody
    BY Zenon DEF ServedInv
  <2>1. mem = NewMemStore /\ snapshot = NewMemStore /\ wal = <<>> /\ job = Idle
    BY Zenon DEF Init
  <2>2. NoDeadlines(NewMemStore)
    BY Zenon DEF NoDeadlines, NewMemStore
  <2>3. job.phase = "idle" /\ Before = <<>>
    BY <2>1 DEF Idle, Before
  <2> QED
    BY Zenon, <2>1, <2>2, <2>3, EmptyLog DEF ServedBody
<1>2. /\ Shapes /\ Shapes' /\ TailInv /\ TailInv' /\ faults \in Nat /\ ServedInv /\ [Next]_vars
      => ServedInv'
  <2>1. ASSUME ServedInv, UNCHANGED vars PROVE ServedInv'
    BY Zenon, <2>1 DEF vars, store, counts, ServedInv, ServedBody, Working, Before
  <2>2. ASSUME Shapes, Shapes', TailInv, TailInv', faults \in Nat, ServedInv, Next PROVE ServedInv'
    <3> SUFFICES ASSUME Working', faults' = 0 PROVE ServedBody'
      BY Zenon DEF ServedInv
    <3>1. Succeeds /\ faults = 0
      BY Zenon, <2>2, FaultSteps
    <3>2. Working
      BY Zenon, <3>1 DEF Succeeds, Collect, WriteSingle, WriteBatch, AppendRecord, Sync, ApplyToMemory,
        SaveSnapshot, Truncate, RestoreSnapshot, SaveRestored, Tick, ExpireLoop, Get, CrashAndOpen
    <3>3. ServedBody
      BY Zenon, <2>2, <3>1, <3>2 DEF ServedInv
    <3> QED
      BY ZenonT(30), <2>2, <3>1, <3>3, ServedByLoop, ServedByOthers, ServedAfterCrash DEF Succeeds
  <2> QED
    BY Zenon, <2>1, <2>2
<1>3. Shapes /\ TailInv /\ ServedInv => RecoversWhatWasServed
  <2> SUFFICES ASSUME Shapes, ServedInv, Working, job = Idle, faults = 0, Replayable(wal)
               PROVE  Recover(snapshot, wal, now) = mem
    BY Zenon DEF RecoversWhatWasServed
  <2>1. job.phase = "idle" /\ job.n = 0
    BY DEF Idle
  <2>2. Before = wal
    BY Zenon, <2>1, BeforeIsAll DEF Shapes
  <2> QED
    BY Zenon, <2>1, <2>2 DEF ServedInv, ServedBody
<1> QED
  BY <1>1, <1>2, <1>3, ShapesInvariant, TailInvariant, FaultsCounted, PTL DEF Spec

(***************************************************************************)
(* Acknowledged blind writes                                               *)
(***************************************************************************)

\* Callers put, delete and clear; no state is installed.
OnlyBlind == (\A c \in Command : Blind(c)) /\ Installable = {}

Hits(c, k) == c[1] = "clear" \/ c[2] = k
Touched(cmds, k) == \E n \in 1..Len(cmds) : Hits(cmds[n], k)

\* A blind command sets the keys it hits to values of its own and leaves the others.
LEMMA BlindRecord ==
  ASSUME NEW d \in Data, NEW e \in Data, NEW c \in Command, Blind(c), NEW k \in Key, NEW t, NEW u
  PROVE  /\ Hits(c, k) => ApplyRecord(d, c, t)[k] = ApplyRecord(e, c, u)[k]
         /\ ~Hits(c, k) => ApplyRecord(d, c, t)[k] = d[k]
<1>0. d \in [Key -> Entry \cup {Absent}] /\ e \in [Key -> Entry \cup {Absent}]
  BY Zenon DEF Data
<1>1. CASE c[1] = "clear"
  <2>1. ApplyRecord(d, c, t) = NewMemStore /\ ApplyRecord(e, c, u) = NewMemStore
    BY <1>1 DEF ApplyRecord
  <2> QED
    BY Zenon, <1>1, <2>1 DEF Hits
<1>2. CASE c[1] = "delete" /\ c[2] \in Key
  <2>1. ApplyRecord(d, c, t) = MemDelete(d, c[2]) /\ ApplyRecord(e, c, u) = MemDelete(e, c[2])
    BY <1>2 DEF ApplyRecord
  <2>2. /\ MemDelete(d, c[2])[k] = IF k = c[2] THEN Absent ELSE d[k]
        /\ MemDelete(e, c[2])[k] = IF k = c[2] THEN Absent ELSE e[k]
    BY Zenon, <1>0, <1>2 DEF MemDelete
  <2> QED
    BY Zenon, <1>2, <2>1, <2>2 DEF Hits
<1>3. CASE c[1] = "put" /\ c[2] \in Key /\ c[3] \in Text
  <2>1. ApplyRecord(d, c, t) = MemPut(d, c[2], c[3]) /\ ApplyRecord(e, c, u) = MemPut(e, c[2], c[3])
    BY <1>3 DEF ApplyRecord
  <2>2. /\ MemPut(d, c[2], c[3])[k] = IF k = c[2] THEN [Value |-> c[3], Exp |-> 0] ELSE d[k]
        /\ MemPut(e, c[2], c[3])[k] = IF k = c[2] THEN [Value |-> c[3], Exp |-> 0] ELSE e[k]
    BY Zenon, <1>0, <1>3 DEF MemPut
  <2> QED
    BY Zenon, <1>3, <2>1, <2>2 DEF Hits
<1> QED
  BY Zenon, <1>1, <1>2, <1>3, CommandKinds DEF Blind

\* So two replays agree on every key that the records touch or on which the states agreed,
\* and a key that they do not touch keeps its value.
LEMMA BlindReplay ==
  ASSUME OnlyBlind, NEW d \in Data, NEW e \in Data, NEW cmds \in Seq(Command), NEW k \in Key, NEW t, NEW u
  PROVE  /\ Touched(cmds, k) \/ d[k] = e[k] => ApplyAll(d, cmds, t)[k] = ApplyAll(e, cmds, u)[k]
         /\ ~Touched(cmds, k) => ApplyAll(d, cmds, t)[k] = d[k]
<1>1. PICK f : IsRun(f, d, cmds, t) /\ ApplyAll(d, cmds, t) = f[Len(cmds)]
  BY Zenon, ApplyAllRuns
<1>2. PICK g : IsRun(g, e, cmds, u) /\ ApplyAll(e, cmds, u) = g[Len(cmds)]
  BY Zenon, ApplyAllRuns
<1>3. Len(cmds) \in Nat /\ (\A n \in 1..Len(cmds) : cmds[n] \in Command) /\ Len(cmds) \in 0..Len(cmds)
      /\ \A n \in 1..Len(cmds) : n \in Nat
  OBVIOUS
<1>4. f[0] = d /\ \A n \in 1..Len(cmds) : f[n] = ApplyRecord(f[n - 1], cmds[n], t)
  BY SMTT(30), <1>1, <1>3, RunSteps
<1>5. g[0] = e /\ \A n \in 1..Len(cmds) : g[n] = ApplyRecord(g[n - 1], cmds[n], u)
  BY SMTT(30), <1>2, <1>3, RunSteps
<1> DEFINE Hit(n) == \E i \in 1..n : Hits(cmds[i], k)
           T == {n \in Nat : /\ f[n] \in Data /\ g[n] \in Data
                             /\ Hit(n) \/ d[k] = e[k] => f[n][k] = g[n][k]
                             /\ ~Hit(n) => f[n][k] = d[k]}
<1>6. 0 \in T
  <2>1. 1..0 = {} /\ 0 \in Nat
    OBVIOUS
  <2>2. ~Hit(0)
    BY Zenon, <2>1
  <2> HIDE DEF Hit
  <2> QED
    BY Zenon, <1>4, <1>5, <2>1, <2>2
<1>7. ASSUME NEW n \in 1..Len(cmds), n - 1 \in T PROVE n \in T
  <2>1. Hit(n) <=> Hit(n - 1) \/ Hits(cmds[n], k)
    <3>1. \A i \in 1..n : i \in 1..(n - 1) \/ i = n
      BY <1>3
    <3>2. n \in 1..n /\ \A i \in 1..(n - 1) : i \in 1..n
      BY <1>3
    <3> QED
      BY Zenon, <3>1, <3>2
  <2> HIDE DEF Hit
  <2>2. /\ f[n - 1] \in Data /\ g[n - 1] \in Data
        /\ Hit(n - 1) \/ d[k] = e[k] => f[n - 1][k] = g[n - 1][k]
        /\ ~Hit(n - 1) => f[n - 1][k] = d[k]
    BY Zenon, <1>7
  <2>3. cmds[n] \in Command /\ Blind(cmds[n])
    BY Zenon, <1>3 DEF OnlyBlind
  <2>4. f[n] \in Data /\ g[n] \in Data
    BY Zenon, <1>4, <1>5, <2>2, <2>3, RecordShape
  <2>5. /\ Hits(cmds[n], k) => f[n][k] = g[n][k]
        /\ ~Hits(cmds[n], k) => f[n][k] = f[n - 1][k]
    BY SMTT(30), <1>4, <1>5, <2>2, <2>3, BlindRecord
  <2>6. ~Hits(cmds[n], k) => g[n][k] = g[n - 1][k]
    BY SMTT(30), <1>5, <2>2, <2>3, BlindRecord
  <2> QED
    BY Zenon, <1>3, <2>1, <2>2, <2>4, <2>5, <2>6
<1>8. 0..Len(cmds) \subseteq T
  <2> HIDE DEF T
  <2> QED
    BY Zenon, <1>3, <1>6, <1>7, UpTo
<1>9. Len(cmds) \in T
  BY Zenon, <1>3, <1>8
<1> QED
  BY Zenon, <1>1, <1>2, <1>9 DEF Touched

\* Replays of records that cover the differences of two states end in the same state.
LEMMA SameReplay ==
  ASSUME OnlyBlind, NEW d \in Data, NEW e \in Data, NEW cmds \in Seq(Command), NEW t,
         \A k \in Key : Touched(cmds, k) \/ d[k] = e[k]
  PROVE  ApplyAll(d, cmds, t) = ApplyAll(e, cmds, t)
<1>1. ApplyAll(d, cmds, t) \in Data /\ ApplyAll(e, cmds, t) \in Data
  BY Zenon, ReplayShape
<1>2. ASSUME NEW k \in Key PROVE ApplyAll(d, cmds, t)[k] = ApplyAll(e, cmds, t)[k]
  <2>1. Touched(cmds, k) \/ d[k] = e[k]
    OBVIOUS
  <2>2. Touched(cmds, k) \/ d[k] = e[k] => ApplyAll(d, cmds, t)[k] = ApplyAll(e, cmds, t)[k]
    BY SMTT(30), BlindReplay
  <2> QED
    BY Zenon, <2>1, <2>2
<1> QED
  BY <1>1, <1>2 DEF Data

\* Blind commands set no deadlines.
LEMMA BlindIsTimeless == OnlyBlind => Timeless
BY Zenon DEF OnlyBlind, Timeless, Blind

\* A file is explained when its records cover what memory has beyond the snapshot, and
\* allowed when the state it recovers to agrees with the answers.
Explained(f) == Replayable(f) => \A k \in Key : Touched(Records(f), k) \/ snapshot[k] = mem[k]
Allowed(f) == Replayable(f) => Recover(snapshot, f, now) \in possible

Lo == IF SyncedFirst THEN Len(stable) ELSE 0

\* The prefixes of the log that a crash can leave, and those that hold all that was there
\* before the section in progress.
Kept(n) == Lo <= n \/ Len(wal) - job.n <= n

AckBody ==
  /\ mem \in possible
  /\ NoDeadlines(mem) /\ NoDeadlines(snapshot)
  /\ \A n \in 0..Len(wal) :
       Kept(n) => /\ Explained(SubSeq(wal, 1, n))
                  /\ n <= Len(wal) - job.n => Allowed(SubSeq(wal, 1, n))
  /\ Explained(stable) /\ (job.phase = "apply" \/ Allowed(stable))
  /\ job.phase \in {"idle", "append", "apply", "truncate"}
  /\ job.phase = "apply" => stable = wal
  /\ job.phase = "truncate" => snapshot = mem

AckInv == Working => AckBody

\* What may be there once part of a section is written.
Partly == UNION {PartlyWritten(s) : s \in possible}

\* That includes the state in which nothing of it is.
LEMMA PartlyNothing ==
  ASSUME JobShape
  PROVE  possible \subseteq Partly
<1>1. 0 \in 0..job.n /\ SubSeq(job.cmds, 1, 0) = <<>>
  BY DEF JobShape, Job
<1>2. \A s \in possible : s \in PartlyWritten(s)
  BY Zenon, <1>1, ApplyNone DEF PartlyWritten
<1> QED
  BY Zenon, <1>2 DEF Partly

\* Numbers of the section in progress.
LEMMA SectionNumbers ==
  ASSUME FileShape, JobShape, TailInv
  PROVE  /\ job.n \in Nat /\ Len(wal) \in Nat /\ job.n <= Len(wal)
         /\ Len(wal) - job.n \in 0..Len(wal) /\ Lo \in Nat
<1>1. job.n \in Nat /\ Len(wal) \in Nat /\ Len(stable) \in Nat
  BY DEF FileShape, JobShape, Job
<1>2. job.n <= Len(wal)
  BY Zenon DEF TailInv
<1>3. Lo \in Nat
  BY <1>1 DEF Lo
<1> QED
  BY <1>1, <1>2, <1>3

\* A prefix of the log that a crash can leave recovers to a state that may be there.
LEMMA KeptRecovers ==
  ASSUME FileShape, JobShape, TailInv, AckBody, NEW n \in 0..Len(wal), Kept(n),
         Replayable(SubSeq(wal, 1, n))
  PROVE  Recover(snapshot, SubSeq(wal, 1, n), now) \in Partly
<1> DEFINE b == Len(wal) - job.n
<1>1. job.n \in Nat /\ Len(wal) \in Nat /\ job.n <= Len(wal) /\ b \in 0..Len(wal)
  BY Zenon, SectionNumbers
<1>2. CASE n <= b
  <2>1. Allowed(SubSeq(wal, 1, n))
    BY Zenon, <1>2 DEF AckBody
  <2> QED
    BY Zenon, <2>1, PartlyNothing DEF Allowed
<1>3. CASE ~(n <= b)
  <2> DEFINE m == n - b
  <2>1. m \in 0..job.n /\ b + m = n
    BY SMTT(40), <1>1, <1>3
  <2> HIDE DEF m
  <2>2. /\ Replayable(Before)
        /\ Recover(snapshot, SubSeq(wal, 1, n), now)
             = ApplyAll(Recover(snapshot, Before, now), SubSeq(job.cmds, 1, m), now)
    BY Zenon, <2>1, SectionReplay
  <2>3. Recover(snapshot, Before, now) \in possible
    <3>1. Kept(b) /\ b <= b
      BY <1>1 DEF Kept
    <3>2. Allowed(SubSeq(wal, 1, b))
      BY Zenon, <1>1, <3>1 DEF AckBody
    <3> QED
      BY Zenon, <2>2, <3>2 DEF Allowed, Before
  <2>4. Recover(snapshot, SubSeq(wal, 1, n), now) \in PartlyWritten(Recover(snapshot, Before, now))
    BY Zenon, <2>1, <2>2 DEF PartlyWritten
  <2> QED
    BY Zenon, <2>3, <2>4 DEF Partly
<1> QED
  BY Zenon, <1>2, <1>3

\* A file that can be replayed with something appended was all records before.
LEMMA AppendedFile ==
  ASSUME NEW f \in Seq(Written), NEW r \in Written, Replayable(Append(f, r))
  PROVE  /\ Replayable(f) /\ Records(f) = f /\ f \in Seq(Command)
         /\ Records(Append(f, r)) = IF IsRecord(r) THEN Append(f, r) ELSE f
<1> DEFINE g == Append(f, r)
<1>1. /\ g \in Seq(Written) /\ Len(g) = Len(f) + 1 /\ g[Len(g)] = r /\ Len(f) \in Nat
      /\ SubSeq(g, 1, Len(f)) = f /\ SubSeq(g, 1, Len(g) - 1) = f /\ SubSeq(g, 1, Len(g)) = g
  OBVIOUS
<1> HIDE DEF g
<1>2. /\ Len(f) \in 0..Len(g) /\ Len(f) < Len(g) /\ Len(g) \in 0..Len(g) /\ Len(g) \in 1..Len(g)
  BY <1>1
<1>3. Replayable(g)
  BY Zenon DEF g
<1>4. Replayable(f) /\ Records(f) = f /\ f \in Seq(Command)
  BY Zenon, <1>1, <1>2, <1>3, ReplayablePrefix
<1>5. IsRecord(r) => Records(g) = g
  BY Zenon, <1>1, <1>2, <1>3, ReplayablePrefix
<1>6. ~IsRecord(r) => Records(g) = f
  BY Zenon, <1>1, <1>2 DEF Records
<1> QED
  BY Zenon, <1>4, <1>5, <1>6 DEF g

\* What an interrupted append leaves is no record.
LEMMA DebrisIsNoRecord ==
  ASSUME NEW r \in Debris
  PROVE  ~IsRecord(r) /\ r \in Written
BY Zenon DEF Debris, IsRecord, Written

\* The whole log is one of its prefixes, and always one that a crash can leave.
LEMMA WholeLogKept ==
  ASSUME FileShape, JobShape, TailInv
  PROVE  Len(wal) \in 0..Len(wal) /\ SubSeq(wal, 1, Len(wal)) = wal /\ Kept(Len(wal))
<1>1. Len(wal) \in 0..Len(wal) /\ SubSeq(wal, 1, Len(wal)) = wal
  BY DEF FileShape
<1>2. Len(wal) - job.n <= Len(wal)
  <2>1. job.n \in Nat /\ Len(wal) \in Nat
    BY Zenon, SectionNumbers
  <2> QED
    BY <2>1
<1> QED
  BY Zenon, <1>1, <1>2 DEF Kept

\* Whatever a crash leaves recovers to a state that the answers allow.
LEMMA AckIsAdmissible ==
  ASSUME Shapes, TailInv, AckBody
  PROVE  RecoveredIsAdmissible
<1>0. FileShape /\ JobShape /\ wal \in Seq(Written)
  BY Zenon DEF Shapes, FileShape
<1> SUFFICES ASSUME NEW f \in Survivors, Replayable(f)
             PROVE  Recover(snapshot, f, now) \in Partly
  BY Zenon DEF RecoveredIsAdmissible, Partly
<1>1. \A n \in Lo..Len(wal) : n \in 0..Len(wal) /\ Kept(n)
  <2>1. Lo \in Nat /\ Len(wal) \in Nat
    BY Zenon, <1>0, SectionNumbers
  <2>2. \A n \in Lo..Len(wal) : n \in 0..Len(wal) /\ Lo <= n
    BY <2>1
  <2> QED
    BY Zenon, <2>2 DEF Kept
<1>2. ASSUME NEW n \in Lo..Len(wal), f = SubSeq(wal, 1, n)
      PROVE  Recover(snapshot, f, now) \in Partly
  BY Zenon, <1>0, <1>1, <1>2, KeptRecovers
<1>3. CASE f = stable
  <2>1. CASE job.phase = "apply"
    <3>1. f = SubSeq(wal, 1, Len(wal)) /\ Len(wal) \in 0..Len(wal) /\ Kept(Len(wal))
      BY Zenon, <1>0, <1>3, <2>1, WholeLogKept DEF AckBody
    <3> QED
      BY Zenon, <1>0, <3>1, KeptRecovers
  <2>2. CASE job.phase # "apply"
    <3>1. Recover(snapshot, f, now) \in possible
      BY Zenon, <1>3, <2>2 DEF AckBody, Allowed
    <3> QED
      BY Zenon, <1>0, <3>1, PartlyNothing
  <2> QED
    BY Zenon, <2>1, <2>2
<1>4. ASSUME NEW n \in Lo..Len(wal), NEW r \in Debris, f = Append(SubSeq(wal, 1, n), r)
      PROVE  Recover(snapshot, f, now) \in Partly
  <2> DEFINE p == SubSeq(wal, 1, n)
  <2>1. p \in Seq(Written)
    BY Zenon, <1>0, <1>1, PrefixFacts
  <2> HIDE DEF p
  <2>2. Replayable(p) /\ Records(f) = Records(p)
    BY Zenon, <1>4, <2>1, DebrisIsNoRecord, AppendedFile DEF p
  <2>3. Recover(snapshot, f, now) = Recover(snapshot, p, now)
    BY Zenon, <2>2 DEF Recover
  <2> QED
    BY Zenon, <1>0, <1>1, <2>2, <2>3, KeptRecovers DEF p
<1> QED
  BY SMTT(30), <1>2, <1>3, <1>4, SurvivorKinds DEF Lo

\* While the synced part stays, a prefix that a crash can leave now could be left before.
LEMMA KeptBefore ==
  ASSUME FileShape, JobShape, TailInv, stable' = stable, NEW x, wal' = wal \/ wal' = Append(wal, x),
         NEW n \in 0..Len(wal)
  PROVE  (Lo' <= n => Kept(n)) /\ SubSeq(wal', 1, n) = SubSeq(wal, 1, n)
<1>0. wal \in Seq(Written) /\ stable \in Seq(Written)
  BY Zenon DEF FileShape
<1>1. SubSeq(wal', 1, n) = SubSeq(wal, 1, n)
  BY SMTT(40), <1>0
<1>2. CASE SyncedFirst
  <2>1. Len(stable) \in Nat /\ Len(wal) \in Nat /\ Len(stable) <= Len(wal)
    BY <1>0, <1>2 DEF SyncedFirst
  <2>2. SubSeq(Append(wal, x), 1, Len(stable)) = SubSeq(wal, 1, Len(stable)) /\ Len(Append(wal, x)) = Len(wal) + 1
    BY <1>0, <2>1
  <2>3. Len(stable) <= Len(wal')
    BY <2>1, <2>2
  <2>4. SyncedFirst'
    BY Zenon, <1>2, <2>2, <2>3 DEF SyncedFirst
  <2>5. Lo' = Lo
    BY Zenon, <1>2, <2>4 DEF Lo
  <2> QED
    BY Zenon, <1>1, <2>5 DEF Kept
<1>3. CASE ~SyncedFirst
  <2>1. Lo = 0
    BY Zenon, <1>3 DEF Lo
  <2>2. 0 <= n
    OBVIOUS
  <2> QED
    BY Zenon, <1>1, <2>1, <2>2 DEF Kept
<1> QED
  BY Zenon, <1>2, <1>3

\* Beginning a section, or ending one without effects, leaves it as it is.
LEMMA AckFrame ==
  ASSUME AckBody, UNCHANGED <<mem, wal, stable, snapshot, possible, now>>, job'.n = job.n,
         job'.phase \in {"idle", "append"}, job.phase # "apply"
  PROVE  AckBody'
<1>1. job'.phase # "apply" /\ job'.phase # "truncate"
  OBVIOUS
<1>2. \A n : /\ Kept(n)' <=> Kept(n)
             /\ Explained(SubSeq(wal, 1, n))' <=> Explained(SubSeq(wal, 1, n))
             /\ Allowed(SubSeq(wal, 1, n))' <=> Allowed(SubSeq(wal, 1, n))
  BY Zenon DEF Kept, Lo, SyncedFirst, Explained, Allowed
<1>3. (Explained(stable)' <=> Explained(stable)) /\ (Allowed(stable)' <=> Allowed(stable))
  BY Zenon DEF Explained, Allowed
<1> QED
  BY Zenon, <1>1, <1>2, <1>3 DEF AckBody

\* Each record that is appended keeps it.
LEMMA AckAppends ==
  ASSUME Shapes, Shapes', TailInv, AckBody, AppendRecord
  PROVE  AckBody'
<1> DEFINE c == job.cmds[job.n + 1]
<1>0. FileShape /\ JobShape /\ wal \in Seq(Written)
  BY Zenon DEF Shapes, FileShape
<1>1. wal' = Append(wal, c) /\ UNCHANGED <<mem, stable, snapshot, possible, now>> /\ job.phase = "append"
  BY Zenon DEF AppendRecord
<1>2. job'.n = job.n + 1 /\ job'.phase = "append"
  BY Zenon, <1>0, RecordWritten
<1>3. c \in Command /\ c \in Written
  <2>1. job.cmds \in Seq(Command) /\ job.n \in Nat /\ job.n < Len(job.cmds)
    BY <1>0 DEF JobShape, Job, AppendRecord
  <2>2. c \in Command
    BY <2>1
  <2> QED
    BY Zenon, <2>2 DEF Written
<1> HIDE DEF c
<1>4. job.n \in Nat /\ Len(wal) \in Nat /\ Len(wal') = Len(wal) + 1 /\ SubSeq(wal', 1, Len(wal) + 1) = wal'
  <2>1. job.n \in Nat /\ Len(wal) \in Nat
    BY Zenon, <1>0, SectionNumbers
  <2> QED
    BY <1>0, <1>1, <1>3, <2>1
<1>5. Len(wal') - job'.n = Len(wal) - job.n
  BY <1>2, <1>4
<1>6. ASSUME NEW n \in 0..Len(wal'), Kept(n)'
      PROVE  /\ Explained(SubSeq(wal, 1, n))'
             /\ n <= Len(wal') - job'.n => Allowed(SubSeq(wal, 1, n))'
  <2>1. CASE n \in 0..Len(wal)
    <3>1. (Lo' <= n => Kept(n)) /\ SubSeq(wal', 1, n) = SubSeq(wal, 1, n)
      BY Zenon, <1>0, <1>1, <2>1, KeptBefore
    <3>2. Kept(n)
      BY Zenon, <1>5, <1>6, <3>1 DEF Kept
    <3>3. /\ Explained(SubSeq(wal, 1, n))
          /\ n <= Len(wal') - job'.n => Allowed(SubSeq(wal, 1, n))
      BY Zenon, <1>5, <2>1, <3>2 DEF AckBody
    <3> QED
      BY Zenon, <1>1, <3>1, <3>3 DEF Explained, Allowed
  <2>2. CASE n = Len(wal) + 1
    <3>1. SubSeq(wal', 1, n) = wal' /\ ~(n <= Len(wal') - job'.n)
      BY <1>2, <1>4, <2>2
    <3>2. ASSUME Replayable(wal'), NEW k \in Key
          PROVE  Touched(Records(wal'), k) \/ snapshot'[k] = mem'[k]
      <4>1. Replayable(wal) /\ Records(wal) = wal /\ Records(wal') = wal'
        BY Zenon, <1>0, <1>1, <1>3, <3>2, AppendedFile, CommandsAreRecords
      <4>2. Explained(wal)
        BY Zenon, <1>0, WholeLogKept DEF AckBody
      <4>3. Touched(wal, k) => Touched(wal', k)
        <5>1. \A i \in 1..Len(wal) : i \in 1..Len(wal') /\ wal'[i] = wal[i]
          BY <1>0, <1>1, <1>4
        <5> QED
          BY Zenon, <5>1 DEF Touched
      <4> QED
        BY Zenon, <1>1, <4>1, <4>2, <4>3 DEF Explained
    <3> QED
      BY Zenon, <3>1, <3>2 DEF Explained
  <2>3. n \in 0..Len(wal) \/ n = Len(wal) + 1
    BY <1>4
  <2> QED
    BY Zenon, <2>1, <2>2, <2>3
<1>7. Explained(stable)' /\ Allowed(stable)'
  BY Zenon, <1>1 DEF AckBody, Explained, Allowed
<1> QED
  BY Zenon, <1>1, <1>2, <1>6, <1>7 DEF AckBody

\* The sync makes the log the stable one.
LEMMA AckSyncs ==
  ASSUME Shapes, TailInv, AckBody, Sync
  PROVE  AckBody'
<1>0. FileShape /\ JobShape /\ wal \in Seq(Written)
  BY Zenon DEF Shapes, FileShape
<1>1. stable' = wal /\ UNCHANGED <<mem, wal, snapshot, possible, now>> /\ job' = [job EXCEPT !.phase = "apply"]
  BY Zenon DEF Sync
<1>2. job'.n = job.n /\ job'.phase = "apply"
  BY <1>0, <1>1 DEF JobShape, Job
<1>3. job.n \in Nat /\ Len(wal) \in Nat
  BY Zenon, <1>0, SectionNumbers
<1>4. Lo' = Len(wal)
  <2>1. SubSeq(wal, 1, Len(wal)) = wal /\ Len(wal) <= Len(wal)
    BY <1>0, <1>3
  <2>2. SyncedFirst'
    BY Zenon, <1>1, <2>1 DEF SyncedFirst
  <2> QED
    BY Zenon, <1>1, <2>2 DEF Lo
<1>5. \A n \in 0..Len(wal) : Kept(n)' => Kept(n)
  <2>1. \A n \in 0..Len(wal) : Len(wal) <= n => Len(wal) - job.n <= n
    BY <1>3
  <2> QED
    BY Zenon, <1>1, <1>2, <1>4, <2>1 DEF Kept
<1>6. Explained(stable)'
  <2>1. Explained(wal)
    BY Zenon, <1>0, WholeLogKept DEF AckBody
  <2> QED
    BY Zenon, <1>1, <2>1 DEF Explained
<1>7. \A n : /\ Explained(SubSeq(wal, 1, n))' <=> Explained(SubSeq(wal, 1, n))
             /\ Allowed(SubSeq(wal, 1, n))' <=> Allowed(SubSeq(wal, 1, n))
  BY Zenon, <1>1 DEF Explained, Allowed
<1> QED
  BY Zenon, <1>1, <1>2, <1>5, <1>6, <1>7 DEF AckBody

\* A write that fails leaves a part of it in the log, which the answers allow.
LEMMA AckFails ==
  ASSUME Shapes, Shapes', TailInv, AckBody, WriteFails
  PROVE  AckBody'
<1>0. FileShape /\ JobShape /\ wal \in Seq(Written)
  BY Zenon DEF Shapes, FileShape
<1>1. /\ UNCHANGED <<mem, stable, snapshot, now>> /\ job.phase = "append" /\ job' = Idle /\ possible' = Partly
      /\ wal' = wal \/ \E r \in Debris : wal' = Append(wal, r)
  BY Zenon DEF WriteFails, Partly
<1>2. job'.n = 0 /\ job'.phase = "idle"
  BY <1>1 DEF Idle
<1>3. possible \subseteq possible'
  BY Zenon, <1>0, <1>1, PartlyNothing
<1>4. Len(wal) \in Nat /\ Explained(wal)
  BY Zenon, <1>0, SectionNumbers, WholeLogKept DEF AckBody
<1>5. ASSUME NEW n \in 0..Len(wal), Kept(n), SubSeq(wal', 1, n) = SubSeq(wal, 1, n)
      PROVE  Explained(SubSeq(wal, 1, n))' /\ Allowed(SubSeq(wal, 1, n))'
  <2>1. Explained(SubSeq(wal, 1, n))
    BY Zenon, <1>5 DEF AckBody
  <2>2. Replayable(SubSeq(wal, 1, n)) => Recover(snapshot, SubSeq(wal, 1, n), now) \in Partly
    BY Zenon, <1>0, <1>5, KeptRecovers
  <2> QED
    BY Zenon, <1>1, <1>5, <2>1, <2>2 DEF Explained, Allowed
<1>6. ASSUME NEW n \in 0..Len(wal'), Kept(n)'
      PROVE  Explained(SubSeq(wal, 1, n))' /\ Allowed(SubSeq(wal, 1, n))'
  <2>1. CASE wal' = wal
    <3>1. (Lo' <= n => Kept(n)) /\ SubSeq(wal', 1, n) = SubSeq(wal, 1, n)
      BY Zenon, <1>0, <1>1, <2>1, KeptBefore
    <3>2. Len(wal') - job'.n <= n => n = Len(wal)
      BY <1>2, <1>4, <2>1
    <3>3. Kept(n)
      BY Zenon, <1>0, <1>6, <3>1, <3>2, WholeLogKept DEF Kept
    <3> QED
      BY Zenon, <1>5, <2>1, <3>1, <3>3
  <2>2. ASSUME NEW r \in Debris, wal' = Append(wal, r)
        PROVE  Explained(SubSeq(wal, 1, n))' /\ Allowed(SubSeq(wal, 1, n))'
    <3>1. Len(wal') = Len(wal) + 1 /\ SubSeq(wal', 1, Len(wal) + 1) = wal'
      BY <1>0, <1>4, <2>2, DebrisIsNoRecord
    <3>2. CASE n \in 0..Len(wal)
      <4>1. (Lo' <= n => Kept(n)) /\ SubSeq(wal', 1, n) = SubSeq(wal, 1, n)
        BY Zenon, <1>0, <1>1, <2>2, <3>2, KeptBefore
      <4>2. ~(Len(wal') - job'.n <= n)
        BY <1>2, <1>4, <3>1, <3>2
      <4>3. Kept(n)
        BY Zenon, <1>6, <4>1, <4>2 DEF Kept
      <4> QED
        BY Zenon, <1>5, <3>2, <4>1, <4>3
    <3>3. CASE n = Len(wal) + 1
      <4>1. ASSUME Replayable(wal') PROVE Replayable(wal) /\ Records(wal') = Records(wal)
        BY Zenon, <1>0, <2>2, <4>1, DebrisIsNoRecord, AppendedFile
      <4>2. Replayable(wal) => Recover(snapshot, wal, now) \in Partly
        BY Zenon, <1>0, WholeLogKept, KeptRecovers
      <4> QED
        BY Zenon, <1>1, <1>4, <3>1, <3>3, <4>1, <4>2 DEF Explained, Allowed, Recover
    <3>4. n \in 0..Len(wal) \/ n = Len(wal) + 1
      BY <1>4, <3>1
    <3> QED
      BY Zenon, <3>2, <3>3, <3>4
  <2> QED
    BY Zenon, <1>1, <2>1, <2>2
<1>7. Explained(stable)' /\ Allowed(stable)'
  BY Zenon, <1>1, <1>3 DEF AckBody, Explained, Allowed
<1>8. mem' \in possible'
  BY Zenon, <1>1, <1>3 DEF AckBody
<1> QED
  BY Zenon, <1>1, <1>2, <1>6, <1>7, <1>8 DEF AckBody

\* The answers to blind writes: every state they allow has the whole section applied.
LEMMA BlindAnswers ==
  ASSUME OnlyBlind, JobShape, job.phase = "apply", ApplyToMemory
  PROVE  /\ mem' = ApplyAll(mem, job.cmds, now)
         /\ \A s \in possible : ApplyAll(s, job.cmds, now) \in possible'
<1>1. job.cmds \in Seq(Command) /\ job.cmds # <<>>
  BY DEF JobShape, Job
<1> DEFINE c == job.cmds[1]
<1>2. c \in Command
  BY <1>1
<1>3. Blind(c) /\ c[1] # "cas"
  BY Zenon, <1>2 DEF OnlyBlind, Blind
<1>4. mem' = ApplyAll(mem, job.cmds, now)
  BY Zenon, <1>3 DEF ApplyToMemory, ApplyInMemory
<1>5. CASE Len(job.cmds) = 1
  <2>1. job.cmds = <<c>>
    BY <1>1, <1>5
  <2> HIDE DEF c
  <2>2. possible' = Answered(c)
    BY Zenon, <1>5 DEF ApplyToMemory, c
  <2>3. Answered(c) = {ApplyRecord(s, c, now) : s \in possible}
    BY <1>3 DEF Answered
  <2>4. \A s \in possible : ApplyAll(s, job.cmds, now) = ApplyRecord(s, c, now)
    BY Zenon, <2>1, ApplyOne
  <2> QED
    BY Zenon, <1>4, <2>2, <2>3, <2>4
<1>6. CASE Len(job.cmds) # 1
  <2>1. possible' = {ApplyAll(s, job.cmds, now) : s \in possible}
    BY Zenon, <1>6 DEF ApplyToMemory
  <2> QED
    BY Zenon, <1>4, <2>1
<1> QED
  BY Zenon, <1>5, <1>6

\* Applying what was synced keeps it.
LEMMA AckApplies ==
  ASSUME OnlyBlind, Shapes, TailInv, AckBody, ApplyToMemory
  PROVE  AckBody'
<1>0. /\ FileShape /\ JobShape /\ wal \in Seq(Written) /\ job.cmds \in Seq(Command)
      /\ mem \in Data /\ NoDeadlines(mem)
  BY DEF Shapes, FileShape, JobShape, Job, DataShape, AckBody
<1>1. UNCHANGED <<wal, stable, snapshot, now>> /\ job.phase = "apply" /\ job' = Idle
  BY Zenon DEF ApplyToMemory
<1>2. job'.n = 0 /\ job'.phase = "idle"
  BY <1>1 DEF Idle
<1>3. /\ mem' = ApplyAll(mem, job.cmds, now)
      /\ \A s \in possible : ApplyAll(s, job.cmds, now) \in possible'
  BY Zenon, <1>0, <1>1, BlindAnswers
<1>4. NoDeadlines(mem') /\ mem' \in possible'
  BY Zenon, <1>0, <1>3, BlindIsTimeless, TimelessReplay DEF AckBody
<1>5. /\ stable = wal /\ job.n = Len(job.cmds) /\ job.n <= Len(wal)
      /\ \A i \in 1..job.n : wal[Len(wal) - job.n + i] = job.cmds[i]
  BY Zenon, <1>1 DEF AckBody, TailInv
<1>6. job.n \in Nat /\ Len(wal) \in Nat /\ Len(wal) - job.n \in 0..Len(wal) /\ job.n # 0
  <2>1. job.n # 0
    BY <1>0, <1>1, <1>5 DEF JobShape
  <2> QED
    BY Zenon, <1>0, <2>1, SectionNumbers
<1>7. ASSUME Replayable(wal)
      PROVE  /\ Records(wal) = wal
             /\ Recover(snapshot, wal, now) \in possible'
  <2>1. SubSeq(wal, 1, Len(wal) - job.n + job.n) = wal /\ job.n \in 0..job.n /\ job.n > 0
    <3>1. Len(wal) - job.n + job.n = Len(wal) /\ job.n \in 0..job.n /\ job.n > 0
      BY <1>6
    <3>2. SubSeq(wal, 1, Len(wal)) = wal
      BY <1>0
    <3> QED
      BY Zenon, <3>1, <3>2
  <2>2. /\ Replayable(Before) /\ Records(wal) = wal
        /\ Recover(snapshot, wal, now)
             = ApplyAll(Recover(snapshot, Before, now), SubSeq(job.cmds, 1, job.n), now)
    BY Zenon, <1>0, <1>7, <2>1, SectionReplay
  <2>3. SubSeq(job.cmds, 1, job.n) = job.cmds
    BY <1>0, <1>5
  <2>4. Recover(snapshot, Before, now) \in possible
    <3>1. Kept(Len(wal) - job.n) /\ Len(wal) - job.n <= Len(wal) - job.n
      BY <1>6 DEF Kept
    <3>2. Allowed(Before)
      BY Zenon, <1>6, <3>1 DEF AckBody, Before
    <3> QED
      BY Zenon, <2>2, <3>2 DEF Allowed
  <2> QED
    BY Zenon, <1>3, <2>2, <2>3, <2>4
<1>8. ASSUME Replayable(wal), NEW k \in Key PROVE Touched(Records(wal), k) \/ snapshot[k] = mem'[k]
  <2>1. Records(wal) = wal
    BY Zenon, <1>7, <1>8
  <2>2. Touched(job.cmds, k) => Touched(wal, k)
    <3>1. \A i \in 1..job.n : Len(wal) - job.n + i \in 1..Len(wal)
      BY <1>5, <1>6
    <3>2. \A i \in 1..Len(job.cmds) :
            Len(wal) - job.n + i \in 1..Len(wal) /\ wal[Len(wal) - job.n + i] = job.cmds[i]
      BY Zenon, <1>5, <3>1
    <3> QED
      BY Zenon, <3>2 DEF Touched
  <2>3. Touched(wal, k) \/ snapshot[k] = mem[k]
    BY Zenon, <1>0, <1>8, <2>1, WholeLogKept DEF AckBody, Explained
  <2>4. ~Touched(job.cmds, k) => ApplyAll(mem, job.cmds, now)[k] = mem[k]
    BY SMTT(30), <1>0, BlindReplay
  <2> QED
    BY Zenon, <1>3, <2>1, <2>2, <2>3, <2>4
<1>9. Explained(wal)' /\ Allowed(wal)'
  BY Zenon, <1>1, <1>7, <1>8 DEF Explained, Allowed
<1>10. ASSUME NEW n \in 0..Len(wal'), Kept(n)' PROVE SubSeq(wal', 1, n) = wal'
  <2>1. SubSeq(wal, 1, Len(wal)) = wal /\ Len(wal) <= Len(wal)
    BY <1>0, <1>6
  <2>2. SyncedFirst'
    BY Zenon, <1>1, <1>5, <2>1 DEF SyncedFirst
  <2>5. Lo' = Len(wal)
    BY Zenon, <1>1, <1>5, <2>2 DEF Lo
  <2>3. Len(wal) <= n \/ Len(wal) - 0 <= n
    BY Zenon, <1>1, <1>2, <1>10, <2>5 DEF Kept
  <2>4. n = Len(wal)
    BY <1>1, <1>6, <2>3
  <2> QED
    BY <1>0, <1>1, <2>4
<1>11. \A n \in 0..Len(wal') : Kept(n)' => Explained(SubSeq(wal, 1, n))' /\ Allowed(SubSeq(wal, 1, n))'
  BY Zenon, <1>9, <1>10
<1>12. Explained(stable)' /\ Allowed(stable)'
  BY Zenon, <1>1, <1>5, <1>9
<1> QED
  BY Zenon, <1>1, <1>2, <1>4, <1>11, <1>12 DEF AckBody

\* A snapshot of memory may replace the old one under every log that can be left.
LEMMA SnapshotCovers ==
  ASSUME OnlyBlind, DataShape, NEW f \in Seq(Written), Explained(f), Allowed(f), Replayable(f)
  PROVE  Recover(mem, f, now) \in possible
<1>1. Records(f) \in Seq(Command)
  BY Zenon, RecordsFacts
<1>2. ApplyAll(snapshot, Records(f), now) = ApplyAll(mem, Records(f), now)
  BY SMTT(30), <1>1, SameReplay DEF Explained, DataShape
<1> QED
  BY Zenon, <1>2 DEF Recover, Allowed

\* Saving a snapshot keeps it, whether the rename is reached or not.
LEMMA AckSaves ==
  ASSUME OnlyBlind, Shapes, TailInv, AckBody, SaveSnapshot \/ SaveSnapshotFails
  PROVE  AckBody'
<1>0. FileShape /\ JobShape /\ DataShape /\ wal \in Seq(Written) /\ stable \in Seq(Written)
  BY Zenon DEF Shapes, FileShape
<1>1. /\ UNCHANGED <<mem, wal, stable, possible, now>> /\ job = Idle
      /\ \/ snapshot' = mem /\ Begin("truncate", <<>>)
         \/ snapshot' \in {snapshot, mem} /\ job' = job
  BY Zenon DEF SaveSnapshot, SaveSnapshotFails
<1>2. job.n = 0 /\ job'.n = 0 /\ job.phase = "idle" /\ job'.phase \in {"idle", "truncate"}
      /\ (job'.phase = "truncate" => snapshot' = mem)
  BY <1>1 DEF Idle, Begin
<1>3. CASE snapshot' = snapshot
  <2>1. \A n : /\ Kept(n)' <=> Kept(n)
               /\ Explained(SubSeq(wal, 1, n))' <=> Explained(SubSeq(wal, 1, n))
               /\ Allowed(SubSeq(wal, 1, n))' <=> Allowed(SubSeq(wal, 1, n))
    BY Zenon, <1>1, <1>2, <1>3 DEF Kept, Lo, SyncedFirst, Explained, Allowed
  <2>2. (Explained(stable)' <=> Explained(stable)) /\ (Allowed(stable)' <=> Allowed(stable))
    BY Zenon, <1>1, <1>3 DEF Explained, Allowed
  <2> QED
    BY Zenon, <1>1, <1>2, <1>3, <2>1, <2>2 DEF AckBody
<1>4. CASE snapshot' = mem
  <2>2. \A n \in 0..Len(wal) : (Kept(n)' <=> Kept(n)) /\ n <= Len(wal) - job.n
    <3>1. Len(wal) \in Nat
      BY <1>0
    <3>2. \A n \in 0..Len(wal) : n <= Len(wal) - job.n
      BY <1>2, <3>1
    <3> QED
      BY Zenon, <1>1, <1>2, <3>2 DEF Kept, Lo, SyncedFirst
  <2>3. ASSUME NEW f \in Seq(Written), Explained(f), Allowed(f)
        PROVE  Replayable(f) => Recover(snapshot', f, now') \in possible'
    BY Zenon, <1>0, <1>1, <1>4, <2>3, SnapshotCovers
  <2>4. ASSUME NEW n \in 0..Len(wal), Kept(n)' PROVE Allowed(SubSeq(wal, 1, n))'
    <3>1. SubSeq(wal, 1, n) \in Seq(Written)
      BY Zenon, <1>0, PrefixFacts
    <3>2. Explained(SubSeq(wal, 1, n)) /\ Allowed(SubSeq(wal, 1, n))
      BY Zenon, <2>2, <2>4 DEF AckBody
    <3> QED
      BY Zenon, <1>1, <2>3, <3>1, <3>2 DEF Allowed
  <2>5. Allowed(stable)'
    BY Zenon, <1>0, <1>1, <1>2, <2>3 DEF AckBody, Allowed
  <2>6. NoDeadlines(snapshot') /\ NoDeadlines(mem') /\ mem' \in possible'
    BY Zenon, <1>1, <1>4 DEF AckBody
  <2>7. job'.phase # "apply" /\ job'.phase \in {"idle", "append", "apply", "truncate"}
    BY <1>2
  <2>8. \A n \in 0..Len(wal) : Kept(n)' => Explained(SubSeq(wal, 1, n))'
    BY Zenon, <1>1, <1>4 DEF Explained
  <2>9. Explained(stable)'
    BY Zenon, <1>1, <1>4 DEF Explained
  <2> QED
    BY Zenon, <1>1, <1>4, <2>4, <2>5, <2>6, <2>7, <2>8, <2>9 DEF AckBody
<1> QED
  BY Zenon, <1>1, <1>3, <1>4

\* Emptying the log keeps it: the snapshot is the state in memory.
LEMMA AckTruncates ==
  ASSUME OnlyBlind, Shapes, Shapes', TailInv, AckBody, Truncate \/ TruncateFails
  PROVE  AckBody'
<1>0. job.phase = "truncate" /\ snapshot = mem
  <2>1. job.phase \in {"truncate", "discard"}
    BY Zenon DEF Truncate, TruncateFails
  <2>2. job.phase \in {"idle", "append", "apply", "truncate"}
    BY Zenon DEF AckBody
  <2>3. job.phase = "truncate"
    BY <2>1, <2>2
  <2> QED
    BY Zenon, <2>3 DEF AckBody
<1>1. /\ UNCHANGED <<mem, snapshot, possible, now>> /\ job' = Idle
      /\ \/ wal' = wal /\ stable' = stable
         \/ wal' \in {<<>>, <<Unstamped>>} /\ stable' \in {stable, <<>>}
  BY SMTT(30), <1>0 DEF Truncate, TruncateFails
<1>2. job'.n = 0 /\ job'.phase = "idle" /\ job.n = 0
  <2>1. job'.n = 0 /\ job'.phase = "idle" /\ job.phase \notin {"append", "apply"}
    BY <1>0, <1>1 DEF Idle
  <2> QED
    BY Zenon, <2>1 DEF TailInv
<1>3. CASE wal' = wal /\ stable' = stable
  <2>1. job'.phase \in {"idle", "append"} /\ job.phase # "apply"
    BY <1>0, <1>2
  <2> QED
    BY Zenon, <1>1, <1>2, <1>3, <2>1, AckFrame
<1>4. CASE wal' \in {<<>>, <<Unstamped>>} /\ stable' \in {stable, <<>>}
  <2>1. \A f \in {<<>>, <<Unstamped>>} : Recover(snapshot, f, now) = snapshot
    <3>1. <<Unstamped>> \in Seq(Written) /\ Stamped(<<Unstamped>>) = <<>>
      BY DEF Written, Stamped
    <3>2. Records(<<Unstamped>>) = Records(<<>>)
      BY Zenon, <3>1, StampedRecords
    <3> QED
      BY Zenon, <3>2, EmptyLog DEF Recover
  <2>2. ASSUME NEW n \in 0..Len(wal') PROVE SubSeq(wal', 1, n) \in {<<>>, <<Unstamped>>}
    <3>1. CASE wal' = <<>>
      BY <3>1
    <3>2. CASE wal' = <<Unstamped>>
      <4>1. n \in {0, 1}
        BY <3>2
      <4>2. SubSeq(wal', 1, 0) = <<>> /\ SubSeq(wal', 1, 1) = wal'
        <5>1. Len(wal') = 1 /\ wal' \in Seq(Written)
          BY <3>2 DEF Shapes, FileShape
        <5>2. \A S : \A w \in Seq(S) : SubSeq(w, 1, 0) = <<>> /\ SubSeq(w, 1, Len(w)) = w
          OBVIOUS
        <5> QED
          BY Zenon, <5>1, <5>2
      <4> QED
        BY Zenon, <3>2, <4>1, <4>2
    <3> QED
      BY Zenon, <1>4, <3>1, <3>2
  <2>3. snapshot \in possible
    BY Zenon, <1>0 DEF AckBody
  <2>4. \A n \in 0..Len(wal') : Explained(SubSeq(wal, 1, n))' /\ Allowed(SubSeq(wal, 1, n))'
    BY Zenon, <1>0, <1>1, <2>1, <2>2, <2>3 DEF Explained, Allowed
  <2>5. Explained(stable)'
    BY Zenon, <1>0, <1>1 DEF Explained
  <2>6. Allowed(stable)'
    <3>1. job.phase # "apply"
      BY <1>0
    <3>2. Replayable(stable) => Recover(snapshot, stable, now) \in possible
      BY Zenon, <3>1 DEF AckBody, Allowed
    <3> QED
      BY Zenon, <1>1, <1>4, <2>1, <2>3, <3>2 DEF Allowed
  <2> QED
    BY Zenon, <1>1, <1>2, <2>4, <2>5, <2>6 DEF AckBody
<1> QED
  BY Zenon, <1>1, <1>3, <1>4

\* So does time: no blind write looks at the clock.
LEMMA AckTicks ==
  ASSUME OnlyBlind, Shapes, TailInv, AckBody, Tick
  PROVE  AckBody'
<1>0. wal \in Seq(Written) /\ stable \in Seq(Written) /\ snapshot \in Data /\ NoDeadlines(snapshot) /\ Timeless
  BY Zenon, BlindIsTimeless DEF Shapes, FileShape, DataShape, AckBody
<1>1. UNCHANGED <<mem, wal, stable, snapshot, job, possible>>
  BY Zenon DEF Tick, store
<1>2. ASSUME NEW f \in Seq(Written), Replayable(f)
      PROVE  Recover(snapshot, f, now') = Recover(snapshot, f, now)
  <2>1. Records(f) \in Seq(Command)
    BY Zenon, <1>2, RecordsFacts
  <2> QED
    BY Zenon, <1>0, <2>1, TimelessReplay DEF Recover
<1>3. \A n \in 0..Len(wal) : /\ Kept(n)' <=> Kept(n)
                             /\ Explained(SubSeq(wal, 1, n))' <=> Explained(SubSeq(wal, 1, n))
                             /\ Allowed(SubSeq(wal, 1, n))' <=> Allowed(SubSeq(wal, 1, n))
  <2>1. \A n \in 0..Len(wal) : SubSeq(wal, 1, n) \in Seq(Written)
    BY Zenon, <1>0, PrefixFacts
  <2> QED
    BY Zenon, <1>1, <1>2, <2>1 DEF Kept, Lo, SyncedFirst, Explained, Allowed
<1>4. (Explained(stable)' <=> Explained(stable)) /\ (Allowed(stable)' <=> Allowed(stable))
  BY Zenon, <1>0, <1>1, <1>2 DEF Explained, Allowed
<1> QED
  BY Zenon, <1>1, <1>3, <1>4 DEF AckBody

\* So does opening the store after a crash: what was recovered is what is served.
LEMMA AckOpens ==
  ASSUME OnlyBlind, Shapes, Shapes', AckBody, CrashAndOpen, Working'
  PROVE  AckBody'
<1>0. /\ FileShape /\ FileShape' /\ snapshot \in Data /\ NoDeadlines(snapshot) /\ Timeless
  BY Zenon, BlindIsTimeless DEF Shapes, DataShape, AckBody
<1>1. PICK f \in Survivors :
        /\ wal' = Stamped(f) /\ stable' = Stamped(f) /\ Replayable(f)
        /\ mem' = Recover(snapshot, f, now) /\ possible' = {mem'}
  BY Zenon DEF CrashAndOpen, Working
<1>2. job' = Idle /\ UNCHANGED <<snapshot, now>>
  BY Zenon DEF CrashAndOpen
<1>3. job'.phase = "idle" /\ job'.n = 0
  BY <1>2 DEF Idle
<1>4. f \in Seq(Written) /\ Records(f) \in Seq(Command) /\ Records(wal') = Records(f)
  BY Zenon, <1>0, <1>1, SurvivorShape, RecordsFacts, StampedRecords
<1>5. NoDeadlines(mem')
  BY Zenon, <1>0, <1>1, <1>4, TimelessReplay DEF Recover
<1>6. Allowed(wal)'
  BY Zenon, <1>1, <1>2, <1>4 DEF Allowed, Recover
<1>7. Explained(wal)'
  <2>1. ASSUME NEW k \in Key, ~Touched(Records(f), k)
        PROVE  ApplyAll(snapshot, Records(f), now)[k] = snapshot[k]
    BY SMTT(30), <1>0, <1>4, <2>1, BlindReplay
  <2> QED
    BY Zenon, <1>1, <1>2, <1>4, <2>1 DEF Explained, Recover
<1>8. ASSUME NEW n \in 0..Len(wal'), Kept(n)' PROVE SubSeq(wal', 1, n) = wal'
  <2>1. wal' \in Seq(Written) /\ Len(wal') \in Nat
    BY <1>0 DEF FileShape
  <2>2. SyncedFirst' /\ Len(stable') = Len(wal')
    BY <1>1, <2>1 DEF SyncedFirst
  <2>3. Len(wal') <= n \/ Len(wal') - 0 <= n
    BY Zenon, <1>3, <1>8, <2>2 DEF Kept, Lo
  <2>4. n = Len(wal')
    BY <2>1, <2>3
  <2> QED
    BY <2>1, <2>4
<1>9. \A n \in 0..Len(wal') : Kept(n)' => Explained(SubSeq(wal, 1, n))' /\ Allowed(SubSeq(wal, 1, n))'
  BY Zenon, <1>6, <1>7, <1>8
<1>10. Explained(stable)' /\ Allowed(stable)'
  BY Zenon, <1>1, <1>6, <1>7
<1>11. mem' \in possible'
  BY Zenon, <1>1
<1> QED
  BY Zenon, <1>0, <1>2, <1>3, <1>5, <1>9, <1>10, <1>11 DEF AckBody

\* Every step of an open store keeps it.
LEMMA AckStep ==
  ASSUME OnlyBlind, Shapes, Shapes', TailInv, AckBody, Next, Working'
  PROVE  AckBody'
<1>0. mem \in Data /\ NoDeadlines(mem)
  BY Zenon DEF Shapes, DataShape, AckBody
<1>1. ASSUME NEW c \in Command, Collect(c) PROVE AckBody'
  <2>1. UNCHANGED <<mem, wal, stable, snapshot, possible, now>> /\ job = Idle /\ job' = job
    BY Zenon, <1>1 DEF Collect
  <2>2. job'.n = job.n /\ job'.phase \in {"idle", "append"} /\ job.phase # "apply"
    BY <2>1 DEF Idle
  <2> QED
    BY Zenon, <2>1, <2>2, AckFrame
<1>2. CASE WriteBatch
  <2>1. UNCHANGED <<mem, wal, stable, snapshot, possible, now>> /\ job = Idle /\ Begin("append", batch)
    BY Zenon, <1>2 DEF WriteBatch
  <2>2. job'.n = job.n /\ job'.phase \in {"idle", "append"} /\ job.phase # "apply"
    BY <2>1 DEF Idle, Begin
  <2> QED
    BY Zenon, <2>1, <2>2, AckFrame
<1>3. ASSUME NEW c \in Command PROVE ~WriteSingle(c)
  BY Zenon DEF WriteSingle, OnlyBlind
<1>4. ~(\E d \in Installable : RestoreSnapshot(d))
  BY Zenon DEF OnlyBlind
<1>5. ~SaveRestored /\ ~SaveRestoredFails
  <2>1. job.phase # "save"
    BY DEF AckBody
  <2> QED
    BY Zenon, <2>1 DEF SaveRestored, SaveRestoredFails
<1>6. ~ExpireLoop /\ \A k \in Key : ~Get(k)
  BY Zenon, <1>0, NothingExpires DEF ExpireLoop, Get
<1> QED
  BY ZenonT(40), <1>1, <1>2, <1>3, <1>4, <1>5, <1>6, AckAppends, AckSyncs, AckFails, AckApplies, AckSaves,
    AckTruncates, AckTicks, AckOpens DEF Next

\* Put, Delete and Clear with any failing file operations, compactions and crashes: whatever
\* a crash leaves of the log, the store that is opened from it holds every acknowledged
\* write, in order, and nothing that was not submitted.
THEOREM AcknowledgedWritesSurvive == OnlyBlind => (Spec => []RecoveredIsAdmissible)
<1> SUFFICES ASSUME OnlyBlind PROVE Spec => []RecoveredIsAdmissible
  OBVIOUS
<1>1. Init => AckInv
  <2> SUFFICES ASSUME Init PROVE AckBody
    BY Zenon DEF AckInv
  <2>1. /\ mem = NewMemStore /\ snapshot = NewMemStore /\ wal = <<>> /\ stable = <<>> /\ job = Idle
        /\ possible = {NewMemStore}
    BY Zenon DEF Init
  <2>2. NoDeadlines(NewMemStore)
    BY Zenon DEF NoDeadlines, NewMemStore
  <2>3. job.phase = "idle" /\ \A n \in 0..Len(wal) : SubSeq(wal, 1, n) = <<>>
    BY <2>1 DEF Idle
  <2>4. Explained(<<>>) /\ Allowed(<<>>)
    BY Zenon, <2>1, EmptyLog DEF Explained, Allowed
  <2>5. mem \in possible
    BY Zenon, <2>1
  <2> QED
    BY Zenon, <2>1, <2>2, <2>3, <2>4, <2>5 DEF AckBody
<1>2. Shapes /\ Shapes' /\ TailInv /\ AckInv /\ [Next]_vars => AckInv'
  <2>1. ASSUME AckInv, UNCHANGED vars PROVE AckInv'
    BY Zenon, <2>1 DEF vars, store, counts, AckInv, AckBody, Working, Kept, Lo, SyncedFirst, Explained, Allowed
  <2>2. ASSUME Shapes, Shapes', TailInv, AckInv, Next PROVE AckInv'
    <3> SUFFICES ASSUME Working' PROVE AckBody'
      BY Zenon DEF AckInv
    <3>1. Working
      BY Zenon, <2>2 DEF Next, Collect, WriteSingle, WriteBatch, AppendRecord, Sync, WriteFails, ApplyToMemory,
        SaveSnapshot, SaveSnapshotFails, Truncate, TruncateFails, RestoreSnapshot, SaveRestored,
        SaveRestoredFails, Tick, ExpireLoop, Get, CrashAndOpen
    <3> QED
      BY Zenon, <2>2, <3>1, AckStep DEF AckInv
  <2> QED
    BY Zenon, <2>1, <2>2
<1>3. Shapes /\ TailInv /\ AckInv => RecoveredIsAdmissible
  <2>1. ASSUME Shapes, TailInv, AckBody PROVE RecoveredIsAdmissible
    BY Zenon, <2>1, AckIsAdmissible
  <2>2. ~Working => RecoveredIsAdmissible
    BY Zenon DEF RecoveredIsAdmissible
  <2> QED
    BY Zenon, <2>1, <2>2 DEF AckInv
<1> QED
  BY <1>1, <1>2, <1>3, ShapesInvariant, TailInvariant, PTL DEF Spec

(***************************************************************************)
(* Deadlines: what is dead stays dead                                      *)
(***************************************************************************)

\* No increments, and no states installed on a plain log, which an unsynced truncation
\* may bring back under them.
NoneReborn == (\A c \in Command : c[1] # "incr") /\ (Encrypted \/ Installable = {})

\* At time t one state has no key alive that the other has not.
Fewer(d, e, t) == \A k \in Key : Live(d, k, t) => Live(e, k, t)

\* What is alive was so earlier.
LEMMA AliveBefore ==
  ASSUME NEW d \in Data, NEW k \in Key, NEW t \in Nat, NEW u \in Nat, t <= u, Live(d, k, u)
  PROVE  Live(d, k, t)
<1>1. d[k] # Absent /\ ~EntryExpired(d[k], u)
  BY Zenon DEF Live
<1>2. d[k] \in Entry
  BY Zenon, <1>1 DEF Data
<1>3. d[k].Exp \in Nat
  BY Zenon, <1>2 DEF Entry
<1>4. ~EntryExpired(d[k], t)
  BY <1>1, <1>3 DEF EntryExpired
<1> QED
  BY Zenon, <1>1, <1>4 DEF Live

\* What the mutations of the map make of each key.
LEMMA MapKeys ==
  ASSUME NEW d \in Data, NEW k \in Key, NEW y \in Key, NEW t
  PROVE  /\ \A v : MemPut(d, k, v)[y] = IF y = k THEN [Value |-> v, Exp |-> 0] ELSE d[y]
         /\ MemDelete(d, k)[y] = IF y = k THEN Absent ELSE d[y]
         /\ NewMemStore[y] = Absent
         /\ DropDead(d, k, t)[y] = IF y = k /\ d[k] # Absent /\ ~Live(d, k, t) THEN Absent ELSE d[y]
         /\ \A at : Live(d, k, t) => MemExpire(d, k, at, t)[y] = IF y = k THEN [d[k] EXCEPT !.Exp = at] ELSE d[y]
<1>0. d \in [Key -> Entry \cup {Absent}]
  BY Zenon DEF Data
<1>1. \A v : MemPut(d, k, v)[y] = IF y = k THEN [Value |-> v, Exp |-> 0] ELSE d[y]
  BY Zenon, <1>0 DEF MemPut
<1>2. MemDelete(d, k)[y] = IF y = k THEN Absent ELSE d[y]
  BY Zenon, <1>0 DEF MemDelete
<1>3. NewMemStore[y] = Absent
  BY Zenon DEF NewMemStore
<1>4. DropDead(d, k, t)[y] = IF y = k /\ d[k] # Absent /\ ~Live(d, k, t) THEN Absent ELSE d[y]
  BY Zenon, <1>0 DEF DropDead, Live
<1>5. ASSUME NEW at, Live(d, k, t)
      PROVE  MemExpire(d, k, at, t)[y] = IF y = k THEN [d[k] EXCEPT !.Exp = at] ELSE d[y]
  BY <1>0, <1>5 DEF MemExpire
<1> QED
  BY Zenon, <1>1, <1>2, <1>3, <1>4, <1>5

\* A key that was put is alive; one with a deadline is alive until then; and a key is as
\* alive as its entry.
LEMMA EntriesAlive ==
  ASSUME NEW d, NEW k, NEW t
  PROVE  /\ \A v \in Text : d[k] = [Value |-> v, Exp |-> 0] => Live(d, k, t)
         /\ \A e \in Entry, at \in Nat :
              d[k] = [e EXCEPT !.Exp = at] => (Live(d, k, t) <=> ~(at # 0 /\ t >= at))
         /\ d[k] = Absent => ~Live(d, k, t)
         /\ \A e : d[k] = e[k] => (Live(d, k, t) <=> Live(e, k, t))
<1>1. ASSUME NEW v \in Text, d[k] = [Value |-> v, Exp |-> 0] PROVE Live(d, k, t)
  <2>1. d[k].Exp = 0 /\ d[k] \in Entry
    BY <1>1 DEF Entry
  <2> QED
    BY Zenon, <2>1, AbsentAssumption DEF Live, EntryExpired
<1>2. ASSUME NEW e \in Entry, NEW at \in Nat, d[k] = [e EXCEPT !.Exp = at]
      PROVE  Live(d, k, t) <=> ~(at # 0 /\ t >= at)
  <2>1. d[k].Exp = at /\ d[k] \in Entry
    BY <1>2 DEF Entry
  <2> QED
    BY Zenon, <2>1, AbsentAssumption DEF Live, EntryExpired
<1>3. (d[k] = Absent => ~Live(d, k, t)) /\ \A e : d[k] = e[k] => (Live(d, k, t) <=> Live(e, k, t))
  BY Zenon DEF Live
<1> QED
  BY Zenon, <1>1, <1>2, <1>3

\* A record applied later to a state that has fewer keys alive leaves fewer alive.
LEMMA RecordKeepsFewer ==
  ASSUME NEW d \in Data, NEW e \in Data, NEW c \in Command, c[1] # "incr",
         NEW t \in Nat, NEW u \in Nat, t <= u, Fewer(d, e, u)
  PROVE  Fewer(ApplyRecord(d, c, u), ApplyRecord(e, c, t), u)
<1> DEFINE dd == ApplyRecord(d, c, u)
           ee == ApplyRecord(e, c, t)
<1> SUFFICES ASSUME NEW y \in Key, Live(dd, y, u) PROVE Live(ee, y, u)
  BY Zenon DEF Fewer
<1>0. Live(d, y, u) => Live(e, y, u) /\ Live(e, y, t)
  BY SMTT(30), AliveBefore DEF Fewer
<1>a. /\ dd[y] = d[y] => Live(d, y, u)
      /\ dd[y] # Absent
      /\ ee[y] = e[y] => (Live(ee, y, u) <=> Live(e, y, u))
      /\ \A v \in Text : ee[y] = [Value |-> v, Exp |-> 0] => Live(ee, y, u)
  <2> HIDE DEF dd, ee
  <2> QED
    BY Zenon, EntriesAlive
<1>1. CASE c[1] = "clear"
  <2>1. dd = NewMemStore
    BY <1>1 DEF ApplyRecord
  <2> QED
    BY SMTT(30), <1>a, <2>1, MapKeys
<1>2. CASE c[1] = "delete" /\ c[2] \in Key
  <2>1. dd = MemDelete(d, c[2]) /\ ee = MemDelete(e, c[2])
    BY <1>2 DEF ApplyRecord
  <2> HIDE DEF dd, ee
  <2>2. dd[y] = (IF y = c[2] THEN Absent ELSE d[y]) /\ ee[y] = (IF y = c[2] THEN Absent ELSE e[y])
    BY SMTT(30), <1>2, <2>1, MapKeys
  <2> QED
    BY Zenon, <1>0, <2>2, <1>a
<1>3. CASE c[1] = "put" /\ c[2] \in Key /\ c[3] \in Text
  <2>1. dd = MemPut(d, c[2], c[3]) /\ ee = MemPut(e, c[2], c[3])
    BY <1>3 DEF ApplyRecord
  <2> HIDE DEF dd, ee
  <2>2. /\ dd[y] = IF y = c[2] THEN [Value |-> c[3], Exp |-> 0] ELSE d[y]
        /\ ee[y] = IF y = c[2] THEN [Value |-> c[3], Exp |-> 0] ELSE e[y]
    BY SMTT(30), <1>3, <2>1, MapKeys
  <2> QED
    BY Zenon, <1>0, <1>3, <2>2, <1>a
<1>4. CASE c[1] = "cas" /\ c[2] \in Key /\ c[3] \in Text /\ c[4] \in Text
  <2>1. dd = MemCAS(d, c[2], c[3], c[4], u) /\ ee = MemCAS(e, c[2], c[3], c[4], t)
    BY <1>4 DEF ApplyRecord
  <2>2. /\ (dd = MemPut(d, c[2], c[4]) /\ Live(d, c[2], u)) \/ dd = DropDead(d, c[2], u)
        /\ ee = MemPut(e, c[2], c[4]) \/ ee = DropDead(e, c[2], t)
    BY Zenon, <2>1 DEF MemCAS
  <2> HIDE DEF dd, ee
  <2>3. Live(d, y, u)
    <3>1. CASE dd = MemPut(d, c[2], c[4]) /\ Live(d, c[2], u)
      <4>1. dd[y] = IF y = c[2] THEN [Value |-> c[4], Exp |-> 0] ELSE d[y]
        BY SMTT(30), <1>4, <3>1, MapKeys
      <4> QED
        BY Zenon, <3>1, <4>1, <1>a
    <3>2. CASE dd = DropDead(d, c[2], u)
      <4>1. dd[y] = IF y = c[2] /\ d[c[2]] # Absent /\ ~Live(d, c[2], u) THEN Absent ELSE d[y]
        BY SMTT(30), <1>4, <3>2, MapKeys
      <4> QED
        BY Zenon, <4>1, <1>a
    <3> QED
      BY Zenon, <2>2, <3>1, <3>2
  <2>4. CASE ee = MemPut(e, c[2], c[4])
    <3>1. ee[y] = IF y = c[2] THEN [Value |-> c[4], Exp |-> 0] ELSE e[y]
      BY SMTT(30), <1>4, <2>4, MapKeys
    <3> QED
      BY Zenon, <1>0, <1>4, <2>3, <3>1, <1>a
  <2>5. CASE ee = DropDead(e, c[2], t)
    <3>1. ee[y] = IF y = c[2] /\ e[c[2]] # Absent /\ ~Live(e, c[2], t) THEN Absent ELSE e[y]
      BY SMTT(30), <1>4, <2>5, MapKeys
    <3> QED
      BY Zenon, <1>0, <2>3, <3>1, <1>a
  <2> QED
    BY Zenon, <2>2, <2>4, <2>5
<1>5. CASE c[1] = "expire" /\ c[2] \in Key /\ c[3] \in Nat
  <2>1. dd = MemExpire(d, c[2], c[3], u) /\ ee = MemExpire(e, c[2], c[3], t)
    BY <1>5 DEF ApplyRecord
  <2>2. /\ ~Live(d, c[2], u) => dd = DropDead(d, c[2], u)
        /\ ~Live(e, c[2], t) => ee = DropDead(e, c[2], t)
    BY Zenon, <2>1 DEF MemExpire
  <2> HIDE DEF dd, ee
  <2>3. /\ dd[y] = IF Live(d, c[2], u) THEN IF y = c[2] THEN [d[c[2]] EXCEPT !.Exp = c[3]] ELSE d[y]
                   ELSE IF y = c[2] /\ d[c[2]] # Absent THEN Absent ELSE d[y]
        /\ ee[y] = IF Live(e, c[2], t) THEN IF y = c[2] THEN [e[c[2]] EXCEPT !.Exp = c[3]] ELSE e[y]
                   ELSE IF y = c[2] /\ e[c[2]] # Absent THEN Absent ELSE e[y]
    BY SMTT(40), <1>5, <2>1, <2>2, MapKeys
  <2>4. CASE y # c[2]
    BY Zenon, <1>0, <2>3, <2>4, <1>a
  <2>5. CASE y = c[2]
    <3>1. Live(d, y, u)
      BY Zenon, <2>3, <2>5, <1>a
    <3>2. d[y] \in Entry /\ e[y] \in Entry
      BY Zenon, <1>0, <3>1 DEF Live, Data
    <3>3. dd[y] = [d[y] EXCEPT !.Exp = c[3]] /\ ee[y] = [e[y] EXCEPT !.Exp = c[3]]
      BY Zenon, <1>0, <2>3, <2>5, <3>1
    <3>4. /\ Live(dd, y, u) <=> ~(c[3] # 0 /\ u >= c[3])
          /\ Live(ee, y, u) <=> ~(c[3] # 0 /\ u >= c[3])
      BY SMTT(40), <1>5, <3>2, <3>3, EntriesAlive
    <3> QED
      BY Zenon, <3>4
  <2> QED
    BY Zenon, <2>4, <2>5
<1> HIDE DEF dd, ee
<1> QED
  BY Zenon, <1>1, <1>2, <1>3, <1>4, <1>5, CommandKinds

\* So does a replay.
LEMMA ReplayKeepsFewer ==
  ASSUME NoneReborn, NEW d \in Data, NEW e \in Data, NEW cmds \in Seq(Command),
         NEW t \in Nat, NEW u \in Nat, t <= u, Fewer(d, e, u)
  PROVE  Fewer(ApplyAll(d, cmds, u), ApplyAll(e, cmds, t), u)
<1>1. PICK f : IsRun(f, d, cmds, u) /\ ApplyAll(d, cmds, u) = f[Len(cmds)]
  BY Zenon, ApplyAllRuns
<1>2. PICK g : IsRun(g, e, cmds, t) /\ ApplyAll(e, cmds, t) = g[Len(cmds)]
  BY Zenon, ApplyAllRuns
<1>3. Len(cmds) \in Nat /\ (\A n \in 1..Len(cmds) : cmds[n] \in Command) /\ Len(cmds) \in 0..Len(cmds)
      /\ \A n \in 1..Len(cmds) : n \in Nat
  OBVIOUS
<1>4. f[0] = d /\ \A n \in 1..Len(cmds) : f[n] = ApplyRecord(f[n - 1], cmds[n], u)
  BY SMTT(40), <1>1, <1>3, RunSteps
<1>5. g[0] = e /\ \A n \in 1..Len(cmds) : g[n] = ApplyRecord(g[n - 1], cmds[n], t)
  BY SMTT(30), <1>2, <1>3, RunSteps
<1> DEFINE T == {n \in Nat : f[n] \in Data /\ g[n] \in Data /\ Fewer(f[n], g[n], u)}
<1>6. 0 \in T
  BY Zenon, <1>4, <1>5
<1>7. ASSUME NEW n \in 1..Len(cmds), n - 1 \in T PROVE n \in T
  <2>1. f[n - 1] \in Data /\ g[n - 1] \in Data /\ Fewer(f[n - 1], g[n - 1], u)
    BY Zenon, <1>7
  <2>2. cmds[n] \in Command /\ cmds[n][1] # "incr"
    BY Zenon, <1>3 DEF NoneReborn
  <2>3. f[n] \in Data /\ g[n] \in Data
    BY Zenon, <1>4, <1>5, <2>1, <2>2, RecordShape
  <2>4. Fewer(ApplyRecord(f[n - 1], cmds[n], u), ApplyRecord(g[n - 1], cmds[n], t), u)
    BY SMTT(40), <2>1, <2>2, RecordKeepsFewer
  <2> QED
    BY Zenon, <1>3, <1>4, <1>5, <2>3, <2>4
<1>8. 0..Len(cmds) \subseteq T
  <2> HIDE DEF T
  <2> QED
    BY Zenon, <1>3, <1>6, <1>7, UpTo
<1> QED
  BY Zenon, <1>1, <1>2, <1>3, <1>8

\* The command sets the key to a value of its own.
Sets(c, k) == Blind(c) /\ Hits(c, k)

\* A command treats alike what is alike, and revives nothing that it does not set.
LEMMA RecordKeeps ==
  ASSUME NEW d \in Data, NEW e \in Data, NEW c \in Command, c[1] # "incr", NEW k \in Key, NEW t
  PROVE  /\ d[k] = e[k] \/ Sets(c, k) => ApplyRecord(d, c, t)[k] = ApplyRecord(e, c, t)[k]
         /\ ~Sets(c, k) => (Live(ApplyRecord(d, c, t), k, t) => Live(d, k, t))
<1> DEFINE dd == ApplyRecord(d, c, t)
           ee == ApplyRecord(e, c, t)
<1>a. /\ dd[k] = d[k] => (Live(dd, k, t) <=> Live(d, k, t))
      /\ dd[k] = Absent => ~Live(dd, k, t)
      /\ d[k] = e[k] => (Live(d, k, t) <=> Live(e, k, t))
  <2> HIDE DEF dd, ee
  <2> QED
    BY Zenon, EntriesAlive
<1>1. CASE Blind(c)
  <2>1. /\ Hits(c, k) => dd[k] = ee[k]
        /\ ~Hits(c, k) => dd[k] = d[k]
    BY SMTT(40), <1>1, BlindRecord
  <2>2. ~Hits(c, k) => ee[k] = e[k]
    BY SMTT(30), <1>1, BlindRecord
  <2> HIDE DEF dd, ee
  <2>3. /\ d[k] = e[k] \/ Sets(c, k) => dd[k] = ee[k]
        /\ ~Sets(c, k) => (Live(dd, k, t) => Live(d, k, t))
    BY Zenon, <1>1, <1>a, <2>1, <2>2 DEF Sets
  <2> QED
    BY Zenon, <2>3 DEF dd, ee
<1>2. CASE c[1] = "cas" /\ c[2] \in Key
  <2>1. dd = MemCAS(d, c[2], c[3], c[4], t) /\ ee = MemCAS(e, c[2], c[3], c[4], t) /\ ~Blind(c)
    BY <1>2 DEF ApplyRecord, Blind
  <2>2. /\ dd = IF Live(d, c[2], t) /\ d[c[2]].Value = c[3] THEN MemPut(d, c[2], c[4]) ELSE DropDead(d, c[2], t)
        /\ ee = IF Live(e, c[2], t) /\ e[c[2]].Value = c[3] THEN MemPut(e, c[2], c[4]) ELSE DropDead(e, c[2], t)
    BY Zenon, <2>1 DEF MemCAS
  <2> HIDE DEF dd, ee
  <2>3. /\ dd[k] = IF Live(d, c[2], t) /\ d[c[2]].Value = c[3]
                   THEN IF k = c[2] THEN [Value |-> c[4], Exp |-> 0] ELSE d[k]
                   ELSE IF k = c[2] /\ d[c[2]] # Absent /\ ~Live(d, c[2], t) THEN Absent ELSE d[k]
        /\ ee[k] = IF Live(e, c[2], t) /\ e[c[2]].Value = c[3]
                   THEN IF k = c[2] THEN [Value |-> c[4], Exp |-> 0] ELSE e[k]
                   ELSE IF k = c[2] /\ e[c[2]] # Absent /\ ~Live(e, c[2], t) THEN Absent ELSE e[k]
    BY SMTT(30), <1>2, <2>2, MapKeys
  <2>4. /\ d[k] = e[k] \/ Sets(c, k) => dd[k] = ee[k]
        /\ ~Sets(c, k) => (Live(dd, k, t) => Live(d, k, t))
    BY Zenon, <1>a, <2>1, <2>3 DEF Sets
  <2> QED
    BY Zenon, <2>4 DEF dd, ee
<1>3. CASE c[1] = "expire" /\ c[2] \in Key
  <2>1. dd = MemExpire(d, c[2], c[3], t) /\ ee = MemExpire(e, c[2], c[3], t) /\ ~Blind(c)
    BY <1>3 DEF ApplyRecord, Blind
  <2>2. /\ ~Live(d, c[2], t) => dd = DropDead(d, c[2], t)
        /\ ~Live(e, c[2], t) => ee = DropDead(e, c[2], t)
    BY Zenon, <2>1 DEF MemExpire
  <2> HIDE DEF dd, ee
  <2>3. /\ dd[k] = IF Live(d, c[2], t) THEN IF k = c[2] THEN [d[c[2]] EXCEPT !.Exp = c[3]] ELSE d[k]
                   ELSE IF k = c[2] /\ d[c[2]] # Absent THEN Absent ELSE d[k]
        /\ ee[k] = IF Live(e, c[2], t) THEN IF k = c[2] THEN [e[c[2]] EXCEPT !.Exp = c[3]] ELSE e[k]
                   ELSE IF k = c[2] /\ e[c[2]] # Absent THEN Absent ELSE e[k]
    BY SMTT(30), <1>3, <2>1, <2>2, MapKeys
  <2>4. /\ d[k] = e[k] \/ Sets(c, k) => dd[k] = ee[k]
        /\ ~Sets(c, k) => (Live(dd, k, t) => Live(d, k, t))
    BY Zenon, <1>a, <2>1, <2>3 DEF Sets
  <2> QED
    BY Zenon, <2>4 DEF dd, ee
<1> HIDE DEF dd, ee
<1> QED
  BY Zenon, <1>1, <1>2, <1>3, CommandKinds DEF Blind

\* When the records leave fewer keys alive than a state has, they do so over that state
\* itself: the log is replayed over a snapshot taken after it.
LEMMA Rebased ==
  ASSUME NoneReborn, NEW d \in Data, NEW e \in Data, NEW cmds \in Seq(Command), NEW t,
         Fewer(ApplyAll(d, cmds, t), e, t)
  PROVE  Fewer(ApplyAll(e, cmds, t), e, t)
<1> SUFFICES ASSUME NEW k \in Key, Live(ApplyAll(e, cmds, t), k, t) PROVE Live(e, k, t)
  BY Zenon DEF Fewer
<1>1. PICK f : IsRun(f, d, cmds, t) /\ ApplyAll(d, cmds, t) = f[Len(cmds)]
  BY Zenon, ApplyAllRuns
<1>2. PICK g : IsRun(g, e, cmds, t) /\ ApplyAll(e, cmds, t) = g[Len(cmds)]
  BY Zenon, ApplyAllRuns
<1>3. Len(cmds) \in Nat /\ (\A n \in 1..Len(cmds) : cmds[n] \in Command) /\ Len(cmds) \in 0..Len(cmds)
      /\ \A n \in 1..Len(cmds) : n \in Nat
  OBVIOUS
<1>4. f[0] = d /\ \A n \in 1..Len(cmds) : f[n] = ApplyRecord(f[n - 1], cmds[n], t)
  BY SMTT(40), <1>1, <1>3, RunSteps
<1>5. g[0] = e /\ \A n \in 1..Len(cmds) : g[n] = ApplyRecord(g[n - 1], cmds[n], t)
  BY SMTT(30), <1>2, <1>3, RunSteps
<1> DEFINE T == {n \in Nat : /\ f[n] \in Data /\ g[n] \in Data
                             /\ f[n][k] = g[n][k] \/ (Live(g[n], k, t) => Live(e, k, t))}
<1>6. 0 \in T
  BY Zenon, <1>4, <1>5
<1>7. ASSUME NEW n \in 1..Len(cmds), n - 1 \in T PROVE n \in T
  <2>1. /\ f[n - 1] \in Data /\ g[n - 1] \in Data
        /\ f[n - 1][k] = g[n - 1][k] \/ (Live(g[n - 1], k, t) => Live(e, k, t))
    BY Zenon, <1>7
  <2>2. cmds[n] \in Command /\ cmds[n][1] # "incr"
    BY Zenon, <1>3 DEF NoneReborn
  <2>3. f[n] = ApplyRecord(f[n - 1], cmds[n], t) /\ g[n] = ApplyRecord(g[n - 1], cmds[n], t)
    BY Zenon, <1>4, <1>5
  <2>4. ApplyRecord(f[n - 1], cmds[n], t) \in Data /\ ApplyRecord(g[n - 1], cmds[n], t) \in Data
    BY ZenonT(40), <2>1, <2>2, RecordShape
  <2>5. g[n - 1][k] = f[n - 1][k] \/ Sets(cmds[n], k) =>
          ApplyRecord(g[n - 1], cmds[n], t)[k] = ApplyRecord(f[n - 1], cmds[n], t)[k]
    BY SMTT(40), <2>1, <2>2, RecordKeeps
  <2>6. ~Sets(cmds[n], k) =>
          (Live(ApplyRecord(g[n - 1], cmds[n], t), k, t) => Live(g[n - 1], k, t))
    BY ZenonT(40), <2>1, <2>2, RecordKeeps
  <2>7. /\ g[n - 1][k] = f[n - 1][k] \/ Sets(cmds[n], k) => g[n][k] = f[n][k]
        /\ ~Sets(cmds[n], k) => (Live(g[n], k, t) => Live(g[n - 1], k, t))
    BY Zenon, <2>3, <2>5, <2>6
  <2> QED
    BY Zenon, <1>3, <2>1, <2>3, <2>4, <2>7
<1>8. 0..Len(cmds) \subseteq T
  <2> HIDE DEF T
  <2> QED
    BY Zenon, <1>3, <1>6, <1>7, UpTo
<1>9. f[Len(cmds)][k] = g[Len(cmds)][k] \/ (Live(g[Len(cmds)], k, t) => Live(e, k, t))
  BY Zenon, <1>3, <1>8
<1>10. Live(f[Len(cmds)], k, t) => Live(e, k, t)
  BY Zenon, <1>1 DEF Fewer
<1> QED
  BY Zenon, <1>2, <1>9, <1>10 DEF Live

\* At no time from now on will the file, over the snapshot, give a key back that memory no
\* longer has then.
Covered(f) == Replayable(f) => \A u \in Nat : now <= u => Fewer(Recover(snapshot, f, u), mem, u)

\* Between sections the log, and what a power loss makes of it, is covered; during one the
\* log before it is.
RestBody ==
  /\ job.phase \in {"idle", "truncate"} =>
       Covered(wal) /\ Covered(stable) /\ (stable = wal \/ wal = <<>>)
  /\ job.phase \in {"append", "apply"} => Covered(Before)
  /\ job.phase = "apply" => stable = wal
  /\ job.phase \in {"truncate", "discard"} => Covered(<<>>)
  /\ job.phase \in {"save", "discard"} => Encrypted
  /\ job.phase \in {"append", "apply"} /\ job.cmds[1][1] = "cas" => Len(job.cmds) = 1

RestInv == Working /\ faults = 0 => RestBody

\* What covers a file covers it later, and after dead keys are dropped from memory.
LEMMA CoveredLater ==
  ASSUME Shapes, now' \in Nat, now <= now', snapshot' = snapshot,
         \/ mem' = mem \/ mem' = SweepExpired(mem, now) \/ \E k \in Key : mem' = DropDead(mem, k, now)
  PROVE  \A f : Covered(f) => Covered(f)'
<1>0. mem \in Data /\ now \in Nat
  BY Zenon DEF Shapes, DataShape
<1>1. ASSUME NEW u \in Nat, now <= u PROVE Fewer(mem, mem', u)
  <2> SUFFICES ASSUME NEW y \in Key, Live(mem, y, u) PROVE Live(mem', y, u)
    BY Zenon DEF Fewer
  <2>1. Live(mem, y, now)
    BY SMTT(30), <1>0, <1>1, AliveBefore
  <2>2. mem'[y] = mem[y]
    <3>1. CASE mem' = SweepExpired(mem, now)
      BY Zenon, <2>1, <3>1 DEF SweepExpired, Live
    <3>2. ASSUME NEW k \in Key, mem' = DropDead(mem, k, now) PROVE mem'[y] = mem[y]
      <4>1. DropDead(mem, k, now)[y] = IF y = k /\ mem[k] # Absent /\ ~Live(mem, k, now) THEN Absent ELSE mem[y]
        BY SMTT(30), <1>0, MapKeys
      <4> QED
        BY Zenon, <2>1, <3>2, <4>1
    <3> QED
      BY Zenon, <3>1, <3>2
  <2> QED
    BY Zenon, <2>2 DEF Live
<1>2. \A u \in Nat : now' <= u => now <= u
  BY <1>0
<1>3. ASSUME NEW f, Covered(f), Replayable(f), NEW u \in Nat, now' <= u
      PROVE  Fewer(Recover(snapshot', f, u), mem', u)
  <2>1. now <= u
    BY Zenon, <1>2, <1>3
  <2>2. Fewer(Recover(snapshot, f, u), mem, u)
    BY Zenon, <1>3, <2>1 DEF Covered
  <2> QED
    BY Zenon, <1>1, <2>1, <2>2 DEF Fewer
<1> QED
  BY Zenon, <1>3 DEF Covered

\* The writer's steps keep it.
LEMMA RestByLoop ==
  ASSUME NoneReborn, Shapes, Shapes', TailInv, TailInv', RestBody,
         \/ \E c \in Command : Collect(c) \/ WriteSingle(c)
         \/ WriteBatch \/ AppendRecord \/ Sync \/ ApplyToMemory
  PROVE  RestBody'
<1>0. /\ FileShape /\ FileShape' /\ JobShape /\ JobShape' /\ mem \in Data /\ snapshot \in Data /\ now \in Nat
  BY Zenon DEF Shapes, DataShape
<1>1. ASSUME NEW c \in Command, Collect(c) PROVE RestBody'
  <2>1. UNCHANGED <<mem, wal, stable, snapshot, job, now>>
    BY Zenon, <1>1 DEF Collect
  <2> QED
    BY Zenon, <2>1 DEF RestBody, Before, Covered
<1>2. ASSUME job.phase = "idle", UNCHANGED <<mem, wal, stable, snapshot, now>>, job'.phase = "append", job'.n = 0,
             job'.cmds[1][1] = "cas" => Len(job'.cmds) = 1
      PROVE  RestBody'
  <2>1. job.n = 0
    BY Zenon, <1>2 DEF TailInv
  <2>2. Before' = wal
    BY Zenon, <1>0, <1>2, <2>1, NothingWritten
  <2>3. Covered(wal)'
    BY Zenon, <1>2 DEF RestBody, Covered
  <2> QED
    BY Zenon, <1>2, <2>2, <2>3 DEF RestBody, Covered
<1>3. ASSUME NEW c \in Command, WriteSingle(c) PROVE RestBody'
  <2>1. /\ UNCHANGED <<wal, stable, snapshot, now>> /\ job = Idle /\ ~Blind(c)
        /\ \/ Begin("append", <<c>>) /\ UNCHANGED mem
           \/ mem' = DropDead(mem, c[2], now) /\ UNCHANGED job
    BY Zenon, <1>3 DEF WriteSingle
  <2>2. c[2] \in Key
    BY Zenon, <2>1, CommandKinds DEF Blind
  <2>3. job.phase = "idle"
    BY <2>1 DEF Idle
  <2>4. CASE mem' = DropDead(mem, c[2], now) /\ UNCHANGED job
    <3>1. now <= now'
      BY <1>0, <2>1
    <3>2. \A f : Covered(f) => Covered(f)'
      BY Zenon, <1>0, <2>1, <2>2, <2>4, <3>1, CoveredLater
    <3>3. Covered(wal) /\ Covered(stable) /\ (stable = wal \/ wal = <<>>)
      BY Zenon, <2>3 DEF RestBody
    <3>4. Covered(wal)' /\ Covered(stable)' /\ (stable' = wal' \/ wal' = <<>>)
      <4>1. \A f : Covered(f)' <=> (Replayable(f) => \A u \in Nat : now' <= u => Fewer(Recover(snapshot', f, u), mem', u))
        BY Zenon DEF Covered
      <4> QED
        BY Zenon, <2>1, <3>2, <3>3, <4>1 DEF Covered
    <3>5. job'.phase = "idle"
      BY Zenon, <2>3, <2>4
    <3> QED
      BY Zenon, <3>4, <3>5 DEF RestBody
  <2>5. CASE Begin("append", <<c>>) /\ UNCHANGED mem
    <3>1. job'.phase = "append" /\ job'.n = 0 /\ Len(job'.cmds) = 1
      BY <2>5 DEF Begin
    <3> QED
      BY Zenon, <1>2, <2>1, <2>3, <2>5, <3>1
  <2> QED
    BY Zenon, <2>1, <2>4, <2>5
<1>4. CASE WriteBatch
  <2>1. job = Idle /\ batch # <<>> /\ Begin("append", batch) /\ UNCHANGED <<mem, wal, stable, snapshot, now>>
    BY Zenon, <1>4 DEF WriteBatch
  <2>2. job'.phase = "append" /\ job'.n = 0 /\ job'.cmds = batch /\ job.phase = "idle"
    BY <2>1 DEF Begin, Idle
  <2>3. 1 \in 1..Len(batch)
    BY <2>1 DEF Shapes, BatchShape
  <2>4. batch[1][1] # "cas"
    BY Zenon, <2>3 DEF TailInv, Blind
  <2> QED
    BY Zenon, <1>2, <2>1, <2>2, <2>4
<1>5. CASE AppendRecord
  <2>1. UNCHANGED <<mem, snapshot, now>> /\ job.phase = "append"
    BY Zenon, <1>5 DEF AppendRecord
  <2>2. job'.cmds = job.cmds /\ job'.phase = "append" /\ Before' = Before
    BY Zenon, <1>0, <1>5, RecordWritten
  <2> QED
    BY Zenon, <2>1, <2>2 DEF RestBody, Covered
<1>6. CASE Sync
  <2>1. /\ UNCHANGED <<mem, wal, snapshot, now>> /\ job.phase = "append" /\ stable' = wal
        /\ job' = [job EXCEPT !.phase = "apply"]
    BY Zenon, <1>6 DEF Sync
  <2>2. job'.phase = "apply" /\ job'.n = job.n /\ job'.cmds = job.cmds
    BY <1>0, <2>1 DEF JobShape, Job
  <2> QED
    BY Zenon, <2>1, <2>2 DEF RestBody, Before, Covered
<1>7. CASE ApplyToMemory
  <2>1. /\ UNCHANGED <<wal, stable, snapshot, now>> /\ job.phase = "apply" /\ job' = Idle
        /\ mem' = ApplyInMemory(job.cmds)
    BY Zenon, <1>7 DEF ApplyToMemory
  <2>2. job.cmds \in Seq(Command) /\ job.n \in Nat /\ Len(wal) \in Nat /\ job.cmds # <<>>
    BY SMTT(40), <1>0, <2>1 DEF JobShape, Job, FileShape
  <2>3. job'.phase = "idle" /\ stable = wal /\ Covered(Before)
    BY SMTT(40), <2>1 DEF Idle, RestBody
  <2>4. SubSeq(wal, 1, Len(wal) - job.n + job.n) = wal /\ job.n \in 0..job.n
    <3>1. job.n <= Len(wal)
      BY Zenon DEF TailInv
    <3>2. Len(wal) - job.n + job.n = Len(wal) /\ job.n \in 0..job.n
      BY <2>2, <3>1
    <3>3. SubSeq(wal, 1, Len(wal)) = wal
      BY <1>0 DEF FileShape
    <3> QED
      BY Zenon, <3>2, <3>3
  <2>5. SubSeq(job.cmds, 1, job.n) = job.cmds
    <3>1. job.n = Len(job.cmds)
      BY Zenon, <2>1 DEF TailInv
    <3> QED
      BY <2>2, <3>1
  <2>6. ASSUME Replayable(wal), NEW u \in Nat, now <= u
        PROVE  Fewer(Recover(snapshot, wal, u), mem', u)
    <3>1. /\ Replayable(Before)
          /\ Recover(snapshot, wal, u) = ApplyAll(Recover(snapshot, Before, u), job.cmds, u)
      BY Zenon, <1>0, <2>4, <2>5, <2>6, SectionReplay
    <3> DEFINE r == Recover(snapshot, Before, u)
    <3>2. Fewer(r, mem, u)
      BY Zenon, <2>3, <2>6, <3>1 DEF Covered
    <3>3. r \in Data
      <4>1. Before \in Seq(Written)
        <5>1. job.n <= Len(wal)
          BY Zenon DEF TailInv
        <5>2. Len(wal) - job.n \in 0..Len(wal)
          BY <2>2, <5>1
        <5> QED
          BY Zenon, <1>0, <5>2, PrefixFacts DEF FileShape, Before
      <4>2. Records(Before) \in Seq(Command)
        BY Zenon, <3>1, <4>1, RecordsFacts
      <4> QED
        BY Zenon, <1>0, <4>2, ReplayShape DEF Recover
    <3> HIDE DEF r
    <3>4. Fewer(ApplyAll(r, job.cmds, u), ApplyAll(mem, job.cmds, now), u)
      BY SMTT(40), <1>0, <2>2, <2>6, <3>2, <3>3, ReplayKeepsFewer
    <3>5. CASE job.cmds[1][1] # "cas"
      BY Zenon, <2>1, <3>1, <3>4, <3>5 DEF ApplyInMemory, r
    <3>6. CASE job.cmds[1][1] = "cas"
      <4> DEFINE c == job.cmds[1]
      <4>1. Len(job.cmds) = 1
        BY Zenon, <2>1, <3>6 DEF RestBody
      <4>2. c \in Command /\ job.cmds = <<c>>
        BY <2>2, <4>1
      <4>3. c[2] \in Key /\ c[4] \in Text
        BY <3>6, <4>2, CommandKinds
      <4>4. mem' = MemPut(mem, c[2], c[4])
        BY Zenon, <2>1, <3>6 DEF ApplyInMemory
      <4> HIDE DEF c
      <4>5. ApplyAll(mem, job.cmds, now) = ApplyRecord(mem, c, now)
        BY Zenon, <4>2, ApplyOne
      <4>6. ApplyRecord(mem, c, now) = MemCAS(mem, c[2], c[3], c[4], now)
        BY <3>6 DEF ApplyRecord, c
      <4>7. ASSUME NEW y \in Key, Live(ApplyRecord(mem, c, now), y, u) PROVE Live(mem', y, u)
        <5>1. mem'[y] = IF y = c[2] THEN [Value |-> c[4], Exp |-> 0] ELSE mem[y]
          BY SMTT(40), <1>0, <4>3, <4>4, MapKeys
        <5>2. CASE y = c[2]
          <6>1. mem'[y] = [Value |-> c[4], Exp |-> 0]
            BY Zenon, <5>1, <5>2
          <6>2. mem'[y].Exp = 0 /\ mem'[y] \in Entry
            BY <4>3, <6>1 DEF Entry
          <6> QED
            BY Zenon, <6>2, AbsentAssumption DEF Live, EntryExpired
        <5>3. CASE y # c[2]
          <6>0. ASSUME NEW k \in Key, y # k
                PROVE  MemPut(mem, k, c[4])[y] = mem[y] /\ DropDead(mem, k, now)[y] = mem[y]
            <7>1. mem \in [Key -> Entry \cup {Absent}]
              BY Zenon, <1>0 DEF Data
            <7> QED
              BY Zenon, <6>0, <7>1 DEF MemPut, DropDead
          <6>1. MemPut(mem, c[2], c[4])[y] = mem[y] /\ DropDead(mem, c[2], now)[y] = mem[y]
            BY Zenon, <4>3, <5>3, <6>0
          <6>2. ApplyRecord(mem, c, now)[y] = mem[y] /\ mem'[y] = mem[y]
            BY Zenon, <4>4, <4>6, <6>1 DEF MemCAS
          <6> QED
            BY Zenon, <4>7, <6>2 DEF Live
        <5> QED
          BY Zenon, <5>2, <5>3
      <4> QED
        BY Zenon, <3>1, <3>4, <4>5, <4>7 DEF Fewer, r
    <3> QED
      BY Zenon, <3>5, <3>6
  <2>7. Covered(wal)'
    BY Zenon, <2>1, <2>6 DEF Covered
  <2> QED
    BY Zenon, <2>1, <2>3, <2>7 DEF RestBody, Covered
<1> QED
  BY Zenon, <1>1, <1>3, <1>4, <1>5, <1>6, <1>7

\* So do compaction, restored snapshots, time and expiry.
LEMMA RestByOthers ==
  ASSUME NoneReborn, Shapes, Shapes', TailInv, RestBody,
         \/ SaveSnapshot \/ Truncate \/ (\E d \in Installable : RestoreSnapshot(d)) \/ SaveRestored
         \/ Tick \/ ExpireLoop \/ \E k \in Key : Get(k)
  PROVE  RestBody'
<1>0. /\ FileShape /\ FileShape' /\ mem \in Data /\ snapshot \in Data /\ now \in Nat /\ now' \in Nat
      /\ wal \in Seq(Written) /\ stable \in Seq(Written)
  BY Zenon DEF Shapes, DataShape, FileShape
<1>1. ASSUME snapshot' = mem, mem' = mem PROVE Covered(<<>>)'
  BY Zenon, <1>1, EmptyLog DEF Covered, Fewer
<1>2. CASE SaveSnapshot
  <2>1. /\ job = Idle /\ snapshot' = mem /\ Begin("truncate", <<>>) /\ UNCHANGED <<mem, wal, stable, now>>
    BY Zenon, <1>2 DEF SaveSnapshot
  <2>2. job.phase = "idle" /\ job'.phase = "truncate"
    BY <2>1 DEF Idle, Begin
  <2>3. ASSUME NEW f \in Seq(Written), Covered(f), Replayable(f), NEW u \in Nat, now <= u
        PROVE  Fewer(Recover(mem, f, u), mem, u)
    <3>1. Fewer(ApplyAll(snapshot, Records(f), u), mem, u)
      BY Zenon, <2>3 DEF Covered, Recover
    <3>2. Records(f) \in Seq(Command)
      BY Zenon, <2>3, RecordsFacts
    <3> QED
      BY SMTT(30), <1>0, <3>1, <3>2, Rebased DEF Recover
  <2>4. Covered(wal) /\ Covered(stable) /\ (stable = wal \/ wal = <<>>)
    BY Zenon, <2>2 DEF RestBody
  <2>5. Covered(wal)' /\ Covered(stable)'
    BY Zenon, <1>0, <2>1, <2>3, <2>4 DEF Covered
  <2> QED
    BY Zenon, <1>1, <2>1, <2>2, <2>4, <2>5 DEF RestBody
<1>3. CASE Truncate
  <2>1. /\ job.phase \in {"truncate", "discard"} /\ wal' = <<>> /\ job' = Idle
        /\ stable' = (IF Encrypted THEN <<>> ELSE stable) /\ UNCHANGED <<mem, snapshot, now>>
    BY Zenon, <1>3 DEF Truncate
  <2>2. job'.phase = "idle"
    BY <2>1 DEF Idle
  <2>3. Covered(<<>>)
    BY Zenon, <2>1 DEF RestBody
  <2>4. stable' = <<>> \/ (stable' = stable /\ Covered(stable))
    <3>1. CASE Encrypted
      BY Zenon, <2>1, <3>1
    <3>2. CASE ~Encrypted
      <4>1. job.phase = "truncate"
        BY <2>1, <3>2 DEF RestBody
      <4> QED
        BY Zenon, <2>1, <3>2, <4>1 DEF RestBody
    <3> QED
      BY Zenon, <3>1, <3>2
  <2>5. Covered(wal)' /\ Covered(stable)'
    BY Zenon, <2>1, <2>3, <2>4 DEF Covered
  <2> QED
    BY Zenon, <2>1, <2>2, <2>5 DEF RestBody
<1>4. ASSUME NEW d \in Installable, RestoreSnapshot(d) PROVE RestBody'
  <2>1. job'.phase = "save" /\ Encrypted
    BY <1>4 DEF RestoreSnapshot, Begin, NoneReborn
  <2> QED
    BY Zenon, <2>1 DEF RestBody
<1>5. CASE SaveRestored
  <2>1. job.phase = "save" /\ snapshot' = mem /\ mem' = mem /\ Begin("discard", <<>>)
    BY ZenonT(40), <1>5 DEF SaveRestored
  <2>2. job'.phase = "discard" /\ Encrypted
    BY <2>1 DEF Begin, RestBody
  <2> QED
    BY Zenon, <1>1, <2>1, <2>2 DEF RestBody
<1>6. CASE Tick \/ ExpireLoop \/ \E k \in Key : Get(k)
  <2>1. /\ UNCHANGED <<wal, stable, snapshot, job>>
        /\ \/ mem' = mem \/ mem' = SweepExpired(mem, now) \/ \E k \in Key : mem' = DropDead(mem, k, now)
        /\ now' = now \/ now' = now + 1
    BY Zenon, <1>6 DEF Tick, ExpireLoop, Get, store
  <2>2. now <= now'
    BY <1>0, <2>1
  <2>3. \A f : Covered(f) => Covered(f)'
    BY Zenon, <1>0, <2>1, <2>2, CoveredLater
  <2>4. /\ Covered(wal) => Covered(wal)'
        /\ Covered(stable) => Covered(stable)'
        /\ Covered(Before) => Covered(Before)'
        /\ Covered(<<>>) => Covered(<<>>)'
    <3>1. Before' = Before
      BY Zenon, <2>1 DEF Before
    <3>2. \A f : Covered(f)' <=> (Replayable(f) => \A u \in Nat : now' <= u => Fewer(Recover(snapshot', f, u), mem', u))
      BY Zenon DEF Covered
    <3> QED
      BY Zenon, <2>1, <2>3, <3>1, <3>2 DEF Covered
  <2> QED
    BY Zenon, <2>1, <2>4 DEF RestBody
<1> QED
  BY Zenon, <1>2, <1>3, <1>4, <1>5, <1>6

\* So does opening the store after a crash, whatever was left of the log: replayed later it
\* leaves fewer keys alive than when it was opened.
LEMMA RestAfterCrash ==
  ASSUME NoneReborn, Shapes, Shapes', CrashAndOpen, Working'
  PROVE  RestBody'
<1>0. FileShape /\ snapshot \in Data /\ now \in Nat
  BY Zenon DEF Shapes, DataShape
<1>1. PICK f \in Survivors :
        /\ wal' = Stamped(f) /\ stable' = Stamped(f) /\ Replayable(f) /\ mem' = Recover(snapshot, f, now)
  BY Zenon DEF CrashAndOpen, Working
<1>2. job' = Idle /\ UNCHANGED <<snapshot, now>>
  BY Zenon DEF CrashAndOpen
<1>3. job'.phase = "idle"
  BY <1>2 DEF Idle
<1>4. f \in Seq(Written)
  BY Zenon, <1>0, SurvivorShape
<1>5. Records(f) \in Seq(Command) /\ Records(Stamped(f)) = Records(f)
  BY Zenon, <1>1, <1>4, RecordsFacts, StampedRecords
<1>6. ASSUME NEW u \in Nat, now <= u PROVE Fewer(Recover(snapshot, Stamped(f), u), mem', u)
  <2>1. Fewer(snapshot, snapshot, u)
    BY Zenon DEF Fewer
  <2>2. Fewer(ApplyAll(snapshot, Records(f), u), ApplyAll(snapshot, Records(f), now), u)
    BY SMTT(40), <1>0, <1>5, <1>6, <2>1, ReplayKeepsFewer
  <2> QED
    BY Zenon, <1>1, <1>5, <2>2 DEF Recover
<1>7. Covered(wal)' /\ Covered(stable)'
  BY Zenon, <1>1, <1>2, <1>6 DEF Covered
<1> QED
  BY Zenon, <1>1, <1>3, <1>7 DEF RestBody

\* Between sections a crash leaves the log or what was synced of it.
LEMMA SurvivorsAtRest ==
  ASSUME Shapes, stable = wal \/ wal = <<>>, job.phase # "append", NEW f \in Survivors
  PROVE  f = wal \/ f = stable
<1> DEFINE lo == IF SyncedFirst THEN Len(stable) ELSE 0
           whole == {SubSeq(wal, 1, n) : n \in lo..Len(wal)}
           cut == {g \in whole : g # wal \/ job.phase = "append"}
<1>1. wal \in Seq(Written) /\ stable \in Seq(Written)
  BY Zenon DEF Shapes, FileShape
<1>2. ASSUME NEW g \in whole PROVE g = wal
  <2>1. PICK n \in lo..Len(wal) : g = SubSeq(wal, 1, n)
    BY Zenon, <1>2
  <2>2. SubSeq(wal, 1, Len(wal)) = wal /\ Len(wal) \in Nat
    BY <1>1
  <2>3. n = Len(wal)
    <3>1. CASE stable = wal
      <4>0. Len(wal) <= Len(wal)
        BY <2>2
      <4>1. lo = Len(wal)
        BY Zenon, <3>1, <2>2, <4>0 DEF SyncedFirst
      <4> HIDE DEF lo
      <4> QED
        BY <2>1, <2>2, <4>1
    <3>2. CASE wal = <<>>
      <4>1. Len(wal) = 0 /\ lo \in Nat
        BY <1>1, <3>2
      <4> HIDE DEF lo
      <4> QED
        BY <2>1, <4>1
    <3> QED
      BY Zenon, <3>1, <3>2
  <2> QED
    BY Zenon, <2>1, <2>2, <2>3
<1>3. cut = {}
  BY Zenon, <1>2
<1>4. Survivors = whole \cup {stable} \cup {Append(g, r) : g \in cut, r \in Debris}
  BY SMTT(40) DEF Survivors
<1> HIDE DEF whole, cut
<1> QED
  BY SMTT(40), <1>2, <1>3, <1>4

\* Put, Delete, Clear, CAS and Expire with every file operation succeeding: no key that was
\* deleted, cleared or that expired comes back when the store is opened again, whatever the
\* clock did since its records were written and wherever compaction was interrupted.
THEOREM TheDeadStayDead == NoneReborn => (Spec => []NoResurrection)
<1> SUFFICES ASSUME NoneReborn PROVE Spec => []NoResurrection
  OBVIOUS
<1>1. Init => RestInv
  <2> SUFFICES ASSUME Init PROVE RestBody
    BY Zenon DEF RestInv
  <2>1. mem = NewMemStore /\ snapshot = NewMemStore /\ wal = <<>> /\ stable = <<>> /\ job = Idle
    BY Zenon DEF Init
  <2>2. job.phase = "idle"
    BY <2>1 DEF Idle
  <2>3. Covered(<<>>)
    BY Zenon, <2>1, EmptyLog DEF Covered, Fewer
  <2> QED
    BY Zenon, <2>1, <2>2, <2>3 DEF RestBody
<1>2. /\ Shapes /\ Shapes' /\ TailInv /\ TailInv' /\ faults \in Nat /\ RestInv /\ [Next]_vars
      => RestInv'
  <2>1. ASSUME RestInv, UNCHANGED vars PROVE RestInv'
    BY Zenon, <2>1 DEF vars, store, counts, RestInv, RestBody, Working, Before, Covered
  <2>2. ASSUME Shapes, Shapes', TailInv, TailInv', faults \in Nat, RestInv, Next PROVE RestInv'
    <3> SUFFICES ASSUME Working', faults' = 0 PROVE RestBody'
      BY Zenon DEF RestInv
    <3>1. Succeeds /\ faults = 0
      BY Zenon, <2>2, FaultSteps
    <3>2. Working
      BY Zenon, <3>1 DEF Succeeds, Collect, WriteSingle, WriteBatch, AppendRecord, Sync, ApplyToMemory,
        SaveSnapshot, Truncate, RestoreSnapshot, SaveRestored, Tick, ExpireLoop, Get, CrashAndOpen
    <3>3. RestBody
      BY Zenon, <2>2, <3>1, <3>2 DEF RestInv
    <3> QED
      BY ZenonT(30), <2>2, <3>1, <3>3, RestByLoop, RestByOthers, RestAfterCrash DEF Succeeds
  <2> QED
    BY Zenon, <2>1, <2>2
<1>3. Shapes /\ RestInv => NoResurrection
  <2> SUFFICES ASSUME Shapes, RestInv, Working, job.phase \in {"idle", "truncate"}, faults = 0,
                      NEW f \in Survivors, Replayable(f)
               PROVE  Fewer(Recover(snapshot, f, now), mem, now)
    BY Zenon DEF NoResurrection, Fewer
  <2>1. Covered(wal) /\ Covered(stable) /\ (stable = wal \/ wal = <<>>)
    BY Zenon DEF RestInv, RestBody
  <2>2. f = wal \/ f = stable
    BY Zenon, <2>1, SurvivorsAtRest
  <2>3. now \in Nat /\ now <= now
    BY DEF Shapes
  <2> QED
    BY Zenon, <2>1, <2>2, <2>3 DEF Covered
<1> QED
  BY <1>1, <1>2, <1>3, ShapesInvariant, TailInvariant, FaultsCounted, PTL DEF Spec
=============================================================================
