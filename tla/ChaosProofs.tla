---------------------------- MODULE ChaosProofs ----------------------------
(***************************************************************************)
(* Proofs about Chaos and the history checker for every cluster, every set *)
(* of schedules and every length of the workload: the checker objects to   *)
(* what its comment says, Run heals what it breaks, and the oracles report *)
(* nothing of a cluster that keeps its promises.                           *)
(***************************************************************************)
EXTENDS Chaos, FiniteSetTheorems, WellFoundedInduction, TLAPS

(***************************************************************************)
(* The invariants                                                          *)
(***************************************************************************)

\* The shapes of the variables of Run.
HarnessShape ==
  /\ plan \in Plans /\ applied \subseteq plan.faults /\ started \subseteq Node /\ cfg \in FaultConfig
  /\ \A e \in due : e.f \in plan.faults

Cutting == {"leader isolation", "minority", "majority"}

\* Whatever is out of order is so because of a fault that Run has yet to clear.
AccountedFor ==
  /\ \A n \in Node \ started : \E f \in applied : f.kind = "crash" /\ f.target = n
  /\ \A e \in cfg.edgeDrop : \E f \in applied :
       f.kind \in Cutting \/ (f.kind = "asymmetric" /\ <<f.target, f.peer>> = e)
  /\ cfg.loss => \E f \in applied : f.kind = "loss"
  /\ cfg.dup => \E f \in applied : f.kind = "dup"
  /\ \A x \in cfg.failFsync : \E f \in applied : f.kind = "fsync" /\ f.target = x
  /\ runner = "done" => applied = {}

Across(side) == {e \in Edge : (e[1] \in side) # (e[2] \in side)}

\* What applying the fault has left in the configuration.
Marked(c, up, f) ==
  /\ f.kind = "crash"      => f.target \notin up
  /\ f.kind = "minority"   => Across(Minority) \subseteq c.edgeDrop
  /\ f.kind = "majority"   => Across(Majority) \subseteq c.edgeDrop
  /\ f.kind = "asymmetric" => <<f.target, f.peer>> \in c.edgeDrop
  /\ f.kind = "loss"       => c.loss
  /\ f.kind = "dup"        => c.dup
  /\ f.kind = "reorder"    => c.reorder
  /\ f.kind = "delay"      => c.delayMin = f.delay
  /\ f.kind = "skew"       => c.skew[f.target] = f.delay
  /\ f.kind = "fsync"      => f.target \in c.failFsync

Apart == \A f, g \in plan.faults : f # g => Hold(f) # Hold(g)

AllMarked == Apart => \A f \in applied : Marked(cfg, started, f)

\* Committed versions ascend, what may still be committed is newer, and a node stores
\* one of them: the last, when it has applied them all.
ClusterInv ==
  /\ work \in [pc : {"tick", "wait", "read", "over"}, seq : Nat]
  /\ log \in Seq(Nat) /\ Len(log) > 0 /\ pending \subseteq Nat
  /\ \A i \in 1..Len(log) : log[i] > 0 /\ log[i] <= work.seq
  /\ \A i, j \in 1..Len(log) : i < j => log[i] < log[j]
  /\ \A p \in pending : p <= work.seq /\ log[Len(log)] < p
  /\ at \in [Node -> Nat] /\ value \in [Node -> Nat]
  /\ \A n \in Node : /\ at[n] <= Len(log)
                     /\ \E m \in 1..Len(log) : value[n] = log[m]
                     /\ at[n] = Len(log) => value[n] = log[Len(log)]

Operation == [kind : {"read", "write"}, seq : Nat, reader : Node \cup {Whole}, acked : BOOLEAN,
              start : Nat, end : Nat]

\* Acknowledged writes are committed; operations are timed by their places; reads are of
\* versions that the workload has written, and older than a write that is recorded later.
HistoryInv ==
  /\ hist \in Seq(Operation)
  /\ \A i \in 1..Len(hist) :
       /\ hist[i].start = 2 * i - 1 /\ hist[i].end = 2 * i
       /\ hist[i].kind = "write" /\ hist[i].acked => \E m \in 1..Len(log) : log[m] = hist[i].seq
       /\ hist[i].kind = "read" =>
            /\ hist[i].reader \in Node /\ hist[i].seq <= work.seq
            /\ work.pc = "wait" => hist[i].seq < work.seq
            /\ \A k \in 1..Len(hist) : i < k /\ hist[k].kind = "write" => hist[i].seq < hist[k].seq

\* Only while it waits does the workload hold answers, and then the value is committed.
PollInv ==
  /\ poll.left \subseteq Node
  /\ poll.found # {} => work.pc = "wait" /\ \E m \in 1..Len(log) : log[m] = work.seq

\* While no restart has put a node back, it stores what it applied last, and what was
\* read from it was older or is that, and never older than an earlier read.
ForwardInv ==
  replayed = {} =>
    /\ \A n \in Node : at[n] > 0 /\ value[n] = log[at[n]]
    /\ \A i \in 1..Len(hist) : hist[i].kind = "read" =>
         /\ hist[i].seq <= value[hist[i].reader]
         /\ \A j \in 1..(i - 1) :
              hist[j].kind = "read" /\ hist[j].reader = hist[i].reader => hist[j].seq <= hist[i].seq

(***************************************************************************)
(* The history checker                                                     *)
(***************************************************************************)

\* Of the numbers at which a claim fails there is a least one.
LEMMA LeastFailure ==
  ASSUME NEW S, S \subseteq Nat, S # {}
  PROVE  \E x \in S : \A y \in S : x <= y
<1> DEFINE R == {ss \in Nat \X Nat : ss[1] < ss[2]}
<1>1. IsWellFoundedOn(R, Nat)
  BY Zenon, NatLessThanWellFounded DEF OpToRel
<1>2. PICK x \in S : \A y \in S : ~(<<y, x>> \in R)
  <2> HIDE DEF R
  <2> QED BY Zenon, <1>1, WFMin
<1>3. \A y \in S : ~(y < x)
  BY Zenon, <1>2
<1>4. \A y \in S : x <= y
  BY <1>3
<1> QED
  BY Zenon, <1>4

\* What holds at 0 and is passed on from each number to the next holds up to n.
LEMMA StepByStep ==
  ASSUME NEW n \in Nat, NEW T, 0 \in T, \A i \in 1..n : i - 1 \in T => i \in T
  PROVE  0..n \subseteq T
<1> SUFFICES ASSUME ~(0..n \subseteq T) PROVE FALSE
  OBVIOUS
<1> DEFINE Bad == {i \in 0..n : i \notin T}
<1>1. Bad \subseteq Nat /\ Bad # {}
  OBVIOUS
<1>2. PICK i \in Bad : \A j \in Bad : i <= j
  <2> HIDE DEF Bad
  <2> QED
    BY Zenon, <1>1, LeastFailure
<1>3. i \in 1..n /\ i - 1 \in 0..n /\ ~(i <= i - 1) /\ i \notin T
  BY <1>2
<1>4. i - 1 \notin Bad
  BY Zenon, <1>2, <1>3
<1> QED
  BY Zenon, <1>3, <1>4

Nothing == [seen |-> <<>>, errs |-> {}]

IsScan(f, ops) ==
  f = [i \in 0..Len(ops) |-> IF i = 0 THEN Nothing ELSE CheckNext(ops, f[i - 1], i)]

\* The loop over the operations runs to its end.
LEMMA ScanExists ==
  ASSUME NEW ops, Len(ops) \in Nat
  PROVE  \E f : IsScan(f, ops)
<1> DEFINE Part(f, m) == f = [i \in 0..m |-> IF i = 0 THEN Nothing ELSE CheckNext(ops, f[i - 1], i)]
           T == {m \in 0..Len(ops) : \E f : Part(f, m)}
<1>1. 0 \in T
  <2>1. Part([i \in 0..0 |-> Nothing], 0)
    OBVIOUS
  <2>2. 0 \in 0..Len(ops)
    OBVIOUS
  <2> QED
    BY Zenon, <2>1, <2>2
<1>2. ASSUME NEW m \in 1..Len(ops), m - 1 \in T PROVE m \in T
  <2>1. PICK f : Part(f, m - 1)
    BY Zenon, <1>2
  <2> DEFINE g == [i \in 0..m |-> IF i < m THEN f[i] ELSE CheckNext(ops, f[m - 1], m)]
  <2>2. \A i \in 0..(m - 1) : f[i] = IF i = 0 THEN Nothing ELSE CheckNext(ops, f[i - 1], i)
    BY Zenon, <2>1
  <2>3. ASSUME NEW i \in 0..m
        PROVE  g[i] = IF i = 0 THEN Nothing ELSE CheckNext(ops, g[i - 1], i)
    <3>1. CASE i = m
      <4>1. m - 1 \in 0..m /\ m - 1 < m /\ ~(m < m) /\ m # 0
        OBVIOUS
      <4>2. g[m - 1] = f[m - 1] /\ g[m] = CheckNext(ops, f[m - 1], m)
        BY Zenon, <4>1, <3>1
      <4> QED
        BY Zenon, <3>1, <4>1, <4>2
    <3>2. CASE i = 0
      <4>1. 0 < m /\ 0 \in 0..(m - 1)
        OBVIOUS
      <4>2. g[0] = f[0] /\ f[0] = Nothing
        BY Zenon, <2>2, <3>2, <4>1
      <4> QED
        BY Zenon, <3>2, <4>2
    <3>3. CASE i # m /\ i # 0
      <4>1. i \in 0..(m - 1) /\ i - 1 \in 0..m /\ i < m /\ i - 1 < m
        BY <3>3
      <4>2. g[i] = f[i] /\ g[i - 1] = f[i - 1]
        BY Zenon, <4>1
      <4> QED
        BY Zenon, <2>2, <3>3, <4>1, <4>2
    <3> QED
      BY Zenon, <3>1, <3>2, <3>3
  <2>4. Part(g, m)
    <3>1. g = [i \in 0..m |-> g[i]]
      BY Zenon
    <3> HIDE DEF g
    <3> QED
      BY Zenon, <2>3, <3>1
  <2>5. m \in 0..Len(ops)
    OBVIOUS
  <2> QED
    BY Zenon, <2>4, <2>5
<1>3. 0..Len(ops) \subseteq T
  <2> HIDE DEF T
  <2> QED
    BY Zenon, <1>1, <1>2, StepByStep
<1>4. Len(ops) \in 0..Len(ops)
  OBVIOUS
<1> QED
  BY Zenon, <1>3, <1>4 DEF IsScan

\* What the checker does with one operation: maxSeen rises to what was read, and a read
\* is objected to that is too early or older than maxSeen.
LEMMA OneOperation ==
  ASSUME NEW ops, NEW acc, NEW i, IsRead(ops[i])
  PROVE  /\ \A r : MaxSeen(CheckNext(ops, acc, i).seen, r) =
                     IF r = ops[i].reader /\ ops[i].seq > MaxSeen(acc.seen, r) THEN ops[i].seq
                     ELSE MaxSeen(acc.seen, r)
         /\ CheckNext(ops, acc, i).errs =
              IF TooEarly(ops, ops[i]) \/ ops[i].seq < MaxSeen(acc.seen, ops[i].reader)
              THEN acc.errs \cup {i} ELSE acc.errs
<1> DEFINE o == ops[i]
           raised == [r \in DOMAIN acc.seen \cup {o.reader} |-> IF r = o.reader THEN o.seq ELSE acc.seen[r]]
           next == CheckNext(ops, acc, i)
<1>1. next.seen = IF o.seq > MaxSeen(acc.seen, o.reader) THEN raised ELSE acc.seen
  BY DEF CheckNext
<1>2. \A r : MaxSeen(raised, r) = IF r = o.reader THEN o.seq ELSE MaxSeen(acc.seen, r)
  BY Zenon DEF MaxSeen
<1>3. next.errs = IF TooEarly(ops, o) \/ o.seq < MaxSeen(acc.seen, o.reader) THEN acc.errs \cup {i} ELSE acc.errs
  BY DEF CheckNext
<1> HIDE DEF raised, next
<1>4. \A r : MaxSeen(next.seen, r) = IF r = o.reader /\ o.seq > MaxSeen(acc.seen, r) THEN o.seq
                                    ELSE MaxSeen(acc.seen, r)
  BY Zenon, <1>1, <1>2
<1> QED
  BY Zenon, <1>3, <1>4 DEF next

\* The checker objects to exactly the reads its comment speaks of: of a version older than
\* one its reader was served before, or of one whose write had not begun.
THEOREM CheckerIsExact ==
  ASSUME NEW S, NEW ops \in Seq(S), \A o \in S : o.seq \in Nat
  PROVE  Check(ops) = Objectionable(ops)
<1> DEFINE n == Len(ops)
           Served(j, r) == IsRead(ops[j]) /\ ops[j].reader = r
           Wrong(j) == /\ IsRead(ops[j])
                       /\ TooEarly(ops, ops[j]) \/ \E k \in 1..(j - 1) : Served(k, ops[j].reader) /\ ops[k].seq > ops[j].seq
           f == CHOOSE g : IsScan(g, ops)
           Top(i, r) == MaxSeen(f[i].seen, r)
           Good(i) == /\ \A r : /\ Top(i, r) \in Nat
                                /\ Top(i, r) = 0 \/ \E j \in 1..i : Served(j, r) /\ ops[j].seq = Top(i, r)
                                /\ \A j \in 1..i : Served(j, r) => ops[j].seq <= Top(i, r)
                      /\ f[i].errs = {j \in 1..i : Wrong(j)}
           T == {i \in 0..n : Good(i)}
<1>0. n \in Nat /\ DOMAIN ops = 1..n /\ \A j \in 1..n : ops[j].seq \in Nat
  OBVIOUS
<1>1. IsScan(f, ops)
  BY Zenon, <1>0, ScanExists
<1>2. Check(ops) = f[n].errs
  BY DEF Check, IsScan, Nothing
<1>3. f[0] = Nothing /\ \A i \in 1..n : f[i] = CheckNext(ops, f[i - 1], i)
  <2>1. 0 \in 0..n /\ \A i \in 1..n : i \in 0..n /\ i # 0
    BY <1>0
  <2>2. \A i \in 0..n : f[i] = IF i = 0 THEN Nothing ELSE CheckNext(ops, f[i - 1], i)
    BY Zenon, <1>1 DEF IsScan
  <2> QED
    BY Zenon, <2>1, <2>2
<1> HIDE DEF f, n
<1>4. 0 \in T
  <2>1. f[0].errs = {} /\ f[0].seen = <<>> /\ DOMAIN <<>> = {}
    BY <1>3 DEF Nothing
  <2>2. \A r : Top(0, r) = 0
    BY Zenon, <2>1 DEF MaxSeen
  <2>3. 1..0 = {} /\ 0 \in 0..n /\ 0 \in Nat
    BY <1>0
  <2> QED
    BY Zenon, <2>1, <2>2, <2>3
<1>5. ASSUME NEW i \in 1..n, i - 1 \in T PROVE i \in T
  <2>0. i \in 0..n /\ i - 1 \in Nat /\ 1..i = 1..(i - 1) \cup {i} /\ i \notin 1..(i - 1) /\ ops[i].seq \in Nat
    BY <1>0
  <2>1. Good(i - 1) /\ f[i] = CheckNext(ops, f[i - 1], i)
    BY Zenon, <1>3, <1>5
  <2>2. CASE ~IsRead(ops[i])
    <3>1. f[i] = f[i - 1]
      BY Zenon, <2>1, <2>2 DEF CheckNext
    <3>2. \A r : ~Served(i, r)
      BY Zenon, <2>2
    <3>3. ~Wrong(i)
      BY Zenon, <2>2
    <3>4. {j \in 1..i : Wrong(j)} = {j \in 1..(i - 1) : Wrong(j)}
      <4> HIDE DEF Wrong
      <4> QED
        BY Zenon, <2>0, <3>3
    <3>5. Good(i)
      <4> HIDE DEF Wrong, Served
      <4> QED
        BY Zenon, <2>0, <2>1, <3>1, <3>2, <3>4
    <3> QED
      BY Zenon, <2>0, <3>5
  <2>3. CASE IsRead(ops[i])
    <3> DEFINE q == ops[i].reader
               v == ops[i].seq
               a == f[i - 1]
    <3>1. /\ \A r : Top(i, r) = IF r = q /\ v > Top(i - 1, r) THEN v ELSE Top(i - 1, r)
          /\ f[i].errs = IF TooEarly(ops, ops[i]) \/ v < Top(i - 1, q) THEN a.errs \cup {i} ELSE a.errs
      <4>1. f[i] = CheckNext(ops, f[i - 1], i)
        BY Zenon, <2>1
      <4>2. /\ \A r : MaxSeen(CheckNext(ops, f[i - 1], i).seen, r) =
                       IF r = q /\ v > MaxSeen(f[i - 1].seen, r) THEN v ELSE MaxSeen(f[i - 1].seen, r)
            /\ CheckNext(ops, f[i - 1], i).errs =
                 IF TooEarly(ops, ops[i]) \/ v < MaxSeen(f[i - 1].seen, q)
                 THEN f[i - 1].errs \cup {i} ELSE f[i - 1].errs
        BY ZenonT(40), <2>3, OneOperation
      <4> QED
        BY Zenon, <4>1, <4>2
    <3>2. /\ Top(i - 1, q) \in Nat
          /\ Top(i - 1, q) = 0 \/ \E j \in 1..(i - 1) : Served(j, q) /\ ops[j].seq = Top(i - 1, q)
          /\ \A j \in 1..(i - 1) : Served(j, q) => ops[j].seq <= Top(i - 1, q)
      BY Zenon, <2>1
    <3>3. v < Top(i - 1, q) <=> \E k \in 1..(i - 1) : Served(k, q) /\ ops[k].seq > v
      <4> DEFINE top == Top(i - 1, q)
      <4>1. \A j \in 1..(i - 1) : ops[j].seq \in Nat
        BY <1>0
      <4> HIDE DEF Served, top, v, q
      <4>2. top \in Nat /\ v \in Nat
        BY Zenon, <2>0, <3>2 DEF v, top
      <4>3. ASSUME v < top PROVE \E k \in 1..(i - 1) : Served(k, q) /\ ops[k].seq > v
        <5>1. top # 0 /\ top > v
          BY <4>2, <4>3
        <5> QED
          BY Zenon, <3>2, <5>1 DEF top
      <4>4. ASSUME NEW k \in 1..(i - 1), Served(k, q), ops[k].seq > v PROVE v < top
        <5>1. ops[k].seq <= top
          BY Zenon, <3>2, <4>4 DEF top
        <5> QED
          BY <4>1, <4>2, <4>4, <5>1
      <4> QED
        BY Zenon, <4>3, <4>4 DEF top
    <3>4. Wrong(i) <=> TooEarly(ops, ops[i]) \/ v < Top(i - 1, q)
      BY Zenon, <2>3, <3>3
    <3>5. f[i].errs = {j \in 1..i : Wrong(j)}
      <4>1. a.errs = {j \in 1..(i - 1) : Wrong(j)}
        BY Zenon, <2>1
      <4> HIDE DEF Wrong, a, Top
      <4> QED
        BY Zenon, <2>0, <3>1, <3>4, <4>1
    <3>6. ASSUME NEW r
          PROVE  /\ Top(i, r) \in Nat
                 /\ Top(i, r) = 0 \/ \E j \in 1..i : Served(j, r) /\ ops[j].seq = Top(i, r)
                 /\ \A j \in 1..i : Served(j, r) => ops[j].seq <= Top(i, r)
      <4> DEFINE old == Top(i - 1, r)
                 new == Top(i, r)
      <4>0. Served(i, r) <=> r = q
        BY Zenon, <2>3
      <4>1. /\ old \in Nat
            /\ old = 0 \/ \E j \in 1..(i - 1) : Served(j, r) /\ ops[j].seq = old
            /\ \A j \in 1..(i - 1) : Served(j, r) => ops[j].seq <= old
        BY Zenon, <2>1
      <4>2. new = IF r = q /\ v > old THEN v ELSE old
        BY Zenon, <3>1
      <4>3. v \in Nat
        BY Zenon, <2>0
      <4>4. \A j \in 1..(i - 1) : ops[j].seq \in Nat
        BY <1>0
      <4> HIDE DEF Served, old, new, v, q
      <4>5. new \in Nat /\ old <= new /\ (r = q => v <= new) /\ (new = old \/ (new = v /\ r = q))
        BY <4>1, <4>2, <4>3
      <4>6. \A j \in 1..(i - 1) : ops[j].seq <= old => ops[j].seq <= new
        BY <4>1, <4>4, <4>5
      <4>7. \A j \in 1..i : Served(j, r) => ops[j].seq <= new
        BY Zenon, <2>0, <4>0, <4>1, <4>5, <4>6 DEF v
      <4>8. new = 0 \/ \E j \in 1..i : Served(j, r) /\ ops[j].seq = new
        BY Zenon, <2>0, <4>0, <4>1, <4>5 DEF v
      <4> QED
        BY Zenon, <4>5, <4>7, <4>8 DEF new
    <3> QED
      BY Zenon, <2>0, <3>5, <3>6
  <2> QED
    BY Zenon, <2>2, <2>3
<1>6. 0..n \subseteq T
  <2> HIDE DEF T
  <2> QED
    BY Zenon, <1>0, <1>4, <1>5, StepByStep
<1>7. n \in 0..n
  BY <1>0
<1>8. f[n].errs = {j \in 1..n : Wrong(j)}
  BY Zenon, <1>6, <1>7
<1>9. Objectionable(ops) = {j \in 1..n : Wrong(j)}
  BY Zenon, <1>0 DEF Objectionable
<1> QED
  BY Zenon, <1>2, <1>8, <1>9

(***************************************************************************)
(* Run                                                                     *)
(***************************************************************************)

Parts(d, drop, loss, dup, reorder, least, skew, failing) ==
  /\ d \in FaultConfig
  /\ d.edgeDrop = drop /\ d.loss = loss /\ d.dup = dup /\ d.reorder = reorder
  /\ d.delayMin = least /\ d.skew = skew /\ d.failFsync = failing

\* Each setter changes its own part of the configuration and no other.
LEMMA Setters ==
  ASSUME NEW c \in FaultConfig
  PROVE  /\ Parts(c, c.edgeDrop, c.loss, c.dup, c.reorder, c.delayMin, c.skew, c.failFsync)
         /\ \A drop \in SUBSET Edge :
              Parts([c EXCEPT !.edgeDrop = drop], drop, c.loss, c.dup, c.reorder, c.delayMin, c.skew, c.failFsync)
         /\ \A b \in BOOLEAN :
              /\ Parts([c EXCEPT !.loss = b], c.edgeDrop, b, c.dup, c.reorder, c.delayMin, c.skew, c.failFsync)
              /\ Parts([c EXCEPT !.dup = b], c.edgeDrop, c.loss, b, c.reorder, c.delayMin, c.skew, c.failFsync)
              /\ \A j \in Delays \cup {0} :
                   Parts(SetReorder(c, b, j), c.edgeDrop, c.loss, c.dup, b, c.delayMin, c.skew, c.failFsync)
         /\ \A j \in Delays \cup {0} :
              Parts(SetDelay(c, j), c.edgeDrop, c.loss, c.dup, c.reorder, j, c.skew, c.failFsync)
         /\ \A s \in [Node -> Delays \cup {0}] :
              Parts([c EXCEPT !.skew = s], c.edgeDrop, c.loss, c.dup, c.reorder, c.delayMin, s, c.failFsync)
         /\ \A x \in SUBSET (Node \cup {Whole}) :
              Parts([c EXCEPT !.failFsync = x], c.edgeDrop, c.loss, c.dup, c.reorder, c.delayMin, c.skew, x)
<1>1. Parts(c, c.edgeDrop, c.loss, c.dup, c.reorder, c.delayMin, c.skew, c.failFsync)
  BY Zenon DEF Parts
<1>2. ASSUME NEW drop \in SUBSET Edge
      PROVE  Parts([c EXCEPT !.edgeDrop = drop], drop, c.loss, c.dup, c.reorder, c.delayMin, c.skew, c.failFsync)
  BY SMTT(30) DEF Parts, FaultConfig
<1>3. ASSUME NEW b \in BOOLEAN
      PROVE  /\ Parts([c EXCEPT !.loss = b], c.edgeDrop, b, c.dup, c.reorder, c.delayMin, c.skew, c.failFsync)
             /\ Parts([c EXCEPT !.dup = b], c.edgeDrop, c.loss, b, c.reorder, c.delayMin, c.skew, c.failFsync)
  BY SMTT(30) DEF Parts, FaultConfig
<1>4. ASSUME NEW b \in BOOLEAN, NEW j \in Delays \cup {0}
      PROVE  Parts(SetReorder(c, b, j), c.edgeDrop, c.loss, c.dup, b, c.delayMin, c.skew, c.failFsync)
  <2> DEFINE m == IF j > 0 THEN j ELSE c.delayMax
  <2> DEFINE d == [c EXCEPT !.reorder = b]
  <2>1. m \in Delays \cup {0} /\ SetReorder(c, b, j) = [d EXCEPT !.delayMax = m]
    BY DEF FaultConfig, SetReorder
  <2>2. Parts(d, c.edgeDrop, c.loss, c.dup, b, c.delayMin, c.skew, c.failFsync)
    BY SMTT(30) DEF Parts, FaultConfig
  <2> HIDE DEF m, d
  <2> QED
    BY SMTT(30), <2>1, <2>2 DEF Parts, FaultConfig
<1>5. ASSUME NEW j \in Delays \cup {0}
      PROVE  Parts(SetDelay(c, j), c.edgeDrop, c.loss, c.dup, c.reorder, j, c.skew, c.failFsync)
  <2> DEFINE d == [c EXCEPT !.delayMin = j]
  <2>1. SetDelay(c, j) = [d EXCEPT !.delayMax = j]
    BY DEF FaultConfig, SetDelay
  <2>2. Parts(d, c.edgeDrop, c.loss, c.dup, c.reorder, j, c.skew, c.failFsync)
    BY SMTT(30) DEF Parts, FaultConfig
  <2> HIDE DEF d
  <2> QED
    BY SMTT(30), <2>1, <2>2 DEF Parts, FaultConfig
<1>6. ASSUME NEW s \in [Node -> Delays \cup {0}]
      PROVE  Parts([c EXCEPT !.skew = s], c.edgeDrop, c.loss, c.dup, c.reorder, c.delayMin, s, c.failFsync)
  BY SMTT(30) DEF Parts, FaultConfig
<1>7. ASSUME NEW x \in SUBSET (Node \cup {Whole})
      PROVE  Parts([c EXCEPT !.failFsync = x], c.edgeDrop, c.loss, c.dup, c.reorder, c.delayMin, c.skew, x)
  BY SMTT(30) DEF Parts, FaultConfig
<1> QED
  BY Zenon, <1>1, <1>2, <1>3, <1>4, <1>5, <1>6, <1>7

\* What is known of the parts of a configuration and of a fault.
LEMMA PartShapes ==
  ASSUME NEW c \in FaultConfig, NEW f \in Fault
  PROVE  /\ c.edgeDrop \subseteq Edge /\ c.loss \in BOOLEAN /\ c.dup \in BOOLEAN /\ c.reorder \in BOOLEAN
         /\ c.delayMin \in Delays \cup {0} /\ c.delayMax \in Delays \cup {0}
         /\ c.skew \in [Node -> Delays \cup {0}] /\ c.failFsync \subseteq Node \cup {Whole}
         /\ f.kind \in Kinds /\ f.target \in Node \cup {Whole} /\ f.delay \in Delays \cup {0}
         /\ f.kind \in {"crash", "skew", "asymmetric"} => f.target \in Node
         /\ f.kind = "asymmetric" => f.peer \in Node
BY DEF FaultConfig, Fault

\* What is left of the configuration c when the fault is applied.
Applied(c, f, d) ==
  /\ d \in FaultConfig /\ c.edgeDrop \subseteq d.edgeDrop
  /\ \A e \in d.edgeDrop : \/ e \in c.edgeDrop \/ f.kind \in Cutting
                           \/ (f.kind = "asymmetric" /\ <<f.target, f.peer>> = e)
  /\ f.kind = "minority" => Across(Minority) \subseteq d.edgeDrop
  /\ f.kind = "majority" => Across(Majority) \subseteq d.edgeDrop
  /\ f.kind = "asymmetric" => <<f.target, f.peer>> \in d.edgeDrop
  /\ d.loss <=> c.loss \/ f.kind = "loss"
  /\ d.dup <=> c.dup \/ f.kind = "dup"
  /\ d.reorder <=> c.reorder \/ f.kind = "reorder"
  /\ d.delayMin = IF f.kind = "delay" THEN f.delay ELSE c.delayMin
  /\ d.skew = IF f.kind = "skew" THEN [c.skew EXCEPT ![f.target] = f.delay] ELSE c.skew
  /\ d.failFsync = IF f.kind = "fsync" THEN c.failFsync \cup {f.target} ELSE c.failFsync

\* Applying a fault does this to the configuration, whoever leads.
LEMMA ApplyEffect ==
  ASSUME NEW c \in FaultConfig, NEW f \in Fault, NEW leader \in Node \cup {Whole}
  PROVE  Applied(c, f, ApplyToConfig(c, f, leader))
<1> DEFINE d == ApplyToConfig(c, f, leader)
<1> SUFFICES Applied(c, f, d)
  OBVIOUS
<1>0. /\ c.edgeDrop \subseteq Edge /\ c.skew \in [Node -> Delays \cup {0}] /\ c.failFsync \subseteq Node \cup {Whole}
      /\ f.kind \in Kinds /\ f.target \in Node \cup {Whole} /\ f.delay \in Delays \cup {0}
      /\ f.kind \in {"crash", "skew", "asymmetric"} => f.target \in Node
      /\ f.kind = "asymmetric" => f.peer \in Node
  BY Zenon, PartShapes
<1>1. ASSUME NEW side, d = SetPartition(c, side), f.kind \in Cutting,
             f.kind = "minority" => side = Minority, f.kind = "majority" => side = Majority
      PROVE  Applied(c, f, d)
  <2> DEFINE drop == c.edgeDrop \cup Across(side)
  <2>1. drop \in SUBSET Edge /\ d = [c EXCEPT !.edgeDrop = drop]
    BY Zenon, <1>0, <1>1 DEF SetPartition, Across
  <2>2. Parts(d, drop, c.loss, c.dup, c.reorder, c.delayMin, c.skew, c.failFsync)
    BY Zenon, <2>1, Setters
  <2>3. c.edgeDrop \subseteq drop /\ Across(side) \subseteq drop
    BY Zenon
  <2> HIDE DEF d, drop
  <2> QED
    BY <1>1, <2>2, <2>3 DEF Parts, Applied, Cutting
<1>2. CASE f.kind = "leader isolation"
  <2>1. d = IF leader = Whole THEN c ELSE SetPartition(c, {leader})
    BY <1>2 DEF ApplyToConfig
  <2>2. CASE leader # Whole
    BY <1>1, <1>2, <2>1, <2>2 DEF Cutting
  <2>3. CASE leader = Whole
    <3>1. Parts(d, c.edgeDrop, c.loss, c.dup, c.reorder, c.delayMin, c.skew, c.failFsync)
      BY Zenon, <2>1, <2>3, Setters
    <3> HIDE DEF d
    <3> QED
      BY <1>2, <3>1 DEF Parts, Applied, Cutting
  <2> QED
    BY Zenon, <2>2, <2>3
<1>3. CASE f.kind = "minority"
  <2>1. d = SetPartition(c, Minority)
    BY <1>3 DEF ApplyToConfig
  <2> QED
    BY <1>1, <1>3, <2>1 DEF Cutting
<1>4. CASE f.kind = "majority"
  <2>1. d = SetPartition(c, Majority)
    BY <1>4 DEF ApplyToConfig
  <2> QED
    BY <1>1, <1>4, <2>1 DEF Cutting
<1>5. CASE f.kind = "asymmetric"
  <2> DEFINE drop == c.edgeDrop \cup {<<f.target, f.peer>>}
  <2>1. d = [c EXCEPT !.edgeDrop = drop]
    BY <1>5 DEF ApplyToConfig
  <2>2. drop \in SUBSET Edge
    BY <1>0, <1>5 DEF Edge
  <2>3. Parts(d, drop, c.loss, c.dup, c.reorder, c.delayMin, c.skew, c.failFsync)
    BY Zenon, <1>0, <2>1, <2>2, Setters
  <2> HIDE DEF d
  <2> QED
    BY <1>0, <1>5, <2>3 DEF Parts, Applied, Cutting
<1>6. CASE f.kind = "loss"
  <2>1. d = [c EXCEPT !.loss = TRUE]
    BY <1>6 DEF ApplyToConfig
  <2>3. Parts(d, c.edgeDrop, TRUE, c.dup, c.reorder, c.delayMin, c.skew, c.failFsync)
    BY Zenon, <1>0, <2>1, Setters
  <2> HIDE DEF d
  <2> QED
    BY <1>0, <1>6, <2>3 DEF Parts, Applied, Cutting
<1>7. CASE f.kind = "dup"
  <2>1. d = [c EXCEPT !.dup = TRUE]
    BY <1>7 DEF ApplyToConfig
  <2>3. Parts(d, c.edgeDrop, c.loss, TRUE, c.reorder, c.delayMin, c.skew, c.failFsync)
    BY Zenon, <1>0, <2>1, Setters
  <2> HIDE DEF d
  <2> QED
    BY <1>0, <1>7, <2>3 DEF Parts, Applied, Cutting
<1>8. CASE f.kind = "reorder"
  <2>1. d = SetReorder(c, TRUE, f.delay)
    BY <1>8 DEF ApplyToConfig
  <2>3. Parts(d, c.edgeDrop, c.loss, c.dup, TRUE, c.delayMin, c.skew, c.failFsync)
    BY Zenon, <1>0, <2>1, Setters
  <2> HIDE DEF d
  <2> QED
    BY <1>0, <1>8, <2>3 DEF Parts, Applied, Cutting
<1>9. CASE f.kind = "delay"
  <2>1. d = SetDelay(c, f.delay)
    BY <1>9 DEF ApplyToConfig
  <2>3. Parts(d, c.edgeDrop, c.loss, c.dup, c.reorder, f.delay, c.skew, c.failFsync)
    BY Zenon, <1>0, <2>1, Setters
  <2> HIDE DEF d
  <2> QED
    BY <1>0, <1>9, <2>3 DEF Parts, Applied, Cutting
<1>10. CASE f.kind = "skew"
  <2> DEFINE s == [c.skew EXCEPT ![f.target] = f.delay]
  <2>1. d = [c EXCEPT !.skew = s]
    BY <1>10 DEF ApplyToConfig
  <2>2. s \in [Node -> Delays \cup {0}]
    BY <1>0, <1>10
  <2> HIDE DEF s
  <2>3. Parts(d, c.edgeDrop, c.loss, c.dup, c.reorder, c.delayMin, s, c.failFsync)
    BY Zenon, <1>0, <2>1, <2>2, Setters
  <2> HIDE DEF d
  <2> QED
    BY <1>0, <1>10, <2>3 DEF Parts, Applied, Cutting, s
<1>11. CASE f.kind = "fsync"
  <2> DEFINE x == c.failFsync \cup {f.target}
  <2>1. d = [c EXCEPT !.failFsync = x]
    BY <1>11 DEF ApplyToConfig
  <2>2. x \in SUBSET (Node \cup {Whole})
    BY <1>0, <1>11
  <2> HIDE DEF x
  <2>3. Parts(d, c.edgeDrop, c.loss, c.dup, c.reorder, c.delayMin, c.skew, x)
    BY ZenonT(40), <1>0, <2>1, <2>2, Setters
  <2> HIDE DEF d
  <2> QED
    BY <1>0, <1>11, <2>3 DEF Parts, Applied, Cutting, x
<1>12. CASE f.kind = "crash"
  <2>1. d = c
    BY <1>12 DEF ApplyToConfig
  <2>3. Parts(d, c.edgeDrop, c.loss, c.dup, c.reorder, c.delayMin, c.skew, c.failFsync)
    BY Zenon, <1>0, <2>1, Setters
  <2> HIDE DEF d
  <2> QED
    BY <1>0, <1>12, <2>3 DEF Parts, Applied, Cutting
<1> HIDE DEF d
<1> QED
  BY <1>0, <1>2, <1>3, <1>4, <1>5, <1>6, <1>7, <1>8, <1>9, <1>10, <1>11, <1>12 DEF Kinds, d

\* What is left of the configuration c when the fault is cleared.
Cleared(c, f, d) ==
  /\ d \in FaultConfig
  /\ d.edgeDrop = IF f.kind \in Cutting THEN {}
                  ELSE IF f.kind = "asymmetric" THEN c.edgeDrop \ {<<f.target, f.peer>>} ELSE c.edgeDrop
  /\ d.loss <=> c.loss /\ f.kind # "loss"
  /\ d.dup <=> c.dup /\ f.kind # "dup"
  /\ d.reorder <=> c.reorder /\ f.kind # "reorder"
  /\ d.delayMin = IF f.kind = "delay" THEN 0 ELSE c.delayMin
  /\ d.skew = IF f.kind = "skew" THEN [c.skew EXCEPT ![f.target] = 0] ELSE c.skew
  /\ d.failFsync = IF f.kind = "fsync" THEN c.failFsync \ {f.target} ELSE c.failFsync

\* Clearing a fault does this to the configuration.
LEMMA ClearEffect ==
  ASSUME NEW c \in FaultConfig, NEW f \in Fault
  PROVE  Cleared(c, f, ClearFromConfig(c, f))
<1> DEFINE d == ClearFromConfig(c, f)
<1> SUFFICES Cleared(c, f, d)
  OBVIOUS
<1>0. /\ c.edgeDrop \subseteq Edge /\ c.skew \in [Node -> Delays \cup {0}] /\ c.failFsync \subseteq Node \cup {Whole}
      /\ f.kind \in Kinds /\ 0 \in Delays \cup {0} /\ f.target \in Node \cup {Whole}
      /\ f.kind \in {"crash", "skew", "asymmetric"} => f.target \in Node
  BY Zenon, PartShapes
<1>1. CASE f.kind \in Cutting
  <2>1. d = [c EXCEPT !.edgeDrop = {}]
    BY <1>1 DEF ClearFromConfig, ClearPartition, Cutting
  <2>2. {} \in SUBSET Edge
    BY Zenon
  <2>3. Parts(d, {}, c.loss, c.dup, c.reorder, c.delayMin, c.skew, c.failFsync)
    BY Zenon, <2>1, <2>2, Setters
  <2> HIDE DEF d
  <2> QED
    BY <1>1, <2>3 DEF Parts, Cleared, Cutting
<1>2. CASE f.kind = "asymmetric"
  <2> DEFINE drop == c.edgeDrop \ {<<f.target, f.peer>>}
  <2>1. d = [c EXCEPT !.edgeDrop = drop]
    BY <1>2 DEF ClearFromConfig
  <2>2. drop \in SUBSET Edge
    BY <1>0, <1>2 DEF Edge
  <2>3. Parts(d, drop, c.loss, c.dup, c.reorder, c.delayMin, c.skew, c.failFsync)
    BY ZenonT(40), <1>0, <2>1, <2>2, Setters
  <2> HIDE DEF d
  <2> QED
    BY <1>0, <1>2, <2>3 DEF Parts, Cleared, Cutting
<1>3. CASE f.kind = "loss"
  <2>1. d = [c EXCEPT !.loss = FALSE]
    BY <1>3 DEF ClearFromConfig
  <2>3. Parts(d, c.edgeDrop, FALSE, c.dup, c.reorder, c.delayMin, c.skew, c.failFsync)
    BY Zenon, <1>0, <2>1, Setters
  <2> HIDE DEF d
  <2> QED
    BY <1>0, <1>3, <2>3 DEF Parts, Cleared, Cutting
<1>4. CASE f.kind = "dup"
  <2>1. d = [c EXCEPT !.dup = FALSE]
    BY <1>4 DEF ClearFromConfig
  <2>3. Parts(d, c.edgeDrop, c.loss, FALSE, c.reorder, c.delayMin, c.skew, c.failFsync)
    BY Zenon, <1>0, <2>1, Setters
  <2> HIDE DEF d
  <2> QED
    BY <1>0, <1>4, <2>3 DEF Parts, Cleared, Cutting
<1>5. CASE f.kind = "reorder"
  <2>1. d = SetReorder(c, FALSE, 0)
    BY <1>5 DEF ClearFromConfig
  <2>3. Parts(d, c.edgeDrop, c.loss, c.dup, FALSE, c.delayMin, c.skew, c.failFsync)
    BY Zenon, <1>0, <2>1, Setters
  <2> HIDE DEF d
  <2> QED
    BY <1>0, <1>5, <2>3 DEF Parts, Cleared, Cutting
<1>6. CASE f.kind = "delay"
  <2>1. d = SetDelay(c, 0)
    BY <1>6 DEF ClearFromConfig
  <2>3. Parts(d, c.edgeDrop, c.loss, c.dup, c.reorder, 0, c.skew, c.failFsync)
    BY Zenon, <1>0, <2>1, Setters
  <2> HIDE DEF d
  <2> QED
    BY <1>0, <1>6, <2>3 DEF Parts, Cleared, Cutting
<1>7. CASE f.kind = "skew"
  <2> DEFINE s == [c.skew EXCEPT ![f.target] = 0]
  <2>1. d = [c EXCEPT !.skew = s]
    BY <1>7 DEF ClearFromConfig
  <2>2. s \in [Node -> Delays \cup {0}]
    BY <1>0, <1>7
  <2> HIDE DEF s
  <2>3. Parts(d, c.edgeDrop, c.loss, c.dup, c.reorder, c.delayMin, s, c.failFsync)
    BY Zenon, <1>0, <2>1, <2>2, Setters
  <2> HIDE DEF d
  <2> QED
    BY <1>0, <1>7, <2>3 DEF Parts, Cleared, Cutting, s
<1>8. CASE f.kind = "fsync"
  <2> DEFINE x == c.failFsync \ {f.target}
  <2>1. d = [c EXCEPT !.failFsync = x]
    BY <1>8 DEF ClearFromConfig
  <2>2. x \in SUBSET (Node \cup {Whole})
    BY <1>0, <1>8
  <2> HIDE DEF x
  <2>3. Parts(d, c.edgeDrop, c.loss, c.dup, c.reorder, c.delayMin, c.skew, x)
    BY ZenonT(40), <1>0, <2>1, <2>2, Setters
  <2> HIDE DEF d
  <2> QED
    BY <1>0, <1>8, <2>3 DEF Parts, Cleared, Cutting, x
<1>9. CASE f.kind = "crash"
  <2>1. d = c
    BY <1>9 DEF ClearFromConfig
  <2>3. Parts(d, c.edgeDrop, c.loss, c.dup, c.reorder, c.delayMin, c.skew, c.failFsync)
    BY Zenon, <1>0, <2>1, Setters
  <2> HIDE DEF d
  <2> QED
    BY <1>0, <1>9, <2>3 DEF Parts, Cleared, Cutting
<1> HIDE DEF d
<1> QED
  BY <1>0, <1>1, <1>2, <1>3, <1>4, <1>5, <1>6, <1>7, <1>8, <1>9 DEF Kinds, Cutting, d

Applies(f) ==
  /\ \E leader \in started \cup {Whole} : cfg' = ApplyToConfig(cfg, f, leader)
  /\ started' = IF f.kind = "crash" THEN started \ {f.target} ELSE started
  /\ applied' = applied \cup {f}

Clears(f) ==
  /\ cfg' = ClearFromConfig(cfg, f)
  /\ started' = IF f.kind = "crash" THEN started \cup {f.target} ELSE started
  /\ applied' = applied \ {f}

\* A step applies a fault of the schedule, clears one, or leaves the faults and what they
\* do as they are.
LEMMA RunSteps ==
  ASSUME HarnessShape, [Next]_vars
  PROVE  /\ plan' = plan /\ due' \subseteq due
         /\ \/ \E f \in plan.faults : (Applies(f) \/ Clears(f)) /\ runner' = runner /\ runner # "done"
            \/ UNCHANGED <<applied, started, cfg>> /\ (runner' = runner \/ (runner' = "done" => applied = {}))
<1>1. CASE UNCHANGED vars
  BY Zenon, <1>1 DEF vars, harness
<1>2. ASSUME NEW f, ClearFault(f) PROVE Clears(f)
  <2>1. CASE f.kind = "crash" /\ f.target \in started
    BY Zenon, <1>2, <2>1 DEF ClearFault, Start, Clears
  <2>2. CASE f.kind = "crash" /\ f.target \notin started
    BY Zenon, <1>2, <2>2 DEF ClearFault, Start, Clears
  <2>3. CASE f.kind # "crash"
    BY Zenon, <1>2, <2>3 DEF ClearFault, Clears
  <2> QED
    BY Zenon, <2>1, <2>2, <2>3
<1>3. ASSUME NEW e \in due, ProcessEvent(e)
      PROVE  /\ plan' = plan /\ due' \subseteq due /\ e.f \in plan.faults
             /\ Applies(e.f) \/ Clears(e.f)
             /\ runner' = runner /\ runner # "done"
  <2>1. runner = "run" /\ due' = due \ {e} /\ UNCHANGED <<plan, runner>> /\ e.f \in plan.faults
    BY Zenon, <1>3 DEF ProcessEvent, HarnessShape
  <2>2. "run" # "done"
    OBVIOUS
  <2>3. ApplyFault(e.f) \/ ClearFault(e.f)
    BY Zenon, <1>3 DEF ProcessEvent
  <2>4. ApplyFault(e.f) => Applies(e.f)
    BY Zenon DEF ApplyFault, Applies
  <2> QED
    BY Zenon, <1>2, <2>1, <2>2, <2>3, <2>4
<1>4. ASSUME NEW f \in applied, ClearLeftover(f)
      PROVE  /\ plan' = plan /\ due' = due /\ f \in plan.faults /\ Clears(f)
             /\ runner' = runner /\ runner # "done"
  <2>1. runner = "clear" /\ UNCHANGED <<plan, due, runner>> /\ f \in plan.faults /\ ClearFault(f)
    BY Zenon, <1>4 DEF ClearLeftover, HarnessShape
  <2>2. "clear" # "done"
    OBVIOUS
  <2> QED
    BY Zenon, <1>2, <2>1, <2>2
<1>5. CASE TimeIsUp \/ RunEnds
  <2>1. UNCHANGED <<plan, due, applied, started, cfg>> /\ (runner' = "clear" \/ applied = {})
    BY Zenon, <1>5 DEF TimeIsUp, RunEnds
  <2>2. "clear" # "done"
    OBVIOUS
  <2> QED
    BY Zenon, <2>1, <2>2
<1>6. ASSUME \/ \E t \in 1..Total : LookAtClock(t)
             \/ Put \/ PutFails \/ BeginRound \/ WriteAcked \/ WriteTimesOut \/ Read \/ WorkloadEnds
             \/ \E s \in pending : Commit(s)
             \/ \E n \in Node : Ask(n) \/ ApplyNext(n)
      PROVE  UNCHANGED <<plan, due, applied, started, cfg, runner>>
  BY Zenon, <1>6 DEF LookAtClock, Put, PutFails, BeginRound, Ask, WriteAcked, WriteTimesOut, Read,
    WorkloadEnds, Commit, ApplyNext, harness
<1> QED
  BY Zenon, <1>1, <1>3, <1>4, <1>5, <1>6 DEF Next

\* Run and its faults keep their shapes.
LEMMA HarnessKept == Spec => []HarnessShape
<1>1. Init => HarnessShape
  <2> SUFFICES ASSUME Init PROVE HarnessShape
    OBVIOUS
  <2>1. plan \in Plans /\ applied = {} /\ started = Node /\ cfg = NewFaultConfig
    BY Zenon DEF Init
  <2>2. NewFaultConfig \in FaultConfig
    BY FaultsAssumption DEF NewFaultConfig, FaultConfig
  <2>3. \A e \in due : e.f \in plan.faults
    <3>1. due = {Event(f, apply) : f \in plan.faults, apply \in BOOLEAN}
      BY SMTT(30) DEF Init
    <3>2. \A f, apply : Event(f, apply).f = f
      BY Zenon DEF Event
    <3> QED
      BY SMTT(30), <3>1, <3>2
  <2> QED
    BY Zenon, <2>1, <2>2, <2>3 DEF HarnessShape
<1>2. HarnessShape /\ [Next]_vars => HarnessShape'
  <2> SUFFICES ASSUME HarnessShape, [Next]_vars PROVE HarnessShape'
    OBVIOUS
  <2>0. plan \in Plans /\ plan.faults \subseteq Fault /\ plan' = plan /\ due' \subseteq due
    BY Zenon, RunSteps, ChaosAssumption DEF HarnessShape
  <2>1. ASSUME NEW f \in plan.faults, Applies(f) PROVE HarnessShape'
    <3>1. PICK leader \in started \cup {Whole} : cfg' = ApplyToConfig(cfg, f, leader)
      BY Zenon, <2>1 DEF Applies
    <3>2. f \in Fault /\ leader \in Node \cup {Whole} /\ cfg \in FaultConfig
      BY Zenon, <2>0 DEF HarnessShape
    <3>3. cfg' \in FaultConfig
      BY Zenon, <3>1, <3>2, ApplyEffect DEF Applied
    <3>4. started' \subseteq started /\ applied' = applied \cup {f}
      BY Zenon, <2>1 DEF Applies
    <3> QED
      BY Zenon, <2>0, <3>3, <3>4 DEF HarnessShape
  <2>2. ASSUME NEW f \in plan.faults, Clears(f) PROVE HarnessShape'
    <3>1. f \in Fault /\ cfg \in FaultConfig /\ cfg' = ClearFromConfig(cfg, f)
      BY Zenon, <2>0, <2>2 DEF HarnessShape, Clears
    <3>2. cfg' \in FaultConfig
      BY Zenon, <3>1, ClearEffect DEF Cleared
    <3>3. f.kind = "crash" => f.target \in Node
      BY Zenon, <3>1, PartShapes
    <3>4. started' \subseteq Node /\ applied' \subseteq applied
      BY Zenon, <2>2, <3>3 DEF Clears, HarnessShape
    <3> QED
      BY Zenon, <2>0, <3>2, <3>4 DEF HarnessShape
  <2>3. CASE UNCHANGED <<applied, started, cfg>>
    BY Zenon, <2>0, <2>3 DEF HarnessShape
  <2> QED
    BY Zenon, <2>1, <2>2, <2>3, RunSteps
<1> QED
  BY <1>1, <1>2, PTL DEF Spec

\* Whatever is out of order stays accounted for.
LEMMA AccountsKept == Spec => []AccountedFor
<1>1. Init => AccountedFor
  <2> SUFFICES ASSUME Init PROVE AccountedFor
    OBVIOUS
  <2>1. applied = {} /\ started = Node /\ cfg = NewFaultConfig
    BY Zenon DEF Init
  <2>2. cfg.edgeDrop = {} /\ cfg.failFsync = {} /\ ~cfg.loss /\ ~cfg.dup
    BY <2>1 DEF NewFaultConfig
  <2> QED
    BY Zenon, <2>1, <2>2 DEF AccountedFor
<1>2. HarnessShape /\ AccountedFor /\ [Next]_vars => AccountedFor'
  <2> SUFFICES ASSUME HarnessShape, AccountedFor, [Next]_vars PROVE AccountedFor'
    OBVIOUS
  <2>0. plan.faults \subseteq Fault /\ cfg \in FaultConfig /\ started \subseteq Node
    BY Zenon, ChaosAssumption DEF HarnessShape
  <2>1. ASSUME NEW f \in plan.faults, Applies(f), runner' = runner, runner # "done" PROVE AccountedFor'
    <3>1. PICK leader \in started \cup {Whole} : cfg' = ApplyToConfig(cfg, f, leader)
      BY Zenon, <2>1 DEF Applies
    <3>2. Applied(cfg, f, cfg')
      BY Zenon, <2>0, <3>1, ApplyEffect
    <3>3. f \in applied' /\ applied \subseteq applied'
      BY Zenon, <2>1 DEF Applies
    <3>4. \A n \in Node \ started' : \E g \in applied' : g.kind = "crash" /\ g.target = n
      <4>1. SUFFICES ASSUME NEW n \in Node \ started' PROVE \E g \in applied' : g.kind = "crash" /\ g.target = n
        OBVIOUS
      <4>2. n \notin started \/ (f.kind = "crash" /\ f.target = n)
        BY Zenon, <2>1 DEF Applies
      <4>3. n \notin started => \E g \in applied : g.kind = "crash" /\ g.target = n
        BY Zenon DEF AccountedFor
      <4> QED
        BY Zenon, <3>3, <4>2, <4>3
    <3>5. \A e \in cfg'.edgeDrop : \E g \in applied' :
            g.kind \in Cutting \/ (g.kind = "asymmetric" /\ <<g.target, g.peer>> = e)
      <4>1. \A e \in cfg'.edgeDrop : \/ e \in cfg.edgeDrop \/ f.kind \in Cutting
                                     \/ (f.kind = "asymmetric" /\ <<f.target, f.peer>> = e)
        BY Zenon, <3>2 DEF Applied
      <4>2. \A e \in cfg.edgeDrop : \E g \in applied :
              g.kind \in Cutting \/ (g.kind = "asymmetric" /\ <<g.target, g.peer>> = e)
        BY Zenon DEF AccountedFor
      <4> QED
        BY Zenon, <3>3, <4>1, <4>2
    <3>6. /\ cfg'.loss => \E g \in applied' : g.kind = "loss"
          /\ cfg'.dup => \E g \in applied' : g.kind = "dup"
          /\ \A x \in cfg'.failFsync : \E g \in applied' : g.kind = "fsync" /\ g.target = x
      <4>1. /\ cfg'.loss => cfg.loss \/ f.kind = "loss"
            /\ cfg'.dup => cfg.dup \/ f.kind = "dup"
            /\ \A x \in cfg'.failFsync : x \in cfg.failFsync \/ (f.kind = "fsync" /\ f.target = x)
        BY Zenon, <3>2 DEF Applied
      <4>2. /\ cfg.loss => \E g \in applied : g.kind = "loss"
            /\ cfg.dup => \E g \in applied : g.kind = "dup"
            /\ \A x \in cfg.failFsync : \E g \in applied : g.kind = "fsync" /\ g.target = x
        BY Zenon DEF AccountedFor
      <4> QED
        BY Zenon, <3>3, <4>1, <4>2
    <3> QED
      BY Zenon, <2>1, <3>4, <3>5, <3>6 DEF AccountedFor
  <2>2. ASSUME NEW f \in plan.faults, Clears(f), runner' = runner, runner # "done" PROVE AccountedFor'
    <3>1. Cleared(cfg, f, cfg')
      BY Zenon, <2>0, <2>2, ClearEffect DEF Clears
    <3>2. \A g \in applied : g # f => g \in applied'
      BY Zenon, <2>2 DEF Clears
    <3>3. \A n \in Node \ started' : \E g \in applied' : g.kind = "crash" /\ g.target = n
      <4>1. SUFFICES ASSUME NEW n \in Node \ started' PROVE \E g \in applied' : g.kind = "crash" /\ g.target = n
        OBVIOUS
      <4>2. n \in Node \ started /\ ~(f.kind = "crash" /\ f.target = n)
        BY Zenon, <2>2, <4>1 DEF Clears
      <4>3. PICK g \in applied : g.kind = "crash" /\ g.target = n
        BY Zenon, <4>2 DEF AccountedFor
      <4> QED
        BY Zenon, <3>2, <4>2, <4>3
    <3>4. \A e \in cfg'.edgeDrop : \E g \in applied' :
            g.kind \in Cutting \/ (g.kind = "asymmetric" /\ <<g.target, g.peer>> = e)
      <4>1. SUFFICES ASSUME NEW e \in cfg'.edgeDrop
                     PROVE  \E g \in applied' : g.kind \in Cutting \/ (g.kind = "asymmetric" /\ <<g.target, g.peer>> = e)
        OBVIOUS
      <4>2. f.kind \notin Cutting /\ e \in cfg.edgeDrop /\ ~(f.kind = "asymmetric" /\ <<f.target, f.peer>> = e)
        BY Zenon, <3>1 DEF Cleared
      <4>3. PICK g \in applied : g.kind \in Cutting \/ (g.kind = "asymmetric" /\ <<g.target, g.peer>> = e)
        BY Zenon, <4>2 DEF AccountedFor
      <4> QED
        BY Zenon, <3>2, <4>2, <4>3
    <3>5. /\ cfg'.loss => \E g \in applied' : g.kind = "loss"
          /\ cfg'.dup => \E g \in applied' : g.kind = "dup"
      BY Zenon, <3>1, <3>2 DEF Cleared, AccountedFor
    <3>6. \A x \in cfg'.failFsync : \E g \in applied' : g.kind = "fsync" /\ g.target = x
      <4>1. SUFFICES ASSUME NEW x \in cfg'.failFsync PROVE \E g \in applied' : g.kind = "fsync" /\ g.target = x
        OBVIOUS
      <4>2. x \in cfg.failFsync /\ ~(f.kind = "fsync" /\ f.target = x)
        BY Zenon, <3>1, <4>1 DEF Cleared
      <4>3. PICK g \in applied : g.kind = "fsync" /\ g.target = x
        BY Zenon, <4>2 DEF AccountedFor
      <4> QED
        BY Zenon, <3>2, <4>2, <4>3
    <3> QED
      BY Zenon, <2>2, <3>3, <3>4, <3>5, <3>6 DEF AccountedFor
  <2>3. ASSUME UNCHANGED <<applied, started, cfg>>, runner' = runner \/ (runner' = "done" => applied = {})
        PROVE  AccountedFor'
    BY Zenon, <2>3 DEF AccountedFor
  <2> QED
    BY Zenon, <2>1, <2>2, <2>3, RunSteps
<1> QED
  BY <1>1, <1>2, HarnessKept, PTL DEF Spec

\* Whatever the schedule and however its faults overlap: when Run returns every node runs,
\* no message is dropped or doubled, and no fsync fails.
THEOREM RunHealsWhatItBreaks == Spec => []HealedInTheEnd
<1>1. HarnessShape /\ AccountedFor => HealedInTheEnd
  <2> SUFFICES ASSUME HarnessShape, AccountedFor, runner = "done"
               PROVE  /\ started = Node /\ ~cfg.dup
                      /\ \A a, b \in Node : ~MayDrop(cfg, a, b) /\ ~FsyncFails(cfg, a)
    BY Zenon DEF HealedInTheEnd
  <2>1. applied = {} /\ started \subseteq Node
    BY Zenon DEF AccountedFor, HarnessShape
  <2>2. started = Node /\ cfg.edgeDrop = {} /\ ~cfg.loss /\ ~cfg.dup /\ cfg.failFsync = {}
    BY Zenon, <2>1 DEF AccountedFor
  <2> QED
    BY Zenon, <2>2 DEF MayDrop, FsyncFails
<1> QED
  BY <1>1, HarnessKept, AccountsKept, PTL

\* Faults that take hold of different things: at most one concerns the edges, and two of
\* one kind concern different nodes.
LEMMA HoldsApart ==
  ASSUME NEW f \in Fault, NEW g \in Fault, Hold(f) # Hold(g)
  PROVE  /\ ~(f.kind \in Cutting \cup {"asymmetric"} /\ g.kind \in Cutting \cup {"asymmetric"})
         /\ f.kind = g.kind => f.kind \in {"crash", "skew", "fsync"} /\ f.target # g.target
<1> DEFINE E == Cutting \cup {"asymmetric"}
           N == {"crash", "skew", "fsync"}
<1>1. \A h : h.kind \in E => Hold(h) = <<"edges">>
  BY DEF Hold, Cutting
<1>2. \A h : h.kind \in N => Hold(h) = <<h.kind, h.target>>
  BY DEF Hold
<1>3. \A h : h.kind \notin E /\ h.kind \notin N => Hold(h) = <<h.kind>>
  BY DEF Hold, Cutting
<1> HIDE DEF E, N
<1>4. ~(f.kind \in E /\ g.kind \in E)
  BY Zenon, <1>1
<1>5. ASSUME f.kind = g.kind PROVE f.kind \in N /\ f.target # g.target
  <2>1. f.kind \notin E
    BY Zenon, <1>4, <1>5
  <2>2. f.kind \in N
    <3>1. f.kind \notin N => Hold(f) = <<f.kind>> /\ Hold(g) = <<g.kind>>
      BY Zenon, <1>3, <1>5, <2>1
    <3> QED
      BY Zenon, <1>5, <3>1
  <2>3. Hold(f) = <<f.kind, f.target>> /\ Hold(g) = <<g.kind, g.target>>
    BY Zenon, <1>2, <1>5, <2>2
  <2> QED
    BY Zenon, <1>5, <2>2, <2>3
<1> QED
  BY Zenon, <1>4, <1>5 DEF E, N

\* A fault that is applied leaves its mark.
LEMMA AppliedIsMarked ==
  ASSUME NEW c \in FaultConfig, NEW f \in Fault, NEW d, Applied(c, f, d), NEW up,
         f.kind = "crash" => f.target \notin up
  PROVE  Marked(d, up, f)
<1>1. f.kind = "skew" => d.skew[f.target] = f.delay
  <2> SUFFICES ASSUME f.kind = "skew" PROVE d.skew[f.target] = f.delay
    OBVIOUS
  <2>1. d.skew = [c.skew EXCEPT ![f.target] = f.delay] /\ f.target \in Node /\ c.skew \in [Node -> Delays \cup {0}]
    BY Zenon, PartShapes DEF Applied
  <2> QED
    BY Zenon, <2>1
<1>2. f.kind = "fsync" => f.target \in d.failFsync
  BY Zenon DEF Applied
<1>3. f.kind = "delay" => d.delayMin = f.delay
  BY Zenon DEF Applied
<1>4. /\ f.kind = "minority" => Across(Minority) \subseteq d.edgeDrop
      /\ f.kind = "majority" => Across(Majority) \subseteq d.edgeDrop
      /\ f.kind = "asymmetric" => <<f.target, f.peer>> \in d.edgeDrop
      /\ f.kind = "loss" => d.loss
      /\ f.kind = "dup" => d.dup
      /\ f.kind = "reorder" => d.reorder
  BY Zenon DEF Applied
<1> QED
  BY Zenon, <1>1, <1>2, <1>3, <1>4 DEF Marked

\* And leaves the marks of the others.
LEMMA MarksStayWhenApplied ==
  ASSUME NEW c \in FaultConfig, NEW f \in Fault, NEW g \in Fault, NEW d, Applied(c, f, d), NEW up, NEW less,
         less \subseteq up, Hold(f) # Hold(g), Marked(c, up, g)
  PROVE  Marked(d, less, g)
<1>1. g.kind = "delay" => d.delayMin = g.delay
  <2> SUFFICES ASSUME g.kind = "delay" PROVE d.delayMin = g.delay
    OBVIOUS
  <2>1. f.kind # "delay"
    <3>1. "delay" \notin {"crash", "skew", "fsync"}
      OBVIOUS
    <3> QED
      BY Zenon, <3>1, HoldsApart
  <2> QED
    BY Zenon, <2>1 DEF Applied, Marked
<1>2. g.kind = "skew" => d.skew[g.target] = g.delay
  <2> SUFFICES ASSUME g.kind = "skew" PROVE d.skew[g.target] = g.delay
    OBVIOUS
  <2>1. g.target \in Node /\ c.skew \in [Node -> Delays \cup {0}] /\ c.skew[g.target] = g.delay
    BY Zenon, PartShapes DEF Marked
  <2>2. f.kind # "skew" \/ f.target # g.target
    BY Zenon, HoldsApart
  <2>3. d.skew = IF f.kind = "skew" THEN [c.skew EXCEPT ![f.target] = f.delay] ELSE c.skew
    BY Zenon DEF Applied
  <2> QED
    BY Zenon, <2>1, <2>2, <2>3
<1>3. /\ c.edgeDrop \subseteq d.edgeDrop /\ c.failFsync \subseteq d.failFsync
      /\ c.loss => d.loss
      /\ c.dup => d.dup
      /\ c.reorder => d.reorder
  BY Zenon DEF Applied
<1> QED
  BY Zenon, <1>1, <1>2, <1>3 DEF Marked

\* Clearing a fault takes away its own mark only.
LEMMA MarksStayWhenCleared ==
  ASSUME NEW c \in FaultConfig, NEW f \in Fault, NEW g \in Fault, NEW d, Cleared(c, f, d), NEW up, NEW more,
         more = (IF f.kind = "crash" THEN up \cup {f.target} ELSE up),
         Hold(f) # Hold(g), Marked(c, up, g)
  PROVE  Marked(d, more, g)
<1>0. /\ f.kind = g.kind => f.kind \in {"crash", "skew", "fsync"} /\ f.target # g.target
      /\ g.kind \in Cutting \cup {"asymmetric"} => f.kind \notin Cutting \cup {"asymmetric"}
  BY Zenon, HoldsApart
<1>1. g.kind \in Cutting \cup {"asymmetric"} => d.edgeDrop = c.edgeDrop
  BY Zenon, <1>0 DEF Cleared
<1>2. /\ g.kind = "loss" => (d.loss <=> c.loss)
      /\ g.kind = "dup" => (d.dup <=> c.dup)
      /\ g.kind = "reorder" => (d.reorder <=> c.reorder)
      /\ g.kind = "delay" => d.delayMin = c.delayMin
  <2>1. g.kind \in {"loss", "dup", "reorder", "delay"} => f.kind # g.kind
    BY <1>0
  <2> QED
    BY Zenon, <2>1 DEF Cleared
<1>3. g.kind = "skew" => d.skew[g.target] = g.delay
  <2> SUFFICES ASSUME g.kind = "skew" PROVE d.skew[g.target] = g.delay
    OBVIOUS
  <2>1. g.target \in Node /\ c.skew \in [Node -> Delays \cup {0}] /\ c.skew[g.target] = g.delay
    BY Zenon, PartShapes DEF Marked
  <2>2. f.kind # "skew" \/ f.target # g.target
    BY Zenon, <1>0
  <2>3. d.skew = IF f.kind = "skew" THEN [c.skew EXCEPT ![f.target] = 0] ELSE c.skew
    BY Zenon DEF Cleared
  <2> QED
    BY Zenon, <2>1, <2>2, <2>3
<1>4. g.kind = "fsync" => g.target \in d.failFsync
  BY Zenon, <1>0 DEF Cleared, Marked
<1>5. g.kind = "crash" => g.target \notin more
  BY Zenon, <1>0 DEF Marked
<1>6. "minority" \in Cutting /\ "majority" \in Cutting
  BY DEF Cutting
<1> QED
  BY Zenon, <1>1, <1>2, <1>3, <1>4, <1>5, <1>6 DEF Marked

\* In a schedule of faults that take hold of different things every applied fault stays
\* marked.
LEMMA MarksKept == Spec => []AllMarked
<1>1. Init => AllMarked
  <2>1. Init => applied = {}
    BY SMTT(30) DEF Init
  <2> QED
    BY Zenon, <2>1 DEF AllMarked
<1>2. HarnessShape /\ AllMarked /\ [Next]_vars => AllMarked'
  <2> SUFFICES ASSUME HarnessShape, AllMarked, [Next]_vars, Apart' PROVE \A g \in applied' : Marked(cfg', started', g)
    BY Zenon DEF AllMarked
  <2>0. plan.faults \subseteq Fault /\ cfg \in FaultConfig /\ applied \subseteq plan.faults /\ started \subseteq Node
    BY Zenon, ChaosAssumption DEF HarnessShape
  <2>1. Apart /\ \A g \in applied : Marked(cfg, started, g)
    BY Zenon, RunSteps DEF Apart, AllMarked
  <2>2. ASSUME NEW f \in plan.faults, Applies(f), NEW g \in applied' PROVE Marked(cfg', started', g)
    <3>1. PICK leader \in started \cup {Whole} : cfg' = ApplyToConfig(cfg, f, leader)
      BY Zenon, <2>2 DEF Applies
    <3>2. Applied(cfg, f, cfg')
      BY Zenon, <2>0, <3>1, ApplyEffect
    <3>3. started' \subseteq started /\ (f.kind = "crash" => f.target \notin started') /\ applied' = applied \cup {f}
      BY Zenon, <2>2 DEF Applies
    <3>4. CASE g = f
      BY Zenon, <2>0, <3>2, <3>3, <3>4, AppliedIsMarked
    <3>5. CASE g # f
      <4>1. g \in Fault /\ Hold(f) # Hold(g) /\ Marked(cfg, started, g)
        BY Zenon, <2>0, <2>1, <2>2, <3>3, <3>5 DEF Apart
      <4> QED
        BY SMTT(30), <2>0, <3>2, <3>3, <4>1, MarksStayWhenApplied
    <3> QED
      BY Zenon, <3>4, <3>5
  <2>3. ASSUME NEW f \in plan.faults, Clears(f), NEW g \in applied' PROVE Marked(cfg', started', g)
    <3>1. Cleared(cfg, f, cfg')
      BY Zenon, <2>0, <2>3, ClearEffect DEF Clears
    <3>2. g \in applied /\ g # f /\ started' = IF f.kind = "crash" THEN started \cup {f.target} ELSE started
      BY Zenon, <2>3 DEF Clears
    <3>3. g \in Fault /\ Hold(f) # Hold(g) /\ Marked(cfg, started, g)
      BY Zenon, <2>0, <2>1, <3>2 DEF Apart
    <3> QED
      BY SMTT(30), <2>0, <3>1, <3>2, <3>3, MarksStayWhenCleared
  <2>4. CASE UNCHANGED <<applied, started, cfg>>
    BY Zenon, <2>1, <2>4
  <2> QED
    BY Zenon, <2>2, <2>3, <2>4, RunSteps
<1> QED
  BY <1>1, <1>2, HarnessKept, PTL DEF Spec

\* How long messages take: never less than the least delay or than the sender's skew, and
\* not always the same when they are reordered.
LEMMA LatencyFacts ==
  ASSUME NEW c \in FaultConfig, NEW n \in Node
  PROVE  /\ \A l \in Latencies(c, n) : l >= c.delayMin /\ l >= c.skew[n]
         /\ c.reorder => Cardinality(Latencies(c, n)) > 1
<1> DEFINE min == c.delayMin
           max == c.delayMax
           s == c.skew[n]
           A == IF max > min THEN min..(max - 1) ELSE {min}
           J == IF c.reorder THEN 0..((IF max > Jitter THEN max ELSE Jitter) - 1) ELSE {0}
           L == Latencies(c, n)
<1>0. min \in Nat /\ max \in Nat /\ s \in Nat /\ Jitter \in Nat /\ Jitter > 1
  <2>1. min \in Delays \cup {0} /\ max \in Delays \cup {0} /\ c.skew \in [Node -> Delays \cup {0}]
    BY DEF FaultConfig
  <2>2. s \in Delays \cup {0}
    BY Zenon, <2>1
  <2> HIDE DEF min, max, s
  <2> QED
    BY <2>1, <2>2, FaultsAssumption
<1>1. L = {a + s + j : a \in A, j \in J}
  BY SMTT(30) DEF Latencies
<1> HIDE DEF min, max, s, L
<1>2. \A a \in A : a \in Nat /\ min <= a /\ a <= min + max
  BY <1>0
<1>3. \A j \in J : j \in Nat /\ j <= max + Jitter
  BY <1>0
<1>4. min \in A
  BY <1>0
<1>5. ASSUME c.reorder PROVE 0 \in J /\ 1 \in J
  BY <1>0, <1>5
<1> HIDE DEF A, J
<1>6. \A l \in L : l \in Nat /\ l >= min /\ l >= s /\ l <= min + max + s + max + Jitter
  BY SMTT(30), <1>0, <1>1, <1>2, <1>3
<1>7. ASSUME c.reorder PROVE Cardinality(L) > 1
  <2> DEFINE x == min + s
  <2>1. x \in L /\ x + 1 \in L /\ x \in Nat
    BY SMTT(30), <1>0, <1>1, <1>4, <1>5, <1>7
  <2>2. IsFiniteSet(L)
    <3> DEFINE M == min + max + s + max + Jitter
    <3>1. M \in Nat /\ L \subseteq 0..M
      BY <1>0, <1>6
    <3>2. IsFiniteSet(0..M)
      BY <3>1, FS_Interval
    <3> QED
      BY Zenon, <3>1, <3>2, FS_Subset
  <2> HIDE DEF x
  <2>3. IsFiniteSet({x}) /\ Cardinality({x}) = 1 /\ x + 1 \notin {x}
    <3>1. x + 1 \notin {x}
      BY <2>1
    <3> QED
      BY Zenon, <3>1, FS_Singleton
  <2>4. Cardinality({x} \cup {x + 1}) = 2
    <3>1. Cardinality({x} \cup {x + 1}) = Cardinality({x}) + 1
      BY Zenon, <2>3, FS_AddElement
    <3> QED
      BY <2>3, <3>1
  <2>5. {x} \cup {x + 1} \subseteq L
    BY Zenon, <2>1
  <2>6. Cardinality({x} \cup {x + 1}) <= Cardinality(L) /\ Cardinality(L) \in Nat
    <3>1. {x} \cup {x + 1} \in SUBSET L
      BY Zenon, <2>5
    <3>2. Cardinality(L) \in Nat
      BY Zenon, <2>2, FS_CardinalityType
    <3> HIDE DEF L
    <3> QED
      BY SMTT(30), <2>2, <3>1, <3>2, FS_Subset
  <2>7. \A m \in Nat : 2 <= m => m > 1
    OBVIOUS
  <2> QED
    BY Zenon, <2>4, <2>6, <2>7
<1> QED
  BY Zenon, <1>6, <1>7 DEF min, s, L

\* Minorities and majorities are sets of nodes.
LEMMA SidesAreNodes == Minority \subseteq Node /\ Majority \subseteq Node
<1> DEFINE n == Len(Ids)
<1>0. Ids \in Seq(Node) /\ n \in Nat /\ n > 0 /\ DOMAIN Ids = 1..n
  BY FaultsAssumption DEF Node
<1>1. ASSUME NEW k \in 0..n PROVE FirstIds(k) \subseteq Node
  <2>1. Len(SubSeq(Ids, 1, k)) = k /\ DOMAIN SubSeq(Ids, 1, k) = 1..k /\ \A i \in 1..k : SubSeq(Ids, 1, k)[i] \in Node
    BY <1>0
  <2> QED
    BY Zenon, <2>1 DEF FirstIds, Range
<1>2. n \div 2 \in 0..n /\ (n + 1) \div 2 \in 0..n
  <2> HIDE DEF n
  <2> QED
    BY <1>0
<1> QED
  BY Zenon, <1>1, <1>2 DEF Minority, Majority

\* A marked fault is in force.
LEMMA MarkedIsInForce ==
  ASSUME NEW c \in FaultConfig, NEW f \in Fault, NEW up, Marked(c, up, f)
  PROVE  InForce(c, up, f)
<1>0. f.kind \in Kinds /\ (f.kind = "skew" => f.target \in Node) /\ c.loss \in BOOLEAN /\ c.dup \in BOOLEAN
  BY Zenon, PartShapes
<1>1. ASSUME NEW side, side \subseteq Node, Across(side) \subseteq c.edgeDrop PROVE Severed(c, side)
  <2> SUFFICES ASSUME NEW a \in side, NEW b \in Node \ side PROVE MayDrop(c, a, b) /\ MayDrop(c, b, a)
    BY Zenon DEF Severed
  <2>1. <<a, b>> \in Across(side) /\ <<b, a>> \in Across(side)
    BY <1>1 DEF Across, Edge
  <2> QED
    BY Zenon, <1>1, <2>1 DEF MayDrop
<1>2. CASE f.kind = "crash"
  BY <1>2 DEF InForce, Marked
<1>3. CASE f.kind = "leader isolation"
  BY <1>3 DEF InForce
<1>4. CASE f.kind = "minority"
  <2>1. Severed(c, Minority)
    BY Zenon, <1>1, <1>4, SidesAreNodes DEF Marked
  <2> QED
    BY <1>4, <2>1 DEF InForce
<1>5. CASE f.kind = "majority"
  <2>1. Severed(c, Majority)
    BY Zenon, <1>1, <1>5, SidesAreNodes DEF Marked
  <2> QED
    BY <1>5, <2>1 DEF InForce
<1>6. CASE f.kind = "asymmetric"
  BY <1>6 DEF InForce, Marked, MayDrop
<1>7. CASE f.kind = "loss"
  <2>1. \A e \in Edge : MayDrop(c, e[1], e[2])
    BY Zenon, <1>7 DEF Marked, MayDrop
  <2> QED
    BY <1>7, <2>1 DEF InForce
<1>8. CASE f.kind = "dup"
  BY <1>8 DEF InForce, Marked
<1>9. CASE f.kind = "reorder"
  <2>1. \A n \in Node : Cardinality(Latencies(c, n)) > 1
    BY Zenon, <1>9, LatencyFacts DEF Marked
  <2> QED
    BY <1>9, <2>1 DEF InForce
<1>10. CASE f.kind = "delay"
  <2>1. \A n \in Node : \A l \in Latencies(c, n) : l >= f.delay
    BY Zenon, <1>10, LatencyFacts DEF Marked
  <2> QED
    BY <1>10, <2>1 DEF InForce
<1>11. CASE f.kind = "skew"
  <2>1. \A l \in Latencies(c, f.target) : l >= f.delay
    BY Zenon, <1>0, <1>11, LatencyFacts DEF Marked
  <2> QED
    BY <1>11, <2>1 DEF InForce
<1>12. CASE f.kind = "fsync"
  <2>1. \A n \in Node : f.target \in {n, Whole} => FsyncFails(c, n)
    BY Zenon, <1>12 DEF Marked, FsyncFails
  <2> QED
    BY <1>12, <2>1 DEF InForce
<1> QED
  BY <1>0, <1>2, <1>3, <1>4, <1>5, <1>6, <1>7, <1>8, <1>9, <1>10, <1>11, <1>12 DEF Kinds

\* In a schedule of faults that take hold of different things, whatever their times: a fault
\* that Run has applied and not cleared is in force.
THEOREM SeparateFaultsStayInForce == Spec => []FaultsStayInForce
<1>1. HarnessShape /\ AllMarked => FaultsStayInForce
  <2> SUFFICES ASSUME HarnessShape, AllMarked, Apart, NEW f \in applied PROVE InForce(cfg, started, f)
    BY Zenon DEF FaultsStayInForce, Apart
  <2>1. cfg \in FaultConfig /\ f \in Fault
    BY Zenon, ChaosAssumption DEF HarnessShape
  <2>2. Marked(cfg, started, f)
    BY Zenon DEF AllMarked
  <2> QED
    BY Zenon, <2>1, <2>2, MarkedIsInForce
<1> QED
  BY <1>1, HarnessKept, MarksKept, PTL

(***************************************************************************)
(* The workload and its oracles                                            *)
(***************************************************************************)

Restart(n, base) ==
  /\ at' = [at EXCEPT ![n] = base]
  /\ replayed' = IF base < at[n] THEN replayed \cup {n} ELSE replayed
  /\ UNCHANGED <<log, pending, value, work, hist>>

\* What a step may do to the cluster and to the workload.
LEMMA ClusterSteps ==
  ASSUME HarnessShape, [Next]_vars
  PROVE  \/ UNCHANGED <<log, pending, at, value, work, hist, replayed>>
         \/ \E n \in Node : \E base \in 0..at[n] : Restart(n, base)
         \/ Put \/ PutFails \/ WriteAcked \/ WriteTimesOut \/ Read \/ WorkloadEnds
         \/ \E s \in pending : Commit(s)
         \/ \E n \in Node : ApplyNext(n)
<1>0. plan.faults \subseteq Fault
  BY Zenon, ChaosAssumption DEF HarnessShape
<1>1. CASE UNCHANGED vars
  BY Zenon, <1>1 DEF vars, cluster
<1>2. ASSUME NEW f \in plan.faults, ClearFault(f), UNCHANGED <<log, pending, value, work, hist>>
      PROVE  \/ UNCHANGED <<log, pending, at, value, work, hist, replayed>>
             \/ \E n \in Node : \E base \in 0..at[n] : Restart(n, base)
  <2>1. CASE f.kind = "crash" /\ f.target \notin started
    <3>1. f.target \in Node
      BY Zenon, <1>0, <2>1, PartShapes, ChaosAssumption DEF HarnessShape
    <3>2. \E base \in 0..at[f.target] : Restart(f.target, base)
      BY Zenon, <1>2, <2>1 DEF ClearFault, Start, Restart
    <3> QED
      BY Zenon, <3>1, <3>2
  <2>2. CASE ~(f.kind = "crash" /\ f.target \notin started)
    BY Zenon, <1>2, <2>2 DEF ClearFault, Start
  <2> QED
    BY Zenon, <2>1, <2>2
<1>3. ASSUME NEW e \in due, ProcessEvent(e)
      PROVE  \/ UNCHANGED <<log, pending, at, value, work, hist, replayed>>
             \/ \E n \in Node : \E base \in 0..at[n] : Restart(n, base)
  <2>1. UNCHANGED <<log, pending, value, work, hist>> /\ e.f \in plan.faults
    BY Zenon, <1>3 DEF ProcessEvent, HarnessShape
  <2>2. ApplyFault(e.f) \/ ClearFault(e.f)
    BY Zenon, <1>3 DEF ProcessEvent
  <2>3. ApplyFault(e.f) => UNCHANGED <<at, replayed>>
    BY Zenon DEF ApplyFault
  <2> QED
    BY Zenon, <1>2, <2>1, <2>2, <2>3
<1>4. ASSUME NEW f \in applied, ClearLeftover(f)
      PROVE  \/ UNCHANGED <<log, pending, at, value, work, hist, replayed>>
             \/ \E n \in Node : \E base \in 0..at[n] : Restart(n, base)
  <2>1. UNCHANGED <<log, pending, value, work, hist>> /\ f \in plan.faults /\ ClearFault(f)
    BY Zenon, <1>4 DEF ClearLeftover, HarnessShape
  <2> QED
    BY Zenon, <1>2, <2>1
<1>5. ASSUME TimeIsUp \/ RunEnds \/ \E t \in 1..Total : LookAtClock(t)
      PROVE  UNCHANGED <<log, pending, at, value, work, hist, replayed>>
  BY Zenon, <1>5 DEF TimeIsUp, RunEnds, LookAtClock, cluster
<1>6. ASSUME BeginRound \/ \E n \in Node : Ask(n)
      PROVE  UNCHANGED <<log, pending, at, value, work, hist, replayed>>
  BY Zenon, <1>6 DEF BeginRound, Ask, cluster
<1> QED
  BY Zenon, <1>1, <1>3, <1>4, <1>5, <1>6 DEF Next

\* The cluster keeps its invariant.
LEMMA ClusterKept == Spec => []ClusterInv
<1>1. Init => ClusterInv
  <2> SUFFICES ASSUME Init PROVE ClusterInv
    OBVIOUS
  <2>1. /\ work = [pc |-> "tick", seq |-> 1] /\ log = <<1>> /\ pending = {}
        /\ at = [n \in Node |-> 1] /\ value = [n \in Node |-> 1]
    BY SMTT(30) DEF Init
  <2>2. work \in [pc : {"tick", "wait", "read", "over"}, seq : Nat] /\ work.seq = 1 /\ log \in Seq(Nat) /\ Len(log) = 1 /\ log[1] = 1
    BY <2>1
  <2>3. at \in [Node -> Nat] /\ value \in [Node -> Nat] /\ \A n \in Node : at[n] = 1 /\ value[n] = 1
    BY <2>1
  <2> QED
    BY <2>1, <2>2, <2>3 DEF ClusterInv
<1>2. HarnessShape /\ ClusterInv /\ [Next]_vars => ClusterInv'
  <2> SUFFICES ASSUME HarnessShape, ClusterInv, [Next]_vars PROVE ClusterInv'
    OBVIOUS
  <2> DEFINE n0 == Len(log)
  <2>0. /\ work \in [pc : {"tick", "wait", "read", "over"}, seq : Nat] /\ work.seq \in Nat
        /\ log \in Seq(Nat) /\ n0 > 0 /\ n0 \in Nat /\ pending \subseteq Nat
        /\ \A i \in 1..n0 : log[i] > 0 /\ log[i] <= work.seq /\ log[i] \in Nat
        /\ \A i, j \in 1..n0 : i < j => log[i] < log[j]
        /\ \A p \in pending : p <= work.seq /\ log[n0] < p
        /\ at \in [Node -> Nat] /\ value \in [Node -> Nat]
        /\ \A n \in Node : /\ at[n] <= n0
                           /\ \E m \in 1..n0 : value[n] = log[m]
                           /\ at[n] = n0 => value[n] = log[n0]
    BY DEF ClusterInv
  <2>1. CASE UNCHANGED <<log, pending, at, value, work, hist, replayed>>
    BY Zenon, <2>1 DEF ClusterInv
  <2>2. ASSUME NEW n \in Node, NEW base \in 0..at[n], Restart(n, base) PROVE ClusterInv'
    <3>1. at' = [at EXCEPT ![n] = base] /\ UNCHANGED <<log, pending, value, work>>
      BY Zenon, <2>2 DEF Restart
    <3>2. base \in Nat /\ base <= n0 /\ (base = n0 => at[n] = n0)
      BY <2>0
    <3>3. at' \in [Node -> Nat] /\ \A k \in Node : at'[k] = IF k = n THEN base ELSE at[k]
      BY Zenon, <2>0, <3>1, <3>2
    <3>4. \A k \in Node : at'[k] <= n0 /\ (at'[k] = n0 => value[k] = log[n0])
      BY Zenon, <2>0, <3>2, <3>3
    <3> QED
      BY Zenon, <2>0, <3>1, <3>3, <3>4 DEF ClusterInv
  <2>3. CASE Put \/ PutFails
    <3>1. /\ work' \in [pc : {"tick", "wait", "read", "over"}, seq : Nat] /\ work'.seq = work.seq + 1
          /\ pending' = pending \cup {work.seq + 1} /\ UNCHANGED <<log, at, value>>
      <4>1. CASE Put
        BY <2>0, <4>1 DEF Put
      <4>2. CASE PutFails
        <5>1. work.pc = "tick" /\ work' = [work EXCEPT !.seq = @ + 1]
          BY Zenon, <4>2 DEF PutFails
        <5>2. UNCHANGED <<log, at, value>> /\ pending' = pending \cup {work.seq + 1}
          BY Zenon, <4>2 DEF PutFails
        <5> QED
          BY SMTT(40), <2>0, <5>1, <5>2
      <4> QED
        BY Zenon, <2>3, <4>1, <4>2
    <3>2. \A i \in 1..n0 : log[i] > 0 /\ log[i] <= work.seq + 1
      BY <2>0
    <3>3. \A p \in pending' : p \in Nat /\ p <= work.seq + 1 /\ log[n0] < p
      BY <2>0, <3>1
    <3> QED
      BY <2>0, <3>1, <3>2, <3>3 DEF ClusterInv
  <2>4. CASE WriteAcked \/ WriteTimesOut \/ Read \/ WorkloadEnds
    <3>1. /\ UNCHANGED <<log, pending, at, value>>
          /\ \E pc \in {"read", "tick", "over"} : work' = [work EXCEPT !.pc = pc]
      BY Zenon, <2>4 DEF WriteAcked, WriteTimesOut, Read, WorkloadEnds, cluster
    <3>2. work' \in [pc : {"tick", "wait", "read", "over"}, seq : Nat] /\ work'.seq = work.seq
      BY <2>0, <3>1
    <3> QED
      BY <3>1, <3>2 DEF ClusterInv
  <2>5. ASSUME NEW s \in pending, Commit(s) PROVE ClusterInv'
    <3>1. log' = Append(log, s) /\ pending' = {p \in pending : p > s} /\ UNCHANGED <<at, value, work>>
      BY Zenon, <2>5 DEF Commit
    <3>2. s \in Nat /\ s <= work.seq /\ log[n0] < s /\ s > 0
      BY <2>0
    <3>3. /\ log' \in Seq(Nat) /\ Len(log') = n0 + 1 /\ log'[n0 + 1] = s
          /\ \A i \in 1..n0 : log'[i] = log[i]
      BY <2>0, <3>1, <3>2
    <3>4. \A i \in 1..n0 : log[i] < s
      <4> SUFFICES ASSUME NEW i \in 1..n0 PROVE log[i] < s
        OBVIOUS
      <4>1. i = n0 \/ log[i] < log[n0]
        BY <2>0
      <4> QED
        BY <2>0, <3>2, <4>1
    <3>5. 1..(n0 + 1) = 1..n0 \cup {n0 + 1}
      BY <2>0
    <3>6. \A i \in 1..(n0 + 1) : log'[i] > 0 /\ log'[i] <= work.seq
      BY Zenon, <2>0, <3>2, <3>3, <3>5
    <3>7. \A i, j \in 1..(n0 + 1) : i < j => log'[i] < log'[j]
      <4> SUFFICES ASSUME NEW i \in 1..(n0 + 1), NEW j \in 1..(n0 + 1), i < j PROVE log'[i] < log'[j]
        OBVIOUS
      <4>1. i \in 1..n0 /\ (j \in 1..n0 \/ j = n0 + 1)
        <5>1. n0 \in Nat
          BY Zenon, <2>0
        <5> HIDE DEF n0
        <5> QED
          BY <5>1
      <4>2. CASE j \in 1..n0
        <5>1. log'[i] = log[i] /\ log'[j] = log[j]
          BY Zenon, <3>3, <4>1, <4>2
        <5>2. log[i] < log[j]
          BY Zenon, <2>0, <4>1, <4>2
        <5> QED
          BY Zenon, <5>1, <5>2
      <4>3. CASE j = n0 + 1
        <5>1. log'[i] = log[i] /\ log'[j] = s
          BY Zenon, <3>3, <4>1, <4>3
        <5> QED
          BY Zenon, <3>4, <4>1, <5>1
      <4> QED
        BY Zenon, <4>1, <4>2, <4>3
    <3>8. \A p \in pending' : p \in Nat /\ p <= work.seq /\ s < p
      BY <2>0, <3>1, <3>2
    <3>9. \A n \in Node : at[n] <= n0 + 1 /\ at[n] # n0 + 1
      BY SMTT(40), <2>0
    <3>10. \A n \in Node : \E m \in 1..(n0 + 1) : value[n] = log'[m]
      BY Zenon, <2>0, <3>3, <3>5
    <3>11. n0 + 1 > 0
      BY <2>0
    <3> HIDE DEF n0
    <3> QED
      BY <2>0, <3>1, <3>3, <3>6, <3>7, <3>8, <3>9, <3>10, <3>11 DEF ClusterInv
  <2>6. ASSUME NEW n \in Node, ApplyNext(n) PROVE ClusterInv'
    <3>1. /\ at[n] < n0 /\ at' = [at EXCEPT ![n] = @ + 1] /\ value' = [value EXCEPT ![n] = log[at[n] + 1]]
          /\ UNCHANGED <<log, pending, work>>
      BY Zenon, <2>6 DEF ApplyNext
    <3> DEFINE k == at[n] + 1
    <3>2. at[n] \in Nat
      BY Zenon, <2>0
    <3>3. k \in 1..n0 /\ k \in Nat /\ k <= n0
      BY <2>0, <3>1, <3>2
    <3>4. log[k] \in Nat
      BY Zenon, <2>0, <3>3
    <3>5. /\ at' \in [Node -> Nat] /\ value' \in [Node -> Nat]
          /\ \A x \in Node : /\ at'[x] = IF x = n THEN k ELSE at[x]
                             /\ value'[x] = IF x = n THEN log[k] ELSE value[x]
      BY Zenon, <2>0, <3>1, <3>3, <3>4
    <3> HIDE DEF k
    <3>6. \A x \in Node : /\ at'[x] <= n0
                          /\ \E m \in 1..n0 : value'[x] = log[m]
                          /\ at'[x] = n0 => value'[x] = log[n0]
      BY ZenonT(40), <2>0, <3>3, <3>5
    <3> QED
      BY Zenon, <2>0, <3>1, <3>5, <3>6 DEF ClusterInv
  <2> QED
    BY Zenon, <2>1, <2>2, <2>3, <2>4, <2>5, <2>6, ClusterSteps
<1> QED
  BY <1>1, <1>2, HarnessKept, PTL DEF Spec

\* A step of the workload drops the answers it holds, begins a round, takes one more
\* answer, or leaves them; it leaves them when it waits for nothing.
LEMMA PollSteps ==
  ASSUME [Next]_vars
  PROVE  \/ poll' = NoRound
         \/ BeginRound
         \/ \E n \in Node : Ask(n)
         \/ poll' = poll /\ (work' = work \/ work.pc # "wait")
<1>1. CASE UNCHANGED vars
  BY Zenon, <1>1 DEF vars
<1>2. ASSUME \/ \E e \in due : ProcessEvent(e)
             \/ \E t \in 1..Total : LookAtClock(t)
             \/ TimeIsUp \/ RunEnds \/ \E f \in applied : ClearLeftover(f)
             \/ \E s \in pending : Commit(s)
             \/ \E n \in Node : ApplyNext(n)
      PROVE  poll' = poll /\ work' = work
  BY Zenon, <1>2 DEF ProcessEvent, LookAtClock, TimeIsUp, RunEnds, ClearLeftover, Commit, ApplyNext
<1>3. ASSUME Put \/ PutFails \/ Read \/ WorkloadEnds PROVE poll' = poll /\ work.pc # "wait"
  <2>1. poll' = poll /\ (work.pc = "tick" \/ work.pc = "read")
    BY Zenon, <1>3 DEF Put, PutFails, Read, WorkloadEnds
  <2>2. "tick" # "wait" /\ "read" # "wait"
    OBVIOUS
  <2> QED
    BY Zenon, <2>1, <2>2
<1>4. ASSUME WriteAcked \/ WriteTimesOut PROVE poll' = NoRound
  BY Zenon, <1>4 DEF WriteAcked, WriteTimesOut
<1> QED
  BY Zenon, <1>1, <1>2, <1>3, <1>4 DEF Next

\* No step takes a committed version back.
LEMMA LogGrows ==
  ASSUME HarnessShape, ClusterInv, [Next]_vars
  PROVE  \A m \in 1..Len(log) : m \in 1..Len(log') /\ log'[m] = log[m]
<1>1. log' = log \/ \E s \in Nat : log' = Append(log, s)
  <2>1. ASSUME NEW s \in pending, Commit(s) PROVE \E x \in Nat : log' = Append(log, x)
    BY Zenon, <2>1 DEF Commit, ClusterInv
  <2>2. ASSUME \/ Put \/ PutFails \/ WriteAcked \/ WriteTimesOut \/ Read \/ WorkloadEnds
               \/ \E n \in Node : ApplyNext(n)
               \/ \E n \in Node : \E base \in 0..at[n] : Restart(n, base)
        PROVE  log' = log
    BY Zenon, <2>2 DEF Put, PutFails, WriteAcked, WriteTimesOut, Read, WorkloadEnds, ApplyNext, Restart,
      cluster
  <2> QED
    BY Zenon, <2>1, <2>2, ClusterSteps
<1>2. log \in Seq(Nat)
  BY DEF ClusterInv
<1> QED
  BY <1>1, <1>2

\* What waitMajorityValue has found is committed.
LEMMA PollKept == Spec => []PollInv
<1>1. Init => PollInv
  <2> SUFFICES ASSUME Init PROVE PollInv
    OBVIOUS
  <2>1. poll = NoRound
    BY SMTT(30) DEF Init
  <2>2. NoRound.left = {} /\ NoRound.found = {}
    BY DEF NoRound
  <2> QED
    BY Zenon, <2>1, <2>2 DEF PollInv
<1>2. HarnessShape /\ ClusterInv /\ PollInv /\ [Next]_vars => PollInv'
  <2> SUFFICES ASSUME HarnessShape, ClusterInv, PollInv, [Next]_vars PROVE PollInv'
    OBVIOUS
  <2>1. CASE poll' = NoRound
    <3>1. NoRound.left = {} /\ NoRound.found = {}
      BY DEF NoRound
    <3> QED
      BY Zenon, <2>1, <3>1 DEF PollInv
  <2>2. CASE BeginRound
    <3>1. poll' = [left |-> started, found |-> {}]
      BY Zenon, <2>2 DEF BeginRound
    <3>2. poll'.left = started /\ poll'.found = {}
      BY Zenon, <3>1
    <3> QED
      BY Zenon, <3>2 DEF PollInv, HarnessShape
  <2>3. ASSUME NEW n \in Node, Ask(n) PROVE PollInv'
    <3>1. /\ work.pc = "wait" /\ UNCHANGED <<log, value, work>>
          /\ poll' = [left |-> poll.left \ {n},
                      found |-> IF value[n] = work.seq THEN poll.found \cup {n} ELSE poll.found]
      BY Zenon, <2>3 DEF Ask, cluster
    <3>2. /\ poll'.left = poll.left \ {n}
          /\ poll'.found = IF value[n] = work.seq THEN poll.found \cup {n} ELSE poll.found
      BY Zenon, <3>1
    <3>3. value[n] = work.seq => \E m \in 1..Len(log) : log[m] = work.seq
      BY Zenon DEF ClusterInv
    <3>4. value[n] # work.seq => poll'.found = poll.found
      BY Zenon, <3>2
    <3> QED
      BY Zenon, <3>1, <3>2, <3>3, <3>4 DEF PollInv
  <2>4. CASE poll' = poll /\ (work' = work \/ work.pc # "wait")
    <3>1. \A m \in 1..Len(log) : m \in 1..Len(log') /\ log'[m] = log[m]
      BY Zenon, LogGrows
    <3> QED
      BY Zenon, <2>4, <3>1 DEF PollInv
  <2> QED
    BY Zenon, <2>1, <2>2, <2>3, <2>4, PollSteps
<1> QED
  BY <1>1, <1>2, HarnessKept, ClusterKept, PTL DEF Spec

\* The history keeps its invariant while the log and the versions grow.
LEMMA HistoryUntouched ==
  ASSUME HistoryInv, hist' = hist, work.seq \in Nat, work'.seq \in Nat, work.seq <= work'.seq,
         work'.pc = "wait" => (work.pc = "wait" /\ work'.seq = work.seq) \/ work.seq < work'.seq,
         \A m \in 1..Len(log) : m \in 1..Len(log') /\ log'[m] = log[m]
  PROVE  HistoryInv'
<1>0. hist \in Seq(Operation) /\ \A i \in 1..Len(hist) : hist[i].seq \in Nat
  <2>1. hist \in Seq(Operation)
    BY Zenon DEF HistoryInv
  <2>2. \A i \in 1..Len(hist) : hist[i] \in Operation
    BY <2>1
  <2>3. \A o \in Operation : o.seq \in Nat
    BY DEF Operation
  <2> QED
    BY Zenon, <2>1, <2>2, <2>3
<1>1. \A v \in Nat : /\ v <= work.seq => v <= work'.seq
                     /\ v <= work.seq /\ work.seq < work'.seq => v < work'.seq
  OBVIOUS
<1> SUFFICES ASSUME NEW i \in 1..Len(hist)
             PROVE  /\ hist[i].start = 2 * i - 1 /\ hist[i].end = 2 * i
                    /\ hist[i].kind = "write" /\ hist[i].acked => \E m \in 1..Len(log') : log'[m] = hist[i].seq
                    /\ hist[i].kind = "read" =>
                         /\ hist[i].reader \in Node /\ hist[i].seq <= work'.seq
                         /\ work'.pc = "wait" => hist[i].seq < work'.seq
                         /\ \A k \in 1..Len(hist) : i < k /\ hist[k].kind = "write" => hist[i].seq < hist[k].seq
  BY Zenon, <1>0 DEF HistoryInv
<1>2. /\ hist[i].start = 2 * i - 1 /\ hist[i].end = 2 * i
      /\ hist[i].kind = "write" /\ hist[i].acked => \E m \in 1..Len(log) : log[m] = hist[i].seq
      /\ hist[i].kind = "read" =>
           /\ hist[i].reader \in Node /\ hist[i].seq <= work.seq
           /\ work.pc = "wait" => hist[i].seq < work.seq
           /\ \A k \in 1..Len(hist) : i < k /\ hist[k].kind = "write" => hist[i].seq < hist[k].seq
  BY Zenon DEF HistoryInv
<1>3. hist[i].kind = "write" /\ hist[i].acked => \E m \in 1..Len(log') : log'[m] = hist[i].seq
  BY Zenon, <1>2
<1>4. hist[i].kind = "read" => hist[i].seq <= work'.seq /\ (work'.pc = "wait" => hist[i].seq < work'.seq)
  BY Zenon, <1>0, <1>1, <1>2
<1> QED
  BY Zenon, <1>2, <1>3, <1>4

\* It keeps it when a write or a read is recorded.
LEMMA HistoryGrows ==
  ASSUME HistoryInv, work'.seq = work.seq, work'.pc # "wait", log' = log,
         NEW kind \in {"read", "write"}, NEW seq \in Nat, NEW reader \in Node \cup {Whole}, NEW acked \in BOOLEAN,
         Record(kind, seq, reader, acked),
         kind = "write" /\ acked => \E m \in 1..Len(log) : log[m] = seq,
         kind = "read" => reader \in Node /\ seq <= work.seq,
         kind = "write" => \A i \in 1..Len(hist) : hist[i].kind = "read" => hist[i].seq < seq
  PROVE  HistoryInv'
<1> DEFINE n == Len(hist)
           o == Op(kind, seq, reader, acked, n + 1)
<1>0. hist \in Seq(Operation) /\ n \in Nat
  BY DEF HistoryInv
<1>1. /\ o \in Operation /\ o.kind = kind /\ o.seq = seq /\ o.reader = reader /\ o.acked = acked
      /\ o.start = 2 * (n + 1) - 1 /\ o.end = 2 * (n + 1)
  <2> HIDE DEF n
  <2>1. 2 * (n + 1) - 1 \in Nat /\ 2 * (n + 1) \in Nat
    BY <1>0
  <2> QED
    BY <2>1 DEF Op, Operation
<1>2. hist' = Append(hist, o)
  BY Zenon DEF Record
<1> HIDE DEF o
<1>3. /\ hist' \in Seq(Operation) /\ Len(hist') = n + 1 /\ hist'[n + 1] = o
      /\ \A i \in 1..n : hist'[i] = hist[i]
  BY <1>0, <1>1, <1>2
<1> HIDE DEF n
<1>4. /\ 1..(n + 1) = 1..n \cup {n + 1} /\ \A i \in 1..n : i < n + 1
      /\ \A k \in 1..(n + 1) : ~(n + 1 < k)
  BY <1>0
<1>5. \A i \in 1..n :
        /\ hist[i].start = 2 * i - 1 /\ hist[i].end = 2 * i
        /\ hist[i].kind = "write" /\ hist[i].acked => \E m \in 1..Len(log) : log[m] = hist[i].seq
        /\ hist[i].kind = "read" =>
             /\ hist[i].reader \in Node /\ hist[i].seq <= work.seq
             /\ \A k \in 1..n : i < k /\ hist[k].kind = "write" => hist[i].seq < hist[k].seq
  BY Zenon DEF HistoryInv, n
<1>6. \A i \in 1..n : hist[i].kind = "read" =>
        \A k \in 1..(n + 1) : i < k /\ hist'[k].kind = "write" => hist[i].seq < hist'[k].seq
  BY Zenon, <1>1, <1>3, <1>4, <1>5 DEF n
<1>7. ASSUME NEW i \in 1..n
      PROVE  /\ hist'[i].start = 2 * i - 1 /\ hist'[i].end = 2 * i
             /\ hist'[i].kind = "write" /\ hist'[i].acked => \E m \in 1..Len(log') : log'[m] = hist'[i].seq
             /\ hist'[i].kind = "read" =>
                  /\ hist'[i].reader \in Node /\ hist'[i].seq <= work'.seq
                  /\ work'.pc = "wait" => hist'[i].seq < work'.seq
                  /\ \A k \in 1..(n + 1) : i < k /\ hist'[k].kind = "write" => hist'[i].seq < hist'[k].seq
  <2>1. hist'[i] = hist[i]
    BY Zenon, <1>3
  <2> QED
    BY Zenon, <1>5, <1>6, <2>1
<1>8. /\ o.start = 2 * (n + 1) - 1 /\ o.end = 2 * (n + 1)
      /\ o.kind = "write" /\ o.acked => \E m \in 1..Len(log') : log'[m] = o.seq
      /\ o.kind = "read" =>
           /\ o.reader \in Node /\ o.seq <= work'.seq
           /\ work'.pc = "wait" => o.seq < work'.seq
           /\ \A k \in 1..(n + 1) : n + 1 < k /\ hist'[k].kind = "write" => o.seq < hist'[k].seq
  BY Zenon, <1>1, <1>4
<1>9. \A i \in 1..(n + 1) :
        /\ hist'[i].start = 2 * i - 1 /\ hist'[i].end = 2 * i
        /\ hist'[i].kind = "write" /\ hist'[i].acked => \E m \in 1..Len(log') : log'[m] = hist'[i].seq
        /\ hist'[i].kind = "read" =>
             /\ hist'[i].reader \in Node /\ hist'[i].seq <= work'.seq
             /\ work'.pc = "wait" => hist'[i].seq < work'.seq
             /\ \A k \in 1..(n + 1) : i < k /\ hist'[k].kind = "write" => hist'[i].seq < hist'[k].seq
  BY Zenon, <1>3, <1>4, <1>7, <1>8
<1> QED
  BY Zenon, <1>3, <1>9 DEF HistoryInv

\* The history keeps its invariant.
LEMMA HistoryKept == Spec => []HistoryInv
<1>1. Init => HistoryInv
  <2> SUFFICES ASSUME Init PROVE HistoryInv
    OBVIOUS
  <2> DEFINE w == Op("write", 1, Whole, TRUE, 1)
             r == Op("read", 1, Head(Ids), TRUE, 2)
  <2>1. hist = <<w, r>> /\ work = [pc |-> "tick", seq |-> 1] /\ log = <<1>>
    BY SMTT(30) DEF Init
  <2>2. Head(Ids) \in Node
    BY FaultsAssumption DEF Node
  <2>3. /\ w \in Operation /\ w.kind = "write" /\ w.seq = 1 /\ w.start = 1 /\ w.end = 2
        /\ r \in Operation /\ r.kind = "read" /\ r.seq = 1 /\ r.reader \in Node /\ r.start = 3 /\ r.end = 4
    BY <2>2 DEF Op, Operation
  <2>4. work.pc = "tick" /\ work.seq = 1 /\ Len(log) = 1 /\ log[1] = 1
    BY <2>1
  <2> HIDE DEF w, r
  <2>5. hist \in Seq(Operation) /\ Len(hist) = 2 /\ hist[1] = w /\ hist[2] = r
    BY <2>1, <2>3
  <2>6. \A i \in 1..Len(hist) : i = 1 \/ i = 2
    BY <2>5
  <2>7. \A k \in 1..Len(hist) : ~(2 < k)
    BY <2>5
  <2>8. 1 \in 1..Len(log) /\ 2 * 1 - 1 = 1 /\ 2 * 1 = 2 /\ 2 * 2 - 1 = 3 /\ 2 * 2 = 4 /\ 1 <= 1
    BY <2>4
  <2>9. "tick" # "wait" /\ "read" # "write"
    OBVIOUS
  <2>10. /\ hist[1].start = 2 * 1 - 1 /\ hist[1].end = 2 * 1
         /\ hist[1].kind # "read" /\ \E m \in 1..Len(log) : log[m] = hist[1].seq
    BY Zenon, <2>3, <2>4, <2>5, <2>8, <2>9
  <2>11. /\ hist[2].start = 2 * 2 - 1 /\ hist[2].end = 2 * 2
         /\ hist[2].kind # "write" /\ hist[2].reader \in Node /\ hist[2].seq <= work.seq /\ work.pc # "wait"
    BY Zenon, <2>3, <2>4, <2>5, <2>8, <2>9
  <2> QED
    BY Zenon, <2>5, <2>6, <2>7, <2>10, <2>11 DEF HistoryInv
<1>2. HarnessShape /\ ClusterInv /\ ClusterInv' /\ PollInv /\ HistoryInv /\ [Next]_vars => HistoryInv'
  <2> SUFFICES ASSUME HarnessShape, ClusterInv, ClusterInv', PollInv, HistoryInv, [Next]_vars PROVE HistoryInv'
    OBVIOUS
  <2>0. /\ work.seq \in Nat /\ work'.seq \in Nat /\ log \in Seq(Nat) /\ value \in [Node -> Nat]
        /\ work.seq <= work.seq
        /\ \A n \in Node : \E m \in 1..Len(log) : value[n] = log[m]
        /\ \A i \in 1..Len(log) : log[i] > 0 /\ log[i] <= work.seq
    BY DEF ClusterInv
  <2>1. ASSUME UNCHANGED <<log, work, hist>> PROVE HistoryInv'
    BY Zenon, <2>0, <2>1, HistoryUntouched
  <2>2. CASE Put \/ PutFails
    <3>1. hist' = hist /\ log' = log /\ work'.seq = work.seq + 1
      <4>1. CASE Put
        BY <4>1 DEF Put
      <4>2. CASE PutFails
        <5>1. work.pc = "tick" /\ work' = [work EXCEPT !.seq = @ + 1]
          BY Zenon, <4>2 DEF PutFails
        <5>2. hist' = hist /\ log' = log
          BY Zenon, <4>2 DEF PutFails
        <5>3. work \in [pc : {"tick", "wait", "read", "over"}, seq : Nat]
          BY DEF ClusterInv
        <5> QED
          BY <5>1, <5>2, <5>3
      <4> QED
        BY Zenon, <2>2, <4>1, <4>2
    <3>2. work.seq < work'.seq /\ work.seq <= work'.seq
      BY <2>0, <3>1
    <3> QED
      BY Zenon, <2>0, <3>1, <3>2, HistoryUntouched
  <2>3. CASE WorkloadEnds
    <3>1. hist' = hist /\ log' = log /\ work' = [work EXCEPT !.pc = "over"]
      BY Zenon, <2>3 DEF WorkloadEnds, cluster
    <3>2. work'.seq = work.seq /\ work'.pc # "wait"
      BY <3>1 DEF ClusterInv
    <3> QED
      BY Zenon, <2>0, <3>1, <3>2, HistoryUntouched
  <2>4. CASE WriteAcked \/ WriteTimesOut
    <3>1. /\ work.pc = "wait" /\ work' = [work EXCEPT !.pc = "read"] /\ log' = log
          /\ \E acked \in BOOLEAN : Record("write", work.seq, Whole, acked) /\ (acked => MajorityValue)
      BY Zenon, <2>4 DEF WriteAcked, WriteTimesOut, cluster
    <3>2. PICK acked \in BOOLEAN : Record("write", work.seq, Whole, acked) /\ (acked => MajorityValue)
      BY Zenon, <3>1
    <3>3. work'.seq = work.seq /\ work'.pc # "wait"
      BY <3>1 DEF ClusterInv
    <3>4. MajorityValue => \E m \in 1..Len(log) : log[m] = work.seq
      <4>1. SUFFICES ASSUME MajorityValue PROVE \E m \in 1..Len(log) : log[m] = work.seq
        OBVIOUS
      <4>2. poll.found # {}
        <5>1. SUFFICES ASSUME poll.found = {} PROVE FALSE
          OBVIOUS
        <5>2. Cardinality(poll.found) = 0
          BY Zenon, <5>1, FS_EmptySet
        <5>3. Len(Ids) \in Nat
          BY FaultsAssumption
        <5>4. 2 * Cardinality(poll.found) > Len(Ids)
          BY Zenon, <4>1 DEF MajorityValue
        <5> QED
          BY <5>2, <5>3, <5>4
      <4> QED
        BY Zenon, <4>2 DEF PollInv
    <3>5. \A i \in 1..Len(hist) : hist[i].kind = "read" => hist[i].seq < work.seq
      BY Zenon, <3>1 DEF HistoryInv
    <3>6. "write" # "read" /\ "write" \in {"read", "write"} /\ Whole \in Node \cup {Whole}
      OBVIOUS
    <3> QED
      BY Zenon, <2>0, <3>1, <3>2, <3>3, <3>4, <3>5, <3>6, HistoryGrows
  <2>5. CASE Read
    <3>1. work.pc = "read" /\ work' = [work EXCEPT !.pc = "tick"] /\ log' = log
      BY Zenon, <2>5 DEF Read, cluster
    <3>2. work'.seq = work.seq /\ work'.pc # "wait"
      BY <3>1 DEF ClusterInv
    <3>3. CASE hist' = hist
      BY Zenon, <2>0, <3>1, <3>2, <3>3, HistoryUntouched
    <3>4. ASSUME NEW n \in started, Record("read", value[n], n, value[n] # 0) PROVE HistoryInv'
      <4>1. n \in Node /\ value[n] \in Nat /\ (value[n] # 0) \in BOOLEAN
        BY Zenon, <2>0 DEF HarnessShape
      <4>2. value[n] <= work.seq
        BY Zenon, <2>0, <4>1
      <4>3. "read" # "write" /\ "read" \in {"read", "write"} /\ n \in Node \cup {Whole}
        BY <4>1
      <4> QED
        BY Zenon, <2>0, <3>1, <3>2, <3>4, <4>1, <4>2, <4>3, HistoryGrows
    <3> QED
      BY Zenon, <2>5, <3>3, <3>4 DEF Read
  <2>6. ASSUME NEW s \in pending, Commit(s) PROVE HistoryInv'
    <3>1. log' = Append(log, s) /\ hist' = hist /\ work' = work /\ s \in Nat
      BY Zenon, <2>6 DEF Commit, ClusterInv
    <3>2. \A m \in 1..Len(log) : m \in 1..Len(log') /\ log'[m] = log[m]
      BY <2>0, <3>1
    <3> QED
      BY Zenon, <2>0, <3>1, <3>2, HistoryUntouched
  <2>7. ASSUME NEW n \in Node, ApplyNext(n) PROVE HistoryInv'
    BY Zenon, <2>1, <2>7 DEF ApplyNext
  <2>8. ASSUME NEW n \in Node, NEW base \in 0..at[n], Restart(n, base) PROVE HistoryInv'
    BY Zenon, <2>1, <2>8 DEF Restart
  <2> QED
    BY Zenon, <2>1, <2>2, <2>3, <2>4, <2>5, <2>6, <2>7, <2>8, ClusterSteps
<1> QED
  BY <1>1, <1>2, HarnessKept, ClusterKept, PollKept, PTL DEF Spec

\* However nodes crash, restart and lag: once the running nodes have applied the whole log,
\* each has every write that the workload saw acknowledged, or a later one.
THEOREM AckedWritesAreDurable == Spec => []DurabilityHolds
<1>1. HarnessShape /\ ClusterInv /\ HistoryInv => DurabilityHolds
  <2> SUFFICES ASSUME HarnessShape, ClusterInv, HistoryInv, \A n \in started : at[n] = Len(log),
                      NEW i \in DOMAIN hist, hist[i].kind = "write", hist[i].acked, NEW n \in started
               PROVE  value[n] >= hist[i].seq
    BY Zenon DEF DurabilityHolds
  <2>1. i \in 1..Len(hist)
    <3>1. hist \in Seq(Operation)
      BY Zenon DEF HistoryInv
    <3> QED
      BY <3>1
  <2>2. PICK m \in 1..Len(log) : log[m] = hist[i].seq
    BY Zenon, <2>1 DEF HistoryInv
  <2>3. n \in Node /\ value[n] = log[Len(log)]
    BY Zenon DEF HarnessShape, ClusterInv
  <2>4. log \in Seq(Nat) /\ Len(log) \in 1..Len(log) /\ \A j, k \in 1..Len(log) : j < k => log[j] < log[k]
    BY DEF ClusterInv
  <2>5. m = Len(log) \/ log[m] < log[Len(log)]
    BY <2>4
  <2> QED
    BY <2>2, <2>3, <2>4, <2>5
<1> QED
  BY <1>1, HarnessKept, ClusterKept, HistoryKept, PTL

Forward(h, val) ==
  \A i \in 1..Len(h) : h[i].kind = "read" =>
    /\ h[i].seq <= val[h[i].reader]
    /\ \A j \in 1..(i - 1) : h[j].kind = "read" /\ h[j].reader = h[i].reader => h[j].seq <= h[i].seq

\* A write that is recorded, and a read of what the node stores, keep the history going
\* forward.
LEMMA ForwardGrows ==
  ASSUME hist \in Seq(Operation), Forward(hist, value), NEW kind \in {"read", "write"}, NEW seq \in Nat,
         NEW reader, NEW acked, Record(kind, seq, reader, acked),
         kind = "read" => seq = value[reader]
  PROVE  Forward(hist', value)
<1> DEFINE n == Len(hist)
           o == Op(kind, seq, reader, acked, n + 1)
<1>1. o.kind = kind /\ o.seq = seq /\ o.reader = reader /\ hist' = Append(hist, o)
  BY DEF Op, Record
<1>2. seq <= seq /\ n \in Nat
  OBVIOUS
<1> HIDE DEF o
<1>3. Len(hist') = n + 1 /\ hist'[n + 1] = o /\ \A i \in 1..n : hist'[i] = hist[i]
  BY <1>1
<1> HIDE DEF n
<1>4. /\ 1..(n + 1) = 1..n \cup {n + 1} /\ (n + 1) - 1 = n
      /\ \A i \in 1..n : \A j \in 1..(i - 1) : j \in 1..n
  BY <1>2
<1>5. \A i \in 1..n : hist[i].kind = "read" =>
        /\ hist[i].seq <= value[hist[i].reader]
        /\ \A j \in 1..(i - 1) : hist[j].kind = "read" /\ hist[j].reader = hist[i].reader => hist[j].seq <= hist[i].seq
  BY Zenon DEF Forward, n
<1>6. ASSUME NEW i \in 1..n, hist'[i].kind = "read"
      PROVE  /\ hist'[i].seq <= value[hist'[i].reader]
             /\ \A j \in 1..(i - 1) : hist'[j].kind = "read" /\ hist'[j].reader = hist'[i].reader => hist'[j].seq <= hist'[i].seq
  BY Zenon, <1>3, <1>4, <1>5, <1>6
<1>7. ASSUME o.kind = "read"
      PROVE  /\ o.seq <= value[o.reader]
             /\ \A j \in 1..n : hist'[j].kind = "read" /\ hist'[j].reader = o.reader => hist'[j].seq <= o.seq
  <2>1. o.seq = value[o.reader] /\ o.seq <= o.seq
    BY Zenon, <1>1, <1>2, <1>7
  <2> QED
    BY ZenonT(40), <1>3, <1>5, <2>1
<1>8. \A i \in 1..(n + 1) : hist'[i].kind = "read" =>
        /\ hist'[i].seq <= value[hist'[i].reader]
        /\ \A j \in 1..(i - 1) : hist'[j].kind = "read" /\ hist'[j].reader = hist'[i].reader => hist'[j].seq <= hist'[i].seq
  BY Zenon, <1>3, <1>4, <1>6, <1>7
<1> QED
  BY Zenon, <1>3, <1>8 DEF Forward

\* Every node and what is read from it only moves forward, until one is put back.
LEMMA ForwardKept == Spec => []ForwardInv
<1>1. Init => ForwardInv
  <2> SUFFICES ASSUME Init PROVE ForwardInv
    OBVIOUS
  <2> DEFINE w == Op("write", 1, Whole, TRUE, 1)
             r == Op("read", 1, Head(Ids), TRUE, 2)
  <2>1. hist = <<w, r>> /\ log = <<1>> /\ at = [n \in Node |-> 1] /\ value = [n \in Node |-> 1]
    BY SMTT(30) DEF Init
  <2>2. Head(Ids) \in Node
    BY FaultsAssumption DEF Node
  <2>3. w.kind = "write" /\ r.kind = "read" /\ r.seq = 1 /\ r.reader \in Node
    BY <2>2 DEF Op
  <2> HIDE DEF w, r
  <2>4. Len(hist) = 2 /\ hist[1] = w /\ hist[2] = r /\ log[1] = 1 /\ 1 > 0 /\ 1 <= 1
    BY <2>1
  <2>5. \A n \in Node : at[n] = 1 /\ value[n] = 1
    BY Zenon, <2>1
  <2>6. /\ \A i \in 1..Len(hist) : i = 1 \/ i = 2
        /\ \A j \in 1..(2 - 1) : j = 1
        /\ "write" # "read"
    BY <2>4
  <2> QED
    BY Zenon, <2>3, <2>4, <2>5, <2>6 DEF ForwardInv
<1>2. HarnessShape /\ ClusterInv /\ HistoryInv /\ ForwardInv /\ [Next]_vars => ForwardInv'
  <2> SUFFICES ASSUME HarnessShape, ClusterInv, HistoryInv, ForwardInv, [Next]_vars, replayed' = {}
               PROVE  /\ \A n \in Node : at'[n] > 0 /\ value'[n] = log'[at'[n]]
                      /\ Forward(hist', value')
    BY Zenon DEF ForwardInv, Forward
  <2>0. /\ log \in Seq(Nat) /\ hist \in Seq(Operation) /\ at \in [Node -> Nat] /\ value \in [Node -> Nat]
        /\ \A n \in Node : at[n] <= Len(log)
        /\ \A i, j \in 1..Len(log) : i < j => log[i] < log[j]
    BY Zenon DEF ClusterInv, HistoryInv
  <2>1. replayed = {} => (\A n \in Node : at[n] > 0 /\ value[n] = log[at[n]]) /\ Forward(hist, value)
    BY Zenon DEF ForwardInv, Forward
  <2>2. CASE UNCHANGED <<log, pending, at, value, work, hist, replayed>>
    BY Zenon, <2>1, <2>2
  <2>3. ASSUME NEW n \in Node, NEW base \in 0..at[n], Restart(n, base)
        PROVE  replayed = {} /\ UNCHANGED <<log, at, value, hist>>
    <3>1. replayed = {} /\ ~(base < at[n])
      BY Zenon, <2>3 DEF Restart
    <3>2. base = at[n]
      BY <2>0, <3>1
    <3>3. at' = [at EXCEPT ![n] = at[n]] /\ UNCHANGED <<log, value, hist>>
      BY Zenon, <2>3, <3>2 DEF Restart
    <3>4. at' = at
      BY Zenon, <2>0, <3>3
    <3> QED
      BY Zenon, <3>1, <3>3, <3>4
  <2>4. CASE Put \/ PutFails \/ WorkloadEnds
    <3>1. UNCHANGED <<log, at, value, hist, replayed>>
      BY Zenon, <2>4 DEF Put, PutFails, WorkloadEnds, cluster
    <3> QED
      BY Zenon, <2>1, <3>1
  <2>5. CASE WriteAcked \/ WriteTimesOut
    <3>1. /\ UNCHANGED <<log, at, value, replayed>>
          /\ \E acked : Record("write", work.seq, Whole, acked)
      BY Zenon, <2>5 DEF WriteAcked, WriteTimesOut, cluster
    <3>2. work.seq \in Nat /\ "write" # "read" /\ "write" \in {"read", "write"}
      BY DEF ClusterInv
    <3>3. Forward(hist', value)
      BY Zenon, <2>0, <2>1, <3>1, <3>2, ForwardGrows
    <3> QED
      BY Zenon, <2>1, <3>1, <3>3
  <2>6. CASE Read
    <3>1. UNCHANGED <<log, at, value, replayed>>
      BY Zenon, <2>6 DEF Read, cluster
    <3>2. ASSUME NEW n \in started, Record("read", value[n], n, value[n] # 0) PROVE Forward(hist', value)
      <4>1. value[n] \in Nat
        BY Zenon, <2>0 DEF HarnessShape
      <4>2. "read" \in {"read", "write"}
        OBVIOUS
      <4> QED
        BY Zenon, <2>0, <2>1, <3>1, <3>2, <4>1, <4>2, ForwardGrows
    <3>3. Forward(hist', value)
      BY Zenon, <2>1, <2>6, <3>1, <3>2 DEF Read
    <3> QED
      BY Zenon, <2>1, <3>1, <3>3
  <2>7. ASSUME NEW s \in pending, Commit(s)
        PROVE  (\A n \in Node : at'[n] > 0 /\ value'[n] = log'[at'[n]]) /\ Forward(hist', value')
    <3>1. log' = Append(log, s) /\ UNCHANGED <<at, value, hist, replayed>>
      BY Zenon, <2>7 DEF Commit
    <3>2. \A m \in 1..Len(log) : log'[m] = log[m]
      BY <2>0, <3>1
    <3>3. \A n \in Node : at[n] > 0 => at[n] \in 1..Len(log)
      BY <2>0
    <3> QED
      BY Zenon, <2>1, <3>1, <3>2, <3>3
  <2>8. ASSUME NEW n \in Node, ApplyNext(n)
        PROVE  (\A x \in Node : at'[x] > 0 /\ value'[x] = log'[at'[x]]) /\ Forward(hist', value')
    <3> DEFINE k == at[n] + 1
    <3>1. /\ at[n] < Len(log) /\ at' = [at EXCEPT ![n] = k] /\ value' = [value EXCEPT ![n] = log[k]]
          /\ UNCHANGED <<log, hist, replayed>>
      BY Zenon, <2>8 DEF ApplyNext
    <3>2. \A x \in Node : /\ at'[x] = IF x = n THEN k ELSE at[x]
                          /\ value'[x] = IF x = n THEN log[k] ELSE value[x]
      BY Zenon, <2>0, <3>1
    <3>3. at[n] \in Nat /\ at[n] > 0 /\ value[n] = log[at[n]]
      BY Zenon, <2>0, <2>1, <3>1
    <3>4. at[n] \in 1..Len(log) /\ k \in 1..Len(log) /\ at[n] < k /\ k > 0
      BY SMTT(40), <2>0, <3>1, <3>3
    <3> HIDE DEF k
    <3>5. log[at[n]] < log[k] /\ log[at[n]] \in Nat /\ log[k] \in Nat
      <4>1. \A i \in 1..Len(log) : log[i] \in Nat
        BY SMTT(40), <2>0
      <4> QED
        BY Zenon, <2>0, <3>4, <4>1
    <3>6. ASSUME NEW i \in 1..Len(hist), hist[i].kind = "read" PROVE hist[i].seq <= value'[hist[i].reader]
      <4>1. hist[i].reader \in Node /\ hist[i].seq <= value[hist[i].reader]
        BY Zenon, <2>1, <3>1, <3>6 DEF HistoryInv, Forward
      <4>2. hist[i] \in Operation
        BY <2>0
      <4>3. hist[i].seq \in Nat
        BY <4>2 DEF Operation
      <4>4. CASE hist[i].reader = n
        <5>1. value'[hist[i].reader] = log[k] /\ hist[i].seq <= log[at[n]]
          BY Zenon, <3>2, <3>3, <4>1, <4>4
        <5>2. \A v \in Nat : v <= log[at[n]] => v <= log[k]
          BY <3>5
        <5> QED
          BY Zenon, <4>3, <5>1, <5>2
      <4>5. CASE hist[i].reader # n
        BY Zenon, <3>2, <4>1, <4>5
      <4> QED
        BY Zenon, <4>4, <4>5
    <3>7. Forward(hist', value')
      BY Zenon, <2>1, <3>1, <3>6 DEF Forward
    <3>8. \A x \in Node : at[x] > 0 /\ value[x] = log[at[x]]
      BY Zenon, <2>1, <3>1
    <3>9. ASSUME NEW x \in Node PROVE at'[x] > 0 /\ value'[x] = log'[at'[x]]
      <4>0. log' = log
        BY Zenon, <3>1
      <4>1. CASE x = n
        <5>1. at'[x] = k /\ value'[x] = log[k]
          BY Zenon, <3>2, <4>1
        <5> QED
          BY Zenon, <3>4, <4>0, <5>1
      <4>2. CASE x # n
        BY Zenon, <3>2, <3>8, <4>0, <4>2
      <4> QED
        BY Zenon, <4>1, <4>2
    <3> QED
      BY Zenon, <3>7, <3>9
  <2> QED
    BY Zenon, <2>1, <2>2, <2>3, <2>4, <2>5, <2>6, <2>7, <2>8, ClusterSteps
<1> QED
  BY <1>1, <1>2, HarnessKept, ClusterKept, HistoryKept, PTL DEF Spec

\* However late followers are, and whatever was written without being acknowledged: the
\* linearizability oracle reports nothing, unless a restart has put a node back.
THEOREM OracleReportsNothing == Spec => []HistoryPasses
<1>1. HistoryInv /\ ForwardInv => HistoryPasses
  <2> SUFFICES ASSUME HistoryInv, ForwardInv, replayed = {} PROVE Check(hist) = {}
    BY Zenon DEF HistoryPasses
  <2>0. hist \in Seq(Operation) /\ DOMAIN hist = 1..Len(hist)
    <3>1. hist \in Seq(Operation)
      BY Zenon DEF HistoryInv
    <3> QED
      BY <3>1
  <2>1. Check(hist) = Objectionable(hist)
    <3>1. \A o \in Operation : o.seq \in Nat
      BY DEF Operation
    <3> QED
      BY Zenon, <2>0, <3>1, CheckerIsExact
  <2>2. ASSUME NEW i \in DOMAIN hist, IsRead(hist[i]), TooEarly(hist, hist[i]) PROVE FALSE
    <3> DEFINE W == WritesOf(hist, hist[i].seq)
               k == CHOOSE k \in W : \A j \in W : j <= k
    <3>1. W # {} /\ W \subseteq Nat
      BY <2>0, <2>2 DEF TooEarly, WritesOf
    <3>2. \E x \in W : \A j \in W : j <= x
      <4> DEFINE n == Len(hist)
                 D == {n - x : x \in W}
      <4>1. n \in Nat /\ \A x \in W : x \in 1..n
        BY <2>0 DEF WritesOf
      <4> HIDE DEF W, n
      <4>2. D \subseteq Nat /\ D # {}
        <5>1. \A x \in W : n - x \in Nat
          BY <4>1
        <5> QED
          BY Zenon, <3>1, <5>1
      <4>3. PICK d \in D : \A y \in D : d <= y
        <5> HIDE DEF D
        <5> QED
          BY Zenon, <4>2, LeastFailure
      <4>4. PICK x \in W : d = n - x
        BY Zenon, <4>3
      <4>5. \A j \in W : n - x <= n - j
        BY Zenon, <4>3, <4>4
      <4> QED
        BY <4>1, <4>5
    <3>3. k \in W
      BY Zenon, <3>2
    <3>4. hist[i].end <= hist[k].start
      BY Zenon, <2>2 DEF TooEarly, LastWrite
    <3>5. k \in 1..Len(hist) /\ hist[k].kind = "write" /\ hist[k].seq = hist[i].seq
      BY Zenon, <2>0, <3>3 DEF WritesOf
    <3> HIDE DEF k, W
    <3>6. i \in 1..Len(hist) /\ hist[i].kind = "read"
      BY Zenon, <2>0, <2>2 DEF IsRead
    <3>7. hist[i].end = 2 * i /\ hist[k].start = 2 * k - 1
      BY Zenon, <3>5, <3>6 DEF HistoryInv
    <3>8. i < k
      BY <3>4, <3>5, <3>6, <3>7
    <3>9. hist[i].seq < hist[k].seq
      BY Zenon, <3>5, <3>6, <3>8 DEF HistoryInv
    <3>10. hist[i].seq \in Nat
      <4>1. hist[i] \in Operation
        BY <2>0, <3>6
      <4> QED
        BY <4>1 DEF Operation
    <3> QED
      BY SMTT(40), <3>5, <3>9, <3>10
  <2>3. ASSUME NEW i \in DOMAIN hist, IsRead(hist[i]), NEW j \in 1..(i - 1), IsRead(hist[j]),
               hist[j].reader = hist[i].reader, hist[j].seq > hist[i].seq
        PROVE  FALSE
    <3>1. i \in 1..Len(hist) /\ hist[i].kind = "read" /\ hist[j].kind = "read"
      BY Zenon, <2>0, <2>3 DEF IsRead
    <3>2. hist[j].seq <= hist[i].seq
      BY Zenon, <2>3, <3>1 DEF ForwardInv
    <3>3. hist[i] \in Operation /\ hist[j] \in Operation
      BY <2>0, <3>1
    <3>4. hist[i].seq \in Nat /\ hist[j].seq \in Nat
      BY <3>3 DEF Operation
    <3> QED
      BY <2>3, <3>2, <3>4
  <2>4. Objectionable(hist) = {}
    BY Zenon, <2>2, <2>3 DEF Objectionable
  <2> QED
    BY Zenon, <2>1, <2>4
<1> QED
  BY <1>1, HistoryKept, ForwardKept, PTL

=============================================================================
