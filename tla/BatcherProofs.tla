--------------------------- MODULE BatcherProofs ---------------------------
(***************************************************************************)
(* Close against concurrent callers, for any number of them and any batch  *)
(* and channel size.  The argument rests on closeMu: it is held for        *)
(* reading from the check of s.closed to the return of submit, so once the *)
(* channel is closed no caller is inside, none can enter, and batchLoop    *)
(* only ends on the closed and empty channel.                              *)
(***************************************************************************)
EXTENDS Batcher, SequenceTheorems, TLAPS

\* The strengthening: a closed store has no caller inside submit, and batchLoop
\* ends only when the channel is closed and empty.
ClosedInv ==
  /\ closed \in BOOLEAN
  /\ closed => \A c \in Caller : pc[c] = "out"
  /\ loop \in {"exit", "gone"} => closed /\ batchChan = <<>>

\* The store starts open, with batchLoop in its select.
LEMMA ClosedInit == Init => ClosedInv
  BY Zenon DEF Init, ClosedInv

\* No step of a caller, of batchLoop, of the background loops or of Close breaks
\* the strengthening.
LEMMA ClosedStep == ClosedInv /\ [Next]_vars => ClosedInv'
<1> SUFFICES ASSUME ClosedInv, [Next]_vars PROVE ClosedInv'
  BY Zenon
<1> USE DEF ClosedInv, callers, writer, loops
<1>1. ASSUME NEW c \in Caller, CallerStep(c) PROVE ClosedInv'
  <2>1. ASSUME NEW s \in BOOLEAN, Submit(c, s) PROVE ClosedInv'
    BY Zenon, <2>1 DEF Submit
  <2>2. CASE Send(c)
    <3>1. ~closed
      BY Zenon, <2>2 DEF Send
    <3> QED
      BY Zenon, <2>2, <3>1 DEF Send
  <2>3. CASE Return(c)
    <3>1. ~closed
      BY Zenon, <2>3 DEF Return
    <3> QED
      BY Zenon, <2>3, <3>1 DEF Return
  <2> QED
    BY Zenon, <1>1, <2>1, <2>2, <2>3 DEF CallerStep
<1>2. CASE LoopStep
  <2>1. CASE Receive
    <3>1. loop' \in {"select", "batch", "single"}
      BY Zenon, <2>1 DEF Receive
    <3> QED
      BY Zenon, <2>1, <3>1 DEF Receive
  <2>2. CASE TimerFires
    BY Zenon, <2>2 DEF TimerFires
  <2>3. CASE ReceiveClosed
    BY Zenon, <2>3 DEF ReceiveClosed
  <2>4. CASE LockForWrite
    BY Zenon, <2>4 DEF LockForWrite
  <2>5. CASE WriteBatch
    BY Zenon, <2>5 DEF WriteBatch
  <2>6. CASE WriteSingle
    BY Zenon, <2>6 DEF WriteSingle
  <2>7. CASE Exit
    BY Zenon, <2>7 DEF Exit
  <2> QED
    BY Zenon, <1>2, <2>1, <2>2, <2>3, <2>4, <2>5, <2>6, <2>7 DEF LoopStep
<1>3. CASE BackgroundStep
  BY <1>3 DEF BackgroundStep, CompactIfNeeded, LockForCompact, Compacted,
              SnapshotLoopEnds, ExpireLoopEnds, LockForRaft, RaftDone
<1>4. CASE CloseStep
  <2>1. CASE CloseChannel
    BY Zenon, <2>1 DEF CloseChannel, Readers
  <2> QED
    BY <1>4, <2>1 DEF CloseStep, Close, CloseStopsExpiry, CloseWantsLock,
                      CloseCompacts, CloseReturns
<1>5. CASE SubmitClosed
  BY Zenon, <1>5 DEF SubmitClosed, vars
<1>6. CASE UNCHANGED vars
  BY Zenon, <1>6 DEF vars
<1> QED
  BY Zenon, <1>1, <1>2, <1>3, <1>4, <1>5, <1>6 DEF Next

\* No caller ever sends on the closed batchChan, whatever the order in which
\* submit and Close take closeMu.
THEOREM NobodySendsOnClosed == Spec => []NoSendOnClosedChannel
<1>1. ClosedInv => NoSendOnClosedChannel
  BY Zenon DEF ClosedInv, NoSendOnClosedChannel
<1> QED
  BY <1>1, ClosedInit, ClosedStep, PTL DEF Spec

\* batchLoop never ends while a request is queued or a caller is waiting inside
\* submit.
THEOREM LoopEndsLast == Spec => []NothingLeftBehind
<1>1. ClosedInv => NothingLeftBehind
  BY Zenon DEF ClosedInv, NothingLeftBehind, Readers
<1> QED
  BY <1>1, ClosedInit, ClosedStep, PTL DEF Spec

(***************************************************************************)
(* The three places a request can be in, taken together as one queue.      *)
(***************************************************************************)

\* A request sent to the channel joins the queue at its end.
LEMMA SendJoinsQueue ==
  ASSUME NEW S, NEW s \in Seq(S), NEW t \in Seq(S), NEW u \in Seq(S), NEW e \in S
  PROVE  s \o t \o Append(u, e) = Append(s \o t \o u, e)
<1>1. Append(u, e) = u \o <<e>> /\ <<e>> \in Seq(S)
  BY AppendIsConcat
<1>2. s \o t \in Seq(S) /\ (s \o t) \o u \in Seq(S)
  BY Zenon, ConcatProperties
<1>3. (s \o t) \o (u \o <<e>>) = ((s \o t) \o u) \o <<e>>
  BY SMTT(40), <1>1, <1>2, ConcatAssociative
<1>4. Append((s \o t) \o u, e) = ((s \o t) \o u) \o <<e>>
  BY Zenon, <1>2, AppendIsConcat
<1> QED
  BY Zenon, <1>1, <1>3, <1>4

\* What batchLoop receives goes from the head of the channel to the end of the
\* batch, or into its hand, and keeps its place in the queue.
LEMMA ReceiveKeepsQueue ==
  ASSUME NEW S, NEW s \in Seq(S), NEW u \in Seq(S), u # <<>>
  PROVE  /\ Append(s, Head(u)) \o <<>> \o Tail(u) = s \o <<>> \o u
         /\ s \o <<Head(u)>> \o Tail(u) = s \o <<>> \o u
<1>1. Head(u) \in S /\ Tail(u) \in Seq(S) /\ <<Head(u)>> \in Seq(S)
  BY HeadTailProperties
<1>2. Append(s, Head(u)) = s \o <<Head(u)>> /\ s \o <<Head(u)>> \in Seq(S)
  BY Zenon, <1>1, AppendIsConcat, ConcatProperties
<1>3. <<Head(u)>> \o Tail(u) = u
  <2>1. /\ <<Head(u)>> \o Tail(u) \in Seq(S)
        /\ Len(<<Head(u)>> \o Tail(u)) = 1 + Len(Tail(u))
        /\ \A i \in 1..(1 + Len(Tail(u))) :
             (<<Head(u)>> \o Tail(u))[i] = IF i <= 1 THEN Head(u) ELSE Tail(u)[i - 1]
    BY <1>1, ConcatProperties
  <2>2. /\ Len(Tail(u)) = Len(u) - 1 /\ Len(u) \in Nat
        /\ \A i \in 1..Len(Tail(u)) : Tail(u)[i] = u[i + 1]
    BY Zenon, HeadTailProperties, LenProperties
  <2>3. Head(u) = u[1]
    OBVIOUS
  <2>4. ASSUME NEW i \in 1..Len(u) PROVE (<<Head(u)>> \o Tail(u))[i] = u[i]
    BY <2>1, <2>2, <2>3
  <2> QED
    BY <2>1, <2>2, <2>4, SeqEqual
<1>4. (s \o <<Head(u)>>) \o Tail(u) = s \o (<<Head(u)>> \o Tail(u))
  BY <1>1, ConcatAssociative
<1>5. s \o <<>> = s /\ (s \o <<Head(u)>>) \o <<>> = s \o <<Head(u)>>
  BY Zenon, <1>2, ConcatEmptySeq
<1> QED
  BY Zenon, <1>2, <1>3, <1>4, <1>5

\* A written prefix leaves the queue from its front.
LEMMA PrefixLeavesQueue ==
  ASSUME NEW S, NEW s \in Seq(S), NEW r \in Seq(S)
  PROVE  /\ r = SubSeq(s \o r, Len(s) + 1, Len(s \o r))
         /\ Len(s) \in Nat /\ Len(s) <= Len(s \o r)
         /\ \A e : (\E k \in 1..Len(s) : (s \o r)[k] = e) <=> e \in Range(s)
<1>1. /\ s \o r \in Seq(S) /\ Len(s \o r) = Len(s) + Len(r)
      /\ \A i \in 1..(Len(s) + Len(r)) :
           (s \o r)[i] = IF i <= Len(s) THEN s[i] ELSE r[i - Len(s)]
      /\ Len(s) \in Nat /\ Len(r) \in Nat /\ DOMAIN s = 1..Len(s)
  BY Zenon, ConcatProperties, LenProperties
<1> DEFINE q == s \o r
<1>2. q \in Seq(S) /\ Len(q) = Len(s) + Len(r)
  BY Zenon, <1>1
<1>3. \A i \in (Len(s) + 1)..Len(q) : q[i] \in S
  BY <1>1, <1>2, ElementOfSeq
<1>4. /\ SubSeq(q, Len(s) + 1, Len(q)) \in Seq(S)
      /\ Len(SubSeq(q, Len(s) + 1, Len(q))) = Len(r)
      /\ \A i \in 1..Len(r) : SubSeq(q, Len(s) + 1, Len(q))[i] = q[Len(s) + i]
  <2> HIDE DEF q
  <2>1. Len(s) + 1 \in Int /\ Len(q) \in Int /\ Len(q) - (Len(s) + 1) + 1 = Len(r)
    BY <1>1, <1>2
  <2>2. /\ SubSeq(q, Len(s) + 1, Len(q)) \in Seq(S)
        /\ Len(SubSeq(q, Len(s) + 1, Len(q))) =
             IF Len(s) + 1 <= Len(q) THEN Len(q) - (Len(s) + 1) + 1 ELSE 0
        /\ \A i \in 1..(Len(q) - (Len(s) + 1) + 1) :
             SubSeq(q, Len(s) + 1, Len(q))[i] = q[Len(s) + 1 + i - 1]
    BY SMTT(40), <1>3, <2>1, SubSeqProperties
  <2>3. Len(SubSeq(q, Len(s) + 1, Len(q))) = Len(r)
    BY <1>1, <1>2, <2>1, <2>2
  <2>4. \A i \in 1..Len(r) : Len(s) + 1 + i - 1 = Len(s) + i
    BY <1>1
  <2> QED
    BY Zenon, <2>1, <2>2, <2>3, <2>4
<1>5. \A i \in 1..Len(r) : q[Len(s) + i] = r[i]
  BY <1>1
<1>6. r = SubSeq(q, Len(s) + 1, Len(q))
  <2> HIDE DEF q
  <2> QED BY Zenon, <1>4, <1>5, SeqEqual
<1>7. \A k \in 1..Len(s) : q[k] = s[k]
  BY <1>1
<1>8. Range(s) = {s[k] : k \in 1..Len(s)}
  BY Zenon, <1>1 DEF Range
<1> QED
  BY <1>1, <1>6, <1>7, <1>8

\* The strengthening for the queue: a request in it waits for its answer and is in
\* it once, an answer belongs to a caller that waits, and what batchLoop holds
\* fits where it is.
QueueInv ==
  /\ TypeOK
  /\ loop \in {"select", "exit", "gone"} => current = <<>>
  /\ loop = "select" => Len(batch) < MaxBatch
  /\ loop = "batch" => batch # <<>>
  /\ loop = "single" => batch = <<>> /\ current # <<>>
  /\ \A c \in Caller : answered[c] => pc[c] = "waiting"
  /\ \A k \in 1..Len(Accepted) : pc[Accepted[k]] = "waiting" /\ ~answered[Accepted[k]]
  /\ \A j, k \in 1..Len(Accepted) : Accepted[j] = Accepted[k] => j = k

\* The strengthening makes the queue a sequence of callers that is the batch
\* followed by the rest.
LEMMA AcceptedFacts ==
  ASSUME TypeOK
  PROVE  /\ batch \in Seq(Caller) /\ current \in Seq(Caller) /\ batchChan \in Seq(Caller)
         /\ current \o batchChan \in Seq(Caller)
         /\ Accepted \in Seq(Caller) /\ Len(Accepted) \in Nat
         /\ Accepted = batch \o (current \o batchChan)
         /\ \A k \in 1..Len(Accepted) : Accepted[k] \in Caller
<1>1. batch \in Seq(Caller) /\ current \in Seq(Caller) /\ batchChan \in Seq(Caller)
  BY Zenon DEF TypeOK
<1>2. Accepted = batch \o (current \o batchChan)
  <2>1. \A s, t, u \in Seq(Caller) : (s \o t) \o u = s \o (t \o u)
    BY SMTT(40)
  <2> QED
    BY Zenon, <1>1, <2>1 DEF Accepted
<1>3. current \o batchChan \in Seq(Caller) /\ Accepted \in Seq(Caller)
  BY Zenon, <1>1, <1>2, ConcatProperties
<1> QED
  BY Zenon, <1>1, <1>2, <1>3, LenProperties, ElementOfSeq

\* The batch is what a write takes from the front of the queue.
LEMMA BatchIsFront ==
  ASSUME TypeOK
  PROVE  /\ current \o batchChan = SubSeq(Accepted, Len(batch) + 1, Len(Accepted))
         /\ Len(batch) \in Nat /\ Len(batch) <= Len(Accepted)
         /\ \A e : (\E k \in 1..Len(batch) : Accepted[k] = e) <=> e \in Range(batch)
<1>1. batch \in Seq(Caller) /\ current \o batchChan \in Seq(Caller)
  BY Zenon, AcceptedFacts
<1>2. Accepted = batch \o (current \o batchChan)
  BY Zenon, AcceptedFacts
<1>3. ASSUME NEW r \in Seq(Caller)
      PROVE  /\ r = SubSeq(batch \o r, Len(batch) + 1, Len(batch \o r))
             /\ Len(batch) \in Nat /\ Len(batch) <= Len(batch \o r)
             /\ \A e : (\E k \in 1..Len(batch) : (batch \o r)[k] = e) <=> e \in Range(batch)
  BY Zenon, <1>1, PrefixLeavesQueue
<1> QED
  BY Zenon, <1>1, <1>2, <1>3

\* The store starts with nothing accepted.
LEMMA QueueInit == Init => QueueInv
<1> SUFFICES ASSUME Init PROVE QueueInv
  BY Zenon
<1>1. batch = <<>> /\ current = <<>> /\ batchChan = <<>>
  BY Zenon DEF Init
<1>2. Accepted = <<>>
  BY <1>1 DEF Accepted
<1>3. TypeOK
  <2>1. /\ pc \in [Caller -> {"out", "sending", "waiting"}]
        /\ single \in [Caller -> BOOLEAN] /\ answered \in [Caller -> BOOLEAN]
        /\ closed \in BOOLEAN /\ timer \in BOOLEAN
    BY Zenon DEF Init
  <2>2. <<>> \in Seq(Caller) /\ Len(<<>>) = 0 /\ 0 <= ChanCap /\ 0 <= MaxBatch
    BY BatcherAssumption
  <2> QED
    BY <1>1, <2>1, <2>2 DEF Init, TypeOK, Nobody
<1> QED
  BY <1>1, <1>2, <1>3, BatcherAssumption DEF Init, QueueInv

\* A write of the n requests at the front of the queue, by writeBatch or by
\* writeSingle, is a write of the abstract queue, and what stays in the queue
\* still waits.
LEMMA WriteOfPrefix ==
  ASSUME QueueInv,
         NEW n \in 1..Len(Accepted),
         Accepted' = SubSeq(Accepted, n + 1, Len(Accepted)),
         \A c \in Caller : answered'[c] <=> answered[c] \/ \E k \in 1..n : Accepted[k] = c,
         pc' = pc, closed' = closed
  PROVE  /\ Queue!Next
         /\ \A c \in Caller : answered'[c] => pc'[c] = "waiting"
         /\ \A k \in 1..Len(Accepted') : pc'[Accepted'[k]] = "waiting" /\ ~answered'[Accepted'[k]]
         /\ \A j, k \in 1..Len(Accepted') : Accepted'[j] = Accepted'[k] => j = k
<1>1. /\ Accepted \in Seq(Caller) /\ Len(Accepted) \in Nat
      /\ \A k \in 1..Len(Accepted) : Accepted[k] \in Caller
  BY Zenon, AcceptedFacts DEF QueueInv
<1>2. /\ Len(Accepted') = Len(Accepted) - n
      /\ \A i \in 1..Len(Accepted') : n + i \in 1..Len(Accepted) /\ Accepted'[i] = Accepted[n + i]
  BY <1>1
<1>3. /\ \A k \in 1..Len(Accepted) : pc[Accepted[k]] = "waiting" /\ ~answered[Accepted[k]]
      /\ \A j, k \in 1..Len(Accepted) : Accepted[j] = Accepted[k] => j = k
      /\ \A c \in Caller : answered[c] => pc[c] = "waiting"
  BY Zenon DEF QueueInv
<1> HIDE DEF Accepted
<1>4. ASSUME NEW k \in 1..n PROVE k \in 1..Len(Accepted) /\ pc[Accepted[k]] = "waiting"
  BY <1>1, <1>3
<1>5. ASSUME NEW c \in Caller, answered'[c] PROVE pc'[c] = "waiting"
  <2>1. CASE answered[c]
    BY Zenon, <1>3, <2>1
  <2>2. CASE \E k \in 1..n : Accepted[k] = c
    BY Zenon, <1>4, <2>2
  <2> QED
    BY Zenon, <1>5, <2>1, <2>2
<1>6. ASSUME NEW i \in 1..Len(Accepted')
      PROVE  pc'[Accepted'[i]] = "waiting" /\ ~answered'[Accepted'[i]]
  <2>1. n + i \in 1..Len(Accepted) /\ Accepted'[i] = Accepted[n + i]
    BY Zenon, <1>2
  <2>2. pc[Accepted[n + i]] = "waiting" /\ ~answered[Accepted[n + i]] /\ Accepted[n + i] \in Caller
    BY Zenon, <1>1, <1>3, <2>1
  <2>3. ASSUME NEW k \in 1..n PROVE Accepted[k] # Accepted[n + i]
    <3>1. k # n + i /\ k \in 1..Len(Accepted)
      BY <1>1, <1>2
    <3> QED
      BY Zenon, <1>3, <2>1, <3>1
  <2>4. ~answered'[Accepted[n + i]]
    BY Zenon, <2>2, <2>3
  <2>5. pc'[Accepted'[i]] = pc[Accepted[n + i]] /\ answered'[Accepted'[i]] = answered'[Accepted[n + i]]
    BY Zenon, <2>1
  <2> QED
    BY Zenon, <2>2, <2>4, <2>5
<1>7. ASSUME NEW j \in 1..Len(Accepted'), NEW k \in 1..Len(Accepted'), Accepted'[j] = Accepted'[k]
      PROVE  j = k
  <2>1. /\ n + j \in 1..Len(Accepted) /\ n + k \in 1..Len(Accepted)
        /\ Accepted[n + j] = Accepted[n + k]
    BY Zenon, <1>2, <1>7
  <2>2. n + j = n + k
    BY Zenon, <1>3, <2>1
  <2> QED
    BY <2>2
<1>8. Queue!Write(n)
  <2>1. ASSUME NEW c \in Caller
        PROVE  Status(c)' = IF \E k \in 1..n : Accepted[k] = c THEN "written" ELSE Status(c)
    <3>1. CASE \E k \in 1..n : Accepted[k] = c
      <4>1. pc'[c] = "waiting" /\ answered'[c]
        BY Zenon, <1>4, <3>1
      <4> QED
        BY Zenon, <3>1, <4>1 DEF Status
    <3>2. CASE ~\E k \in 1..n : Accepted[k] = c
      <4>1. pc'[c] = pc[c] /\ (answered'[c] <=> answered[c])
        BY Zenon, <3>2
      <4> QED
        BY Zenon, <3>2, <4>1 DEF Status
    <3> QED
      BY Zenon, <3>1, <3>2
  <2>2. [c \in Caller |-> Status(c)]' =
          [c \in Caller |-> IF \E k \in 1..n : Accepted[k] = c THEN "written"
                            ELSE [d \in Caller |-> Status(d)][c]]
    BY Zenon, <2>1
  <2> QED
    BY Zenon, <2>2 DEF Queue!Write
<1>9. Queue!Next
  BY Zenon, <1>8 DEF Queue!Next
<1> QED
  BY Zenon, <1>5, <1>6, <1>7, <1>9

\* The step of a caller, for the strengthening and for the abstract queue.
LEMMA QueueCallerStep ==
  ASSUME QueueInv, ClosedInv, NEW c \in Caller, CallerStep(c)
  PROVE  QueueInv' /\ Queue!Next
<1> USE DEF callers, writer, loops
<1>1. /\ Accepted \in Seq(Caller) /\ Len(Accepted) \in Nat
      /\ \A k \in 1..Len(Accepted) : Accepted[k] \in Caller
      /\ batch \in Seq(Caller) /\ current \in Seq(Caller) /\ batchChan \in Seq(Caller)
  BY Zenon, AcceptedFacts DEF QueueInv
<1>2. /\ \A k \in 1..Len(Accepted) : pc[Accepted[k]] = "waiting" /\ ~answered[Accepted[k]]
      /\ \A j, k \in 1..Len(Accepted) : Accepted[j] = Accepted[k] => j = k
      /\ \A d \in Caller : answered[d] => pc[d] = "waiting"
  BY Zenon DEF QueueInv
<1>3. ASSUME NEW s \in BOOLEAN, Submit(c, s) PROVE QueueInv' /\ Queue!Next
  <2>1. TypeOK'
    BY <1>3 DEF QueueInv, TypeOK, Submit
  <2>2. Accepted' = Accepted /\ answered' = answered
    BY Zenon, <1>3 DEF Submit, Accepted
  <2>3. \A d \in Caller : pc'[d] = IF d = c THEN "sending" ELSE pc[d]
    BY Zenon, <1>3 DEF Submit, QueueInv, TypeOK
  <2>4. pc[c] = "out" /\ ~closed
    BY Zenon, <1>3 DEF Submit
  <2>5. \A k \in 1..Len(Accepted) : pc'[Accepted[k]] = "waiting" /\ ~answered'[Accepted[k]]
    BY Zenon, <1>1, <1>2, <2>2, <2>3, <2>4
  <2>6. \A d \in Caller : answered'[d] => pc'[d] = "waiting"
    BY Zenon, <1>2, <2>2, <2>3, <2>4
  <2>7. QueueInv'
    BY Zenon, <1>2, <1>3, <2>1, <2>2, <2>5, <2>6 DEF QueueInv, Submit
  <2>8. [d \in Caller |-> Status(d)]' = [[d \in Caller |-> Status(d)] EXCEPT ![c] = "asked"]
    BY Zenon, <2>2, <2>3 DEF Status
  <2>9. Queue!Ask(c)
    BY Zenon, <1>3, <2>2, <2>4, <2>8 DEF Queue!Ask, Status, Submit
  <2> QED
    BY Zenon, <2>7, <2>9 DEF Queue!Next
<1>4. CASE Send(c)
  <2>1. TypeOK'
    <3>1. batchChan' \in Seq(Caller) /\ Len(batchChan') <= ChanCap
      BY <1>1, <1>4, BatcherAssumption DEF Send
    <3> QED
      BY <1>4, <3>1 DEF QueueInv, TypeOK, Send
  <2>2. Accepted' = Append(Accepted, c) /\ answered' = answered
    BY SMTT(40), <1>1, <1>4, SendJoinsQueue DEF Send, Accepted
  <2>3. \A d \in Caller : pc'[d] = IF d = c THEN "waiting" ELSE pc[d]
    BY Zenon, <1>4 DEF Send, QueueInv, TypeOK
  <2>4. pc[c] = "sending" /\ ~answered[c]
    BY Zenon, <1>2, <1>4 DEF Send
  <2>5. /\ Len(Accepted') = Len(Accepted) + 1
        /\ \A k \in 1..Len(Accepted') :
             Accepted'[k] = IF k \in 1..Len(Accepted) THEN Accepted[k] ELSE c
    BY <1>1, <2>2
  <2>6. \A k \in 1..Len(Accepted') : pc'[Accepted'[k]] = "waiting" /\ ~answered'[Accepted'[k]]
    BY SMTT(40), <1>1, <1>2, <2>2, <2>3, <2>4, <2>5
  <2>7. ASSUME NEW j \in 1..Len(Accepted'), NEW k \in 1..Len(Accepted'), Accepted'[j] = Accepted'[k]
        PROVE  j = k
    <3>1. \A i \in 1..Len(Accepted) : Accepted[i] # c
      BY Zenon, <1>2, <2>4
    <3> QED
      BY SMTT(40), <1>1, <1>2, <2>5, <2>7, <3>1
  <2>8. \A d \in Caller : answered'[d] => pc'[d] = "waiting"
    BY Zenon, <1>2, <2>2, <2>3
  <2>9. QueueInv'
    BY Zenon, <1>4, <2>1, <2>6, <2>7, <2>8 DEF QueueInv, Send
  <2>10. [d \in Caller |-> Status(d)]' = [[d \in Caller |-> Status(d)] EXCEPT ![c] = "queued"]
    BY Zenon, <2>2, <2>3, <2>4 DEF Status
  <2>11. Queue!Accept(c)
    BY Zenon, <1>4, <2>2, <2>4, <2>10 DEF Queue!Accept, Status, Send
  <2> QED
    BY Zenon, <2>9, <2>11 DEF Queue!Next
<1>5. CASE Return(c)
  <2>1. TypeOK'
    BY <1>5 DEF QueueInv, TypeOK, Return
  <2>2. Accepted' = Accepted
    BY Zenon, <1>5 DEF Return, Accepted
  <2>3. pc[c] = "waiting" /\ answered[c]
    BY Zenon, <1>5 DEF Return
  <2>4. /\ \A d \in Caller : pc'[d] = IF d = c THEN "out" ELSE pc[d]
        /\ \A d \in Caller : d # c => answered'[d] = answered[d]
        /\ ~answered'[c]
    BY Zenon, <1>5 DEF Return, QueueInv, TypeOK
  <2>5. \A k \in 1..Len(Accepted) : Accepted[k] # c
    BY Zenon, <1>2, <2>3
  <2>6. \A k \in 1..Len(Accepted) : pc'[Accepted[k]] = "waiting" /\ ~answered'[Accepted[k]]
    BY Zenon, <1>1, <1>2, <2>4, <2>5
  <2>7. \A d \in Caller : answered'[d] => pc'[d] = "waiting"
    BY Zenon, <1>2, <2>4
  <2>8. QueueInv'
    BY Zenon, <1>2, <1>5, <2>1, <2>2, <2>6, <2>7 DEF QueueInv, Return
  <2>9. [d \in Caller |-> Status(d)]' = [[d \in Caller |-> Status(d)] EXCEPT ![c] = "idle"]
    BY Zenon, <2>4 DEF Status
  <2>10. Queue!Return(c)
    BY Zenon, <1>5, <2>2, <2>3, <2>9 DEF Queue!Return, Status, Return
  <2> QED
    BY Zenon, <2>8, <2>10 DEF Queue!Next
<1> QED
  BY Zenon, <1>3, <1>4, <1>5 DEF CallerStep

\* The steps of batchLoop: receiving moves a request within the queue, a write
\* takes the requests it covers from the front.
LEMMA QueueLoopStep ==
  ASSUME QueueInv, ClosedInv, LoopStep
  PROVE  QueueInv' /\ (Queue!Next \/ UNCHANGED Queue!vars)
<1> USE DEF callers, writer, loops
<1>1. /\ Accepted \in Seq(Caller) /\ Len(Accepted) \in Nat
      /\ batch \in Seq(Caller) /\ current \in Seq(Caller) /\ batchChan \in Seq(Caller)
      /\ current \o batchChan \in Seq(Caller)
      /\ Accepted = batch \o (current \o batchChan)
  BY Zenon, AcceptedFacts DEF QueueInv
<1>2. ASSUME TypeOK', Accepted' = Accepted, UNCHANGED <<pc, answered, closed>>,
             loop' \in {"select", "exit", "gone"} => current' = <<>>,
             loop' = "select" => Len(batch') < MaxBatch,
             loop' = "batch" => batch' # <<>>,
             loop' = "single" => batch' = <<>> /\ current' # <<>>
      PROVE  QueueInv' /\ UNCHANGED Queue!vars
  <2>1. QueueInv'
    BY Zenon, <1>2 DEF QueueInv
  <2>2. [d \in Caller |-> Status(d)]' = [d \in Caller |-> Status(d)]
    BY Zenon, <1>2 DEF Status
  <2> QED
    BY Zenon, <1>2, <2>1, <2>2 DEF Queue!vars
<1>3. CASE Receive
  <2>1. /\ loop = "select" /\ batchChan # <<>> /\ current = <<>> /\ Len(batch) < MaxBatch
        /\ batchChan' = Tail(batchChan) /\ Head(batchChan) \in Caller
        /\ Tail(batchChan) \in Seq(Caller) /\ Len(Tail(batchChan)) = Len(batchChan) - 1
        /\ Len(batchChan) \in Nat /\ Len(batch) \in Nat
    BY Zenon, <1>1, <1>3, HeadTailProperties, LenProperties DEF Receive, QueueInv
  <2>2. CASE single[Head(batchChan)]
    <3>1. /\ current' = <<Head(batchChan)>> /\ UNCHANGED <<batch, timer>>
          /\ loop' = IF batch = <<>> THEN "single" ELSE "batch"
      BY Zenon, <1>3, <2>2 DEF Receive
    <3>2. Accepted' = Accepted
      BY SMTT(40), <1>1, <2>1, <3>1, ReceiveKeepsQueue DEF Accepted
    <3>3. TypeOK'
      <4>1. /\ batchChan' \in Seq(Caller) /\ Len(batchChan') <= ChanCap
            /\ current' \in Seq(Caller) /\ Len(current') <= 1
        BY <2>1, <3>1, BatcherAssumption DEF QueueInv, TypeOK
      <4> QED
        BY Zenon, <1>3, <3>1, <4>1 DEF QueueInv, TypeOK, Receive
    <3> QED
      BY Zenon, <1>2, <1>3, <3>1, <3>2, <3>3 DEF Receive
  <2>3. CASE ~single[Head(batchChan)]
    <3>1. /\ batch' = Append(batch, Head(batchChan)) /\ current' = current /\ timer' = TRUE
          /\ loop' = IF Len(batch') >= MaxBatch THEN "batch" ELSE "select"
      BY Zenon, <1>3, <2>3 DEF Receive
    <3>2. Accepted' = Accepted
      BY SMTT(40), <1>1, <2>1, <3>1, ReceiveKeepsQueue DEF Accepted
    <3>3. /\ batch' \in Seq(Caller) /\ batch' # <<>> /\ Len(batch') = Len(batch) + 1
          /\ Len(batch') <= MaxBatch
      BY <1>1, <2>1, <3>1, AppendProperties, BatcherAssumption
    <3>4. TypeOK'
      <4>1. batchChan' \in Seq(Caller) /\ Len(batchChan') <= ChanCap
        BY <2>1, BatcherAssumption DEF QueueInv, TypeOK
      <4> QED
        BY Zenon, <1>3, <3>1, <3>3, <4>1 DEF QueueInv, TypeOK, Receive
    <3>5. loop' = "select" => Len(batch') < MaxBatch
      BY <2>1, <3>1, <3>3, BatcherAssumption
    <3> QED
      BY Zenon, <1>2, <1>3, <2>1, <3>1, <3>2, <3>3, <3>4, <3>5 DEF Receive
  <2> QED
    BY Zenon, <2>2, <2>3
<1>4. CASE TimerFires \/ ReceiveClosed \/ LockForWrite \/ Exit
  <2>1. /\ Accepted' = Accepted /\ UNCHANGED <<pc, answered, closed, batch, current>>
    BY Zenon, <1>4 DEF TimerFires, ReceiveClosed, LockForWrite, Exit, Accepted
  <2>2. TypeOK'
    <3>1. /\ UNCHANGED <<callers, batchChan, closed, batch, current, loops, closer>>
          /\ loop' \in {"select", "batch", "single", "exit", "gone"}
          /\ snapMu' \in {snapMu, "loop"}
      BY Zenon, <1>4 DEF QueueInv, TypeOK, TimerFires, ReceiveClosed, LockForWrite, Exit
    <3>2. timer' = timer \/ timer' = FALSE
      BY Zenon, <1>4 DEF TimerFires, ReceiveClosed, LockForWrite, Exit
    <3>3. timer' \in BOOLEAN
      BY Zenon, <3>2 DEF QueueInv, TypeOK
    <3> QED
      BY Zenon, <3>1, <3>3 DEF QueueInv, TypeOK
  <2>3. /\ loop' \in {"select", "exit", "gone"} => current = <<>>
        /\ loop' = "select" => Len(batch) < MaxBatch
        /\ loop' = "batch" => batch # <<>>
        /\ loop' = "single" => batch = <<>> /\ current # <<>>
    BY Zenon, <1>4 DEF QueueInv, TimerFires, ReceiveClosed, LockForWrite, Exit
  <2> QED
    BY Zenon, <1>2, <2>1, <2>2, <2>3
<1>5. CASE WriteBatch
  <2>1. batch # <<>> /\ batch' = <<>> /\ current' = current /\ batchChan' = batchChan
    BY Zenon, <1>5 DEF WriteBatch, QueueInv
  <2>2. Accepted' = current \o batchChan
    BY Zenon, <1>1, <2>1, ConcatEmptySeq DEF Accepted
  <2>3. /\ current \o batchChan = SubSeq(Accepted, Len(batch) + 1, Len(Accepted))
        /\ Len(batch) \in Nat /\ Len(batch) <= Len(Accepted)
        /\ \A e : (\E k \in 1..Len(batch) : Accepted[k] = e) <=> e \in Range(batch)
    BY Zenon, BatchIsFront DEF QueueInv
  <2>4. Len(batch) \in 1..Len(Accepted)
    BY <1>1, <2>1, <2>3, EmptySeq
  <2>5. \A c \in Caller : answered'[c] <=> answered[c] \/ c \in Range(batch)
    BY Zenon, <1>5 DEF WriteBatch
  <2>6. \A c \in Caller :
          answered'[c] <=> answered[c] \/ \E k \in 1..Len(batch) : Accepted[k] = c
    BY Zenon, <2>3, <2>5
  <2>7. pc' = pc /\ closed' = closed
    BY Zenon, <1>5 DEF WriteBatch
  <2>8. TypeOK'
    <3>1. answered' \in [Caller -> BOOLEAN]
      BY Zenon, <1>5 DEF WriteBatch, QueueInv, TypeOK
    <3>2. batch' \in Seq(Caller) /\ Len(batch') <= MaxBatch
      BY <2>1, BatcherAssumption
    <3> QED
      BY Zenon, <1>5, <3>1, <3>2 DEF WriteBatch, QueueInv, TypeOK
  <2>9. /\ loop' \in {"select", "exit", "gone"} => current' = <<>>
        /\ loop' = "select" => Len(batch') < MaxBatch
        /\ loop' = "batch" => batch' # <<>>
        /\ loop' = "single" => batch' = <<>> /\ current' # <<>>
    BY <1>5, <2>1, BatcherAssumption DEF WriteBatch
  <2>10. /\ Queue!Next
         /\ \A c \in Caller : answered'[c] => pc'[c] = "waiting"
         /\ \A k \in 1..Len(Accepted') : pc'[Accepted'[k]] = "waiting" /\ ~answered'[Accepted'[k]]
         /\ \A j, k \in 1..Len(Accepted') : Accepted'[j] = Accepted'[k] => j = k
    BY Zenon, <2>2, <2>3, <2>4, <2>6, <2>7, WriteOfPrefix
  <2> QED
    BY Zenon, <2>8, <2>9, <2>10 DEF QueueInv
<1>6. CASE WriteSingle
  <2>1. /\ batch = <<>> /\ batch' = <<>> /\ current # <<>> /\ current' = <<>>
        /\ batchChan' = batchChan /\ Len(current) <= 1 /\ Len(current) \in Nat
    BY Zenon, <1>1, <1>6, LenProperties DEF WriteSingle, QueueInv, TypeOK
  <2>2. Len(current) = 1 /\ current[1] \in Caller
    <3>1. Len(current) \in Nat \ {0}
      BY Zenon, <1>1, <2>1, EmptySeq
    <3>2. Len(current) = 1
      BY <2>1, <3>1
    <3> QED
      BY <1>1, <3>2
  <2>3. Accepted' = batchChan /\ Accepted = current \o batchChan
    BY Zenon, <1>1, <2>1, ConcatEmptySeq DEF Accepted
  <2>4. /\ batchChan = SubSeq(Accepted, Len(current) + 1, Len(Accepted))
        /\ Len(current) <= Len(Accepted)
        /\ \A e : (\E k \in 1..Len(current) : Accepted[k] = e) <=> e \in Range(current)
    <3>1. /\ batchChan = SubSeq(current \o batchChan, Len(current) + 1, Len(current \o batchChan))
          /\ Len(current) <= Len(current \o batchChan)
          /\ \A e : (\E k \in 1..Len(current) : (current \o batchChan)[k] = e) <=> e \in Range(current)
      BY ZenonT(40), <1>1, PrefixLeavesQueue
    <3> QED
      BY Zenon, <2>3, <3>1
  <2>5. \A e : e \in Range(current) <=> e = current[1]
    BY <1>1, <2>2, LenProperties DEF Range
  <2>6. \A c \in Caller :
          answered'[c] <=> answered[c] \/ \E k \in 1..Len(current) : Accepted[k] = c
    <3>1. answered' = [answered EXCEPT ![current[1]] = TRUE] /\ answered \in [Caller -> BOOLEAN]
      BY Zenon, <1>6 DEF WriteSingle, QueueInv, TypeOK
    <3>2. \A c \in Caller : answered'[c] <=> answered[c] \/ c = current[1]
      BY Zenon, <2>2, <3>1
    <3> QED
      BY Zenon, <2>4, <2>5, <3>2
  <2>7. pc' = pc /\ closed' = closed
    BY Zenon, <1>6 DEF WriteSingle
  <2>8. TypeOK'
    BY <1>6, <2>1, <2>2, BatcherAssumption DEF WriteSingle, QueueInv, TypeOK
  <2>9. /\ loop' = "select" /\ Len(batch') < MaxBatch
    BY <1>6, <2>1, BatcherAssumption DEF WriteSingle
  <2>10. Len(current) \in 1..Len(Accepted)
    BY <1>1, <2>2, <2>4
  <2>11. /\ Queue!Next
         /\ \A c \in Caller : answered'[c] => pc'[c] = "waiting"
         /\ \A k \in 1..Len(Accepted') : pc'[Accepted'[k]] = "waiting" /\ ~answered'[Accepted'[k]]
         /\ \A j, k \in 1..Len(Accepted') : Accepted'[j] = Accepted'[k] => j = k
    BY Zenon, <2>3, <2>4, <2>6, <2>7, <2>10, WriteOfPrefix
  <2> QED
    BY Zenon, <2>1, <2>8, <2>9, <2>11 DEF QueueInv
<1> QED
  BY Zenon, <1>3, <1>4, <1>5, <1>6 DEF LoopStep

\* The background loops and Close touch neither the queue nor the callers, except
\* that Close stops the store when no caller is inside.
LEMMA QueueOtherStep ==
  ASSUME QueueInv, ClosedInv, SubmitClosed \/ BackgroundStep \/ CloseStep \/ UNCHANGED vars
  PROVE  QueueInv' /\ (Queue!Next \/ UNCHANGED Queue!vars)
<1> USE DEF callers, writer, loops
<1>1. UNCHANGED <<pc, single, answered, batchChan, loop, batch, current, timer>>
  BY Zenon DEF SubmitClosed, vars, BackgroundStep, CompactIfNeeded, LockForCompact, Compacted,
         SnapshotLoopEnds, ExpireLoopEnds, LockForRaft, RaftDone, CloseStep, Close,
         CloseStopsExpiry, CloseWantsLock, CloseChannel, CloseCompacts, CloseReturns
<1>2. Accepted' = Accepted /\ [c \in Caller |-> Status(c)]' = [c \in Caller |-> Status(c)]
  BY Zenon, <1>1 DEF Accepted, Status
<1>3. TypeOK'
  <2> USE DEF SubmitClosed, vars, BackgroundStep, CompactIfNeeded, LockForCompact, Compacted,
         SnapshotLoopEnds, ExpireLoopEnds, LockForRaft, RaftDone, CloseStep, Close,
         CloseStopsExpiry, CloseWantsLock, CloseChannel, CloseCompacts, CloseReturns
  <2>1. closed' = closed \/ closed' = TRUE
    BY Zenon
  <2>2. snapMu' \in {snapMu, Nobody, "snapshotLoop", "raft", "close"}
    BY Zenon
  <2>3. snapLoop' \in {snapLoop, "select", "compact", "gone"} /\ expLoop' \in {expLoop, "gone"}
    BY Zenon
  <2>4. closer' \in {closer, "stopSnap", "stopExp", "lock", "drain", "compact", "closed"}
    BY Zenon
  <2> HIDE DEF SubmitClosed, vars, BackgroundStep, CompactIfNeeded, LockForCompact, Compacted,
         SnapshotLoopEnds, ExpireLoopEnds, LockForRaft, RaftDone, CloseStep, Close,
         CloseStopsExpiry, CloseWantsLock, CloseChannel, CloseCompacts, CloseReturns
  <2>5. closed' \in BOOLEAN /\ timer' \in BOOLEAN
    BY ZenonT(30), <1>1, <2>1 DEF QueueInv, TypeOK
  <2> QED
    BY <1>1, <2>2, <2>3, <2>4, <2>5 DEF QueueInv, TypeOK
<1>4. QueueInv'
  BY Zenon, <1>1, <1>2, <1>3 DEF QueueInv
<1>5. CASE CloseChannel
  <2>1. \A c \in Caller : [d \in Caller |-> Status(d)][c] = "idle"
    BY Zenon, <1>5 DEF CloseChannel, Readers, Status
  <2>2. Queue!Stop
    BY Zenon, <1>2, <1>5, <2>1 DEF Queue!Stop, CloseChannel
  <2> QED
    BY Zenon, <1>4, <2>2 DEF Queue!Next
<1>6. CASE ~CloseChannel
  <2>1. closed' = closed
    BY Zenon, <1>6 DEF SubmitClosed, vars, BackgroundStep, CompactIfNeeded, LockForCompact, Compacted,
         SnapshotLoopEnds, ExpireLoopEnds, LockForRaft, RaftDone, CloseStep, Close,
         CloseStopsExpiry, CloseWantsLock, CloseCompacts, CloseReturns
  <2> QED
    BY Zenon, <1>2, <1>4, <2>1 DEF Queue!vars
<1> QED
  BY Zenon, <1>5, <1>6

\* Both strengthenings together are inductive, and every step is one of the
\* abstract queue or leaves it alone.
LEMMA QueueStep ==
  QueueInv /\ ClosedInv /\ [Next]_vars => QueueInv' /\ [Queue!Next]_(Queue!vars)
<1> SUFFICES ASSUME QueueInv, ClosedInv, [Next]_vars
             PROVE  QueueInv' /\ (Queue!Next \/ UNCHANGED Queue!vars)
  BY Zenon
<1>1. CASE \E c \in Caller : CallerStep(c)
  BY Zenon, <1>1, QueueCallerStep
<1>2. CASE LoopStep
  BY Zenon, <1>2, QueueLoopStep
<1>3. CASE SubmitClosed \/ BackgroundStep \/ CloseStep \/ UNCHANGED vars
  BY Zenon, <1>3, QueueOtherStep
<1> QED
  BY Zenon, <1>1, <1>2, <1>3 DEF Next

\* The goroutines of the store implement one queue of writes for any number of
\* callers and any batch and channel size: nothing that submit sent is lost,
\* written twice or overtaken, and Close stops the store with nobody inside.
THEOREM BatcherImplementsQueue == Spec => WritesInOrder
<1>1. Init => Queue!Init
  <2> SUFFICES ASSUME Init PROVE Queue!Init
    BY Zenon
  <2>1. Accepted = <<>> /\ closed = FALSE
    BY DEF Init, Accepted
  <2>2. [c \in Caller |-> Status(c)] = [c \in Caller |-> "idle"]
    BY Zenon DEF Init, Status
  <2> QED
    BY Zenon, <2>1, <2>2 DEF Queue!Init
<1> QED
  BY <1>1, QueueInit, ClosedInit, QueueStep, ClosedStep, PTL DEF Spec, WritesInOrder, Queue!Spec

\* The channel stays within its capacity and the batch within maxBatchSize.
THEOREM ShapesAreKept == Spec => []TypeOK
<1>1. QueueInv => TypeOK
  BY Zenon DEF QueueInv
<1> QED
  BY <1>1, QueueInit, ClosedInit, QueueStep, ClosedStep, PTL DEF Spec

\* An Incr, a CAS or an Expire is written with no batched write pending.
THEOREM SinglesComeAfterTheBatch == Spec => []SinglesSeeTheBatch
<1>1. QueueInv => SinglesSeeTheBatch
  BY Zenon DEF QueueInv, SinglesSeeTheBatch
<1> QED
  BY <1>1, QueueInit, ClosedInit, QueueStep, ClosedStep, PTL DEF Spec
=============================================================================
