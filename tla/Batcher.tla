------------------------------ MODULE Batcher ------------------------------
(***************************************************************************)
(* The goroutines around the durable store of pkg/storage: callers that    *)
(* submit a mutation and wait for its answer, batchLoop that collects and  *)
(* writes them, snapshotLoop and expireLoop, other users of snapMu (raft's *)
(* compactor, snapshot shipping), and Close, which stops all of them.      *)
(*                                                                         *)
(* A request is its caller: submit has one request of a caller in flight.  *)
(* What a write section does to the files is the DiskStore module.         *)
(***************************************************************************)
EXTENDS Integers, FiniteSets, Functions, Sequences

CONSTANTS
  Caller,    \* the goroutines that call submit
  MaxBatch,  \* maxBatchSize, scaled down
  ChanCap    \* the capacity of batchChan (2*maxBatchSize)

ASSUME BatcherAssumption == MaxBatch \in Nat \ {0} /\ ChanCap \in Nat \ {0}

VARIABLES
  pc,         \* where a caller is: out of submit, about to send, sent
  single,     \* whether its request is an Incr, CAS or Expire (op >= opIncr)
  answered,   \* whether its errChan holds the answer
  batchChan,  \* the queued requests
  closed,     \* s.closed; batchChan is closed with it
  loop,       \* what batchLoop does: select, write the batch, write current, exit, gone
  batch,      \* the requests it has collected
  current,    \* the request it received that must be written singly
  timer,      \* whether the flush timer runs
  snapMu,     \* who holds snapMu
  snapLoop,   \* snapshotLoop: select, compact, gone
  expLoop,    \* expireLoop: select, gone
  closer      \* how far Close is

callers == <<pc, single, answered>>
writer  == <<loop, batch, current, timer>>
loops   == <<snapLoop, expLoop>>
vars    == <<callers, batchChan, closed, writer, snapMu, loops, closer>>

Nobody == "nobody"

Init ==
  /\ pc = [c \in Caller |-> "out"]
  /\ single = [c \in Caller |-> FALSE]
  /\ answered = [c \in Caller |-> FALSE]
  /\ batchChan = <<>> /\ closed = FALSE
  /\ loop = "select" /\ batch = <<>> /\ current = <<>> /\ timer = FALSE
  /\ snapMu = Nobody /\ snapLoop = "select" /\ expLoop = "select" /\ closer = "open"

(***************************************************************************)
(* submit: closeMu is read-locked from the check of s.closed to the return *)
(***************************************************************************)
Readers == {c \in Caller : pc[c] # "out"}

\* A waiting writer of closeMu keeps new readers out.
Submit(c, s) ==
  /\ pc[c] = "out" /\ closer # "lock" /\ ~closed
  /\ pc' = [pc EXCEPT ![c] = "sending"]
  /\ single' = [single EXCEPT ![c] = s]
  /\ UNCHANGED <<answered, batchChan, closed, writer, snapMu, loops, closer>>

\* ErrClosed.
SubmitClosed == closed /\ UNCHANGED vars

Send(c) ==
  /\ pc[c] = "sending" /\ Len(batchChan) < ChanCap
  /\ batchChan' = Append(batchChan, c)
  /\ pc' = [pc EXCEPT ![c] = "waiting"]
  /\ UNCHANGED <<single, answered, closed, writer, snapMu, loops, closer>>

Return(c) ==
  /\ pc[c] = "waiting" /\ answered[c]
  /\ pc' = [pc EXCEPT ![c] = "out"]
  /\ answered' = [answered EXCEPT ![c] = FALSE]
  /\ UNCHANGED <<single, batchChan, closed, writer, snapMu, loops, closer>>

(***************************************************************************)
(* batchLoop                                                               *)
(***************************************************************************)

\* Variants: a full batch waits for the timer; the timer is not started; a single
\* request is written ahead of the batch.
ReceiveWithoutLimit ==
  /\ loop = "select" /\ batchChan # <<>> /\ ~single[Head(batchChan)]
  /\ batchChan' = Tail(batchChan)
  /\ batch' = Append(batch, Head(batchChan)) /\ timer' = TRUE
  /\ UNCHANGED <<callers, closed, loop, current, snapMu, loops, closer>>

ReceiveWithoutTimer ==
  /\ loop = "select" /\ batchChan # <<>> /\ ~single[Head(batchChan)]
  /\ batchChan' = Tail(batchChan)
  /\ batch' = Append(batch, Head(batchChan))
  /\ loop' = IF Len(batch') >= MaxBatch THEN "batch" ELSE "select"
  /\ UNCHANGED <<callers, closed, timer, current, snapMu, loops, closer>>

ReceiveSingleFirst ==
  /\ loop = "select" /\ batchChan # <<>>
  /\ batchChan' = Tail(batchChan)
  /\ IF single[Head(batchChan)]
     THEN current' = <<Head(batchChan)>> /\ loop' = "single" /\ UNCHANGED <<batch, timer>>
     ELSE batch' = Append(batch, Head(batchChan)) /\ timer' = TRUE /\ UNCHANGED <<loop, current>>
  /\ UNCHANGED <<callers, closed, snapMu, loops, closer>>

\* The select takes a request: a single one has the pending batch written first,
\* another joins the batch, which is written when it is full.
Receive ==
  /\ loop = "select" /\ batchChan # <<>>
  /\ batchChan' = Tail(batchChan)
  /\ LET c == Head(batchChan) IN
       IF single[c]
       THEN /\ current' = <<c>>
            /\ loop' = IF batch = <<>> THEN "single" ELSE "batch"
            /\ UNCHANGED <<batch, timer>>
       ELSE /\ batch' = Append(batch, c)
            /\ timer' = TRUE
            /\ loop' = IF Len(batch') >= MaxBatch THEN "batch" ELSE "select"
            /\ UNCHANGED current
  /\ UNCHANGED <<callers, closed, snapMu, loops, closer>>

TimerFires ==
  /\ loop = "select" /\ timer
  /\ loop' = IF batch = <<>> THEN "select" ELSE "batch"
  /\ timer' = FALSE
  /\ UNCHANGED <<callers, batchChan, closed, batch, current, snapMu, loops, closer>>

\* Variant: the loop ends when it sees the channel empty while Close is under way.
ReceiveStopped ==
  /\ loop = "select" /\ batchChan = <<>> /\ closer # "open"
  /\ loop' = IF batch = <<>> THEN "exit" ELSE "batch"
  /\ UNCHANGED <<callers, batchChan, closed, batch, current, timer, snapMu, loops, closer>>

\* The channel is closed and empty: the rest is written, then the loop ends.
ReceiveClosed ==
  /\ loop = "select" /\ batchChan = <<>> /\ closed
  /\ loop' = IF batch = <<>> THEN "exit" ELSE "batch"
  /\ UNCHANGED <<callers, batchChan, closed, batch, current, timer, snapMu, loops, closer>>

\* writeBatch and writeSingle take snapMu, ...
LockForWrite ==
  /\ loop \in {"batch", "single"} /\ snapMu = Nobody
  /\ snapMu' = "loop"
  /\ UNCHANGED <<callers, batchChan, closed, writer, loops, closer>>

\* Variant: the written batch is not dropped.
WriteBatchKept ==
  /\ loop = "batch" /\ snapMu = "loop"
  /\ snapMu' = Nobody
  /\ answered' = [c \in Caller |-> answered[c] \/ c \in Range(batch)]
  /\ timer' = FALSE
  /\ loop' = IF current # <<>> THEN "single" ELSE "select"
  /\ UNCHANGED <<pc, single, batchChan, closed, batch, current, loops, closer>>

\* ... write, release it and answer every request; errChan holds one answer, so
\* answering never blocks.
WriteBatch ==
  /\ loop = "batch" /\ snapMu = "loop"
  /\ snapMu' = Nobody
  /\ answered' = [c \in Caller |-> answered[c] \/ c \in Range(batch)]
  /\ batch' = <<>> /\ timer' = FALSE
  /\ loop' = IF current # <<>> THEN "single" ELSE "select"
  /\ UNCHANGED <<pc, single, batchChan, closed, current, loops, closer>>

WriteSingle ==
  /\ loop = "single" /\ snapMu = "loop"
  /\ snapMu' = Nobody
  /\ answered' = [answered EXCEPT ![current[1]] = TRUE]
  /\ current' = <<>> /\ loop' = "select"
  /\ UNCHANGED <<pc, single, batchChan, closed, batch, timer, loops, closer>>

\* close(s.batchDone)
Exit ==
  /\ loop = "exit" /\ loop' = "gone"
  /\ UNCHANGED <<callers, batchChan, closed, batch, current, timer, snapMu, loops, closer>>

(***************************************************************************)
(* snapshotLoop, expireLoop and the other sections under snapMu            *)
(***************************************************************************)
Stopping == closer # "open"

\* The ticker fires and the log is over snapshotThreshold.
CompactIfNeeded ==
  /\ snapLoop = "select" /\ snapLoop' = "compact"
  /\ UNCHANGED <<callers, batchChan, closed, writer, snapMu, expLoop, closer>>

LockForCompact ==
  /\ snapLoop = "compact" /\ snapMu = Nobody
  /\ snapMu' = "snapshotLoop"
  /\ UNCHANGED <<callers, batchChan, closed, writer, loops, closer>>

\* Variant: the section ends without releasing snapMu.
CompactedStillLocked ==
  /\ snapMu = "snapshotLoop"
  /\ snapLoop' = "select"
  /\ UNCHANGED <<callers, batchChan, closed, writer, snapMu, expLoop, closer>>

Compacted ==
  /\ snapMu = "snapshotLoop"
  /\ snapMu' = Nobody /\ snapLoop' = "select"
  /\ UNCHANGED <<callers, batchChan, closed, writer, expLoop, closer>>

\* close(s.stopSnap) has happened: the loop closes snapDone and ends.
SnapshotLoopEnds ==
  /\ snapLoop = "select" /\ Stopping
  /\ snapLoop' = "gone"
  /\ UNCHANGED <<callers, batchChan, closed, writer, snapMu, expLoop, closer>>

ExpireLoopEnds ==
  /\ expLoop = "select" /\ closer \notin {"open", "stopSnap"}
  /\ expLoop' = "gone"
  /\ UNCHANGED <<callers, batchChan, closed, writer, snapMu, snapLoop, closer>>

\* Compact, SerializeSnapshot or RestoreSnapshot, called by the raft side.
LockForRaft ==
  /\ snapMu = Nobody /\ closer # "closed"
  /\ snapMu' = "raft"
  /\ UNCHANGED <<callers, batchChan, closed, writer, loops, closer>>

RaftDone ==
  /\ snapMu = "raft" /\ snapMu' = Nobody
  /\ UNCHANGED <<callers, batchChan, closed, writer, loops, closer>>

(***************************************************************************)
(* Close: one step per wait                                                *)
(***************************************************************************)
Close ==
  /\ closer = "open" /\ closer' = "stopSnap"
  /\ UNCHANGED <<callers, batchChan, closed, writer, snapMu, loops>>

\* <-s.snapDone, then close(s.stopExp)
CloseStopsExpiry ==
  /\ closer = "stopSnap" /\ snapLoop = "gone" /\ closer' = "stopExp"
  /\ UNCHANGED <<callers, batchChan, closed, writer, snapMu, loops>>

\* <-s.expDone, then closeMu.Lock() waits for the readers and keeps new ones out.
CloseWantsLock ==
  /\ closer = "stopExp" /\ expLoop = "gone" /\ closer' = "lock"
  /\ UNCHANGED <<callers, batchChan, closed, writer, snapMu, loops>>

\* Variant: the channel is closed without waiting for the callers inside submit.
CloseChannelUnlocked ==
  /\ closer = "lock"
  /\ closed' = TRUE /\ closer' = "drain"
  /\ UNCHANGED <<callers, batchChan, writer, snapMu, loops>>

\* Holding closeMu: s.closed = true, close(s.batchChan), unlock.
CloseChannel ==
  /\ closer = "lock" /\ Readers = {}
  /\ closed' = TRUE /\ closer' = "drain"
  /\ UNCHANGED <<callers, batchChan, writer, snapMu, loops>>

\* <-s.batchDone, then compact takes snapMu ...
CloseCompacts ==
  /\ closer = "drain" /\ loop = "gone" /\ snapMu = Nobody
  /\ snapMu' = "close" /\ closer' = "compact"
  /\ UNCHANGED <<callers, batchChan, closed, writer, loops>>

\* ... and the log file is closed.
CloseReturns ==
  /\ closer = "compact"
  /\ snapMu' = Nobody /\ closer' = "closed"
  /\ UNCHANGED <<callers, batchChan, closed, writer, loops>>

(***************************************************************************)
(* Specification                                                           *)
(***************************************************************************)
CallerStep(c) == (\E s \in BOOLEAN : Submit(c, s)) \/ Send(c) \/ Return(c)

LoopStep ==
  Receive \/ TimerFires \/ ReceiveClosed \/ LockForWrite \/ WriteBatch \/ WriteSingle \/ Exit

BackgroundStep ==
  \/ CompactIfNeeded \/ LockForCompact \/ Compacted \/ SnapshotLoopEnds
  \/ ExpireLoopEnds \/ LockForRaft \/ RaftDone

CloseStep ==
  \/ Close \/ CloseStopsExpiry \/ CloseWantsLock \/ CloseChannel
  \/ CloseCompacts \/ CloseReturns

Next ==
  \/ \E c \in Caller : CallerStep(c)
  \/ SubmitClosed \/ LoopStep \/ BackgroundStep \/ CloseStep

Spec == Init /\ [][Next]_vars

\* Goroutines that can run do run.  A sender blocked on a full channel and a
\* goroutine waiting for snapMu are queued by the Go runtime in order of arrival,
\* and a select among ready cases picks each of them again and again.  Nobody has
\* to submit, compact or call Close.
Fairness ==
  /\ \A c \in Caller : SF_vars(Send(c)) /\ WF_vars(Return(c))
  /\ WF_vars(Receive) /\ WF_vars(TimerFires) /\ WF_vars(ReceiveClosed)
  /\ SF_vars(LockForWrite) /\ WF_vars(WriteBatch) /\ WF_vars(WriteSingle) /\ WF_vars(Exit)
  /\ SF_vars(LockForCompact) /\ WF_vars(Compacted) /\ SF_vars(SnapshotLoopEnds)
  /\ WF_vars(ExpireLoopEnds) /\ WF_vars(RaftDone)
  /\ WF_vars(CloseStopsExpiry) /\ WF_vars(CloseWantsLock) /\ WF_vars(CloseChannel)
  /\ SF_vars(CloseCompacts) /\ WF_vars(CloseReturns)

FairSpec == Spec /\ Fairness

(***************************************************************************)
(* Properties                                                              *)
(***************************************************************************)

\* The channel, the batch and the mutex keep their shapes; the batch stays within
\* maxBatchSize and the channel within its capacity.
TypeOK ==
  /\ pc \in [Caller -> {"out", "sending", "waiting"}]
  /\ {single, answered} \subseteq [Caller -> BOOLEAN]
  /\ batchChan \in Seq(Caller) /\ Len(batchChan) <= ChanCap
  /\ batch \in Seq(Caller) /\ Len(batch) <= MaxBatch
  /\ current \in Seq(Caller) /\ Len(current) <= 1
  /\ loop \in {"select", "batch", "single", "exit", "gone"}
  /\ {closed, timer} \subseteq BOOLEAN
  /\ snapMu \in {Nobody, "loop", "snapshotLoop", "raft", "close"}
  /\ snapLoop \in {"select", "compact", "gone"} /\ expLoop \in {"select", "gone"}
  /\ closer \in {"open", "stopSnap", "stopExp", "lock", "drain", "compact", "closed"}

\* Nobody sends on batchChan after Close closed it, which would panic: a caller
\* that passed the check of s.closed still holds closeMu for reading.
NoSendOnClosedChannel == closed => \A c \in Caller : pc[c] # "sending"

\* The channel, the batch and the request in hand are one queue to the callers.
Status(c) ==
  IF pc[c] = "out" THEN "idle"
  ELSE IF pc[c] = "sending" THEN "asked"
  ELSE IF answered[c] THEN "written" ELSE "queued"

Accepted == batch \o current \o batchChan

Queue == INSTANCE WriteQueue
           WITH status <- [c \in Caller |-> Status(c)], queue <- Accepted, stopped <- closed

\* submit, batchLoop and Close implement the write queue: a request that was sent
\* is neither lost nor written twice, batches and single writes take effect in
\* the order in which the channel took the requests, a caller returns only after
\* its own request was written, and Close stops the store with nobody inside.
WritesInOrder == Queue!Spec

\* Incr, CAS and Expire are written with an empty batch, so that they see every
\* write that batchLoop received before them.
SinglesSeeTheBatch == loop = "single" => batch = <<>>

\* When batchLoop has ended there is nothing left that it should have answered.
NothingLeftBehind == loop \in {"exit", "gone"} => batchChan = <<>> /\ Readers = {}

\* Every call of submit returns, also when Close is called meanwhile.
CallsReturn == \A c \in Caller : pc[c] # "out" ~> pc[c] = "out"

\* Close returns, whatever the callers and the background loops were doing.
CloseFinishes == closer = "stopSnap" ~> closer = "closed"
=============================================================================
