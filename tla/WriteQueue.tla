---------------------------- MODULE WriteQueue ----------------------------
(***************************************************************************)
(* What the write path of the durable store promises its callers           *)
(* (storage.Engine over DiskStore): a call is accepted into one queue,     *)
(* writes take effect in the order of the queue, several at a time, a call *)
(* returns only after its write took effect, and the store stops only when *)
(* no call is inside.                                                      *)
(***************************************************************************)
EXTENDS Naturals, Sequences

CONSTANT Caller

VARIABLES
  status,   \* what has become of each caller's request
  queue,    \* the accepted requests that have not taken effect
  stopped   \* the store takes no more calls

vars == <<status, queue, stopped>>

Init ==
  /\ status = [c \in Caller |-> "idle"]
  /\ queue = <<>>
  /\ stopped = FALSE

Ask(c) ==
  /\ status[c] = "idle" /\ ~stopped
  /\ status' = [status EXCEPT ![c] = "asked"]
  /\ UNCHANGED <<queue, stopped>>

Accept(c) ==
  /\ status[c] = "asked"
  /\ status' = [status EXCEPT ![c] = "queued"]
  /\ queue' = Append(queue, c)
  /\ UNCHANGED stopped

\* The n oldest requests take effect.
Write(n) ==
  /\ status' = [c \in Caller |-> IF \E k \in 1..n : queue[k] = c THEN "written" ELSE status[c]]
  /\ queue' = SubSeq(queue, n + 1, Len(queue))
  /\ UNCHANGED stopped

Return(c) ==
  /\ status[c] = "written"
  /\ status' = [status EXCEPT ![c] = "idle"]
  /\ UNCHANGED <<queue, stopped>>

Stop ==
  /\ \A c \in Caller : status[c] = "idle"
  /\ stopped' = TRUE
  /\ UNCHANGED <<status, queue>>

Next ==
  \/ \E c \in Caller : Ask(c) \/ Accept(c) \/ Return(c)
  \/ \E n \in 1..Len(queue) : Write(n)
  \/ Stop

Spec == Init /\ [][Next]_vars
=============================================================================
