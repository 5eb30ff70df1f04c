-------------------------------- MODULE Api --------------------------------
(***************************************************************************)
(* The HTTP API in front of a raft cluster: clients send a request to a    *)
(* server and follow its redirects (pkg/client, pkg/api).  Reads are       *)
(* answered from the server's own store; the handler of a mutation         *)
(* proposes it (Put, Delete, Incr, CAS, Expire of raft.Node), and a server *)
(* that does not lead answers 307 to the leader it knows of, or 503.       *)
(*                                                                         *)
(* Consensus is what the Raft and RaftApply modules are about.  Here a     *)
(* server may be found in any role, with any other server as its leader,   *)
(* by every proposal; an appended entry is committed or lost, and          *)
(* committed entries are applied in order, at any later time; the stores   *)
(* of the servers, which apply the same entries, are one.                  *)
(***************************************************************************)
EXTENDS Engines

CONSTANTS
  Server,   \* the nodes of the cluster
  Request,  \* what the callers ask for; Expire with a time to live
  Initial,  \* what earlier writes may have left in the store
  None,     \* no server
  MaxHops,  \* how many redirects a client follows
  MaxCalls  \* bound on the calls of a client

\* No route clears the store, which holds finitely many keys at first.
ASSUME ApiAssumption ==
  /\ {MaxHops, MaxCalls} \subseteq Nat /\ None \notin Server
  /\ Request \subseteq ({"get"} \X Key) \cup ({"expire"} \X Key \X Int) \cup (Mutation \ {<<"clear">>})
  /\ Initial \subseteq Data /\ \A d \in Initial : IsFiniteSet({k \in Key : d[k] # Absent})

VARIABLES
  call,       \* the present or last call of each client
  undecided,  \* the entries in a log, neither committed nor lost
  queue,      \* the entries that are committed and not yet applied
  totalKeys   \* metrics.totalKeys of each server

apiVars == <<call, undecided, queue, totalKeys>>
vars    == <<engineVars, apiVars>>

NoCall == [pc |-> "idle", n |-> 0, request |-> <<"none">>, cmd |-> <<"none">>,
           at |-> None, hops |-> 0, status |-> 0, appends |-> 0]

ApiInit ==
  /\ call = [c \in Client |-> NoCall]
  /\ undecided = {} /\ queue = <<>>
  /\ totalKeys = [s \in Server |-> 0]

\* Put and Delete return once the entry is in the leader's log; Incr, CAS and
\* Expire wait until it is applied.
Waits(cmd) == cmd[1] \in {"incr", "cas", "expire"}

\* The answer to an outcome of the engine.
StatusOf(outcome) ==
  CASE outcome[1] = "not found" -> 404
    [] outcome[1] = "mismatch"  -> 409
    [] outcome[1] = "error"     -> 422
    [] OTHER                    -> 200

\* The call r is over: what remains of it is the answer.
Answered(r, status) ==
  [NoCall EXCEPT !.pc = "answered", !.n = r.n, !.status = status, !.appends = r.appends]

\* The entry of the call r has been appended to a leader's log.
Appended(r) == [r EXCEPT !.appends = @ + 1]

(***************************************************************************)
(* A call and its handler                                                  *)
(***************************************************************************)
Call(c, s, request) ==
  /\ call[c].pc \in {"idle", "answered"} /\ call[c].n < MaxCalls
  /\ call' = [call EXCEPT ![c] = [NoCall EXCEPT !.pc = "arrived", !.n = call[c].n + 1,
                                              !.request = request, !.at = s]]
  /\ UNCHANGED <<engines, undecided, queue, totalKeys>>

\* handleExpire accepts a positive time to live only.
BadRequest(request) == request[1] = "expire" /\ request[3] <= 0

Reject(c) ==
  /\ call[c].pc = "arrived" /\ BadRequest(call[c].request)
  /\ call' = [call EXCEPT ![c] = Answered(@, 400)]
  /\ UNCHANGED <<engines, undecided, queue, totalKeys>>

\* handleGet, handlePut and handleDelete begin with a Get.
LooksUp(request) == request[1] \in {"get", "put", "delete"}

\* handlePut counts a key it does not find, handleDelete one it finds.
Gauge(request, found) ==
  CASE request[1] = "put" /\ ~found   -> 1
    [] request[1] = "delete" /\ found -> -1
    [] OTHER                          -> 0

\* handleExpire turns the time to live into a deadline.
CommandOf(request) ==
  IF request[1] = "expire" THEN <<"expire", request[2], now + request[3]>> ELSE request

\* The Get has returned, and handleGet with it; the others count the key and go on to
\* the engine's write.
LookedUp(c, found) ==
  LET request == call[c].request
  IN  /\ call' = [call EXCEPT ![c] =
                    IF request[1] = "get" THEN Answered(@, IF found THEN 200 ELSE 404)
                    ELSE [@ EXCEPT !.pc = "write", !.cmd = CommandOf(request)]]
      /\ totalKeys' = [totalKeys EXCEPT ![call[c].at] = @ + Gauge(request, found)]
      /\ UNCHANGED <<undecided, queue>>

\* The handler starts, and its Get, where it has one, does not meet a dead key.
Start(c) ==
  LET request == call[c].request
  IN  /\ call[c].pc = "arrived" /\ ~BadRequest(request)
      /\ LooksUp(request) => ~Dead(request[2])
      /\ LookedUp(c, Live(data, request[2], now))
      /\ UNCHANGED engines

StartSeesDead(c) ==
  LET request == call[c].request
  IN  /\ call[c].pc = "arrived" /\ LooksUp(request)
      /\ GetSeesDead(c, request[2])
      /\ call' = [call EXCEPT ![c].pc = "drop"]
      /\ UNCHANGED <<undecided, queue, totalKeys>>

StartDropsDead(c) ==
  /\ call[c].pc = "drop"
  /\ GetDropsDead(c) /\ LookedUp(c, FALSE)

\* The server does not lead: propose and proposeWait return NotLeaderError, which
\* handleWriteError turns into a redirect to the leader that the server knows of.
\* The client follows it unless it has followed too many.
Redirect(c) ==
  /\ call[c].pc = "write"
  /\ \E leader \in Server \ {call[c].at} :
       call' = [call EXCEPT ![c] =
                  IF @.hops < MaxHops
                  THEN [@ EXCEPT !.pc = "arrived", !.at = leader, !.cmd = NoCall.cmd,
                                !.hops = call[c].hops + 1]
                  ELSE Answered(@, 307)]
  /\ UNCHANGED <<engines, undecided, queue, totalKeys>>

\* The server does not lead and knows of no leader.
NoLeader(c) ==
  /\ call[c].pc = "write"
  /\ call' = [call EXCEPT ![c] = Answered(@, 503)]
  /\ UNCHANGED <<engines, undecided, queue, totalKeys>>

EntryOf(c) == [client |-> c, n |-> call[c].n, cmd |-> call[c].cmd]

\* The leader appends the entry and saves its log.
Propose(c) ==
  /\ call[c].pc = "write"
  /\ undecided' = undecided \cup {EntryOf(c)}
  /\ call' = [call EXCEPT ![c] = IF Waits(@.cmd) THEN [Appended(@) EXCEPT !.pc = "wait"]
                                 ELSE Answered(Appended(@), 200)]
  /\ UNCHANGED <<engines, queue, totalKeys>>

\* Variant: a leader that cannot save sends the client to another server.
ProposeUnsavedElsewhere(c) ==
  /\ call[c].pc = "write"
  /\ undecided' = undecided \cup {EntryOf(c)}
  /\ \E s \in Server :
       call' = [call EXCEPT ![c] = [Appended(@) EXCEPT !.pc = "arrived", !.at = s]]
  /\ UNCHANGED <<engines, queue, totalKeys>>

\* The save fails: the entry stays in the log and the client gets an error.
ProposeUnsaved(c) ==
  /\ call[c].pc = "write"
  /\ undecided' = undecided \cup {EntryOf(c)}
  /\ call' = [call EXCEPT ![c] = Answered(Appended(@), 500)]
  /\ UNCHANGED <<engines, queue, totalKeys>>

(***************************************************************************)
(* The wait for the entry to be applied                                    *)
(***************************************************************************)

\* applyWaitTimeout, or the node stops.
GiveUp(c) ==
  /\ call[c].pc = "wait"
  /\ call' = [call EXCEPT ![c] = Answered(@, 500)]
  /\ UNCHANGED <<engines, undecided, queue, totalKeys>>

\* The entry was lost and another one is applied at its index: the call is answered
\* with that entry's result, or 500 when the type of the result is another one and
\* recoverPanic catches the failing conversion.
OtherEntryApplied(c) ==
  /\ call[c].pc = "wait" /\ EntryOf(c) \notin undecided \cup Range(queue)
  /\ \E status \in {200, 404, 409, 422, 500} : call' = [call EXCEPT ![c] = Answered(@, status)]
  /\ UNCHANGED <<engines, undecided, queue, totalKeys>>

(***************************************************************************)
(* The cluster: see Raft and RaftApply                                     *)
(***************************************************************************)
Commit(e) ==
  /\ e \in undecided /\ undecided' = undecided \ {e}
  /\ queue' = Append(queue, e)
  /\ UNCHANGED <<engines, call, totalKeys>>

Lose(e) ==
  /\ e \in undecided /\ undecided' = undecided \ {e}
  /\ UNCHANGED <<engines, call, queue, totalKeys>>

\* The apply loop takes the next committed entry and wakes the caller who waits.
Apply ==
  /\ queue # <<>> /\ queue' = Tail(queue)
  /\ LET e == Head(queue)
     IN  /\ Do(e.cmd)
         /\ call' = IF call[e.client].pc = "wait" /\ EntryOf(e.client) = e
                    THEN [call EXCEPT ![e.client] =
                            Answered(@, StatusOf(Outcome(data, e.cmd, now)))]
                    ELSE call
  /\ UNCHANGED <<undecided, totalKeys>>

Step ==
  \/ \E c \in Client :
       \/ \E s \in Server, r \in Request : Call(c, s, r)
       \/ Reject(c) \/ Start(c) \/ StartSeesDead(c) \/ StartDropsDead(c)
       \/ Redirect(c) \/ NoLeader(c) \/ Propose(c) \/ ProposeUnsaved(c)
       \/ GiveUp(c) \/ OtherEntryApplied(c)
  \/ Apply \/ \E e \in undecided : Commit(e) \/ Lose(e)
  \/ EnginesStep /\ UNCHANGED apiVars

Next == Step /\ Watch

Init == ApiInit /\ \E initial \in Initial : EnginesInit(initial)

Spec == Init /\ [][Next]_vars

(***************************************************************************)
(* Properties                                                              *)
(***************************************************************************)

\* Every variable keeps its shape through calls, redirects and applied entries.
TypeOK ==
  /\ data \in Data /\ fake \in Fake /\ kept \subseteq Key
  /\ {expired, deadlines, now} \subseteq Nat
  /\ dying \in [Client -> Key \cup {Absent}]
  /\ \A c \in Client : call[c].hops <= MaxHops /\ call[c].n <= MaxCalls
  /\ \A e \in undecided \cup Range(queue) : e.client \in Client /\ e.n \in 1..MaxCalls
  /\ totalKeys \in [Server -> Int]

\* However often a call is redirected and wherever leadership moves meanwhile, its
\* mutation enters at most one log, and only once; a call that is answered 307, 400
\* or 503 has entered none, so that the client may send it again.
AppendedAtMostOnce ==
  \A c \in Client :
    /\ call[c].appends <= 1
    /\ call[c].status \in {307, 400, 503} => call[c].appends = 0

\* With no call under way the gauge of a single server is the number of keys (the HELP
\* line of kvstore_keys_total).
GaugeCountsKeys ==
  (\A c \in Client : call[c].pc = "answered") /\ undecided = {} /\ queue = <<>> =>
    \A s \in Server : totalKeys[s] = Cardinality(LiveKeys(data, now))
=============================================================================
