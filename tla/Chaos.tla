------------------------------- MODULE Chaos -------------------------------
(***************************************************************************)
(* The chaos harness of pkg/chaos: Run applies and clears the faults of a  *)
(* schedule while RunWorkload writes versions of one key through a leader, *)
(* reads them back from any node and records both in a history, on which   *)
(* the durability and linearizability oracles pass judgement.              *)
(*                                                                         *)
(* The cluster under test is abstract (Raft and RaftApply are about it): a *)
(* proposed write is committed or never is, writes are committed in the    *)
(* order they were proposed, and each running node applies the committed   *)
(* ones in order.  Partitions, losses and delays only hold these steps     *)
(* back, which they may be anyhow.                                         *)
(***************************************************************************)
EXTENDS Faults, History

CONSTANTS
  Plans,      \* [faults, writes]: what Run is called with, and a bound on the
              \* writes of the workload meanwhile
  Total       \* how long Run injects faults

ASSUME ChaosAssumption ==
  Total \in Nat /\ \A p \in Plans : p.faults \subseteq Fault /\ p.writes \in Nat \ {0}

VARIABLES
  plan, due,       \* the faults, and their events that are not yet processed
  applied,         \* the faults in force, as Run keeps account of them
  elapsed,         \* time.Since(start) as Run last read it
  runner,          \* "run", then "clear" until every fault is, then "done"
  started, cfg,    \* the running nodes and the fault configuration
  work,            \* RunWorkload: [pc, seq]
  poll,            \* waitMajorityValue: the nodes it still has to ask in this round,
                   \* and those that had the value when it asked them
  hist,            \* c.hist.ops
  log, pending,    \* versions that are committed, and that may still be
  at, value,       \* of each node: the last index it applied, the version it stores
  replayed         \* the nodes that a restart has put back behind their store

harness == <<plan, due, applied, elapsed, runner, started, cfg>>
cluster == <<log, pending, at, value>>
vars    == <<harness, cluster, work, poll, hist, replayed>>

Event(f, apply) == [f |-> f, apply |-> apply, at |-> IF apply THEN f.at ELSE f.at + f.for]

\* Operations follow one another, so their times are their places in the history.
Op(kind, seq, reader, acked, i) ==
  [kind |-> kind, seq |-> seq, reader |-> reader, acked |-> acked,
   start |-> 2 * i - 1, end |-> 2 * i]

NoRound == [left |-> {}, found |-> {}]

\* The schedules begin when the workload has been running for a while: here after its
\* first write.
Init ==
  /\ plan \in Plans
  /\ due = {Event(f, apply) : f \in plan.faults, apply \in BOOLEAN}
  /\ applied = {} /\ elapsed = 0 /\ runner = "run"
  /\ started = Node /\ cfg = NewFaultConfig
  /\ work = [pc |-> "tick", seq |-> 1] /\ poll = NoRound
  /\ hist = <<Op("write", 1, Whole, TRUE, 1), Op("read", 1, Head(Ids), TRUE, 2)>>
  /\ log = <<1>> /\ pending = {}
  /\ at = [n \in Node |-> 1] /\ value = [n \in Node |-> 1] /\ replayed = {}

(***************************************************************************)
(* Start and Stop                                                          *)
(***************************************************************************)

\* The store has kept what was applied.  The log is applied again from where it was
\* compacted, which may be any index up to the one that was reached.
Start(n) ==
  IF n \in started THEN UNCHANGED <<started, at, replayed>>
  ELSE /\ started' = started \cup {n}
       /\ \E base \in 0..at[n] :
            /\ at' = [at EXCEPT ![n] = base]
            /\ replayed' = IF base < at[n] THEN replayed \cup {n} ELSE replayed

ApplyFault(f) ==
  /\ \E leader \in started \cup {Whole} : cfg' = ApplyToConfig(cfg, f, leader)
  /\ started' = IF f.kind = "crash" THEN started \ {f.target} ELSE started
  /\ applied' = applied \cup {f}
  /\ UNCHANGED <<at, replayed>>

ClearFault(f) ==
  /\ cfg' = ClearFromConfig(cfg, f)
  /\ IF f.kind = "crash" THEN Start(f.target) ELSE UNCHANGED <<started, at, replayed>>
  /\ applied' = applied \ {f}

(***************************************************************************)
(* Run                                                                     *)
(***************************************************************************)
Arrived == {e \in due : e.at <= elapsed}

\* sort.Slice leaves events of the same time in any order.
ProcessEvent(e) ==
  /\ runner = "run" /\ elapsed < Total
  /\ e \in Arrived /\ \A d \in Arrived : e.at <= d.at
  /\ IF e.apply THEN ApplyFault(e.f) ELSE ClearFault(e.f)
  /\ due' = due \ {e}
  /\ UNCHANGED <<plan, elapsed, runner, log, pending, value, work, poll, hist>>

\* The runner sleeps and looks at the clock again.
LookAtClock(t) ==
  /\ runner = "run" /\ elapsed < Total /\ Arrived = {} /\ t > elapsed
  /\ elapsed' = t
  /\ UNCHANGED <<plan, due, applied, runner, started, cfg, cluster, work, poll, hist, replayed>>

TimeIsUp ==
  /\ runner = "run" /\ elapsed >= Total
  /\ runner' = "clear"
  /\ UNCHANGED <<plan, due, applied, elapsed, started, cfg, cluster, work, poll, hist, replayed>>

ClearLeftover(f) ==
  /\ runner = "clear" /\ f \in applied
  /\ ClearFault(f)
  /\ UNCHANGED <<plan, due, elapsed, runner, log, pending, value, work, poll, hist>>

\* Variant: a crash that outlasts the run is not made good.
RunEndsEarly ==
  /\ runner = "clear" /\ \A f \in applied : f.kind = "crash"
  /\ runner' = "done"
  /\ UNCHANGED <<plan, due, applied, elapsed, started, cfg, cluster, work, poll, hist, replayed>>

RunEnds ==
  /\ runner = "clear" /\ applied = {}
  /\ runner' = "done"
  /\ UNCHANGED <<plan, due, applied, elapsed, started, cfg, cluster, work, poll, hist, replayed>>

(***************************************************************************)
(* RunWorkload                                                             *)
(***************************************************************************)

Record(kind, seq, reader, acked) ==
  hist' = Append(hist, Op(kind, seq, reader, acked, Len(hist) + 1))

\* The write enters the leader's log.
Put ==
  /\ work.pc = "tick" /\ work.seq < plan.writes /\ started # {}
  /\ work' = [pc |-> "wait", seq |-> work.seq + 1]
  /\ pending' = pending \cup {work.seq + 1}
  /\ UNCHANGED <<harness, log, at, value, poll, hist, replayed>>

\* The node no longer leads and has not taken the entry, which is then never
\* committed; or it has and cannot save it, and the entry may be committed yet.
PutFails ==
  /\ work.pc = "tick" /\ work.seq < plan.writes /\ started # {}
  /\ work' = [work EXCEPT !.seq = @ + 1]
  /\ pending' = pending \cup {work.seq + 1}
  /\ UNCHANGED <<harness, log, at, value, poll, hist, replayed>>

\* In one round a quorum of the full membership had the value.
MajorityValue == poll.left = {} /\ 2 * Cardinality(poll.found) > Len(Ids)

\* waitMajorityValue asks the nodes that run when a round begins, one after the other,
\* while they apply, stop (what a stopped one stored is read all the same) and restart.
BeginRound ==
  /\ work.pc = "wait" /\ poll.left = {} /\ ~MajorityValue
  /\ poll' = [left |-> started, found |-> {}]
  /\ UNCHANGED <<harness, cluster, work, hist, replayed>>

Ask(n) ==
  /\ work.pc = "wait" /\ n \in poll.left
  /\ poll' = [left |-> poll.left \ {n},
              found |-> IF value[n] = work.seq THEN poll.found \cup {n} ELSE poll.found]
  /\ UNCHANGED <<harness, cluster, work, hist, replayed>>

WriteAcked ==
  /\ work.pc = "wait" /\ MajorityValue
  /\ Record("write", work.seq, Whole, TRUE)
  /\ work' = [work EXCEPT !.pc = "read"] /\ poll' = NoRound
  /\ UNCHANGED <<harness, cluster, replayed>>

\* Variant: the time-out is taken for an answer.
WriteTimesOutAcked ==
  /\ work.pc = "wait" /\ poll.left = {} /\ ~MajorityValue
  /\ Record("write", work.seq, Whole, TRUE)
  /\ work' = [work EXCEPT !.pc = "read"] /\ poll' = NoRound
  /\ UNCHANGED <<harness, cluster, replayed>>

\* The deadline is looked at between two rounds.
WriteTimesOut ==
  /\ work.pc = "wait" /\ poll.left = {} /\ ~MajorityValue
  /\ Record("write", work.seq, Whole, FALSE)
  /\ work' = [work EXCEPT !.pc = "read"] /\ poll' = NoRound
  /\ UNCHANGED <<harness, cluster, replayed>>

\* Variant: the read is put down to the first node, whoever served it.
ReadOnFirst ==
  /\ work.pc = "read"
  /\ \E n \in started : Record("read", value[n], Head(Ids), value[n] # 0)
  /\ work' = [work EXCEPT !.pc = "tick"]
  /\ UNCHANGED <<harness, cluster, poll, replayed>>

Read ==
  /\ work.pc = "read"
  /\ IF started = {} THEN hist' = hist
     ELSE \E n \in started : Record("read", value[n], n, value[n] # 0)
  /\ work' = [work EXCEPT !.pc = "tick"]
  /\ UNCHANGED <<harness, cluster, poll, replayed>>

WorkloadEnds ==
  /\ work.pc = "tick" /\ runner = "done"
  /\ work' = [work EXCEPT !.pc = "over"]
  /\ UNCHANGED <<harness, cluster, poll, hist, replayed>>

(***************************************************************************)
(* The cluster under test                                                  *)
(***************************************************************************)

\* An entry that a later one has overtaken is lost.
Commit(s) ==
  /\ s \in pending
  /\ log' = Append(log, s) /\ pending' = {p \in pending : p > s}
  /\ UNCHANGED <<harness, at, value, work, poll, hist, replayed>>

ApplyNext(n) ==
  /\ n \in started /\ at[n] < Len(log)
  /\ at' = [at EXCEPT ![n] = @ + 1] /\ value' = [value EXCEPT ![n] = log[at[n] + 1]]
  /\ UNCHANGED <<harness, log, pending, work, poll, hist, replayed>>

Next ==
  \/ \E e \in due : ProcessEvent(e)
  \/ \E t \in 1..Total : LookAtClock(t)
  \/ TimeIsUp \/ RunEnds \/ \E f \in applied : ClearLeftover(f)
  \/ Put \/ PutFails \/ BeginRound \/ WriteAcked \/ WriteTimesOut \/ Read \/ WorkloadEnds
  \/ \E n \in Node : Ask(n)
  \/ \E s \in pending : Commit(s)
  \/ \E n \in Node : ApplyNext(n)

Spec == Init /\ [][Next]_vars

(***************************************************************************)
(* Properties                                                              *)
(***************************************************************************)

\* Every variable keeps its shape while faults come and go.
TypeOK ==
  /\ cfg \in FaultConfig /\ started \subseteq Node /\ applied \subseteq plan.faults
  /\ work.pc \in {"tick", "wait", "read", "over"} /\ work.seq \in 0..plan.writes
  /\ poll.left \cup poll.found \subseteq Node
  /\ at \in [Node -> 0..Len(log)] /\ value \in [Node -> 0..plan.writes]
  /\ Range(log) \cup pending \subseteq 1..plan.writes /\ Len(hist) <= 2 * plan.writes

\* When Run returns every node runs and no message is dropped or doubled and no
\* fsync fails, whatever the schedule, however its faults overlap and at whatever
\* moment the time was up ("then clears every fault", cluster.go:339).
HealedInTheEnd ==
  runner = "done" =>
    /\ started = Node /\ ~cfg.dup
    /\ \A a, b \in Node : ~MayDrop(cfg, a, b) /\ ~FsyncFails(cfg, a)

\* The same of delays: no message takes any time.
PromptInTheEnd == runner = "done" => \A n \in Node : Latencies(cfg, n) = {0}

\* A fault that Run has applied and not cleared is in force, in a schedule of faults
\* that take hold of different things.
FaultsStayInForce ==
  (\A f, g \in plan.faults : f # g => Hold(f) # Hold(g)) =>
    \A f \in applied : InForce(cfg, started, f)

\* The same of every schedule.
OverlapsStayInForce == \A f \in applied : InForce(cfg, started, f)

\* When every running node has caught up with the log, it has every write that was
\* recorded as acknowledged, or a later one: the durability oracle reports nothing.
DurabilityHolds ==
  (\A n \in started : at[n] = Len(log)) =>
    \A i \in DOMAIN hist : hist[i].kind = "write" /\ hist[i].acked =>
      \A n \in started : value[n] >= hist[i].seq

\* The linearizability oracle reports nothing, although followers serve old versions
\* and unrecorded writes are read, unless a restart has put a node back.
HistoryPasses == replayed = {} => Check(hist) = {}

\* The same of every run: "each node's state machine only moves forward".
HistoryAlwaysPasses == Check(hist) = {}
=============================================================================
