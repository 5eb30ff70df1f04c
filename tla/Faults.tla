------------------------------- MODULE Faults -------------------------------
(***************************************************************************)
(* The fault model of the chaos harness (pkg/chaos/faults.go): the shared  *)
(* FaultConfig that every fault transport and fault store consults, and    *)
(* the setters that applying and clearing a fault calls.                   *)
(*                                                                         *)
(* A rate is positive or zero, so it is a truth value here, and a draw of  *)
(* the seeded generator is a choice.  FaultConfig.isolated is never set by *)
(* the harness and is left out.                                            *)
(***************************************************************************)
EXTENDS Integers, Sequences, FiniteSets, Functions

CONSTANTS
  Ids,       \* c.ids, the nodes in the order they were created
  Whole,     \* the empty target of a fault: the whole cluster
  Delays,    \* the latencies that faults may add
  Jitter     \* the least range of the latency of a reordered message

ASSUME FaultsAssumption ==
  /\ Ids \in Seq(Range(Ids)) /\ Ids # <<>> /\ IsInjective(Ids) /\ Whole \notin Range(Ids)
  /\ Delays \subseteq Nat \ {0} /\ Jitter \in Nat \ {0, 1}

Node == Range(Ids)

Edge == Node \X Node

FaultConfig ==
  [edgeDrop : SUBSET Edge, loss : BOOLEAN, dup : BOOLEAN, reorder : BOOLEAN,
   delayMin : Delays \cup {0}, delayMax : Delays \cup {0}, skew : [Node -> Delays \cup {0}],
   failFsync : SUBSET (Node \cup {Whole})]

NewFaultConfig ==
  [edgeDrop |-> {}, loss |-> FALSE, dup |-> FALSE, reorder |-> FALSE,
   delayMin |-> 0, delayMax |-> 0, skew |-> [n \in Node |-> 0], failFsync |-> {}]

(***************************************************************************)
(* What a message meets                                                    *)
(***************************************************************************)
MayDrop(cfg, from, to) == <<from, to>> \in cfg.edgeDrop \/ cfg.loss

\* How long a message that is not dropped may take.
Latencies(cfg, from) ==
  {latency + cfg.skew[from] + jitter :
     latency \in IF cfg.delayMax > cfg.delayMin THEN cfg.delayMin..(cfg.delayMax - 1)
                 ELSE {cfg.delayMin},
     jitter \in IF cfg.reorder THEN 0..((IF cfg.delayMax > Jitter THEN cfg.delayMax ELSE Jitter) - 1)
               ELSE {0}}

FsyncFails(cfg, n) == cfg.failFsync \cap {Whole, n} # {}

(***************************************************************************)
(* The setters                                                             *)
(***************************************************************************)

\* Variant: only one direction of each edge is cut.
SetPartitionOneWay(cfg, side) ==
  [cfg EXCEPT !.edgeDrop = @ \cup {e \in Edge : e[1] \in side /\ e[2] \notin side}]

\* Every edge between the side and the others, in both directions.
SetPartition(cfg, side) ==
  [cfg EXCEPT !.edgeDrop = @ \cup {e \in Edge : (e[1] \in side) # (e[2] \in side)}]

ClearPartition(cfg) == [cfg EXCEPT !.edgeDrop = {}]

SetReorder(cfg, on, jitter) ==
  [cfg EXCEPT !.reorder = on, !.delayMax = IF jitter > 0 THEN jitter ELSE @]

SetDelay(cfg, d) == [cfg EXCEPT !.delayMin = d, !.delayMax = d]

(***************************************************************************)
(* Faults: [kind, target, peer, at, for, delay]                            *)
(***************************************************************************)
Kinds == {"crash", "leader isolation", "minority", "majority", "asymmetric", "loss", "dup",
          "reorder", "delay", "skew", "fsync"}

\* Crashes, skews and one-way cuts name nodes of the cluster.
Fault ==
  {f \in [kind : Kinds, target : Node \cup {Whole}, peer : Node \cup {Whole}, at : Nat, for : Nat,
          delay : Delays \cup {0}] :
     /\ f.kind \in {"crash", "skew", "asymmetric"} => f.target \in Node
     /\ f.kind = "asymmetric" => f.peer \in Node}

FirstIds(n) == Range(SubSeq(Ids, 1, n))

Minority == FirstIds(Len(Ids) \div 2)
Majority == FirstIds((Len(Ids) + 1) \div 2)

\* What applyFault makes of the configuration; leader is c.leaderID(), or Whole when
\* there is none.  A crash is the cluster's business.
ApplyToConfig(cfg, f, leader) ==
  CASE f.kind = "leader isolation" -> IF leader = Whole THEN cfg ELSE SetPartition(cfg, {leader})
    [] f.kind = "minority"   -> SetPartition(cfg, Minority)
    [] f.kind = "majority"   -> SetPartition(cfg, Majority)
    [] f.kind = "asymmetric" -> [cfg EXCEPT !.edgeDrop = @ \cup {<<f.target, f.peer>>}]
    [] f.kind = "loss"       -> [cfg EXCEPT !.loss = TRUE]
    [] f.kind = "dup"        -> [cfg EXCEPT !.dup = TRUE]
    [] f.kind = "reorder"    -> SetReorder(cfg, TRUE, f.delay)
    [] f.kind = "delay"      -> SetDelay(cfg, f.delay)
    [] f.kind = "skew"       -> [cfg EXCEPT !.skew[f.target] = f.delay]
    [] f.kind = "fsync"      -> [cfg EXCEPT !.failFsync = @ \cup {f.target}]
    [] OTHER                 -> cfg

ClearFromConfig(cfg, f) ==
  CASE f.kind \in {"leader isolation", "minority", "majority"} -> ClearPartition(cfg)
    [] f.kind = "asymmetric" -> [cfg EXCEPT !.edgeDrop = @ \ {<<f.target, f.peer>>}]
    [] f.kind = "loss"       -> [cfg EXCEPT !.loss = FALSE]
    [] f.kind = "dup"        -> [cfg EXCEPT !.dup = FALSE]
    [] f.kind = "reorder"    -> SetReorder(cfg, FALSE, 0)
    [] f.kind = "delay"      -> SetDelay(cfg, 0)
    [] f.kind = "skew"       -> [cfg EXCEPT !.skew[f.target] = 0]
    [] f.kind = "fsync"      -> [cfg EXCEPT !.failFsync = @ \ {f.target}]
    [] OTHER                 -> cfg

Severed(cfg, side) ==
  \A a \in side, b \in Node \ side : MayDrop(cfg, a, b) /\ MayDrop(cfg, b, a)

\* What the fault is to bring about is the case.
InForce(cfg, started, f) ==
  CASE f.kind = "crash"      -> f.target \notin started
    [] f.kind = "minority"   -> Severed(cfg, Minority)
    [] f.kind = "majority"   -> Severed(cfg, Majority)
    [] f.kind = "asymmetric" -> MayDrop(cfg, f.target, f.peer)
    [] f.kind = "loss"       -> \A e \in Edge : MayDrop(cfg, e[1], e[2])
    [] f.kind = "dup"        -> cfg.dup
    [] f.kind = "reorder"    -> \A n \in Node : Cardinality(Latencies(cfg, n)) > 1
    [] f.kind = "delay"      -> \A n \in Node : \A l \in Latencies(cfg, n) : l >= f.delay
    [] f.kind = "skew"       -> \A l \in Latencies(cfg, f.target) : l >= f.delay
    [] f.kind = "fsync"      -> \A n \in Node : f.target \in {n, Whole} => FsyncFails(cfg, n)
    [] OTHER                 -> TRUE

\* The part of the harness that a fault takes hold of.
Hold(f) ==
  CASE f.kind \in {"leader isolation", "minority", "majority", "asymmetric"} -> <<"edges">>
    [] f.kind \in {"crash", "skew", "fsync"} -> <<f.kind, f.target>>
    [] OTHER -> <<f.kind>>
=============================================================================
