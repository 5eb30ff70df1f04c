------------------------------ MODULE MCChaos ------------------------------
(***************************************************************************)
(* Instances of Chaos for TLC: three nodes, schedules of one or two        *)
(* faults, and the history checker on every short history.                 *)
(***************************************************************************)
EXTENDS Chaos, SequencesExt

CONSTANTS n0, n1, n2

ThreeIds == <<n0, n1, n2>>

F(kind, target, at0, for) ==
  [kind |-> kind, target |-> target, peer |-> n2, at |-> at0, for |-> for, delay |-> 2]

\* Faults of every kind: faults that share the edges or the delay, one without
\* duration and some that outlast the run.
Mixes ==
  {{F("minority", Whole, 0, 2), F("asymmetric", n1, 0, 1)},
   {F("majority", Whole, 1, 3), F("loss", Whole, 0, 1)},
   {F("leader isolation", Whole, 0, 1), F("dup", Whole, 1, 0)},
   {F("reorder", Whole, 0, 1), F("delay", Whole, 1, 3)},
   {F("skew", n1, 0, 1), F("delay", Whole, 0, 1)},
   {F("crash", n0, 0, 3), F("fsync", Whole, 0, 1)},
   {F("crash", n1, 0, 2), F("crash", n1, 1, 0)},
   {F("loss", Whole, 0, 2), F("crash", n1, 0, 3), F("leader isolation", Whole, 1, 0),
    F("delay", Whole, 1, 1)}}

\* One write more during each mix, and two while a node crashes and comes back.
Planned ==
  [faults : Mixes, writes : {2}]
    \cup {[faults |-> {F("crash", n1, 0, 1)}, writes |-> 3]}

\* The checker objects to what its comment says, on every history of up to three
\* operations over two versions and two readers.
Operations ==
  [kind : {"write"}, seq : 1..2, reader : {Whole}, start : 0..2, end : {3}]
    \cup [kind : {"read"}, seq : 0..2, reader : {n0, n1}, start : {1}, end : {0, 2}]

ASSUME CheckIsObjectionable ==
  \A ops \in BoundedSeq(Operations, 3) : Check(ops) = Objectionable(ops)
=============================================================================
