---------------------------- MODULE MCDiskStore ----------------------------
(***************************************************************************)
(* Instances of DiskStore for TLC: the commands that callers submit and    *)
(* the states that a leader ships.                                         *)
(***************************************************************************)
EXTENDS DiskStore

CONSTANTS k1, k2

OneKey  == {k1}
TwoKeys == {k1, k2}

Zero  == <<"canonical", 0>>
One   == <<"canonical", 1>>
Padded == <<"padded", 1>>
Word  == <<"word", 0>>

\* Blind writes to two keys.
Writes ==
  {<<"put", k, v>> : k \in TwoKeys, v \in {One, Word}}
    \cup {<<"delete", k1>>, <<"clear">>}

\* Blind writes and every compare-and-swap between two values of one key.
Swaps ==
  {<<"put", k1, One>>, <<"delete", k1>>}
    \cup {<<"cas", k1, old, new>> : old \in {One, Word}, new \in {One, Word}}
    \cup {<<"cas", k1, One, Zero>>}

\* Counting from every kind of value, up to MaxInt64.
Counts ==
  {<<"put", k1, v>> : v \in {Padded, Word}}
    \cup {<<"incr", k1>>, <<"incr", k2>>, <<"cas", k1, FormatInt(2), One>>, <<"clear">>}

\* Deadlines at two instants among the other writes.
Deadlines ==
  {<<"put", k1, One>>, <<"delete", k1>>, <<"cas", k1, One, Word>>}
    \cup {<<"expire", k1, at>> : at \in {2, 3}}

\* A deadline that is set and then renewed.
Renewals == {<<"put", k1, One>>, <<"expire", k1, 2>>, <<"expire", k1, 3>>}

\* A value that cannot be counted, with a deadline, and increments of it.
Miscounts == {<<"put", k1, Word>>, <<"expire", k1, 2>>, <<"incr", k1>>}

NoStates == {}

Shipped == {[k \in Key |-> IF k = k1 THEN [Value |-> Word, Exp |-> 0] ELSE Absent]}
=============================================================================
