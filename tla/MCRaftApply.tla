---------------------------- MODULE MCRaftApply ----------------------------
(***************************************************************************)
(* Instances of RaftApply for TLC: commands are told apart by their index  *)
(* and term alone.                                                         *)
(***************************************************************************)
EXTENDS RaftApply

CONSTANT cmd

OneCommand == {cmd}

\* Contents that are ahead of index 1 and exactly those of index 2.
SomeData == {<<1, 2>>}

\* LogTerm knows nothing of an entry that was compacted away.
UnknownTerm == {-1}
=============================================================================
