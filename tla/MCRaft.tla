-------------------------------- MODULE MCRaft --------------------------------
(***************************************************************************)
(* Small instances of the raft cluster for TLC.                            *)
(***************************************************************************)
EXTENDS RaftSafety, TLC

Symmetry == Permutations(Node) \cup Permutations(Command)
=============================================================================
