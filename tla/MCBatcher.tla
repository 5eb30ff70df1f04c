----------------------------- MODULE MCBatcher -----------------------------
(***************************************************************************)
(* The instance of Batcher for TLC.  The callers are alike, but no symmetry *)
(* is declared: the run checks liveness.                                   *)
(***************************************************************************)
EXTENDS Batcher
=============================================================================
