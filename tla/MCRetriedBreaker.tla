-------------------------- MODULE MCRetriedBreaker --------------------------
(***************************************************************************)
(* RetriedBreaker with three clients of two attempts each, a threshold two  *)
(* of them can reach while the third is still in flight, and a wait.        *)
(***************************************************************************)
EXTENDS RetriedBreaker
=============================================================================
