------------------------------ MODULE MCDedupe ------------------------------
(***************************************************************************)
(* Dedupe with requests that may overlap on one key.  The requests are      *)
(* interchangeable: nothing but their own state tells them apart.           *)
(***************************************************************************)
EXTENDS Dedupe, TLC

Symmetry == Permutations(Request) \cup Permutations(Key)
=============================================================================
