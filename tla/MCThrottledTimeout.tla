------------------------- MODULE MCThrottledTimeout -------------------------
(***************************************************************************)
(* Instances of ThrottledTimeout for TLC.                                   *)
(***************************************************************************)
EXTENDS ThrottledTimeout, TLC

=============================================================================
