---------------------------- MODULE MCHealthProbe ----------------------------
(***************************************************************************)
(* HealthProbe with two requests and one connection more, so that one is    *)
(* forgotten while both are probing, and no Timeout configured.             *)
(***************************************************************************)
EXTENDS HealthProbe
=============================================================================
