---------------------------- MODULE MCRateLimiter ----------------------------
(***************************************************************************)
(* RateLimiter with two clients and time for three buckets of each.         *)
(***************************************************************************)
EXTENDS RateLimiter
=============================================================================
