-------------------------- MODULE ConcurrencyLimit --------------------------
(***************************************************************************)
(* What a concurrency limiter promises, whatever it is built from: at any   *)
(* moment at most Limit requests are inside, a request that was refused     *)
(* never gets in, and every request inside leaves by itself or hands its    *)
(* place over to one that is outside.                                       *)
(***************************************************************************)
EXTENDS Naturals, FiniteSets

CONSTANTS Request, Limit  \* a finite set, and a number above zero

VARIABLE status

Inside == {r \in Request : status[r] = "inside"}

Init == status = [r \in Request |-> "outside"]

Enter(r) ==
  /\ status[r] = "outside"
  /\ Cardinality(Inside) < Limit
  /\ status' = [status EXCEPT ![r] = "inside"]

Leave(r) ==
  /\ status[r] = "inside"
  /\ status' = [status EXCEPT ![r] = "outside"]

\* The place of p passes to q in one step: nobody can slip in between.
HandOver(p, q) ==
  /\ status[p] = "inside"
  /\ status[q] = "outside"
  /\ status' = [status EXCEPT ![p] = "outside", ![q] = "inside"]

Refuse(r) ==
  /\ status[r] = "outside"
  /\ status' = [status EXCEPT ![r] = "refused"]

\* A refused request is over; its identity is free for the next one.
Forget(r) ==
  /\ status[r] = "refused"
  /\ status' = [status EXCEPT ![r] = "outside"]

Next ==
  \/ \E r \in Request : Enter(r) \/ Leave(r) \/ Refuse(r) \/ Forget(r)
  \/ \E p, q \in Request : HandOver(p, q)

Spec == Init /\ [][Next]_status
=============================================================================
