------------------------------ MODULE MCLift1 -------------------------------
(***************************************************************************)
(* Lift1 on a small instance.  The storeys are alike, so the lift starts   *)
(* at the lower one.                                                       *)
(***************************************************************************)
EXTENDS Lift1

MCInit == Init /\ floor = 1

MCSpec == MCInit /\ [][Next]_vars /\ Fairness
=============================================================================
