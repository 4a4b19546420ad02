---------------------------- MODULE MCWareLedger ----------------------------
(***************************************************************************)
(* WareLedger on a small instance.                                         *)
(***************************************************************************)
EXTENDS WareLedger, TLC

\* No location is special.
MCSymmetry == Permutations(Loc)
=============================================================================
