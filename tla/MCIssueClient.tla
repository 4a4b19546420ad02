--------------------------- MODULE MCIssueClient ----------------------------
(***************************************************************************)
(* IssueClient on a small instance.                                        *)
(***************************************************************************)
EXTENDS IssueClient, TLC

MCSymmetry == Permutations(Stor)
=============================================================================
