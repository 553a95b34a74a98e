------------------------------- MODULE MCTLS -------------------------------
(***************************************************************************)
(* The threads that clone are alike: no operator of TLS tells them apart.  *)
(***************************************************************************)
EXTENDS TLS, TLC

Symmetry == Permutations(Cloners)
=============================================================================
