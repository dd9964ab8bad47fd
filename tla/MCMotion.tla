------------------------------ MODULE MCMotion ------------------------------
(***************************************************************************)
(* Small instances of Motion.                                              *)
(***************************************************************************)
EXTENDS Motion, TLC

Symmetry == Permutations(Client)

=============================================================================
