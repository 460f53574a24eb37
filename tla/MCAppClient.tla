------------------------------ MODULE MCAppClient ------------------------------
(***************************************************************************)
(* Instances of AppClient.                                                 *)
(***************************************************************************)
EXTENDS AppClient, TLC

Symmetry == Permutations(Conn)
================================================================================
