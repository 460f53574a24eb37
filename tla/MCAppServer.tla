------------------------------ MODULE MCAppServer ------------------------------
(***************************************************************************)
(* Instances of AppServer.                                                 *)
(***************************************************************************)
EXTENDS AppServer, TLC

Symmetry == Permutations(Conn)
================================================================================
