------------------------------- MODULE MCEdge -------------------------------
(***************************************************************************)
(* Instances of Edge for TLC.                                              *)
(***************************************************************************)
EXTENDS Edge, TLC

Symmetry == Permutations(Users) \cup Permutations(Tokens) \cup Permutations(DeviceCall)
=============================================================================
