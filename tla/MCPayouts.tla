----------------------------- MODULE MCPayouts -----------------------------
(***************************************************************************)
(* Instances of Payouts for TLC: one user with one wallet of her own and   *)
(* one that is somebody else's.                                            *)
(***************************************************************************)
EXTENDS Payouts, TLC

Symmetry == Permutations(Initiate) \cup Permutations(Confirm)
=============================================================================
