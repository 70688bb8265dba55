---------------------------- MODULE MCPayments ----------------------------
(***************************************************************************)
(* Instances of Payments for TLC.  Deliveries of one kind are alike, and   *)
(* so are the deposits they may announce.                                  *)
(***************************************************************************)
EXTENDS Payments, TLC

Symmetry ==
  Permutations(Inflow) \cup Permutations(Hook) \cup Permutations(Transfer) \cup Permutations(Deposits)
=============================================================================
