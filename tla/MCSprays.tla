----------------------------- MODULE MCSprays -----------------------------
(***************************************************************************)
(* Instances of Sprays for TLC.  Ada hosts the event and joined with her   *)
(* wallet; Bob joined without naming one and falls back on his default     *)
(* wallet.  Spending adds a user who has neither.                          *)
(***************************************************************************)
EXTENDS Sprays, TLC

CONSTANTS ada, bob, wA, wB

TwoSeats == (ada :> wA) @@ (bob :> NoWallet)
TwoDefaults == (ada :> wA) @@ (bob :> wB)
OneCurrency == [w \in Wallets |-> "NGN"]
AllWallets == Wallets
=============================================================================
