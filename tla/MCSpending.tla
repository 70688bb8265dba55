----------------------------- MODULE MCSpending -----------------------------
(***************************************************************************)
(* An instance of Spending for TLC.  Ada hosts the event and joined with   *)
(* her wallet; Bob joined without naming one and falls back on his default *)
(* wallet; Cyd joined without one and has none.                            *)
(***************************************************************************)
EXTENDS Spending, TLC

CONSTANTS ada, bob, cyd, wA, wB

ThreeSeats == (ada :> wA) @@ (bob :> NoWallet) @@ (cyd :> NoWallet)
ThreeDefaults == (ada :> wA) @@ (bob :> wB) @@ (cyd :> NoWallet)
OneCurrency == [w \in Wallets |-> "NGN"]

Symmetry == Permutations(Transfer)
=============================================================================
