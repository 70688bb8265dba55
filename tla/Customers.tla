----------------------------- MODULE Customers -----------------------------
(***************************************************************************)
(* What customer checks, events and wallets share: the Customer rows, of   *)
(* which the tier is read on all sides, and the process that serves the    *)
(* calls.  Kyc, Events and Openings extend this module; Guests puts them   *)
(* together.                                                               *)
(***************************************************************************)
EXTENDS Server

CONSTANT Users

VARIABLES
  tier,        \* Customer.tier of the user's row, or NoCustomer
  reached      \* history: the highest tier the user's row has had

customerVars == <<tier, reached>>

NoCustomer == -1
Tiers == 0..3

CustomersTypeOK ==
  /\ ServerTypeOK
  /\ tier \in [Users -> Tiers \cup {NoCustomer}]
  /\ reached \in [Users -> Tiers \cup {NoCustomer}]

\* The user may be tagged as a performer, be one, or host an event.
Qualified(u) == tier[u] \in {2, 3}

SetTier(u, n) ==
  /\ tier' = [tier EXCEPT ![u] = n]
  /\ reached' = [reached EXCEPT ![u] = IF n > @ THEN n ELSE @]
=============================================================================
