------------------------------ MODULE MCGuests ------------------------------
(***************************************************************************)
(* Instances of Guests for TLC: the customers a user can have been when    *)
(* the observation starts.  A customer at a tier nobody has checked is     *)
(* created during the run (AskedTiers).                                    *)
(***************************************************************************)
EXTENDS Guests, TLC

AnyProfile ==
  {[tier |-> NoCustomer, given |-> NoCustomer, checks |-> {}],
   [tier |-> 0, given |-> 0, checks |-> {}],
   [tier |-> 1, given |-> 0, checks |-> {"nin"}],
   [tier |-> 1, given |-> 0, checks |-> {"bvn"}],
   [tier |-> 2, given |-> 0, checks |-> {"nin", "bvn"}],
   [tier |-> 3, given |-> 0, checks |-> Kinds]}

Symmetry ==
  UNION {Permutations(set) : set \in {Users, KycCall, OpenWallet, CreateEvent, JoinEvent}}
=============================================================================
