----------------------------- MODULE MCAccounts -----------------------------
(***************************************************************************)
(* Instances of Accounts for TLC: two addresses, of which both make the    *)
(* same user name, and one user who may have been there before.            *)
(***************************************************************************)
EXTENDS Accounts, TLC

CONSTANT ada, plain, suffixed

PrefixOf(e) == plain

Signed == [name : {plain}, phone : Phones, password : {TRUE}, verified : {FALSE},
           code : {Old}, otp : {Null}, session : {Null}]
Verified == [name : {plain}, phone : Phones \cup {Null}, password : {TRUE}, verified : {TRUE},
             code : {Null}, otp : {Old}, session : {Old}]

AnyStart ==
  {[e \in Emails |-> IF e = ada THEN u ELSE NoAccount] : u \in Signed \cup Verified \cup {NoAccount}}

Symmetry == Permutations(AccountCall)
=============================================================================
