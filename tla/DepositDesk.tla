---------------------------- MODULE DepositDesk ----------------------------
(***************************************************************************)
(* What a consumer of repeated notices promises: a notice says which       *)
(* deposit has come in, each deposit is taken by one notice at most, only  *)
(* the notice that took it credits it, once and for what it is worth, and  *)
(* a notice is accepted only after its own credit.  A notice that is       *)
(* refused, or gets no answer, may have left its deposit taken.            *)
(***************************************************************************)
CONSTANTS
  Notice,
  Deposit,
  NoDeposit,  \* what a notice that has not been sent announces
  Worth,      \* what a deposit may be worth: the account it is for, the amount
  Payable     \* the part of Worth that is for an account of the platform

VARIABLES
  worth,      \* worth[x] : what deposit x is worth
  announced,  \* announced[n] : the deposit that notice n announces
  taken,      \* the deposits that were taken: [deposit, by]
  credited,   \* the credits: [deposit, by, worth]
  answer      \* answer[n] : "pending", "accepted" or "refused"

desk == <<worth, announced, taken, credited, answer>>

Init ==
  /\ worth \in [Deposit -> Worth]
  /\ announced = [n \in Notice |-> NoDeposit]
  /\ taken = {} /\ credited = {}
  /\ answer = [n \in Notice |-> "pending"]

Announce(n) ==
  /\ announced[n] = NoDeposit
  /\ \E x \in Deposit : announced' = [announced EXCEPT ![n] = x]
  /\ UNCHANGED <<worth, taken, credited, answer>>

Untaken(x) == \A t \in taken : t.deposit /= x

Take(n) ==
  /\ answer[n] = "pending"
  /\ announced[n] \in Deposit /\ worth[announced[n]] \in Payable
  /\ Untaken(announced[n])
  /\ taken' = taken \cup {[deposit |-> announced[n], by |-> n]}
  /\ UNCHANGED <<worth, announced, credited, answer>>

Uncredited(x) == \A c \in credited : c.deposit /= x

Credit(n) ==
  /\ answer[n] = "pending"
  /\ [deposit |-> announced[n], by |-> n] \in taken
  /\ Uncredited(announced[n])
  /\ credited' = credited \cup {[deposit |-> announced[n], by |-> n, worth |-> worth[announced[n]]]}
  /\ UNCHANGED <<worth, announced, taken, answer>>

Accept(n) ==
  /\ answer[n] = "pending"
  /\ \E c \in credited : c.deposit = announced[n] /\ c.by = n
  /\ answer' = [answer EXCEPT ![n] = "accepted"]
  /\ UNCHANGED <<worth, announced, taken, credited>>

\* Notices are refused one by one, or go unanswered together.
Refuse(S) ==
  /\ \A n \in S : answer[n] = "pending"
  /\ answer' = [n \in Notice |-> IF n \in S THEN "refused" ELSE answer[n]]
  /\ UNCHANGED <<worth, announced, taken, credited>>

Next ==
  \/ \E n \in Notice : Announce(n) \/ Take(n) \/ Credit(n) \/ Accept(n)
  \/ \E S \in SUBSET Notice : Refuse(S)

Spec == Init /\ [][Next]_desk
=============================================================================
