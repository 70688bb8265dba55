----------------------------- MODULE PayoutDesk -----------------------------
(***************************************************************************)
(* What a payout in two steps promises.  Orders on wallets of the user are *)
(* offered and codes are drawn; both may be withdrawn at any moment.  A    *)
(* confirmation pays only while some order is offered, its own code is     *)
(* valid and a PIN has been set; it pays once, that order as it was asked, *)
(* and is accepted only after that.  One that is refused, or gets no       *)
(* answer, may have paid.                                                  *)
(***************************************************************************)
CONSTANTS
  Initiate,   \* who asks for payouts; a code is named by the one it is for
  Confirm,    \* who confirms them
  Wallets,
  Owned,      \* the wallets of the user
  Sums,
  NoCode      \* a code nobody drew

VARIABLES
  order,      \* order[i] : the wallet and the amount that i asks to pay out
  code,       \* code[c] : the code that c presents
  offered,    \* the orders that may be paid
  valid,      \* the codes a confirmation may pass with
  pinSet,     \* has a PIN been set?
  paid,       \* the payments: [by, order, wallet, amount]
  answer      \* answer[c] : "pending", "accepted" or "refused"

asked == <<order, code>>
desk == <<asked, offered, valid, pinSet, paid, answer>>

Init ==
  /\ order \in [Initiate -> [wallet : Wallets, amount : Sums]]
  /\ code \in [Confirm -> Initiate \cup {NoCode}]
  /\ offered = {} /\ valid = {} /\ pinSet = FALSE /\ paid = {}
  /\ answer = [c \in Confirm |-> "pending"]

\* Orders and codes may be withdrawn in any step.
Withdraw == offered' \in SUBSET offered /\ valid' \in SUBSET valid

Drop == Withdraw /\ UNCHANGED <<asked, pinSet, paid, answer>>

SetPin == pinSet' = TRUE /\ UNCHANGED <<asked, offered, valid, paid, answer>>

Offer(i) ==
  /\ order[i].wallet \in Owned
  /\ \E K \in SUBSET offered : offered' = K \cup {i}
  /\ UNCHANGED <<asked, valid, pinSet, paid, answer>>

Draw(i) ==
  /\ order[i].wallet \in Owned
  /\ \E K \in SUBSET valid : valid' = K \cup {i}
  /\ UNCHANGED <<asked, offered, pinSet, paid, answer>>

PaymentOf(c, o) == [by |-> c, order |-> o, wallet |-> order[o].wallet, amount |-> order[o].amount]

Pay(c) ==
  /\ answer[c] = "pending"
  /\ pinSet /\ code[c] \in valid
  /\ \A p \in paid : p.by /= c
  /\ \E o \in offered : paid' = paid \cup {PaymentOf(c, o)}
  /\ answer' \in {answer, [answer EXCEPT ![c] = "refused"]}
  /\ Withdraw
  /\ UNCHANGED <<asked, pinSet>>

Accept(c) ==
  /\ answer[c] = "pending"
  /\ \E p \in paid : p.by = c
  /\ answer' = [answer EXCEPT ![c] = "accepted"]
  /\ Withdraw
  /\ UNCHANGED <<asked, pinSet, paid>>

\* Confirmations are refused one by one, or go unanswered together.
Refuse(S) ==
  /\ \A c \in S : answer[c] = "pending"
  /\ answer' = [c \in Confirm |-> IF c \in S THEN "refused" ELSE answer[c]]
  /\ Withdraw
  /\ UNCHANGED <<asked, pinSet, paid>>

Next ==
  \/ Drop \/ SetPin
  \/ \E i \in Initiate : Offer(i) \/ Draw(i)
  \/ \E c \in Confirm : Pay(c) \/ Accept(c)
  \/ \E S \in SUBSET Confirm : Refuse(S)

Spec == Init /\ [][Next]_desk
=============================================================================
