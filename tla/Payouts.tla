------------------------------ MODULE Payouts ------------------------------
(***************************************************************************)
(* The two-step payout of one user: initiatePayout stores what is to be    *)
(* paid in the user's row and then mails a one-time code; confirmPayout    *)
(* takes the code and the PIN, takes the stored payout back out of the     *)
(* row, asks the provider to pay it and writes the new balance.  The row   *)
(* has room for one code and one pending payout, whoever wrote them last.  *)
(*                                                                         *)
(* One action per stretch of code between two awaits; every call runs      *)
(* once.  A code is identified with the initiatePayout call that drew it   *)
(* (two draws of a six-digit code are taken to differ).                    *)
(***************************************************************************)
EXTENDS Ledger

CONSTANTS
  Initiate,      \* calls of initiatePayout
  Confirm,       \* calls of confirmPayout
  NoCode,        \* payoutOtp is null; also a code nobody drew
  NoPayout,      \* pendingPayoutData is null
  Pins,
  NoPin,         \* payoutPin is null
  Owned,         \* the wallets of the user
  Sums,          \* the amounts asked for
  MaxInFlight,   \* bound: calls the process serves at the same time
  MaxCrashes     \* bound: process crashes

Calls == Initiate \cup Confirm

ASSUME CallAssumption ==
  /\ Calls \subseteq Actor /\ IsFiniteSet(Calls)
  /\ Initiate \cap Confirm = {}
ASSUME CodeAssumption == NoCode \notin Initiate
ASSUME PayoutAssumption == NoPayout \notin Initiate /\ NoPin \notin Pins
ASSUME SumAssumption == Sums \subseteq Nat /\ Owned \subseteq Wallets
ASSUME PayoutBounds == MaxInFlight \in Nat /\ MaxCrashes \in Nat

VARIABLES
  order,     \* order[i] : the wallet and the amount call i asks to pay out
  claim,     \* claim[c] : the code and the PIN call c presents
  at,        \* at[a] : the await at which call a stands
  took,      \* took[c] : the payout call c has read from the row
  read,      \* read[c] : the balance call c has read
  otp,       \* User.payoutOtp
  expired,   \* the codes older than ten minutes
  pending,   \* User.pendingPayoutData, as the call that stored it
  pin,       \* User.payoutPin
  paid,      \* the payouts the provider has executed
  overlapped, \* history: have two calls been in flight together?
  crashes

rowVars == <<otp, expired, pending, pin>>
callVars == <<order, claim, at, took, read>>
payoutVars == <<callVars, rowVars, paid, overlapped, crashes>>
vars == <<tables, payoutVars>>

InitiatePlaces == {"readWallet", "storePending", "storeOtp", "sendOtp"}
ConfirmPlaces == {"readOtp", "clearOtp", "clearExpired", "checkPin", "readPending",
                  "clearPending", "rereadWallet", "callProvider", "debit"}
Ends == {"done", "failed", "lost"}
InFlight == {a \in Calls : at[a] \notin {"idle"} \cup Ends}

Payment == [by : Confirm, order : Initiate, wallet : Wallets, amount : Sums]

TypeOK ==
  /\ TablesTypeOK
  /\ order \in [Initiate -> [wallet : Wallets, amount : Sums]]
  /\ claim \in [Confirm -> [code : Initiate \cup {NoCode}, pin : Pins]]
  /\ at \in [Calls -> {"idle"} \cup InitiatePlaces \cup ConfirmPlaces \cup Ends]
  /\ took \in [Confirm -> Initiate \cup {NoPayout}]
  /\ read \in [Confirm -> Balance]
  /\ otp \in Initiate \cup {NoCode}
  /\ expired \subseteq Initiate
  /\ pending \in Initiate \cup {NoPayout}
  /\ pin \in Pins \cup {NoPin}
  /\ paid \subseteq Payment
  /\ overlapped \in BOOLEAN
  /\ crashes \in 0..MaxCrashes

Init ==
  /\ TablesInit
  /\ order \in [Initiate -> [wallet : Wallets, amount : Sums]]
  /\ claim \in [Confirm -> [code : Initiate \cup {NoCode}, pin : Pins]]
  /\ at = [a \in Calls |-> "idle"]
  /\ took = [c \in Confirm |-> NoPayout]
  /\ read = [c \in Confirm |-> Both(0)]
  /\ otp = NoCode
  /\ expired = {}
  /\ pending = NoPayout
  /\ pin = NoPin
  /\ paid = {}
  /\ overlapped = FALSE
  /\ crashes = 0

Goto(a, place) == at' = [at EXCEPT ![a] = place]

\* A step that changes nothing but the place of the call.
Move(a, place) ==
  /\ Goto(a, place)
  /\ UNCHANGED <<tables, order, claim, took, read, rowVars, paid, overlapped, crashes>>

\* A step that writes one column of the user's row.
WriteRow(a, place) ==
  /\ Goto(a, place)
  /\ UNCHANGED <<tables, order, claim, took, read, expired, pin, paid, overlapped, crashes>>

\* A handler that ends drops what it has read.
End(c, place) ==
  /\ Goto(c, place)
  /\ took' = [took EXCEPT ![c] = NoPayout]
  /\ read' = [read EXCEPT ![c] = Both(0)]
  /\ UNCHANGED <<order, claim, rowVars, overlapped, crashes>>

Refuse(c) == End(c, "failed") /\ UNCHANGED <<tables, paid>>

Arrive(a) ==
  /\ at[a] = "idle"
  /\ Cardinality(InFlight) < MaxInFlight
  /\ Goto(a, IF a \in Initiate THEN "readWallet" ELSE "readOtp")
  /\ overlapped' = (overlapped \/ InFlight /= {})
  /\ UNCHANGED <<tables, order, claim, took, read, rowVars, paid, crashes>>

(***************************************************************************)
(* setPayoutPin                                                            *)
(***************************************************************************)
SetPayoutPin(p) ==
  /\ pin' = p
  /\ UNCHANGED <<tables, callVars, otp, expired, pending, paid, overlapped, crashes>>

(***************************************************************************)
(* initiatePayout                                                          *)
(***************************************************************************)

\* Slip: anybody's wallet will do.
ReadWalletOfAnybody(i) ==
  /\ at[i] = "readWallet"
  /\ IF balance[order[i].wallet].available >= order[i].amount
     THEN Move(i, "storePending")
     ELSE Move(i, "failed")

\* The wallet must be the user's and hold the amount.
ReadWallet(i) ==
  /\ at[i] = "readWallet"
  /\ IF order[i].wallet \in Owned /\ balance[order[i].wallet].available >= order[i].amount
     THEN Move(i, "storePending")
     ELSE Move(i, "failed")

\* Slip: the row gets the order itself in place of a reference to it.
StorePendingOrder(i) ==
  /\ at[i] = "storePending"
  /\ pending' = order[i]
  /\ WriteRow(i, "storeOtp")
  /\ UNCHANGED otp

StorePending(i) ==
  /\ at[i] = "storePending"
  /\ pending' = i
  /\ WriteRow(i, "storeOtp")
  /\ UNCHANGED otp

StoreOtp(i) ==
  /\ at[i] = "storeOtp"
  /\ otp' = i
  /\ WriteRow(i, "sendOtp")
  /\ UNCHANGED pending

\* A mail that cannot be sent is only logged.
SendOtp(i) ==
  /\ at[i] = "sendOtp"
  /\ Move(i, "done")

\* Ten minutes pass.
Expire(i) ==
  /\ at[i] \in {"sendOtp", "done", "lost"}
  /\ i \notin expired
  /\ expired' = expired \cup {i}
  /\ UNCHANGED <<tables, callVars, otp, pending, pin, paid, overlapped, crashes>>

(***************************************************************************)
(* confirmPayout                                                           *)
(***************************************************************************)
\* Slip: any code passes while one is in the row.
ReadOtpUncompared(c) ==
  /\ at[c] = "readOtp"
  /\ \/ otp = NoCode /\ Move(c, "failed")
     \/ otp \in expired /\ Move(c, "clearExpired")
     \/ otp \notin {NoCode} \cup expired /\ Move(c, "clearOtp")

ReadOtp(c) ==
  /\ at[c] = "readOtp"
  /\ \/ otp = NoCode /\ Move(c, "failed")
     \/ otp \in expired /\ Move(c, "clearExpired")
     \/ otp \notin {NoCode} \cup expired /\ otp /= claim[c].code /\ Move(c, "failed")
     \/ otp \notin {NoCode} \cup expired /\ otp = claim[c].code /\ Move(c, "clearOtp")

\* Slip: the used code stays in the row.
ClearOtpNot(c) ==
  /\ at[c] \in {"clearOtp", "clearExpired"}
  /\ Move(c, IF at[c] = "clearOtp" THEN "checkPin" ELSE "failed")

\* The write clears whatever code is in the row by now.
ClearOtp(c) ==
  /\ at[c] \in {"clearOtp", "clearExpired"}
  /\ otp' = NoCode
  /\ WriteRow(c, IF at[c] = "clearOtp" THEN "checkPin" ELSE "failed")
  /\ UNCHANGED pending

CheckPin(c) ==
  /\ at[c] = "checkPin"
  /\ Move(c, IF pin = claim[c].pin THEN "readPending" ELSE "failed")

\* getAndClearPendingPayout, first await.
ReadPending(c) ==
  /\ at[c] = "readPending"
  /\ \/ pending = NoPayout /\ Move(c, "failed")
     \/ /\ pending /= NoPayout
        /\ took' = [took EXCEPT ![c] = pending]
        /\ Goto(c, "clearPending")
        /\ UNCHANGED <<tables, order, claim, read, rowVars, paid, overlapped, crashes>>

\* getAndClearPendingPayout, second await: an update that sets the column to
\* `undefined', which the database client takes as "leave it alone".
ClearPending(c) ==
  /\ at[c] = "clearPending"
  /\ Move(c, "rereadWallet")

KeepBalance(c) ==
  /\ read' = [read EXCEPT ![c] = balance[order[took[c]].wallet]]
  /\ Goto(c, "callProvider")
  /\ UNCHANGED <<rowLock, transaction, spray, order, claim, took, rowVars, paid, overlapped, crashes>>

RereadWallet(c) ==
  /\ at[c] = "rereadWallet"
  /\ \/ /\ balance[order[took[c]].wallet].available < order[took[c]].amount
        /\ Refuse(c)
     \/ /\ balance[order[took[c]].wallet].available >= order[took[c]].amount
        /\ KeepBalance(c)
        /\ UNCHANGED balance

PaymentOf(c) ==
  [by |-> c, order |-> took[c], wallet |-> order[took[c]].wallet, amount |-> order[took[c]].amount]

\* Slip: a refusal is not noticed.
CallProviderUnchecked(c) ==
  /\ at[c] = "callProvider"
  /\ paid' = paid \cup {PaymentOf(c)} \/ UNCHANGED paid
  /\ Goto(c, "debit")
  /\ UNCHANGED <<tables, order, claim, took, read, rowVars, overlapped, crashes>>

\* interBankTransfer: paid, paid with the answer lost, or refused.
CallProvider(c) ==
  /\ at[c] = "callProvider"
  /\ \/ /\ paid' = paid \cup {PaymentOf(c)}
        /\ \/ Goto(c, "debit") /\ UNCHANGED <<order, claim, took, read, rowVars, overlapped, crashes>>
           \/ End(c, "failed")
        /\ UNCHANGED tables
     \/ Refuse(c)

\* The new balance is computed from the one read before the provider was asked.
Debit(c) ==
  LET w == order[took[c]].wallet IN
  /\ at[c] = "debit"
  /\ Free(w, c)
  /\ balance' = [balance EXCEPT ![w] = Minus(read[c], order[took[c]].amount)]
  /\ End(c, "done")
  /\ UNCHANGED <<rowLock, transaction, spray, paid>>

Crash ==
  /\ crashes < MaxCrashes
  /\ crashes' = crashes + 1
  /\ at' = [a \in Calls |-> IF a \in InFlight THEN "lost" ELSE at[a]]
  /\ took' = [c \in Confirm |-> NoPayout]
  /\ read' = [c \in Confirm |-> Both(0)]
  /\ UNCHANGED <<tables, order, claim, rowVars, paid, overlapped>>

InitiateStep(i) == ReadWallet(i) \/ StorePending(i) \/ StoreOtp(i) \/ SendOtp(i)

ConfirmStep(c) ==
  \/ ReadOtp(c) \/ ClearOtp(c) \/ CheckPin(c) \/ ReadPending(c) \/ ClearPending(c)
  \/ RereadWallet(c) \/ CallProvider(c) \/ Debit(c)

Next ==
  \/ \E a \in Calls : Arrive(a)
  \/ \E i \in Initiate : InitiateStep(i) \/ Expire(i)
  \/ \E c \in Confirm : ConfirmStep(c)
  \/ \E p \in Pins : SetPayoutPin(p)
  \/ Crash

Spec == Init /\ [][Next]_vars

(***************************************************************************)
(*                              PROPERTIES                                 *)
(***************************************************************************)

\* What confirmPayout pays was asked for by an order that passed the ownership
\* check of initiatePayout (walletmodule.service.ts:541), awaits and perhaps calls
\* ago; and with a code that was drawn and a PIN that was set, by whomever the
\* order, the code and the PIN were written since.
PaymentsAreAuthorised ==
  \A p \in paid :
    /\ p.wallet \in Owned
    /\ p.wallet = order[p.order].wallet /\ p.amount = order[p.order].amount
    /\ at[p.order] \notin {"idle", "readWallet", "storePending", "failed"}
    /\ claim[p.by].code /= NoCode
    /\ at[claim[p.by].code] \notin {"idle", "readWallet", "storePending", "storeOtp", "failed"}
    /\ pin /= NoPin

\* The codes in the row and with the confirmations that have passed the comparison.
ValidCodes ==
  {otp} \cup {claim[c].code : c \in {d \in Confirm : at[d] \in ConfirmPlaces \ {"readOtp", "clearExpired"}}}

\* confirmPayout as the user sees it.
AnswerTo(c) ==
  IF at[c] = "done" THEN "accepted"
  ELSE IF at[c] \in {"failed", "lost"} THEN "refused" ELSE "pending"

Desk == INSTANCE PayoutDesk WITH
  code <- [c \in Confirm |-> claim[c].code],
  offered <- ({pending} \cup {took[c] : c \in Confirm}) \ {NoPayout},
  valid <- ValidCodes \ {NoCode},
  pinSet <- pin /= NoPin,
  answer <- [c \in Confirm |-> AnswerTo(c)]

\* At the moment confirmPayout pays, its code, compared awaits ago, is one drawn for a
\* wallet of the user's; the order it has found in the row is such an order; a PIN is
\* set; and it pays once, and before it is answered with success.  Only initiatePayout
\* has checked whose the wallet is (walletmodule.service.ts:541), and it did so for
\* whichever call stored its order last.
ImplementsPayoutDesk == Desk!Spec

\* A code pays once, and so does an order, while confirmations have come one at a
\* time: the code that was used is gone from the row (payout-security.service.ts:130).
CodesPayOnceInTurn ==
  ~overlapped => \A p, q \in paid : (claim[p.by].code = claim[q.by].code \/ p.order = q.order) => p = q

\* "Clear OTP after successful verification" (payout-security.service.ts:129): a
\* code pays once.
CodesPayOnce ==
  \A p, q \in paid : claim[p.by].code = claim[q.by].code => p = q

\* "Retrieve and clear pending payout data" (payout-security.service.ts:154): when
\* a confirmation is over, its order is no longer pending.
PaidOrdersAreCleared ==
  \A p \in paid : at[p.by] = "done" => pending /= p.order

\* A code confirms the order it was mailed for.  While calls have come one at a
\* time the only way past that is a call that died between storing its order and
\* drawing its code.
CodesConfirmTheirOrder ==
  ~overlapped => \A p \in paid : p.order = claim[p.by].code \/ at[p.order] = "lost"

\* While calls have come one at a time, a wallet has lost what its finished
\* payouts took: the balance read before the provider was asked is still there.
BalancesMatchPayouts ==
  ~overlapped =>
    \A w \in Wallets :
      balance[w].available =
        Opening - SumOfAmounts({p \in paid : p.wallet = w /\ at[p.by] = "done"})
=============================================================================
