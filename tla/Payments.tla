------------------------------ MODULE Payments ------------------------------
(***************************************************************************)
(* Money that crosses the border of the platform.  interBankTransfer asks  *)
(* the provider to pay a bank account and keeps a Transaction and a        *)
(* PayoutTransaction row; the provider tells how the payout went through   *)
(* webhooks, which may be repeated, delayed and reordered, or when         *)
(* transactionStatusRequery asks; another webhook announces deposits.      *)
(*                                                                         *)
(* One action per stretch of code between two awaits; every call runs      *)
(* once, and a repeated webhook is a call of its own.                      *)
(***************************************************************************)
EXTENDS Ledger

CONSTANTS
  Transfer,      \* calls of interBankTransfer; also the provider's transactionRef
  Inflow,        \* deliveries of the deposit webhook
  Hook,          \* deliveries of the payout webhook
  Requery,       \* calls of transactionStatusRequery
  Deposits,      \* deposits, by the provider's reference
  Stranger,      \* the account number of no wallet of the platform
  NoRequest,     \* a call that has not been made asks for nothing
  NoKey,         \* no customerTransactionReference is given
  Sums,          \* the amounts that are moved
  MaxCalls,      \* bound: calls and notices in all
  MaxInFlight,   \* bound: calls the process serves at the same time
  MaxFaults      \* bound: statements that fail, and process crashes

Calls == Transfer \cup Inflow \cup Hook \cup Requery
Asking == Hook \cup Requery
Crediting == Inflow \cup Hook

ASSUME CallAssumption ==
  /\ Calls \subseteq Actor /\ IsFiniteSet(Calls)
  /\ Transfer \cap Inflow = {} /\ Transfer \cap Asking = {}
  /\ Inflow \cap Asking = {} /\ Hook \cap Requery = {}
ASSUME ValueAssumption ==
  /\ Stranger \notin Wallets /\ NoKey \notin Keys
  /\ Sums \subseteq Nat
ASSUME PaymentBounds == MaxCalls \in Nat /\ MaxInFlight \in Nat /\ MaxFaults \in Nat

VARIABLES
  deposit,       \* deposit[x] : where deposit x goes, and how much it is
  request,       \* request[a] : what a transfer asks for, the deposit a delivery
                 \* announces, the transfer a notice or a requery is about
  at,            \* at[a] : the await at which call a stands
  told,          \* told[a] : the outcome that call a has been told
  snap,          \* snap[a] : the balance call a has read
  payout,        \* payout[t] : the status of the PayoutTransaction of t, or "none"
  funding,       \* the rows of FundingTransaction
  webhookEvent,  \* the rows of ProviderWebhookEvent, as the calls that wrote them
  outcome,       \* outcome[t] : how far the provider has got with t
  credits,       \* history: the balance writes of the webhooks
  overlapped,    \* history: have two calls been in flight together?
  faults

callVars == <<deposit, request, at, told, snap>>
rowVars == <<payout, funding, webhookEvent>>
vars == <<tables, callVars, rowVars, outcome, credits, overlapped, faults>>

Outcomes == {"none", "processing", "success", "failed", "rejected", "reversed"}
Answers == Outcomes \cup {"unknown"}
PayoutStatuses == {"PENDING", "PROCESSING", "SUCCESS", "FAILED", "REJECTED", "REVERSED"}
Places == {"sent", "callProvider", "insertTransaction", "insertPayout", "readWallet", "insertInflow",
           "insertFunding", "creditWallet", "readPayout", "writePayout", "writeTransaction",
           "askProvider", "storeEvent"}
Ends == {"done", "failed", "lost"}
InFlight == {a \in Calls : at[a] \in Places \ {"sent"}}

FundingRow == [reference : Deposits, wallet : Wallets, amount : Sums,
               transaction : References, by : Inflow]
Credit == [by : Crediting, for : Deposits \cup Transfer, wallet : Wallets, amount : Sums]

Requests(a) ==
  IF a \in Transfer THEN [wallet : Wallets, amount : Sums, key : Keys \cup {NoKey}]
  ELSE IF a \in Inflow THEN Deposits ELSE Transfer

TypeOK ==
  /\ TablesTypeOK
  /\ deposit \in [Deposits -> [wallet : Wallets \cup {Stranger}, amount : Sums]]
  /\ DOMAIN request = Calls
  /\ \A a \in Calls : request[a] \in IF at[a] = "idle" THEN {NoRequest} ELSE Requests(a)
  /\ at \in [Calls -> {"idle"} \cup Places \cup Ends]
  /\ told \in [Asking -> Answers]
  /\ snap \in [Crediting -> Balance]
  /\ payout \in [Transfer -> PayoutStatuses \cup {"none"}]
  /\ funding \subseteq FundingRow
  /\ webhookEvent \subseteq Crediting
  /\ outcome \in [Transfer -> Outcomes]
  /\ credits \subseteq Credit
  /\ overlapped \in BOOLEAN
  /\ faults \in 0..MaxFaults

Init ==
  /\ TablesInit
  /\ deposit \in [Deposits -> [wallet : Wallets \cup {Stranger}, amount : Sums]]
  /\ request = [a \in Calls |-> NoRequest]
  /\ at = [a \in Calls |-> "idle"]
  /\ told = [a \in Asking |-> "none"]
  /\ snap = [a \in Crediting |-> Both(0)]
  /\ payout = [t \in Transfer |-> "none"]
  /\ funding = {} /\ webhookEvent = {} /\ credits = {}
  /\ overlapped = FALSE
  /\ outcome = [t \in Transfer |-> "none"]
  /\ faults = 0

Goto(a, place) == at' = [at EXCEPT ![a] = place]
Given == <<deposit, request>>

\* A step of call a that writes nothing but the row of its own it has made.
Leaves(a, place) ==
  /\ Goto(a, place)
  /\ UNCHANGED <<Given, balance, rowLock, spray, outcome, overlapped, faults>>

Moves(a, place) ==
  /\ Leaves(a, place)
  /\ UNCHANGED <<transaction, rowVars, credits>>

\* A handler that ends drops what it has read.
Forget(a) == snap' = [snap EXCEPT ![a] = Both(0)]

First(a) ==
  IF a \in Transfer THEN "callProvider" ELSE IF a \in Inflow THEN "readWallet" ELSE "readPayout"

Room == Cardinality({b \in Calls : at[b] /= "idle"}) < MaxCalls

Arrive(a) ==
  /\ \/ at[a] = "sent" /\ UNCHANGED request
     \/ /\ at[a] = "idle" /\ a \notin Hook /\ Room
        /\ \E r \in Requests(a) : request' = [request EXCEPT ![a] = r]
  /\ Cardinality(InFlight) < MaxInFlight
  /\ Goto(a, First(a))
  /\ overlapped' = (overlapped \/ InFlight /= {})
  /\ UNCHANGED <<tables, deposit, told, snap, rowVars, outcome, credits, faults>>

(***************************************************************************)
(* The provider.                                                           *)
(***************************************************************************)
Settle(t) ==
  /\ \/ /\ outcome[t] = "processing"
        /\ \E o \in {"success", "failed", "rejected"} : outcome' = [outcome EXCEPT ![t] = o]
     \/ outcome[t] = "success" /\ outcome' = [outcome EXCEPT ![t] = "reversed"]
  /\ UNCHANGED <<tables, callVars, rowVars, credits, overlapped, faults>>

\* The notice tells the outcome of the moment it is sent; it may arrive later.
SendHook(h) ==
  /\ at[h] = "idle" /\ Room
  /\ \E t \in Transfer :
       /\ outcome[t] \in {"processing", "success", "failed", "rejected"}
       /\ request' = [request EXCEPT ![h] = t]
       /\ told' = [told EXCEPT ![h] = outcome[t]]
  /\ Goto(h, "sent")
  /\ UNCHANGED <<tables, deposit, snap, rowVars, outcome, credits, overlapped, faults>>

(***************************************************************************)
(* interBankTransfer                                                       *)
(***************************************************************************)

\* Accepted, accepted with the answer lost, or refused.
CallProvider(t) ==
  /\ at[t] = "callProvider"
  /\ \/ outcome' = [outcome EXCEPT ![t] = "processing"] /\ (Goto(t, "insertTransaction") \/ Goto(t, "failed"))
     \/ Goto(t, "failed") /\ UNCHANGED outcome
  /\ UNCHANGED <<tables, Given, told, snap, rowVars, credits, overlapped, faults>>

ReferenceOf(t) ==
  IF request[t].key = NoKey THEN DrawnRef("payout", t) ELSE ClientRef(request[t].key)

PayoutTransaction(t) ==
  [reference |-> ReferenceOf(t), wallet |-> request[t].wallet, type |-> "PAYOUT",
   direction |-> "DEBIT", status |-> "PENDING", amount |-> request[t].amount, group |-> t]

\* A reference that is taken throws, and the provider goes on paying.
InsertTransaction(t) ==
  /\ at[t] = "insertTransaction"
  /\ \/ ReferenceTaken(ReferenceOf(t)) /\ Leaves(t, "failed") /\ UNCHANGED transaction
     \/ /\ ~ReferenceTaken(ReferenceOf(t))
        /\ transaction' = transaction \cup {PayoutTransaction(t)}
        /\ Leaves(t, "insertPayout")
  /\ UNCHANGED <<told, snap, rowVars, credits>>

InsertPayout(t) ==
  /\ at[t] = "insertPayout"
  /\ payout' = [payout EXCEPT ![t] = "PENDING"]
  /\ Leaves(t, "done")
  /\ UNCHANGED <<transaction, told, snap, funding, webhookEvent, credits>>

(***************************************************************************)
(* handleInflowWebhook                                                     *)
(***************************************************************************)
Into(d) == deposit[request[d]].wallet

AmountOf(d) == deposit[request[d]].amount

ReadWallet(d) ==
  /\ at[d] = "readWallet"
  /\ \/ Into(d) = Stranger /\ Moves(d, "failed") /\ UNCHANGED snap
     \/ /\ Into(d) \in Wallets
        /\ snap' = [snap EXCEPT ![d] = balance[Into(d)]]
        /\ Moves(d, "insertInflow")
  /\ UNCHANGED told

InflowTransaction(d) ==
  [reference |-> DrawnRef("inflow", d), wallet |-> Into(d), type |-> "INFLOW",
   direction |-> "CREDIT", status |-> "SUCCESS", amount |-> AmountOf(d), group |-> d]

InsertInflow(d) ==
  /\ at[d] = "insertInflow"
  /\ transaction' = transaction \cup {InflowTransaction(d)}
  /\ Leaves(d, "insertFunding")
  /\ UNCHANGED <<told, snap, rowVars, credits>>

Funded(x) == \E f \in funding : f.reference = x

AddFunding(d) ==
  /\ funding' = funding \cup {[reference |-> request[d], wallet |-> Into(d), amount |-> AmountOf(d),
                               transaction |-> DrawnRef("inflow", d), by |-> d]}
  /\ Leaves(d, "creditWallet")
  /\ UNCHANGED snap

\* Slip: the column is not unique.
InsertFundingAgain(d) ==
  /\ at[d] = "insertFunding"
  /\ AddFunding(d)
  /\ UNCHANGED <<transaction, told, payout, webhookEvent, credits>>

\* Slip: a row that is there is updated, and the handler goes on.
InsertFundingOrUpdate(d) ==
  /\ at[d] = "insertFunding"
  /\ \/ Funded(request[d]) /\ Leaves(d, "creditWallet") /\ UNCHANGED <<funding, snap>>
     \/ ~Funded(request[d]) /\ AddFunding(d)
  /\ UNCHANGED <<transaction, told, payout, webhookEvent, credits>>

\* Slip: one funding for each wallet.
InsertFundingPerWallet(d) ==
  /\ at[d] = "insertFunding"
  /\ \/ (\E f \in funding : f.wallet = Into(d)) /\ Leaves(d, "failed") /\ Forget(d) /\ UNCHANGED funding
     \/ (\A f \in funding : f.wallet /= Into(d)) /\ AddFunding(d)
  /\ UNCHANGED <<transaction, told, payout, webhookEvent, credits>>

\* FundingTransaction.providerReference is unique: a repeated delivery ends here,
\* and leaves its Transaction row behind.
InsertFunding(d) ==
  /\ at[d] = "insertFunding"
  /\ \/ Funded(request[d]) /\ Leaves(d, "failed") /\ Forget(d) /\ UNCHANGED funding
     \/ ~Funded(request[d]) /\ AddFunding(d)
  /\ UNCHANGED <<transaction, told, payout, webhookEvent, credits>>

\* The balance a webhook writes is the one it has read plus an amount.
Write(a, cause, w, n) ==
  /\ Free(w, a)
  /\ balance' = [balance EXCEPT ![w] = Plus(snap[a], n)]
  /\ credits' = credits \cup {[by |-> a, for |-> cause, wallet |-> w, amount |-> n]}
  /\ Goto(a, "storeEvent")
  /\ UNCHANGED <<Given, rowLock, transaction, spray, told, snap, rowVars, outcome, overlapped, faults>>

CreditWallet(d) ==
  /\ at[d] = "creditWallet"
  /\ Write(d, request[d], Into(d), AmountOf(d))

StoreEvent(a) ==
  /\ at[a] = "storeEvent"
  /\ webhookEvent' = webhookEvent \cup {a}
  /\ Leaves(a, "done") /\ Forget(a)
  /\ UNCHANGED <<transaction, told, payout, funding, credits>>

(***************************************************************************)
(* handlePayoutWebhook and transactionStatusRequery                        *)
(***************************************************************************)
SetTransactionStatus(t, status) ==
  transaction' = {IF r.reference = ReferenceOf(t) THEN [r EXCEPT !.status = status] ELSE r
                    : r \in transaction}

SetPayoutStatus(t, status) == payout' = [payout EXCEPT ![t] = status]

\* Slip: the provider's word is stored.
HookStatusWord(o) == o

\* Slip: whatever is not a success has failed.
HookStatusPessimist(o) == IF o = "success" THEN "SUCCESS" ELSE "FAILED"

\* The `case's of the webhook and its default.
HookStatus(o) ==
  LET known == [success |-> "SUCCESS", failed |-> "FAILED", rejected |-> "REJECTED"]
  IN IF o \in DOMAIN known THEN known[o] ELSE "PROCESSING"

\* The `if's of the requery: a rejected payout has no case.
RequeryStatus(o) ==
  LET known == [success |-> "SUCCESS", failed |-> "FAILED",
                processing |-> "PROCESSING", reversed |-> "REVERSED"]
  IN IF o \in DOMAIN known THEN known[o] ELSE "PENDING"

TransactionStatusOf(status) == IF status = "REJECTED" THEN "FAILED" ELSE status

\* Slip: whatever is not a success is refunded.
RefundDueUnlessPaid(h) == HookStatus(told[h]) /= "SUCCESS"

RefundDue(h) == HookStatus(told[h]) \in {"FAILED", "REJECTED"}

ReadPayout(a) ==
  /\ at[a] = "readPayout"
  /\ \/ /\ payout[request[a]] = "none"
        /\ Moves(a, IF a \in Hook THEN "failed" ELSE "done")
        /\ UNCHANGED snap
     \/ /\ payout[request[a]] /= "none"
        /\ snap' = IF a \in Hook THEN [snap EXCEPT ![a] = balance[request[request[a]].wallet]] ELSE snap
        /\ Moves(a, IF a \in Hook THEN "writePayout" ELSE "askProvider")
  /\ UNCHANGED told

\* The answer may have no status: `|| 'unknown''.
AskProvider(r) ==
  /\ at[r] = "askProvider"
  /\ \/ \E o \in {outcome[request[r]], "unknown"} :
          told' = [told EXCEPT ![r] = o] /\ Moves(r, "writeTransaction")
     \/ Moves(r, "failed") /\ UNCHANGED told
  /\ UNCHANGED snap

\* A webhook writes the payout first, a requery the transaction.
WritePayout(a) ==
  /\ at[a] = "writePayout"
  /\ IF a \in Hook
     THEN SetPayoutStatus(request[a], HookStatus(told[a])) /\ Leaves(a, "writeTransaction")
     ELSE SetPayoutStatus(request[a], RequeryStatus(told[a])) /\ Leaves(a, "done")
  /\ UNCHANGED <<transaction, told, snap, funding, webhookEvent, credits>>

WriteTransaction(a) ==
  /\ at[a] = "writeTransaction"
  /\ IF a \in Hook
     THEN /\ SetTransactionStatus(request[a], TransactionStatusOf(HookStatus(told[a])))
          /\ Leaves(a, IF RefundDue(a) THEN "creditWallet" ELSE "storeEvent")
     ELSE /\ SetTransactionStatus(request[a], RequeryStatus(told[a]))
          /\ Leaves(a, "writePayout")
  /\ UNCHANGED <<told, snap, rowVars, credits>>

Refund(h) ==
  /\ at[h] = "creditWallet"
  /\ Write(h, request[h], request[request[h]].wallet, request[request[h]].amount)

(***************************************************************************)
(* Faults.                                                                 *)
(***************************************************************************)

\* A statement fails and its handler throws, or the process dies with all calls.
Fault ==
  /\ faults < MaxFaults /\ InFlight /= {}
  /\ faults' = faults + 1
  /\ \E dead \in {{a} : a \in InFlight} \cup {InFlight} :
       /\ at' = [a \in Calls |-> IF a \in dead THEN "lost" ELSE at[a]]
       /\ snap' = [a \in Crediting |-> IF a \in dead THEN Both(0) ELSE snap[a]]
  /\ UNCHANGED <<tables, Given, told, rowVars, outcome, credits, overlapped>>

TransferStep(t) == CallProvider(t) \/ InsertTransaction(t) \/ InsertPayout(t)

InflowStep(d) ==
  ReadWallet(d) \/ InsertInflow(d) \/ InsertFunding(d) \/ CreditWallet(d) \/ StoreEvent(d)

AskingStep(a) == ReadPayout(a) \/ WritePayout(a) \/ WriteTransaction(a)

Next ==
  \/ \E a \in Calls : Arrive(a)
  \/ \E t \in Transfer : TransferStep(t) \/ Settle(t)
  \/ \E d \in Inflow : InflowStep(d)
  \/ \E a \in Asking : AskingStep(a)
  \/ \E h \in Hook : SendHook(h) \/ Refund(h) \/ StoreEvent(h)
  \/ \E r \in Requery : AskProvider(r)
  \/ Fault

Spec == Init /\ [][Next]_vars

(***************************************************************************)
(*                              PROPERTIES                                 *)
(***************************************************************************)

\* However often the deposit webhook is delivered, and however the deliveries
\* interleave, a deposit is credited once (the unique providerReference).
DepositsAreCreditedOnce ==
  \A c, e \in credits : c.by \in Inflow /\ e.by \in Inflow /\ c.for = e.for => c = e

\* handleInflowWebhook as its sender sees it.
AnswerTo(d) ==
  IF at[d] = "done" THEN "accepted"
  ELSE IF at[d] \in {"failed", "lost"} THEN "refused" ELSE "pending"

Desk == INSTANCE DepositDesk WITH
  Notice <- Inflow, Deposit <- Deposits, NoDeposit <- NoRequest,
  Worth <- [wallet : Wallets \cup {Stranger}, amount : Sums],
  Payable <- [wallet : Wallets, amount : Sums],
  worth <- deposit,
  announced <- [d \in Inflow |-> request[d]],
  taken <- {[deposit |-> f.reference, by |-> f.by] : f \in funding},
  credited <- {[deposit |-> c.for, by |-> c.by, worth |-> [wallet |-> c.wallet, amount |-> c.amount]] :
                 c \in {e \in credits : e.by \in Inflow}},
  answer <- [d \in Inflow |-> AnswerTo(d)]

\* A delivery that is answered with success took its deposit itself and credited it
\* once, to the wallet and for the amount announced; no other delivery of the deposit
\* credits it again or is answered so, whichever way they interleave, fail or die.
ImplementsDepositDesk == Desk!Spec

\* The Transaction of a deposit is written before its FundingTransaction
\* (webhooks.service.ts:64, :84).  A delivery that went on has both, one pointing
\* at the other; a SUCCESS row without a funding of its own belongs to a delivery
\* that died in between, or that was a repetition: its deposit was credited, or is
\* being credited, or the handler that recorded it died on the way.
InflowsAreExplained ==
  \A d \in Inflow :
    LET mine == {r.reference : r \in {t \in transaction : t.group = d}} IN
    /\ at[d] \in {"creditWallet", "storeEvent", "done"} =>
         \E f \in funding : f.by = d /\ f.transaction \in mine
    /\ at[d] = "failed" /\ mine /= {} =>
         \E f \in funding :
           /\ f.by /= d /\ f.reference = request[d]
           /\ at[f.by] \in {"creditWallet", "lost"} \/ \E c \in credits : c.by = f.by

\* Only payouts the provider has failed or rejected are refunded, and for their
\* amount; a payout is refunded again only when its failure is told again: progress
\* notices, requeries and the order of arrival never add a refund.
RefundsFollowFailures ==
  \A c \in credits : c.by \in Hook =>
    /\ outcome[c.for] \in {"failed", "rejected"}
    /\ c.wallet = request[c.for].wallet /\ c.amount = request[c.for].amount
    /\ \A e \in credits \ {c} :
         e.by \in Hook /\ e.for = c.for => told[c.by] = told[e.by] /\ told[c.by] \in {"failed", "rejected"}

\* A final status in the two rows of a payout is the provider's, whichever of
\* the notices and requeries wrote it and in which order.  While calls have come
\* one at a time the two rows agree, unless a call died between them.
PayoutStatusesAreTheProviders ==
  \A t \in Transfer :
    LET rows == {r \in transaction : r.group = t}
        statuses == {payout[t]} \cup {r.status : r \in rows}
    IN /\ "SUCCESS" \in statuses => outcome[t] \in {"success", "reversed"}
       /\ statuses \cap {"FAILED", "REJECTED"} /= {} => outcome[t] \in {"failed", "rejected"}
       /\ "REVERSED" \in statuses => outcome[t] = "reversed"
       /\ (~overlapped /\ payout[t] /= "none"
             /\ \A a \in Asking : request[a] = t => at[a] \in {"idle", "sent", "failed", "done"}) =>
            \A r \in rows : r.status = TransactionStatusOf(payout[t])

\* While calls have come one at a time, a wallet has gained the deposits that were
\* recorded for it and the refunds, except where the handler died between the
\* record and the balance.
BalancesMatchTheRecords ==
  ~overlapped /\ InFlight = {} =>
    \A w \in Wallets :
      balance[w].available =
        Opening + SumOfAmounts({f \in funding : f.wallet = w /\ at[f.by] /= "lost"})
                + SumOfAmounts({c \in credits : c.wallet = w /\ (c.by \in Hook \/ at[c.by] = "lost")})

\* "If failed, reverse the wallet balance (refund)" (webhooks.service.ts:193): what
\* a refund gives back was taken before, so no wallet ends with more than the
\* money that was paid into it.
RefundsReverseADebit ==
  \A w \in Wallets : balance[w].available <= Opening + SumOfAmounts({f \in funding : f.wallet = w})
=============================================================================
