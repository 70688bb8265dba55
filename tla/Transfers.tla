----------------------------- MODULE Transfers -----------------------------
(***************************************************************************)
(* Transfers between two wallets outside of an event, the deprecated       *)
(* payout in one step, and the two calls that ask the provider about a     *)
(* finished transfer: walletToWalletTransfer, walletpayout,                *)
(* walletToWalletRequery and reverseTransaction.  Spending puts them       *)
(* together with the sprays, over the same tables and the same provider.   *)
(*                                                                         *)
(* Nothing here runs in a database transaction: every statement commits on *)
(* its own, and the new balances are computed from the ones read before    *)
(* the provider is asked.  One action per stretch of code between two      *)
(* awaits; every call runs once.                                           *)
(***************************************************************************)
EXTENDS Ledger

CONSTANTS
  Transfer,      \* calls of walletToWalletTransfer
  Cashout,       \* calls of walletpayout
  Requery,       \* calls of walletToWalletRequery
  Reversal,      \* calls of reverseTransaction
  Outside,       \* a bank account
  NoRequest,     \* a call that has not been made asks for nothing
  NoKey,         \* no reference is given
  Sums,          \* the amounts that are moved
  MaxCalls,      \* bound: calls in all
  MaxInFlight,   \* bound: calls the process serves at the same time
  MaxFaults      \* bound: statements that fail, and process crashes

Moving == Transfer \cup Cashout
Asking == Requery \cup Reversal
Calls == Moving \cup Asking

ASSUME CallAssumption ==
  /\ Calls \subseteq Actor /\ IsFiniteSet(Calls)
  /\ Transfer \cap Cashout = {} /\ Requery \cap Reversal = {} /\ Moving \cap Asking = {}
ASSUME ValueAssumption == Outside \notin Wallets /\ NoKey \notin Keys /\ Sums \subseteq Nat
ASSUME TransferBounds == MaxCalls \in Nat /\ MaxInFlight \in Nat /\ MaxFaults \in Nat

VARIABLES
  request,   \* request[c] : what is to be moved, or the reference asked about
  at,        \* at[c] : the await at which call c stands
  snap,      \* snap[c] : the balances call c has read
  verdict,   \* verdict[a] : the status call a is about to write
  moved,     \* the moves the provider has made
  reversed,  \* the calls whose moves the provider has taken back
  overlapped,  \* history: have two calls been in flight together?
  faults

transferVars == <<request, at, snap, verdict, reversed, overlapped, faults>>

Places == {"readFrom", "readTo", "callProvider", "insertDebit", "insertCredit", "insertSpray",
           "writeBoth", "writeFrom", "writeTo", "askProvider", "readTransaction", "writeStatus"}
Ends == {"done", "failed", "lost"}
InFlight == {c \in Calls : at[c] \in Places}

Bodies == [from : Wallets, to : Wallets \cup {Outside}, amount : Sums, key : Keys \cup {NoKey}]
Snaps == [from : Balance, to : Balance]
Blank == [from |-> Both(0), to |-> Both(0)]
Move == [by : Actor, reference : References, from : Wallets, to : Wallets \cup {Outside}, amount : Int]

ReferenceOf(c) ==
  IF request[c].key /= NoKey THEN ClientRef(request[c].key)
  ELSE DrawnRef(IF c \in Transfer THEN "debit" ELSE "payout", c)

\* A cashout goes to a bank account and leaves no Transaction, so its reference
\* is of no consequence here.
Requests(c) ==
  IF c \in Asking THEN {ClientRef(k) : k \in Keys} \cup {DrawnRef("debit", t) : t \in Transfer}
  ELSE {b \in Bodies : IF c \in Transfer THEN b.to \in Wallets ELSE b.to = Outside /\ b.key = NoKey}

TransfersTypeOK ==
  /\ DOMAIN request = Calls
  /\ \A c \in Calls : request[c] \in IF at[c] = "idle" THEN {NoRequest} ELSE Requests(c)
  /\ at \in [Calls -> {"idle"} \cup Places \cup Ends]
  /\ snap \in [Moving -> Snaps]
  /\ verdict \in [Asking -> {"PENDING", "SUCCESS", "FAILED", "REVERSED"}]
  /\ moved \subseteq Move /\ reversed \subseteq Actor
  /\ overlapped \in BOOLEAN
  /\ faults \in 0..MaxFaults

TransfersInit ==
  /\ request = [c \in Calls |-> NoRequest]
  /\ at = [c \in Calls |-> "idle"]
  /\ snap = [c \in Moving |-> Blank]
  /\ verdict = [a \in Asking |-> "PENDING"]
  /\ moved = {} /\ reversed = {}
  /\ overlapped = FALSE
  /\ faults = 0

Goto(c, place) == at' = [at EXCEPT ![c] = place]

\* A handler that ends drops what it has read.
Forget(c) == snap' = [snap EXCEPT ![c] = Blank]

\* A step that writes no table.
Moves(c, place) ==
  /\ Goto(c, place)
  /\ UNCHANGED <<tables, request, overlapped, faults>>

\* A step that inserts a row or updates one.
Writes(c, place) ==
  /\ Goto(c, place)
  /\ UNCHANGED <<rowLock, request, verdict, moved, reversed, overlapped, faults>>

First(c) ==
  IF c \in Moving THEN "readFrom" ELSE IF c \in Requery THEN "askProvider" ELSE "readTransaction"

Arrive(c) ==
  /\ at[c] = "idle"
  /\ Cardinality({d \in Calls : at[d] /= "idle"}) < MaxCalls
  /\ Cardinality(InFlight) < MaxInFlight
  /\ \E r \in Requests(c) : request' = [request EXCEPT ![c] = r]
  /\ Goto(c, First(c))
  /\ overlapped' = (overlapped \/ InFlight /= {})
  /\ UNCHANGED <<tables, snap, verdict, moved, reversed, faults>>

Covered(c, b) == b.available >= request[c].amount

(***************************************************************************)
(* walletToWalletTransfer and walletpayout                                 *)
(***************************************************************************)

\* walletpayout checks the balance at once, a transfer when it has both wallets.
ReadFrom(c) ==
  /\ at[c] = "readFrom"
  /\ \/ /\ c \in Cashout /\ ~Covered(c, balance[request[c].from])
        /\ Moves(c, "failed") /\ UNCHANGED snap
     \/ /\ c \in Transfer \/ Covered(c, balance[request[c].from])
        /\ snap' = [snap EXCEPT ![c].from = balance[request[c].from]]
        /\ Moves(c, IF c \in Transfer THEN "readTo" ELSE "callProvider")
  /\ UNCHANGED <<verdict, moved, reversed>>

ReadTo(c) ==
  /\ at[c] = "readTo"
  /\ IF Covered(c, snap[c].from)
     THEN snap' = [snap EXCEPT ![c].to = balance[request[c].to]] /\ Moves(c, "callProvider")
     ELSE Forget(c) /\ Moves(c, "failed")
  /\ UNCHANGED <<verdict, moved, reversed>>

MoveOf(c) ==
  [by |-> c, reference |-> ReferenceOf(c),
   from |-> request[c].from, to |-> request[c].to, amount |-> request[c].amount]

AfterProvider(c) == IF c \in Transfer THEN "insertDebit" ELSE "writeFrom"

\* Slip: success = FALSE is not looked at.
CallProviderUnchecked(c) ==
  /\ at[c] = "callProvider"
  /\ moved' \in {moved, moved \cup {MoveOf(c)}}
  /\ Moves(c, AfterProvider(c))
  /\ UNCHANGED <<snap, verdict, reversed>>

\* The money moves, or it moves and the answer is lost, or the provider refuses.
CallProvider(c) ==
  /\ at[c] = "callProvider"
  /\ \/ moved' = moved \cup {MoveOf(c)} /\ Moves(c, AfterProvider(c)) /\ UNCHANGED snap
     \/ moved' \in {moved, moved \cup {MoveOf(c)}} /\ Moves(c, "failed") /\ Forget(c)
  /\ UNCHANGED <<verdict, reversed>>

Row(t, ref, wallet, dir) ==
  [reference |-> ref, wallet |-> wallet, type |-> "SPRAY", direction |-> dir,
   status |-> "SUCCESS", amount |-> request[t].amount, group |-> t]

\* Slip: the reference is not unique.
InsertDebitDuplicate(t) ==
  /\ at[t] = "insertDebit"
  /\ transaction' = transaction \cup {Row(t, ReferenceOf(t), request[t].from, "DEBIT")}
  /\ Writes(t, "insertCredit")
  /\ UNCHANGED <<balance, spray, snap>>

\* A reference that is taken throws, after the money has moved.
InsertDebit(t) ==
  /\ at[t] = "insertDebit"
  /\ \/ ReferenceTaken(ReferenceOf(t)) /\ Writes(t, "failed") /\ Forget(t) /\ UNCHANGED transaction
     \/ /\ ~ReferenceTaken(ReferenceOf(t))
        /\ transaction' = transaction \cup {Row(t, ReferenceOf(t), request[t].from, "DEBIT")}
        /\ Writes(t, "insertCredit")
        /\ UNCHANGED snap
  /\ UNCHANGED <<balance, spray>>

\* Slip: the credit is written in the sender's name.
InsertCreditToSender(t) ==
  /\ at[t] = "insertCredit"
  /\ transaction' = transaction \cup {Row(t, DrawnRef("credit", t), request[t].from, "CREDIT")}
  /\ Writes(t, "insertSpray")
  /\ UNCHANGED <<balance, spray, snap>>

\* Slip: the spray is written when the debit is there.
InsertCreditLater(t) ==
  /\ at[t] = "insertCredit"
  /\ Writes(t, "insertSpray")
  /\ UNCHANGED <<balance, transaction, spray, snap>>

InsertCredit(t) ==
  /\ at[t] = "insertCredit"
  /\ transaction' = transaction \cup {Row(t, DrawnRef("credit", t), request[t].to, "CREDIT")}
  /\ Writes(t, "insertSpray")
  /\ UNCHANGED <<balance, spray, snap>>

\* Slip: the spray points at the call and not at its debit.
InsertSprayOfCall(t) ==
  /\ at[t] = "insertSpray"
  /\ spray' = spray \cup {[id |-> t, from |-> request[t].from, to |-> request[t].to,
                           amount |-> request[t].amount, debit |-> t, group |-> t]}
  /\ Writes(t, "writeBoth")
  /\ UNCHANGED <<balance, transaction, snap>>

InsertSpray(t) ==
  /\ at[t] = "insertSpray"
  /\ spray' = spray \cup {[id |-> t, from |-> request[t].from, to |-> request[t].to,
                           amount |-> request[t].amount, debit |-> ReferenceOf(t), group |-> t]}
  /\ Writes(t, "writeBoth")
  /\ UNCHANGED <<balance, transaction, snap>>

\* The two updates of Promise.all commit in either order.  `rest' is what is
\* left to do when the one that takes the money from its wallet has committed.
WriteFrom(c) ==
  LET w == request[c].from
      rest == IF at[c] = "writeBoth" THEN "writeTo" ELSE "done" IN
  /\ at[c] \in {"writeBoth", "writeFrom"}
  /\ Free(w, c)
  /\ balance' = [balance EXCEPT ![w] = Minus(snap[c].from, request[c].amount)]
  /\ Writes(c, rest)
  /\ IF rest = "done" THEN Forget(c) ELSE UNCHANGED snap
  /\ UNCHANGED <<transaction, spray>>

\* Slip: the receiver's wallet gets the balance of the sender's.
WriteToFromSender(t) ==
  LET w == request[t].to
      rest == IF at[t] = "writeBoth" THEN "writeFrom" ELSE "done" IN
  /\ at[t] \in {"writeBoth", "writeTo"}
  /\ Free(w, t)
  /\ balance' = [balance EXCEPT ![w] = Plus(snap[t].from, request[t].amount)]
  /\ Writes(t, rest)
  /\ IF rest = "done" THEN Forget(t) ELSE UNCHANGED snap
  /\ UNCHANGED <<transaction, spray>>

WriteTo(t) ==
  LET w == request[t].to
      rest == IF at[t] = "writeBoth" THEN "writeFrom" ELSE "done" IN
  /\ at[t] \in {"writeBoth", "writeTo"}
  /\ Free(w, t)
  /\ balance' = [balance EXCEPT ![w] = Plus(snap[t].to, request[t].amount)]
  /\ Writes(t, rest)
  /\ IF rest = "done" THEN Forget(t) ELSE UNCHANGED snap
  /\ UNCHANGED <<transaction, spray>>

(***************************************************************************)
(* walletToWalletRequery and reverseTransaction                            *)
(***************************************************************************)

\* A requery asks first and then looks for its row; a reversal the other way round.
\* The provider's code is "200" or something else; a reversal takes back a move once.
AskProvider(a) ==
  /\ at[a] = "askProvider"
  /\ \/ /\ a \in Requery /\ Moves(a, "readTransaction")
        /\ verdict' \in {[verdict EXCEPT ![a] = v] : v \in {"SUCCESS", "FAILED"}}
        /\ UNCHANGED reversed
     \/ /\ a \in Reversal
        /\ \E m \in moved :
             m.by \notin reversed /\ m.reference = request[a] /\ reversed' = reversed \cup {m.by}
        /\ verdict' = [verdict EXCEPT ![a] = "REVERSED"]
        /\ Moves(a, "writeStatus") \/ Moves(a, "failed")
     \/ Moves(a, "failed") /\ UNCHANGED <<verdict, reversed>>
  /\ UNCHANGED <<snap, moved>>

ReadTransaction(a) ==
  /\ at[a] = "readTransaction"
  /\ \/ /\ ~ReferenceTaken(request[a])
        /\ Moves(a, IF a \in Requery THEN "done" ELSE "failed")
     \/ /\ ReferenceTaken(request[a])
        /\ Moves(a, IF a \in Requery THEN "writeStatus" ELSE "askProvider")
  /\ UNCHANGED <<snap, verdict, moved, reversed>>

\* Only the row with the reference is written: the debit.
WriteStatus(a) ==
  /\ at[a] = "writeStatus"
  /\ transaction' = {IF r.reference = request[a] THEN [r EXCEPT !.status = verdict[a]] ELSE r
                       : r \in transaction}
  /\ Writes(a, "done")
  /\ UNCHANGED <<balance, spray, snap>>

(***************************************************************************)
(* Faults.                                                                 *)
(***************************************************************************)

Lose(dead) ==
  /\ faults < MaxFaults
  /\ faults' = faults + 1
  /\ at' = [c \in Calls |-> IF c \in dead THEN "lost" ELSE at[c]]
  /\ snap' = [c \in Moving |-> IF c \in dead THEN Blank ELSE snap[c]]
  /\ UNCHANGED <<request, verdict, moved, reversed, overlapped>>

\* A statement fails and its handler throws.
Fail == (\E c \in InFlight : Lose({c})) /\ UNCHANGED tables

MovingStep(c) == ReadFrom(c) \/ CallProvider(c) \/ WriteFrom(c)

TransferStep(t) ==
  ReadTo(t) \/ InsertDebit(t) \/ InsertCredit(t) \/ InsertSpray(t) \/ WriteTo(t)

AskingStep(a) == AskProvider(a) \/ ReadTransaction(a) \/ WriteStatus(a)

Step ==
  \/ \E c \in Moving : MovingStep(c)
  \/ \E t \in Transfer : TransferStep(t)
  \/ \E a \in Asking : AskingStep(a)

TransfersNext == (\E c \in Calls : Arrive(c)) \/ Step \/ Fail

(***************************************************************************)
(*                              PROPERTIES                                 *)
(***************************************************************************)
GroupOf(t) == {r \in transaction : r.group = t}

\* No statement of a transfer is in a database transaction, yet what a fault leaves
\* behind is a prefix: no spray without its two rows, no credit without its debit,
\* and no balance of a transfer is written before its spray.
RecordsAreWrittenInOrder ==
  \A t \in Transfer :
    /\ (\E s \in spray : s.id = t) => {r.direction : r \in GroupOf(t)} = {"DEBIT", "CREDIT"}
    /\ GroupOf(t) /= {} => \E r \in GroupOf(t) : r.direction = "DEBIT" /\ r.reference = ReferenceOf(t)
    /\ at[t] \in {"writeBoth", "writeFrom", "writeTo", "done"} => \E s \in spray : s.id = t
=============================================================================
