------------------------------ MODULE Sprays ------------------------------
(***************************************************************************)
(* SpraysService.createSpray: a member of a live event sends money to      *)
(* another one.  The handler reads its way to two wallets, checks the      *)
(* sprayer's balance under a row lock that it then gives back, asks the    *)
(* payment provider to move the money, and records the result in one       *)
(* database transaction.                                                   *)
(*                                                                         *)
(* One action per stretch of code between two awaits.  Inside a database   *)
(* transaction the rows written are seen by nobody before the commit, so   *)
(* the two wallet updates only take the row locks and InsertAndCommit      *)
(* applies everything.                                                     *)
(*                                                                         *)
(* A request is one HTTP call and runs once; a client that repeats a call  *)
(* is another request with the same key.  `body' is what the clients will  *)
(* ask for, chosen once and for all in Init.                               *)
(***************************************************************************)
EXTENDS Ledger

CONSTANTS
  Req,            \* the calls of createSpray
  Users,
  Host,           \* the user who hosts the event
  NoWallet,       \* a null wallet reference
  Absent,         \* the seat of a user who is not a participant
  Seats,          \* the wallet each user joined the event with
  DefaultWallet,  \* the wallet marked isDefault of each user's customer
  Currency,       \* the currency of each wallet
  Provisioned,    \* wallets that have a virtual account number
  Amounts,        \* the amounts clients ask for
  MinSprayAmount, \* Event.minSprayAmount
  MaxInFlight,    \* bound: calls the process serves at the same time
  MaxCrashes      \* bound: process crashes

ASSUME ReqAssumption == Req \subseteq Actor /\ IsFiniteSet(Req)
ASSUME UserAssumption ==
  /\ Host \in Users
  /\ NoWallet \notin Wallets
  /\ Absent \notin Wallets
  /\ Absent /= NoWallet
  /\ Seats \in [Users -> Wallets \cup {NoWallet, Absent}]
  /\ DefaultWallet \in [Users -> Wallets \cup {NoWallet}]
ASSUME WalletAssumption == DOMAIN Currency = Wallets /\ Provisioned \subseteq Wallets
ASSUME AmountAssumption == Amounts \subseteq Int /\ MinSprayAmount \in Int
ASSUME BoundAssumption == MaxInFlight \in Nat /\ MaxCrashes \in Nat

VARIABLES
  body,        \* body[q] : what call q asks for
  pc,          \* pc[q] : the await at which call q stands
  local,       \* local[q] : the local variables of call q that are read again later
  reply,       \* reply[q] : the spray returned to the caller of q
  status,      \* Event.status
  seat,        \* EventParticipant: seat[u] is the wallet of u's row, if there is one
  transfers,   \* the transfers the provider has executed
  emitted,     \* the spray.created events sent to the room of the event
  crashes      \* how often the process has crashed

actorVars == <<body, pc, local, reply>>
eventVars == <<status, seat>>
worldVars == <<transfers, emitted, crashes>>
sprayVars == <<actorVars, eventVars, worldVars>>
vars == <<tables, sprayVars>>

(***************************************************************************)
(* The places at which a call can stand.                                   *)
(***************************************************************************)
Waiting == {"lockCheck"}                  \* may wait for a row lock, holds none
InTx == {"lockSprayer", "lockReceiver", "insert"}  \* inside the recording transaction
Reading == {"checkKey", "readEvent", "readSprayer", "readReceiver", "readDefaults"}
Running == Reading \cup Waiting \cup InTx
             \cup {"callProvider", "readTotals", "answer", "replay"}
Ended == {"done", "failed", "lost"}
Places == {"idle"} \cup Running \cup Ended

InFlight == {q \in Req : pc[q] \in Running}

Fresh == [from |-> NoWallet, to |-> NoWallet,
          locked |-> Both(0), seen |-> Both(0), counted |-> {}]

Locals == [from : Wallets \cup {NoWallet}, to : Wallets \cup {NoWallet},
           locked : Balance, seen : Balance, counted : SUBSET Req]

Bodies == [key : Keys, sprayer : Users, receiver : Users, amount : Amounts]

Transfers == [by : Req, reference : References, from : Wallets, to : Wallets, amount : Int]

TypeOK ==
  /\ TablesTypeOK
  /\ body \in [Req -> Bodies]
  /\ pc \in [Req -> Places]
  /\ local \in [Req -> Locals]
  /\ reply \in [Req -> Req \cup {NoOne}]
  /\ status \in {"LIVE", "ENDED"}
  /\ seat \in [Users -> Wallets \cup {NoWallet, Absent}]
  /\ transfers \subseteq Transfers
  /\ emitted \subseteq [spray : Req, counted : SUBSET Req]
  /\ crashes \in 0..MaxCrashes

Init ==
  /\ TablesInit
  /\ body \in [Req -> Bodies]
  /\ pc = [q \in Req |-> "idle"]
  /\ local = [q \in Req |-> Fresh]
  /\ reply = [q \in Req |-> NoOne]
  /\ status = "LIVE"
  /\ seat = Seats
  /\ transfers = {}
  /\ emitted = {}
  /\ crashes = 0

(***************************************************************************)
(* How a step of call q moves on.  A handler that ends drops its locals.   *)
(***************************************************************************)
Goto(q, place) == pc' = [pc EXCEPT ![q] = place]

Keep(q, l) == local' = [local EXCEPT ![q] = l]

\* The handler throws: the caller gets an error, a transaction rolls back.
Throw(q) ==
  /\ Goto(q, "failed")
  /\ Keep(q, Fresh)
  /\ Release(q)
  /\ UNCHANGED <<balance, transaction, spray, body, reply, eventVars, worldVars>>

\* A read that only moves the handler on.
Proceed(q, place) ==
  /\ Goto(q, place)
  /\ UNCHANGED <<tables, body, local, reply, eventVars, worldVars>>

\* A read whose result the handler keeps in its locals.
Remember(q, l, place) ==
  /\ Goto(q, place)
  /\ Keep(q, l)
  /\ UNCHANGED <<tables, body, reply, eventVars, worldVars>>

Start(q) ==
  /\ pc[q] = "idle"
  /\ Cardinality(InFlight) < MaxInFlight
  /\ Proceed(q, "checkKey")

\* Slip: the answer is any spray there is, not the one of the key.
CheckKeyAnySpray(q) ==
  /\ pc[q] = "checkKey"
  /\ \/ spray = {} /\ Proceed(q, "readEvent")
     \/ \E s \in spray :
          /\ reply' = [reply EXCEPT ![q] = s.id]
          /\ Goto(q, "replay")
          /\ UNCHANGED <<tables, body, local, eventVars, worldVars>>

\* A key whose transaction has a spray is answered from the table.
CheckKey(q) ==
  /\ pc[q] = "checkKey"
  /\ \/ /\ SpraysUnder(ClientRef(body[q].key)) = {}
        /\ Proceed(q, "readEvent")
     \/ \E s \in SpraysUnder(ClientRef(body[q].key)) :
          /\ reply' = [reply EXCEPT ![q] = s.id]
          /\ Goto(q, "replay")
          /\ UNCHANGED <<tables, body, local, eventVars, worldVars>>

\* A replay reads the totals for the answer and sends no event.
Replay(q) ==
  /\ pc[q] = "replay"
  /\ Proceed(q, "done")

AmountAllowed(a) == a > 0 /\ a >= MinSprayAmount

ReadEvent(q) ==
  /\ pc[q] = "readEvent"
  /\ IF status = "LIVE" /\ AmountAllowed(body[q].amount)
     THEN Proceed(q, "readSprayer")
     ELSE Throw(q)

SeatWallet(u) == IF seat[u] \in Wallets THEN seat[u] ELSE NoWallet

ReadSprayer(q) ==
  /\ pc[q] = "readSprayer"
  /\ IF seat[body[q].sprayer] = Absent
     THEN Throw(q)
     ELSE Remember(q, [local[q] EXCEPT !.from = SeatWallet(body[q].sprayer)], "readReceiver")

\* The receiver's wallet is read with its balances, long before they are used.
WithReceiver(l, w) ==
  [l EXCEPT !.to = w, !.seen = IF w = NoWallet THEN @ ELSE balance[w]]

\* The checks made once both wallets are known.
WalletsMatch(from, to) ==
  Currency[from] = Currency[to] /\ {from, to} \subseteq Provisioned

ReadReceiver(q) ==
  LET l == WithReceiver(local[q], SeatWallet(body[q].receiver)) IN
  /\ pc[q] = "readReceiver"
  /\ IF seat[body[q].receiver] = Absent
     THEN Throw(q)
     ELSE IF NoWallet \in {l.from, l.to}
          THEN Remember(q, l, "readDefaults")
          ELSE IF WalletsMatch(l.from, l.to)
               THEN Remember(q, l, "lockCheck")
               ELSE Throw(q)

\* A seat without a wallet falls back on the default wallet of its user.
WithDefaults(q) ==
  LET l == IF local[q].to = NoWallet
           THEN WithReceiver(local[q], DefaultWallet[body[q].receiver])
           ELSE local[q]
  IN  [l EXCEPT !.from = IF @ = NoWallet THEN DefaultWallet[body[q].sprayer] ELSE @]

ReadDefaults(q) ==
  LET l == WithDefaults(q) IN
  /\ pc[q] = "readDefaults"
  /\ IF NoWallet \notin {l.from, l.to} /\ WalletsMatch(l.from, l.to)
     THEN Remember(q, l, "lockCheck")
     ELSE Throw(q)

\* First transaction: take the sprayer's row lock, read the balance, check it,
\* and commit, which gives the lock back.  Its 5 second timeout may fire
\* while it waits.
LockCheck(q) ==
  LET from == local[q].from IN
  /\ pc[q] = "lockCheck"
  /\ \/ /\ Free(from, q)
        /\ balance[from].available >= body[q].amount
        /\ Remember(q, [local[q] EXCEPT !.locked = balance[from]], "callProvider")
     \/ /\ Free(from, q)
        /\ balance[from].available < body[q].amount
        /\ Throw(q)
     \/ /\ ~Free(from, q)
        /\ Throw(q)

TransferOf(q) ==
  [by |-> q, reference |-> ClientRef(body[q].key), from |-> local[q].from,
   to |-> local[q].to, amount |-> body[q].amount]

\* Slip: a refusal of the provider is not noticed.
CallProviderUnchecked(q) ==
  /\ pc[q] = "callProvider"
  /\ \/ transfers' = transfers \cup {TransferOf(q)}
     \/ UNCHANGED transfers
  /\ Goto(q, "lockSprayer")
  /\ UNCHANGED <<tables, body, local, reply, eventVars, emitted, crashes>>

\* The provider executes the transfer and says so, or executes it and the
\* answer is lost, or refuses it.
CallProvider(q) ==
  /\ pc[q] = "callProvider"
  /\ \/ /\ transfers' = transfers \cup {TransferOf(q)}
        /\ \/ Goto(q, "lockSprayer") /\ UNCHANGED local
           \/ Goto(q, "failed") /\ Keep(q, Fresh)
        /\ UNCHANGED <<tables, body, reply, eventVars, emitted, crashes>>
     \/ Throw(q)

\* Slip: the first update is made outside the transaction.
LockSprayerWritingNow(q) ==
  /\ pc[q] = "lockSprayer"
  /\ Free(local[q].from, q)
  /\ Lock(local[q].from, q)
  /\ balance' = [balance EXCEPT ![local[q].from] = Minus(local[q].locked, body[q].amount)]
  /\ Goto(q, "lockReceiver")
  /\ UNCHANGED <<transaction, spray, body, local, reply, eventVars, worldVars>>

\* Second transaction: the two wallet updates, in this order.
LockSprayer(q) ==
  /\ pc[q] = "lockSprayer"
  /\ Free(local[q].from, q)
  /\ Lock(local[q].from, q)
  /\ Goto(q, "lockReceiver")
  /\ UNCHANGED <<balance, transaction, spray, body, local, reply, eventVars, worldVars>>

LockReceiver(q) ==
  /\ pc[q] = "lockReceiver"
  /\ Free(local[q].to, q)
  /\ Lock(local[q].to, q)
  /\ Goto(q, "insert")
  /\ UNCHANGED <<balance, transaction, spray, body, local, reply, eventVars, worldVars>>

\* The new balances are computed from the balances read earlier.  When both
\* wallets are the same row, the second update is the one that stays.
NewBalances(q) ==
  [balance EXCEPT ![local[q].from] = Minus(local[q].locked, body[q].amount),
                  ![local[q].to] = Plus(local[q].seen, body[q].amount)]

DebitRow(q) ==
  [reference |-> ClientRef(body[q].key), wallet |-> local[q].from, type |-> "SPRAY",
   direction |-> "DEBIT", status |-> "SUCCESS", amount |-> body[q].amount, group |-> q]

CreditRow(q) ==
  [reference |-> DrawnRef("credit", q), wallet |-> local[q].to, type |-> "SPRAY",
   direction |-> "CREDIT", status |-> "SUCCESS", amount |-> body[q].amount, group |-> q]

SprayOf(q) ==
  [id |-> q, from |-> local[q].from, to |-> local[q].to, amount |-> body[q].amount,
   debit |-> ClientRef(body[q].key), group |-> q]

Record(q, rows) ==
  /\ balance' = NewBalances(q)
  /\ transaction' = transaction \cup rows
  /\ spray' = spray \cup {SprayOf(q)}
  /\ Release(q)
  /\ Goto(q, "readTotals")
  /\ UNCHANGED <<body, local, reply, eventVars, worldVars>>

\* Slip: the reference is not unique.
InsertAndCommitDuplicate(q) == pc[q] = "insert" /\ Record(q, {DebitRow(q), CreditRow(q)})

\* Slip: the credit row is inserted outside the transaction, and may be missed.
InsertAndCommitWithoutCredit(q) ==
  /\ pc[q] = "insert"
  /\ IF ReferenceTaken(ClientRef(body[q].key)) THEN Throw(q) ELSE Record(q, {DebitRow(q)})

\* The three inserts and the commit.  A taken reference aborts everything.
InsertAndCommit(q) ==
  /\ pc[q] = "insert"
  /\ IF ReferenceTaken(ClientRef(body[q].key))
     THEN Throw(q)
     ELSE Record(q, {DebitRow(q), CreditRow(q)})

\* Slip: the rollback does not give the locks back.
TxAbortKeepingLocks(q) ==
  /\ pc[q] \in InTx
  /\ Goto(q, "failed")
  /\ Keep(q, Fresh)
  /\ UNCHANGED <<tables, body, reply, eventVars, worldVars>>

\* Slip: the transaction has no timeout and nothing breaks a deadlock.
TxAbortNever(q) == FALSE /\ pc[q] \in InTx /\ Throw(q)

\* The 10 second timeout of the transaction, or Postgres choosing it as the
\* victim of a deadlock.
TxAbort(q) ==
  /\ pc[q] \in InTx
  /\ Throw(q)

\* Slip: the totals were computed before the commit.
ReadTotalsBeforeCommit(q) ==
  /\ pc[q] = "readTotals"
  /\ Remember(q, [local[q] EXCEPT !.counted = ({s.id : s \in spray} \cap Req) \ {q}], "answer")

\* computeEventTotals: every spray of the event so far.
ReadTotals(q) ==
  /\ pc[q] = "readTotals"
  /\ Remember(q, [local[q] EXCEPT !.counted = {s.id : s \in spray} \cap Req], "answer")

Answer(q) ==
  /\ pc[q] = "answer"
  /\ emitted' = emitted \cup {[spray |-> q, counted |-> local[q].counted]}
  /\ reply' = [reply EXCEPT ![q] = q]
  /\ Goto(q, "done")
  /\ Keep(q, Fresh)
  /\ UNCHANGED <<tables, body, eventVars, transfers, crashes>>

(***************************************************************************)
(* What happens around the calls.                                          *)
(***************************************************************************)

\* The host ends the event or puts it back to LIVE.
SetStatus(s) ==
  /\ status' = s
  /\ UNCHANGED <<tables, actorVars, seat, worldVars>>

\* A participant other than the host leaves.
LeaveEvent(u) ==
  /\ u /= Host
  /\ seat[u] /= Absent
  /\ seat' = [seat EXCEPT ![u] = Absent]
  /\ UNCHANGED <<tables, actorVars, status, worldVars>>

\* The process dies: calls in progress are never answered, and the database
\* rolls their transactions back.
Crash ==
  /\ crashes < MaxCrashes
  /\ crashes' = crashes + 1
  /\ pc' = [q \in Req |-> IF q \in InFlight THEN "lost" ELSE pc[q]]
  /\ local' = [q \in Req |-> IF q \in InFlight THEN Fresh ELSE local[q]]
  /\ reply' = [q \in Req |-> IF q \in InFlight THEN NoOne ELSE reply[q]]
  /\ rowLock' = [w \in Wallets |-> IF rowLock[w] \in Req THEN NoOne ELSE rowLock[w]]
  /\ UNCHANGED <<balance, transaction, spray, body, eventVars, transfers, emitted>>

(***************************************************************************)
(* A step the server takes by itself once a call has arrived.              *)
(***************************************************************************)
Step(q) ==
  \/ CheckKey(q) \/ Replay(q)
  \/ ReadEvent(q) \/ ReadSprayer(q) \/ ReadReceiver(q) \/ ReadDefaults(q)
  \/ LockCheck(q) \/ CallProvider(q)
  \/ LockSprayer(q) \/ LockReceiver(q) \/ InsertAndCommit(q)
  \/ ReadTotals(q) \/ Answer(q)

Next ==
  \/ \E q \in Req : Start(q) \/ Step(q) \/ TxAbort(q)
  \/ \E s \in {"LIVE", "ENDED"} : SetStatus(s)
  \/ \E u \in Users : LeaveEvent(u)
  \/ Crash

Spec == Init /\ [][Next]_vars

(***************************************************************************)
(* The event loop runs every handler whose await is over; the provider's   *)
(* answer or the failure of its connection arrives; and a transaction is   *)
(* bounded by its timeout.                                                 *)
(***************************************************************************)
Fairness == \A q \in Req : WF_vars(Step(q)) /\ WF_vars(TxAbort(q))

FairSpec == Spec /\ Fairness

(***************************************************************************)
(* What a call may rely on at each await.  The properties below follow     *)
(* from these facts, and no step breaks them.                              *)
(***************************************************************************)

\* Past the checks of the event the amount is positive; from the lock check on
\* both wallets are known.
Checked == {"readSprayer", "readReceiver", "readDefaults", "lockCheck", "callProvider"} \cup InTx

WalletsKnown ==
  \A q \in Req :
    /\ pc[q] \in Checked => body[q].amount > 0
    /\ pc[q] \in {"lockCheck", "callProvider"} \cup InTx =>
         local[q].from \in Wallets /\ local[q].to \in Wallets

\* The balances a call remembers, however old, were sound and cover the amount.
Sound(b) == b.available >= 0 /\ b.ledger = b.available

SnapshotsAreSound ==
  \A q \in Req :
    /\ Sound(local[q].seen) /\ Sound(local[q].locked)
    /\ pc[q] \in {"callProvider"} \cup InTx => local[q].locked.available >= body[q].amount

\* A call inside the recording transaction has been paid for.
PaidBeforeRecording == \A q \in Req : pc[q] \in InTx => TransferOf(q) \in transfers

\* A spray belongs to a call that has passed its commit.
SpraysBelong ==
  \A s \in spray :
    /\ s.id \in Req /\ s.group = s.id
    /\ pc[s.id] \in {"readTotals", "answer", "done", "lost"}
    /\ s.debit = ClientRef(body[s.id].key)

\* Only the rows of sprays are here, and calls past the commit have theirs.
AnswersAreRecorded ==
  \A q \in Req :
    /\ pc[q] \in {"readTotals", "answer"} => \E s \in spray : s.id = q
    /\ pc[q] = "answer" =>
         q \in local[q].counted /\ local[q].counted \subseteq {s.id : s \in spray}
    /\ pc[q] \in {"replay", "done"} =>
         \E s \in spray : s.id = reply[q] /\ s.debit = ClientRef(body[q].key)

(***************************************************************************)
(*                              PROPERTIES                                 *)
(***************************************************************************)

\* Every spray is whole, however the calls interleave, time out or die: it has
\* the debit row it points at and one credit row, of its group and its amount;
\* no such row exists without its spray (sprays.service.ts:320-376).
SpraysAreWhole ==
  /\ \A s \in spray : s.id \in Req =>
       \E d, c \in transaction :
         /\ d.reference = s.debit /\ d.wallet = s.from /\ d.direction = "DEBIT"
         /\ c.wallet = s.to /\ c.direction = "CREDIT"
         /\ d.group = s.group /\ c.group = s.group
         /\ d.amount = s.amount /\ c.amount = s.amount
  /\ \A t \in transaction : t.group \in Req => \E s \in spray : s.group = t.group

\* A recorded spray is money the provider has really moved: the same call had
\* the same amount moved between the same wallets (sprays.service.ts:293).
SpraysArePaid ==
  \A s \in spray : s.id \in Req =>
    [by |-> s.id, reference |-> s.debit, from |-> s.from, to |-> s.to,
     amount |-> s.amount] \in transfers

\* Two sprays never stand under one idempotency key, also when two calls with
\* that key have both passed the check of sprays.service.ts:70 before either
\* has committed.
OneSprayPerKey ==
  \A s, t \in spray : s.debit = t.debit => s = t

\* spray.created goes out only for a committed spray, with totals that count
\* it and count nothing uncommitted (sprays.service.ts:392).
EventsFollowCommits ==
  \A e \in emitted : e.spray \in e.counted /\ e.counted \subseteq {s.id : s \in spray}

\* Balances computed from stale reads may be wrong, yet no interleaving takes
\* one below zero, and the available and ledger balances never come apart.
BalancesStaySound == \A w \in Wallets : Sound(balance[w])

\* A row lock is held only by a call standing inside its second transaction:
\* no error path, timeout or crash leaves a wallet locked.
LocksAreInUse ==
  \A w \in Wallets : rowLock[w] \in Req =>
    pc[rowLock[w]] \in InTx /\ w \in {local[rowLock[w]].from, local[rowLock[w]].to}

\* The inductive invariant.
IInv ==
  /\ TypeOK
  /\ WalletsKnown /\ SnapshotsAreSound /\ PaidBeforeRecording
  /\ SpraysBelong /\ AnswersAreRecorded
  /\ SpraysAreWhole /\ SpraysArePaid /\ OneSprayPerKey
  /\ EventsFollowCommits /\ BalancesStaySound /\ LocksAreInUse

\* createSpray behaves as an idempotent endpoint (PostingBook).
RowOf(s) == [key |-> s.debit, by |-> s.id]

AnswerTo(q) ==
  IF pc[q] \in {"failed", "lost"} THEN <<"error">>
  ELSE IF pc[q] = "done"
       THEN <<"returned", [key |-> ClientRef(body[q].key), by |-> reply[q]]>>
       ELSE <<"pending">>

Book == INSTANCE PostingBook WITH
  Caller <- Req,
  Ref    <- References,
  NoRef  <- NoOne,
  asked  <- [q \in Req |-> ClientRef(body[q].key)],
  posted <- {RowOf(s) : s \in spray},
  answer <- [q \in Req |-> AnswerTo(q)]

ImplementsPostingBook == Book!Spec

\* A balance changes only together with the rows that explain it.
BalanceWritesAreBooked ==
  [][\A w \in Wallets : balance'[w] /= balance[w] =>
       \E s \in spray' \ spray : w \in {s.from, s.to}]_vars

\* A spray between two wallets takes its amount from the one and adds it to
\* the other.  Holds when calls are served one at a time (MaxInFlight = 1).
SpraysMoveTheirAmount ==
  [][\A s \in spray' \ spray : s.from /= s.to =>
       balance' = [balance EXCEPT ![s.from] = Minus(@, s.amount),
                                  ![s.to] = Plus(@, s.amount)]]_vars

\* "Lock wallet and check balance BEFORE calling provider.  This prevents race
\* conditions where multiple requests try to spend the same balance"
\* (sprays.service.ts:234-235): what a wallet has sent is covered by what it had.
SpendingIsCovered ==
  \A w \in Wallets : Booked(w) >= 0

\* "Requires Idempotency-Key header to prevent duplicate charges."
\* (sprays.controller.ts:37): the provider moves money at most once per key.
ChargedOncePerKey ==
  \A m, n \in transfers : m.reference = n.reference => m = n

\* Every call that arrives ends: no wait for a row lock, not even two sprays in
\* opposite directions, holds a caller for ever.
EveryCallEnds ==
  \A q \in Req : (pc[q] \in Running) ~> (pc[q] \in Ended)
=============================================================================
