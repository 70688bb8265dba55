--------------------------- MODULE SpendingProofs ---------------------------
(***************************************************************************)
(* Sprays and transfers over the same tables, for every number of calls of *)
(* both kinds, of wallets and of keys: what is recorded was moved by the   *)
(* provider, records of a transfer are written in order, one key has one   *)
(* Spray whichever service wrote it, and while calls come one at a time a  *)
(* balance is what the finished moves left; and the two services implement *)
(* PostingBook together.                                                   *)
(***************************************************************************)
EXTENDS Spending, LedgerProofs

USE DEF vars, spending, transferVars, tables, S!tables, S!actorVars, S!eventVars, S!worldVars

(***************************************************************************)
(* The inductive invariant.                                                *)
(***************************************************************************)
Recording == {"insertDebit", "insertCredit", "insertSpray"}

WalletsKnown ==
  \A q \in Req : pc[q] \in {"lockCheck", "callProvider"} \cup S!InTx =>
    local[q].from \in Wallets /\ local[q].to \in Wallets

PaidBeforeRecording ==
  /\ \A q \in Req : pc[q] \in S!InTx => S!TransferOf(q) \in moved
  /\ \A t \in Transfer : at[t] \in Recording => MoveOf(t) \in moved

ReferencesTell ==
  /\ \A r1, r2 \in transaction : r1.reference = r2.reference => r1.group = r2.group
  /\ \A r \in transaction : \A c \in Actor : r.reference = DrawnRef("credit", c) => r.group = c
  /\ \A s \in spray : \E r \in transaction : r.reference = s.debit /\ r.group = s.id

Recorded(t, dir) == \E r \in transaction : r.group = t /\ r.direction = dir
DebitStands(t) ==
  \E r \in transaction : r.group = t /\ r.direction = "DEBIT" /\ r.reference = ReferenceOf(t)

TransfersStand ==
  \A t \in Transfer :
    /\ at[t] \in {"idle", "readFrom", "readTo", "callProvider", "insertDebit"} =>
         \A r \in transaction : r.group /= t
    /\ at[t] \in {"insertCredit", "insertSpray"} => DebitStands(t)
    /\ at[t] = "insertSpray" => Recorded(t, "CREDIT")
    /\ at[t] \in {"idle", "readFrom", "readTo", "callProvider"} \cup Recording =>
         \A s \in spray : s.id /= t
    /\ (\E r \in transaction : r.group = t) => DebitStands(t)
    /\ (\E s \in spray : s.id = t) => Recorded(t, "CREDIT") /\ Recorded(t, "DEBIT")
    /\ at[t] \in {"writeBoth", "writeFrom", "writeTo", "done"} => \E s \in spray : s.id = t

AnswersAreRecorded ==
  \A q \in Req :
    /\ pc[q] \in {"readTotals", "answer"} =>
         \E s \in spray : s.debit = ClientRef(body[q].key) /\ s.id = q
    /\ pc[q] \in {"replay", "done"} =>
         \E s \in spray : s.debit = ClientRef(body[q].key) /\ s.id = reply[q]

OneSprayPerReference == \A s1, s2 \in spray : s1.debit = s2.debit => s1 = s2

SpendingInv ==
  /\ TypeOK /\ WalletsKnown /\ PaidBeforeRecording /\ RecordsWereMoved
  /\ ReferencesTell /\ TransfersStand /\ AnswersAreRecorded /\ OneSprayPerReference

(***************************************************************************)
(* Types.                                                                  *)
(***************************************************************************)

\* The names of Ledger mean the same in Sprays.
LEMMA SameLedger ==
  /\ \A b, n : S!Plus(b, n) = Plus(b, n) /\ S!Minus(b, n) = Minus(b, n)
  /\ \A n : S!Both(n) = Both(n)
  /\ \A k : S!ClientRef(k) = ClientRef(k)
  /\ \A kind, a : S!DrawnRef(kind, a) = DrawnRef(kind, a)
  /\ S!Balance = Balance
  /\ \A ref : S!ReferenceTaken(ref) = ReferenceTaken(ref)
BY DEF S!Plus, Plus, S!Minus, Minus, S!Both, Both, S!ClientRef, ClientRef, S!DrawnRef, DrawnRef,
       S!Balance, Balance, S!ReferenceTaken, ReferenceTaken

LEMMA BalanceArithmetic ==
  ASSUME NEW b \in Balance, NEW n \in Int
  PROVE  Plus(b, n) \in Balance /\ Minus(b, n) \in Balance
BY DEF Balance, Plus, Minus

LEMMA BothIsBalance == ASSUME NEW n \in Int PROVE Both(n) \in Balance
BY DEF Balance, Both

LEMMA ReferencesAre ==
  /\ \A k \in Keys : ClientRef(k) \in References
  /\ \A a \in Actor : DrawnRef("credit", a) \in References /\ DrawnRef("debit", a) \in References
                      /\ DrawnRef("payout", a) \in References
BY DEF References

LEMMA FreshIsLocals == S!Fresh \in S!Locals
BY BothIsBalance, SameLedger DEF S!Fresh, S!Locals

LEMMA PlacesAre ==
  S!Places = {"idle", "checkKey", "readEvent", "readSprayer", "readReceiver", "readDefaults",
              "lockCheck", "callProvider", "lockSprayer", "lockReceiver", "insert",
              "readTotals", "answer", "replay", "done", "failed", "lost"}
BY DEF S!Places, S!Running, S!Reading, S!Waiting, S!InTx, S!Ended

\* What of TypeOK a spray can disturb.
SprayTypeOK ==
  /\ TablesTypeOK /\ moved \subseteq Move
  /\ body \in [Req -> S!Bodies]
  /\ pc \in [Req -> S!Places]
  /\ local \in [Req -> S!Locals]
  /\ reply \in [Req -> Actor \cup {NoOne}]

LEMMA ThrowType == ASSUME SprayTypeOK, NEW q \in Req, S!Throw(q) PROVE SprayTypeOK'
<1>1. TablesTypeOK'
  BY SpendingAssumption DEF SprayTypeOK, TablesTypeOK, S!Throw, S!Release
<1>2. pc' \in [Req -> S!Places]
  BY PlacesAre DEF SprayTypeOK, S!Throw, S!Goto
<1>3. local' \in [Req -> S!Locals]
  BY FreshIsLocals DEF SprayTypeOK, S!Throw, S!Keep
<1>4. UNCHANGED <<moved, body, reply>>
  BY DEF S!Throw
<1> QED BY <1>1, <1>2, <1>3, <1>4 DEF SprayTypeOK

LEMMA RememberType ==
  ASSUME SprayTypeOK, NEW q \in Req, NEW l \in S!Locals, NEW place \in S!Places,
         S!Remember(q, l, place)
  PROVE  SprayTypeOK'
BY DEF SprayTypeOK, TablesTypeOK, S!Remember, S!Goto, S!Keep

LEMMA ProceedType ==
  ASSUME SprayTypeOK, NEW q \in Req, NEW place \in S!Places, S!Proceed(q, place)
  PROVE  SprayTypeOK'
BY DEF SprayTypeOK, TablesTypeOK, S!Proceed, S!Goto

LEMMA LocalsUpdate ==
  ASSUME NEW l \in S!Locals, NEW w \in Wallets \cup {NoWallet}, NEW b \in Balance
  PROVE  /\ [l EXCEPT !.from = w] \in S!Locals
         /\ [l EXCEPT !.locked = b] \in S!Locals
         /\ [l EXCEPT !.to = w, !.seen = b] \in S!Locals
BY SameLedger DEF S!Locals

LEMMA SeatWalletType == ASSUME NEW u PROVE S!SeatWallet(u) \in Wallets \cup {NoWallet}
BY DEF S!SeatWallet

LEMMA WithReceiverType ==
  ASSUME SprayTypeOK, NEW l \in S!Locals, NEW w \in Wallets \cup {NoWallet}
  PROVE  S!WithReceiver(l, w) \in S!Locals
<1>1. CASE w = NoWallet
  BY <1>1 DEF S!WithReceiver, S!Locals
<1>2. CASE w /= NoWallet
  BY <1>2, LocalsUpdate DEF S!WithReceiver, SprayTypeOK, TablesTypeOK
<1> QED BY <1>1, <1>2

LEMMA WithDefaultsType ==
  ASSUME SprayTypeOK, NEW q \in Req PROVE S!WithDefaults(q) \in S!Locals
<1> DEFINE l == IF local[q].to = NoWallet
                THEN S!WithReceiver(local[q], DefaultWallet[body[q].receiver])
                ELSE local[q]
           w == IF l.from = NoWallet THEN DefaultWallet[body[q].sprayer] ELSE l.from
<1>1. local[q] \in S!Locals /\ body[q] \in S!Bodies
  BY DEF SprayTypeOK
<1>2. l \in S!Locals
  BY <1>1, WithReceiverType, SpendingAssumption DEF S!Bodies
<1>3. w \in Wallets \cup {NoWallet}
  BY <1>1, <1>2, SpendingAssumption DEF S!Bodies, S!Locals
<1>4. [l EXCEPT !.from = w] \in S!Locals
  BY <1>2, <1>3 DEF S!Locals
<1> QED BY <1>4 DEF S!WithDefaults
Sprays(q) == S!Start(q) \/ S!Step(q) \/ S!TxAbort(q)

\* The rows and balances a spray writes when it commits.
LEMMA CommitType ==
  ASSUME SprayTypeOK, NEW q \in Req,
         local[q].from \in Wallets, local[q].to \in Wallets,
         S!Record(q, {S!DebitRow(q), S!CreditRow(q)})
  PROVE  SprayTypeOK'
<1> body[q] \in S!Bodies /\ local[q] \in S!Locals /\ q \in Actor
  BY SpendingAssumption DEF SprayTypeOK
<1>1. body[q].amount \in Int /\ body[q].key \in Keys
  BY SpendingAssumption DEF S!Bodies
<1>2. local[q].locked \in Balance /\ local[q].seen \in Balance
  BY SameLedger DEF S!Locals
<1>3. Minus(local[q].locked, body[q].amount) \in Balance /\ Plus(local[q].seen, body[q].amount) \in Balance
  BY <1>1, <1>2, BalanceArithmetic
<1>4. S!NewBalances(q) \in [Wallets -> Balance]
  BY <1>3, SameLedger DEF S!NewBalances, SprayTypeOK, TablesTypeOK
<1>5. S!DebitRow(q) \in TransactionRow /\ S!CreditRow(q) \in TransactionRow
  BY <1>1, ReferencesAre, SameLedger DEF S!DebitRow, S!CreditRow, TransactionRow
<1>6. S!SprayOf(q) \in SprayRow
  BY <1>1, ReferencesAre, SameLedger DEF S!SprayOf, SprayRow
<1>7. rowLock' \in [Wallets -> Actor \cup {NoOne}]
  BY DEF SprayTypeOK, TablesTypeOK, S!Record, S!Release
<1>8. /\ balance' = S!NewBalances(q)
      /\ transaction' = transaction \cup {S!DebitRow(q), S!CreditRow(q)}
      /\ spray' = spray \cup {S!SprayOf(q)}
      /\ UNCHANGED <<body, local, reply, moved>>
  BY DEF S!Record
<1>9. TablesTypeOK'
  BY <1>4, <1>5, <1>6, <1>7, <1>8 DEF SprayTypeOK, TablesTypeOK
<1>10. pc' \in [Req -> S!Places]
  BY PlacesAre DEF SprayTypeOK, S!Record, S!Goto
<1> QED BY <1>8, <1>9, <1>10 DEF SprayTypeOK

LEMMA SprayStepType ==
  ASSUME SprayTypeOK, WalletsKnown, NEW q \in Req, Sprays(q)
  PROVE  SprayTypeOK'
<1> USE PlacesAre
<1> body[q] \in S!Bodies /\ local[q] \in S!Locals /\ q \in Actor
  BY SpendingAssumption DEF SprayTypeOK
<1>1. CASE S!Start(q)
  BY <1>1, ProceedType DEF S!Start
<1>2. CASE S!CheckKey(q)
  <2>1. CASE S!Proceed(q, "readEvent")
    BY <2>1, ProceedType
  <2>2. CASE \E s \in S!SpraysUnder(S!ClientRef(body[q].key)) :
               /\ reply' = [reply EXCEPT ![q] = s.id]
               /\ S!Goto(q, "replay")
               /\ UNCHANGED <<S!tables, body, local, S!eventVars, S!worldVars>>
    <3>1. PICK s \in spray : reply' = [reply EXCEPT ![q] = s.id]
      BY <2>2 DEF S!SpraysUnder
    <3>2. s.id \in Actor
      BY <3>1 DEF SprayTypeOK, TablesTypeOK, SprayRow
    <3>3. reply' \in [Req -> Actor \cup {NoOne}]
      BY <3>1, <3>2 DEF SprayTypeOK
    <3>4. UNCHANGED <<tables, moved, body, local>> /\ pc' = [pc EXCEPT ![q] = "replay"]
      BY <2>2 DEF S!Goto
    <3> QED BY <3>3, <3>4 DEF SprayTypeOK, TablesTypeOK
  <2> QED BY <1>2, <2>1, <2>2 DEF S!CheckKey
<1>3. CASE S!Replay(q)
  BY <1>3, ProceedType DEF S!Replay
<1>4. CASE S!ReadEvent(q)
  BY <1>4, ProceedType, ThrowType DEF S!ReadEvent
<1>5. CASE S!ReadSprayer(q)
  <2>1. [local[q] EXCEPT !.from = S!SeatWallet(body[q].sprayer)] \in S!Locals
    BY SeatWalletType DEF S!Locals
  <2> QED BY <1>5, <2>1, RememberType, ThrowType DEF S!ReadSprayer
<1>6. CASE S!ReadReceiver(q)
  <2>1. S!WithReceiver(local[q], S!SeatWallet(body[q].receiver)) \in S!Locals
    BY SeatWalletType, WithReceiverType
  <2> QED BY <1>6, <2>1, RememberType, ThrowType DEF S!ReadReceiver
<1>7. CASE S!ReadDefaults(q)
  BY <1>7, WithDefaultsType, RememberType, ThrowType DEF S!ReadDefaults
<1>8. CASE S!LockCheck(q)
  <2>1. local[q].from \in Wallets
    BY <1>8 DEF S!LockCheck, WalletsKnown
  <2>2. balance[local[q].from] \in Balance
    BY <2>1 DEF SprayTypeOK, TablesTypeOK
  <2>3. [local[q] EXCEPT !.locked = balance[local[q].from]] \in S!Locals
    BY <2>2, SameLedger DEF S!Locals
  <2> QED BY <1>8, <2>3, RememberType, ThrowType DEF S!LockCheck
<1>9. CASE S!CallProvider(q)
  <2>1. CASE S!Throw(q)
    BY <2>1, ThrowType
  <2>2. CASE ~S!Throw(q)
    <3>1. body[q].amount \in Int /\ body[q].key \in Keys
      BY SpendingAssumption DEF S!Bodies
    <3>2. local[q].from \in Wallets /\ local[q].to \in Wallets
      BY <1>9 DEF S!CallProvider, WalletsKnown
    <3>3. S!TransferOf(q) \in Move
      BY <3>1, <3>2, ReferencesAre, SameLedger DEF S!TransferOf, Move
    <3>4. moved' = moved \cup {S!TransferOf(q)} /\ UNCHANGED <<tables, body, reply>>
      BY <1>9, <2>2 DEF S!CallProvider
    <3>5. pc' \in [Req -> S!Places] /\ local' \in [Req -> S!Locals]
      BY <1>9, <2>2, FreshIsLocals DEF S!CallProvider, S!Goto, S!Keep, SprayTypeOK
    <3> QED BY <3>3, <3>4, <3>5 DEF SprayTypeOK, TablesTypeOK
  <2> QED BY <2>1, <2>2
<1>10. CASE S!LockSprayer(q) \/ S!LockReceiver(q)
  BY <1>10 DEF S!LockSprayer, S!LockReceiver, S!Lock, S!Goto, SprayTypeOK, TablesTypeOK
<1>11. CASE S!InsertAndCommit(q)
  <2>1. local[q].from \in Wallets /\ local[q].to \in Wallets
    BY <1>11 DEF S!InsertAndCommit, WalletsKnown, S!InTx
  <2> QED BY <1>11, <2>1, CommitType, ThrowType DEF S!InsertAndCommit
<1>12. CASE S!ReadTotals(q)
  <2>1. [local[q] EXCEPT !.counted = {s.id : s \in spray} \cap Req] \in S!Locals
    BY DEF S!Locals
  <2> QED BY <1>12, <2>1, RememberType DEF S!ReadTotals
<1>13. CASE S!Answer(q)
  BY <1>13, FreshIsLocals DEF S!Answer, S!Goto, S!Keep, SprayTypeOK, TablesTypeOK
<1>14. CASE S!TxAbort(q)
  BY <1>14, ThrowType DEF S!TxAbort
<1> QED BY <1>1, <1>2, <1>3, <1>4, <1>5, <1>6, <1>7, <1>8, <1>9, <1>10, <1>11, <1>12,
           <1>13, <1>14 DEF S!Step, Sprays
(***************************************************************************)
(* The types of the transfers.                                             *)
(***************************************************************************)
RequestTypeOK ==
  /\ DOMAIN request = Calls
  /\ \A c \in Calls : request[c] \in IF at[c] = "idle" THEN {NoRequest} ELSE Requests(c)
  /\ at \in [Calls -> {"idle"} \cup Places \cup Ends]

RestTypeOK ==
  /\ snap \in [Moving -> Snaps]
  /\ verdict \in [Asking -> {"PENDING", "SUCCESS", "FAILED", "REVERSED"}]
  /\ moved \subseteq Move /\ reversed \subseteq Actor
  /\ overlapped \in BOOLEAN
  /\ faults \in 0..MaxFaults

LEMMA TransfersTypeParts == TransfersTypeOK <=> RequestTypeOK /\ RestTypeOK
BY DEF TransfersTypeOK, RequestTypeOK, RestTypeOK

\* A call that has arrived asks for something it can ask for.
LEMMA RequestOfMoving ==
  ASSUME RequestTypeOK, NEW c \in Moving, at[c] /= "idle"
  PROVE  /\ request[c].from \in Wallets /\ request[c].amount \in Int
         /\ request[c].to \in Wallets \cup {Outside}
         /\ c \in Transfer => request[c].to \in Wallets
         /\ ReferenceOf(c) \in References
<1>1. c \in Calls /\ c \notin Asking /\ c \in Actor
  BY CallAssumption DEF Calls
<1>2. request[c] \in Requests(c)
  BY <1>1 DEF RequestTypeOK
<1>3. request[c] \in Bodies /\ (c \in Transfer => request[c].to \in Wallets)
  BY <1>1, <1>2 DEF Requests
<1>4. /\ request[c].from \in Wallets /\ request[c].amount \in Sums
      /\ request[c].to \in Wallets \cup {Outside} /\ request[c].key \in Keys \cup {NoKey}
  BY <1>3 DEF Bodies
<1>5. request[c].amount \in Int
  <2>1. request[c].amount \in Nat
    BY <1>4, ValueAssumption, Zenon
  <2> QED BY <2>1
<1>6. ReferenceOf(c) \in References
  BY <1>1, <1>4, ReferencesAre DEF ReferenceOf
<1> QED BY <1>3, <1>4, <1>5, <1>6

LEMMA GotoType ==
  ASSUME RequestTypeOK, NEW c \in Calls, at[c] /= "idle",
         NEW place \in Places \cup Ends, Goto(c, place), request' = request
  PROVE  RequestTypeOK'
<1>1. at' \in [Calls -> {"idle"} \cup Places \cup Ends]
  BY DEF RequestTypeOK, Goto
<1>2. place /= "idle"
  BY DEF Places, Ends
<1>3. \A d \in Calls : (at'[d] = "idle") <=> (at[d] = "idle")
  BY <1>2 DEF RequestTypeOK, Goto
<1>4. \A d \in Calls : request'[d] \in IF at'[d] = "idle" THEN {NoRequest} ELSE Requests(d)
  BY <1>3 DEF RequestTypeOK
<1> QED BY <1>1, <1>4 DEF RequestTypeOK, Requests

LEMMA BlankIsSnap == Blank \in Snaps
BY BothIsBalance DEF Blank, Snaps

LEMMA ForgetType ==
  ASSUME NEW c \in Moving, snap \in [Moving -> Snaps], Forget(c)
  PROVE  snap' \in [Moving -> Snaps]
BY BlankIsSnap DEF Forget

LEMMA ArriveType ==
  ASSUME TablesTypeOK, TransfersTypeOK, NEW c \in Calls, Arrive(c)
  PROVE  TablesTypeOK' /\ TransfersTypeOK'
<1>1. PICK r \in Requests(c) : request' = [request EXCEPT ![c] = r]
  BY DEF Arrive
<1>2. at' = [at EXCEPT ![c] = First(c)] /\ UNCHANGED <<tables, snap, verdict, moved, reversed, faults>>
  BY DEF Arrive, Goto
<1>3. First(c) \in Places /\ First(c) /= "idle"
  BY DEF First, Places
<1>4. at' \in [Calls -> {"idle"} \cup Places \cup Ends] /\ DOMAIN request' = Calls
  BY <1>1, <1>2, <1>3 DEF TransfersTypeOK
<1>5. \A d \in Calls : request'[d] \in IF at'[d] = "idle" THEN {NoRequest} ELSE Requests(d)
  <2> TAKE d \in Calls
  <2>1. CASE d = c
    <3>1. request'[d] = r /\ at'[d] = First(c)
      BY <1>1, <1>2, <2>1 DEF TransfersTypeOK
    <3> QED BY <3>1, <1>3, <2>1
  <2>2. CASE d /= c
    <3>1. request'[d] = request[d] /\ at'[d] = at[d]
      BY <1>1, <1>2, <2>2 DEF TransfersTypeOK
    <3>2. request[d] \in IF at[d] = "idle" THEN {NoRequest} ELSE Requests(d)
      BY DEF TransfersTypeOK
    <3> QED BY <3>1, <3>2
  <2> QED BY <2>1, <2>2
<1>6. overlapped' \in BOOLEAN
  <2>1. overlapped' = (overlapped \/ InFlight /= {})
    BY DEF Arrive
  <2>2. overlapped' = TRUE \/ overlapped' = FALSE
    BY <2>1 DEF TransfersTypeOK
  <2> QED BY <2>2
<1>7. TablesTypeOK'
  BY <1>2 DEF TablesTypeOK
<1>8. RequestTypeOK'
  BY <1>4, <1>5 DEF RequestTypeOK, Requests
<1>9. RestTypeOK'
  BY <1>2, <1>6 DEF RestTypeOK, TransfersTypeOK
<1>10. TransfersTypeOK'
  BY <1>8, <1>9 DEF TransfersTypeOK, RequestTypeOK, RestTypeOK
<1> QED BY <1>7, <1>10

LEMMA LoseType ==
  ASSUME TransfersTypeOK, NEW dead \in SUBSET InFlight, Lose(dead)
  PROVE  RequestTypeOK'
         /\ snap' \in [Moving -> Snaps] /\ faults' \in 0..MaxFaults
         /\ UNCHANGED <<request, verdict, moved, reversed, overlapped>>
<1>1. at' = [c \in Calls |-> IF c \in dead THEN "lost" ELSE at[c]] /\ UNCHANGED request
  BY DEF Lose
<1>2. \A c \in dead : at[c] /= "idle"
  BY DEF InFlight, Places
<1>3. at' \in [Calls -> {"idle"} \cup Places \cup Ends]
  BY <1>1 DEF TransfersTypeOK, Ends
<1>4. \A d \in Calls : (at'[d] = "idle") <=> (at[d] = "idle")
  BY <1>1, <1>2
<1>5. RequestTypeOK'
  BY <1>1, <1>3, <1>4 DEF RequestTypeOK, TransfersTypeOK, Requests
<1>6. snap' \in [Moving -> Snaps]
  BY BlankIsSnap DEF TransfersTypeOK, Lose
<1>7. faults' \in 0..MaxFaults
  <2>1. faults \in Nat /\ MaxFaults \in Nat /\ faults < MaxFaults /\ faults' = faults + 1
    BY TransferBounds DEF TransfersTypeOK, Lose
  <2> QED BY <2>1
<1> QED BY <1>5, <1>6, <1>7 DEF Lose
LEMMA MovesType ==
  ASSUME TablesTypeOK, RequestTypeOK, NEW c \in Calls, at[c] /= "idle",
         NEW place \in Places \cup Ends, Moves(c, place)
  PROVE  TablesTypeOK' /\ RequestTypeOK' /\ UNCHANGED <<tables, request, overlapped, faults>>
BY GotoType DEF Moves, TablesTypeOK

LEMMA WritesType ==
  ASSUME RequestTypeOK, NEW c \in Calls, at[c] /= "idle",
         NEW place \in Places \cup Ends, Writes(c, place)
  PROVE  RequestTypeOK' /\ UNCHANGED <<rowLock, request, verdict, moved, reversed, overlapped, faults>>
BY GotoType DEF Writes

LEMMA RowType ==
  ASSUME RequestTypeOK, NEW t \in Transfer, at[t] /= "idle",
         NEW ref \in References, NEW w \in Wallets, NEW dir \in {"DEBIT", "CREDIT"}
  PROVE  Row(t, ref, w, dir) \in TransactionRow
<1>1. t \in Moving /\ t \in Actor
  BY CallAssumption DEF Moving, Calls
<1>2. request[t].amount \in Int
  BY <1>1, RequestOfMoving
<1> QED BY <1>1, <1>2 DEF Row, TransactionRow

LEMMA MovingStepType ==
  ASSUME TablesTypeOK, TransfersTypeOK, NEW c \in Moving, MovingStep(c)
  PROVE  TablesTypeOK' /\ TransfersTypeOK'
<1> RequestTypeOK /\ RestTypeOK /\ c \in Calls
  BY TransfersTypeParts DEF Calls
<1> at[c] /= "idle"
  BY DEF MovingStep, ReadFrom, CallProvider, WriteFrom
<1> /\ request[c].from \in Wallets /\ request[c].amount \in Int
    /\ request[c].to \in Wallets \cup {Outside} /\ ReferenceOf(c) \in References
  BY RequestOfMoving
<1> SUFFICES TablesTypeOK' /\ RequestTypeOK' /\ RestTypeOK'
  BY DEF TransfersTypeOK, RequestTypeOK, RestTypeOK
<1> balance[request[c].from] \in Balance
  BY DEF TablesTypeOK
<1>1. CASE ReadFrom(c)
  <2>1. PICK place \in {"failed", "readTo", "callProvider"} : Moves(c, place)
    BY <1>1 DEF ReadFrom
  <2>2. place \in Places \cup Ends
    BY DEF Places, Ends
  <2>3. TablesTypeOK' /\ RequestTypeOK' /\ UNCHANGED <<overlapped, faults>>
    BY <2>1, <2>2, MovesType
  <2>4. snap' \in [Moving -> Snaps]
    BY <1>1 DEF ReadFrom, RestTypeOK, Snaps
  <2>5. UNCHANGED <<verdict, moved, reversed>>
    BY <1>1 DEF ReadFrom
  <2> QED BY <2>3, <2>4, <2>5 DEF RestTypeOK
<1>2. CASE CallProvider(c)
  <2>1. PICK place \in {"failed", "insertDebit", "writeFrom"} : Moves(c, place)
    BY <1>2 DEF CallProvider, AfterProvider
  <2>2. place \in Places \cup Ends
    BY DEF Places, Ends
  <2>3. TablesTypeOK' /\ RequestTypeOK' /\ UNCHANGED <<overlapped, faults>>
    BY <2>1, <2>2, MovesType
  <2>4. snap' \in [Moving -> Snaps]
    BY <1>2, ForgetType DEF CallProvider, RestTypeOK
  <2>5. MoveOf(c) \in Move
    BY CallAssumption DEF MoveOf, Move, Calls
  <2>6. moved' \subseteq Move
    BY <1>2, <2>5 DEF CallProvider, RestTypeOK
  <2>7. UNCHANGED <<verdict, reversed>>
    BY <1>2 DEF CallProvider
  <2> QED BY <2>3, <2>4, <2>6, <2>7 DEF RestTypeOK
<1>3. CASE WriteFrom(c)
  <2>1. PICK place \in {"writeTo", "done"} : Writes(c, place)
    BY <1>3 DEF WriteFrom
  <2>2. place \in Places \cup Ends
    BY DEF Places, Ends
  <2>3. RequestTypeOK' /\ UNCHANGED <<rowLock, verdict, moved, reversed, overlapped, faults>>
    BY <2>1, <2>2, WritesType
  <2>4. snap' \in [Moving -> Snaps]
    BY <1>3, ForgetType DEF WriteFrom, RestTypeOK
  <2>5. snap[c].from \in Balance
    BY DEF RestTypeOK, Snaps
  <2>6. Minus(snap[c].from, request[c].amount) \in Balance
    BY <2>5, BalanceArithmetic
  <2>7. balance' = [balance EXCEPT ![request[c].from] = Minus(snap[c].from, request[c].amount)]
        /\ UNCHANGED <<transaction, spray>>
    BY <1>3 DEF WriteFrom
  <2>8. TablesTypeOK'
    BY <2>3, <2>6, <2>7 DEF TablesTypeOK
  <2> QED BY <2>3, <2>4, <2>8 DEF RestTypeOK
<1> QED BY <1>1, <1>2, <1>3 DEF MovingStep
LEMMA TransferStepType ==
  ASSUME TablesTypeOK, TransfersTypeOK, NEW t \in Transfer, TransferStep(t)
  PROVE  TablesTypeOK' /\ TransfersTypeOK'
<1> RequestTypeOK /\ RestTypeOK /\ t \in Calls /\ t \in Moving /\ t \in Actor
  BY TransfersTypeParts, CallAssumption DEF Calls, Moving
<1> at[t] /= "idle"
  BY DEF TransferStep, ReadTo, InsertDebit, InsertCredit, InsertSpray, WriteTo
<1> /\ request[t].from \in Wallets /\ request[t].amount \in Int
    /\ request[t].to \in Wallets /\ ReferenceOf(t) \in References
  BY RequestOfMoving
<1> DrawnRef("credit", t) \in References
  BY ReferencesAre
<1> SUFFICES TablesTypeOK' /\ RequestTypeOK' /\ RestTypeOK'
  BY DEF TransfersTypeOK, RequestTypeOK, RestTypeOK
<1>1. CASE ReadTo(t)
  <2>1. PICK place \in {"failed", "callProvider"} : Moves(t, place)
    BY <1>1 DEF ReadTo
  <2>2. place \in Places \cup Ends
    BY DEF Places, Ends
  <2>3. TablesTypeOK' /\ RequestTypeOK' /\ UNCHANGED <<overlapped, faults>>
    BY <2>1, <2>2, MovesType
  <2>4. balance[request[t].to] \in Balance
    BY DEF TablesTypeOK
  <2>5. snap' \in [Moving -> Snaps]
    <3>1. CASE Forget(t)
      BY <3>1, ForgetType DEF RestTypeOK
    <3>2. CASE snap' = [snap EXCEPT ![t].to = balance[request[t].to]]
      BY <2>4, <3>2 DEF RestTypeOK, Snaps
    <3> QED BY <1>1, <3>1, <3>2 DEF ReadTo
  <2>6. UNCHANGED <<verdict, moved, reversed>>
    BY <1>1 DEF ReadTo
  <2> QED BY <2>3, <2>5, <2>6 DEF RestTypeOK
<1>2. CASE InsertDebit(t)
  <2>1. PICK place \in {"failed", "insertCredit"} : Writes(t, place)
    BY <1>2 DEF InsertDebit
  <2>2. place \in Places \cup Ends
    BY DEF Places, Ends
  <2>3. RequestTypeOK' /\ UNCHANGED <<rowLock, verdict, moved, reversed, overlapped, faults>>
    BY <2>1, <2>2, WritesType
  <2>4. snap' \in [Moving -> Snaps]
    BY <1>2, ForgetType DEF InsertDebit, RestTypeOK
  <2>5. Row(t, ReferenceOf(t), request[t].from, "DEBIT") \in TransactionRow
    BY RowType
  <2>6. TablesTypeOK'
    BY <1>2, <2>3, <2>5 DEF InsertDebit, TablesTypeOK
  <2> QED BY <2>3, <2>4, <2>6 DEF RestTypeOK
<1>3. CASE InsertCredit(t)
  <2>1. "insertSpray" \in Places \cup Ends /\ Writes(t, "insertSpray")
    BY <1>3 DEF InsertCredit, Places
  <2>3. RequestTypeOK' /\ UNCHANGED <<rowLock, verdict, moved, reversed, overlapped, faults>>
    BY <2>1, WritesType
  <2>5. Row(t, DrawnRef("credit", t), request[t].to, "CREDIT") \in TransactionRow
    BY RowType
  <2>6. TablesTypeOK' /\ UNCHANGED snap
    BY <1>3, <2>3, <2>5 DEF InsertCredit, TablesTypeOK
  <2> QED BY <2>3, <2>6 DEF RestTypeOK
<1>4. CASE InsertSpray(t)
  <2>1. "writeBoth" \in Places \cup Ends /\ Writes(t, "writeBoth")
    BY <1>4 DEF InsertSpray, Places
  <2>3. RequestTypeOK' /\ UNCHANGED <<rowLock, verdict, moved, reversed, overlapped, faults>>
    BY <2>1, WritesType
  <2>5. [id |-> t, from |-> request[t].from, to |-> request[t].to, amount |-> request[t].amount,
         debit |-> ReferenceOf(t), group |-> t] \in SprayRow
    BY DEF SprayRow
  <2>6. TablesTypeOK' /\ UNCHANGED snap
    BY <1>4, <2>3, <2>5 DEF InsertSpray, TablesTypeOK
  <2> QED BY <2>3, <2>6 DEF RestTypeOK
<1>5. CASE WriteTo(t)
  <2>1. PICK place \in {"writeFrom", "done"} : Writes(t, place)
    BY <1>5 DEF WriteTo
  <2>2. place \in Places \cup Ends
    BY DEF Places, Ends
  <2>3. RequestTypeOK' /\ UNCHANGED <<rowLock, verdict, moved, reversed, overlapped, faults>>
    BY <2>1, <2>2, WritesType
  <2>4. snap' \in [Moving -> Snaps]
    BY <1>5, ForgetType DEF WriteTo, RestTypeOK
  <2>5. snap[t].to \in Balance
    BY DEF RestTypeOK, Snaps
  <2>6. Plus(snap[t].to, request[t].amount) \in Balance
    BY <2>5, BalanceArithmetic
  <2>7. balance' = [balance EXCEPT ![request[t].to] = Plus(snap[t].to, request[t].amount)]
        /\ UNCHANGED <<transaction, spray>>
    BY <1>5 DEF WriteTo
  <2>8. TablesTypeOK'
    BY <2>3, <2>6, <2>7 DEF TablesTypeOK
  <2> QED BY <2>3, <2>4, <2>8 DEF RestTypeOK
<1> QED BY <1>1, <1>2, <1>3, <1>4, <1>5 DEF TransferStep

\* The rows of Transaction when a requery or a reversal has written a status.
Rewritten(a) ==
  {IF r.reference = request[a] THEN [r EXCEPT !.status = verdict[a]] ELSE r : r \in transaction}

LEMMA AskingStepType ==
  ASSUME TablesTypeOK, TransfersTypeOK, NEW a \in Asking, AskingStep(a)
  PROVE  TablesTypeOK' /\ TransfersTypeOK'
<1> RequestTypeOK /\ RestTypeOK /\ a \in Calls
  BY TransfersTypeParts DEF Calls
<1> at[a] /= "idle"
  BY DEF AskingStep, AskProvider, ReadTransaction, WriteStatus
<1> SUFFICES TablesTypeOK' /\ RequestTypeOK' /\ RestTypeOK'
  BY DEF TransfersTypeOK, RequestTypeOK, RestTypeOK
<1>1. CASE AskProvider(a)
  <2>1. PICK place \in {"failed", "readTransaction", "writeStatus"} : Moves(a, place)
    BY <1>1 DEF AskProvider
  <2>2. place \in Places \cup Ends
    BY DEF Places, Ends
  <2>3. TablesTypeOK' /\ RequestTypeOK' /\ UNCHANGED <<overlapped, faults>>
    BY <2>1, <2>2, MovesType
  <2>4. UNCHANGED <<snap, moved>>
    BY <1>1 DEF AskProvider
  <2>5. verdict' \in [Asking -> {"PENDING", "SUCCESS", "FAILED", "REVERSED"}]
    BY <1>1 DEF AskProvider, RestTypeOK
  <2>6. reversed' \subseteq Actor
    BY <1>1 DEF AskProvider, RestTypeOK, Move
  <2> QED BY <2>3, <2>4, <2>5, <2>6 DEF RestTypeOK
<1>2. CASE ReadTransaction(a)
  <2>1. PICK place \in {"failed", "done", "writeStatus", "askProvider"} : Moves(a, place)
    BY <1>2 DEF ReadTransaction
  <2>2. place \in Places \cup Ends
    BY DEF Places, Ends
  <2>3. TablesTypeOK' /\ RequestTypeOK' /\ UNCHANGED <<overlapped, faults>>
    BY <2>1, <2>2, MovesType
  <2> QED BY <1>2, <2>3 DEF ReadTransaction, RestTypeOK
<1>3. CASE WriteStatus(a)
  <2>1. "done" \in Places \cup Ends /\ Writes(a, "done")
    BY <1>3 DEF WriteStatus, Ends
  <2>2. RequestTypeOK' /\ UNCHANGED <<rowLock, verdict, moved, reversed, overlapped, faults>>
    BY <2>1, WritesType
  <2>3. transaction' = Rewritten(a) /\ UNCHANGED <<balance, spray, snap>>
    BY <1>3 DEF WriteStatus, Rewritten
  <2>4. ASSUME NEW r \in transaction PROVE [r EXCEPT !.status = verdict[a]] \in TransactionRow
    <3>1. verdict[a] \in {"PENDING", "SUCCESS", "FAILED", "REVERSED"}
      BY DEF RestTypeOK
    <3> QED BY <3>1 DEF TablesTypeOK, TransactionRow
  <2>5. transaction' \subseteq TransactionRow
    BY <2>3, <2>4 DEF Rewritten, TablesTypeOK
  <2>6. TablesTypeOK'
    BY <2>2, <2>3, <2>5 DEF TablesTypeOK
  <2> QED BY <2>2, <2>3, <2>6 DEF RestTypeOK
<1> QED BY <1>1, <1>2, <1>3 DEF AskingStep

LEMMA TransfersNextType ==
  ASSUME TablesTypeOK, TransfersTypeOK, TransfersNext
  PROVE  TablesTypeOK' /\ TransfersTypeOK'
<1>1. CASE \E c \in Calls : Arrive(c)
  BY <1>1, ArriveType
<1>2. CASE Step
  BY <1>2, MovingStepType, TransferStepType, AskingStepType DEF Step
<1>3. CASE Fail
  <2>1. PICK c \in InFlight : Lose({c})
    BY <1>3 DEF Fail
  <2>2. /\ RequestTypeOK' /\ snap' \in [Moving -> Snaps] /\ faults' \in 0..MaxFaults
        /\ UNCHANGED <<request, verdict, moved, reversed, overlapped>>
    BY <2>1, LoseType
  <2>3. TablesTypeOK'
    BY <1>3 DEF Fail, TablesTypeOK
  <2>4. RestTypeOK'
    BY <2>2 DEF TransfersTypeOK, RestTypeOK
  <2> QED BY <2>2, <2>3, <2>4 DEF TransfersTypeOK, RequestTypeOK, RestTypeOK
<1> QED BY <1>1, <1>2, <1>3 DEF TransfersNext
LEMMA TypeParts ==
  TypeOK <=> SprayTypeOK /\ TransfersTypeOK /\ mixed \in BOOLEAN
BY DEF TypeOK, SprayTypeOK, TransfersTypeOK

\* A step of the system: a call of one kind moves and the calls of the other
\* stand, or the process dies.
LEMMA NextIs ==
  ASSUME Next
  PROVE  \/ \E q \in Req : Sprays(q) /\ UNCHANGED transferVars
         \/ TransfersNext /\ UNCHANGED spending
         \/ Die
BY DEF Next, SprayStep, Sprays

LEMMA DieType == ASSUME TypeOK, Die PROVE SprayTypeOK' /\ TransfersTypeOK'
<1>1. S!Crash /\ Lose(InFlight)
  BY DEF Die
<1>2. /\ RequestTypeOK' /\ snap' \in [Moving -> Snaps] /\ faults' \in 0..MaxFaults
      /\ UNCHANGED <<request, verdict, moved, reversed, overlapped>>
  BY <1>1, LoseType DEF TypeOK
<1>3. RestTypeOK'
  BY <1>2 DEF TypeOK, TransfersTypeOK, RestTypeOK
<1>4. /\ pc' = [q \in Req |-> IF q \in S!InFlight THEN "lost" ELSE pc[q]]
      /\ local' = [q \in Req |-> IF q \in S!InFlight THEN S!Fresh ELSE local[q]]
      /\ reply' = [q \in Req |-> IF q \in S!InFlight THEN NoOne ELSE reply[q]]
      /\ rowLock' = [w \in Wallets |-> IF rowLock[w] \in Req THEN NoOne ELSE rowLock[w]]
      /\ UNCHANGED <<balance, transaction, spray, body, moved>>
  BY <1>1 DEF S!Crash
<1>5. pc' \in [Req -> S!Places] /\ reply' \in [Req -> Actor \cup {NoOne}]
  BY <1>4, PlacesAre DEF TypeOK
<1>6. local' \in [Req -> S!Locals]
  BY <1>4, FreshIsLocals DEF TypeOK
<1>7. TablesTypeOK'
  BY <1>4 DEF TypeOK, TablesTypeOK
<1> QED BY <1>2, <1>3, <1>4, <1>5, <1>6, <1>7
        DEF TypeOK, SprayTypeOK, TransfersTypeOK, RequestTypeOK, RestTypeOK

LEMMA TypeStep == ASSUME TypeOK, WalletsKnown, Next PROVE TypeOK'
<1>1. SprayTypeOK /\ TransfersTypeOK /\ TablesTypeOK
  BY TypeParts DEF TypeOK
<1>2. mixed' \in BOOLEAN
  <2>1. mixed' = (mixed \/ Together' > 1)
    BY DEF Next
  <2>2. mixed' = TRUE \/ mixed' = FALSE
    BY <2>1 DEF TypeOK
  <2> QED BY <2>2
<1>3. CASE \E q \in Req : Sprays(q) /\ UNCHANGED transferVars
  <2>1. SprayTypeOK'
    BY <1>1, <1>3, SprayStepType
  <2>2. TransfersTypeOK'
    BY <1>1, <1>3, <2>1 DEF TransfersTypeOK, SprayTypeOK, Requests
  <2> QED BY <1>2, <2>1, <2>2 DEF TypeOK, SprayTypeOK
<1>4. CASE TransfersNext /\ UNCHANGED spending
  <2>1. TablesTypeOK' /\ TransfersTypeOK'
    BY <1>1, <1>4, TransfersNextType
  <2> QED BY <1>2, <1>4, <2>1 DEF TypeOK
<1>5. CASE Die
  BY <1>2, <1>5, DieType DEF TypeOK, SprayTypeOK
<1> QED BY <1>3, <1>4, <1>5, NextIs

LEMMA InitType == Init => TypeOK
<1> SUFFICES ASSUME Init PROVE TypeOK OBVIOUS
<1>1. S!Init /\ TransfersInit /\ mixed = FALSE
  BY DEF Init
<1>2. Both(Opening) \in Balance
  BY BothIsBalance, OpeningAssumption
<1>3. TablesTypeOK
  BY <1>1, <1>2, SameLedger DEF S!Init, S!TablesInit, TablesTypeOK
<1>4. body \in [Req -> S!Bodies] /\ pc \in [Req -> S!Places] /\ local \in [Req -> S!Locals]
  BY <1>1, FreshIsLocals, PlacesAre DEF S!Init
<1>5. reply \in [Req -> Actor \cup {NoOne}]
  BY <1>1 DEF S!Init
<1>6. RestTypeOK
  <2>1. snap \in [Moving -> Snaps] /\ verdict \in [Asking -> {"PENDING", "SUCCESS", "FAILED", "REVERSED"}]
    BY <1>1, BlankIsSnap DEF TransfersInit
  <2>2. moved = {} /\ reversed = {} /\ overlapped = FALSE /\ faults = 0
    BY <1>1 DEF TransfersInit
  <2>3. 0 \in 0..MaxFaults
    BY TransferBounds
  <2>4. overlapped \in BOOLEAN
    BY <2>2
  <2> QED BY <2>1, <2>2, <2>3, <2>4 DEF RestTypeOK
<1>7. RequestTypeOK
  BY <1>1 DEF TransfersInit, RequestTypeOK
<1>8. TransfersTypeOK
  BY <1>6, <1>7 DEF TransfersTypeOK, RequestTypeOK, RestTypeOK
<1>9. mixed \in BOOLEAN
  BY <1>1
<1> QED BY <1>3, <1>4, <1>5, <1>8, <1>9 DEF TypeOK
(***************************************************************************)
(* What a step does to the rows, and to the calls that do not move.        *)
(***************************************************************************)

\* The branch of InsertAndCommit that commits.
Commits(q) == S!InsertAndCommit(q) /\ ~ReferenceTaken(ClientRef(body[q].key))

DebitOf(t) == Row(t, ReferenceOf(t), request[t].from, "DEBIT")
CreditOf(t) == Row(t, DrawnRef("credit", t), request[t].to, "CREDIT")
SprayOfTransfer(t) ==
  [id |-> t, from |-> request[t].from, to |-> request[t].to, amount |-> request[t].amount,
   debit |-> ReferenceOf(t), group |-> t]

InsertsDebit(t) ==
  /\ at[t] = "insertDebit" /\ ~ReferenceTaken(ReferenceOf(t))
  /\ transaction' = transaction \cup {DebitOf(t)} /\ spray' = spray
  /\ at' = [at EXCEPT ![t] = "insertCredit"]
  /\ UNCHANGED <<request, moved, spending>>

InsertsCredit(t) ==
  /\ at[t] = "insertCredit"
  /\ transaction' = transaction \cup {CreditOf(t)} /\ spray' = spray
  /\ at' = [at EXCEPT ![t] = "insertSpray"]
  /\ UNCHANGED <<request, moved, spending>>

InsertsSpray(t) ==
  /\ at[t] = "insertSpray"
  /\ transaction' = transaction /\ spray' = spray \cup {SprayOfTransfer(t)}
  /\ at' = [at EXCEPT ![t] = "writeBoth"]
  /\ UNCHANGED <<request, moved, spending>>

WritesStatus(a) ==
  /\ at[a] = "writeStatus"
  /\ transaction' = Rewritten(a) /\ spray' = spray
  /\ at' = [at EXCEPT ![a] = "done"]
  /\ UNCHANGED <<request, moved, spending>>

CommitsSpray(q) ==
  /\ pc[q] = "insert" /\ ~ReferenceTaken(ClientRef(body[q].key))
  /\ transaction' = transaction \cup {S!DebitRow(q), S!CreditRow(q)}
  /\ spray' = spray \cup {S!SprayOf(q)}
  /\ pc' = [pc EXCEPT ![q] = "readTotals"]
  /\ UNCHANGED <<body, local, reply, moved, transferVars>>

\* Places at which a transfer takes no row with it when it moves on.
QuietMoves ==
  {<<"idle", "readFrom">>, <<"readFrom", "readTo">>, <<"readFrom", "failed">>,
   <<"readTo", "callProvider">>, <<"readTo", "failed">>,
   <<"callProvider", "insertDebit">>, <<"callProvider", "failed">>, <<"insertDebit", "failed">>,
   <<"writeBoth", "writeTo">>, <<"writeBoth", "writeFrom">>, <<"writeFrom", "done">>,
   <<"writeTo", "done">>}

\* A transfer stands, or moves on without a row, or is lost.
StandsOrMoves(t) ==
  /\ at'[t] = at[t] \/ <<at[t], at'[t]>> \in QuietMoves \/ (at[t] \in Places /\ at'[t] = "lost")
  /\ at[t] /= "idle" => request'[t] = request[t]
  /\ <<at[t], at'[t]>> = <<"callProvider", "insertDebit">> => MoveOf(t) \in moved'

Quiet ==
  /\ UNCHANGED <<transaction, spray, body>> /\ moved \subseteq moved'
  /\ \A t \in Transfer : StandsOrMoves(t)

LEMMA SprayEffect ==
  ASSUME NEW q \in Req, Sprays(q)
  PROVE  /\ moved \subseteq moved' /\ body' = body
         /\ UNCHANGED <<transaction, spray>> \/ Commits(q)
<1>1. ASSUME S!Throw(q) PROVE UNCHANGED <<transaction, spray, moved, body>>
  BY <1>1 DEF S!Throw
<1>2. CASE S!InsertAndCommit(q)
  BY <1>1, <1>2, SameLedger DEF S!InsertAndCommit, S!Record, Commits
<1>3. CASE ~S!InsertAndCommit(q)
  BY <1>1, <1>3
  DEF Sprays, S!Step, S!Start, S!CheckKey, S!Replay, S!ReadEvent, S!ReadSprayer, S!ReadReceiver,
      S!ReadDefaults, S!LockCheck, S!CallProvider, S!LockSprayer, S!LockReceiver, S!ReadTotals,
      S!Answer, S!TxAbort, S!Proceed, S!Remember
<1> QED BY <1>2, <1>3

LEMMA CommitEffect ==
  ASSUME NEW q \in Req, Commits(q), UNCHANGED transferVars
  PROVE  CommitsSpray(q)
BY SameLedger DEF Commits, CommitsSpray, S!InsertAndCommit, S!Record, S!Goto

LEMMA ArriveEffect ==
  ASSUME TransfersTypeOK, NEW c \in Calls, Arrive(c)
  PROVE  /\ UNCHANGED <<transaction, spray, moved>>
         /\ \A d \in Transfer : StandsOrMoves(d)
<1>1. PICK r \in Requests(c) : request' = [request EXCEPT ![c] = r]
  BY DEF Arrive
<1>2. at[c] = "idle" /\ at' = [at EXCEPT ![c] = First(c)] /\ UNCHANGED <<tables, moved>>
  BY DEF Arrive, Goto
<1>3. ASSUME NEW d \in Transfer PROVE StandsOrMoves(d)
  <2>1. d \in Calls /\ d \in Moving
    BY DEF Calls, Moving
  <2>2. CASE d = c
    <3>1. at'[d] = "readFrom" /\ at[d] = "idle"
      BY <1>2, <2>1, <2>2 DEF TransfersTypeOK, First
    <3> QED BY <3>1 DEF StandsOrMoves, QuietMoves
  <2>3. CASE d /= c
    BY <1>1, <1>2, <2>1, <2>3 DEF StandsOrMoves, TransfersTypeOK
  <2> QED BY <2>2, <2>3
<1> QED BY <1>2, <1>3

LEMMA LoseEffect ==
  ASSUME TransfersTypeOK, NEW dead \in SUBSET InFlight, Lose(dead)
  PROVE  UNCHANGED moved /\ \A d \in Transfer : StandsOrMoves(d)
<1>1. at' = [c \in Calls |-> IF c \in dead THEN "lost" ELSE at[c]] /\ UNCHANGED <<request, moved>>
  BY DEF Lose
<1>2. \A c \in dead : at[c] \in Places
  BY DEF InFlight
<1> QED BY <1>1, <1>2 DEF StandsOrMoves, Calls, Moving
\* A call that moves on without a row.
LEMMA GotoEffect ==
  ASSUME TransfersTypeOK, NEW c \in Calls, NEW place, Goto(c, place), UNCHANGED request,
         c \in Transfer => <<at[c], place>> \in QuietMoves,
         c \in Transfer /\ place = "insertDebit" => MoveOf(c) \in moved'
  PROVE  \A d \in Transfer : StandsOrMoves(d)
<1> TAKE d \in Transfer
<1>1. at' = [at EXCEPT ![c] = place] /\ d \in Calls
  BY DEF Goto, Calls, Moving
<1>2. CASE d = c
  <2>1. at'[d] = place
    BY <1>1, <1>2 DEF TransfersTypeOK
  <2> QED BY <1>2, <2>1 DEF StandsOrMoves
<1>3. CASE d /= c
  <2>1. at'[d] = at[d]
    BY <1>1, <1>3 DEF TransfersTypeOK
  <2>2. ~(at'[d] = "insertDebit" /\ at[d] = "callProvider")
    BY <2>1
  <2> QED BY <2>1, <2>2 DEF StandsOrMoves
<1> QED BY <1>2, <1>3

LEMMA CallKinds ==
  /\ \A c \in Transfer : c \in Calls /\ c \in Moving /\ c \in Actor
  /\ \A c \in Moving : c \in Calls /\ (c \notin Transfer => c \in Cashout)
  /\ \A c \in Cashout : c \notin Transfer
  /\ \A a \in Asking : a \in Calls /\ a \notin Transfer
BY CallAssumption DEF Calls, Moving

QuietRows ==
  /\ UNCHANGED <<transaction, spray>> /\ moved \subseteq moved'
  /\ \A t \in Transfer : StandsOrMoves(t)

LEMMA MovingEffect ==
  ASSUME TransfersTypeOK, NEW c \in Moving, MovingStep(c)
  PROVE  QuietRows
<1> c \in Calls
  BY CallKinds
<1>1. CASE ReadFrom(c)
  <2>1. PICK place : Goto(c, place) /\ (c \in Transfer => place = "readTo")
    BY <1>1, CallKinds DEF ReadFrom, Moves
  <2>2. at[c] = "readFrom" /\ UNCHANGED <<tables, request, moved>>
    BY <1>1 DEF ReadFrom, Moves
  <2>3. \A d \in Transfer : StandsOrMoves(d)
    BY <2>1, <2>2, GotoEffect DEF QuietMoves
  <2> QED BY <2>2, <2>3 DEF QuietRows
<1>2. CASE CallProvider(c)
  <2>1. PICK place : Goto(c, place) /\ (c \in Transfer => place \in {"insertDebit", "failed"})
                     /\ (place = "insertDebit" => MoveOf(c) \in moved')
    <3>1. CASE moved' = moved \cup {MoveOf(c)} /\ Moves(c, AfterProvider(c))
      BY <3>1 DEF Moves, AfterProvider
    <3>2. CASE Moves(c, "failed")
      BY <3>2 DEF Moves
    <3> QED BY <1>2, <3>1, <3>2 DEF CallProvider
  <2>2. at[c] = "callProvider" /\ UNCHANGED <<tables, request>> /\ moved \subseteq moved'
    BY <1>2 DEF CallProvider, Moves
  <2>3. \A d \in Transfer : StandsOrMoves(d)
    BY <2>1, <2>2, GotoEffect DEF QuietMoves
  <2> QED BY <2>2, <2>3 DEF QuietRows
<1>3. CASE WriteFrom(c)
  <2>1. PICK place : Goto(c, place) /\ place = IF at[c] = "writeBoth" THEN "writeTo" ELSE "done"
    BY <1>3 DEF WriteFrom, Writes
  <2>2. at[c] \in {"writeBoth", "writeFrom"} /\ UNCHANGED <<transaction, spray, request, moved>>
    BY <1>3 DEF WriteFrom, Writes
  <2>3. \A d \in Transfer : StandsOrMoves(d)
    BY <2>1, <2>2, GotoEffect DEF QuietMoves
  <2> QED BY <2>2, <2>3 DEF QuietRows
<1> QED BY <1>1, <1>2, <1>3 DEF MovingStep

LEMMA TransferEffect ==
  ASSUME TransfersTypeOK, UNCHANGED spending, NEW t \in Transfer, TransferStep(t)
  PROVE  QuietRows \/ InsertsDebit(t) \/ InsertsCredit(t) \/ InsertsSpray(t)
<1> t \in Calls
  BY CallKinds
<1>1. CASE ReadTo(t)
  <2>1. PICK place \in {"callProvider", "failed"} : Goto(t, place)
    BY <1>1 DEF ReadTo, Moves
  <2>2. at[t] = "readTo" /\ UNCHANGED <<tables, request, moved>>
    BY <1>1 DEF ReadTo, Moves
  <2>3. \A d \in Transfer : StandsOrMoves(d)
    BY <2>1, <2>2, GotoEffect DEF QuietMoves
  <2> QED BY <2>2, <2>3 DEF QuietRows
<1>2. CASE InsertDebit(t)
  <2>1. CASE ReferenceTaken(ReferenceOf(t))
    <3>1. Goto(t, "failed") /\ at[t] = "insertDebit" /\ UNCHANGED <<transaction, spray, request, moved>>
      BY <1>2, <2>1 DEF InsertDebit, Writes
    <3>2. \A d \in Transfer : StandsOrMoves(d)
      BY <3>1, GotoEffect DEF QuietMoves
    <3> QED BY <3>1, <3>2 DEF QuietRows
  <2>2. CASE ~ReferenceTaken(ReferenceOf(t))
    BY <1>2, <2>2 DEF InsertDebit, Writes, Goto, InsertsDebit, DebitOf
  <2> QED BY <2>1, <2>2
<1>3. CASE InsertCredit(t)
  BY <1>3 DEF InsertCredit, Writes, Goto, InsertsCredit, CreditOf
<1>4. CASE InsertSpray(t)
  BY <1>4 DEF InsertSpray, Writes, Goto, InsertsSpray, SprayOfTransfer
<1>5. CASE WriteTo(t)
  <2>1. PICK place : Goto(t, place) /\ place = IF at[t] = "writeBoth" THEN "writeFrom" ELSE "done"
    BY <1>5 DEF WriteTo, Writes
  <2>2. at[t] \in {"writeBoth", "writeTo"} /\ UNCHANGED <<transaction, spray, request, moved>>
    BY <1>5 DEF WriteTo, Writes
  <2>3. \A d \in Transfer : StandsOrMoves(d)
    BY <2>1, <2>2, GotoEffect DEF QuietMoves
  <2> QED BY <2>2, <2>3 DEF QuietRows
<1> QED BY <1>1, <1>2, <1>3, <1>4, <1>5 DEF TransferStep

LEMMA AskingEffect ==
  ASSUME TransfersTypeOK, UNCHANGED spending, NEW a \in Asking, AskingStep(a)
  PROVE  QuietRows \/ WritesStatus(a)
<1> a \in Calls /\ a \notin Transfer
  BY CallKinds
<1>1. CASE AskProvider(a) \/ ReadTransaction(a)
  <2>1. PICK place : Goto(a, place)
    BY <1>1 DEF AskProvider, ReadTransaction, Moves
  <2>2. UNCHANGED <<tables, request, moved>>
    BY <1>1 DEF AskProvider, ReadTransaction, Moves
  <2>3. \A d \in Transfer : StandsOrMoves(d)
    BY <2>1, <2>2, GotoEffect
  <2> QED BY <2>2, <2>3 DEF QuietRows
<1>2. CASE WriteStatus(a)
  BY <1>2 DEF WriteStatus, Writes, Goto, WritesStatus, Rewritten
<1> QED BY <1>1, <1>2 DEF AskingStep

\* All a step does to the rows.
LEMMA NextEffect ==
  ASSUME TypeOK, Next
  PROVE  \/ Quiet
         \/ \E q \in Req : CommitsSpray(q)
         \/ \E t \in Transfer : InsertsDebit(t) \/ InsertsCredit(t) \/ InsertsSpray(t)
         \/ \E a \in Asking : WritesStatus(a)
<1> TransfersTypeOK
  BY DEF TypeOK
<1>1. CASE \E q \in Req : Sprays(q) /\ UNCHANGED transferVars
  <2>1. PICK q \in Req : Sprays(q) /\ UNCHANGED transferVars
    BY <1>1
  <2>2. ASSUME NEW t \in Transfer PROVE StandsOrMoves(t)
    <3>1. at' = at /\ request' = request
      BY <2>1
    <3> QED BY <3>1 DEF StandsOrMoves
  <2> QED BY <2>1, <2>2, SprayEffect, CommitEffect DEF Quiet
<1>2. CASE TransfersNext /\ UNCHANGED spending
  <2>1. CASE \E c \in Calls : Arrive(c)
    BY <1>2, <2>1, ArriveEffect DEF Quiet
  <2>2. CASE Step
    BY <1>2, <2>2, MovingEffect, TransferEffect, AskingEffect DEF Step, Quiet, QuietRows
  <2>3. CASE Fail
    <3>1. PICK c \in InFlight : Lose({c})
      BY <2>3 DEF Fail
    <3>2. UNCHANGED <<transaction, spray>>
      BY <2>3 DEF Fail
    <3>3. UNCHANGED moved /\ \A d \in Transfer : StandsOrMoves(d)
      BY <3>1, LoseEffect
    <3> QED BY <1>2, <3>2, <3>3 DEF Quiet
  <2> QED BY <1>2, <2>1, <2>2, <2>3 DEF TransfersNext
<1>3. CASE Die
  <2>1. UNCHANGED <<transaction, spray, body>>
    BY <1>3 DEF Die, S!Crash
  <2> QED BY <1>3, <2>1, LoseEffect DEF Die, Quiet
<1> QED BY <1>1, <1>2, <1>3, NextIs
\* Two rows that differ in their status at most.
Like(r, p) ==
  /\ r.reference = p.reference /\ r.group = p.group /\ r.wallet = p.wallet
  /\ r.direction = p.direction /\ r.amount = p.amount

LEMMA RewrittenRows ==
  ASSUME TypeOK, NEW a \in Asking, WritesStatus(a)
  PROVE  /\ \A r \in transaction' : \E p \in transaction : Like(r, p)
         /\ \A p \in transaction : \E r \in transaction' : Like(r, p)
<1>1. ASSUME NEW p \in transaction PROVE Like([p EXCEPT !.status = verdict[a]], p) /\ Like(p, p)
  <2>1. p \in TransactionRow
    BY DEF TypeOK, TablesTypeOK
  <2> QED BY <2>1 DEF TransactionRow, Like
<1>2. transaction' = {IF p.reference = request[a] THEN [p EXCEPT !.status = verdict[a]] ELSE p
                        : p \in transaction}
  BY DEF WritesStatus, Rewritten
<1>3. ASSUME NEW r \in transaction' PROVE \E p \in transaction : Like(r, p)
  <2>1. PICK p \in transaction :
          r = IF p.reference = request[a] THEN [p EXCEPT !.status = verdict[a]] ELSE p
    BY <1>2, <1>3
  <2> QED BY <1>1, <2>1
<1>4. ASSUME NEW p \in transaction PROVE \E r \in transaction' : Like(r, p)
  <2>1. (IF p.reference = request[a] THEN [p EXCEPT !.status = verdict[a]] ELSE p) \in transaction'
    BY <1>2
  <2> QED BY <1>1, <2>1
<1> QED BY <1>3, <1>4

\* The rows a call writes, field by field.
LEMMA RowFields ==
  ASSUME NEW t
  PROVE  /\ DebitOf(t).reference = ReferenceOf(t) /\ DebitOf(t).group = t
         /\ DebitOf(t).wallet = request[t].from /\ DebitOf(t).direction = "DEBIT"
         /\ DebitOf(t).amount = request[t].amount
         /\ CreditOf(t).reference = DrawnRef("credit", t) /\ CreditOf(t).group = t
         /\ CreditOf(t).wallet = request[t].to /\ CreditOf(t).direction = "CREDIT"
         /\ CreditOf(t).amount = request[t].amount
         /\ SprayOfTransfer(t).id = t /\ SprayOfTransfer(t).debit = ReferenceOf(t)
         /\ MoveOf(t).by = t /\ MoveOf(t).from = request[t].from /\ MoveOf(t).to = request[t].to
         /\ MoveOf(t).amount = request[t].amount
BY DEF DebitOf, CreditOf, Row, SprayOfTransfer, MoveOf

LEMMA SprayRowFields ==
  ASSUME NEW q
  PROVE  /\ S!DebitRow(q).reference = ClientRef(body[q].key) /\ S!DebitRow(q).group = q
         /\ S!DebitRow(q).wallet = local[q].from /\ S!DebitRow(q).direction = "DEBIT"
         /\ S!DebitRow(q).amount = body[q].amount
         /\ S!CreditRow(q).reference = DrawnRef("credit", q) /\ S!CreditRow(q).group = q
         /\ S!CreditRow(q).wallet = local[q].to /\ S!CreditRow(q).direction = "CREDIT"
         /\ S!CreditRow(q).amount = body[q].amount
         /\ S!SprayOf(q).id = q /\ S!SprayOf(q).debit = ClientRef(body[q].key)
         /\ S!TransferOf(q).by = q /\ S!TransferOf(q).from = local[q].from
         /\ S!TransferOf(q).to = local[q].to /\ S!TransferOf(q).amount = body[q].amount
BY SameLedger DEF S!DebitRow, S!CreditRow, S!SprayOf, S!TransferOf

(***************************************************************************)
(* What is recorded was moved.                                             *)
(***************************************************************************)
LEMMA MovedStep ==
  ASSUME TypeOK, PaidBeforeRecording, RecordsWereMoved, Next
  PROVE  RecordsWereMoved'
<1>1. ASSUME moved \subseteq moved', NEW p \in transaction, NEW r, Like(r, p)
      PROVE  \E m \in moved' :
               m.by = r.group /\ m.amount = r.amount
               /\ r.wallet = IF r.direction = "DEBIT" THEN m.from ELSE m.to
  <2>1. PICK m \in moved :
          m.by = p.group /\ m.amount = p.amount
          /\ p.wallet = IF p.direction = "DEBIT" THEN m.from ELSE m.to
    BY DEF RecordsWereMoved
  <2> QED BY <1>1, <2>1 DEF Like
<1>2. \A p : Like(p, p)
  BY DEF Like
<1>3. CASE Quiet
  BY <1>1, <1>2, <1>3 DEF Quiet, RecordsWereMoved
<1>4. ASSUME NEW q \in Req, CommitsSpray(q) PROVE RecordsWereMoved'
  <2>1. S!TransferOf(q) \in moved
    BY <1>4 DEF PaidBeforeRecording, CommitsSpray, S!InTx
  <2>2. ASSUME NEW r \in transaction'
        PROVE  \E m \in moved' :
                 m.by = r.group /\ m.amount = r.amount
                 /\ r.wallet = IF r.direction = "DEBIT" THEN m.from ELSE m.to
    <3>1. r \in transaction \/ r = S!DebitRow(q) \/ r = S!CreditRow(q)
      BY <1>4, <2>2 DEF CommitsSpray
    <3>2. moved' = moved
      BY <1>4 DEF CommitsSpray
    <3>3. CASE r \in transaction
      BY <1>1, <1>2, <3>2, <3>3
    <3>4. CASE r = S!DebitRow(q) \/ r = S!CreditRow(q)
      BY <2>1, <3>2, <3>4, SprayRowFields
    <3> QED BY <3>1, <3>3, <3>4
  <2> QED BY <2>2 DEF RecordsWereMoved
<1>5. ASSUME NEW t \in Transfer, InsertsDebit(t) \/ InsertsCredit(t) \/ InsertsSpray(t)
      PROVE  RecordsWereMoved'
  <2>1. MoveOf(t) \in moved
    BY <1>5 DEF PaidBeforeRecording, Recording, InsertsDebit, InsertsCredit, InsertsSpray
  <2>2. ASSUME NEW r \in transaction'
        PROVE  \E m \in moved' :
                 m.by = r.group /\ m.amount = r.amount
                 /\ r.wallet = IF r.direction = "DEBIT" THEN m.from ELSE m.to
    <3>1. r \in transaction \/ r = DebitOf(t) \/ r = CreditOf(t)
      BY <1>5, <2>2 DEF InsertsDebit, InsertsCredit, InsertsSpray
    <3>2. moved' = moved
      BY <1>5 DEF InsertsDebit, InsertsCredit, InsertsSpray
    <3>3. CASE r \in transaction
      BY <1>1, <1>2, <3>2, <3>3
    <3>4. CASE r = DebitOf(t) \/ r = CreditOf(t)
      BY <2>1, <3>2, <3>4, RowFields
    <3> QED BY <3>1, <3>3, <3>4
  <2> QED BY <2>2 DEF RecordsWereMoved
<1>6. ASSUME NEW a \in Asking, WritesStatus(a) PROVE RecordsWereMoved'
  <2>1. moved' = moved /\ \A r \in transaction' : \E p \in transaction : Like(r, p)
    BY <1>6, RewrittenRows DEF WritesStatus
  <2> QED BY <1>1, <2>1 DEF RecordsWereMoved
<1> QED BY <1>3, <1>4, <1>5, <1>6, NextEffect
(***************************************************************************)
(* A reference tells the call that wrote it, and a Spray has its debit.    *)
(***************************************************************************)
LEMMA ReferencesDiffer ==
  /\ \A k, c : ClientRef(k) /= DrawnRef("credit", c)
  /\ \A c, d : DrawnRef("credit", c) = DrawnRef("credit", d) => c = d
  /\ \A t, c : ReferenceOf(t) /= DrawnRef("credit", c)
<1>1. \A k, c : ClientRef(k) /= DrawnRef("credit", c)
  BY DEF ClientRef, DrawnRef
<1>2. \A c, d : DrawnRef("credit", c) = DrawnRef("credit", d) => c = d
  BY DEF DrawnRef
<1>3. ASSUME NEW t, NEW c PROVE ReferenceOf(t) /= DrawnRef("credit", c)
  <2>1. DrawnRef("debit", t) /= DrawnRef("credit", c) /\ DrawnRef("payout", t) /= DrawnRef("credit", c)
    BY DEF DrawnRef
  <2> QED BY <1>1, <2>1 DEF ReferenceOf
<1> QED BY <1>1, <1>2, <1>3

\* Rows of one call are added, the references of which are free or name the call.
Adds(c, rows) ==
  /\ transaction' = transaction \cup rows
  /\ \A r \in rows : r.group = c
  /\ \A r \in rows : ~ReferenceTaken(r.reference) \/ r.reference = DrawnRef("credit", c)
  /\ \A r \in rows : \A d \in Actor : r.reference = DrawnRef("credit", d) => c = d

GroupsTell ==
  /\ \A r1, r2 \in transaction : r1.reference = r2.reference => r1.group = r2.group
  /\ \A r \in transaction : \A c \in Actor : r.reference = DrawnRef("credit", c) => r.group = c

LEMMA RowsAdded ==
  ASSUME ReferencesTell, NEW c \in Actor, NEW rows, Adds(c, rows)
  PROVE  GroupsTell'
<1> USE DEF Adds
<1>1. ASSUME NEW r \in rows, NEW p \in transaction, p.reference = r.reference PROVE p.group = c
  <2>1. ReferenceTaken(r.reference)
    BY <1>1 DEF ReferenceTaken
  <2>2. p.reference = DrawnRef("credit", c)
    BY <1>1, <2>1
  <2> QED BY <2>2 DEF ReferencesTell
<1>2. ASSUME NEW r1 \in transaction', NEW r2 \in transaction', r1.reference = r2.reference
      PROVE  r1.group = r2.group
  BY <1>1, <1>2 DEF ReferencesTell
<1>3. ASSUME NEW r \in transaction', NEW d \in Actor, r.reference = DrawnRef("credit", d)
      PROVE  r.group = d
  BY <1>3 DEF ReferencesTell
<1> HIDE DEF Adds
<1> QED BY <1>2, <1>3 DEF GroupsTell

SpraysHaveDebits == \A s \in spray : \E r \in transaction : r.reference = s.debit /\ r.group = s.id

LEMMA ReferencesStep ==
  ASSUME TypeOK, ReferencesTell, TransfersStand, Next
  PROVE  ReferencesTell'
<1> SUFFICES /\ \A r1, r2 \in transaction' : r1.reference = r2.reference => r1.group = r2.group
             /\ \A r \in transaction' : \A c \in Actor :
                  r.reference = DrawnRef("credit", c) => r.group = c
             /\ SpraysHaveDebits'
  BY DEF ReferencesTell, SpraysHaveDebits
<1>1. CASE Quiet
  BY <1>1 DEF Quiet, ReferencesTell, SpraysHaveDebits
<1>2. ASSUME NEW q \in Req, CommitsSpray(q)
      PROVE  /\ \A r1, r2 \in transaction' : r1.reference = r2.reference => r1.group = r2.group
             /\ \A r \in transaction' : \A c \in Actor :
                  r.reference = DrawnRef("credit", c) => r.group = c
             /\ SpraysHaveDebits'
  <2> DEFINE d == S!DebitRow(q)  cr == S!CreditRow(q)
  <2>1. /\ transaction' = transaction \cup {d, cr} /\ spray' = spray \cup {S!SprayOf(q)}
        /\ ~ReferenceTaken(ClientRef(body[q].key)) /\ q \in Actor
    BY <1>2, SpendingAssumption DEF CommitsSpray
  <2>2. /\ d.group = q /\ cr.group = q /\ d.reference = ClientRef(body[q].key)
        /\ cr.reference = DrawnRef("credit", q)
        /\ S!SprayOf(q).id = q /\ S!SprayOf(q).debit = ClientRef(body[q].key)
    BY SprayRowFields
  <2> HIDE DEF d, cr
  <2>3. /\ ~ReferenceTaken(d.reference)
        /\ \A c \in Actor : d.reference /= DrawnRef("credit", c)
        /\ \A c \in Actor : cr.reference = DrawnRef("credit", c) => q = c
    BY <2>1, <2>2, ReferencesDiffer
  <2>4. /\ \A r1, r2 \in transaction' : r1.reference = r2.reference => r1.group = r2.group
        /\ \A r \in transaction' : \A c \in Actor : r.reference = DrawnRef("credit", c) => r.group = c
    <3> DEFINE rows == {d, cr}
    <3>1. /\ \A r \in rows : r.group = q
          /\ \A r \in rows : ~ReferenceTaken(r.reference) \/ r.reference = DrawnRef("credit", q)
          /\ \A r \in rows : \A c \in Actor : r.reference = DrawnRef("credit", c) => q = c
      BY <2>2, <2>3
    <3>2. transaction' = transaction \cup rows
      BY <2>1
    <3> HIDE DEF rows
    <3>3. Adds(q, rows)
      BY <3>1, <3>2 DEF Adds
    <3>4. GroupsTell'
      BY <2>1, <3>3, RowsAdded
    <3> QED BY <3>4 DEF GroupsTell
  <2>5. ASSUME NEW s \in spray' PROVE \E r \in transaction' : r.reference = s.debit /\ r.group = s.id
    <3>1. CASE s \in spray
      BY <2>1, <3>1 DEF ReferencesTell
    <3>2. CASE s = S!SprayOf(q)
      <4>1. d \in transaction' /\ d.reference = s.debit /\ d.group = s.id
        BY <2>1, <2>2, <3>2
      <4> QED BY <4>1
    <3> QED BY <2>1, <2>5, <3>1, <3>2
  <2>6. SpraysHaveDebits'
    BY <2>5 DEF SpraysHaveDebits
  <2> QED BY <2>4, <2>6
<1>3. ASSUME NEW t \in Transfer, InsertsDebit(t) \/ InsertsCredit(t)
      PROVE  /\ \A r1, r2 \in transaction' : r1.reference = r2.reference => r1.group = r2.group
             /\ \A r \in transaction' : \A c \in Actor :
                  r.reference = DrawnRef("credit", c) => r.group = c
             /\ SpraysHaveDebits'
  <2>1. PICK rows : Adds(t, rows)
    <3>1. CASE InsertsDebit(t)
      <4>1. transaction' = transaction \cup {DebitOf(t)} /\ ~ReferenceTaken(ReferenceOf(t))
        BY <3>1 DEF InsertsDebit
      <4>2. DebitOf(t).group = t /\ DebitOf(t).reference = ReferenceOf(t)
        BY RowFields
      <4> DEFINE rows == {DebitOf(t)}
      <4>3. \A r \in rows : r.group = t /\ r.reference = ReferenceOf(t)
        BY <4>2
      <4>4. transaction' = transaction \cup rows
        BY <4>1
      <4> HIDE DEF rows
      <4>5. \A r \in rows : ~ReferenceTaken(r.reference) \/ r.reference = DrawnRef("credit", t)
        BY <4>1, <4>3
      <4>6. \A r \in rows : \A c \in Actor : r.reference = DrawnRef("credit", c) => t = c
        BY <4>3, ReferencesDiffer
      <4>7. Adds(t, rows)
        BY <4>3, <4>4, <4>5, <4>6 DEF Adds
      <4> QED BY <4>7
    <3>2. CASE InsertsCredit(t)
      <4>1. transaction' = transaction \cup {CreditOf(t)}
        BY <3>2 DEF InsertsCredit
      <4>2. CreditOf(t).group = t /\ CreditOf(t).reference = DrawnRef("credit", t)
        BY RowFields
      <4> DEFINE rows == {CreditOf(t)}
      <4>3. \A r \in rows : r.group = t /\ r.reference = DrawnRef("credit", t)
        BY <4>2
      <4>4. transaction' = transaction \cup rows
        BY <4>1
      <4> HIDE DEF rows
      <4>5. \A r \in rows : ~ReferenceTaken(r.reference) \/ r.reference = DrawnRef("credit", t)
        BY <4>1, <4>3
      <4>6. \A r \in rows : \A c \in Actor : r.reference = DrawnRef("credit", c) => t = c
        BY <4>3, ReferencesDiffer
      <4>7. Adds(t, rows)
        BY <4>3, <4>4, <4>5, <4>6 DEF Adds
      <4> QED BY <4>7
    <3> QED BY <1>3, <3>1, <3>2
  <2>2. /\ \A r1, r2 \in transaction' : r1.reference = r2.reference => r1.group = r2.group
        /\ \A r \in transaction' : \A c \in Actor : r.reference = DrawnRef("credit", c) => r.group = c
    <3>1. t \in Actor
      BY CallKinds
    <3>2. GroupsTell'
      BY <2>1, <3>1, RowsAdded
    <3> QED BY <3>2 DEF GroupsTell
  <2>3. spray' = spray /\ transaction \subseteq transaction'
    BY <1>3, <2>1 DEF InsertsDebit, InsertsCredit, Adds
  <2>4. SpraysHaveDebits'
    BY <2>3 DEF SpraysHaveDebits, ReferencesTell
  <2> QED BY <2>2, <2>4
<1>4. ASSUME NEW t \in Transfer, InsertsSpray(t)
      PROVE  /\ \A r1, r2 \in transaction' : r1.reference = r2.reference => r1.group = r2.group
             /\ \A r \in transaction' : \A c \in Actor :
                  r.reference = DrawnRef("credit", c) => r.group = c
             /\ SpraysHaveDebits'
  <2>1. transaction' = transaction /\ spray' = spray \cup {SprayOfTransfer(t)} /\ at[t] = "insertSpray"
    BY <1>4 DEF InsertsSpray
  <2>2. DebitStands(t)
    BY <2>1 DEF TransfersStand
  <2>3. SprayOfTransfer(t).id = t /\ SprayOfTransfer(t).debit = ReferenceOf(t)
    BY RowFields
  <2>4. SpraysHaveDebits'
    BY <2>1, <2>2, <2>3 DEF SpraysHaveDebits, DebitStands, ReferencesTell
  <2> QED BY <2>1, <2>4 DEF ReferencesTell
<1>5. ASSUME NEW a \in Asking, WritesStatus(a)
      PROVE  /\ \A r1, r2 \in transaction' : r1.reference = r2.reference => r1.group = r2.group
             /\ \A r \in transaction' : \A c \in Actor :
                  r.reference = DrawnRef("credit", c) => r.group = c
             /\ SpraysHaveDebits'
  <2>1. /\ \A r \in transaction' : \E p \in transaction : Like(r, p)
        /\ \A p \in transaction : \E r \in transaction' : Like(r, p)
        /\ spray' = spray
    BY <1>5, RewrittenRows DEF WritesStatus
  <2>2. \A r1, r2 \in transaction' : r1.reference = r2.reference => r1.group = r2.group
    BY <2>1 DEF Like, ReferencesTell
  <2>3. \A r \in transaction' : \A c \in Actor : r.reference = DrawnRef("credit", c) => r.group = c
    BY <2>1 DEF Like, ReferencesTell
  <2>4. SpraysHaveDebits'
    <3>1. ASSUME NEW s \in spray PROVE \E r \in transaction' : r.reference = s.debit /\ r.group = s.id
      BY <2>1 DEF Like, ReferencesTell
    <3> QED BY <2>1, <3>1 DEF SpraysHaveDebits
  <2> QED BY <2>2, <2>3, <2>4
<1> QED BY <1>1, <1>2, <1>3, <1>4, <1>5, NextEffect
(***************************************************************************)
(* One Spray per reference.                                                *)
(***************************************************************************)
LEMMA OneSprayStep ==
  ASSUME TypeOK, ReferencesTell, TransfersStand, OneSprayPerReference, Next
  PROVE  OneSprayPerReference'
<1>1. ASSUME NEW new, spray' = spray \cup {new}, \A s \in spray : s.debit /= new.debit
      PROVE  OneSprayPerReference'
  <2>1. ASSUME NEW s1 \in spray', NEW s2 \in spray', s1.debit = s2.debit PROVE s1 = s2
    BY <1>1, <2>1 DEF OneSprayPerReference
  <2> QED BY <2>1 DEF OneSprayPerReference
<1>2. CASE spray' = spray
  BY <1>2 DEF OneSprayPerReference
<1>3. ASSUME NEW q \in Req, CommitsSpray(q) PROVE OneSprayPerReference'
  <2>1. spray' = spray \cup {S!SprayOf(q)} /\ ~ReferenceTaken(ClientRef(body[q].key))
    BY <1>3 DEF CommitsSpray
  <2>2. S!SprayOf(q).debit = ClientRef(body[q].key)
    BY SprayRowFields
  <2>3. ASSUME NEW s \in spray PROVE s.debit /= S!SprayOf(q).debit
    BY <2>1, <2>2 DEF ReferencesTell, ReferenceTaken
  <2> QED BY <1>1, <2>1, <2>3
<1>4. ASSUME NEW t \in Transfer, InsertsSpray(t) PROVE OneSprayPerReference'
  <2>1. spray' = spray \cup {SprayOfTransfer(t)} /\ at[t] = "insertSpray"
    BY <1>4 DEF InsertsSpray
  <2>2. SprayOfTransfer(t).debit = ReferenceOf(t)
    BY RowFields
  <2>3. DebitStands(t) /\ \A s \in spray : s.id /= t
    BY <2>1 DEF TransfersStand, Recording
  <2>4. ASSUME NEW s \in spray, s.debit = ReferenceOf(t) PROVE FALSE
    <3>1. PICK r \in transaction : r.reference = s.debit /\ r.group = s.id
      BY DEF ReferencesTell
    <3>2. PICK p \in transaction : p.reference = ReferenceOf(t) /\ p.group = t
      BY <2>3 DEF DebitStands
    <3>3. r.group = p.group
      BY <2>4, <3>1, <3>2 DEF ReferencesTell
    <3> QED BY <2>3, <3>1, <3>2, <3>3
  <2> QED BY <1>1, <2>1, <2>2, <2>4
<1>5. CASE \E t \in Transfer : InsertsDebit(t) \/ InsertsCredit(t)
  BY <1>2, <1>5 DEF InsertsDebit, InsertsCredit
<1>6. CASE \E a \in Asking : WritesStatus(a)
  BY <1>2, <1>6 DEF WritesStatus
<1> QED BY <1>2, <1>3, <1>4, <1>5, <1>6, NextEffect DEF Quiet

(***************************************************************************)
(* A transfer writes its debit, its credit, its spray, in this order.      *)
(***************************************************************************)
Stands(t) ==
  /\ at[t] \in {"idle", "readFrom", "readTo", "callProvider", "insertDebit"} =>
       \A r \in transaction : r.group /= t
  /\ at[t] \in {"insertCredit", "insertSpray"} => DebitStands(t)
  /\ at[t] = "insertSpray" => Recorded(t, "CREDIT")
  /\ at[t] \in {"idle", "readFrom", "readTo", "callProvider"} \cup Recording =>
       \A s \in spray : s.id /= t
  /\ (\E r \in transaction : r.group = t) => DebitStands(t)
  /\ (\E s \in spray : s.id = t) => Recorded(t, "CREDIT") /\ Recorded(t, "DEBIT")
  /\ at[t] \in {"writeBoth", "writeFrom", "writeTo", "done"} => \E s \in spray : s.id = t

LEMMA StandsIs == TransfersStand <=> \A t \in Transfer : Stands(t)
BY DEF TransfersStand, Stands

\* No row and no spray of t, and t moves on as it may without a row.
LEMMA StandsQuietly ==
  ASSUME NEW t \in Transfer, Stands(t), UNCHANGED <<transaction, spray>>, StandsOrMoves(t)
  PROVE  Stands(t)'
<1>1. CASE at[t] = "idle"
  <2>1. at'[t] \in {"idle", "readFrom"}
    BY <1>1 DEF StandsOrMoves, QuietMoves, Places
  <2>2. /\ \A r \in transaction : r.group /= t
        /\ \A s \in spray : s.id /= t
    BY <1>1 DEF Stands
  <2> QED BY <2>1, <2>2 DEF Stands
<1>2. CASE at[t] /= "idle"
  <2>1. request'[t] = request[t]
    BY <1>2 DEF StandsOrMoves
  <2>2. ReferenceOf(t)' = ReferenceOf(t)
    BY <2>1 DEF ReferenceOf
  <2>3. (DebitStands(t)' <=> DebitStands(t))
        /\ (Recorded(t, "CREDIT")' <=> Recorded(t, "CREDIT"))
        /\ (Recorded(t, "DEBIT")' <=> Recorded(t, "DEBIT"))
    BY <2>2 DEF DebitStands, Recorded
  <2>4. CASE at'[t] = at[t]
    BY <2>3, <2>4 DEF Stands
  <2>5. CASE <<at[t], at'[t]>> \in QuietMoves
    BY <2>3, <2>5, <1>2 DEF Stands, QuietMoves, Recording
  <2>6. CASE at'[t] = "lost"
    BY <2>3, <2>6 DEF Stands, Recording
  <2> QED BY <2>4, <2>5, <2>6 DEF StandsOrMoves
<1> QED BY <1>1, <1>2

\* Rows of another call come in beside those of t, which stands.
LEMMA StandsBeside ==
  ASSUME NEW t \in Transfer, Stands(t), at'[t] = at[t], request'[t] = request[t],
         NEW rows, transaction' = transaction \cup rows, \A r \in rows : r.group /= t,
         NEW sprays, spray' = spray \cup sprays, \A s \in sprays : s.id /= t
  PROVE  Stands(t)'
<1>1. ReferenceOf(t)' = ReferenceOf(t)
  BY DEF ReferenceOf
<1>2. DebitStands(t) => DebitStands(t)'
  BY <1>1 DEF DebitStands
<1>3. (Recorded(t, "CREDIT") => Recorded(t, "CREDIT")') /\ (Recorded(t, "DEBIT") => Recorded(t, "DEBIT")')
  BY DEF Recorded
<1>4. (\E r \in transaction' : r.group = t) <=> (\E r \in transaction : r.group = t)
  OBVIOUS
<1>5. (\E s \in spray' : s.id = t) <=> (\E s \in spray : s.id = t)
  OBVIOUS
<1> QED BY <1>2, <1>3, <1>4, <1>5 DEF Stands

LEMMA OtherTransferStands ==
  ASSUME TypeOK, NEW t \in Transfer, NEW d \in Transfer, d /= t,
         InsertsDebit(t) \/ InsertsCredit(t) \/ InsertsSpray(t)
  PROVE  at'[d] = at[d] /\ request'[d] = request[d]
BY CallKinds DEF TypeOK, TransfersTypeOK, InsertsDebit, InsertsCredit, InsertsSpray
LEMMA StandsAfterDebit ==
  ASSUME TypeOK, NEW t \in Transfer, Stands(t), InsertsDebit(t) PROVE Stands(t)'
<1>1. /\ at'[t] = "insertCredit" /\ request' = request /\ spray' = spray
      /\ transaction' = transaction \cup {DebitOf(t)} /\ at[t] = "insertDebit"
  BY CallKinds DEF InsertsDebit, TypeOK, TransfersTypeOK
<1>2. DebitOf(t).reference = ReferenceOf(t) /\ DebitOf(t).group = t /\ DebitOf(t).direction = "DEBIT"
  BY RowFields
<1>3. ReferenceOf(t)' = ReferenceOf(t)
  BY <1>1 DEF ReferenceOf
<1>4. DebitStands(t)'
  BY <1>1, <1>2, <1>3 DEF DebitStands
<1>5. \A s \in spray' : s.id /= t
  BY <1>1 DEF Stands, Recording
<1> QED BY <1>1, <1>4, <1>5 DEF Stands

LEMMA StandsAfterCredit ==
  ASSUME TypeOK, NEW t \in Transfer, Stands(t), InsertsCredit(t) PROVE Stands(t)'
<1>1. /\ at'[t] = "insertSpray" /\ request' = request /\ spray' = spray
      /\ transaction' = transaction \cup {CreditOf(t)} /\ at[t] = "insertCredit"
  BY CallKinds DEF InsertsCredit, TypeOK, TransfersTypeOK
<1>2. CreditOf(t).group = t /\ CreditOf(t).direction = "CREDIT"
  BY RowFields
<1>3. ReferenceOf(t)' = ReferenceOf(t)
  BY <1>1 DEF ReferenceOf
<1>4. DebitStands(t)'
  BY <1>1, <1>3 DEF Stands, DebitStands
<1>5. Recorded(t, "CREDIT")'
  BY <1>1, <1>2 DEF Recorded
<1>6. \A s \in spray' : s.id /= t
  BY <1>1 DEF Stands, Recording
<1> QED BY <1>1, <1>4, <1>5, <1>6 DEF Stands

LEMMA StandsAfterSpray ==
  ASSUME TypeOK, NEW t \in Transfer, Stands(t), InsertsSpray(t) PROVE Stands(t)'
<1>1. /\ at'[t] = "writeBoth" /\ request' = request /\ spray' = spray \cup {SprayOfTransfer(t)}
      /\ transaction' = transaction /\ at[t] = "insertSpray"
  BY CallKinds DEF InsertsSpray, TypeOK, TransfersTypeOK
<1>2. SprayOfTransfer(t).id = t
  BY RowFields
<1>3. ReferenceOf(t)' = ReferenceOf(t)
  BY <1>1 DEF ReferenceOf
<1>4. DebitStands(t) /\ Recorded(t, "CREDIT")
  BY <1>1 DEF Stands
<1>5. DebitStands(t)' /\ Recorded(t, "CREDIT")' /\ Recorded(t, "DEBIT")'
  BY <1>1, <1>3, <1>4 DEF DebitStands, Recorded
<1>6. \E s \in spray' : s.id = t
  BY <1>1, <1>2
<1> QED BY <1>1, <1>5, <1>6 DEF Stands, Recording

LEMMA StandsRewritten ==
  ASSUME TypeOK, NEW t \in Transfer, Stands(t), NEW a \in Asking, WritesStatus(a)
  PROVE  Stands(t)'
<1>1. at'[t] = at[t] /\ request' = request /\ spray' = spray
  BY CallKinds DEF WritesStatus, TypeOK, TransfersTypeOK
<1>2. /\ \A r \in transaction' : \E p \in transaction : Like(r, p)
      /\ \A p \in transaction : \E r \in transaction' : Like(r, p)
  BY RewrittenRows
<1>3. ReferenceOf(t)' = ReferenceOf(t)
  BY <1>1 DEF ReferenceOf
<1>4. ASSUME DebitStands(t) PROVE DebitStands(t)'
  <2>1. PICK p \in transaction :
          p.group = t /\ p.direction = "DEBIT" /\ p.reference = ReferenceOf(t)
    BY <1>4 DEF DebitStands
  <2>2. PICK r \in transaction' : Like(r, p)
    BY <1>2
  <2> QED BY <1>3, <2>1, <2>2 DEF Like, DebitStands
<1>5. ASSUME NEW dir, Recorded(t, dir) PROVE Recorded(t, dir)'
  <2>1. PICK p \in transaction : p.group = t /\ p.direction = dir
    BY <1>5 DEF Recorded
  <2>2. PICK r \in transaction' : Like(r, p)
    BY <1>2
  <2> QED BY <2>1, <2>2 DEF Like, Recorded
<1>6. (Recorded(t, "CREDIT") => Recorded(t, "CREDIT")') /\ (Recorded(t, "DEBIT") => Recorded(t, "DEBIT")')
  BY <1>5
<1>7. (\E r \in transaction' : r.group = t) => (\E r \in transaction : r.group = t)
  BY <1>2 DEF Like
<1> QED BY <1>1, <1>4, <1>6, <1>7 DEF Stands

LEMMA StandsStep ==
  ASSUME TypeOK, TransfersStand, Next
  PROVE  TransfersStand'
<1> SUFFICES ASSUME NEW d \in Transfer PROVE Stands(d)'
  BY DEF TransfersStand, Stands
<1> Stands(d) /\ d \in Calls
  BY StandsIs, CallKinds
<1>1. CASE Quiet
  BY <1>1, StandsQuietly DEF Quiet
<1>2. ASSUME NEW q \in Req, CommitsSpray(q) PROVE Stands(d)'
  <2> DEFINE rows == {S!DebitRow(q), S!CreditRow(q)}  sprays == {S!SprayOf(q)}
  <2>1. transaction' = transaction \cup rows /\ spray' = spray \cup sprays
        /\ at' = at /\ request' = request
    BY <1>2 DEF CommitsSpray
  <2>2. q /= d
    BY SpendingAssumption
  <2>3. (\A r \in rows : r.group = q) /\ (\A s \in sprays : s.id = q)
    BY SprayRowFields
  <2>4. at'[d] = at[d] /\ request'[d] = request[d]
    BY <2>1
  <2> HIDE DEF rows, sprays
  <2>5. (\A r \in rows : r.group /= d) /\ (\A s \in sprays : s.id /= d)
    BY <2>2, <2>3
  <2> QED BY <2>1, <2>4, <2>5, StandsBeside
<1>3. ASSUME NEW t \in Transfer, InsertsDebit(t) \/ InsertsCredit(t) \/ InsertsSpray(t)
      PROVE  Stands(d)'
  <2>1. CASE t = d
    BY <1>3, <2>1, StandsAfterDebit, StandsAfterCredit, StandsAfterSpray
  <2>2. CASE t /= d
    <3>1. at'[d] = at[d] /\ request'[d] = request[d]
      BY <1>3, <2>2, OtherTransferStands
    <3>2. PICK rows : transaction' = transaction \cup rows /\ \A r \in rows : r.group = t
      <4>1. CASE InsertsDebit(t)
        <5> DEFINE rows == {DebitOf(t)}
        <5>1. transaction' = transaction \cup rows /\ \A r \in rows : r.group = t
          BY <4>1, RowFields DEF InsertsDebit
        <5> HIDE DEF rows
        <5> QED BY <5>1
      <4>2. CASE InsertsCredit(t)
        <5> DEFINE rows == {CreditOf(t)}
        <5>1. transaction' = transaction \cup rows /\ \A r \in rows : r.group = t
          BY <4>2, RowFields DEF InsertsCredit
        <5> HIDE DEF rows
        <5> QED BY <5>1
      <4>3. CASE InsertsSpray(t)
        <5> DEFINE rows == {}
        <5>1. transaction' = transaction \cup rows /\ \A r \in rows : r.group = t
          BY <4>3 DEF InsertsSpray
        <5> HIDE DEF rows
        <5> QED BY <5>1
      <4> QED BY <1>3, <4>1, <4>2, <4>3
    <3>3. PICK sprays : spray' = spray \cup sprays /\ \A s \in sprays : s.id = t
      <4>1. CASE InsertsSpray(t)
        <5> DEFINE sprays == {SprayOfTransfer(t)}
        <5>1. spray' = spray \cup sprays /\ \A s \in sprays : s.id = t
          BY <4>1, RowFields DEF InsertsSpray
        <5> HIDE DEF sprays
        <5> QED BY <5>1
      <4>2. CASE InsertsDebit(t) \/ InsertsCredit(t)
        <5> DEFINE sprays == {}
        <5>1. spray' = spray \cup sprays /\ \A s \in sprays : s.id = t
          BY <4>2 DEF InsertsDebit, InsertsCredit
        <5> HIDE DEF sprays
        <5> QED BY <5>1
      <4> QED BY <1>3, <4>1, <4>2
    <3>4. (\A r \in rows : r.group /= d) /\ (\A s \in sprays : s.id /= d)
      BY <2>2, <3>2, <3>3
    <3> QED BY <3>1, <3>2, <3>3, <3>4, StandsBeside
  <2> QED BY <2>1, <2>2
<1>4. ASSUME NEW a \in Asking, WritesStatus(a) PROVE Stands(d)'
  BY <1>4, StandsRewritten
<1> QED BY <1>1, <1>2, <1>3, <1>4, NextEffect
(***************************************************************************)
(* The calls of createSpray.                                               *)
(***************************************************************************)

\* The calls other than the one that moves stand where they stood, with the
\* same locals and the same answer.
LEMMA OthersStand ==
  ASSUME TypeOK, NEW q \in Req, Sprays(q)
  PROVE  \A p \in Req : p /= q => pc'[p] = pc[p] /\ local'[p] = local[p] /\ reply'[p] = reply[p]
BY DEF TypeOK, Sprays, S!Step, S!Start, S!CheckKey, S!Replay, S!ReadEvent, S!ReadSprayer,
       S!ReadReceiver, S!ReadDefaults, S!LockCheck, S!CallProvider, S!LockSprayer,
       S!LockReceiver, S!InsertAndCommit, S!Record, S!ReadTotals, S!Answer, S!TxAbort,
       S!Proceed, S!Remember, S!Throw, S!Goto, S!Keep

\* When no call of createSpray moves they stand too, or are lost.
LEMMA SpraysStand ==
  ASSUME TypeOK, (TransfersNext /\ UNCHANGED spending) \/ Die
  PROVE  /\ body' = body
         /\ \A q \in Req :
              \/ pc'[q] = pc[q] /\ local'[q] = local[q] /\ reply'[q] = reply[q]
              \/ pc'[q] = "lost"
BY DEF TypeOK, Die, S!Crash

LEMMA WalletsStep == ASSUME TypeOK, WalletsKnown, Next PROVE WalletsKnown'
<1>1. CASE \E q \in Req : Sprays(q) /\ UNCHANGED transferVars
  <2>1. PICK q \in Req : Sprays(q)
    BY <1>1
  <2>2. pc'[q] \in {"lockCheck", "callProvider"} \cup S!InTx =>
          local'[q].from \in Wallets /\ local'[q].to \in Wallets
    <3> SUFFICES ASSUME pc'[q] \in {"lockCheck", "callProvider"} \cup S!InTx
                 PROVE  local'[q].from \in Wallets /\ local'[q].to \in Wallets
      OBVIOUS
    <3> local[q] \in S!Locals /\ local'[q] \in S!Locals
      BY TypeStep DEF TypeOK
    <3>0. ~S!Throw(q)
      BY DEF S!Throw, S!Goto, TypeOK, S!InTx
    <3>1. CASE S!ReadReceiver(q)
      BY <3>1, SpendingAssumption
      DEF S!ReadReceiver, S!Remember, S!Throw, S!Goto, S!Keep, TypeOK, S!InTx, S!Locals
    <3>2. CASE S!ReadDefaults(q)
      <4>2. /\ S!Remember(q, S!WithDefaults(q), "lockCheck")
            /\ NoWallet \notin {S!WithDefaults(q).from, S!WithDefaults(q).to}
        BY <3>0, <3>2 DEF S!ReadDefaults
      <4>3. local'[q] = S!WithDefaults(q)
        BY <4>2 DEF S!Remember, S!Keep, TypeOK
      <4> QED BY <4>2, <4>3 DEF S!Locals
    <3>3. CASE S!LockCheck(q)
      <4>2. S!Remember(q, [local[q] EXCEPT !.locked = balance[local[q].from]], "callProvider")
        BY <3>0, <3>3 DEF S!LockCheck
      <4>3. local'[q] = [local[q] EXCEPT !.locked = balance[local[q].from]]
        BY <4>2 DEF S!Remember, S!Keep, TypeOK
      <4> QED BY <3>3, <4>3 DEF S!LockCheck, WalletsKnown, S!Locals
    <3>4. CASE ~(S!ReadReceiver(q) \/ S!ReadDefaults(q) \/ S!LockCheck(q))
      BY <2>1, <3>0, <3>4
      DEF WalletsKnown, TypeOK, S!InTx, Sprays, S!Step, S!Start, S!CheckKey, S!Replay, S!ReadEvent,
          S!ReadSprayer, S!CallProvider, S!LockSprayer, S!LockReceiver, S!InsertAndCommit,
          S!Record, S!ReadTotals, S!Answer, S!TxAbort, S!Proceed, S!Remember, S!Throw, S!Goto
    <3> QED BY <3>1, <3>2, <3>3, <3>4
  <2> QED BY <2>1, <2>2, OthersStand DEF WalletsKnown
<1>2. CASE (TransfersNext /\ UNCHANGED spending) \/ Die
  BY <1>2, SpraysStand DEF WalletsKnown, S!InTx
<1> QED BY <1>1, <1>2, NextIs

\* The provider takes no move back out of its books.
LEMMA MovedGrows == ASSUME TypeOK, Next PROVE moved \subseteq moved'
BY NextEffect DEF Quiet, CommitsSpray, InsertsDebit, InsertsCredit, InsertsSpray, WritesStatus

LEMMA PaidSprays ==
  ASSUME TypeOK, PaidBeforeRecording, Next
  PROVE  \A q \in Req : pc'[q] \in S!InTx => S!TransferOf(q)' \in moved'
<1>1. CASE \E q \in Req : Sprays(q) /\ UNCHANGED transferVars
  <2>1. PICK q \in Req : Sprays(q)
    BY <1>1
  <2>2. ASSUME pc'[q] \in S!InTx PROVE S!TransferOf(q)' \in moved'
    <3>1. \/ pc[q] \in S!InTx /\ UNCHANGED <<local, body>>
          \/ UNCHANGED <<local, body>> /\ S!TransferOf(q) \in moved'
      BY <2>1, <2>2
      DEF TypeOK, S!InTx, Sprays, S!Step, S!Start, S!CheckKey, S!Replay, S!ReadEvent,
          S!ReadSprayer, S!ReadReceiver, S!ReadDefaults, S!LockCheck, S!CallProvider,
          S!LockSprayer, S!LockReceiver, S!InsertAndCommit, S!Record, S!ReadTotals, S!Answer,
          S!TxAbort, S!Proceed, S!Remember, S!Throw, S!Goto
    <3> QED BY <3>1, MovedGrows DEF PaidBeforeRecording, S!TransferOf
  <2>3. ASSUME NEW p \in Req, p /= q, pc'[p] \in S!InTx PROVE S!TransferOf(p)' \in moved'
    <3>1. pc'[p] = pc[p] /\ local'[p] = local[p] /\ body' = body
      BY <2>1, <2>3, OthersStand, SprayEffect
    <3> QED BY <2>3, <3>1, MovedGrows DEF PaidBeforeRecording, S!TransferOf
  <2> QED BY <2>2, <2>3
<1>2. CASE (TransfersNext /\ UNCHANGED spending) \/ Die
  <2>1. ASSUME NEW p \in Req, pc'[p] \in S!InTx PROVE S!TransferOf(p)' \in moved'
    <3>1. pc'[p] = pc[p] /\ local'[p] = local[p] /\ body' = body
      BY <1>2, <2>1, SpraysStand DEF S!InTx
    <3> QED BY <2>1, <3>1, MovedGrows DEF PaidBeforeRecording, S!TransferOf
  <2> QED BY <2>1
<1> QED BY <1>1, <1>2, NextIs

LEMMA PaidTransfers ==
  ASSUME TypeOK, PaidBeforeRecording, Next
  PROVE  \A t \in Transfer : at'[t] \in Recording => MoveOf(t)' \in moved'
<1> SUFFICES ASSUME NEW t \in Transfer, at'[t] \in Recording PROVE MoveOf(t)' \in moved'
  OBVIOUS
<1> t \in Calls
  BY CallKinds
<1>1. /\ request'[t] = request[t]
      /\ at[t] \in Recording \/ MoveOf(t) \in moved'
  <2>1. CASE Quiet
    BY <2>1 DEF Quiet, StandsOrMoves, QuietMoves, Recording
  <2>2. CASE ~Quiet
    BY <2>2, NextEffect, CallKinds
    DEF CommitsSpray, InsertsDebit, InsertsCredit, InsertsSpray, WritesStatus, Recording,
        TypeOK, TransfersTypeOK
  <2> QED BY <2>1, <2>2
<1>2. MoveOf(t)' = MoveOf(t)
  BY <1>1 DEF MoveOf, ReferenceOf
<1> QED BY <1>1, <1>2, MovedGrows DEF PaidBeforeRecording
LEMMA SpraysGrow == ASSUME TypeOK, Next PROVE spray \subseteq spray'
BY NextEffect DEF Quiet, CommitsSpray, InsertsDebit, InsertsCredit, InsertsSpray, WritesStatus

\* A call that has recorded its spray, or found one, has it.
Answered(q) ==
  /\ pc[q] \in {"readTotals", "answer"} =>
       \E s \in spray : s.debit = ClientRef(body[q].key) /\ s.id = q
  /\ pc[q] \in {"replay", "done"} =>
       \E s \in spray : s.debit = ClientRef(body[q].key) /\ s.id = reply[q]

LEMMA AnsweredStands ==
  ASSUME NEW q \in Req, Answered(q), spray \subseteq spray', body' = body,
         \/ pc'[q] = pc[q] /\ reply'[q] = reply[q]
         \/ pc'[q] \notin {"readTotals", "answer", "replay", "done"}
  PROVE  Answered(q)'
BY DEF Answered

LEMMA AnsweredMoves ==
  ASSUME TypeOK, NEW q \in Req, Answered(q), Sprays(q), UNCHANGED transferVars, spray \subseteq spray'
  PROVE  Answered(q)'
<1> body' = body
  BY SprayEffect
<1>1. CASE Commits(q)
  <2>1. CommitsSpray(q)
    BY <1>1, CommitEffect
  <2>2. pc'[q] = "readTotals" /\ S!SprayOf(q) \in spray'
    BY <2>1 DEF CommitsSpray, TypeOK
  <2>3. S!SprayOf(q).id = q /\ S!SprayOf(q).debit = ClientRef(body[q].key)
    BY SprayRowFields
  <2> QED BY <2>2, <2>3 DEF Answered
<1>2. CASE S!CheckKey(q)
  <2>1. CASE S!Proceed(q, "readEvent")
    <3>1. pc'[q] = "readEvent"
      BY <2>1 DEF S!Proceed, S!Goto, TypeOK
    <3> QED BY <3>1 DEF Answered
  <2>2. CASE ~S!Proceed(q, "readEvent")
    <3>1. PICK s \in S!SpraysUnder(S!ClientRef(body[q].key)) :
            reply' = [reply EXCEPT ![q] = s.id] /\ S!Goto(q, "replay")
      BY <1>2, <2>2 DEF S!CheckKey
    <3>2. s \in spray /\ s.debit = ClientRef(body[q].key)
      BY SameLedger DEF S!SpraysUnder
    <3>3. reply'[q] = s.id /\ pc'[q] = "replay"
      BY <3>1 DEF S!Goto, TypeOK
    <3> QED BY <3>2, <3>3 DEF Answered
  <2> QED BY <2>1, <2>2
<1>3. CASE S!Replay(q)
  <2>1. pc[q] = "replay" /\ pc'[q] = "done" /\ reply' = reply
    BY <1>3 DEF S!Replay, S!Proceed, S!Goto, TypeOK
  <2> QED BY <2>1 DEF Answered
<1>4. CASE S!ReadTotals(q)
  <2>1. pc[q] = "readTotals" /\ pc'[q] = "answer"
    BY <1>4 DEF S!ReadTotals, S!Remember, S!Goto, TypeOK
  <2> QED BY <2>1 DEF Answered
<1>5. CASE S!Answer(q)
  <2>1. pc[q] = "answer" /\ pc'[q] = "done" /\ reply'[q] = q
    BY <1>5 DEF S!Answer, S!Goto, TypeOK
  <2> QED BY <2>1 DEF Answered
<1>6. CASE ~(Commits(q) \/ S!CheckKey(q) \/ S!Replay(q) \/ S!ReadTotals(q) \/ S!Answer(q))
  <2>1. ASSUME S!Throw(q) PROVE pc'[q] \notin {"readTotals", "answer", "replay", "done"}
    BY <2>1 DEF S!Throw, S!Goto, TypeOK
  <2>2. pc'[q] \notin {"readTotals", "answer", "replay", "done"}
    <3>1. CASE S!InsertAndCommit(q)
      BY <1>6, <2>1, <3>1, SameLedger DEF S!InsertAndCommit, Commits
    <3>2. CASE ~S!InsertAndCommit(q)
      BY <1>6, <2>1, <3>2
      DEF Sprays, S!Step, S!Start, S!ReadEvent, S!ReadSprayer, S!ReadReceiver, S!ReadDefaults,
          S!LockCheck, S!CallProvider, S!LockSprayer, S!LockReceiver, S!TxAbort, S!Proceed,
          S!Remember, S!Goto, TypeOK
    <3> QED BY <3>1, <3>2
  <2> QED BY <2>2, AnsweredStands
<1> QED BY <1>1, <1>2, <1>3, <1>4, <1>5, <1>6

LEMMA AnswersStep == ASSUME TypeOK, AnswersAreRecorded, Next PROVE AnswersAreRecorded'
<1> SUFFICES ASSUME NEW p \in Req PROVE Answered(p)'
  BY DEF AnswersAreRecorded, Answered
<1>1. Answered(p) /\ spray \subseteq spray'
  BY SpraysGrow DEF AnswersAreRecorded, Answered
<1>2. CASE \E q \in Req : Sprays(q) /\ UNCHANGED transferVars
  <2>1. PICK q \in Req : Sprays(q) /\ UNCHANGED transferVars
    BY <1>2
  <2>2. CASE p = q
    BY <1>1, <2>1, <2>2, AnsweredMoves
  <2>3. CASE p /= q
    BY <1>1, <2>1, <2>3, OthersStand, SprayEffect, AnsweredStands
  <2> QED BY <2>2, <2>3
<1>3. CASE (TransfersNext /\ UNCHANGED spending) \/ Die
  <2>1. pc'[p] = "lost" => pc'[p] \notin {"readTotals", "answer", "replay", "done"}
    OBVIOUS
  <2> QED BY <1>1, <1>3, <2>1, SpraysStand, AnsweredStands
<1> QED BY <1>2, <1>3, NextIs

(***************************************************************************)
(* The theorems.                                                           *)
(***************************************************************************)
LEMMA InitSpending == Init => SpendingInv
<1> SUFFICES ASSUME Init PROVE SpendingInv OBVIOUS
<1>1. /\ transaction = {} /\ spray = {} /\ moved = {}
      /\ pc = [q \in Req |-> "idle"] /\ at = [c \in Calls |-> "idle"]
  BY DEF Init, S!Init, S!TablesInit, TransfersInit
<1>2. TypeOK
  BY InitType
<1>3. WalletsKnown /\ AnswersAreRecorded
  BY <1>1 DEF WalletsKnown, AnswersAreRecorded, S!InTx
<1>4. PaidBeforeRecording
  BY <1>1, CallKinds DEF PaidBeforeRecording, S!InTx, Recording
<1>5. RecordsWereMoved /\ ReferencesTell /\ OneSprayPerReference
  BY <1>1 DEF RecordsWereMoved, ReferencesTell, OneSprayPerReference
<1>6. TransfersStand
  BY <1>1, CallKinds DEF TransfersStand, Recording
<1> QED BY <1>2, <1>3, <1>4, <1>5, <1>6 DEF SpendingInv

LEMMA StutterSpending == ASSUME SpendingInv, UNCHANGED vars PROVE SpendingInv'
<1>1. TypeOK'
  BY DEF SpendingInv, TypeOK, TablesTypeOK, TransfersTypeOK, Requests
<1>2. WalletsKnown' /\ AnswersAreRecorded' /\ OneSprayPerReference' /\ RecordsWereMoved' /\ ReferencesTell'
  BY DEF SpendingInv, WalletsKnown, AnswersAreRecorded, OneSprayPerReference, RecordsWereMoved,
         ReferencesTell
<1>3. PaidBeforeRecording'
  BY DEF SpendingInv, PaidBeforeRecording, S!TransferOf, MoveOf, ReferenceOf
<1>4. TransfersStand'
  BY DEF SpendingInv, TransfersStand, DebitStands, Recorded, ReferenceOf
<1> QED BY <1>1, <1>2, <1>3, <1>4 DEF SpendingInv

LEMMA SpendingStep == SpendingInv /\ [Next]_vars => SpendingInv'
<1> SUFFICES ASSUME SpendingInv, [Next]_vars PROVE SpendingInv'
  OBVIOUS
<1>1. CASE Next
  <2>1. PaidBeforeRecording'
    BY <1>1, PaidSprays, PaidTransfers DEF SpendingInv, PaidBeforeRecording
  <2> QED BY <1>1, <2>1, TypeStep, WalletsStep, MovedStep, ReferencesStep, StandsStep, AnswersStep,
             OneSprayStep DEF SpendingInv
<1>2. CASE UNCHANGED vars
  BY <1>2, StutterSpending
<1> QED BY <1>1, <1>2

\* The inductive invariant holds in every reachable state, for any number of
\* sprays, transfers, payouts, requeries and reversals.
THEOREM InductiveInvariant == Spec => []SpendingInv
BY InitSpending, SpendingStep, PTL DEF Spec

\* The tables, and the calls of both kinds, keep their types.
THEOREM TypeCorrect == Spec => []TypeOK
<1>1. SpendingInv => TypeOK
  BY DEF SpendingInv
<1> QED BY <1>1, InductiveInvariant, PTL

\* Whichever service recorded it, a row is money the provider has moved for that
\* call (sprays.service.ts:293, walletmodule.service.ts:343-369).
THEOREM RecordsAreMoves == Spec => []RecordsWereMoved
<1>1. SpendingInv => RecordsWereMoved
  BY DEF SpendingInv
<1> QED BY <1>1, InductiveInvariant, PTL

\* What a fault leaves of a transfer is a prefix of debit, credit, spray and
\* balances (walletmodule.service.ts:343-402).
THEOREM TransfersWriteInOrder == Spec => []RecordsAreWrittenInOrder
<1>1. SpendingInv => RecordsAreWrittenInOrder
  <2> SUFFICES ASSUME SpendingInv, NEW t \in Transfer
               PROVE  /\ (\E s \in spray : s.id = t) =>
                           {r.direction : r \in GroupOf(t)} = {"DEBIT", "CREDIT"}
                      /\ GroupOf(t) /= {} =>
                           \E r \in GroupOf(t) : r.direction = "DEBIT" /\ r.reference = ReferenceOf(t)
                      /\ at[t] \in {"writeBoth", "writeFrom", "writeTo", "done"} =>
                           \E s \in spray : s.id = t
    BY DEF RecordsAreWrittenInOrder
  <2> Stands(t)
    BY StandsIs DEF SpendingInv
  <2>1. \A r \in GroupOf(t) : r.direction \in {"DEBIT", "CREDIT"}
    BY DEF GroupOf, SpendingInv, TypeOK, TablesTypeOK, TransactionRow
  <2>2. ASSUME \E s \in spray : s.id = t
        PROVE  {r.direction : r \in GroupOf(t)} = {"DEBIT", "CREDIT"}
    <3>1. Recorded(t, "CREDIT") /\ Recorded(t, "DEBIT")
      BY <2>2 DEF Stands
    <3>2. /\ \E r \in GroupOf(t) : r.direction = "CREDIT"
          /\ \E r \in GroupOf(t) : r.direction = "DEBIT"
      BY <3>1 DEF Recorded, GroupOf
    <3> QED BY <2>1, <3>2
  <2>3. GroupOf(t) /= {} =>
          \E r \in GroupOf(t) : r.direction = "DEBIT" /\ r.reference = ReferenceOf(t)
    BY DEF Stands, DebitStands, GroupOf
  <2> QED BY <2>2, <2>3 DEF Stands
<1> QED BY <1>1, InductiveInvariant, PTL

\* A key has one Spray, and a spray that was answered has the one of its key
\* (sprays.service.ts:54-70, walletmodule.service.ts:343-385).
THEOREM KeysHaveOneSpray == Spec => []KeysStandForOneSpray
<1>1. SpendingInv => KeysStandForOneSpray
  BY DEF SpendingInv, OneSprayPerReference, AnswersAreRecorded, KeysStandForOneSpray
<1> QED BY <1>1, InductiveInvariant, PTL

(***************************************************************************)
(* The balances.  While calls come one at a time and none dies, what a     *)
(* call has read is what the wallet still holds, and a balance is what the *)
(* moves that have landed in it left.                                      *)
(***************************************************************************)
Writing == {"writeBoth", "writeFrom", "writeTo"}
Settled == {"readTotals", "answer", "done"}

\* Call c has written the balance it takes its move from, and the one it brings it to.
Gave(c) == IF c \in Req THEN pc[c] \in Settled ELSE at[c] \in {"writeTo", "done"}
Got(c)  == IF c \in Req THEN pc[c] \in Settled ELSE at[c] \in {"writeFrom", "done"}

Out(w) == {m \in moved : m.from = w /\ Gave(m.by)}
In(w)  == {m \in moved : m.to = w /\ Got(m.by)}

\* No wallet's move is its own.
Plain(w) == \A m \in moved : ~(m.from = w /\ m.to = w)

SumFits(w) ==
  Plain(w) => balance[w].available = Opening - SumOfAmounts(Out(w)) + SumOfAmounts(In(w))

\* What call q of createSpray has read of the two wallets.
SprayFresh(q) ==
  /\ pc[q] \in {"callProvider"} \cup S!InTx => local[q].locked = balance[local[q].from]
  /\ pc[q] \in {"readDefaults", "lockCheck", "callProvider"} \cup S!InTx =>
       (local[q].to \in Wallets => local[q].seen = balance[local[q].to])

\* What call c of a transfer or a payout has read, as long as it is to be written.
OwesFrom(c) ==
  \/ at[c] \in {"readTo", "callProvider", "writeBoth"} \cup Recording
  \/ at[c] = "writeFrom" /\ request[c].from /= request[c].to
OwesTo(c) ==
  \/ at[c] \in {"callProvider", "writeBoth"} \cup Recording
  \/ at[c] = "writeTo" /\ request[c].from /= request[c].to

SnapFresh(c) ==
  /\ OwesFrom(c) => snap[c].from = balance[request[c].from]
  /\ c \in Transfer /\ OwesTo(c) => snap[c].to = balance[request[c].to]

\* At most one call is in flight.
Lone == \A c, d \in InFlight \cup S!InFlight : c = d

MoveStands(m) ==
  /\ m.by \in Req \cup Moving
  /\ m.by \in Req => pc[m.by] \in S!InTx \cup Settled \cup {"failed", "lost"}
  /\ m.by \in Moving => at[m.by] \in Recording \cup Writing \cup {"done", "failed", "lost"}

MovesBelong ==
  /\ IsFiniteSet(moved)
  /\ \A m \in moved : MoveStands(m)
  /\ \A m, n \in moved : m.by = n.by => m = n
  /\ \A c \in Moving : at[c] \in Recording \cup Writing => MoveOf(c) \in moved

BalancesFit ==
  /\ Lone
  /\ \A q \in Req : SprayFresh(q)
  /\ \A c \in Moving : SnapFresh(c)
  /\ \A w \in Wallets : SumFits(w)

MovesFit == MovesBelong /\ (~mixed /\ faults = 0 => BalancesFit)

\* Sets whose sizes add up to one at most have one element between them.
LEMMA Pairs ==
  ASSUME NEW A, IsFiniteSet(A), NEW c \in A, NEW d \in A, c /= d
  PROVE  Cardinality(A) >= 2
<1>1. IsFiniteSet({c}) /\ Cardinality({c}) = 1
  BY FS_Singleton
<1>2. IsFiniteSet({c} \cup {d}) /\ Cardinality({c} \cup {d}) = 2
  <2>1. d \notin {c}
    OBVIOUS
  <2> QED BY <1>1, <2>1, FS_AddElement
<1>3. {c} \cup {d} \subseteq A
  OBVIOUS
<1>4. Cardinality({c} \cup {d}) <= Cardinality(A)
  BY <1>3, FS_Subset
<1>5. Cardinality(A) \in Nat
  BY FS_CardinalityType
<1> QED BY <1>2, <1>4, <1>5

LEMMA OneOfTwo ==
  ASSUME NEW A, NEW B, IsFiniteSet(A), IsFiniteSet(B), Cardinality(A) + Cardinality(B) <= 1
  PROVE  \A c, d \in A \cup B : c = d
<1>1. Cardinality(A) \in Nat /\ Cardinality(B) \in Nat
  BY FS_CardinalityType
<1>2. (A = {} <=> Cardinality(A) = 0) /\ (B = {} <=> Cardinality(B) = 0)
  BY FS_EmptySet
<1>3. A = {} \/ B = {}
  BY <1>1, <1>2
<1>4. ASSUME NEW c \in A \cup B, NEW d \in A \cup B, c /= d PROVE FALSE
  <2>1. CASE A = {}
    <3>1. Cardinality(B) >= 2
      BY <1>4, <2>1, Pairs
    <3> QED BY <1>1, <3>1
  <2>2. CASE B = {}
    <3>1. Cardinality(A) >= 2
      BY <1>4, <2>2, Pairs
    <3> QED BY <1>1, <3>1
  <2> QED BY <1>3, <2>1, <2>2
<1> QED BY <1>4

\* The history flag tells: unless it is set, one call is in flight at most.
LEMMA LoneStep == ASSUME Next, ~mixed' PROVE Lone'
<1>1. Together' <= 1
  <2>1. ~(Together' > 1)
    BY DEF Next
  <2>2. Together' \in Int
    <3>1. IsFiniteSet(InFlight') /\ IsFiniteSet(S!InFlight')
      BY FS_Subset, CallAssumption, SpendingAssumption DEF InFlight, S!InFlight
    <3>2. Cardinality(InFlight') \in Nat /\ Cardinality(S!InFlight') \in Nat
      BY <3>1, FS_CardinalityType
    <3> QED BY <3>2 DEF Together
  <2> QED BY <2>1, <2>2
<1>2. IsFiniteSet(InFlight') /\ IsFiniteSet(S!InFlight')
  BY FS_Subset, CallAssumption, SpendingAssumption DEF InFlight, S!InFlight
<1> DEFINE A == InFlight'  B == S!InFlight'
<1>3. Cardinality(A) + Cardinality(B) <= 1
  BY <1>1 DEF Together
<1> HIDE DEF A, B
<1>4. \A c, d \in A \cup B : c = d
  BY <1>2, <1>3, OneOfTwo DEF A, B
<1> QED BY <1>4 DEF A, B, Lone

\* The calls that do not move are over, or have not begun.
Alone(x) ==
  /\ \A q \in Req : q /= x => pc'[q] = pc[q] /\ local'[q] = local[q] /\ pc[q] \notin S!Running
  /\ \A c \in Calls : c /= x => /\ at'[c] = at[c] /\ at[c] \notin Places
                                /\ at[c] /= "idle" => request'[c] = request[c]

\* What they have read is of no more use.
LEMMA OthersFresh ==
  ASSUME NEW x, Alone(x)
  PROVE  /\ \A q \in Req : q /= x => SprayFresh(q)'
         /\ \A c \in Moving : c /= x => SnapFresh(c)'
<1>1. ASSUME NEW q \in Req, q /= x PROVE SprayFresh(q)'
  <2>1. pc'[q] \notin S!Running
    BY <1>1 DEF Alone
  <2>2. pc'[q] \notin {"readDefaults", "lockCheck", "callProvider"} \cup S!InTx
    BY <2>1 DEF S!Running, S!Reading, S!Waiting
  <2> QED BY <2>2 DEF SprayFresh
<1>2. ASSUME NEW c \in Moving, c /= x PROVE SnapFresh(c)'
  <2>1. at'[c] \notin Places
    BY <1>2, CallKinds DEF Alone
  <2> QED BY <2>1 DEF SnapFresh, OwesFrom, OwesTo, Recording, Places
<1> QED BY <1>1, <1>2

\* Money on its way is in no balance; the rest is where it was.
LEMMA StillFits ==
  ASSUME NEW w \in Wallets, SumFits(w), balance' = balance, moved \subseteq moved',
         \A m \in moved : (Gave(m.by)' <=> Gave(m.by)) /\ (Got(m.by)' <=> Got(m.by)),
         \A m \in moved' : m \notin moved => ~Gave(m.by)' /\ (~Got(m.by)' \/ m.to \notin Wallets)
  PROVE  SumFits(w)'
<1> SUFFICES ASSUME Plain(w)'
             PROVE  balance'[w].available = Opening - SumOfAmounts(Out(w)') + SumOfAmounts(In(w)')
  BY DEF SumFits
<1>1. Out(w)' = Out(w) /\ In(w)' = In(w)
  BY DEF Out, In
<1>2. Plain(w)
  BY DEF Plain
<1> QED BY <1>1, <1>2 DEF SumFits

(***************************************************************************)
(* A step of createSpray.                                                  *)
(***************************************************************************)
SprayMoves ==
  {<<"idle", "checkKey">>, <<"checkKey", "readEvent">>, <<"checkKey", "replay">>,
   <<"replay", "done">>, <<"readEvent", "readSprayer">>, <<"readSprayer", "readReceiver">>,
   <<"readReceiver", "readDefaults">>, <<"readReceiver", "lockCheck">>,
   <<"readDefaults", "lockCheck">>, <<"lockCheck", "callProvider">>,
   <<"callProvider", "lockSprayer">>, <<"lockSprayer", "lockReceiver">>,
   <<"lockReceiver", "insert">>, <<"insert", "readTotals">>, <<"readTotals", "answer">>,
   <<"answer", "done">>}

LEMMA SprayMovesOn ==
  ASSUME TypeOK, NEW q \in Req, Sprays(q)
  PROVE  \/ <<pc[q], pc'[q]>> \in SprayMoves
         \/ pc[q] \in S!Running /\ pc'[q] = "failed"
<1>1. ASSUME S!Throw(q) PROVE pc'[q] = "failed"
  BY <1>1 DEF S!Throw, S!Goto, TypeOK
<1>2. ASSUME S!Throw(q), pc[q] \in S!Running
      PROVE pc[q] \in S!Running /\ pc'[q] = "failed"
  BY <1>1, <1>2
<1> USE DEF S!Proceed, S!Remember, S!Goto, TypeOK, SprayMoves
<1>3. CASE S!Start(q) \/ S!CheckKey(q) \/ S!Replay(q) \/ S!LockSprayer(q) \/ S!LockReceiver(q)
           \/ S!ReadTotals(q) \/ S!Answer(q)
  BY <1>3 DEF S!Start, S!CheckKey, S!Replay, S!LockSprayer, S!LockReceiver, S!ReadTotals, S!Answer
<1>4. CASE S!ReadEvent(q) \/ S!ReadSprayer(q) \/ S!ReadReceiver(q) \/ S!ReadDefaults(q)
           \/ S!LockCheck(q)
  BY <1>1, <1>4
  DEF S!ReadEvent, S!ReadSprayer, S!ReadReceiver, S!ReadDefaults, S!LockCheck,
      S!Running, S!Reading, S!Waiting
<1>5. CASE S!CallProvider(q) \/ S!InsertAndCommit(q) \/ S!TxAbort(q)
  BY <1>1, <1>5 DEF S!CallProvider, S!InsertAndCommit, S!Record, S!TxAbort, S!Running, S!InTx
<1> QED BY <1>3, <1>4, <1>5 DEF Sprays, S!Step

\* A balance is written by the commit, and money is moved by the provider.
LEMMA SprayMoney ==
  ASSUME TypeOK, NEW q \in Req, Sprays(q)
  PROVE  /\ \/ balance' = balance /\ ~(pc[q] = "insert" /\ pc'[q] = "readTotals")
            \/ pc[q] = "insert" /\ pc'[q] = "readTotals" /\ balance' = S!NewBalances(q)
         /\ \/ moved' = moved
            \/ /\ pc[q] = "callProvider" /\ pc'[q] \in {"lockSprayer", "failed"}
               /\ moved' = moved \cup {S!TransferOf(q)} /\ balance' = balance
<1>1. ASSUME S!Throw(q) PROVE UNCHANGED <<balance, moved>> /\ pc'[q] = "failed"
  BY <1>1 DEF S!Throw, S!Goto, TypeOK
<1>2. CASE S!CallProvider(q) \/ S!InsertAndCommit(q)
  BY <1>1, <1>2 DEF S!CallProvider, S!InsertAndCommit, S!Record, S!Goto, TypeOK
<1>3. CASE ~(S!CallProvider(q) \/ S!InsertAndCommit(q))
  BY <1>1, <1>3
  DEF Sprays, S!Step, S!Start, S!CheckKey, S!Replay, S!ReadEvent, S!ReadSprayer, S!ReadReceiver,
      S!ReadDefaults, S!LockCheck, S!LockSprayer, S!LockReceiver, S!ReadTotals,
      S!Answer, S!TxAbort, S!Proceed, S!Remember, S!Goto, S!InTx, TypeOK
<1> QED BY <1>2, <1>3

\* The reads of a call are of the balances as they are, and it keeps them.
LEMMA SprayStaysFresh ==
  ASSUME TypeOK, WalletsKnown, NEW q \in Req, Sprays(q), SprayFresh(q)
  PROVE  SprayFresh(q)'
<1> local[q] \in S!Locals /\ NoWallet \notin Wallets
  BY SpendingAssumption DEF TypeOK
<1>1. CASE pc'[q] \in {"failed", "checkKey", "readEvent", "replay", "done", "readSprayer",
                       "readReceiver", "readTotals", "answer"}
  BY <1>1 DEF SprayFresh, S!InTx
<1>2. CASE S!ReadReceiver(q) /\ ~S!Throw(q)
  <2> DEFINE l == S!WithReceiver(local[q], S!SeatWallet(body[q].receiver))
  <2>1. local'[q] = l /\ pc'[q] \in {"readDefaults", "lockCheck"} /\ balance' = balance
    BY <1>2 DEF S!ReadReceiver, S!Remember, S!Goto, S!Keep, TypeOK
  <2>2. l.to \in Wallets => l.seen = balance[l.to]
    BY DEF S!WithReceiver, S!Locals
  <2> QED BY <2>1, <2>2 DEF SprayFresh, S!InTx
<1>3. CASE S!ReadDefaults(q) /\ ~S!Throw(q)
  <2>1. local'[q] = S!WithDefaults(q) /\ pc'[q] = "lockCheck" /\ pc[q] = "readDefaults"
        /\ balance' = balance
    BY <1>3 DEF S!ReadDefaults, S!Remember, S!Goto, S!Keep, TypeOK
  <2>2. local[q].to \in Wallets => local[q].seen = balance[local[q].to]
    BY <2>1 DEF SprayFresh
  <2>3. S!WithDefaults(q).to \in Wallets => S!WithDefaults(q).seen = balance[S!WithDefaults(q).to]
    <3>1. CASE local[q].to = NoWallet
      BY <3>1 DEF S!WithDefaults, S!WithReceiver, S!Locals
    <3>2. CASE local[q].to /= NoWallet
      BY <2>2, <3>2 DEF S!WithDefaults, S!Locals
    <3> QED BY <3>1, <3>2
  <2> QED BY <2>1, <2>3 DEF SprayFresh, S!InTx
<1>4. CASE S!LockCheck(q) /\ ~S!Throw(q)
  <2>1. /\ local'[q] = [local[q] EXCEPT !.locked = balance[local[q].from]]
        /\ pc[q] = "lockCheck" /\ balance' = balance
    BY <1>4 DEF S!LockCheck, S!Remember, S!Goto, S!Keep, TypeOK
  <2> QED BY <2>1 DEF SprayFresh, S!Locals
<1>5. CASE pc'[q] \in S!InTx
  <2>1. <<pc[q], pc'[q]>> \in SprayMoves
    BY <1>5, SprayMovesOn DEF S!InTx
  <2>2. pc[q] \in {"callProvider"} \cup S!InTx /\ pc'[q] /= "readTotals"
    BY <1>5, <2>1 DEF SprayMoves, S!InTx
  <2>3. local'[q] = local[q]
    BY <1>5, <2>2
    DEF Sprays, S!Step, S!Start, S!CheckKey, S!Replay, S!ReadEvent, S!ReadSprayer, S!ReadReceiver,
        S!ReadDefaults, S!LockCheck, S!CallProvider, S!LockSprayer, S!LockReceiver,
        S!InsertAndCommit, S!Record, S!ReadTotals, S!Answer, S!TxAbort, S!Throw, S!Goto, S!InTx,
        TypeOK
  <2>4. balance' = balance
    BY <2>2, SprayMoney
  <2> QED BY <2>2, <2>3, <2>4 DEF SprayFresh
<1>6. CASE pc'[q] \in {"readDefaults", "lockCheck", "callProvider"}
  <2>1. ~S!Throw(q)
    BY <1>6 DEF S!Throw, S!Goto, TypeOK
  <2>2. S!ReadReceiver(q) \/ S!ReadDefaults(q) \/ S!LockCheck(q)
    BY <1>6, <2>1
    DEF Sprays, S!Step, S!Start, S!CheckKey, S!Replay, S!ReadEvent, S!ReadSprayer,
        S!CallProvider, S!LockSprayer, S!LockReceiver, S!Proceed, S!Remember,
        S!InsertAndCommit, S!Record, S!ReadTotals, S!Answer, S!TxAbort, S!Goto, TypeOK
  <2> QED BY <1>2, <1>3, <1>4, <2>1, <2>2
<1> QED BY <1>1, <1>5, <1>6, SprayMovesOn DEF SprayMoves, S!InTx

\* Moves are by calls that have passed the provider, one for each.
LEMMA SprayMovesBelong ==
  ASSUME TypeOK, MovesBelong, NEW q \in Req, Sprays(q), UNCHANGED transferVars
  PROVE  MovesBelong'
<1>1. ASSUME NEW m \in moved PROVE MoveStands(m)'
  <2>1. MoveStands(m)
    BY DEF MovesBelong
  <2>2. m.by \in Req /\ m.by /= q => pc'[m.by] = pc[m.by]
    BY OthersStand
  <2>3. pc[q] \in S!InTx \cup Settled \cup {"failed", "lost"} =>
          pc'[q] \in S!InTx \cup Settled \cup {"failed", "lost"}
    BY SprayMovesOn DEF SprayMoves, S!InTx, Settled, S!Running, S!Reading, S!Waiting
  <2> QED BY <2>1, <2>2, <2>3 DEF MoveStands
<1>2. \A c \in Moving : at'[c] \in Recording \cup Writing => MoveOf(c)' \in moved
  BY DEF MovesBelong, MoveOf, ReferenceOf
<1>3. CASE moved' = moved
  BY <1>1, <1>2, <1>3 DEF MovesBelong
<1>4. CASE /\ pc[q] = "callProvider" /\ pc'[q] \in {"lockSprayer", "failed"}
           /\ moved' = moved \cup {S!TransferOf(q)}
  <2>1. S!TransferOf(q).by = q
    BY DEF S!TransferOf
  <2>2. \A m \in moved : m.by /= q
    BY <1>4 DEF MovesBelong, MoveStands, S!InTx, Settled
  <2>3. ASSUME NEW m \in moved', m \notin moved PROVE MoveStands(m)' /\ m.by = q
    <3>1. q \notin Moving /\ m.by = q
      BY <1>4, <2>1, <2>3, CallKinds, SpendingAssumption
    <3> QED BY <1>4, <3>1 DEF MoveStands, S!InTx
  <2>4. IsFiniteSet(moved')
    BY <1>4, FS_AddElement DEF MovesBelong
  <2>5. \A m, n \in moved' : m.by = n.by => m = n
    BY <1>4, <2>1, <2>2 DEF MovesBelong
  <2>6. \A m \in moved' : MoveStands(m)'
    BY <1>1, <2>3
  <2>7. \A c \in Moving : at'[c] \in Recording \cup Writing => MoveOf(c)' \in moved'
    BY <1>2, <1>4
  <2> QED BY <2>4, <2>5, <2>6, <2>7 DEF MovesBelong
<1> QED BY <1>3, <1>4, SprayMoney

\* A step takes from wallet w the amount of the move that it makes leave it, and
\* adds the amount of the one it makes arrive.
LEMMA LandFits ==
  ASSUME TypeOK, MovesBelong, moved' = moved, NEW T \in moved,
         \A m \in moved : m /= T => (Gave(m.by)' <=> Gave(m.by)) /\ (Got(m.by)' <=> Got(m.by)),
         Gave(T.by) => Gave(T.by)', Got(T.by) => Got(T.by)',
         NEW w \in Wallets, SumFits(w),
         ~(T.from = w /\ T.to = w) =>
           balance'[w].available =
             IF T.from = w /\ ~Gave(T.by) /\ Gave(T.by)' THEN balance[w].available - T.amount
             ELSE IF T.to = w /\ ~Got(T.by) /\ Got(T.by)' THEN balance[w].available + T.amount
             ELSE balance[w].available
  PROVE  SumFits(w)'
<1>1. \A m \in moved : m.amount \in Int
  BY DEF TypeOK, TransfersTypeOK, Move
<1> SUFFICES ASSUME Plain(w)
             PROVE  balance'[w].available = Opening - SumOfAmounts(Out(w)') + SumOfAmounts(In(w)')
  BY DEF SumFits, Plain
<1>2. ~(T.from = w /\ T.to = w)
  BY DEF Plain
<1>3. balance[w].available = Opening - SumOfAmounts(Out(w)) + SumOfAmounts(In(w))
  BY DEF SumFits
<1> DEFINE takes == T.from = w /\ ~Gave(T.by) /\ Gave(T.by)'
           brings == T.to = w /\ ~Got(T.by) /\ Got(T.by)'
           O == Out(w)  I == In(w)
<1>4. /\ Out(w)' = IF takes THEN O \cup {T} ELSE O
      /\ In(w)' = IF brings THEN I \cup {T} ELSE I
  BY DEF Out, In
<1>5. (takes => T \notin O) /\ (brings => T \notin I)
  BY DEF Out, In
<1>6. IsFiniteSet(O) /\ IsFiniteSet(I)
  BY FS_Subset DEF MovesBelong, Out, In
<1>7. /\ \A m \in O : m.amount \in Int
      /\ \A m \in I : m.amount \in Int
      /\ T.amount \in Int
  BY <1>1 DEF Out, In
<1>8. balance[w].available \in Int /\ Opening \in Int
  BY OpeningAssumption DEF TypeOK, TablesTypeOK, Balance
<1>9. balance'[w].available = IF takes THEN balance[w].available - T.amount
                              ELSE IF brings THEN balance[w].available + T.amount
                              ELSE balance[w].available
  BY <1>2
<1>10. ~(takes /\ brings)
  BY <1>2
<1>11. balance[w].available = Opening - SumOfAmounts(O) + SumOfAmounts(I)
  BY <1>3
<1> HIDE DEF takes, brings, O, I
<1>12. SumOfAmounts(O) \in Int /\ SumOfAmounts(I) \in Int
  BY <1>6, <1>7, SumInt
<1>13. CASE takes
  <2>1. SumOfAmounts(O \cup {T}) = SumOfAmounts(O) + T.amount
    <3>1. \A m \in O \cup {T} : m.amount \in Int
      BY <1>7
    <3> QED BY <1>5, <1>6, <1>13, <3>1, SumAdd
  <2> QED BY <1>4, <1>7, <1>8, <1>9, <1>10, <1>11, <1>12, <1>13, <2>1
<1>14. CASE ~takes /\ brings
  <2>1. SumOfAmounts(I \cup {T}) = SumOfAmounts(I) + T.amount
    <3>1. \A m \in I \cup {T} : m.amount \in Int
      BY <1>7
    <3> QED BY <1>5, <1>6, <1>14, <3>1, SumAdd
  <2> QED BY <1>4, <1>7, <1>8, <1>9, <1>11, <1>12, <1>14, <2>1
<1>15. CASE ~takes /\ ~brings
  BY <1>4, <1>9, <1>11, <1>15
<1> QED BY <1>13, <1>14, <1>15

\* The commit takes the move from the one wallet and adds it to the other.
LEMMA CommitFits ==
  ASSUME TypeOK, MovesBelong, PaidBeforeRecording, WalletsKnown,
         NEW q \in Req, pc[q] = "insert", pc'[q] = "readTotals", SprayFresh(q),
         balance' = S!NewBalances(q), moved' = moved, UNCHANGED transferVars,
         \A p \in Req : p /= q => pc'[p] = pc[p],
         NEW w \in Wallets, SumFits(w)
  PROVE  SumFits(w)'
<1>0. PICK T \in moved : T = S!TransferOf(q)
  BY DEF PaidBeforeRecording, S!InTx
<1>1. local[q].from \in Wallets /\ local[q].to \in Wallets
  BY DEF WalletsKnown, S!InTx
<1>2. T.by = q /\ T.from = local[q].from /\ T.to = local[q].to /\ T.amount = body[q].amount
  BY <1>0 DEF S!TransferOf
<1>3. balance[local[q].from] = local[q].locked /\ balance[local[q].to] = local[q].seen
  BY <1>1 DEF SprayFresh, S!InTx
<1>4. \A m \in moved : m.by = q <=> m = T
  BY <1>1, <1>2 DEF MovesBelong
<1>5. ~Gave(q) /\ ~Got(q) /\ Gave(q)' /\ Got(q)'
  BY DEF Gave, Got, Settled
<1>6. \A m \in moved : m /= T => (Gave(m.by)' <=> Gave(m.by)) /\ (Got(m.by)' <=> Got(m.by))
  BY <1>4 DEF Gave, Got
<1>7. ~Gave(T.by) /\ ~Got(T.by) /\ Gave(T.by)' /\ Got(T.by)'
  BY <1>2, <1>5
<1>8. ~(T.from = w /\ T.to = w) =>
        balance'[w].available =
          IF T.from = w THEN balance[w].available - T.amount
          ELSE IF T.to = w THEN balance[w].available + T.amount ELSE balance[w].available
  <2>1. balance \in [Wallets -> Balance]
    BY DEF TypeOK, TablesTypeOK
  <2>2. body[q].amount \in Int /\ balance[w].available \in Int
    BY <2>1, SpendingAssumption DEF TypeOK, S!Bodies, Balance
  <2> QED BY <1>1, <1>2, <1>3, <2>1, <2>2, SameLedger DEF S!NewBalances, Plus, Minus
<1> QED BY <1>1, <1>6, <1>7, <1>8, LandFits

LEMMA SprayFits ==
  ASSUME TypeOK, WalletsKnown, PaidBeforeRecording, MovesBelong, BalancesFit, Lone',
         NEW q \in Req, Sprays(q), UNCHANGED transferVars
  PROVE  BalancesFit'
<1>1. Alone(q)
  <2>1. q \in S!InFlight \/ q \in S!InFlight'
    <3>1. pc[q] \in S!Running \/ pc'[q] \in S!Running
      BY SprayMovesOn DEF SprayMoves, S!Running, S!Reading, S!Waiting, S!InTx
    <3> QED BY <3>1 DEF S!InFlight
  <2>2. ASSUME NEW p \in Req, p /= q
        PROVE  pc'[p] = pc[p] /\ local'[p] = local[p] /\ pc[p] \notin S!Running
    <3>1. pc'[p] = pc[p] /\ local'[p] = local[p]
      BY <2>2, OthersStand
    <3> QED BY <2>1, <2>2, <3>1 DEF BalancesFit, Lone, S!InFlight
  <2>3. ASSUME NEW c \in Calls, c /= q PROVE at[c] \notin Places
    BY <2>1, <2>3 DEF BalancesFit, Lone, InFlight
  <2> QED BY <2>2, <2>3 DEF Alone
<1>2. \A p \in Req : SprayFresh(p)'
  BY <1>1, OthersFresh, SprayStaysFresh DEF BalancesFit
<1>3. \A c \in Moving : SnapFresh(c)'
  <2>1. q \notin Moving
    BY CallKinds, SpendingAssumption
  <2> QED BY <1>1, <2>1, OthersFresh
<1>4. ASSUME NEW w \in Wallets PROVE SumFits(w)'
  <2>1. SumFits(w) /\ SprayFresh(q)
    BY DEF BalancesFit
  <2>2. CASE pc[q] = "insert" /\ pc'[q] = "readTotals" /\ balance' = S!NewBalances(q)
    <3>1. moved' = moved
      BY <2>2, SprayMoney
    <3> QED BY <1>1, <2>1, <2>2, <3>1, CommitFits DEF Alone
  <2>3. CASE balance' = balance /\ ~(pc[q] = "insert" /\ pc'[q] = "readTotals")
    <3>1. \A m \in moved : (Gave(m.by)' <=> Gave(m.by)) /\ (Got(m.by)' <=> Got(m.by))
      <4>1. pc[q] \in S!InTx \cup Settled \cup {"failed", "lost"} =>
              (pc'[q] \in Settled <=> pc[q] \in Settled)
        <5>1. CASE <<pc[q], pc'[q]>> \in SprayMoves
          BY <2>3, <5>1 DEF SprayMoves, S!InTx, Settled
        <5>2. CASE pc'[q] = "failed"
          <6>1. pc[q] \notin Settled \ {"readTotals", "answer"}
            BY <5>2, SprayMovesOn DEF SprayMoves, Settled, S!Running, S!Reading, S!Waiting, S!InTx
          <6>2. pc[q] \notin {"readTotals", "answer"}
            BY <5>2 DEF Sprays, S!Step, S!Start, S!CheckKey, S!Replay, S!ReadEvent, S!ReadSprayer,
               S!ReadReceiver, S!ReadDefaults, S!LockCheck, S!CallProvider, S!LockSprayer,
               S!LockReceiver, S!InsertAndCommit, S!ReadTotals, S!Answer, S!TxAbort, S!InTx,
               S!Remember, S!Goto, TypeOK
          <6> QED BY <5>2, <6>1, <6>2 DEF Settled
        <5> QED BY <5>1, <5>2, SprayMovesOn
      <4>2. ASSUME NEW m \in moved PROVE (Gave(m.by)' <=> Gave(m.by)) /\ (Got(m.by)' <=> Got(m.by))
        <5>1. MoveStands(m)
          BY DEF MovesBelong
        <5>2. m.by \in Req /\ m.by /= q => pc'[m.by] = pc[m.by]
          BY <1>1 DEF Alone
        <5> QED BY <4>1, <5>1, <5>2 DEF Gave, Got, MoveStands
      <4> QED BY <4>2
    <3>2. \A m \in moved' : m \notin moved => ~Gave(m.by)' /\ ~Got(m.by)'
      <4>1. ASSUME NEW m \in moved', m \notin moved PROVE ~Gave(m.by)' /\ ~Got(m.by)'
        <5>1. m = S!TransferOf(q) /\ pc'[q] \in {"lockSprayer", "failed"}
          BY <4>1, SprayMoney
        <5>2. m.by = q
          BY <5>1 DEF S!TransferOf
        <5> QED BY <5>1, <5>2 DEF Gave, Got, Settled
      <4> QED BY <4>1
    <3>3. moved \subseteq moved'
      BY SprayEffect
    <3> QED BY <2>1, <2>3, <3>1, <3>2, <3>3, StillFits
  <2> QED BY <2>2, <2>3, SprayMoney
<1> QED BY <1>2, <1>3, <1>4 DEF BalancesFit
(***************************************************************************)
(* A step of a transfer, of a payout or of a call about them.              *)
(***************************************************************************)
CallStep(c) ==
  \/ Arrive(c)
  \/ c \in Moving /\ MovingStep(c)
  \/ c \in Transfer /\ TransferStep(c)
  \/ c \in Asking /\ AskingStep(c)

WriteStep(c) == c \in Moving /\ (WriteFrom(c) \/ (c \in Transfer /\ WriteTo(c)))
MoneyStep(c) == c \in Moving /\ CallProvider(c)

CallMoves ==
  {<<"idle", "readFrom">>, <<"readFrom", "readTo">>, <<"readFrom", "callProvider">>,
   <<"readFrom", "failed">>, <<"readTo", "callProvider">>, <<"readTo", "failed">>,
   <<"callProvider", "insertDebit">>, <<"callProvider", "writeFrom">>,
   <<"callProvider", "failed">>, <<"insertDebit", "insertCredit">>, <<"insertDebit", "failed">>,
   <<"insertCredit", "insertSpray">>, <<"insertSpray", "writeBoth">>,
   <<"writeBoth", "writeTo">>, <<"writeBoth", "writeFrom">>, <<"writeFrom", "done">>,
   <<"writeTo", "done">>}

\* Where the call moves to, and that the other calls stand.
LEMMA CallMovesOn ==
  ASSUME TransfersTypeOK, NEW c \in Calls, CallStep(c)
  PROVE  /\ at[c] = "idle" \/ at[c] \in Places
         /\ at[c] = "idle" => at'[c] \in Places
         /\ c \in Moving => <<at[c], at'[c]>> \in CallMoves
         /\ at[c] /= "idle" => request' = request
         /\ \A d \in Calls : d /= c => at'[d] = at[d] /\ request'[d] = request[d]
<1> c \in Moving \/ c \in Asking
  BY DEF Calls
<1> at \in [Calls -> {"idle"} \cup Places \cup Ends] /\ DOMAIN request = Calls
  BY DEF TransfersTypeOK
<1> USE CallAssumption DEF CallMoves, Goto, Moves, Writes
<1>1. CASE Arrive(c)
  <2>1. PICK r \in Requests(c) : request' = [request EXCEPT ![c] = r]
    BY <1>1 DEF Arrive
  <2>2. at[c] = "idle" /\ at'[c] = First(c) /\ \A d \in Calls : d /= c => at'[d] = at[d]
    BY <1>1 DEF Arrive
  <2>3. First(c) \in Places /\ (c \in Moving => First(c) = "readFrom")
    BY DEF First, Places
  <2> QED BY <2>1, <2>2, <2>3
<1>2. CASE c \in Moving /\ (ReadFrom(c) \/ CallProvider(c))
  <2>1. CASE ReadFrom(c)
    BY <1>2, <2>1 DEF ReadFrom, Places
  <2>2. CASE CallProvider(c)
    BY <1>2, <2>2 DEF CallProvider, AfterProvider, Places
  <2> QED BY <1>2, <2>1, <2>2
<1>3. CASE c \in Moving /\ WriteFrom(c)
  BY <1>3 DEF WriteFrom, Places
<1>4. CASE c \in Transfer /\ TransferStep(c)
  <2>1. c \in Moving
    BY <1>4 DEF Moving
  <2>2. CASE ReadTo(c)
    BY <2>1, <2>2 DEF ReadTo, Places
  <2>3. CASE InsertDebit(c) \/ InsertCredit(c) \/ InsertSpray(c)
    BY <2>1, <2>3 DEF InsertDebit, InsertCredit, InsertSpray, Places
  <2>4. CASE WriteTo(c)
    BY <2>1, <2>4 DEF WriteTo, Places
  <2> QED BY <1>4, <2>2, <2>3, <2>4 DEF TransferStep
<1>5. CASE c \in Asking /\ AskingStep(c)
  <2>1. c \notin Moving
    BY <1>5
  <2>2. CASE AskProvider(c)
    BY <2>1, <2>2 DEF AskProvider, Places
  <2>3. CASE ReadTransaction(c) \/ WriteStatus(c)
    BY <2>1, <2>3 DEF ReadTransaction, WriteStatus, Places
  <2> QED BY <1>5, <2>2, <2>3 DEF AskingStep
<1> QED BY <1>1, <1>2, <1>3, <1>4, <1>5 DEF CallStep, MovingStep

\* Money is moved by the provider, and a balance is written by the updates.
LEMMA CallMoney ==
  ASSUME TransfersTypeOK, NEW c \in Calls, CallStep(c)
  PROVE  /\ \/ balance' = balance /\ at[c] \notin Writing
            \/ WriteStep(c)
         /\ \/ moved' = moved /\ (at[c] /= "callProvider" \/ at'[c] = "failed")
            \/ /\ c \in Moving /\ at[c] = "callProvider" /\ at'[c] \in {AfterProvider(c), "failed"}
               /\ moved' = moved \cup {MoveOf(c)}
<1> c \in Moving \/ c \in Asking
  BY DEF Calls
<1> at \in [Calls -> {"idle"} \cup Places \cup Ends]
  BY DEF TransfersTypeOK
<1> USE DEF Goto, Moves, Writes, Writing
<1>1. CASE Arrive(c)
  BY <1>1 DEF Arrive
<1>2. CASE c \in Moving /\ ReadFrom(c)
  BY <1>2 DEF ReadFrom
<1>3. CASE c \in Moving /\ CallProvider(c)
  BY <1>3 DEF CallProvider
<1>4. CASE c \in Moving /\ WriteFrom(c)
  BY <1>4 DEF WriteFrom, WriteStep
<1>5. CASE c \in Transfer /\ TransferStep(c)
  <2>1. c \in Moving
    BY <1>5 DEF Moving
  <2>2. CASE ReadTo(c)
    BY <2>2 DEF ReadTo
  <2>3. CASE InsertDebit(c) \/ InsertCredit(c) \/ InsertSpray(c)
    BY <2>3 DEF InsertDebit, InsertCredit, InsertSpray
  <2>4. CASE WriteTo(c)
    BY <1>5, <2>1, <2>4 DEF WriteTo, WriteStep
  <2> QED BY <1>5, <2>2, <2>3, <2>4 DEF TransferStep
<1>6. CASE c \in Asking /\ AskingStep(c)
  <2>1. CASE AskProvider(c)
    BY <2>1 DEF AskProvider
  <2>2. CASE ReadTransaction(c) \/ WriteStatus(c)
    BY <2>2 DEF ReadTransaction, WriteStatus
  <2> QED BY <1>6, <2>1, <2>2 DEF AskingStep
<1> QED BY <1>1, <1>2, <1>3, <1>4, <1>5, <1>6 DEF CallStep, MovingStep

LEMMA CallMovesBelong ==
  ASSUME TypeOK, MovesBelong, NEW c \in Calls, CallStep(c), UNCHANGED spending
  PROVE  MovesBelong'
<1> TransfersTypeOK
  BY DEF TypeOK
<1>0. /\ \A d \in Calls : d /= c => at'[d] = at[d] /\ request'[d] = request[d]
      /\ at[c] /= "idle" => request' = request
      /\ c \in Moving => <<at[c], at'[c]>> \in CallMoves
  BY CallMovesOn
<1>1. ASSUME NEW m \in moved PROVE MoveStands(m)'
  <2>1. MoveStands(m)
    BY DEF MovesBelong
  <2>2. m.by \in Moving => m.by \in Calls
    BY DEF Calls
  <2>3. c \in Moving /\ at[c] \in Recording \cup Writing \cup {"done", "failed", "lost"} =>
          at'[c] \in Recording \cup Writing \cup {"done", "failed", "lost"}
    BY <1>0 DEF CallMoves, Recording, Writing
  <2> QED BY <1>0, <2>1, <2>2, <2>3 DEF MoveStands
<1>2. ASSUME NEW d \in Moving, at'[d] \in Recording \cup Writing PROVE MoveOf(d)' \in moved'
  <2>1. d \in Calls
    BY DEF Calls
  <2>2. moved \subseteq moved'
    BY CallMoney
  <2>3. CASE at[d] \in Recording \cup Writing
    <3>1. request'[d] = request[d] /\ MoveOf(d) \in moved
      BY <1>0, <2>1, <2>3 DEF MovesBelong, Recording, Writing
    <3> QED BY <2>2, <3>1 DEF MoveOf, ReferenceOf
  <2>4. CASE at[d] \notin Recording \cup Writing
    <3>1. d = c /\ at[c] = "callProvider" /\ at'[c] /= "failed"
      BY <1>0, <1>2, <2>1, <2>4 DEF CallMoves, Recording, Writing
    <3>2. moved' = moved \cup {MoveOf(c)} /\ request' = request
      BY <1>0, <3>1, CallMoney
    <3> QED BY <3>1, <3>2 DEF MoveOf, ReferenceOf
  <2> QED BY <2>3, <2>4
<1>3. CASE moved' = moved
  BY <1>1, <1>2, <1>3 DEF MovesBelong
<1>4. CASE /\ c \in Moving /\ at[c] = "callProvider" /\ at'[c] \in {AfterProvider(c), "failed"}
           /\ moved' = moved \cup {MoveOf(c)}
  <2>1. MoveOf(c).by = c
    BY DEF MoveOf
  <2>2. \A m \in moved : m.by /= c
    BY <1>4 DEF MovesBelong, MoveStands, Recording, Writing
  <2>3. ASSUME NEW m \in moved', m \notin moved PROVE MoveStands(m)' /\ m.by = c
    <3>1. c \notin Req /\ m.by = c
      BY <1>4, <2>1, <2>3, CallKinds, SpendingAssumption
    <3>2. at'[c] \in {"insertDebit", "writeFrom", "failed"}
      BY <1>4 DEF AfterProvider
    <3> QED BY <1>4, <3>1, <3>2 DEF MoveStands, Recording, Writing
  <2>4. IsFiniteSet(moved')
    BY <1>4, FS_AddElement DEF MovesBelong
  <2>5. \A m, n \in moved' : m.by = n.by => m = n
    BY <1>4, <2>1, <2>2 DEF MovesBelong
  <2>6. \A m \in moved' : MoveStands(m)'
    BY <1>1, <2>3
  <2> QED BY <1>2, <2>4, <2>5, <2>6 DEF MovesBelong
<1> QED BY <1>3, <1>4, CallMoney

\* A call reads the balances as they are, and keeps what it has read until it
\* has written the wallet.
LEMMA CallStaysFresh ==
  ASSUME TypeOK, NEW c \in Moving, CallStep(c), SnapFresh(c)
  PROVE  SnapFresh(c)'
<1> c \in Calls /\ c \notin Asking
  BY CallAssumption, CallKinds
<1> snap[c] \in Snaps /\ balance \in [Wallets -> Balance] /\ snap \in [Moving -> Snaps]
  BY DEF TypeOK, TransfersTypeOK, TablesTypeOK
<1> at \in [Calls -> {"idle"} \cup Places \cup Ends] /\ TransfersTypeOK
  BY DEF TypeOK, TransfersTypeOK
<1>0. <<at[c], at'[c]>> \in CallMoves /\ (at[c] /= "idle" => request' = request)
  BY CallMovesOn
<1>1. CASE at'[c] \in {"readFrom", "done", "failed"}
  BY <1>1 DEF SnapFresh, OwesFrom, OwesTo, Recording
<1>2. CASE ReadFrom(c) /\ at'[c] /= "failed"
  <2>1. /\ snap' = [snap EXCEPT ![c].from = balance[request[c].from]]
        /\ UNCHANGED <<balance, request>>
        /\ at'[c] = IF c \in Transfer THEN "readTo" ELSE "callProvider"
    BY <1>2 DEF ReadFrom, Moves, Goto
  <2>2. snap'[c].from = balance[request[c].from]
    BY <2>1 DEF Snaps
  <2> QED BY <2>1, <2>2 DEF SnapFresh, OwesFrom, OwesTo, Recording
<1>3. CASE ReadTo(c) /\ at'[c] /= "failed" /\ c \in Transfer
  <2>1. /\ snap' = [snap EXCEPT ![c].to = balance[request[c].to]]
        /\ UNCHANGED <<balance, request>> /\ at[c] = "readTo"
    BY <1>3 DEF ReadTo, Moves, Goto
  <2>2. snap'[c].to = balance[request[c].to] /\ snap'[c].from = snap[c].from
    BY <2>1 DEF Snaps
  <2> QED BY <2>1, <2>2 DEF SnapFresh, OwesFrom
<1>4. CASE CallProvider(c) /\ at'[c] /= "failed"
  <2>1. /\ UNCHANGED <<snap, balance, request>> /\ at[c] = "callProvider"
        /\ at'[c] = AfterProvider(c)
    BY <1>4 DEF CallProvider, Moves, Goto
  <2> QED BY <2>1 DEF SnapFresh, OwesFrom, OwesTo, AfterProvider, Recording
<1>5. CASE (InsertDebit(c) \/ InsertCredit(c) \/ InsertSpray(c)) /\ at'[c] /= "failed"
  <2>1. /\ UNCHANGED <<snap, balance, request>> /\ at[c] \in Recording
        /\ at'[c] \in Recording \cup {"writeBoth"}
    BY <1>5 DEF InsertDebit, InsertCredit, InsertSpray, Writes, Goto, Recording
  <2> QED BY <2>1 DEF SnapFresh, OwesFrom, OwesTo, Recording
<1>6. CASE WriteFrom(c) /\ at'[c] /= "done"
  <2>1. /\ at[c] = "writeBoth" /\ at'[c] = "writeTo" /\ UNCHANGED <<snap, request>>
        /\ balance' = [balance EXCEPT ![request[c].from] = Minus(snap[c].from, request[c].amount)]
    BY <1>6 DEF WriteFrom, Writes, Goto
  <2>2. c \in Transfer => request[c].to \in Wallets
    BY <2>1, RequestOfMoving, TransfersTypeParts
  <2>3. /\ ~OwesFrom(c)'
        /\ c \in Transfer /\ OwesTo(c)' => /\ request[c].from /= request[c].to
                                          /\ snap[c].to = balance[request[c].to]
    BY <2>1 DEF SnapFresh, OwesFrom, OwesTo, Recording
  <2> QED BY <2>1, <2>2, <2>3 DEF SnapFresh
<1>7. CASE WriteTo(c) /\ at'[c] /= "done"
  <2>1. /\ at[c] = "writeBoth" /\ at'[c] = "writeFrom" /\ UNCHANGED <<snap, request>>
        /\ balance' = [balance EXCEPT ![request[c].to] = Plus(snap[c].to, request[c].amount)]
    BY <1>7 DEF WriteTo, Writes, Goto
  <2>2. request[c].from \in Wallets
    BY <2>1, RequestOfMoving, TransfersTypeParts
  <2>3. /\ ~OwesTo(c)'
        /\ OwesFrom(c)' => /\ request[c].from /= request[c].to
                           /\ snap[c].from = balance[request[c].from]
    BY <2>1 DEF SnapFresh, OwesFrom, OwesTo, Recording
  <2> QED BY <2>1, <2>2, <2>3 DEF SnapFresh
<1>8. Arrive(c) => at'[c] = "readFrom"
  BY DEF Arrive, Goto, First
<1> QED BY <1>1, <1>2, <1>3, <1>4, <1>5, <1>6, <1>7, <1>8
        DEF CallStep, MovingStep, TransferStep

\* An update takes the move from its wallet, or adds it to the other.
LEMMA WriteFits ==
  ASSUME TypeOK, MovesBelong, NEW c \in Moving, WriteStep(c), SnapFresh(c), UNCHANGED spending,
         \A d \in Calls : d /= c => at'[d] = at[d],
         NEW w \in Wallets, SumFits(w)
  PROVE  SumFits(w)'
<1> c \in Calls /\ c \notin Req
  BY CallKinds, SpendingAssumption
<1> at \in [Calls -> {"idle"} \cup Places \cup Ends] /\ balance \in [Wallets -> Balance]
  BY DEF TypeOK, TransfersTypeOK, TablesTypeOK
<1>0. at[c] \in Writing /\ moved' = moved
  BY DEF WriteStep, WriteFrom, WriteTo, Writes, Writing
<1>1. PICK T \in moved : T = MoveOf(c)
  BY <1>0 DEF MovesBelong
<1>2. /\ T.by = c /\ T.from = request[c].from /\ T.to = request[c].to
      /\ T.amount = request[c].amount
  BY <1>1 DEF MoveOf
<1>3. \A m \in moved : m.by = c <=> m = T
  BY <1>2 DEF MovesBelong
<1>4. \A m \in moved : m /= T => (Gave(m.by)' <=> Gave(m.by)) /\ (Got(m.by)' <=> Got(m.by))
  <2>1. \A m \in moved : m.by \in Req \/ m.by \in Calls
    BY CallKinds DEF MovesBelong, MoveStands
  <2> QED BY <1>3, <2>1 DEF Gave, Got
<1>5. T.amount \in Int /\ balance[w].available \in Int
  BY DEF TypeOK, TransfersTypeOK, Move, Balance
<1>6. T.from \in Wallets /\ (c \in Transfer => T.to \in Wallets)
  <2>1. at[c] /= "idle"
    BY <1>0 DEF Writing
  <2> QED BY <1>2, <2>1, RequestOfMoving, TransfersTypeParts DEF TypeOK
<1>7. CASE WriteFrom(c)
  <2>1. /\ balance' = [balance EXCEPT ![T.from] = Minus(snap[c].from, T.amount)]
        /\ \/ at[c] = "writeBoth" /\ at'[c] = "writeTo"
           \/ at[c] = "writeFrom" /\ at'[c] = "done"
    BY <1>2, <1>7 DEF WriteFrom, Writes, Goto
  <2>2. ~Gave(c) /\ Gave(c)' /\ (Got(c)' <=> Got(c))
    BY <2>1 DEF Gave, Got
  <2>3. T.from /= T.to => snap[c].from = balance[T.from]
    BY <1>2, <2>1 DEF SnapFresh, OwesFrom
  <2>4. ~(T.from = w /\ T.to = w) =>
          balance'[w].available =
            IF T.from = w THEN balance[w].available - T.amount ELSE balance[w].available
    BY <1>5, <1>6, <2>1, <2>3 DEF Minus, Plus
  <2>5. ~Gave(T.by) /\ Gave(T.by)' /\ (Got(T.by)' <=> Got(T.by))
    BY <1>2, <2>2
  <2> QED BY <1>0, <1>4, <2>4, <2>5, LandFits
<1>8. CASE c \in Transfer /\ WriteTo(c)
  <2>1. /\ balance' = [balance EXCEPT ![T.to] = Plus(snap[c].to, T.amount)]
        /\ \/ at[c] = "writeBoth" /\ at'[c] = "writeFrom"
           \/ at[c] = "writeTo" /\ at'[c] = "done"
    BY <1>2, <1>8 DEF WriteTo, Writes, Goto
  <2>2. ~Got(c) /\ Got(c)' /\ (Gave(c)' <=> Gave(c))
    BY <2>1 DEF Gave, Got
  <2>3. T.from /= T.to => snap[c].to = balance[T.to]
    BY <1>2, <1>8, <2>1 DEF SnapFresh, OwesTo
  <2>4. ~(T.from = w /\ T.to = w) =>
          balance'[w].available =
            IF T.to = w THEN balance[w].available + T.amount ELSE balance[w].available
    BY <1>5, <1>6, <1>8, <2>1, <2>3 DEF Plus
  <2>5. ~Got(T.by) /\ Got(T.by)' /\ (Gave(T.by)' <=> Gave(T.by))
    BY <1>2, <2>2
  <2> QED BY <1>0, <1>4, <2>4, <2>5, LandFits
<1> QED BY <1>7, <1>8 DEF WriteStep

LEMMA CallFits ==
  ASSUME TypeOK, MovesBelong, BalancesFit, Lone', NEW c \in Calls, CallStep(c), UNCHANGED spending
  PROVE  BalancesFit'
<1> TransfersTypeOK
  BY DEF TypeOK
<1>0. /\ at[c] = "idle" \/ at[c] \in Places
      /\ at[c] = "idle" => at'[c] \in Places
      /\ c \in Moving => <<at[c], at'[c]>> \in CallMoves
      /\ \A d \in Calls : d /= c => at'[d] = at[d] /\ request'[d] = request[d]
  BY CallMovesOn
<1>1. Alone(c)
  <2>1. c \in InFlight \/ c \in InFlight'
    BY <1>0 DEF InFlight
  <2>2. ASSUME NEW p \in Req, p /= c PROVE pc[p] \notin S!Running
    BY <2>1, <2>2 DEF BalancesFit, Lone, S!InFlight
  <2>3. ASSUME NEW d \in Calls, d /= c PROVE at[d] \notin Places
    BY <1>0, <2>1, <2>3 DEF BalancesFit, Lone, InFlight
  <2> QED BY <1>0, <2>2, <2>3 DEF Alone
<1>2. \A p \in Req : SprayFresh(p)'
  <2>1. c \notin Req
    BY SpendingAssumption
  <2> QED BY <1>1, <2>1, OthersFresh
<1>3. \A d \in Moving : SnapFresh(d)'
  <2>1. c \in Moving => SnapFresh(c)'
    BY CallStaysFresh DEF BalancesFit
  <2> QED BY <1>1, <2>1, OthersFresh
<1>4. ASSUME NEW w \in Wallets PROVE SumFits(w)'
  <2>1. SumFits(w)
    BY DEF BalancesFit
  <2>2. CASE WriteStep(c)
    <3>1. c \in Moving /\ SnapFresh(c)
      BY <2>2 DEF WriteStep, BalancesFit
    <3> QED BY <1>0, <2>1, <2>2, <3>1, WriteFits
  <2>3. CASE balance' = balance /\ at[c] \notin Writing
    <3>1. ASSUME NEW m \in moved
          PROVE  (Gave(m.by)' <=> Gave(m.by)) /\ (Got(m.by)' <=> Got(m.by))
      <4>1. MoveStands(m) /\ c \notin Req
        BY SpendingAssumption DEF MovesBelong
      <4>2. CASE m.by = c
        <5>1. c \in Moving /\ at[c] \in Recording
          BY <1>0, <2>3, <4>1, <4>2 DEF MoveStands, Recording, Writing, CallMoves
        <5>2. at'[c] \notin {"writeTo", "writeFrom", "done"}
          BY <1>0, <5>1 DEF CallMoves, Recording
        <5> QED BY <4>1, <4>2, <5>1, <5>2 DEF Gave, Got, Recording
      <4>3. CASE m.by /= c
        <5>1. m.by \in Req \/ (m.by \in Calls /\ at'[m.by] = at[m.by])
          BY <1>0, <4>1, <4>3, CallKinds DEF MoveStands
        <5> QED BY <5>1 DEF Gave, Got
      <4> QED BY <4>2, <4>3
    <3>2. ASSUME NEW m \in moved', m \notin moved
          PROVE  ~Gave(m.by)' /\ (~Got(m.by)' \/ m.to \notin Wallets)
      <4>1. /\ c \in Moving /\ at[c] = "callProvider" /\ at'[c] \in {AfterProvider(c), "failed"}
            /\ m = MoveOf(c)
        BY <3>2, CallMoney
      <4>2. m.by = c /\ m.to = request[c].to /\ c \notin Req
        BY <4>1, SpendingAssumption DEF MoveOf
      <4>3. CASE c \in Transfer
        BY <4>1, <4>2, <4>3 DEF AfterProvider, Gave, Got
      <4>4. CASE c \notin Transfer
        <5>1. m.to = Outside
          BY <4>1, <4>2, <4>4, CallAssumption DEF TransfersTypeOK, Requests
        <5>2. m.to \notin Wallets
          BY <5>1, ValueAssumption
        <5> QED BY <4>1, <4>2, <5>2 DEF AfterProvider, Gave, Got
      <4> QED BY <4>3, <4>4
    <3>3. moved \subseteq moved'
      BY CallMoney
    <3> QED BY <2>1, <2>3, <3>1, <3>2, <3>3, StillFits
  <2> QED BY <2>2, <2>3, CallMoney
<1> QED BY <1>2, <1>3, <1>4 DEF BalancesFit

\* What dies leaves its move, if it has made one.
LEMMA FaultsBelong ==
  ASSUME TypeOK, MovesBelong, NEW dead \in SUBSET InFlight, Lose(dead), body' = body,
         \A q \in Req : pc'[q] = pc[q] \/ pc'[q] = "lost"
  PROVE  MovesBelong' /\ faults' /= 0
<1>1. /\ at' = [c \in Calls |-> IF c \in dead THEN "lost" ELSE at[c]]
      /\ UNCHANGED <<moved, request>> /\ faults' = faults + 1
  BY DEF Lose
<1>2. ASSUME NEW m \in moved PROVE MoveStands(m)'
  <2>1. MoveStands(m)
    BY DEF MovesBelong
  <2> QED BY <1>1, <2>1, CallKinds DEF MoveStands
<1>3. ASSUME NEW d \in Moving, at'[d] \in Recording \cup Writing PROVE MoveOf(d)' \in moved'
  <2>1. at[d] = at'[d]
    BY <1>1, <1>3, CallKinds DEF Recording, Writing
  <2> QED BY <1>1, <1>3, <2>1 DEF MovesBelong, MoveOf, ReferenceOf
<1>4. faults' /= 0
  BY <1>1, TransferBounds DEF TypeOK, TransfersTypeOK
<1> QED BY <1>1, <1>2, <1>3, <1>4 DEF MovesBelong

LEMMA MovesFitStep ==
  ASSUME SpendingInv, MovesFit, Next
  PROVE  MovesFit'
<1> TypeOK /\ WalletsKnown /\ PaidBeforeRecording /\ MovesBelong
  BY DEF SpendingInv, MovesFit
<1>1. ~mixed' => Lone' /\ ~mixed
  BY LoneStep DEF Next, TypeOK
<1>2. CASE \E q \in Req : Sprays(q) /\ UNCHANGED transferVars
  <2>1. PICK q \in Req : Sprays(q) /\ UNCHANGED transferVars
    BY <1>2
  <2>2. MovesBelong'
    BY <2>1, SprayMovesBelong
  <2>3. ~mixed' /\ faults' = 0 => BalancesFit'
    BY <1>1, <2>1, SprayFits DEF MovesFit
  <2> QED BY <2>2, <2>3 DEF MovesFit
<1>3. CASE (TransfersNext /\ ~Fail) /\ UNCHANGED spending
  <2>1. PICK c \in Calls : CallStep(c)
    BY <1>3, CallKinds DEF TransfersNext, Step, CallStep
  <2>2. MovesBelong'
    BY <1>3, <2>1, CallMovesBelong
  <2>3. faults' = faults
    <3>1. Arrive(c) => faults' = faults
      BY DEF Arrive
    <3>2. MovingStep(c) => faults' = faults
      BY DEF MovingStep, ReadFrom, CallProvider, WriteFrom, Moves, Writes
    <3>3. TransferStep(c) => faults' = faults
      BY DEF TransferStep, ReadTo, InsertDebit, InsertCredit, InsertSpray, WriteTo, Moves, Writes
    <3>4. AskingStep(c) => faults' = faults
      BY DEF AskingStep, AskProvider, ReadTransaction, WriteStatus, Moves, Writes
    <3> QED BY <2>1, <3>1, <3>2, <3>3, <3>4 DEF CallStep
  <2>4. ~mixed' /\ faults' = 0 => BalancesFit'
    BY <1>1, <1>3, <2>1, <2>3, CallFits DEF MovesFit
  <2> QED BY <2>2, <2>4 DEF MovesFit
<1>4. CASE Fail /\ UNCHANGED spending
  <2>1. PICK c \in InFlight : Lose({c})
    BY <1>4 DEF Fail
  <2> QED BY <1>4, <2>1, FaultsBelong DEF MovesFit
<1>5. CASE Die
  <2>1. Lose(InFlight) /\ body' = body /\ \A q \in Req : pc'[q] = pc[q] \/ pc'[q] = "lost"
    BY <1>5, SpraysStand DEF Die
  <2> QED BY <2>1, FaultsBelong DEF MovesFit
<1> QED BY <1>2, <1>3, <1>4, <1>5, NextIs

LEMMA MovesFitFirst == Init => MovesFit
<1> SUFFICES ASSUME Init PROVE MovesFit
  OBVIOUS
<1>1. /\ moved = {} /\ balance = [w \in Wallets |-> Both(Opening)]
      /\ pc = [q \in Req |-> "idle"] /\ at = [c \in Calls |-> "idle"]
  BY SameLedger DEF Init, S!Init, S!TablesInit, TransfersInit
<1>2. MovesBelong
  BY <1>1, CallKinds, FS_EmptySet DEF MovesBelong, Recording, Writing
<1>3. Lone
  BY <1>1 DEF Lone, InFlight, S!InFlight, Places, S!Running, S!Reading, S!Waiting, S!InTx
<1>4. /\ \A q \in Req : SprayFresh(q)
      /\ \A c \in Moving : SnapFresh(c)
  BY <1>1, CallKinds DEF SprayFresh, SnapFresh, OwesFrom, OwesTo, Recording, S!InTx
<1>5. ASSUME NEW w \in Wallets PROVE SumFits(w)
  <2>1. Out(w) = {} /\ In(w) = {} /\ balance[w].available = Opening
    BY <1>1 DEF Out, In, Both
  <2> QED BY <2>1, SumOfNone, OpeningAssumption DEF SumFits
<1> QED BY <1>2, <1>3, <1>4, <1>5 DEF MovesFit, BalancesFit

LEMMA MovesFitOn == SpendingInv /\ MovesFit /\ [Next]_vars => MovesFit'
<1> SUFFICES ASSUME SpendingInv, MovesFit, [Next]_vars PROVE MovesFit'
  OBVIOUS
<1>1. CASE UNCHANGED vars
  <2>1. MovesBelong'
    BY <1>1 DEF MovesFit, MovesBelong, MoveStands, MoveOf, ReferenceOf
  <2>2. BalancesFit => BalancesFit'
    BY <1>1
    DEF BalancesFit, Lone, InFlight, S!InFlight, SprayFresh, SnapFresh, OwesFrom, OwesTo,
        SumFits, Plain, Out, In, Gave, Got
  <2> QED BY <1>1, <2>1, <2>2 DEF MovesFit
<1> QED BY <1>1, MovesFitStep

\* While calls of both services have come one at a time and none has died, a
\* balance is the opening one less the moves out of the wallet and with those into
\* it that finished calls have made (sprays.service.ts:305-318,
\* walletmodule.service.ts:390-402).
THEOREM FinishedMovesAddUp == Spec => []FinishedMovesAreInTheBalance
<1>1. SpendingInv /\ MovesFit => FinishedMovesAreInTheBalance
  <2> SUFFICES ASSUME SpendingInv, MovesFit, ~mixed, Together = 0, faults = 0,
                      NEW w \in Wallets, Plain(w)
               PROVE  balance[w].available =
                        Opening - MovesOfFinished(w, "from") + MovesOfFinished(w, "to")
    BY DEF FinishedMovesAreInTheBalance, Plain
  <2>1. SumFits(w)
    BY DEF MovesFit, BalancesFit
  <2>2. InFlight = {} /\ S!InFlight = {}
    <3>1. IsFiniteSet(InFlight) /\ IsFiniteSet(S!InFlight)
      BY FS_Subset, CallAssumption, SpendingAssumption DEF InFlight, S!InFlight
    <3>2. Cardinality(InFlight) \in Nat /\ Cardinality(S!InFlight) \in Nat
      BY <3>1, FS_CardinalityType
    <3>3. Cardinality(InFlight) = 0 /\ Cardinality(S!InFlight) = 0
      BY <3>2 DEF Together
    <3> QED BY <3>1, <3>3, FS_EmptySet
  <2>3. ASSUME NEW m \in moved
        PROVE  (Gave(m.by) <=> Finished(m.by)) /\ (m.to \in Wallets => (Got(m.by) <=> Finished(m.by)))
    <3>1. MoveStands(m)
      BY DEF MovesFit, MovesBelong
    <3>2. m.by \in Req => pc[m.by] \notin S!Running
      BY <2>2 DEF S!InFlight
    <3>3. m.by \in Moving => at[m.by] \notin Places
      BY <2>2, CallKinds DEF InFlight
    <3> QED BY <3>1, <3>2, <3>3
            DEF MoveStands, Gave, Got, Finished, Settled, Places, S!Running
  <2>4. /\ {m \in moved : Finished(m.by) /\ (IF "from" = "from" THEN m.from ELSE m.to) = w} = Out(w)
        /\ {m \in moved : Finished(m.by) /\ (IF "to" = "from" THEN m.from ELSE m.to) = w} = In(w)
    BY <2>3 DEF Out, In
  <2>5. SumOfAmounts(Out(w)) = MovesOfFinished(w, "from") /\ SumOfAmounts(In(w)) = MovesOfFinished(w, "to")
    BY <2>4 DEF MovesOfFinished
  <2> QED BY <2>1, <2>5 DEF SumFits
<1> QED BY <1>1, InductiveInvariant, MovesFitFirst, MovesFitOn, PTL DEF Spec

(***************************************************************************)
(* createSpray and walletToWalletTransfer implement PostingBook together:  *)
(* a call that arrives asks, a commit or the insert of a Spray posts, the  *)
(* end of a call returns its posting or fails it, and a crash fails all    *)
(* calls in flight.                                                        *)
(***************************************************************************)

\* The Spray of a transfer stands under the reference of the transfer.
TransfersPoint ==
  \A s \in spray : s.id \in Transfer => at[s.id] /= "idle" /\ s.debit = ReferenceOf(s.id)

LEMMA PointStep == ASSUME TypeOK, TransfersPoint, Next PROVE TransfersPoint'
<1> SUFFICES ASSUME NEW s \in spray', s.id \in Transfer
             PROVE  at'[s.id] /= "idle" /\ s.debit = ReferenceOf(s.id)'
  BY DEF TransfersPoint
<1> s.id \in Calls /\ at \in [Calls -> {"idle"} \cup Places \cup Ends]
  BY CallKinds DEF TypeOK, TransfersTypeOK
<1>1. ASSUME s \in spray, at'[s.id] /= "idle", at[s.id] /= "idle" => request'[s.id] = request[s.id]
      PROVE  s.debit = ReferenceOf(s.id)'
  BY <1>1 DEF TransfersPoint, ReferenceOf
<1>2. CASE Quiet
  <2>1. s \in spray /\ StandsOrMoves(s.id)
    BY <1>2 DEF Quiet
  <2>2. at[s.id] /= "idle"
    BY <2>1 DEF TransfersPoint
  <2>3. at'[s.id] /= "idle"
    BY <2>1, <2>2 DEF StandsOrMoves, QuietMoves
  <2> QED BY <1>1, <2>1, <2>2, <2>3 DEF StandsOrMoves
<1>3. CASE \E q \in Req : CommitsSpray(q)
  <2>1. PICK q \in Req : CommitsSpray(q)
    BY <1>3
  <2>2. s \in spray
    BY <2>1, SprayRowFields, CallKinds, SpendingAssumption DEF CommitsSpray
  <2>3. at' = at /\ request' = request
    BY <2>1 DEF CommitsSpray
  <2> QED BY <1>1, <2>2, <2>3 DEF TransfersPoint
<1>4. CASE \E t \in Transfer : InsertsDebit(t) \/ InsertsCredit(t) \/ InsertsSpray(t)
  <2>1. PICK t \in Transfer : InsertsDebit(t) \/ InsertsCredit(t) \/ InsertsSpray(t)
    BY <1>4
  <2>2. request' = request /\ (at[s.id] /= "idle" => at'[s.id] /= "idle")
    BY <2>1 DEF InsertsDebit, InsertsCredit, InsertsSpray
  <2>3. CASE s \in spray
    BY <1>1, <2>2, <2>3 DEF TransfersPoint
  <2>4. CASE s \notin spray
    <3>1. InsertsSpray(t) /\ s = SprayOfTransfer(t)
      BY <2>1, <2>4 DEF InsertsDebit, InsertsCredit, InsertsSpray
    <3>2. s.id = t /\ s.debit = ReferenceOf(t) /\ at'[t] = "writeBoth"
      BY <3>1, CallKinds DEF SprayOfTransfer, InsertsSpray
    <3> QED BY <2>2, <3>2 DEF ReferenceOf
  <2> QED BY <2>3, <2>4
<1>5. CASE \E a \in Asking : WritesStatus(a)
  <2>1. PICK a \in Asking : WritesStatus(a)
    BY <1>5
  <2>2. s \in spray /\ request' = request /\ at'[s.id] = at[s.id]
    BY <2>1, CallKinds DEF WritesStatus
  <2> QED BY <1>1, <2>2 DEF TransfersPoint
<1> QED BY <1>2, <1>3, <1>4, <1>5, NextEffect

Clients == Req \cup Transfer
askedBar == [c \in Clients |-> AskedBy(c)]
postedBar == {S!RowOf(s) : s \in spray}
answerBar == [c \in Clients |-> AnswerTo(c)]

LEMMA TheBook ==
  /\ Book!Init <=> /\ askedBar \in [Clients -> References \cup {NoRequest}]
                   /\ postedBar = {} /\ answerBar = [c \in Clients |-> <<"pending">>]
  /\ UNCHANGED <<askedBar, postedBar, answerBar>> => [Book!Next]_(Book!book)
  /\ \A c \in Clients :
       /\ /\ askedBar[c] = NoRequest
          /\ \E r \in References : askedBar' = [askedBar EXCEPT ![c] = r]
          /\ UNCHANGED <<postedBar, answerBar>>
          => Book!Next
       /\ /\ answerBar[c] = <<"pending">> /\ askedBar[c] \in References
          /\ \A p \in postedBar : p.key /= askedBar[c]
          /\ postedBar' = postedBar \cup {[key |-> askedBar[c], by |-> c]}
          /\ UNCHANGED <<askedBar, answerBar>>
          => Book!Next
       /\ /\ answerBar[c] = <<"pending">>
          /\ \E p \in postedBar :
               p.key = askedBar[c] /\ answerBar' = [answerBar EXCEPT ![c] = <<"returned", p>>]
          /\ UNCHANGED <<askedBar, postedBar>>
          => Book!Next
  /\ \A F \in SUBSET Clients :
       /\ \A c \in F : answerBar[c] = <<"pending">>
       /\ answerBar' = [c \in Clients |-> IF c \in F THEN <<"error">> ELSE answerBar[c]]
       /\ UNCHANGED <<askedBar, postedBar>>
       => Book!Next
BY DEF Book!Init, Book!Next, Book!book, Book!Ask, Book!Post, Book!Return, Book!Fail, Book!Unposted,
       Book!Pending, Book!Error, Book!Returned, askedBar, postedBar, answerBar, Clients

\* A call that stands asks and answers what it did.
LEMMA SameEntry ==
  ASSUME NEW c \in Clients,
         IF c \in Req THEN pc'[c] = pc[c] /\ reply'[c] = reply[c] /\ body' = body
         ELSE at'[c] = at[c] /\ (at[c] /= "idle" => request'[c] = request[c])
  PROVE  AskedBy(c)' = AskedBy(c) /\ AnswerTo(c)' = AnswerTo(c)
<1>1. CASE c \in Req
  BY <1>1 DEF AskedBy, AnswerTo, S!AnswerTo
<1>2. CASE c \notin Req
  BY <1>2 DEF AskedBy, AnswerTo, ReferenceOf
<1> QED BY <1>1, <1>2

\* createSpray.
LEMMA SprayInTheBook ==
  ASSUME SpendingInv, Next, NEW q \in Req, Sprays(q), UNCHANGED transferVars
  PROVE  [Book!Next]_(Book!book)
<1> TypeOK /\ q \in Clients
  BY DEF SpendingInv, Clients
<1> DEFINE k == ClientRef(body[q].key)
<1>1. /\ body' = body /\ AskedBy(q) = k /\ AskedBy(q)' = k
      /\ \A c \in Clients : c /= q => AskedBy(c)' = AskedBy(c) /\ AnswerTo(c)' = AnswerTo(c)
  <2>1. body' = body
    BY SprayEffect
  <2>2. \A c \in Clients : c /= q => AskedBy(c)' = AskedBy(c) /\ AnswerTo(c)' = AnswerTo(c)
    BY <2>1, OthersStand, SameEntry DEF Clients
  <2> QED BY <2>1, <2>2 DEF AskedBy
<1>2. askedBar' = askedBar
  BY <1>1 DEF askedBar
<1>3. pc[q] \notin {"failed", "lost", "done"} /\ AnswerTo(q) = <<"pending">>
  BY SprayMovesOn DEF SprayMoves, S!Running, S!Reading, S!Waiting, S!InTx, AnswerTo, S!AnswerTo
<1>4. k \in References
  BY ReferencesAre DEF TypeOK, S!Bodies
<1>5. CASE Commits(q)
  <2>1. CommitsSpray(q)
    BY <1>5, CommitEffect
  <2>2. postedBar' = postedBar \cup {[key |-> k, by |-> q]}
    <3>1. S!RowOf(S!SprayOf(q)) = [key |-> k, by |-> q]
      BY SprayRowFields DEF S!RowOf
    <3>2. \A s : S!RowOf(s)' = S!RowOf(s)
      BY DEF S!RowOf
    <3> QED BY <2>1, <3>1, <3>2 DEF CommitsSpray, postedBar, S!RowOf
  <2>3. \A p \in postedBar : p.key /= k
    <3> SUFFICES ASSUME NEW s \in spray, s.debit = k PROVE FALSE
      BY DEF postedBar, S!RowOf
    <3>1. \E r \in transaction : r.reference = s.debit
      BY DEF SpendingInv, ReferencesTell
    <3> QED BY <2>1, <3>1 DEF CommitsSpray, ReferenceTaken
  <2>4. answerBar' = answerBar
    <3>1. pc'[q] = "readTotals"
      BY <2>1 DEF CommitsSpray, TypeOK
    <3>2. AnswerTo(q)' = <<"pending">>
      BY <3>1 DEF AnswerTo, S!AnswerTo
    <3> QED BY <1>1, <1>3, <3>2 DEF answerBar
  <2>5. answerBar[q] = <<"pending">> /\ askedBar[q] = k
    BY <1>1, <1>3 DEF answerBar, askedBar
  <2> HIDE DEF k
  <2> QED BY <1>2, <1>4, <2>2, <2>3, <2>4, <2>5, TheBook
<1>6. CASE ~Commits(q)
  <2>1. spray' = spray /\ postedBar' = postedBar
    BY <1>6, SprayEffect DEF postedBar, S!RowOf
  <2>2. CASE pc'[q] \notin {"failed", "done"}
    <3>1. pc'[q] \notin {"failed", "done", "lost"}
      BY <2>2, SprayMovesOn DEF SprayMoves
    <3>2. AnswerTo(q)' = <<"pending">>
      BY <3>1 DEF AnswerTo, S!AnswerTo
    <3>3. answerBar' = answerBar
      BY <1>1, <1>3, <3>2 DEF answerBar
    <3> QED BY <1>2, <2>1, <3>3, TheBook
  <2>3. CASE pc'[q] = "failed"
    <3>1. AnswerTo(q)' = <<"error">>
      BY <2>3 DEF AnswerTo, S!AnswerTo
    <3>2. answerBar' = [c \in Clients |-> IF c \in {q} THEN <<"error">> ELSE answerBar[c]]
      BY <1>1, <3>1 DEF answerBar
    <3>3. {q} \in SUBSET Clients /\ \A c \in {q} : answerBar[c] = <<"pending">>
      BY <1>3 DEF answerBar
    <3> QED BY <1>2, <2>1, <3>2, <3>3, TheBook
  <2>4. CASE pc'[q] = "done"
    <3>1. PICK s \in spray : s.debit = k /\ s.id = reply'[q]
      <4>1. AnswersAreRecorded'
        BY AnswersStep DEF SpendingInv
      <4> QED BY <1>1, <2>1, <2>4, <4>1 DEF AnswersAreRecorded
    <3>2. S!RowOf(s) \in postedBar /\ S!RowOf(s).key = k
      BY <3>1 DEF postedBar, S!RowOf
    <3>3. AnswerTo(q)' = <<"returned", S!RowOf(s)>>
      BY <1>1, <2>4, <3>1, SameLedger DEF AnswerTo, S!AnswerTo, S!RowOf
    <3>4. answerBar' = [answerBar EXCEPT ![q] = <<"returned", S!RowOf(s)>>]
      BY <1>1, <3>3 DEF answerBar
    <3>5. answerBar[q] = <<"pending">> /\ askedBar[q] = k
      BY <1>1, <1>3 DEF answerBar, askedBar
    <3> HIDE DEF k
    <3> QED BY <1>2, <2>1, <3>2, <3>4, <3>5, TheBook
  <2> QED BY <2>2, <2>3, <2>4
<1> QED BY <1>5, <1>6

\* walletToWalletTransfer; a payout and the calls about a transfer are not seen.
LEMMA CallInTheBook ==
  ASSUME SpendingInv, TransfersPoint, Next, NEW c \in Calls, CallStep(c), UNCHANGED spending
  PROVE  [Book!Next]_(Book!book)
<1> TransfersTypeOK /\ TransfersTypeOK' /\ c \notin Req
  BY TypeStep, SpendingAssumption DEF SpendingInv, TypeOK
<1>0. /\ c \in Moving => <<at[c], at'[c]>> \in CallMoves
      /\ at[c] /= "idle" => request' = request
      /\ \A d \in Calls : d /= c => at'[d] = at[d] /\ request'[d] = request[d]
  BY CallMovesOn
<1>1. \A d \in Clients : d /= c => AskedBy(d)' = AskedBy(d) /\ AnswerTo(d)' = AnswerTo(d)
  BY <1>0, SameEntry, CallKinds, SpendingAssumption DEF Clients
<1>2. spray' = spray \/ (c \in Transfer /\ InsertsSpray(c))
  <2>1. Arrive(c) => spray' = spray
    BY DEF Arrive
  <2>2. c \in Moving /\ MovingStep(c) => spray' = spray
    BY MovingEffect DEF QuietRows
  <2>3. c \in Transfer /\ TransferStep(c) => spray' = spray \/ InsertsSpray(c)
    BY TransferEffect DEF QuietRows, InsertsDebit, InsertsCredit
  <2>4. c \in Asking /\ AskingStep(c) => spray' = spray
    BY AskingEffect DEF QuietRows, WritesStatus
  <2> QED BY <2>1, <2>2, <2>3, <2>4 DEF CallStep
<1>3. spray' = spray => postedBar' = postedBar
  BY DEF postedBar, S!RowOf
<1>4. CASE c \notin Transfer
  <2>1. UNCHANGED <<askedBar, answerBar>>
    BY <1>1, <1>4 DEF askedBar, answerBar, Clients
  <2> QED BY <1>2, <1>3, <1>4, <2>1, TheBook
<1>5. CASE c \in Transfer
  <2> c \in Clients /\ c \in Moving /\ c \in Actor
    BY <1>5, CallKinds DEF Clients
  <2>1. CASE at[c] = "idle"
    <3>1. at'[c] = "readFrom" /\ spray' = spray
      BY <1>0, <1>2, <2>1 DEF CallMoves, InsertsSpray
    <3>2. AskedBy(c) = NoRequest /\ AskedBy(c)' = ReferenceOf(c)'
          /\ AnswerTo(c) = <<"pending">> /\ AnswerTo(c)' = <<"pending">>
      BY <2>1, <3>1 DEF AskedBy, AnswerTo
    <3>3. ReferenceOf(c)' \in References
      <4>1. request'[c] \in Requests(c)
        BY <3>1 DEF TransfersTypeOK, Requests
      <4>2. request'[c].key \in Keys \cup {NoKey}
        BY <4>1, CallAssumption DEF Requests, Bodies
      <4> QED BY <1>5, <4>2, ReferencesAre DEF ReferenceOf
    <3>4. answerBar' = answerBar /\ askedBar[c] = NoRequest
          /\ \E r \in References : askedBar' = [askedBar EXCEPT ![c] = r]
      BY <1>1, <3>2, <3>3 DEF answerBar, askedBar
    <3> QED BY <1>3, <3>1, <3>4, TheBook
  <2>2. CASE at[c] /= "idle"
    <3>1. /\ AskedBy(c) = ReferenceOf(c) /\ AskedBy(c)' = ReferenceOf(c)
          /\ AnswerTo(c) = <<"pending">> /\ at[c] \notin {"idle", "done", "failed", "lost"}
          /\ at'[c] /= "idle"
      <4>1. at[c] \notin {"idle", "done", "failed", "lost"} /\ at'[c] /= "idle"
        BY <1>0, <2>2 DEF CallMoves
      <4>2. request' = request
        BY <1>0, <2>2
      <4> QED BY <4>1, <4>2 DEF AskedBy, AnswerTo, ReferenceOf
    <3>2. askedBar' = askedBar /\ askedBar[c] = ReferenceOf(c) /\ answerBar[c] = <<"pending">>
      BY <1>1, <3>1 DEF askedBar, answerBar
    <3>3. ReferenceOf(c) \in References
      BY <2>2, RequestOfMoving, TransfersTypeParts
    <3>4. CASE InsertsSpray(c)
      <4>1. at[c] = "insertSpray" /\ at'[c] = "writeBoth" /\ spray' = spray \cup {SprayOfTransfer(c)}
        BY <3>4 DEF InsertsSpray, TransfersTypeOK
      <4>2. answerBar' = answerBar
        <5>1. AnswerTo(c)' = <<"pending">>
          BY <4>1 DEF AnswerTo
        <5> QED BY <1>1, <3>1, <5>1 DEF answerBar
      <4>3. postedBar' = postedBar \cup {[key |-> ReferenceOf(c), by |-> c]}
        <5>1. S!RowOf(SprayOfTransfer(c)) = [key |-> ReferenceOf(c), by |-> c]
          BY DEF S!RowOf, SprayOfTransfer
        <5>2. {S!RowOf(s) : s \in spray'} = {S!RowOf(s) : s \in spray} \cup {S!RowOf(SprayOfTransfer(c))}
          BY <4>1 DEF S!RowOf
        <5> QED BY <5>1, <5>2 DEF postedBar, S!RowOf
      <4>4. \A p \in postedBar : p.key /= ReferenceOf(c)
        <5> SUFFICES ASSUME NEW s \in spray, s.debit = ReferenceOf(c) PROVE FALSE
          BY DEF postedBar, S!RowOf
        <5>1. PICK r \in transaction : r.group = c /\ r.reference = ReferenceOf(c)
          BY <1>5, <4>1 DEF SpendingInv, TransfersStand, DebitStands
        <5>2. PICK r2 \in transaction : r2.reference = s.debit /\ r2.group = s.id
          BY DEF SpendingInv, ReferencesTell
        <5>3. s.id = c
          BY <5>1, <5>2 DEF SpendingInv, ReferencesTell
        <5>4. at[c] \in Recording
          BY <4>1 DEF Recording
        <5> QED BY <1>5, <5>3, <5>4 DEF SpendingInv, TransfersStand
      <4> QED BY <3>2, <3>3, <4>2, <4>3, <4>4, TheBook
    <3>5. CASE ~InsertsSpray(c) /\ at'[c] = "failed"
      <4>1. AnswerTo(c)' = <<"error">>
        BY <3>5 DEF AnswerTo
      <4>2. answerBar' = [d \in Clients |-> IF d \in {c} THEN <<"error">> ELSE answerBar[d]]
        BY <1>1, <4>1 DEF answerBar
      <4>3. {c} \in SUBSET Clients /\ \A d \in {c} : answerBar[d] = <<"pending">>
        BY <3>2
      <4> QED BY <1>2, <1>3, <3>2, <3>5, <4>2, <4>3, TheBook
    <3>6. CASE ~InsertsSpray(c) /\ at'[c] = "done"
      <4>1. at[c] \in Writing
        BY <1>0, <3>6 DEF CallMoves, Writing
      <4>2. PICK s \in spray : s.id = c
        BY <1>5, <4>1 DEF SpendingInv, TransfersStand, Writing
      <4>3. s.debit = ReferenceOf(c)
        BY <1>5, <4>2 DEF TransfersPoint
      <4> DEFINE p == S!RowOf(s)
      <4>4. p \in postedBar /\ p.key = ReferenceOf(c) /\ p = [key |-> ReferenceOf(c), by |-> c]
        BY <4>2, <4>3 DEF postedBar, S!RowOf
      <4> HIDE DEF p
      <4>5. AnswerTo(c)' = <<"returned", p>>
        <5>1. request' = request
          BY <1>0, <2>2
        <5> QED BY <3>6, <4>4, <5>1 DEF AnswerTo, ReferenceOf
      <4>6. answerBar' = [answerBar EXCEPT ![c] = <<"returned", p>>]
        BY <1>1, <4>5 DEF answerBar
      <4> QED BY <1>2, <1>3, <3>2, <3>6, <4>4, <4>6, TheBook
    <3>7. CASE ~InsertsSpray(c) /\ at'[c] \notin {"failed", "done"}
      <4>1. at'[c] \notin {"failed", "done", "lost"}
        BY <1>0, <3>7 DEF CallMoves
      <4>2. AnswerTo(c)' = <<"pending">>
        BY <4>1 DEF AnswerTo
      <4>3. answerBar' = answerBar
        BY <1>1, <3>1, <4>2 DEF answerBar
      <4> QED BY <1>2, <1>3, <3>2, <3>7, <4>3, TheBook
    <3> QED BY <3>4, <3>5, <3>6, <3>7
  <2> QED BY <2>1, <2>2
<1> QED BY <1>4, <1>5

\* A fault fails one call, a crash all that are in flight.
LEMMA FaultInTheBook ==
  ASSUME TypeOK, NEW dead \in SUBSET InFlight, Lose(dead), body' = body, spray' = spray,
         \A q \in Req : \/ pc'[q] = pc[q] /\ reply'[q] = reply[q]
                        \/ pc[q] \in S!Running /\ pc'[q] = "lost"
  PROVE  [Book!Next]_(Book!book)
<1> DEFINE F == {q \in Req : pc[q] \in S!Running /\ pc'[q] = "lost"} \cup (Transfer \cap dead)
<1>1. /\ at' = [c \in Calls |-> IF c \in dead THEN "lost" ELSE at[c]]
      /\ request' = request
  BY DEF Lose
<1>2. \A c \in F : AnswerTo(c) = <<"pending">> /\ AnswerTo(c)' = <<"error">>
  <2>1. ASSUME NEW q \in Req, pc[q] \in S!Running, pc'[q] = "lost"
        PROVE  AnswerTo(q) = <<"pending">> /\ AnswerTo(q)' = <<"error">>
    BY <2>1 DEF AnswerTo, S!AnswerTo, S!Running, S!Reading, S!Waiting, S!InTx
  <2>2. ASSUME NEW c \in Transfer \cap dead
        PROVE  AnswerTo(c) = <<"pending">> /\ AnswerTo(c)' = <<"error">>
    <3>1. c \in Calls /\ c \notin Req /\ at'[c] = "lost" /\ at[c] \in Places
      BY <1>1, CallKinds, SpendingAssumption DEF InFlight
    <3> QED BY <3>1 DEF AnswerTo, Places
  <2> QED BY <2>1, <2>2
<1>3. \A c \in Clients : c \notin F => AnswerTo(c)' = AnswerTo(c)
  <2> SUFFICES ASSUME NEW c \in Clients, c \notin F PROVE AnswerTo(c)' = AnswerTo(c)
    OBVIOUS
  <2>1. CASE c \in Req
    BY <2>1, SameEntry
  <2>2. CASE c \notin Req
    <3>1. at'[c] = at[c] /\ request'[c] = request[c]
      BY <1>1, <2>2, CallKinds DEF Clients
    <3> QED BY <2>2, <3>1, SameEntry
  <2> QED BY <2>1, <2>2
<1>4. askedBar' = askedBar
  <2>1. ASSUME NEW c \in Clients PROVE AskedBy(c)' = AskedBy(c)
    <3>1. CASE c \in Req
      BY <3>1 DEF AskedBy
    <3>2. CASE c \notin Req
      <4>1. c \in Calls
        BY <3>2, CallKinds DEF Clients
      <4>2. at'[c] = "idle" <=> at[c] = "idle"
        BY <1>1, <4>1 DEF InFlight, Places
      <4> QED BY <1>1, <3>2, <4>2 DEF AskedBy, ReferenceOf
    <3> QED BY <3>1, <3>2
  <2> QED BY <2>1 DEF askedBar
<1>5. F \in SUBSET Clients
  BY DEF Clients
<1>6. postedBar' = postedBar
  BY DEF postedBar, S!RowOf
<1> HIDE DEF F
<1>7. /\ \A c \in F : answerBar[c] = <<"pending">>
      /\ answerBar' = [c \in Clients |-> IF c \in F THEN <<"error">> ELSE answerBar[c]]
  BY <1>2, <1>3, <1>5 DEF answerBar
<1> QED BY <1>4, <1>5, <1>6, <1>7, TheBook

\* The two services implement PostingBook together: one posting for a key, and a
\* caller who is answered has the posting of its key (sprays.service.ts:54-70,
\* walletmodule.service.ts:343-425).
THEOREM Implements == Spec => ImplementsPostingBook
<1>1. Init => Book!Init /\ TransfersPoint
  <2> SUFFICES ASSUME Init PROVE Book!Init /\ TransfersPoint
    OBVIOUS
  <2>1. /\ pc = [q \in Req |-> "idle"] /\ at = [c \in Calls |-> "idle"] /\ spray = {}
        /\ body \in [Req -> S!Bodies]
    BY DEF Init, S!Init, S!TablesInit, TransfersInit
  <2>2. ASSUME NEW c \in Clients
        PROVE  AskedBy(c) \in References \cup {NoRequest} /\ AnswerTo(c) = <<"pending">>
    <3>1. CASE c \in Req
      BY <2>1, <3>1, ReferencesAre DEF AskedBy, AnswerTo, S!AnswerTo, S!Bodies
    <3>2. CASE c \notin Req
      BY <2>1, <3>2, CallKinds DEF AskedBy, AnswerTo, Clients
    <3> QED BY <3>1, <3>2
  <2>3. askedBar \in [Clients -> References \cup {NoRequest}]
    BY <2>2 DEF askedBar
  <2>4. answerBar = [c \in Clients |-> <<"pending">>] /\ postedBar = {}
    BY <2>1, <2>2 DEF answerBar, postedBar
  <2> QED BY <2>1, <2>3, <2>4, TheBook DEF TransfersPoint
<1>2. SpendingInv /\ TransfersPoint /\ [Next]_vars => TransfersPoint'
  <2>1. SpendingInv /\ TransfersPoint /\ Next => TransfersPoint'
    BY PointStep DEF SpendingInv
  <2>2. TransfersPoint /\ UNCHANGED vars => TransfersPoint'
    BY DEF TransfersPoint, ReferenceOf
  <2> QED BY <2>1, <2>2
<1>3. SpendingInv /\ TransfersPoint /\ [Next]_vars => [Book!Next]_(Book!book)
  <2> SUFFICES ASSUME SpendingInv, TransfersPoint, [Next]_vars PROVE [Book!Next]_(Book!book)
    OBVIOUS
  <2>1. CASE UNCHANGED vars
    <3>1. UNCHANGED <<askedBar, postedBar, answerBar>>
      BY <2>1 DEF askedBar, postedBar, answerBar, AskedBy, AnswerTo, S!AnswerTo, S!RowOf, ReferenceOf
    <3> QED BY <3>1, TheBook
  <2>2. CASE Next
    <3> TypeOK
      BY DEF SpendingInv
    <3>1. CASE \E q \in Req : Sprays(q) /\ UNCHANGED transferVars
      BY <2>2, <3>1, SprayInTheBook
    <3>2. CASE (TransfersNext /\ ~Fail) /\ UNCHANGED spending
      <4>1. PICK c \in Calls : CallStep(c)
        BY <3>2, CallKinds DEF TransfersNext, Step, CallStep
      <4> QED BY <2>2, <3>2, <4>1, CallInTheBook
    <3>3. CASE Fail /\ UNCHANGED spending
      <4>1. PICK c \in InFlight : Lose({c})
        BY <3>3 DEF Fail
      <4>2. spray' = spray
        BY <3>3 DEF Fail
      <4> QED BY <3>3, <4>1, <4>2, FaultInTheBook
    <3>4. CASE Die
      <4>1. Lose(InFlight) /\ body' = body /\ spray' = spray
        BY <3>4 DEF Die, S!Crash
      <4>2. \A q \in Req : \/ pc'[q] = pc[q] /\ reply'[q] = reply[q]
                           \/ pc[q] \in S!Running /\ pc'[q] = "lost"
        BY <3>4 DEF Die, S!Crash, S!InFlight, TypeOK
      <4> QED BY <4>1, <4>2, FaultInTheBook
    <3> QED BY <2>2, <3>1, <3>2, <3>3, <3>4, NextIs
  <2> QED BY <2>1, <2>2
<1> QED BY <1>1, <1>2, <1>3, InductiveInvariant, PTL DEF Spec, Book!Spec, ImplementsPostingBook
=============================================================================
