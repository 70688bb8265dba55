--------------------------- MODULE SpraysProofs ---------------------------
(***************************************************************************)
(* Theorems about createSpray for every number of calls, users, wallets    *)
(* and keys.                                                               *)
(***************************************************************************)
EXTENDS Sprays, TLAPS, FiniteSetTheorems

USE DEF vars, tables, sprayVars, actorVars, eventVars, worldVars

(***************************************************************************)
(* Types.                                                                  *)
(***************************************************************************)

\* The balances the code computes are balances again.
LEMMA BalanceArithmetic ==
  ASSUME NEW b \in Balance, NEW n \in Int
  PROVE  /\ Plus(b, n) \in Balance
         /\ Minus(b, n) \in Balance
         /\ Plus(b, n).available = b.available + n
         /\ Plus(b, n).ledger = b.ledger + n
         /\ Minus(b, n).available = b.available - n
         /\ Minus(b, n).ledger = b.ledger - n
BY DEF Balance, Plus, Minus

LEMMA SoundArithmetic ==
  ASSUME NEW b \in Balance, Sound(b), NEW n \in Int, n > 0
  PROVE  /\ Sound(Plus(b, n))
         /\ b.available >= n => Sound(Minus(b, n))
<1>1. b.available \in Int /\ b.ledger \in Int
  BY DEF Balance
<1> QED BY <1>1 DEF Sound, Plus, Minus

LEMMA BothIsBalance == ASSUME NEW n \in Int PROVE Both(n) \in Balance
BY DEF Balance, Both

LEMMA FreshIsLocals == Fresh \in Locals
BY BothIsBalance DEF Fresh, Locals

\* A handler that throws leaves the types intact.
LEMMA ThrowType == ASSUME TypeOK, NEW q \in Req, Throw(q) PROVE TypeOK'
<1>1. TablesTypeOK'
  BY ReqAssumption DEF TypeOK, TablesTypeOK, Throw, Release
<1>2. pc' \in [Req -> Places]
  BY DEF TypeOK, Throw, Goto, Places, Ended
<1>3. local' \in [Req -> Locals]
  BY FreshIsLocals DEF TypeOK, Throw, Keep
<1> QED BY <1>1, <1>2, <1>3 DEF TypeOK, Throw

LEMMA RememberType ==
  ASSUME TypeOK, NEW q \in Req, NEW l \in Locals, NEW place \in Places, Remember(q, l, place)
  PROVE  TypeOK'
BY DEF TypeOK, TablesTypeOK, Remember, Goto, Keep

LEMMA ProceedType ==
  ASSUME TypeOK, NEW q \in Req, NEW place \in Places, Proceed(q, place)
  PROVE  TypeOK'
BY DEF TypeOK, TablesTypeOK, Proceed, Goto

LEMMA PlacesAre ==
  Places = {"idle", "checkKey", "readEvent", "readSprayer", "readReceiver", "readDefaults",
            "lockCheck", "callProvider", "lockSprayer", "lockReceiver", "insert",
            "readTotals", "answer", "replay", "done", "failed", "lost"}
BY DEF Places, Running, Reading, Waiting, InTx, Ended

LEMMA InitType == Init => TypeOK
<1> SUFFICES ASSUME Init PROVE TypeOK OBVIOUS
<1>1. TablesTypeOK
  BY BothIsBalance, OpeningAssumption DEF Init, TablesInit, TablesTypeOK
<1> QED BY <1>1, FreshIsLocals, PlacesAre, UserAssumption, BoundAssumption DEF Init, TypeOK

LEMMA LocalsUpdate ==
  ASSUME NEW l \in Locals, NEW w \in Wallets \cup {NoWallet}, NEW b \in Balance,
         NEW S \in SUBSET Req
  PROVE  /\ [l EXCEPT !.from = w] \in Locals
         /\ [l EXCEPT !.to = w] \in Locals
         /\ [l EXCEPT !.locked = b] \in Locals
         /\ [l EXCEPT !.seen = b] \in Locals
         /\ [l EXCEPT !.counted = S] \in Locals
BY DEF Locals

LEMMA WithReceiverType ==
  ASSUME TypeOK, NEW l \in Locals, NEW w \in Wallets \cup {NoWallet}
  PROVE  WithReceiver(l, w) \in Locals
<1>1. CASE w = NoWallet
  BY <1>1 DEF WithReceiver, Locals
<1>2. CASE w /= NoWallet
  BY <1>2 DEF WithReceiver, Locals, TypeOK, TablesTypeOK
<1> QED BY <1>1, <1>2

LEMMA SeatWalletType ==
  ASSUME TypeOK, NEW u \in Users
  PROVE  SeatWallet(u) \in Wallets \cup {NoWallet}
BY DEF SeatWallet, TypeOK

LEMMA WithDefaultsType ==
  ASSUME TypeOK, NEW q \in Req PROVE WithDefaults(q) \in Locals
<1> DEFINE l == IF local[q].to = NoWallet
                THEN WithReceiver(local[q], DefaultWallet[body[q].receiver])
                ELSE local[q]
           w == IF l.from = NoWallet THEN DefaultWallet[body[q].sprayer] ELSE l.from
<1>1. local[q] \in Locals /\ body[q] \in Bodies
  BY DEF TypeOK
<1>2. l \in Locals
  BY <1>1, WithReceiverType, UserAssumption DEF Bodies
<1>3. w \in Wallets \cup {NoWallet}
  BY <1>1, <1>2, UserAssumption DEF Bodies, Locals
<1>4. [l EXCEPT !.from = w] \in Locals
  BY <1>2, <1>3 DEF Locals
<1> QED BY <1>4 DEF WithDefaults

LEMMA ReferencesAre ==
  /\ \A k \in Keys : ClientRef(k) \in References
  /\ \A a \in Actor : DrawnRef("credit", a) \in References
BY DEF References

LEMMA StepType ==
  ASSUME TypeOK, WalletsKnown, SpraysBelong, NEW q \in Req, Start(q) \/ Step(q) \/ TxAbort(q)
  PROVE  TypeOK'
<1> USE PlacesAre
<1> body[q] \in Bodies /\ local[q] \in Locals
  BY DEF TypeOK
<1>1. CASE Start(q)
  BY <1>1, ProceedType DEF Start
<1>2. CASE CheckKey(q)
  <2>1. CASE Proceed(q, "readEvent")
    BY <2>1, ProceedType
  <2>2. CASE \E s \in SpraysUnder(ClientRef(body[q].key)) :
               /\ reply' = [reply EXCEPT ![q] = s.id]
               /\ Goto(q, "replay")
               /\ UNCHANGED <<tables, body, local, eventVars, worldVars>>
    BY <2>2
    DEF Goto, TypeOK, TablesTypeOK, SpraysUnder, SpraysBelong
  <2> QED BY <1>2, <2>1, <2>2 DEF CheckKey
<1>3. CASE Replay(q)
  BY <1>3, ProceedType DEF Replay
<1>4. CASE ReadEvent(q)
  BY <1>4, ProceedType, ThrowType DEF ReadEvent
<1>5. CASE ReadSprayer(q)
  <2>1. [local[q] EXCEPT !.from = SeatWallet(body[q].sprayer)] \in Locals
    BY SeatWalletType, LocalsUpdate DEF Bodies, Locals
  <2> QED BY <1>5, <2>1, RememberType, ThrowType DEF ReadSprayer
<1>6. CASE ReadReceiver(q)
  <2>1. WithReceiver(local[q], SeatWallet(body[q].receiver)) \in Locals
    BY SeatWalletType, WithReceiverType DEF Bodies
  <2> QED BY <1>6, <2>1, RememberType, ThrowType DEF ReadReceiver
<1>7. CASE ReadDefaults(q)
  BY <1>7, WithDefaultsType, RememberType, ThrowType DEF ReadDefaults
<1>8. CASE LockCheck(q)
  <2>1. local[q].from \in Wallets
    BY <1>8 DEF LockCheck, WalletsKnown
  <2>2. [local[q] EXCEPT !.locked = balance[local[q].from]] \in Locals
    BY <2>1, LocalsUpdate DEF TypeOK, TablesTypeOK
  <2> QED BY <1>8, <2>2, RememberType, ThrowType DEF LockCheck
<1>9. CASE CallProvider(q)
  <2>1. CASE Throw(q)
    BY <2>1, ThrowType
  <2>2. CASE ~Throw(q)
    <3>1. TransferOf(q) \in Transfers
      BY <1>9, ReferencesAre, AmountAssumption
      DEF CallProvider, TransferOf, Transfers, WalletsKnown, Bodies
    <3> QED
      BY <1>9, <2>2, <3>1, FreshIsLocals
      DEF CallProvider, Goto, Keep, TypeOK, TablesTypeOK
  <2> QED BY <2>1, <2>2
<1>10. CASE LockSprayer(q) \/ LockReceiver(q)
  BY <1>10, ReqAssumption
  DEF LockSprayer, LockReceiver, Lock, Goto, TypeOK, TablesTypeOK
<1>11. CASE InsertAndCommit(q)
  <2>1. CASE Throw(q)
    BY <2>1, ThrowType
  <2>2. CASE ~Throw(q)
    <3>1. local[q].from \in Wallets /\ local[q].to \in Wallets
      BY <1>11 DEF InsertAndCommit, Record, WalletsKnown, InTx
    <3>2. NewBalances(q) \in [Wallets -> Balance]
      BY <3>1, BalanceArithmetic, AmountAssumption
      DEF NewBalances, TypeOK, TablesTypeOK, Locals, Bodies
    <3>3. DebitRow(q) \in TransactionRow /\ CreditRow(q) \in TransactionRow
      BY <3>1, ReqAssumption, AmountAssumption, ReferencesAre
      DEF DebitRow, CreditRow, TransactionRow, Bodies
    <3>4. SprayOf(q) \in SprayRow
      BY <3>1, ReqAssumption, AmountAssumption, ReferencesAre
      DEF SprayOf, SprayRow, Bodies
    <3> QED
      BY <1>11, <2>2, <3>2, <3>3, <3>4
      DEF InsertAndCommit, Record, Release, Goto, TypeOK, TablesTypeOK
  <2> QED BY <2>1, <2>2
<1>12. CASE ReadTotals(q)
  <2>1. [local[q] EXCEPT !.counted = {s.id : s \in spray} \cap Req] \in Locals
    BY DEF Locals
  <2> QED BY <1>12, <2>1, RememberType DEF ReadTotals
<1>13. CASE Answer(q)
  BY <1>13, FreshIsLocals DEF Answer, Goto, Keep, TypeOK, TablesTypeOK, Locals
<1>14. CASE TxAbort(q)
  BY <1>14, ThrowType DEF TxAbort
<1> QED BY <1>1, <1>2, <1>3, <1>4, <1>5, <1>6, <1>7, <1>8, <1>9, <1>10, <1>11, <1>12,
           <1>13, <1>14 DEF Step

LEMMA AroundType ==
  ASSUME TypeOK,
         \/ \E s \in {"LIVE", "ENDED"} : SetStatus(s)
         \/ \E u \in Users : LeaveEvent(u)
         \/ Crash
  PROVE  TypeOK'
<1>1. CASE \E s \in {"LIVE", "ENDED"} : SetStatus(s)
  BY <1>1 DEF SetStatus, TypeOK, TablesTypeOK
<1>2. CASE \E u \in Users : LeaveEvent(u)
  BY <1>2 DEF LeaveEvent, TypeOK, TablesTypeOK
<1>3. CASE Crash
  BY <1>3, FreshIsLocals, PlacesAre, BoundAssumption DEF Crash, TypeOK, TablesTypeOK
<1> QED BY <1>1, <1>2, <1>3

LEMMA TypeStep == ASSUME IInv, Next PROVE TypeOK'
BY StepType, AroundType DEF IInv, Next

(***************************************************************************)
(* What a step does to the tables.  Only InsertAndCommit writes them.      *)
(***************************************************************************)

\* The branch of InsertAndCommit that commits.
Commits(q) == InsertAndCommit(q) /\ ~ReferenceTaken(ClientRef(body[q].key))

LEMMA CommitEffect ==
  ASSUME NEW q \in Req, Commits(q)
  PROVE  /\ pc[q] = "insert"
         /\ balance' = NewBalances(q)
         /\ transaction' = transaction \cup {DebitRow(q), CreditRow(q)}
         /\ spray' = spray \cup {SprayOf(q)}
         /\ pc' = [pc EXCEPT ![q] = "readTotals"]
         /\ UNCHANGED <<body, local, reply, eventVars, worldVars>>
BY DEF Commits, InsertAndCommit, Record, Goto

LEMMA OtherwiseUnchanged ==
  ASSUME Next, \A q \in Req : ~Commits(q)
  PROVE  UNCHANGED <<balance, transaction, spray, body>>
<1>1. CASE \E q \in Req : Start(q) \/ Step(q) \/ TxAbort(q)
  <2>1. PICK q \in Req : Start(q) \/ Step(q) \/ TxAbort(q)
    BY <1>1
  <2>2. ASSUME Throw(q) PROVE UNCHANGED <<balance, transaction, spray, body>>
    BY <2>2 DEF Throw
  <2>3. CASE InsertAndCommit(q)
    BY <2>2, <2>3 DEF InsertAndCommit, Record, Commits
  <2>4. CASE ~InsertAndCommit(q)
    BY <2>1, <2>2, <2>4
    DEF Step, Start, CheckKey, Replay, ReadEvent, ReadSprayer, ReadReceiver, ReadDefaults,
        LockCheck, CallProvider, LockSprayer, LockReceiver, ReadTotals, Answer, TxAbort,
        Proceed, Remember
  <2> QED BY <2>3, <2>4
<1>2. CASE \E s \in {"LIVE", "ENDED"} : SetStatus(s)
  BY <1>2 DEF SetStatus
<1>3. CASE \E u \in Users : LeaveEvent(u)
  BY <1>3 DEF LeaveEvent
<1>4. CASE Crash
  BY <1>4 DEF Crash
<1> QED BY <1>1, <1>2, <1>3, <1>4 DEF Next

LEMMA TransfersGrow == ASSUME Next PROVE transfers \subseteq transfers'
BY DEF Next, Step, Start, CheckKey, Replay, ReadEvent, ReadSprayer, ReadReceiver, ReadDefaults,
       LockCheck, CallProvider, LockSprayer, LockReceiver, InsertAndCommit, Record, ReadTotals, Answer,
       TxAbort, Proceed, Remember, Throw, SetStatus, LeaveEvent, Crash

(***************************************************************************)
(* What a step does to the place and the locals of its call.               *)
(***************************************************************************)

\* The calls other than the one that moves stand where they stood, with the
\* same locals.
Moves(q) == Start(q) \/ Step(q) \/ TxAbort(q)

LEMMA OthersStand ==
  ASSUME TypeOK, NEW q \in Req, Moves(q)
  PROVE  /\ pc' = [pc EXCEPT ![q] = pc'[q]]
         /\ local' = [local EXCEPT ![q] = local'[q]]
         /\ body' = body
BY DEF TypeOK, Moves, Step, Start, CheckKey, Replay, ReadEvent, ReadSprayer, ReadReceiver,
       ReadDefaults, LockCheck, CallProvider, LockSprayer, LockReceiver, InsertAndCommit, Record,
       ReadTotals, Answer, TxAbort, Proceed, Remember, Throw, Goto, Keep

LEMMA AroundStands ==
  ASSUME TypeOK,
         \/ \E s \in {"LIVE", "ENDED"} : SetStatus(s)
         \/ \E u \in Users : LeaveEvent(u)
         \/ Crash
  PROVE  /\ UNCHANGED <<balance, transaction, spray, body, transfers, emitted>>
         /\ \A q \in Req :
              \/ pc'[q] = pc[q] /\ local'[q] = local[q] /\ reply'[q] = reply[q]
              \/ pc'[q] = "lost" /\ local'[q] = Fresh /\ pc[q] \in Running
BY DEF TypeOK, SetStatus, LeaveEvent, Crash, InFlight

LEMMA FreshIsSound == Sound(Fresh.seen) /\ Sound(Fresh.locked)
BY DEF Fresh, Sound, Both

(***************************************************************************)
(* Snapshots and wallets.                                                  *)
(***************************************************************************)
LEMMA WalletsStep == ASSUME IInv, Next PROVE WalletsKnown'
<1> USE DEF IInv
<1>1. CASE \E q \in Req : Moves(q)
  <2>1. PICK q \in Req : Moves(q)
    BY <1>1
  <2>2. pc'[q] \in Checked => body[q].amount > 0
    BY <2>1
    DEF WalletsKnown, Checked, TypeOK, InTx, Moves, Step, Start, CheckKey, Replay, ReadEvent,
        ReadSprayer, ReadReceiver, ReadDefaults, LockCheck, CallProvider, LockSprayer,
        LockReceiver, InsertAndCommit, Record, ReadTotals, Answer, TxAbort, Proceed, Remember,
        Throw, Goto, AmountAllowed
  <2>3. pc'[q] \in {"lockCheck", "callProvider"} \cup InTx =>
          local'[q].from \in Wallets /\ local'[q].to \in Wallets
    <3> SUFFICES ASSUME pc'[q] \in {"lockCheck", "callProvider"} \cup InTx
                 PROVE  local'[q].from \in Wallets /\ local'[q].to \in Wallets
      OBVIOUS
    <3> local[q] \in Locals /\ local'[q] \in Locals
      BY TypeStep DEF TypeOK
    <3>1. CASE ReadReceiver(q)
      BY <3>1, UserAssumption DEF ReadReceiver, Remember, Throw, Goto, Keep, TypeOK, InTx, Locals
    <3>2. CASE ReadDefaults(q)
      <4>1. ~Throw(q)
        BY DEF Throw, Goto, TypeOK, InTx
      <4>2. /\ Remember(q, WithDefaults(q), "lockCheck")
            /\ NoWallet \notin {WithDefaults(q).from, WithDefaults(q).to}
        BY <3>2, <4>1 DEF ReadDefaults
      <4>3. local'[q] = WithDefaults(q)
        BY <4>2 DEF Remember, Keep, TypeOK
      <4> QED BY <4>2, <4>3 DEF Locals
    <3>3. CASE LockCheck(q)
      <4>1. ~Throw(q)
        BY DEF Throw, Goto, TypeOK, InTx
      <4>2. Remember(q, [local[q] EXCEPT !.locked = balance[local[q].from]], "callProvider")
        BY <3>3, <4>1 DEF LockCheck
      <4>3. local'[q] = [local[q] EXCEPT !.locked = balance[local[q].from]]
        BY <4>2 DEF Remember, Keep, TypeOK
      <4> QED BY <3>3, <4>3 DEF LockCheck, WalletsKnown, Locals
    <3>4. CASE ~(ReadReceiver(q) \/ ReadDefaults(q) \/ LockCheck(q))
      BY <2>1, <3>4
      DEF WalletsKnown, TypeOK, InTx, Moves, Step, Start, CheckKey, Replay, ReadEvent,
          ReadSprayer, CallProvider, LockSprayer, LockReceiver, InsertAndCommit, Record, ReadTotals,
          Answer, TxAbort, Proceed, Remember, Throw, Goto
    <3> QED BY <3>1, <3>2, <3>3, <3>4
  <2> QED BY <2>1, <2>2, <2>3, OthersStand DEF WalletsKnown, TypeOK
<1>2. CASE ~\E q \in Req : Moves(q)
  BY <1>2, AroundStands DEF Next, Moves, WalletsKnown, Checked, InTx
<1> QED BY <1>1, <1>2

\* What a step leaves in the locals of its call: the old values, the balance of
\* some wallet, or a fresh record.
LEMMA SeenComesFrom ==
  ASSUME IInv, NEW q \in Req, Moves(q)
  PROVE  \/ local'[q].seen \in {local[q].seen, Fresh.seen}
         \/ \E w \in Wallets : local'[q].seen = balance[w]
<1> TypeOK /\ local[q] \in Locals
  BY DEF IInv, TypeOK
<1>1. ASSUME NEW w \in Wallets \cup {NoWallet}, NEW l \in Locals
      PROVE  \/ WithReceiver(l, w).seen = l.seen
             \/ \E v \in Wallets : WithReceiver(l, w).seen = balance[v]
  BY <1>1 DEF WithReceiver, Locals
<1>2. CASE ReadReceiver(q)
  <2>1. CASE Throw(q)
    BY <2>1 DEF Throw, Keep, TypeOK
  <2>2. CASE ~Throw(q)
    <3>1. local'[q] = WithReceiver(local[q], SeatWallet(body[q].receiver))
      BY <1>2, <2>2 DEF ReadReceiver, Remember, Keep, TypeOK
    <3>2. SeatWallet(body[q].receiver) \in Wallets \cup {NoWallet}
      BY SeatWalletType DEF TypeOK, Bodies
    <3> QED BY <1>1, <3>1, <3>2
  <2> QED BY <2>1, <2>2
<1>3. CASE ReadDefaults(q)
  <2>1. CASE Throw(q)
    BY <2>1 DEF Throw, Keep, TypeOK
  <2>2. CASE ~Throw(q)
    <3> DEFINE l == IF local[q].to = NoWallet
                    THEN WithReceiver(local[q], DefaultWallet[body[q].receiver])
                    ELSE local[q]
    <3>1. DefaultWallet[body[q].receiver] \in Wallets \cup {NoWallet}
      BY UserAssumption DEF TypeOK, Bodies
    <3>2. l \in Locals
      BY <3>1, WithReceiverType
    <3>3. WithDefaults(q).seen = l.seen
      BY <3>2 DEF WithDefaults, Locals
    <3>4. local'[q] = WithDefaults(q)
      BY <1>3, <2>2 DEF ReadDefaults, Remember, Keep, TypeOK
    <3> QED BY <1>1, <3>1, <3>3, <3>4
  <2> QED BY <2>1, <2>2
<1>4. CASE ~(ReadReceiver(q) \/ ReadDefaults(q))
  BY <1>4
  DEF TypeOK, Locals, Moves, Step, Start, CheckKey, Replay, ReadEvent, ReadSprayer, LockCheck,
      CallProvider, LockSprayer, LockReceiver, InsertAndCommit, Record, ReadTotals, Answer, TxAbort,
      Proceed, Remember, Throw, Keep
<1> QED BY <1>2, <1>3, <1>4

LEMMA SnapshotsStep == ASSUME IInv, Next PROVE SnapshotsAreSound'
<1> USE DEF IInv
<1>1. CASE \E q \in Req : Moves(q)
  <2>1. PICK q \in Req : Moves(q)
    BY <1>1
  <2> local[q] \in Locals /\ body' = body
    BY <2>1, OthersStand DEF TypeOK
  <2>2. Sound(local'[q].seen)
    BY <2>1, SeenComesFrom, FreshIsSound DEF SnapshotsAreSound, BalancesStaySound
  <2>3. /\ Sound(local'[q].locked)
        /\ pc'[q] \in {"callProvider"} \cup InTx => local'[q].locked.available >= body[q].amount
    <3>1. CASE Throw(q)
      BY <3>1, FreshIsSound DEF Throw, Goto, Keep, TypeOK, InTx
    <3>2. CASE LockCheck(q) /\ ~Throw(q)
      <4>1. /\ Remember(q, [local[q] EXCEPT !.locked = balance[local[q].from]], "callProvider")
            /\ balance[local[q].from].available >= body[q].amount
        BY <3>2 DEF LockCheck
      <4>2. local'[q].locked = balance[local[q].from]
        BY <4>1 DEF Remember, Keep, TypeOK, Locals
      <4>3. local[q].from \in Wallets
        BY <3>2 DEF LockCheck, WalletsKnown
      <4> QED BY <4>1, <4>2, <4>3 DEF BalancesStaySound
    <3>3. CASE ReadReceiver(q) /\ ~Throw(q)
      <4> DEFINE l == WithReceiver(local[q], SeatWallet(body[q].receiver))
      <4>1. l.locked = local[q].locked
        BY DEF WithReceiver, Locals
      <4>2. Remember(q, l, "lockCheck") \/ Remember(q, l, "readDefaults")
        BY <3>3 DEF ReadReceiver
      <4>3. local'[q] = l /\ pc'[q] \in {"lockCheck", "readDefaults"}
        BY <4>2 DEF Remember, Goto, Keep, TypeOK
      <4> QED BY <4>1, <4>3 DEF SnapshotsAreSound, InTx
    <3>4. CASE ReadDefaults(q) /\ ~Throw(q)
      <4>1. WithDefaults(q).locked = local[q].locked
        BY DEF WithDefaults, WithReceiver, Locals
      <4>2. local'[q].locked = local[q].locked /\ pc'[q] = "lockCheck"
        BY <3>4, <4>1 DEF ReadDefaults, Remember, Goto, Keep, TypeOK
      <4> QED BY <4>2 DEF SnapshotsAreSound, InTx
    <3>5. CASE ReadSprayer(q) /\ ~Throw(q)
      BY <3>5 DEF ReadSprayer, Remember, Goto, Keep, TypeOK, InTx, SnapshotsAreSound, Locals
    <3>6. CASE ReadTotals(q) \/ Answer(q) \/ (CallProvider(q) /\ ~Throw(q))
      <4>1. CASE ReadTotals(q)
        BY <4>1 DEF ReadTotals, Remember, Goto, Keep, TypeOK, InTx, SnapshotsAreSound, Locals
      <4>2. CASE Answer(q)
        BY <4>2, FreshIsSound DEF Answer, Goto, Keep, TypeOK, InTx
      <4>3. CASE CallProvider(q) /\ ~Throw(q)
        BY <4>3, FreshIsSound DEF CallProvider, Goto, Keep, TypeOK, InTx, SnapshotsAreSound
      <4> QED BY <3>6, <4>1, <4>2, <4>3
    <3>7. CASE ~(LockCheck(q) \/ ReadReceiver(q) \/ ReadDefaults(q) \/ ReadSprayer(q)
                 \/ ReadTotals(q) \/ Answer(q) \/ CallProvider(q) \/ Throw(q))
      BY <2>1, <3>7
      DEF SnapshotsAreSound, TypeOK, InTx, Moves, Step, Start, CheckKey, Replay, ReadEvent,
          LockSprayer, LockReceiver, InsertAndCommit, Record, TxAbort, Proceed, Goto
    <3> QED BY <3>1, <3>2, <3>3, <3>4, <3>5, <3>6, <3>7
  <2> QED BY <2>1, <2>2, <2>3, OthersStand DEF SnapshotsAreSound, TypeOK
<1>2. CASE ~\E q \in Req : Moves(q)
  BY <1>2, AroundStands, FreshIsSound DEF Next, Moves, SnapshotsAreSound, InTx
<1> QED BY <1>1, <1>2

LEMMA PaidStep == ASSUME IInv, Next PROVE PaidBeforeRecording'
<1> USE DEF IInv
<1>1. CASE \E q \in Req : Moves(q)
  <2>1. PICK q \in Req : Moves(q)
    BY <1>1
  <2>2. pc'[q] \in InTx => TransferOf(q)' \in transfers'
    <3> SUFFICES ASSUME pc'[q] \in InTx PROVE TransferOf(q)' \in transfers'
      OBVIOUS
    <3>1. \/ pc[q] \in InTx /\ UNCHANGED <<local, body>>
          \/ UNCHANGED <<local, body>> /\ TransferOf(q) \in transfers'
      BY <2>1
      DEF TypeOK, InTx, Moves, Step, Start, CheckKey, Replay, ReadEvent, ReadSprayer,
          ReadReceiver, ReadDefaults, LockCheck, CallProvider, LockSprayer, LockReceiver,
          InsertAndCommit, Record, ReadTotals, Answer, TxAbort, Proceed, Remember, Throw, Goto
    <3> QED BY <3>1, TransfersGrow DEF PaidBeforeRecording, TransferOf
  <2> QED BY <2>1, <2>2, OthersStand, TransfersGrow DEF PaidBeforeRecording, TransferOf, TypeOK
<1>2. CASE ~\E q \in Req : Moves(q)
  BY <1>2, AroundStands DEF Next, Moves, PaidBeforeRecording, TransferOf, InTx
<1> QED BY <1>1, <1>2

(***************************************************************************)
(* The rows.                                                               *)
(***************************************************************************)

\* A call past its commit goes on to its end and never back.
PastCommit == {"readTotals", "answer", "done", "lost"}

LEMMA BelongStep == ASSUME IInv, Next PROVE SpraysBelong'
<1> USE DEF IInv
<1>1. ASSUME NEW s \in spray
      PROVE  /\ s.id \in Req /\ s.group = s.id
             /\ pc'[s.id] \in PastCommit
             /\ body' = body
             /\ s.debit = ClientRef(body[s.id].key)
  <2>1. s.id \in Req /\ pc[s.id] \in PastCommit
    BY DEF SpraysBelong, PastCommit
  <2>2. body' = body
    BY OthersStand, AroundStands DEF Next, Moves
  <2>3. ASSUME NEW q \in Req, Moves(q) PROVE pc'[s.id] \in PastCommit
    <3>1. CASE q = s.id
      BY <2>1, <2>3, <3>1
      DEF PastCommit, TypeOK, InTx, Moves, Step, Start, CheckKey, Replay, ReadEvent,
          ReadSprayer, ReadReceiver, ReadDefaults, LockCheck, CallProvider, LockSprayer,
          LockReceiver, InsertAndCommit, Record, ReadTotals, Answer, TxAbort, Proceed, Remember, Goto
    <3>2. CASE q /= s.id
      BY <2>1, <2>3, <3>2, OthersStand DEF TypeOK
    <3> QED BY <3>1, <3>2
  <2>4. ASSUME ~\E q \in Req : Moves(q) PROVE pc'[s.id] \in PastCommit
    BY <2>1, <2>4, AroundStands DEF Next, Moves, PastCommit
  <2> QED BY <2>1, <2>2, <2>3, <2>4 DEF SpraysBelong
<1>2. CASE \E q \in Req : Commits(q)
  <2>1. PICK q \in Req : Commits(q)
    BY <1>2
  <2>2. pc'[q] = "readTotals"
    BY <2>1, CommitEffect DEF TypeOK
  <2> QED BY <1>1, <2>1, <2>2, CommitEffect DEF SpraysBelong, SprayOf, PastCommit
<1>3. CASE ~\E q \in Req : Commits(q)
  BY <1>1, <1>3, OtherwiseUnchanged DEF SpraysBelong, PastCommit
<1> QED BY <1>2, <1>3

LEMMA WholeStep == ASSUME IInv, Next PROVE SpraysAreWhole'
<1> USE DEF IInv
<1>1. CASE \E q \in Req : Commits(q)
  <2>1. PICK q \in Req : Commits(q)
    BY <1>1
  <2>2. /\ transaction' = transaction \cup {DebitRow(q), CreditRow(q)}
        /\ spray' = spray \cup {SprayOf(q)}
    BY <2>1, CommitEffect
  <2>3. /\ DebitRow(q).reference = SprayOf(q).debit /\ DebitRow(q).wallet = SprayOf(q).from
        /\ CreditRow(q).wallet = SprayOf(q).to
        /\ DebitRow(q).direction = "DEBIT" /\ CreditRow(q).direction = "CREDIT"
        /\ DebitRow(q).group = SprayOf(q).group /\ CreditRow(q).group = SprayOf(q).group
        /\ DebitRow(q).amount = SprayOf(q).amount /\ CreditRow(q).amount = SprayOf(q).amount
    BY DEF DebitRow, CreditRow, SprayOf
  <2>4. ASSUME NEW s \in spray', s.id \in Req
        PROVE  \E d, c \in transaction' :
                 /\ d.reference = s.debit /\ d.wallet = s.from /\ d.direction = "DEBIT"
                 /\ c.wallet = s.to /\ c.direction = "CREDIT"
                 /\ d.group = s.group /\ c.group = s.group
                 /\ d.amount = s.amount /\ c.amount = s.amount
    <3>1. CASE s \in spray
      BY <2>2, <2>4, <3>1 DEF SpraysAreWhole
    <3>2. CASE s = SprayOf(q)
      BY <2>2, <2>3, <3>2
    <3> QED BY <2>2, <2>4, <3>1, <3>2
  <2>5. ASSUME NEW t \in transaction', t.group \in Req
        PROVE  \E s \in spray' : s.group = t.group
    BY <2>2, <2>3, <2>5 DEF SpraysAreWhole
  <2> QED BY <2>4, <2>5 DEF SpraysAreWhole
<1>2. CASE ~\E q \in Req : Commits(q)
  BY <1>2, OtherwiseUnchanged DEF SpraysAreWhole
<1> QED BY <1>1, <1>2

LEMMA SpraysPaidStep == ASSUME IInv, Next PROVE SpraysArePaid'
<1> USE DEF IInv
<1>1. CASE \E q \in Req : Commits(q)
  <2>1. PICK q \in Req : Commits(q)
    BY <1>1
  <2>2. TransferOf(q) \in transfers'
    BY <2>1, CommitEffect, TransfersGrow DEF PaidBeforeRecording, InTx
  <2>3. [by |-> SprayOf(q).id, reference |-> SprayOf(q).debit, from |-> SprayOf(q).from,
         to |-> SprayOf(q).to, amount |-> SprayOf(q).amount] = TransferOf(q)
    BY DEF SprayOf, TransferOf
  <2> QED BY <2>1, <2>2, <2>3, CommitEffect, TransfersGrow DEF SpraysArePaid
<1>2. CASE ~\E q \in Req : Commits(q)
  BY <1>2, OtherwiseUnchanged, TransfersGrow DEF SpraysArePaid
<1> QED BY <1>1, <1>2

\* A key with a spray has its debit transaction, so the insert of another one
\* finds the reference taken.
LEMMA OneSprayStep == ASSUME IInv, Next PROVE OneSprayPerKey'
<1> USE DEF IInv
<1>1. CASE \E q \in Req : Commits(q)
  <2>1. PICK q \in Req : Commits(q)
    BY <1>1
  <2>2. \A s \in spray : s.debit /= ClientRef(body[q].key)
    BY <2>1 DEF Commits, ReferenceTaken, SpraysAreWhole, SpraysBelong
  <2> QED BY <2>1, <2>2, CommitEffect DEF OneSprayPerKey, SprayOf
<1>2. CASE ~\E q \in Req : Commits(q)
  BY <1>2, OtherwiseUnchanged DEF OneSprayPerKey
<1> QED BY <1>1, <1>2

LEMMA BalancesStep == ASSUME IInv, Next PROVE BalancesStaySound'
<1> USE DEF IInv
<1>1. CASE \E q \in Req : Commits(q)
  <2>1. PICK q \in Req : Commits(q)
    BY <1>1
  <2> DEFINE n == body[q].amount
  <2>2. /\ pc[q] = "insert"
        /\ balance' = NewBalances(q)
    BY <2>1, CommitEffect
  <2>3. /\ local[q].locked \in Balance /\ local[q].seen \in Balance
        /\ n \in Int /\ n > 0 /\ local[q].locked.available >= n
        /\ Sound(local[q].locked) /\ Sound(local[q].seen)
    BY <2>2, AmountAssumption
    DEF TypeOK, Locals, Bodies, WalletsKnown, Checked, SnapshotsAreSound, InTx
  <2>4. Sound(Minus(local[q].locked, n)) /\ Sound(Plus(local[q].seen, n))
    BY <2>3, SoundArithmetic
  <2>5. \A w \in Wallets : balance'[w] \in {balance[w], Minus(local[q].locked, n),
                                           Plus(local[q].seen, n)}
    BY <2>2 DEF NewBalances, TypeOK, TablesTypeOK
  <2> QED BY <2>4, <2>5 DEF BalancesStaySound
<1>2. CASE ~\E q \in Req : Commits(q)
  BY <1>2, OtherwiseUnchanged DEF BalancesStaySound
<1> QED BY <1>1, <1>2

(***************************************************************************)
(* The row locks, the events and the answers.                              *)
(***************************************************************************)
LEMMA LocksStep == ASSUME IInv, Next PROVE LocksAreInUse'
<1> USE DEF IInv
<1>1. CASE \E q \in Req : Moves(q)
  <2>1. PICK q \in Req : Moves(q)
    BY <1>1
  <2>2. CASE LockSprayer(q) \/ LockReceiver(q)
    BY <2>2
    DEF LockSprayer, LockReceiver, Lock, Goto, LocksAreInUse, InTx, TypeOK, TablesTypeOK
  <2>3. CASE Release(q)
    <3> SUFFICES ASSUME NEW w \in Wallets, rowLock'[w] \in Req
                 PROVE  /\ pc'[rowLock'[w]] \in InTx
                        /\ w \in {local'[rowLock'[w]].from, local'[rowLock'[w]].to}
      BY DEF LocksAreInUse
    <3>1. rowLock'[w] = rowLock[w] /\ rowLock[w] /= q
      BY <2>3, NoOneAssumption, ReqAssumption DEF Release
    <3>2. pc'[rowLock[w]] = pc[rowLock[w]] /\ local'[rowLock[w]] = local[rowLock[w]]
      BY <2>1, <3>1, OthersStand DEF TypeOK
    <3> QED BY <3>1, <3>2 DEF LocksAreInUse
  <2>4. CASE ~(LockSprayer(q) \/ LockReceiver(q) \/ Release(q))
    <3>1. rowLock' = rowLock /\ pc[q] \notin InTx
      BY <2>1, <2>4
      DEF InTx, Moves, Step, Start, CheckKey, Replay, ReadEvent, ReadSprayer, ReadReceiver,
          ReadDefaults, LockCheck, CallProvider, InsertAndCommit, Record, ReadTotals, Answer, TxAbort,
          Proceed, Remember, Throw
    <3> QED BY <2>1, <3>1, OthersStand DEF LocksAreInUse, TypeOK
  <2> QED BY <2>2, <2>3, <2>4
<1>2. CASE ~\E q \in Req : Moves(q)
  BY <1>2, NoOneAssumption, ReqAssumption
  DEF Next, Moves, LocksAreInUse, SetStatus, LeaveEvent, Crash, TypeOK, TablesTypeOK
<1> QED BY <1>1, <1>2

LEMMA SpraysGrow == ASSUME Next PROVE spray \subseteq spray'
BY OtherwiseUnchanged, CommitEffect

LEMMA EventsStep == ASSUME IInv, Next PROVE EventsFollowCommits'
<1> USE DEF IInv
<1>1. CASE \E q \in Req : Answer(q)
  <2>1. PICK q \in Req : Answer(q)
    BY <1>1
  <2> QED BY <2>1, SpraysGrow DEF Answer, AnswersAreRecorded, EventsFollowCommits
<1>2. CASE ~\E q \in Req : Answer(q)
  <2>1. emitted' = emitted
    BY <1>2
    DEF Next, Step, Start, CheckKey, Replay, ReadEvent, ReadSprayer, ReadReceiver, ReadDefaults,
        LockCheck, CallProvider, LockSprayer, LockReceiver, InsertAndCommit, Record, ReadTotals,
        TxAbort, Proceed, Remember, Throw, SetStatus, LeaveEvent, Crash
  <2> QED BY <2>1, SpraysGrow DEF EventsFollowCommits
<1> QED BY <1>1, <1>2

LEMMA AnswersStep == ASSUME IInv, Next PROVE AnswersAreRecorded'
<1> USE DEF IInv
<1> DEFINE Recorded(q) ==
      /\ pc[q] \in {"readTotals", "answer"} => \E s \in spray : s.id = q
      /\ pc[q] = "answer" =>
           q \in local[q].counted /\ local[q].counted \subseteq {s.id : s \in spray}
      /\ pc[q] \in {"replay", "done"} =>
           \E s \in spray : s.id = reply[q] /\ s.debit = ClientRef(body[q].key)
<1>1. CASE \E q \in Req : Moves(q)
  <2>1. PICK q \in Req : Moves(q)
    BY <1>1
  <2>2. ASSUME NEW p \in Req, p /= q PROVE Recorded(p)'
    <3>1. pc'[p] = pc[p] /\ local'[p] = local[p] /\ body' = body
      BY <2>1, <2>2, OthersStand DEF TypeOK
    <3>2. reply'[p] = reply[p]
      BY <2>1, <2>2
      DEF TypeOK, Moves, Step, Start, CheckKey, Replay, ReadEvent, ReadSprayer, ReadReceiver,
          ReadDefaults, LockCheck, CallProvider, LockSprayer, LockReceiver, InsertAndCommit, Record,
          ReadTotals, Answer, TxAbort, Proceed, Remember, Throw
    <3> QED BY <3>1, <3>2, SpraysGrow DEF AnswersAreRecorded
  <2>3. Recorded(q)'
    <3>1. CASE Commits(q)
      <4>1. pc'[q] = "readTotals" /\ SprayOf(q) \in spray'
        BY <3>1, CommitEffect DEF TypeOK
      <4>2. SprayOf(q).id = q
        BY DEF SprayOf
      <4> QED BY <4>1, <4>2
    <3>2. CASE CheckKey(q)
      <4>1. CASE Proceed(q, "readEvent")
        BY <4>1 DEF Proceed, Goto, TypeOK
      <4>2. CASE ~Proceed(q, "readEvent")
        <5>1. PICK s \in SpraysUnder(ClientRef(body[q].key)) :
                /\ reply' = [reply EXCEPT ![q] = s.id]
                /\ Goto(q, "replay")
                /\ UNCHANGED <<tables, body, local, eventVars, worldVars>>
          BY <3>2, <4>2 DEF CheckKey
        <5>2. s \in spray /\ s.debit = ClientRef(body[q].key)
          BY DEF SpraysUnder
        <5>3. reply'[q] = s.id /\ pc'[q] = "replay" /\ spray' = spray /\ body' = body
          BY <5>1 DEF Goto, TypeOK
        <5> QED BY <5>2, <5>3
      <4> QED BY <4>1, <4>2
    <3>3. CASE Replay(q)
      BY <3>3 DEF Replay, Proceed, Goto, TypeOK, AnswersAreRecorded
    <3>4. CASE ReadTotals(q)
      <4>1. local[q] \in Locals
        BY DEF TypeOK
      <4>2. /\ pc'[q] = "answer"
            /\ local'[q].counted = {s.id : s \in spray} \cap Req
            /\ spray' = spray
        BY <3>4, <4>1 DEF ReadTotals, Remember, Goto, Keep, TypeOK, Locals
      <4>3. \E s \in spray : s.id = q
        BY <3>4 DEF ReadTotals, AnswersAreRecorded
      <4> QED BY <4>2, <4>3
    <3>5. CASE Answer(q)
      <4>1. PICK s \in spray : s.id = q
        BY <3>5 DEF Answer, AnswersAreRecorded
      <4>2. s.debit = ClientRef(body[q].key)
        BY <4>1 DEF SpraysBelong
      <4>3. pc'[q] = "done" /\ reply'[q] = q /\ spray' = spray /\ body' = body
        BY <3>5 DEF Answer, Goto, TypeOK
      <4> QED BY <4>1, <4>2, <4>3
    <3>6. CASE ~(Commits(q) \/ CheckKey(q) \/ Replay(q) \/ ReadTotals(q) \/ Answer(q))
      <4>1. pc'[q] \notin {"readTotals", "answer", "replay", "done"}
        BY <2>1, <3>6
        DEF TypeOK, Moves, Step, Start, ReadEvent, ReadSprayer, ReadReceiver, ReadDefaults,
            LockCheck, CallProvider, LockSprayer, LockReceiver, InsertAndCommit, Record, Commits,
            TxAbort, Proceed, Remember, Throw, Goto
      <4> QED BY <4>1
    <3> QED BY <3>1, <3>2, <3>3, <3>4, <3>5, <3>6
  <2> HIDE DEF Recorded
  <2>4. \A p \in Req : Recorded(p)'
    BY <2>2, <2>3
  <2> QED BY <2>4 DEF AnswersAreRecorded, Recorded
<1>2. CASE ~\E q \in Req : Moves(q)
  BY <1>2, AroundStands DEF Next, Moves, AnswersAreRecorded
<1> QED BY <1>1, <1>2

(***************************************************************************)
(* The theorems.                                                           *)
(***************************************************************************)
LEMMA InitIInv == Init => IInv
<1> SUFFICES ASSUME Init PROVE IInv OBVIOUS
<1>1. TypeOK
  BY InitType
<1>2. SnapshotsAreSound /\ WalletsKnown /\ PaidBeforeRecording /\ AnswersAreRecorded
  BY FreshIsSound
  DEF Init, SnapshotsAreSound, WalletsKnown, PaidBeforeRecording, AnswersAreRecorded, Checked, InTx
<1>3. SpraysBelong /\ SpraysAreWhole /\ SpraysArePaid /\ OneSprayPerKey /\ EventsFollowCommits
  BY DEF Init, TablesInit, SpraysBelong, SpraysAreWhole, SpraysArePaid, OneSprayPerKey,
         EventsFollowCommits
<1>4. BalancesStaySound
  BY OpeningAssumption DEF Init, TablesInit, BalancesStaySound, Sound, Both
<1>5. LocksAreInUse
  BY NoOneAssumption, ReqAssumption DEF Init, TablesInit, LocksAreInUse
<1> QED BY <1>1, <1>2, <1>3, <1>4, <1>5 DEF IInv

LEMMA StutterIInv == ASSUME IInv, UNCHANGED vars PROVE IInv'
BY DEF IInv, TypeOK, TablesTypeOK, WalletsKnown, SnapshotsAreSound, PaidBeforeRecording,
       TransferOf, SpraysBelong, AnswersAreRecorded, SpraysAreWhole, SpraysArePaid,
       OneSprayPerKey, EventsFollowCommits, BalancesStaySound, LocksAreInUse

LEMMA InductiveStep == IInv /\ [Next]_vars => IInv'
<1> SUFFICES ASSUME IInv, [Next]_vars PROVE IInv'
  OBVIOUS
<1>1. CASE Next
  BY <1>1, TypeStep, WalletsStep, SnapshotsStep, PaidStep, BelongStep, AnswersStep, WholeStep,
     SpraysPaidStep, OneSprayStep, EventsStep, BalancesStep, LocksStep DEF IInv
<1>2. CASE UNCHANGED vars
  BY <1>2, StutterIInv
<1> QED BY <1>1, <1>2

\* The inductive invariant holds in every reachable state, for any number of
\* calls, keys, users and wallets.
THEOREM InductiveInvariant == Spec => []IInv
BY InitIInv, InductiveStep, PTL DEF Spec

\* The tables and the calls keep their types.
THEOREM TypeCorrect == Spec => []TypeOK
BY InductiveInvariant, PTL DEF IInv

\* No interleaving, timeout or crash leaves half a spray behind, and none is
\* recorded that the provider has not paid.
THEOREM WholeAndPaid == Spec => [](SpraysAreWhole /\ SpraysArePaid)
BY InductiveInvariant, PTL DEF IInv

\* A recorded spray is money the provider has moved for the same call, under the
\* same key and between the same wallets (sprays.service.ts:293).
THEOREM SpraysWerePaid == Spec => []SpraysArePaid
BY InductiveInvariant, PTL DEF IInv

\* One key never has two sprays.
THEOREM KeysAreUnique == Spec => []OneSprayPerKey
BY InductiveInvariant, PTL DEF IInv

\* Lost updates never take a balance below zero nor part the two balances.
THEOREM BalancesSound == Spec => []BalancesStaySound
BY InductiveInvariant, PTL DEF IInv

\* No row lock outlives the transaction that took it.
THEOREM NoLeakedLock == Spec => []LocksAreInUse
BY InductiveInvariant, PTL DEF IInv

\* Nothing is broadcast before it is committed.
THEOREM BroadcastAfterCommit == Spec => []EventsFollowCommits
BY InductiveInvariant, PTL DEF IInv

\* A balance is written only together with the spray that explains it.
THEOREM BalanceWrites == Spec => BalanceWritesAreBooked
<1>1. IInv /\ [Next]_vars =>
        [\A w \in Wallets : balance'[w] /= balance[w] =>
           \E s \in spray' \ spray : w \in {s.from, s.to}]_vars
  <2> SUFFICES ASSUME IInv, Next, NEW w \in Wallets, balance'[w] /= balance[w]
               PROVE  \E s \in spray' \ spray : w \in {s.from, s.to}
    OBVIOUS
  <2>1. PICK q \in Req : Commits(q)
    BY OtherwiseUnchanged
  <2>2. SprayOf(q) \in spray' \ spray
    BY <2>1, CommitEffect DEF IInv, SpraysBelong, SprayOf
  <2>3. w \in {SprayOf(q).from, SprayOf(q).to}
    BY <2>1, CommitEffect DEF SprayOf, NewBalances, IInv, TypeOK, TablesTypeOK
  <2> QED BY <2>2, <2>3
<1> QED BY <1>1, InductiveInvariant, PTL DEF Spec, BalanceWritesAreBooked

(***************************************************************************)
(* createSpray implements PostingBook: a commit posts, the last step of a  *)
(* successful call returns the posting of its key, everything else that    *)
(* ends a call fails it, and the remaining steps are invisible.            *)
(***************************************************************************)
postedBar == {RowOf(s) : s \in spray}
answerBar == [q \in Req |-> AnswerTo(q)]

LEMMA AnswersDiffer ==
  ASSUME NEW p
  PROVE  <<"pending">> /= <<"error">> /\ <<"pending">> /= <<"returned", p>>
OBVIOUS

\* How one step of a call looks in the book.
LEMMA AnswerMoves ==
  ASSUME TypeOK, NEW q \in Req, Moves(q), pc[q] \notin Ended
  PROVE  \/ pc'[q] \notin Ended
         \/ pc'[q] = "failed"
         \/ pc[q] \in {"replay", "answer"} /\ pc'[q] = "done"
BY DEF TypeOK, InTx, Ended, Moves, Step, Start, CheckKey, Replay, ReadEvent, ReadSprayer,
       ReadReceiver, ReadDefaults, LockCheck, CallProvider, LockSprayer, LockReceiver,
       InsertAndCommit, Record, ReadTotals, Answer, TxAbort, Proceed, Remember, Throw, Goto

LEMMA EndedStays ==
  ASSUME TypeOK, NEW q \in Req, Moves(q) PROVE pc[q] \notin Ended
BY DEF InTx, Ended, Moves, Step, Start, CheckKey, Replay, ReadEvent, ReadSprayer, ReadReceiver,
       ReadDefaults, LockCheck, CallProvider, LockSprayer, LockReceiver, InsertAndCommit, Record,
       ReadTotals, Answer, TxAbort

LEMMA ReplyMoves ==
  ASSUME TypeOK, NEW q \in Req, Moves(q)
  PROVE  /\ \A p \in Req : p /= q => reply'[p] = reply[p]
         /\ Answer(q) => reply'[q] = q
         /\ Replay(q) => reply'[q] = reply[q]
BY DEF TypeOK, Moves, Step, Start, CheckKey, Replay, ReadEvent, ReadSprayer, ReadReceiver,
       ReadDefaults, LockCheck, CallProvider, LockSprayer, LockReceiver, InsertAndCommit, Record,
       ReadTotals, Answer, TxAbort, Proceed, Remember, Throw

LEMMA CallInTheBook == ASSUME IInv, NEW q \in Req, Moves(q) PROVE [Book!Next]_(Book!book)
<1> USE DEF IInv
<1>1. /\ pc' = [pc EXCEPT ![q] = pc'[q]] /\ body' = body
      /\ \A p \in Req : p /= q => reply'[p] = reply[p] /\ pc'[p] = pc[p]
  BY OthersStand, ReplyMoves DEF TypeOK
<1>2. pc[q] \notin Ended /\ AnswerTo(q) = <<"pending">>
  BY EndedStays DEF AnswerTo, Ended
<1>3. \A p \in Req : p /= q => AnswerTo(p)' = AnswerTo(p)
  BY <1>1 DEF AnswerTo
<1>4. CASE Commits(q)
  <2>1. postedBar' = postedBar \cup {[key |-> ClientRef(body[q].key), by |-> q]}
    <3>1. RowOf(SprayOf(q)) = [key |-> ClientRef(body[q].key), by |-> q]
      BY DEF RowOf, SprayOf
    <3>2. spray' = spray \cup {SprayOf(q)}
      BY <1>4, CommitEffect
    <3>3. {RowOf(s) : s \in spray'} = {RowOf(s) : s \in spray} \cup {RowOf(SprayOf(q))}
      BY <3>2
    <3> QED BY <3>1, <3>3 DEF postedBar
  <2>2. \A p \in postedBar : p.key /= ClientRef(body[q].key)
    BY <1>4 DEF Commits, ReferenceTaken, SpraysAreWhole, SpraysBelong, postedBar, RowOf
  <2>3. answerBar' = answerBar
    <3>1. AnswerTo(q)' = AnswerTo(q)
      BY <1>2, <1>4, CommitEffect DEF AnswerTo, TypeOK
    <3> QED BY <1>3, <3>1 DEF answerBar
  <2>4. Book!Post(q)
    <3>1. ClientRef(body[q].key) \in References
      BY ReferencesAre DEF TypeOK, Bodies
    <3> QED
      BY <1>1, <1>2, <2>1, <2>2, <2>3, <3>1
      DEF Book!Post, Book!Unposted, Book!Pending, postedBar, answerBar
  <2> QED BY <2>4 DEF Book!Next
<1>5. CASE ~Commits(q)
  <2>1. spray' = spray
    <3>1. CASE InsertAndCommit(q)
      BY <1>5, <3>1 DEF InsertAndCommit, Record, Commits, Throw
    <3>2. CASE ~InsertAndCommit(q)
      BY <3>2
      DEF Moves, Step, Start, CheckKey, Replay, ReadEvent, ReadSprayer, ReadReceiver,
          ReadDefaults, LockCheck, CallProvider, LockSprayer, LockReceiver, ReadTotals, Answer,
          TxAbort, Proceed, Remember, Throw
    <3> QED BY <3>1, <3>2
  <2>2. CASE pc'[q] \notin Ended
    <3>1. answerBar' = answerBar
      BY <1>2, <1>3, <2>2 DEF AnswerTo, answerBar, Ended
    <3> QED BY <1>1, <2>1, <3>1 DEF Book!book, answerBar
  <2>3. CASE pc'[q] = "failed"
    <3>1. answerBar' = [p \in Req |-> IF p \in {q} THEN <<"error">> ELSE answerBar[p]]
      BY <1>3, <2>3 DEF AnswerTo, answerBar
    <3>2. Book!Fail({q})
      BY <1>1, <1>2, <2>1, <3>1 DEF Book!Fail, Book!Pending, Book!Error, answerBar
    <3> QED BY <3>2 DEF Book!Next
  <2>4. CASE pc[q] \in {"replay", "answer"} /\ pc'[q] = "done"
    <3>1. \E s \in spray : s.id = reply'[q] /\ s.debit = ClientRef(body[q].key)
      <4>1. CASE pc[q] = "replay"
        <5>1. Replay(q)
          BY <4>1
          DEF InTx, Moves, Step, Start, CheckKey, ReadEvent, ReadSprayer, ReadReceiver,
              ReadDefaults, LockCheck, CallProvider, LockSprayer, LockReceiver,
              InsertAndCommit, Record, ReadTotals, Answer, TxAbort
        <5> QED BY <4>1, <5>1, ReplyMoves DEF AnswersAreRecorded
      <4>2. CASE pc[q] = "answer"
        <5>1. Answer(q)
          BY <4>2
          DEF InTx, Moves, Step, Start, CheckKey, ReadEvent, ReadSprayer, ReadReceiver,
              ReadDefaults, LockCheck, CallProvider, LockSprayer, LockReceiver,
              InsertAndCommit, Record, ReadTotals, Replay, TxAbort
        <5> QED BY <4>2, <5>1, ReplyMoves DEF AnswersAreRecorded, SpraysBelong
      <4> QED BY <2>4, <4>1, <4>2
    <3>2. PICK s \in spray : s.id = reply'[q] /\ s.debit = ClientRef(body[q].key)
      BY <3>1
    <3>3. RowOf(s) \in postedBar /\ RowOf(s).key = ClientRef(body[q].key)
      BY <3>2 DEF postedBar, RowOf
    <3>4. AnswerTo(q)' = <<"returned", RowOf(s)>>
      BY <1>1, <2>4, <3>2 DEF AnswerTo, RowOf
    <3>5. answerBar' = [answerBar EXCEPT ![q] = <<"returned", RowOf(s)>>]
      BY <1>3, <3>4 DEF answerBar
    <3>6. Book!Return(q)
      BY <1>1, <1>2, <2>1, <3>3, <3>5
      DEF Book!Return, Book!Pending, Book!Returned, postedBar, answerBar
    <3> QED BY <3>6 DEF Book!Next
  <2> QED BY <1>2, <2>2, <2>3, <2>4, AnswerMoves
<1> QED BY <1>4, <1>5

LEMMA AroundInTheBook ==
  ASSUME IInv, Next, ~\E q \in Req : Moves(q) PROVE [Book!Next]_(Book!book)
<1> DEFINE S == {q \in Req : pc'[q] = "lost" /\ pc[q] \in Running}
<1> USE DEF IInv
<1>1. /\ spray' = spray /\ body' = body
      /\ \A q \in Req :
           \/ pc'[q] = pc[q] /\ reply'[q] = reply[q]
           \/ pc'[q] = "lost" /\ pc[q] \in Running
  BY AroundStands DEF Next, Moves
<1>2. \A q \in S : AnswerTo(q) = <<"pending">> /\ AnswerTo(q)' = <<"error">>
  BY DEF AnswerTo, Running, Reading, Waiting, InTx
<1>3. \A q \in Req \ S : AnswerTo(q)' = AnswerTo(q)
  BY <1>1 DEF AnswerTo
<1>4. Book!Fail(S)
  BY <1>1, <1>2, <1>3 DEF Book!Fail, Book!Pending, Book!Error
<1> QED BY <1>4 DEF Book!Next

THEOREM Implements == Spec => ImplementsPostingBook
<1>1. Init => Book!Init
  <2> SUFFICES ASSUME Init PROVE Book!Init
    OBVIOUS
  <2>1. \A q \in Req : ClientRef(body[q].key) \in References
    BY ReferencesAre DEF Init, Bodies
  <2> QED BY <2>1 DEF Init, TablesInit, Book!Init, Book!Pending, AnswerTo
<1>2. IInv /\ [Next]_vars => [Book!Next]_(Book!book)
  <2> SUFFICES ASSUME IInv, [Next]_vars PROVE [Book!Next]_(Book!book)
    OBVIOUS
  <2>1. CASE UNCHANGED vars
    BY <2>1 DEF Book!book, AnswerTo
  <2>2. CASE Next
    BY <2>2, CallInTheBook, AroundInTheBook
  <2> QED BY <2>1, <2>2
<1> QED BY <1>1, <1>2, InductiveInvariant, PTL DEF Spec, Book!Spec, ImplementsPostingBook

(***************************************************************************)
(* One call at a time.  The balances a call remembers are then still the   *)
(* balances in the table when it commits, so the spray moves its amount.   *)
(***************************************************************************)
Alone == \A p, q \in InFlight : p = q

Current ==
  \A q \in Req :
    /\ pc[q] \in {"callProvider"} \cup InTx => local[q].locked = balance[local[q].from]
    /\ pc[q] \in {"readDefaults", "lockCheck", "callProvider"} \cup InTx =>
         (local[q].to \in Wallets => local[q].seen = balance[local[q].to])

LEMMA EmptyFlight ==
  ASSUME MaxInFlight = 1, Cardinality(InFlight) < MaxInFlight PROVE InFlight = {}
<1>1. InFlight \subseteq Req
  BY DEF InFlight
<1>2. IsFiniteSet(InFlight)
  BY <1>1, ReqAssumption, FS_Subset
<1>3. Cardinality(InFlight) = 0
  BY <1>2, FS_CardinalityType
<1> QED BY <1>2, <1>3, FS_EmptySet

LEMMA MoverFlies ==
  ASSUME NEW q \in Req, Moves(q), ~Start(q) PROVE q \in InFlight
BY DEF InFlight, Running, Reading, Waiting, InTx, Moves, Step, CheckKey, Replay, ReadEvent,
       ReadSprayer, ReadReceiver, ReadDefaults, LockCheck, CallProvider, LockSprayer,
       LockReceiver, InsertAndCommit, Record, ReadTotals, Answer, TxAbort

LEMMA AloneStep == ASSUME IInv, Alone, MaxInFlight = 1, Next PROVE Alone'
<1> USE DEF IInv
<1>1. CASE \E q \in Req : Moves(q)
  <2>1. PICK q \in Req : Moves(q)
    BY <1>1
  <2>2. \A p \in Req : p /= q => (p \in InFlight' <=> p \in InFlight)
    BY <2>1, OthersStand DEF InFlight, TypeOK
  <2>3. InFlight \subseteq {q}
    <3>1. CASE Start(q)
      BY <3>1, EmptyFlight DEF Start
    <3>2. CASE ~Start(q)
      BY <2>1, <3>2, MoverFlies DEF Alone
    <3> QED BY <3>1, <3>2
  <2>4. InFlight' \subseteq {q}
    BY <2>2, <2>3 DEF InFlight
  <2> QED BY <2>4 DEF Alone
<1>2. CASE ~\E q \in Req : Moves(q)
  <2>1. InFlight' \subseteq InFlight
    BY <1>2, AroundStands DEF Next, Moves, InFlight, Running, Reading, Waiting, InTx
  <2> QED BY <2>1 DEF Alone
<1> QED BY <1>1, <1>2

LEMMA WithReceiverSeen ==
  ASSUME NEW l \in Locals, NEW w \in Wallets \cup {NoWallet}
  PROVE  /\ WithReceiver(l, w).to = w
         /\ w \in Wallets => WithReceiver(l, w).seen = balance[w]
BY UserAssumption DEF WithReceiver, Locals

LEMMA CurrentStep ==
  ASSUME IInv, Alone, Current, MaxInFlight = 1, Next PROVE Current'
<1> USE DEF IInv
<1> DEFINE Late == {"readDefaults", "lockCheck", "callProvider"} \cup InTx
<1>1. CASE \E q \in Req : Moves(q)
  <2>1. PICK q \in Req : Moves(q)
    BY <1>1
  <2> local[q] \in Locals
    BY DEF TypeOK
  <2>2. ASSUME NEW p \in Req, p /= q PROVE pc'[p] \notin Late
    <3>1. Alone' /\ pc'[p] = pc[p]
      BY <2>1, <2>2, AloneStep, OthersStand DEF TypeOK
    <3>2. CASE Start(q)
      BY <3>1, <3>2, EmptyFlight DEF Start, InFlight, Running, Reading, Waiting, InTx
    <3>3. CASE ~Start(q)
      BY <2>1, <2>2, <3>1, <3>3, MoverFlies DEF Alone, InFlight, Running, Reading, Waiting, InTx
    <3> QED BY <3>2, <3>3
  <2>3. pc'[q] \in Late => balance' = balance
    <3>1. CASE Commits(q)
      BY <3>1, CommitEffect DEF TypeOK, InTx
    <3>2. CASE ~Commits(q)
      <4>1. ASSUME Throw(q) PROVE balance' = balance
        BY <4>1 DEF Throw
      <4> QED
        BY <2>1, <3>2, <4>1
        DEF Commits, Moves, Step, Start, CheckKey, Replay, ReadEvent, ReadSprayer, ReadReceiver,
            ReadDefaults, LockCheck, CallProvider, LockSprayer, LockReceiver, InsertAndCommit, Record,
            ReadTotals, Answer, TxAbort, Proceed, Remember
    <3> QED BY <3>1, <3>2
  <2>4. pc'[q] \in {"callProvider"} \cup InTx => local'[q].locked = balance[local'[q].from]
    <3>1. CASE LockCheck(q) /\ ~Throw(q)
      <4> DEFINE l == [local[q] EXCEPT !.locked = balance[local[q].from]]
      <4>1. Remember(q, l, "callProvider")
        BY <3>1 DEF LockCheck
      <4>2. l.locked = balance[local[q].from] /\ l.from = local[q].from
        BY DEF Locals
      <4>3. local'[q] = l
        BY <4>1 DEF Remember, Keep, TypeOK
      <4> QED BY <4>2, <4>3
    <3>2. CASE ~(LockCheck(q) /\ ~Throw(q))
      <4>1. \/ pc'[q] \notin {"callProvider"} \cup InTx
            \/ pc[q] \in {"callProvider"} \cup InTx /\ local' = local
        BY <2>1, <3>2
        DEF TypeOK, InTx, Moves, Step, Start, CheckKey, Replay, ReadEvent, ReadSprayer,
            ReadReceiver, ReadDefaults, LockCheck, CallProvider, LockSprayer, LockReceiver,
            InsertAndCommit, Record, ReadTotals, Answer, TxAbort, Proceed, Remember, Throw, Goto
      <4> QED BY <4>1 DEF Current
    <3> QED BY <3>1, <3>2
  <2>5. pc'[q] \in Late /\ local'[q].to \in Wallets => local'[q].seen = balance[local'[q].to]
    <3> SUFFICES ASSUME pc'[q] \in Late, local'[q].to \in Wallets
                 PROVE  local'[q].seen = balance[local'[q].to]
      OBVIOUS
    <3>1. ~Throw(q)
      BY DEF Throw, Goto, TypeOK, InTx
    <3>2. CASE ReadReceiver(q)
      <4>1. SeatWallet(body[q].receiver) \in Wallets \cup {NoWallet}
        BY SeatWalletType DEF TypeOK, Bodies
      <4>2. local'[q] = WithReceiver(local[q], SeatWallet(body[q].receiver))
        BY <3>1, <3>2 DEF ReadReceiver, Remember, Keep, TypeOK
      <4> QED BY <4>1, <4>2, WithReceiverSeen
    <3>3. CASE ReadDefaults(q)
      <4> DEFINE l == IF local[q].to = NoWallet
                      THEN WithReceiver(local[q], DefaultWallet[body[q].receiver])
                      ELSE local[q]
      <4>1. DefaultWallet[body[q].receiver] \in Wallets \cup {NoWallet}
        BY UserAssumption DEF TypeOK, Bodies
      <4>2. l \in Locals
        BY <4>1, WithReceiverType
      <4>3. WithDefaults(q).seen = l.seen /\ WithDefaults(q).to = l.to
        BY <4>2 DEF WithDefaults, Locals
      <4>4. local'[q] = WithDefaults(q)
        BY <3>1, <3>3 DEF ReadDefaults, Remember, Keep, TypeOK
      <4>5. l.to \in Wallets => l.seen = balance[l.to]
        BY <3>3, <4>1, WithReceiverSeen DEF ReadDefaults, Current
      <4> QED BY <4>3, <4>4, <4>5
    <3>4. CASE LockCheck(q)
      <4> DEFINE l == [local[q] EXCEPT !.locked = balance[local[q].from]]
      <4>1. local'[q] = l
        BY <3>1, <3>4 DEF LockCheck, Remember, Keep, TypeOK
      <4>2. l.to = local[q].to /\ l.seen = local[q].seen
        BY DEF Locals
      <4> QED BY <3>4, <4>1, <4>2 DEF LockCheck, Current
    <3>5. CASE ~(ReadReceiver(q) \/ ReadDefaults(q) \/ LockCheck(q))
      <4>1. pc[q] \in Late /\ local' = local
        BY <2>1, <3>1, <3>5
        DEF TypeOK, InTx, Moves, Step, Start, CheckKey, Replay, ReadEvent, ReadSprayer,
            CallProvider, LockSprayer, LockReceiver, InsertAndCommit, Record, ReadTotals, Answer,
            TxAbort, Proceed, Remember, Goto
      <4> QED BY <4>1 DEF Current
    <3> QED BY <3>2, <3>3, <3>4, <3>5
  <2> QED BY <2>2, <2>3, <2>4, <2>5 DEF Current, InTx
<1>2. CASE ~\E q \in Req : Moves(q)
  BY <1>2, AroundStands DEF Next, Moves, Current, InTx
<1> QED BY <1>1, <1>2

\* Served one at a time, every spray between two wallets takes its amount from
\* the one and adds it to the other.
THEOREM SerialSpraysMoveTheirAmount ==
  ASSUME MaxInFlight = 1 PROVE Spec => SpraysMoveTheirAmount
<1> DEFINE Serial == IInv /\ Alone /\ Current
<1>1. Init => Serial
  <2>1. Init => Alone /\ Current
    BY DEF Init, Alone, Current, InFlight, Running, Reading, Waiting, InTx
  <2> QED BY <2>1, InitIInv
<1>2. Serial /\ [Next]_vars => Serial'
  <2>1. ASSUME Serial, Next PROVE Alone' /\ Current'
    BY <2>1, AloneStep, CurrentStep
  <2>2. ASSUME Serial, UNCHANGED vars PROVE Alone' /\ Current'
    BY <2>2 DEF Alone, Current, InFlight
  <2>3. IInv /\ [Next]_vars => IInv'
    BY InductiveStep
  <2> QED BY <2>1, <2>2, <2>3
<1>3. Serial /\ [Next]_vars =>
        [\A s \in spray' \ spray : s.from /= s.to =>
           balance' = [balance EXCEPT ![s.from] = Minus(@, s.amount),
                                      ![s.to] = Plus(@, s.amount)]]_vars
  <2> SUFFICES ASSUME Serial, Next, NEW s \in spray' \ spray, s.from /= s.to
               PROVE  balance' = [balance EXCEPT ![s.from] = Minus(@, s.amount),
                                                 ![s.to] = Plus(@, s.amount)]
    OBVIOUS
  <2>1. PICK q \in Req : Commits(q)
    BY OtherwiseUnchanged
  <2>2. s = SprayOf(q) /\ balance' = NewBalances(q) /\ pc[q] = "insert"
    BY <2>1, CommitEffect
  <2>3. /\ s.from = local[q].from /\ s.to = local[q].to /\ s.amount = body[q].amount
        /\ s.from \in Wallets /\ s.to \in Wallets
    BY <2>2 DEF SprayOf, IInv, WalletsKnown, InTx
  <2>4. local[q].locked = balance[s.from] /\ local[q].seen = balance[s.to]
    BY <2>2, <2>3 DEF Current, InTx
  <2> QED BY <2>2, <2>3, <2>4 DEF NewBalances, IInv, TypeOK, TablesTypeOK
<1> HIDE DEF Serial
<1> QED BY <1>1, <1>2, <1>3, PTL DEF Spec, SpraysMoveTheirAmount
=============================================================================
