------------------------------ MODULE Spending ------------------------------
(***************************************************************************)
(* Sprays and transfers together: the two services write the same wallets, *)
(* Transactions and Sprays, draw on the same keys and are served by the    *)
(* same process.  A transfer commits each statement on its own and waits   *)
(* for the row locks of a spray; neither knows of the other.  The event    *)
(* stays as it is: Sprays shows what becomes of sprays when it changes.    *)
(***************************************************************************)
EXTENDS Transfers

CONSTANTS
  Req, Users, Host, NoWallet, Absent, Seats, DefaultWallet, Currency, Provisioned,
  Amounts, MinSprayAmount,
  MaxServed      \* bound: calls of both kinds

VARIABLES
  body, pc, local, reply, status, seat, emitted, crashes,  \* as in Sprays
  mixed          \* history: have two calls been in flight together?

S == INSTANCE Sprays WITH transfers <- moved, MaxCrashes <- MaxFaults

ASSUME SpendingAssumption ==
  /\ Req \subseteq Actor /\ Req \cap Calls = {} /\ IsFiniteSet(Req)
  /\ NoWallet \notin Wallets
  /\ DefaultWallet \in [Users -> Wallets \cup {NoWallet}]
  /\ Amounts \subseteq Int /\ MaxServed \in Nat

spending == <<body, pc, local, reply, status, seat, emitted, crashes>>
vars == <<tables, moved, transferVars, spending, mixed>>

TypeOK ==
  /\ TablesTypeOK /\ TransfersTypeOK
  /\ body \in [Req -> S!Bodies]
  /\ pc \in [Req -> S!Places]
  /\ local \in [Req -> S!Locals]
  /\ reply \in [Req -> Actor \cup {NoOne}]
  /\ mixed \in BOOLEAN

Init == S!Init /\ TransfersInit /\ mixed = FALSE

SprayStep == (\E q \in Req : S!Start(q) \/ S!Step(q) \/ S!TxAbort(q)) /\ UNCHANGED transferVars

\* The process dies with the calls of both kinds.
Die == S!Crash /\ Lose(InFlight)

Served == Cardinality({c \in Calls : at[c] /= "idle"}) + Cardinality({q \in Req : pc[q] /= "idle"})
Together == Cardinality(InFlight) + Cardinality(S!InFlight)

Next ==
  /\ SprayStep \/ (TransfersNext /\ UNCHANGED spending) \/ Die
  /\ Served' <= MaxServed /\ Together' <= MaxInFlight
  /\ mixed' = (mixed \/ Together' > 1)

Spec == Init /\ [][Next]_vars

(***************************************************************************)
(* Properties                                                              *)
(***************************************************************************)
\* Whatever is recorded was moved by the provider, by the same call and between
\* the same wallets, whichever service recorded it.
RecordsWereMoved ==
  \A r \in transaction : \E m \in moved :
    m.by = r.group /\ m.amount = r.amount /\ r.wallet = IF r.direction = "DEBIT" THEN m.from ELSE m.to

\* A key that a spray and a transfer share stands for one Spray, and a spray
\* that was answered has the one of its key.  So a key whose transfer died
\* between its Transaction and its Spray gets an error for ever: the retry does
\* not find a Spray to replay, pays again and cannot record it
\* (sprays.service.ts:54-70, walletmodule.service.ts:343-385).
KeysStandForOneSpray ==
  /\ \A s, t \in spray : s.debit = t.debit => s = t
  /\ \A q \in Req : pc[q] = "done" =>
       \E s \in spray : s.debit = ClientRef(body[q].key) /\ s.id = reply[q]

\* createSpray and walletToWalletTransfer behave together as one idempotent
\* endpoint (PostingBook): whoever is answered is answered with the one posting
\* of the key, whichever service made it (sprays.service.ts:54-70,
\* walletmodule.service.ts:343-425).
AskedBy(c) ==
  IF c \in Req THEN ClientRef(body[c].key)
  ELSE IF at[c] = "idle" THEN NoRequest ELSE ReferenceOf(c)

AnswerTo(c) ==
  IF c \in Req THEN S!AnswerTo(c)
  ELSE IF at[c] \in {"failed", "lost"} THEN <<"error">>
  ELSE IF at[c] = "done" THEN <<"returned", [key |-> ReferenceOf(c), by |-> c]>>
  ELSE <<"pending">>

Book == INSTANCE PostingBook WITH
  Caller <- Req \cup Transfer,
  Ref    <- References,
  NoRef  <- NoRequest,
  asked  <- [c \in Req \cup Transfer |-> AskedBy(c)],
  posted <- {S!RowOf(s) : s \in spray},
  answer <- [c \in Req \cup Transfer |-> AnswerTo(c)]

ImplementsPostingBook == Book!Spec

Finished(c) == IF c \in Req THEN pc[c] = "done" ELSE at[c] = "done"

MovesOfFinished(w, side) ==
  SumOfAmounts({m \in moved : Finished(m.by) /\ (IF side = "from" THEN m.from ELSE m.to) = w})

\* While calls have come one at a time and none has died, a balance is what the
\* finished sprays, transfers and payouts left, except for a wallet that sent to
\* itself.
FinishedMovesAreInTheBalance ==
  (~mixed /\ Together = 0 /\ faults = 0) =>
    \A w \in Wallets :
      (\A m \in moved : ~(m.from = w /\ m.to = w)) =>
        balance[w].available = Opening - MovesOfFinished(w, "from") + MovesOfFinished(w, "to")
=============================================================================
