---------------------------- MODULE PaymentsProofs ----------------------------
(***************************************************************************)
(* Theorems about payouts, deposits and the provider's notices for every   *)
(* number of them, however they are repeated, delayed and reordered.  A    *)
(* notice is acted upon long after it was sent: the invariant says what it *)
(* told is still so, that the rows name the call that wrote them, and      *)
(* which row of the two a call has written already.                        *)
(***************************************************************************)
EXTENDS Payments, LedgerProofs

USE DEF tables, callVars, rowVars, vars

(***************************************************************************)
(* The invariant.                                                          *)
(***************************************************************************)
PlacesOf(a) ==
  {"idle"} \cup Ends \cup
    IF a \in Transfer THEN {"callProvider", "insertTransaction", "insertPayout"}
    ELSE IF a \in Inflow THEN {"readWallet", "insertInflow", "insertFunding", "creditWallet", "storeEvent"}
    ELSE IF a \in Hook THEN {"sent", "readPayout", "writePayout", "writeTransaction", "creditWallet", "storeEvent"}
    ELSE {"readPayout", "askProvider", "writeTransaction", "writePayout"}

OneAtATime == ~overlapped => \A a, b \in InFlight : a = b

\* The reference a call writes its Transaction under; no two calls have written one.
OwnReference(a) == IF a \in Transfer THEN ReferenceOf(a) ELSE DrawnRef("inflow", a)

Recorded(a) == \E r \in transaction : r.group = a

RowFits(r) ==
  /\ r.group \in Transfer \cup Inflow /\ r.reference = OwnReference(r.group)
  /\ at[r.group] \notin {"idle", "callProvider", "insertTransaction", "readWallet", "insertInflow"}
  /\ r.group \in Transfer /\ payout[r.group] = "none" => r.status = "PENDING"

ReferencesDiffer == \A r, s \in transaction : r.reference = s.reference => r.group = s.group

\* What a status says has happened at the provider.
Holds(status, o) ==
  /\ status = "SUCCESS" => o \in {"success", "reversed"}
  /\ status \in {"FAILED", "REJECTED"} => o \in {"failed", "rejected"}
  /\ status = "REVERSED" => o = "reversed"

TransferFits(t) ==
  /\ outcome[t] /= "none" => at[t] \notin {"idle", "callProvider"}
  /\ at[t] \in {"insertPayout", "done"} => Recorded(t)
  /\ payout[t] /= "none" => at[t] = "done"
  /\ Holds(payout[t], outcome[t])
  /\ \A r \in transaction : r.group = t => Holds(r.status, outcome[t])

Credited(d) == \E c \in credits : c.by = d

InflowFits(d) ==
  /\ at[d] \in {"insertInflow", "insertFunding", "creditWallet"} => Into(d) \in Wallets
  /\ at[d] \in {"insertFunding", "creditWallet", "storeEvent", "done"} => Recorded(d)
  /\ at[d] \in {"creditWallet", "storeEvent", "done"} => \E f \in funding : f.by = d

FundingFits(f) ==
  /\ at[f.by] \in {"creditWallet", "storeEvent", "done", "lost"}
  /\ f.reference = request[f.by] /\ f.transaction = DrawnRef("inflow", f.by)
  /\ at[f.by] \in {"creditWallet", "lost"} \/ Credited(f.by)

FundingsDiffer == \A f, g \in funding : f.reference = g.reference => f = g

\* A failed delivery that has left a row behind: its deposit is somebody else's.
LeftBehind(d) ==
  at[d] = "failed" /\ Recorded(d) => \E f \in funding : f.by /= d /\ f.reference = request[d]

\* What a call was told was so, and still is, but that a success may be reversed.
ToldTruly(a) ==
  /\ told[a] = "success" => outcome[request[a]] \in {"success", "reversed"}
  /\ told[a] \in {"failed", "rejected", "reversed"} => outcome[request[a]] = told[a]

AskingFits(a) ==
  /\ at[a] = "idle" => told[a] = "none"
  /\ ToldTruly(a)
  /\ at[a] \in {"writePayout", "writeTransaction", "askProvider", "creditWallet", "storeEvent"} => payout[request[a]] /= "none"
  /\ at[a] = "creditWallet" => told[a] \in {"failed", "rejected"}

CreditFits(c) ==
  /\ c.for = request[c.by] /\ at[c.by] \in {"storeEvent", "done", "lost"}
  /\ c.by \in Inflow => /\ c.wallet = Into(c.by) /\ c.amount = AmountOf(c.by)
                        /\ \E f \in funding : f.by = c.by
  /\ c.by \in Hook => /\ told[c.by] \in {"failed", "rejected"} /\ payout[c.for] /= "none"
                      /\ c.wallet = request[c.for].wallet /\ c.amount = request[c.for].amount

\* A call that has written one of the two rows of a payout and not the other.
HalfWritten(a) ==
  \/ at[a] = "lost"
  \/ at[a] = IF a \in Hook THEN "writeTransaction" ELSE "writePayout"

RowsAgree(t) ==
  payout[t] /= "none" /\ (\A a \in Asking : request[a] = t => ~HalfWritten(a)) =>
    \A r \in transaction : r.group = t => r.status = TransactionStatusOf(payout[t])

AskingInTurn(a) ==
  /\ a \in Hook /\ at[a] = "writeTransaction" => payout[request[a]] = HookStatus(told[a])
  /\ a \in Requery /\ at[a] = "writePayout" =>
       \A r \in transaction : r.group = request[a] => r.status = RequeryStatus(told[a])

PaymentsInv ==
  /\ TypeOK /\ OneAtATime /\ ReferencesDiffer /\ FundingsDiffer
  /\ \A a \in Calls : at[a] \in PlacesOf(a)
  /\ \A r \in transaction : RowFits(r)
  /\ \A t \in Transfer : TransferFits(t)
  /\ \A d \in Inflow : InflowFits(d) /\ LeftBehind(d)
  /\ \A f \in funding : FundingFits(f)
  /\ \A a \in Asking : AskingFits(a)
  /\ \A c \in credits : CreditFits(c)
  /\ ~overlapped => /\ \A t \in Transfer : RowsAgree(t)
                    /\ \A a \in Asking : AskingInTurn(a)

(***************************************************************************)
(* The calls, and what the invariant says of their kinds.                  *)
(***************************************************************************)
LEMMA CallsAre ==
  /\ Calls = Transfer \cup Inflow \cup Hook \cup Requery /\ Asking = Hook \cup Requery /\ Crediting = Inflow \cup Hook
  /\ Transfer \cap Inflow = {} /\ Transfer \cap Hook = {} /\ Transfer \cap Requery = {}
  /\ Inflow \cap Hook = {} /\ Inflow \cap Requery = {} /\ Hook \cap Requery = {}
  /\ Calls \subseteq Actor
BY CallAssumption DEF Calls, Asking, Crediting

LEMMA PlacesAre ==
  /\ "idle" \notin Places \cup Ends /\ Places \cap Ends = {}
  /\ \A a : PlacesOf(a) \subseteq {"idle"} \cup Places \cup Ends
BY DEF Places, Ends, PlacesOf

LEMMA TypesAre ==
  ASSUME TypeOK
  PROVE  /\ \A f \in funding : f.by \in Inflow /\ f.by \in Calls
         /\ \A c \in credits : c.by \in Crediting /\ c.by \in Calls
         /\ \A a \in Asking : a \in Calls /\ (at[a] /= "idle" => request[a] \in Transfer)
         /\ \A d \in Inflow : d \in Calls /\ (at[d] /= "idle" => request[d] \in Deposits)
         /\ \A t \in Transfer :
              t \in Calls /\ (at[t] /= "idle" => request[t] \in [wallet : Wallets, amount : Sums, key : Keys \cup {NoKey}])
<1> USE CallsAre
<1>1. \A f \in funding : f.by \in Inflow /\ f.by \in Calls
  BY DEF TypeOK, FundingRow
<1>2. \A c \in credits : c.by \in Crediting /\ c.by \in Calls
  BY DEF TypeOK, Credit
<1>3. \A a \in Calls : at[a] /= "idle" => request[a] \in Requests(a)
  BY DEF TypeOK
<1> QED BY <1>1, <1>2, <1>3 DEF Requests

\* A call that goes on leaves the others where they are.
CallTypes ==
  /\ DOMAIN request = Calls
  /\ \A a \in Calls : request[a] \in IF at[a] = "idle" THEN {NoRequest} ELSE Requests(a)
  /\ at \in [Calls -> {"idle"} \cup Places \cup Ends]

LEMMA Goes ==
  ASSUME TypeOK, OneAtATime, NEW a \in Calls, at[a] \in Places \ {"sent"},
         NEW place \in PlacesOf(a) \ {"idle"}, Goto(a, place), request' = request, overlapped' = overlapped
  PROVE  /\ at'[a] = place /\ \A b \in Calls : b /= a => at'[b] = at[b]
         /\ CallTypes' /\ OneAtATime'
<1>1. at \in [Calls -> {"idle"} \cup Places \cup Ends]
  BY DEF TypeOK
<1>2. at'[a] = place /\ \A b \in Calls : b /= a => at'[b] = at[b]
  BY <1>1 DEF Goto
<1>3. at' \in [Calls -> {"idle"} \cup Places \cup Ends]
  <2>1. place \in {"idle"} \cup Places \cup Ends
    BY PlacesAre
  <2> QED BY <1>1, <2>1 DEF Goto
<1>4. \A b \in Calls : at'[b] = "idle" <=> at[b] = "idle"
  BY <1>2, PlacesAre
<1>5. CallTypes'
  BY <1>3, <1>4 DEF TypeOK, CallTypes, Requests
<1>6. OneAtATime'
  BY <1>2 DEF OneAtATime, InFlight
<1> QED BY <1>2, <1>5, <1>6

(***************************************************************************)
(* What a step of one call may do to the others, whatever else it does.    *)
(***************************************************************************)
Early == {"idle", "callProvider", "insertTransaction", "readWallet", "insertInflow"}

\* The call does not go back over what the rows say it has done.
Keeps(b) ==
  /\ at[b] /= "idle" => request'[b] = request[b]
  /\ at[b] \in Ends => at'[b] = at[b]
  /\ at[b] = "storeEvent" => at'[b] \in {"storeEvent", "done", "lost"}
  /\ at[b] = "creditWallet" => at'[b] \in {"creditWallet", "lost"} \/ (at'[b] = "storeEvent" /\ Credited(b)')
  /\ at[b] \notin Early => at'[b] \notin Early
  /\ b \in Asking /\ at[b] \in {"storeEvent"} \cup Ends => told'[b] = told[b]

Same(b) ==
  at'[b] = at[b] /\ request'[b] = request[b] /\ (b \in Asking => told'[b] = told[b])

OutcomeMoves(t) ==
  \/ outcome'[t] = outcome[t]
  \/ outcome[t] = "none" /\ at'[t] \notin {"idle", "callProvider"}
  \/ outcome[t] = "processing"
  \/ outcome[t] = "success" /\ outcome'[t] = "reversed"

LEMMA SameKeeps == ASSUME NEW b, Same(b) PROVE Keeps(b)
BY DEF Same, Keeps

\* The rows that were there, and the calls that did not move.
LEMMA Kept ==
  ASSUME PaymentsInv, deposit' = deposit, \A b \in Calls : Keeps(b), \A t \in Transfer : OutcomeMoves(t),
         \A t \in Transfer : payout[t] /= "none" => payout'[t] /= "none",
         funding \subseteq funding', credits \subseteq credits',
         \A b \in Calls : (Recorded(b) => Recorded(b)') /\ (at'[b] = "failed" /\ Recorded(b)' => Recorded(b))
  PROVE  /\ \A f \in funding : FundingFits(f)'
         /\ \A c \in credits : CreditFits(c)'
         /\ \A d \in Inflow : Same(d) => InflowFits(d)' /\ LeftBehind(d)'
         /\ \A a \in Asking : Same(a) => AskingFits(a)'
<1> USE CallsAre
<1>1. TypeOK
  BY DEF PaymentsInv
<1>2. \A b \in Calls : Credited(b) => Credited(b)'
  BY DEF Credited
<1>3. ASSUME NEW f \in funding PROVE FundingFits(f)'
  <2>1. FundingFits(f) /\ f.by \in Calls /\ Keeps(f.by)
    BY <1>1, TypesAre DEF PaymentsInv
  <2>2. PICK d \in Calls : d = f.by
    BY <2>1
  <2>3. request'[d] = request[d] /\ at'[d] \in {"creditWallet", "storeEvent", "done", "lost"}
        /\ (at'[d] \in {"creditWallet", "lost"} \/ Credited(d)')
    BY <1>2, <2>1, <2>2 DEF FundingFits, Keeps, Ends
  <2> QED BY <2>1, <2>2, <2>3 DEF FundingFits, Credited
<1>4. ASSUME NEW c \in credits PROVE CreditFits(c)'
  <2>1. CreditFits(c) /\ c.by \in Calls /\ c.by \in Crediting
    BY <1>1, TypesAre DEF PaymentsInv
  <2>2. PICK d \in Calls : d = c.by
    BY <2>1
  <2>3. Keeps(d) /\ at[d] \in {"storeEvent", "done", "lost"}
    BY <2>1, <2>2 DEF CreditFits
  <2>4. request'[d] = request[d] /\ at'[d] \in {"storeEvent", "done", "lost"} /\ (d \in Asking => told'[d] = told[d])
    BY <2>3 DEF Keeps, Ends
  <2>5. d \in Hook => c.for \in Transfer /\ payout'[c.for] /= "none" /\ request'[c.for] = request[c.for]
    <3>1. SUFFICES ASSUME d \in Hook PROVE c.for \in Transfer /\ payout'[c.for] /= "none" /\ request'[c.for] = request[c.for]
      OBVIOUS
    <3>2. c.for \in Transfer /\ payout[c.for] /= "none"
      BY <1>1, <2>1, <2>2, <2>3, <3>1, TypesAre DEF CreditFits
    <3>3. at[c.for] = "done" /\ c.for \in Calls
      BY <3>2 DEF PaymentsInv, TransferFits
    <3> QED BY <3>2, <3>3 DEF Keeps
  <2> QED BY <2>1, <2>2, <2>4, <2>5 DEF CreditFits, Into, AmountOf
<1>5. ASSUME NEW d \in Inflow, Same(d) PROVE InflowFits(d)' /\ LeftBehind(d)'
  <2>1. InflowFits(d) /\ LeftBehind(d) /\ d \in Calls
    BY DEF PaymentsInv
  <2> QED BY <1>5, <2>1 DEF InflowFits, LeftBehind, Same, Into
<1>6. ASSUME NEW a \in Asking, Same(a) PROVE AskingFits(a)'
  <2>1. AskingFits(a) /\ a \in Calls /\ at'[a] = at[a] /\ request'[a] = request[a] /\ told'[a] = told[a]
    BY <1>6 DEF PaymentsInv, Same
  <2>2. CASE at[a] = "idle"
    BY <2>1, <2>2 DEF AskingFits, ToldTruly
  <2>3. CASE at[a] /= "idle"
    <3>1. PICK t \in Transfer : t = request[a]
      BY <1>1, <2>3, TypesAre
    <3> QED BY <2>1, <3>1 DEF AskingFits, ToldTruly, OutcomeMoves
  <2> QED BY <2>2, <2>3
<1> QED BY <1>3, <1>4, <1>5, <1>6
(***************************************************************************)
(* A step that writes neither of the two rows of a payout.                 *)
(***************************************************************************)
Fits(b) ==
  /\ at[b] \in PlacesOf(b)
  /\ b \in Transfer => TransferFits(b)
  /\ b \in Inflow => InflowFits(b) /\ LeftBehind(b)
  /\ b \in Asking => AskingFits(b) /\ AskingInTurn(b)

LEMMA Quietly ==
  ASSUME PaymentsInv, TypeOK', OneAtATime', UNCHANGED <<deposit, transaction, payout>>, overlapped => overlapped',
         \A b \in Calls : Keeps(b), \A t \in Transfer : OutcomeMoves(t),
         funding \subseteq funding', \A f \in funding' \ funding : FundingFits(f)', FundingsDiffer',
         credits \subseteq credits', \A c \in credits' \ credits : CreditFits(c)',
         \A b \in Calls : Same(b) \/ Fits(b)', \A a \in Asking : HalfWritten(a) => HalfWritten(a)'
  PROVE  PaymentsInv'
<1> USE CallsAre
<1>1. TypeOK
  BY DEF PaymentsInv
<1>2. \A b \in Calls : Recorded(b)' <=> Recorded(b)
  BY DEF Recorded
<1>3. /\ \A f \in funding : FundingFits(f)'
      /\ \A c \in credits : CreditFits(c)'
      /\ \A d \in Inflow : Same(d) => InflowFits(d)' /\ LeftBehind(d)'
      /\ \A a \in Asking : Same(a) => AskingFits(a)'
  BY <1>2, Kept
<1>4. ASSUME NEW b \in Calls PROVE at'[b] \in PlacesOf(b)
  BY DEF PaymentsInv, Same, Fits, PlacesOf
<1>5. ASSUME NEW r \in transaction PROVE RowFits(r)'
  <2>1. RowFits(r) /\ r.group \in Calls
    BY DEF PaymentsInv, RowFits
  <2>2. PICK g \in Calls : g = r.group
    BY <2>1
  <2>3. Keeps(g) /\ at[g] \notin Early
    BY <2>1, <2>2 DEF RowFits, Early
  <2>4. at'[g] \notin Early /\ request'[g] = request[g]
    BY <2>3 DEF Keeps, Early
  <2> QED BY <2>1, <2>2, <2>4 DEF RowFits, Early, OwnReference, ReferenceOf
<1>6. ASSUME NEW t \in Transfer PROVE TransferFits(t)'
  <2>1. CASE Fits(t)'
    BY <2>1 DEF Fits
  <2>2. CASE Same(t)
    <3>1. TransferFits(t) /\ OutcomeMoves(t) /\ at'[t] = at[t] /\ (Recorded(t)' <=> Recorded(t))
      BY <1>2, <2>2 DEF PaymentsInv, Same
    <3>2. ASSUME NEW s, Holds(s, outcome[t]) PROVE Holds(s, outcome'[t])
      BY <3>1, <3>2 DEF Holds, OutcomeMoves, TransferFits
    <3>3. Holds(payout[t], outcome'[t]) /\ \A r \in transaction : r.group = t => Holds(r.status, outcome'[t])
      BY <3>1, <3>2 DEF TransferFits
    <3>4. outcome'[t] /= "none" => at'[t] \notin {"idle", "callProvider"}
      BY <3>1 DEF TransferFits, OutcomeMoves
    <3> QED BY <3>1, <3>3, <3>4 DEF TransferFits, Holds
  <2> QED BY <2>1, <2>2
<1>7. \A d \in Inflow : InflowFits(d)' /\ LeftBehind(d)'
  BY <1>3 DEF Fits
<1>8. \A a \in Asking : AskingFits(a)'
  BY <1>3 DEF Fits
<1>9. ASSUME ~overlapped', NEW t \in Transfer PROVE RowsAgree(t)'
  <2>1. RowsAgree(t)
    BY <1>9 DEF PaymentsInv
  <2>2. ASSUME NEW a \in Asking, request[a] = t, HalfWritten(a) PROVE request'[a] = t /\ HalfWritten(a)'
    <3>1. at[a] /= "idle" /\ Keeps(a)
      BY <2>2 DEF HalfWritten
    <3> QED BY <2>2, <3>1 DEF Keeps
  <2> QED BY <2>1, <2>2 DEF RowsAgree
<1>10. ASSUME ~overlapped', NEW a \in Asking PROVE AskingInTurn(a)'
  <2>1. CASE Fits(a)'
    BY <2>1 DEF Fits
  <2>2. CASE Same(a)
    BY <1>10, <2>2 DEF PaymentsInv, Same, AskingInTurn
  <2> QED BY <2>1, <2>2
<1>11. \A f \in funding' : FundingFits(f)'
  BY <1>3
<1>12. \A c \in credits' : CreditFits(c)'
  BY <1>3
<1>13. ReferencesDiffer'
  BY DEF PaymentsInv, ReferencesDiffer
<1>14. \A r \in transaction' : RowFits(r)'
  BY <1>5
<1> QED BY <1>4, <1>14, <1>6, <1>7, <1>8, <1>9, <1>10, <1>11, <1>12, <1>13 DEF PaymentsInv

(***************************************************************************)
(* The same for a step of one call: Goto, and nothing else of another.     *)
(***************************************************************************)
LEMMA QuietStep ==
  ASSUME PaymentsInv, NEW a \in Calls, at[a] \in Places \ {"sent"}, NEW place \in PlacesOf(a) \ {"idle"}, Goto(a, place),
         UNCHANGED <<Given, transaction, payout, overlapped>>, TypeOK',
         \A b \in Asking : b /= a => told'[b] = told[b], a \in Asking /\ at[a] = "storeEvent" => told'[a] = told[a],
         at[a] = "storeEvent" => place \in {"done", "lost"},
         at[a] = "creditWallet" => place = "lost" \/ (place = "storeEvent" /\ Credited(a)'),
         at[a] \notin Early => place \notin Early,
         a \in Asking => ~HalfWritten(a),
         \A t \in Transfer : OutcomeMoves(t),
         funding \subseteq funding', \A f \in funding' \ funding : FundingFits(f)', FundingsDiffer',
         credits \subseteq credits', \A c \in credits' \ credits : CreditFits(c)',
         Fits(a)'
  PROVE  PaymentsInv'
<1> USE CallsAre
<1>1. TypeOK /\ OneAtATime /\ at[a] /= "idle" /\ at[a] \notin Ends
  BY PlacesAre DEF PaymentsInv
<1>2. at'[a] = place /\ (\A b \in Calls : b /= a => at'[b] = at[b]) /\ OneAtATime' /\ request' = request /\ deposit' = deposit
  BY <1>1, Goes DEF Given
<1>3. \A b \in Calls : b /= a => Same(b)
  BY <1>2 DEF Same
<1>4. Keeps(a)
  BY <1>1, <1>2 DEF Keeps
<1>5. \A b \in Calls : Keeps(b)
  BY <1>3, <1>4, SameKeeps
<1>6. \A b \in Calls : Same(b) \/ Fits(b)'
  BY <1>3
<1>7. \A b \in Asking : HalfWritten(b) => HalfWritten(b)'
  BY <1>2 DEF HalfWritten
<1> QED BY <1>2, <1>5, <1>6, <1>7, Quietly
LEMMA NoRows ==
  ASSUME PaymentsInv, NEW a \in Calls, at[a] \in Early
  PROVE  ~Recorded(a)
BY DEF PaymentsInv, RowFits, Recorded, Early

(***************************************************************************)
(* interBankTransfer, up to its first row.                                 *)
(***************************************************************************)
LEMMA CallsProvider ==
  ASSUME PaymentsInv, NEW t \in Transfer, CallProvider(t)
  PROVE  PaymentsInv'
<1> USE CallsAre
<1>1. PICK place \in {"insertTransaction", "failed"} :
        /\ Goto(t, place) /\ UNCHANGED <<tables, Given, told, snap, rowVars, credits, overlapped, faults>>
        /\ (outcome' = [outcome EXCEPT ![t] = "processing"] \/ (place = "failed" /\ outcome' = outcome))
  BY DEF CallProvider
<1>2. at[t] = "callProvider" /\ at[t] \in Places \ {"sent"} /\ at[t] \in Early /\ place \in PlacesOf(t) \ {"idle"}
  BY DEF CallProvider, Places, Early, PlacesOf, Ends
<1>3. TypeOK /\ OneAtATime /\ FundingsDiffer /\ TransferFits(t) /\ outcome \in [Transfer -> Outcomes]
  BY DEF PaymentsInv, TypeOK
<1>4. at'[t] = place /\ CallTypes'
  BY <1>1, <1>2, <1>3, Goes DEF Given
<1>5. TypeOK'
  <2>1. outcome' \in [Transfer -> Outcomes]
    BY <1>1, <1>3 DEF Outcomes
  <2> QED BY <1>1, <1>3, <1>4, <2>1 DEF TypeOK, TablesTypeOK, CallTypes, Given
<1>6. outcome[t] = "none" /\ payout[t] = "none" /\ ~Recorded(t) /\ ~Recorded(t)' /\ ~(\E r \in transaction : r.group = t)
  BY <1>1, <1>2, <1>3, NoRows DEF TransferFits, Recorded
<1>7. \A s \in Transfer : OutcomeMoves(s)
  <2>1. \A s \in Transfer : s /= t => outcome'[s] = outcome[s]
    BY <1>1, <1>3
  <2>2. OutcomeMoves(t)
    BY <1>4, <1>6 DEF OutcomeMoves
  <2> QED BY <2>1, <2>2 DEF OutcomeMoves
<1>8. Fits(t)'
  <2>1. TransferFits(t)'
    BY <1>1, <1>4, <1>6 DEF TransferFits, Holds
  <2> QED BY <1>2, <1>4, <2>1 DEF Fits, PlacesOf
<1>9. FundingsDiffer'
  BY <1>1, <1>3 DEF FundingsDiffer
<1> QED BY <1>1, <1>2, <1>5, <1>7, <1>8, <1>9, QuietStep DEF Early

LEMMA FindsReferenceTaken ==
  ASSUME PaymentsInv, NEW t \in Transfer, at[t] = "insertTransaction", Leaves(t, "failed"),
         UNCHANGED <<transaction, told, snap, rowVars, credits>>
  PROVE  PaymentsInv'
<1> USE CallsAre
<1>1. Goto(t, "failed") /\ UNCHANGED <<tables, Given, told, snap, rowVars, outcome, credits, overlapped, faults>>
  BY DEF Leaves
<1>2. at[t] \in Places \ {"sent"} /\ at[t] \in Early /\ "failed" \in PlacesOf(t) \ {"idle"}
  BY DEF Places, Early, PlacesOf, Ends
<1>3. TypeOK /\ OneAtATime /\ FundingsDiffer /\ TransferFits(t)
  BY DEF PaymentsInv
<1>4. at'[t] = "failed" /\ CallTypes'
  BY <1>1, <1>2, <1>3, Goes DEF Given
<1>5. TypeOK'
  BY <1>1, <1>3, <1>4 DEF TypeOK, TablesTypeOK, CallTypes, Given
<1>6. payout[t] = "none" /\ ~Recorded(t) /\ ~(\E r \in transaction : r.group = t)
  BY <1>2, <1>3, NoRows DEF TransferFits, Recorded
<1>7. Fits(t)'
  <2>1. TransferFits(t)'
    BY <1>1, <1>4, <1>6 DEF TransferFits, Holds
  <2> QED BY <1>2, <1>4, <2>1 DEF Fits, PlacesOf
<1>8. FundingsDiffer' /\ \A s \in Transfer : OutcomeMoves(s)
  BY <1>1, <1>3 DEF FundingsDiffer, OutcomeMoves
<1> QED BY <1>1, <1>2, <1>5, <1>7, <1>8, QuietStep DEF Early

(***************************************************************************)
(* handleInflowWebhook.                                                    *)
(***************************************************************************)
LEMMA DepositsAre ==
  ASSUME TypeOK, NEW d \in Inflow, at[d] /= "idle"
  PROVE  /\ request[d] \in Deposits /\ AmountOf(d) \in Sums /\ AmountOf(d) \in Int
         /\ Into(d) \in Wallets \cup {Stranger}
<1>1. request[d] \in Deposits /\ deposit \in [Deposits -> [wallet : Wallets \cup {Stranger}, amount : Sums]]
  BY TypesAre DEF TypeOK
<1>2. AmountOf(d) \in Sums /\ Into(d) \in Wallets \cup {Stranger}
  BY <1>1 DEF AmountOf, Into
<1>3. \A n \in Sums : n \in Int
  BY ValueAssumption
<1> QED BY <1>1, <1>2, <1>3

LEMMA ReadsWallet ==
  ASSUME PaymentsInv, NEW d \in Inflow, ReadWallet(d)
  PROVE  PaymentsInv'
<1> USE CallsAre
<1>1. TypeOK /\ OneAtATime /\ FundingsDiffer /\ InflowFits(d) /\ at[d] = "readWallet"
  BY DEF PaymentsInv, ReadWallet
<1>2. /\ snap \in [Crediting -> Balance] /\ balance \in [Wallets -> Balance]
      /\ at[d] \in Places \ {"sent"} /\ at[d] \in Early /\ at[d] /= "idle"
  BY <1>1 DEF TypeOK, TablesTypeOK, Places, Early
<1>3. PICK place \in {"insertInflow", "failed"} :
        /\ Moves(d, place) /\ told' = told /\ snap' \in [Crediting -> Balance]
        /\ place = "insertInflow" => Into(d) \in Wallets
  <2>1. CASE Into(d) = Stranger /\ Moves(d, "failed") /\ UNCHANGED snap
    BY <1>2, <2>1 DEF ReadWallet
  <2>2. CASE Into(d) \in Wallets /\ snap' = [snap EXCEPT ![d] = balance[Into(d)]] /\ Moves(d, "insertInflow")
    <3>1. balance[Into(d)] \in Balance /\ snap' \in [Crediting -> Balance]
      BY <1>2, <2>2
    <3> QED BY <2>2, <3>1 DEF ReadWallet
  <2> QED BY <2>1, <2>2 DEF ReadWallet
<1>4. Goto(d, place) /\ UNCHANGED <<tables, Given, told, rowVars, outcome, credits, overlapped, faults>>
  BY <1>3 DEF Moves, Leaves
<1>5. place \in PlacesOf(d) \ {"idle"}
  BY DEF PlacesOf, Ends
<1>6. at'[d] = place /\ CallTypes'
  BY <1>1, <1>2, <1>4, <1>5, Goes DEF Given
<1>7. TypeOK'
  BY <1>1, <1>3, <1>4, <1>6 DEF TypeOK, TablesTypeOK, CallTypes, Given
<1>8. ~Recorded(d)'
  BY <1>2, <1>4, NoRows DEF Recorded
<1>9. Fits(d)'
  <2>1. InflowFits(d)' /\ LeftBehind(d)'
    BY <1>3, <1>4, <1>6, <1>8 DEF InflowFits, LeftBehind, Into, Given
  <2> QED BY <1>5, <1>6, <2>1 DEF Fits, PlacesOf
<1>10. FundingsDiffer' /\ \A s \in Transfer : OutcomeMoves(s)
  BY <1>1, <1>4 DEF FundingsDiffer, OutcomeMoves
<1> QED BY <1>1, <1>2, <1>4, <1>5, <1>7, <1>9, <1>10, QuietStep

LEMMA InsertsFunding ==
  ASSUME PaymentsInv, NEW d \in Inflow, InsertFunding(d)
  PROVE  PaymentsInv'
<1> USE CallsAre
<1>1. TypeOK /\ OneAtATime /\ FundingsDiffer /\ InflowFits(d) /\ at[d] = "insertFunding"
  BY DEF PaymentsInv, InsertFunding
<1>2. /\ snap \in [Crediting -> Balance] /\ Both(0) \in Balance /\ Recorded(d) /\ Into(d) \in Wallets
      /\ at[d] \in Places \ {"sent"} /\ at[d] \notin Early /\ at[d] /= "idle"
  BY <1>1 DEF TypeOK, Places, Early, Both, Balance, InflowFits
<1>3. \A f \in funding : f.by /= d
  BY <1>1 DEF PaymentsInv, FundingFits
<1>4. UNCHANGED <<transaction, told, payout, webhookEvent, credits>>
  BY DEF InsertFunding
<1>5. Recorded(d)' /\ \A s \in Transfer : OutcomeMoves(s)
  BY <1>2, <1>4 DEF Recorded, OutcomeMoves, InsertFunding, Leaves, AddFunding
<1>6. CASE Funded(request[d]) /\ Leaves(d, "failed") /\ Forget(d) /\ UNCHANGED funding
  <2>1. Goto(d, "failed") /\ UNCHANGED <<tables, Given, told, rowVars, outcome, credits, overlapped, faults>>
    BY <1>4, <1>6 DEF Leaves
  <2>2. "failed" \in PlacesOf(d) \ {"idle"} /\ snap' \in [Crediting -> Balance]
    BY <1>2, <1>6 DEF PlacesOf, Ends, Forget
  <2>3. at'[d] = "failed" /\ CallTypes'
    BY <1>1, <1>2, <2>1, <2>2, Goes DEF Given
  <2>4. TypeOK'
    BY <1>1, <2>1, <2>2, <2>3 DEF TypeOK, TablesTypeOK, CallTypes, Given
  <2>5. InflowFits(d)' /\ LeftBehind(d)'
    BY <1>3, <1>6, <2>1, <2>3 DEF InflowFits, LeftBehind, Funded, Given
  <2>6. Fits(d)'
    BY <2>2, <2>3, <2>5 DEF Fits, PlacesOf
  <2>7. FundingsDiffer'
    BY <1>1, <1>6 DEF FundingsDiffer
  <2> QED BY <1>1, <1>2, <1>5, <2>1, <2>2, <2>4, <2>6, <2>7, QuietStep DEF Early
<1>7. CASE ~Funded(request[d]) /\ AddFunding(d)
  <2> DEFINE row == [reference |-> request[d], wallet |-> Into(d), amount |-> AmountOf(d),
                     transaction |-> DrawnRef("inflow", d), by |-> d]
  <2>1. Goto(d, "creditWallet") /\ UNCHANGED <<tables, Given, told, snap, payout, webhookEvent, outcome, credits, overlapped, faults>>
        /\ funding' = funding \cup {row}
    BY <1>4, <1>7 DEF Leaves, AddFunding
  <2>2. "creditWallet" \in PlacesOf(d) \ {"idle"} /\ "creditWallet" \notin Early
    BY DEF PlacesOf, Ends, Early
  <2>3. at'[d] = "creditWallet" /\ CallTypes'
    BY <1>1, <1>2, <2>1, <2>2, Goes DEF Given
  <2>4. TypeOK'
    <3>1. DrawnRef("inflow", d) \in References
      BY DEF References, Calls
    <3>2. row \in FundingRow
      BY <1>1, <1>2, <3>1, DepositsAre DEF FundingRow
    <3> QED BY <1>1, <2>1, <2>3, <3>2 DEF TypeOK, TablesTypeOK, CallTypes, Given
  <2>5. InflowFits(d)' /\ LeftBehind(d)'
    <3>1. Into(d)' = Into(d) /\ \E f \in funding' : f.by = d
      <4>1. Into(d)' = Into(d)
        BY <2>1 DEF Into, Given
      <4>2. row \in funding' /\ row.by = d
        BY <2>1
      <4> HIDE DEF row
      <4> QED BY <4>1, <4>2
    <3>2. InflowFits(d)'
      BY <1>2, <1>5, <3>1 DEF InflowFits
    <3>3. LeftBehind(d)'
      BY <2>3 DEF LeftBehind
    <3> QED BY <3>2, <3>3
  <2>6. Fits(d)'
    BY <2>2, <2>3, <2>5 DEF Fits, PlacesOf
  <2>7. FundingsDiffer'
    BY <1>1, <1>7, <2>1 DEF FundingsDiffer, Funded
  <2>8. ASSUME NEW f \in funding' \ funding PROVE FundingFits(f)'
    <3>1. f.by = d /\ f.reference = request[d] /\ f.transaction = DrawnRef("inflow", d) /\ request' = request
      BY <2>1 DEF Given
    <3> QED BY <2>3, <3>1 DEF FundingFits
  <2>9. funding \subseteq funding'
    BY <2>1
  <2> HIDE DEF row
  <2> QED BY <1>1, <1>2, <1>5, <2>1, <2>2, <2>4, <2>6, <2>7, <2>8, <2>9, QuietStep
<1> QED BY <1>6, <1>7 DEF InsertFunding
\* The balance and the credit of a webhook; what is left is that the call has its reasons.
LEMMA Writes ==
  ASSUME PaymentsInv, NEW a \in Crediting, at[a] = "creditWallet", NEW w \in Wallets, NEW n \in Sums,
         NEW cause, cause = request[a], cause \in Deposits \cup Transfer, Write(a, cause, w, n),
         a \in Inflow => w = Into(a) /\ n = AmountOf(a),
         a \in Hook => /\ told[a] \in {"failed", "rejected"} /\ cause \in Transfer
                       /\ w = request[cause].wallet /\ n = request[cause].amount
  PROVE  PaymentsInv'
<1> USE CallsAre
<1> DEFINE credit == [by |-> a, for |-> cause, wallet |-> w, amount |-> n]
<1>1. TypeOK /\ OneAtATime /\ FundingsDiffer /\ a \in Calls /\ at[a] \in Places \ {"sent"} /\ at[a] \notin Early
  BY DEF PaymentsInv, Places, Early
<1>2. /\ balance' = [balance EXCEPT ![w] = Plus(snap[a], n)] /\ credits' = credits \cup {credit} /\ Goto(a, "storeEvent")
      /\ UNCHANGED <<Given, rowLock, transaction, spray, told, snap, rowVars, outcome, overlapped, faults>>
  BY DEF Write
<1>3. "storeEvent" \in PlacesOf(a) \ {"idle"} /\ "storeEvent" \notin Early
  BY DEF PlacesOf, Early
<1>4. at'[a] = "storeEvent" /\ CallTypes'
  BY <1>1, <1>2, <1>3, Goes DEF Given
<1>5. TypeOK'
  <2>1. \A m \in Sums : m \in Int
    BY ValueAssumption
  <2>2. n \in Int /\ snap[a] \in Balance /\ balance \in [Wallets -> Balance]
    BY <1>1, <2>1 DEF TypeOK, TablesTypeOK
  <2>3. Plus(snap[a], n) \in Balance
    BY <2>2 DEF Plus, Balance
  <2>4. balance' \in [Wallets -> Balance]
    BY <1>2, <2>2, <2>3
  <2>5. credit \in Credit
    BY DEF Credit
  <2>6. credits' \subseteq Credit
    BY <1>1, <1>2, <2>5 DEF TypeOK
  <2> QED BY <1>1, <1>2, <1>4, <2>4, <2>6 DEF TypeOK, TablesTypeOK, CallTypes, Given
<1>6. /\ \A s \in Transfer : OutcomeMoves(s)
      /\ Recorded(a)' <=> Recorded(a)
      /\ FundingsDiffer'
  BY <1>1, <1>2 DEF OutcomeMoves, Recorded, FundingsDiffer
<1>7. Credited(a)'
  <2>1. credit \in credits' /\ credit.by = a
    BY <1>2
  <2> HIDE DEF credit
  <2> QED BY <2>1 DEF Credited
<1>8. a \in Hook => AskingFits(a) /\ payout[cause] /= "none"
  BY DEF PaymentsInv, AskingFits
<1>9. Fits(a)'
  <2>1. CASE a \in Inflow
    <3>1. InflowFits(a) /\ Recorded(a)'
      BY <1>6, <2>1 DEF PaymentsInv, InflowFits
    <3>2. InflowFits(a)' /\ LeftBehind(a)'
      BY <1>2, <1>4, <3>1 DEF InflowFits, LeftBehind
    <3> QED BY <1>3, <1>4, <2>1, <3>2 DEF Fits, PlacesOf
  <2>2. CASE a \in Hook
    <3>1. AskingFits(a)' /\ AskingInTurn(a)'
      BY <1>2, <1>4, <1>8, <2>2 DEF AskingFits, ToldTruly, AskingInTurn, Given
    <3> QED BY <1>3, <1>4, <2>2, <3>1 DEF Fits, PlacesOf
  <2> QED BY <2>1, <2>2
<1>10. ASSUME NEW c \in credits' \ credits PROVE CreditFits(c)'
  <2>1. c.by = a /\ c.for = cause /\ c.wallet = w /\ c.amount = n /\ UNCHANGED <<request, deposit, told, payout, funding>>
    BY <1>2 DEF Given
  <2>2. a \in Inflow => (\E f \in funding : f.by = a) /\ Into(a)' = Into(a) /\ AmountOf(a)' = AmountOf(a)
    BY <2>1 DEF PaymentsInv, InflowFits, Into, AmountOf
  <2> QED BY <1>4, <1>8, <2>1, <2>2 DEF CreditFits
<1>11. /\ funding' = funding /\ credits \subseteq credits' /\ UNCHANGED <<Given, transaction, payout, overlapped, told>>
       /\ (a \in Asking => ~HalfWritten(a))
  BY <1>2 DEF HalfWritten
<1> HIDE DEF credit
<1> QED BY <1>1, <1>2, <1>3, <1>5, <1>6, <1>7, <1>9, <1>10, <1>11, QuietStep

LEMMA CreditsWallet ==
  ASSUME PaymentsInv, NEW d \in Inflow, CreditWallet(d)
  PROVE  PaymentsInv'
<1> USE CallsAre
<1>1. TypeOK /\ at[d] = "creditWallet" /\ Write(d, request[d], Into(d), AmountOf(d)) /\ InflowFits(d)
  BY DEF PaymentsInv, CreditWallet
<1>2. request[d] \in Deposits /\ AmountOf(d) \in Sums /\ Into(d) \in Wallets /\ d \notin Hook
  BY <1>1, DepositsAre DEF InflowFits
<1> QED BY <1>1, <1>2, Writes

LEMMA PayoutsAre ==
  ASSUME PaymentsInv, NEW a \in Asking, at[a] /= "idle", payout[request[a]] /= "none"
  PROVE  /\ request[a] \in Transfer /\ at[request[a]] = "done"
         /\ request[request[a]] \in [wallet : Wallets, amount : Sums, key : Keys \cup {NoKey}]
<1>1. request[a] \in Transfer
  BY TypesAre DEF PaymentsInv
<1>2. at[request[a]] = "done"
  BY <1>1 DEF PaymentsInv, TransferFits
<1> QED BY <1>1, <1>2, TypesAre DEF PaymentsInv

LEMMA Refunds ==
  ASSUME PaymentsInv, NEW h \in Hook, Refund(h)
  PROVE  PaymentsInv'
<1> USE CallsAre
<1>1. at[h] = "creditWallet" /\ Write(h, request[h], request[request[h]].wallet, request[request[h]].amount) /\ AskingFits(h)
  BY DEF PaymentsInv, Refund
<1>2. told[h] \in {"failed", "rejected"} /\ payout[request[h]] /= "none"
  BY <1>1 DEF AskingFits
<1>3. request[h] \in Transfer /\ request[request[h]] \in [wallet : Wallets, amount : Sums, key : Keys \cup {NoKey}]
  BY <1>1, <1>2, PayoutsAre
<1>4. request[request[h]].wallet \in Wallets /\ request[request[h]].amount \in Sums
  BY <1>3
<1> QED BY <1>1, <1>2, <1>3, <1>4, Writes

LEMMA StoresEvent ==
  ASSUME PaymentsInv, NEW a \in Crediting, StoreEvent(a)
  PROVE  PaymentsInv'
<1> USE CallsAre
<1>1. TypeOK /\ OneAtATime /\ FundingsDiffer /\ at[a] = "storeEvent" /\ a \in Calls
  BY DEF PaymentsInv, StoreEvent
<1>2. /\ webhookEvent' = webhookEvent \cup {a} /\ Goto(a, "done") /\ snap' = [snap EXCEPT ![a] = Both(0)]
      /\ UNCHANGED <<tables, Given, told, payout, funding, outcome, credits, overlapped, faults>>
  BY DEF StoreEvent, Leaves, Forget
<1>3. at[a] \in Places \ {"sent"} /\ "done" \in PlacesOf(a) \ {"idle"} /\ "done" \notin Early /\ at[a] \notin Early
  BY <1>1 DEF Places, PlacesOf, Ends, Early
<1>4. at'[a] = "done" /\ CallTypes'
  BY <1>1, <1>2, <1>3, Goes DEF Given
<1>5. TypeOK'
  <2>1. snap' \in [Crediting -> Balance]
    <3>1. snap \in [Crediting -> Balance] /\ Both(0) \in Balance
      BY <1>1 DEF TypeOK, Both, Balance
    <3> QED BY <1>2, <3>1
  <2>2. webhookEvent' \subseteq Crediting
    BY <1>1, <1>2 DEF TypeOK
  <2> QED BY <1>1, <1>2, <1>4, <2>1, <2>2 DEF TypeOK, TablesTypeOK, CallTypes, Given
<1>6. /\ \A s \in Transfer : OutcomeMoves(s)
      /\ Recorded(a)' <=> Recorded(a)
      /\ FundingsDiffer'
  BY <1>1, <1>2 DEF OutcomeMoves, Recorded, FundingsDiffer
<1>7. Fits(a)'
  <2>1. CASE a \in Inflow
    <3>1. InflowFits(a) /\ Recorded(a)'
      BY <1>1, <1>6, <2>1 DEF PaymentsInv, InflowFits
    <3>2. InflowFits(a)' /\ LeftBehind(a)'
      BY <1>1, <1>2, <1>4, <3>1 DEF InflowFits, LeftBehind
    <3> QED BY <1>3, <1>4, <2>1, <3>2 DEF Fits, PlacesOf
  <2>2. CASE a \in Hook
    <3>1. AskingFits(a)
      BY <2>2 DEF PaymentsInv
    <3>2. AskingFits(a)' /\ AskingInTurn(a)'
      BY <1>2, <1>4, <3>1, <2>2 DEF AskingFits, ToldTruly, AskingInTurn, Given
    <3> QED BY <1>3, <1>4, <2>2, <3>2 DEF Fits, PlacesOf
  <2> QED BY <2>1, <2>2
<1>8. a \in Asking => ~HalfWritten(a)
  BY <1>1 DEF HalfWritten
<1> QED BY <1>1, <1>2, <1>3, <1>5, <1>6, <1>7, <1>8, QuietStep
(***************************************************************************)
(* The readings of handlePayoutWebhook and transactionStatusRequery.       *)
(***************************************************************************)
LEMMA ReadsPayout ==
  ASSUME PaymentsInv, NEW a \in Asking, ReadPayout(a)
  PROVE  PaymentsInv'
<1> USE CallsAre
<1>1. TypeOK /\ OneAtATime /\ FundingsDiffer /\ AskingFits(a) /\ at[a] = "readPayout" /\ a \in Calls
  BY DEF PaymentsInv, ReadPayout
<1>2. at[a] \in Places \ {"sent"} /\ at[a] \notin Early /\ at[a] /= "idle"
  BY <1>1 DEF Places, Early
<1>3. PICK place \in {"failed", "done", "writePayout", "askProvider"} :
        /\ Moves(a, place) /\ told' = told
        /\ place \in PlacesOf(a) /\ (place = "writePayout" => a \in Hook)
        /\ place \in {"writePayout", "askProvider"} => payout[request[a]] /= "none"
        /\ \/ snap' = snap
           \/ a \in Hook /\ payout[request[a]] /= "none" /\ snap' = [snap EXCEPT ![a] = balance[request[request[a]].wallet]]
  <2>1. CASE payout[request[a]] = "none" /\ Moves(a, IF a \in Hook THEN "failed" ELSE "done") /\ UNCHANGED snap
    <3>1. \A p \in {"failed", "done"} : p \in PlacesOf(a)
      BY DEF PlacesOf, Ends
    <3> QED BY <2>1, <3>1 DEF ReadPayout
  <2>2. CASE /\ payout[request[a]] /= "none" /\ Moves(a, IF a \in Hook THEN "writePayout" ELSE "askProvider")
             /\ snap' = IF a \in Hook THEN [snap EXCEPT ![a] = balance[request[request[a]].wallet]] ELSE snap
    <3>1. (IF a \in Hook THEN "writePayout" ELSE "askProvider") \in PlacesOf(a)
      BY DEF PlacesOf
    <3> QED BY <2>2, <3>1 DEF ReadPayout
  <2> QED BY <2>1, <2>2 DEF ReadPayout
<1>4. Goto(a, place) /\ UNCHANGED <<tables, Given, told, rowVars, outcome, credits, overlapped, faults>>
  BY <1>3 DEF Moves, Leaves
<1>5. place \in PlacesOf(a) \ {"idle"} /\ place \notin Early
  BY <1>3 DEF Early
<1>6. at'[a] = place /\ CallTypes'
  BY <1>1, <1>2, <1>4, <1>5, Goes DEF Given
<1>7. TypeOK'
  <2>1. snap' \in [Crediting -> Balance]
    <3>1. snap \in [Crediting -> Balance] /\ balance \in [Wallets -> Balance]
      BY <1>1 DEF TypeOK, TablesTypeOK
    <3>2. CASE snap' = snap
      BY <3>1, <3>2
    <3>3. CASE payout[request[a]] /= "none" /\ snap' = [snap EXCEPT ![a] = balance[request[request[a]].wallet]]
      <4>1. request[request[a]].wallet \in Wallets
        BY <1>2, <3>3, PayoutsAre
      <4>2. balance[request[request[a]].wallet] \in Balance
        BY <3>1, <4>1
      <4> QED BY <3>1, <3>3, <4>2
    <3> QED BY <1>3, <3>2, <3>3
  <2> QED BY <1>1, <1>4, <1>6, <2>1 DEF TypeOK, TablesTypeOK, CallTypes, Given
<1>8. Fits(a)'
  <2>1. ToldTruly(a)'
    BY <1>1, <1>4 DEF AskingFits, ToldTruly, Given
  <2>2. payout' = payout /\ request' = request /\ (place \in {"writePayout", "askProvider"} => payout[request[a]] /= "none")
    BY <1>3, <1>4 DEF Given
  <2>3. AskingFits(a)'
    BY <1>6, <2>1, <2>2 DEF AskingFits
  <2>4. AskingInTurn(a)'
    BY <1>3, <1>6 DEF AskingInTurn, PlacesOf, Ends
  <2> QED BY <1>5, <1>6, <2>3, <2>4 DEF Fits, PlacesOf
<1>9. /\ \A s \in Transfer : OutcomeMoves(s)
      /\ FundingsDiffer' /\ ~HalfWritten(a)
  BY <1>1, <1>4 DEF OutcomeMoves, FundingsDiffer, HalfWritten
<1> QED BY <1>1, <1>2, <1>4, <1>5, <1>7, <1>8, <1>9, QuietStep

LEMMA AsksProvider ==
  ASSUME PaymentsInv, NEW r \in Requery, AskProvider(r)
  PROVE  PaymentsInv'
<1> USE CallsAre
<1>1. TypeOK /\ OneAtATime /\ FundingsDiffer /\ AskingFits(r) /\ at[r] = "askProvider" /\ r \in Calls /\ r \in Asking
  BY DEF PaymentsInv, AskProvider
<1>2. at[r] \in Places \ {"sent"} /\ at[r] \notin Early /\ at[r] /= "idle" /\ told \in [Asking -> Answers]
  BY <1>1 DEF Places, Early, TypeOK
<1>3. request[r] \in Transfer /\ payout[request[r]] /= "none"
  BY <1>1, <1>2, TypesAre DEF AskingFits
<1>4. PICK place \in {"writeTransaction", "failed"} :
        /\ Moves(r, place) /\ snap' = snap
        /\ \/ told' = told
           \/ \E o \in {outcome[request[r]], "unknown"} : told' = [told EXCEPT ![r] = o]
  BY DEF AskProvider
<1>5. Goto(r, place) /\ UNCHANGED <<tables, Given, snap, rowVars, outcome, credits, overlapped, faults>>
  BY <1>4 DEF Moves, Leaves
<1>6. place \in PlacesOf(r) \ {"idle"} /\ place \notin Early /\ r \notin Hook
  BY DEF Early, PlacesOf, Ends
<1>7. at'[r] = place /\ CallTypes'
  BY <1>1, <1>2, <1>5, <1>6, Goes DEF Given
<1>8. /\ told' \in [Asking -> Answers]
      /\ \A b \in Asking : b /= r => told'[b] = told[b]
      /\ told'[r] \in {told[r], outcome[request[r]], "unknown"}
  <2>1. outcome[request[r]] \in Answers /\ "unknown" \in Answers
    BY <1>1, <1>3 DEF TypeOK, Answers
  <2> QED BY <1>1, <1>2, <1>4, <2>1
<1>9. TypeOK'
  BY <1>1, <1>5, <1>7, <1>8 DEF TypeOK, TablesTypeOK, CallTypes, Given
<1>10. Fits(r)'
  <2>1. AskingFits(r)' /\ AskingInTurn(r)'
    BY <1>1, <1>3, <1>5, <1>6, <1>7, <1>8 DEF AskingFits, ToldTruly, AskingInTurn, Given
  <2> QED BY <1>6, <1>7, <2>1 DEF Fits, PlacesOf
<1>11. /\ \A s \in Transfer : OutcomeMoves(s)
       /\ FundingsDiffer' /\ ~HalfWritten(r)
  BY <1>1, <1>5, <1>6 DEF OutcomeMoves, FundingsDiffer, HalfWritten
<1> QED BY <1>1, <1>2, <1>5, <1>6, <1>8, <1>9, <1>10, <1>11, QuietStep

(***************************************************************************)
(* Arrivals, the provider, and faults.                                     *)
(***************************************************************************)
LEMMA Arrives ==
  ASSUME PaymentsInv, NEW a \in Calls, Arrive(a)
  PROVE  PaymentsInv'
<1> USE CallsAre, PlacesAre
<1>1. TypeOK /\ FundingsDiffer /\ OneAtATime /\ at \in [Calls -> {"idle"} \cup Places \cup Ends] /\ DOMAIN request = Calls
  BY DEF PaymentsInv, TypeOK
<1>2. /\ Goto(a, First(a)) /\ overlapped' = (overlapped \/ InFlight /= {}) /\ at[a] \in {"idle", "sent"}
      /\ UNCHANGED <<tables, deposit, told, snap, rowVars, outcome, credits, faults>>
  BY DEF Arrive
<1>3. First(a) \in PlacesOf(a) \ {"idle"} /\ First(a) \in Places
  BY DEF First, PlacesOf, Places
<1>4. /\ at'[a] = First(a) /\ \A b \in Calls : b /= a => at'[b] = at[b]
      /\ at' \in [Calls -> {"idle"} \cup Places \cup Ends]
  BY <1>1, <1>2, <1>3 DEF Goto
<1>5. /\ DOMAIN request' = Calls /\ \A b \in Calls : b /= a => request'[b] = request[b]
      /\ request'[a] \in Requests(a) /\ (at[a] = "sent" => request' = request)
  <2>1. CASE at[a] = "sent" /\ UNCHANGED request
    BY <1>1, <2>1 DEF TypeOK
  <2>2. CASE at[a] = "idle" /\ \E r \in Requests(a) : request' = [request EXCEPT ![a] = r]
    BY <1>1, <2>2
  <2> QED BY <2>1, <2>2 DEF Arrive
<1>6. TypeOK'
  <2>1. overlapped' \in BOOLEAN
    BY <1>1, <1>2 DEF TypeOK
  <2>2. \A b \in Calls : request'[b] \in IF at'[b] = "idle" THEN {NoRequest} ELSE Requests(b)
    BY <1>1, <1>3, <1>4, <1>5 DEF TypeOK
  <2> QED BY <1>1, <1>2, <1>4, <1>5, <2>1, <2>2 DEF TypeOK, TablesTypeOK, Requests
<1>7. OneAtATime'
  <2>1. ~overlapped' => InFlight = {}
    BY <1>2
  <2> QED BY <1>4, <2>1 DEF OneAtATime, InFlight
<1>8. \A b \in Calls : b /= a => Same(b)
  BY <1>2, <1>4, <1>5 DEF Same
<1>9. \A b \in Calls : Keeps(b)
  <2>1. at[a] = "sent" => a \in Hook /\ at'[a] = "readPayout" /\ request'[a] = request[a]
    BY <1>4, <1>5 DEF PaymentsInv, PlacesOf, First, Ends
  <2>2. Keeps(a)
    BY <1>2, <2>1 DEF Keeps, Ends, Early
  <2> QED BY <1>8, <2>2, SameKeeps
<1>10. \A t \in Transfer : OutcomeMoves(t)
  BY <1>2 DEF OutcomeMoves
<1>11. Fits(a)'
  <2>1. CASE a \in Transfer
    <3>1. TransferFits(a) /\ at[a] = "idle" /\ at'[a] = "callProvider"
      BY <1>2, <1>4, <2>1 DEF PaymentsInv, PlacesOf, First, Ends
    <3>2. outcome[a] = "none" /\ payout[a] = "none" /\ ~Recorded(a)
      BY <3>1, NoRows DEF TransferFits, Early
    <3>3. TransferFits(a)'
      BY <1>2, <3>1, <3>2 DEF TransferFits, Holds, Recorded
    <3> QED BY <1>3, <1>4, <2>1, <3>3 DEF Fits, PlacesOf
  <2>2. CASE a \in Inflow
    <3>1. InflowFits(a)' /\ LeftBehind(a)'
      BY <1>4, <2>2 DEF InflowFits, LeftBehind, First
    <3> QED BY <1>3, <1>4, <2>2, <3>1 DEF Fits, PlacesOf
  <2>3. CASE a \in Asking
    <3>1. AskingFits(a) /\ at'[a] = "readPayout"
      BY <1>4, <2>3 DEF PaymentsInv, First
    <3>2. ToldTruly(a)'
      BY <1>2, <1>5, <3>1 DEF AskingFits, ToldTruly
    <3>3. AskingFits(a)' /\ AskingInTurn(a)'
      BY <3>1, <3>2 DEF AskingFits, AskingInTurn
    <3> QED BY <1>3, <1>4, <2>3, <3>3 DEF Fits, PlacesOf
  <2> QED BY <2>1, <2>2, <2>3
<1>12. \A b \in Asking : HalfWritten(b) => HalfWritten(b)'
  BY <1>2, <1>4 DEF HalfWritten
<1>13. FundingsDiffer' /\ (overlapped => overlapped')
  BY <1>1, <1>2 DEF FundingsDiffer
<1> QED BY <1>2, <1>6, <1>7, <1>8, <1>9, <1>10, <1>11, <1>12, <1>13, Quietly

LEMMA SendsHook ==
  ASSUME PaymentsInv, NEW h \in Hook, SendHook(h)
  PROVE  PaymentsInv'
<1> USE CallsAre, PlacesAre
<1>1. /\ TypeOK /\ FundingsDiffer /\ OneAtATime /\ at \in [Calls -> {"idle"} \cup Places \cup Ends] /\ DOMAIN request = Calls
      /\ told \in [Asking -> Answers] /\ h \in Calls /\ h \in Asking
  BY DEF PaymentsInv, TypeOK
<1>2. PICK t \in Transfer :
        /\ at[h] = "idle" /\ Goto(h, "sent") /\ outcome[t] \in {"processing", "success", "failed", "rejected"}
        /\ request' = [request EXCEPT ![h] = t] /\ told' = [told EXCEPT ![h] = outcome[t]]
        /\ UNCHANGED <<tables, deposit, snap, rowVars, outcome, credits, overlapped, faults>>
  BY DEF SendHook
<1>3. "sent" \in PlacesOf(h) \ {"idle"} /\ "sent" \in Places
  BY DEF PlacesOf, Places
<1>4. /\ at'[h] = "sent" /\ \A b \in Calls : b /= h => at'[b] = at[b]
      /\ at' \in [Calls -> {"idle"} \cup Places \cup Ends]
  BY <1>1, <1>2, <1>3 DEF Goto
<1>5. /\ DOMAIN request' = Calls /\ request'[h] = t /\ \A b \in Calls : b /= h => request'[b] = request[b]
      /\ told' \in [Asking -> Answers] /\ told'[h] = outcome[t] /\ \A b \in Asking : b /= h => told'[b] = told[b]
  <2>1. outcome[t] \in Answers
    BY <1>2 DEF Answers, Outcomes
  <2> QED BY <1>1, <1>2, <2>1
<1>6. TypeOK'
  <2>1. \A b \in Calls : request'[b] \in IF at'[b] = "idle" THEN {NoRequest} ELSE Requests(b)
    <3>1. Requests(h) = Transfer
      BY DEF Requests
    <3>2. \A b \in Calls : b /= h => request'[b] \in IF at'[b] = "idle" THEN {NoRequest} ELSE Requests(b)
      BY <1>1, <1>4, <1>5 DEF TypeOK
    <3> QED BY <1>4, <1>5, <3>1, <3>2
  <2> QED BY <1>1, <1>2, <1>4, <1>5, <2>1 DEF TypeOK, TablesTypeOK, Requests
<1>7. OneAtATime'
  BY <1>1, <1>2, <1>4 DEF OneAtATime, InFlight
<1>8. \A b \in Calls : b /= h => Same(b)
  BY <1>4, <1>5 DEF Same
<1>9. \A b \in Calls : Keeps(b)
  <2>1. Keeps(h)
    BY <1>2, <1>4 DEF Keeps, Ends, Early
  <2> QED BY <1>8, <2>1, SameKeeps
<1>10. \A s \in Transfer : OutcomeMoves(s)
  BY <1>2 DEF OutcomeMoves
<1>11. Fits(h)'
  <2>1. ToldTruly(h)'
    BY <1>2, <1>5 DEF ToldTruly
  <2>2. AskingFits(h)' /\ AskingInTurn(h)'
    BY <1>4, <2>1 DEF AskingFits, AskingInTurn
  <2> QED BY <1>3, <1>4, <2>2 DEF Fits, PlacesOf
<1>12. \A b \in Asking : HalfWritten(b) => HalfWritten(b)'
  BY <1>2, <1>4 DEF HalfWritten
<1>13. FundingsDiffer'
  BY <1>1, <1>2 DEF FundingsDiffer
<1> QED BY <1>2, <1>6, <1>7, <1>8, <1>9, <1>10, <1>11, <1>12, <1>13, Quietly

LEMMA Settles ==
  ASSUME PaymentsInv, NEW t \in Transfer, Settle(t)
  PROVE  PaymentsInv'
<1>1. TypeOK /\ FundingsDiffer /\ OneAtATime /\ outcome \in [Transfer -> Outcomes]
  BY DEF PaymentsInv, TypeOK
<1>2. PICK o \in Outcomes :
        /\ outcome' = [outcome EXCEPT ![t] = o]
        /\ outcome[t] = "processing" \/ (outcome[t] = "success" /\ o = "reversed")
        /\ UNCHANGED <<tables, callVars, rowVars, credits, overlapped, faults>>
  BY DEF Settle, Outcomes
<1>3. TypeOK'
  BY <1>1, <1>2 DEF TypeOK, TablesTypeOK, Requests
<1>4. OneAtATime' /\ FundingsDiffer' /\ \A a \in Asking : HalfWritten(a) => HalfWritten(a)'
  BY <1>1, <1>2 DEF OneAtATime, InFlight, FundingsDiffer, HalfWritten
<1>5. \A b \in Calls : Same(b)
  BY <1>2 DEF Same
<1>6. \A s \in Transfer : OutcomeMoves(s)
  BY <1>1, <1>2 DEF OutcomeMoves
<1> QED BY <1>2, <1>3, <1>4, <1>5, <1>6, SameKeeps, Quietly

LEMMA Stutters ==
  ASSUME PaymentsInv, UNCHANGED vars
  PROVE  PaymentsInv'
<1>1. UNCHANGED <<tables, callVars, rowVars, outcome, credits, overlapped, faults>>
  OBVIOUS
<1>2. TypeOK'
  BY <1>1 DEF PaymentsInv, TypeOK, TablesTypeOK, Requests
<1>3. OneAtATime' /\ FundingsDiffer' /\ \A a \in Asking : HalfWritten(a) => HalfWritten(a)'
  BY <1>1 DEF PaymentsInv, OneAtATime, InFlight, FundingsDiffer, HalfWritten
<1>4. (\A b \in Calls : Same(b)) /\ \A s \in Transfer : OutcomeMoves(s)
  BY <1>1 DEF Same, OutcomeMoves
<1> QED BY <1>1, <1>2, <1>3, <1>4, SameKeeps, Quietly

\* A statement that fails, or the process with all calls.
LEMMA Faults ==
  ASSUME PaymentsInv, Fault
  PROVE  PaymentsInv'
<1> USE CallsAre, PlacesAre
<1>1. PICK dead \in {{a} : a \in InFlight} \cup {InFlight} :
        /\ at' = [a \in Calls |-> IF a \in dead THEN "lost" ELSE at[a]]
        /\ snap' = [a \in Crediting |-> IF a \in dead THEN Both(0) ELSE snap[a]]
        /\ faults < MaxFaults /\ faults' = faults + 1
        /\ UNCHANGED <<tables, Given, told, rowVars, outcome, credits, overlapped>>
  BY DEF Fault
<1>2. /\ TypeOK /\ FundingsDiffer /\ OneAtATime /\ at \in [Calls -> {"idle"} \cup Places \cup Ends]
      /\ snap \in [Crediting -> Balance] /\ Both(0) \in Balance /\ faults \in 0..MaxFaults
  BY DEF PaymentsInv, TypeOK, Both, Balance
<1>3. \A b \in Calls : at'[b] = at[b] \/ (b \in InFlight /\ at'[b] = "lost" /\ at[b] \in Places \ {"sent"})
  BY <1>1 DEF InFlight
<1>4. UNCHANGED <<request, deposit>>
  BY <1>1 DEF Given
<1>5. TypeOK'
  <2>1. at' \in [Calls -> {"idle"} \cup Places \cup Ends]
    BY <1>1, <1>2, <1>3 DEF Ends
  <2>2. snap' \in [Crediting -> Balance]
    BY <1>1, <1>2
  <2>3. faults' \in 0..MaxFaults
    BY <1>1, <1>2, PaymentBounds
  <2>4. \A b \in Calls : at'[b] = "idle" <=> at[b] = "idle"
    BY <1>3
  <2> QED BY <1>1, <1>2, <1>4, <2>1, <2>2, <2>3, <2>4 DEF TypeOK, TablesTypeOK, Requests
<1>6. OneAtATime'
  BY <1>1, <1>2, <1>3 DEF OneAtATime, InFlight, Places
<1>7. \A b \in Calls : Keeps(b)
  BY <1>1, <1>3, <1>4 DEF Keeps, Ends, Early
<1>8. ASSUME NEW b \in Calls PROVE Same(b) \/ Fits(b)'
  <2>1. CASE at'[b] = at[b]
    BY <1>1, <1>4, <2>1 DEF Same
  <2>2. CASE at'[b] = "lost" /\ at[b] \in Places \ {"sent"}
    <3>1. at'[b] \in PlacesOf(b)
      BY <2>2 DEF PlacesOf, Ends
    <3>2. ASSUME b \in Transfer PROVE TransferFits(b)'
      <4>1. TransferFits(b) /\ payout[b] = "none"
        BY <2>2, <3>2 DEF PaymentsInv, TransferFits, Places
      <4> QED BY <1>1, <2>2, <4>1 DEF TransferFits, Holds
    <3>3. ASSUME b \in Inflow PROVE InflowFits(b)' /\ LeftBehind(b)'
      BY <2>2 DEF InflowFits, LeftBehind
    <3>4. ASSUME b \in Asking PROVE AskingFits(b)' /\ AskingInTurn(b)'
      <4>1. AskingFits(b)
        BY <3>4 DEF PaymentsInv
      <4> QED BY <1>1, <1>4, <2>2, <4>1 DEF AskingFits, ToldTruly, AskingInTurn
    <3> QED BY <3>1, <3>2, <3>3, <3>4 DEF Fits, PlacesOf
  <2> QED BY <1>3, <2>1, <2>2
<1>9. \A b \in Asking : HalfWritten(b) => HalfWritten(b)'
  BY <1>3 DEF HalfWritten
<1>10. FundingsDiffer' /\ \A s \in Transfer : OutcomeMoves(s)
  BY <1>1, <1>2 DEF FundingsDiffer, OutcomeMoves
<1> QED BY <1>1, <1>4, <1>5, <1>6, <1>7, <1>8, <1>9, <1>10, Quietly
(***************************************************************************)
(* A step that writes one of the two rows of a payout, or that of a        *)
(* deposit.                                                                *)
(***************************************************************************)
LEMMA HookStatuses ==
  \A o : HookStatus(o) = IF o = "success" THEN "SUCCESS" ELSE IF o = "failed" THEN "FAILED"
                         ELSE IF o = "rejected" THEN "REJECTED" ELSE "PROCESSING"
BY DEF HookStatus

LEMMA RequeryStatuses ==
  \A o : RequeryStatus(o) = IF o = "success" THEN "SUCCESS" ELSE IF o = "failed" THEN "FAILED"
                            ELSE IF o = "processing" THEN "PROCESSING" ELSE IF o = "reversed" THEN "REVERSED"
                            ELSE "PENDING"
BY DEF RequeryStatus

LEMMA StatusesHold ==
  ASSUME NEW a, ToldTruly(a)
  PROVE  /\ Holds(HookStatus(told[a]), outcome[request[a]])
         /\ Holds(TransactionStatusOf(HookStatus(told[a])), outcome[request[a]])
         /\ Holds(RequeryStatus(told[a]), outcome[request[a]])
BY HookStatuses, RequeryStatuses DEF ToldTruly, Holds, TransactionStatusOf

LEMMA StatusesAre ==
  \A o : /\ HookStatus(o) \in PayoutStatuses /\ RequeryStatus(o) \in PayoutStatuses
         /\ TransactionStatusOf(HookStatus(o)) \in {"PENDING", "PROCESSING", "SUCCESS", "FAILED", "REVERSED"}
         /\ RequeryStatus(o) \in {"PENDING", "PROCESSING", "SUCCESS", "FAILED", "REVERSED"}
         /\ TransactionStatusOf(RequeryStatus(o)) = RequeryStatus(o)
BY HookStatuses, RequeryStatuses DEF PayoutStatuses, TransactionStatusOf

LEMMA RowsStay ==
  ASSUME PaymentsInv, \A b \in Calls : Keeps(b), \A t \in Transfer : payout'[t] = "none" => payout[t] = "none",
         NEW r \in transaction
  PROVE  RowFits(r)'
<1>1. RowFits(r) /\ r.group \in Calls
  BY CallsAre DEF PaymentsInv, RowFits
<1>2. PICK g \in Calls : g = r.group
  BY <1>1
<1>3. Keeps(g) /\ at[g] \notin Early
  BY <1>1, <1>2 DEF RowFits, Early
<1>4. at'[g] \notin Early /\ request'[g] = request[g]
  BY <1>3 DEF Keeps, Early
<1> QED BY <1>1, <1>2, <1>4 DEF RowFits, Early, OwnReference, ReferenceOf

Writing == {"insertTransaction", "insertPayout", "insertInflow", "writePayout", "writeTransaction"}

LEMMA RowStep ==
  ASSUME PaymentsInv, NEW a \in Calls, at[a] \in Writing, NEW place \in PlacesOf(a) \ {"idle", "failed"}, Goto(a, place),
         UNCHANGED <<Given, told, funding, credits, outcome, overlapped>>, TypeOK', at[a] \notin Early => place \notin Early,
         \A t \in Transfer : payout[t] /= "none" => payout'[t] /= "none",
         \A b \in Calls : Recorded(b) => Recorded(b)', \A b \in Calls : b /= a /\ Recorded(b)' => Recorded(b),
         ReferencesDiffer', \A r \in transaction' \ transaction : RowFits(r)', \A t \in Transfer : TransferFits(t)',
         a \in Inflow => InflowFits(a)', a \in Asking => AskingFits(a)',
         ~overlapped => (\A t \in Transfer : RowsAgree(t)') /\ (\A b \in Asking : AskingInTurn(b)')
  PROVE  PaymentsInv'
<1> USE CallsAre
<1>1. TypeOK /\ OneAtATime /\ FundingsDiffer /\ at[a] \in Places \ {"sent"} /\ at[a] \notin {"idle", "storeEvent", "creditWallet"} \cup Ends
  BY DEF PaymentsInv, Writing, Places, Ends
<1>2. at'[a] = place /\ (\A b \in Calls : b /= a => at'[b] = at[b]) /\ OneAtATime' /\ request' = request /\ deposit' = deposit
  BY <1>1, Goes DEF Given
<1>3. \A b \in Calls : b /= a => Same(b)
  BY <1>2 DEF Same
<1>4. \A b \in Calls : Keeps(b)
  <2>1. Keeps(a)
    BY <1>1, <1>2 DEF Keeps
  <2> QED BY <1>3, <2>1, SameKeeps
<1>5. \A t \in Transfer : OutcomeMoves(t)
  BY DEF OutcomeMoves
<1>6. /\ \A f \in funding : FundingFits(f)'
      /\ \A c \in credits : CreditFits(c)'
      /\ \A d \in Inflow : Same(d) => InflowFits(d)' /\ LeftBehind(d)'
      /\ \A b \in Asking : Same(b) => AskingFits(b)'
  <2>1. \A b \in Calls : at'[b] = "failed" /\ Recorded(b)' => Recorded(b)
    BY <1>2
  <2> QED BY <1>2, <1>4, <1>5, <2>1, Kept
<1>7. \A r \in transaction' : RowFits(r)'
  <2>1. payout \in [Transfer -> PayoutStatuses \cup {"none"}]
    BY <1>1 DEF TypeOK
  <2>2. \A r \in transaction : RowFits(r)'
    BY <1>4, RowsStay
  <2> QED BY <2>2
<1>8. \A b \in Calls : at'[b] \in PlacesOf(b)
  <2>1. \A b \in Calls : (at'[b] = at[b] /\ at[b] \in PlacesOf(b)) \/ b = a
    BY <1>2 DEF PaymentsInv
  <2> QED BY <1>2, <2>1
<1>9. \A b \in Calls : at'[b] \in PlacesOf(b)'
  BY <1>8 DEF PlacesOf
<1>10. \A d \in Inflow : InflowFits(d)' /\ LeftBehind(d)'
  <2>1. a \in Inflow => LeftBehind(a)'
    BY <1>2 DEF LeftBehind
  <2> QED BY <1>3, <1>6, <2>1
<1>11. \A b \in Asking : AskingFits(b)'
  BY <1>3, <1>6
<1>12. FundingsDiffer'
  BY <1>1 DEF FundingsDiffer
<1> QED BY <1>2, <1>6, <1>7, <1>9, <1>10, <1>11, <1>12 DEF PaymentsInv
\* A payout's rows are left alone by a call about another: its row is not of their group.
LEMMA NewRow ==
  ASSUME PaymentsInv, NEW a \in Calls, at[a] \in Early, NEW row, transaction' = transaction \cup {row}, row.group = a,
         NEW place, place \notin {"writeTransaction", "writePayout"} \cup Ends, at'[a] = place, a \notin Asking,
         \A b \in Calls : b /= a => at'[b] = at[b],
         UNCHANGED <<Given, told, funding, credits, outcome, overlapped, payout>>
  PROVE  /\ \A b \in Calls : Recorded(b) => Recorded(b)'
         /\ \A b \in Calls : b /= a /\ Recorded(b)' => Recorded(b)
         /\ \A t \in Transfer : t /= a => TransferFits(t)'
         /\ ~overlapped => (\A t \in Transfer : RowsAgree(t)') /\ (\A b \in Asking : AskingInTurn(b)')
<1> USE CallsAre
<1>1. /\ \A b \in Calls : Recorded(b) => Recorded(b)'
      /\ \A b \in Calls : b /= a /\ Recorded(b)' => Recorded(b)
  BY DEF Recorded
<1>2. ASSUME NEW t \in Transfer, t /= a PROVE TransferFits(t)'
  <2>1. TransferFits(t) /\ at'[t] = at[t]
    BY <1>2 DEF PaymentsInv
  <2>2. \A r \in transaction' : r.group = t => r \in transaction
    BY <1>2
  <2> QED BY <1>1, <2>1, <2>2 DEF TransferFits
<1>3. ASSUME ~overlapped, NEW t \in Transfer PROVE RowsAgree(t)'
  <2>1. RowsAgree(t)
    BY <1>3 DEF PaymentsInv
  <2>2. CASE t = a
    <3>1. payout[t] = "none"
      BY <2>2 DEF PaymentsInv, TransferFits, Early
    <3> QED BY <3>1 DEF RowsAgree
  <2>3. CASE t /= a
    <3>1. \A r \in transaction' : r.group = t => r \in transaction
      BY <2>3
    <3>2. \A b \in Asking : HalfWritten(b)' <=> HalfWritten(b)
      BY DEF HalfWritten
    <3>3. request' = request
      BY DEF Given
    <3> QED BY <2>1, <3>1, <3>2, <3>3 DEF RowsAgree
  <2> QED BY <2>2, <2>3
<1>4. ASSUME ~overlapped, NEW b \in Asking PROVE AskingInTurn(b)'
  <2>1. AskingInTurn(b) /\ AskingFits(b) /\ at'[b] = at[b] /\ request' = request
    BY <1>4 DEF PaymentsInv, Given
  <2>2. at[b] \in {"writePayout", "writeTransaction"} => request[b] /= a
    <3>1. SUFFICES ASSUME at[b] \in {"writePayout", "writeTransaction"} PROVE request[b] /= a
      OBVIOUS
    <3>2. at[request[b]] = "done"
      BY <2>1, <3>1, PayoutsAre DEF AskingFits
    <3> QED BY <3>2 DEF Early
  <2>3. PICK t : t = request[b]
    OBVIOUS
  <2>4. \A r \in transaction' : t /= a /\ r.group = t => r \in transaction
    OBVIOUS
  <2> QED BY <2>1, <2>2, <2>3, <2>4 DEF AskingInTurn
<1> QED BY <1>1, <1>2, <1>3, <1>4

LEMMA InsertsTransaction ==
  ASSUME PaymentsInv, NEW t \in Transfer, at[t] = "insertTransaction", ~ReferenceTaken(ReferenceOf(t)),
         transaction' = transaction \cup {PayoutTransaction(t)}, Leaves(t, "insertPayout"),
         UNCHANGED <<told, snap, rowVars, credits>>
  PROVE  PaymentsInv'
<1> USE CallsAre
<1>1. /\ Goto(t, "insertPayout")
      /\ UNCHANGED <<balance, rowLock, spray, Given, told, snap, rowVars, outcome, credits, overlapped, faults>>
  BY DEF Leaves
<1>2. at[t] \in Places \ {"sent"} /\ at[t] \in Writing /\ at[t] \in Early /\ "insertPayout" \in PlacesOf(t) \ {"idle", "failed"}
      /\ "insertPayout" \notin Early /\ "insertPayout" \notin {"writeTransaction", "writePayout"} \cup Ends
  BY DEF Places, Early, PlacesOf, Ends, Writing
<1>3. TypeOK /\ OneAtATime /\ TransferFits(t)
  BY DEF PaymentsInv
<1>4. at'[t] = "insertPayout" /\ (\A b \in Calls : b /= t => at'[b] = at[b]) /\ CallTypes' /\ request' = request
  BY <1>1, <1>2, <1>3, Goes DEF Given
<1>5. PICK row : row = PayoutTransaction(t)
  OBVIOUS
<1>6. /\ row.reference = ReferenceOf(t) /\ row.group = t /\ row.status = "PENDING" /\ transaction' = transaction \cup {row}
  BY <1>5 DEF PayoutTransaction
<1>7. ReferenceOf(t)' = ReferenceOf(t)
  BY <1>4 DEF ReferenceOf
<1>8. TypeOK'
  <2>1. request[t] \in [wallet : Wallets, amount : Sums, key : Keys \cup {NoKey}]
    BY <1>3, TypesAre
  <2>2. ReferenceOf(t) \in References
    <3>1. DrawnRef("payout", t) \in References
      BY DEF References
    <3>2. request[t].key /= NoKey => ClientRef(request[t].key) \in References
      BY <2>1 DEF References
    <3> QED BY <3>1, <3>2 DEF ReferenceOf
  <2>3. \A n \in Sums : n \in Int
    BY ValueAssumption
  <2>4. request[t].wallet \in Wallets /\ request[t].amount \in Int
    BY <2>1, <2>3
  <2>5. row \in TransactionRow
    BY <1>5, <2>2, <2>4 DEF PayoutTransaction, TransactionRow
  <2>6. transaction' \subseteq TransactionRow
    BY <1>3, <1>6, <2>5 DEF TypeOK, TablesTypeOK
  <2> QED BY <1>1, <1>3, <1>4, <2>6 DEF TypeOK, TablesTypeOK, CallTypes, Given
<1>9. /\ \A b \in Calls : Recorded(b) => Recorded(b)'
      /\ \A b \in Calls : b /= t /\ Recorded(b)' => Recorded(b)
      /\ \A s \in Transfer : s /= t => TransferFits(s)'
      /\ ~overlapped => (\A s \in Transfer : RowsAgree(s)') /\ (\A b \in Asking : AskingInTurn(b)')
  BY <1>1, <1>2, <1>4, <1>6, NewRow
<1>10. \A r \in transaction : r.reference /= row.reference
  BY <1>6 DEF ReferenceTaken
<1>11. ReferencesDiffer'
  <2>1. ReferencesDiffer
    BY DEF PaymentsInv
  <2> QED BY <1>6, <1>10, <2>1 DEF ReferencesDiffer
<1>12. \A r \in transaction' \ transaction : RowFits(r)'
  BY <1>4, <1>6, <1>7 DEF RowFits, OwnReference
<1>13. TransferFits(t)'
  <2>1. Recorded(t)'
    BY <1>6 DEF Recorded
  <2>2. \A r \in transaction' : r.group = t => r.status = "PENDING"
    BY <1>2, <1>6, NoRows DEF Recorded
  <2>3. payout'[t] = "none"
    BY <1>1, <1>3 DEF TransferFits
  <2> QED BY <1>4, <2>1, <2>2, <2>3 DEF TransferFits, Holds
<1> QED BY <1>1, <1>2, <1>8, <1>9, <1>11, <1>12, <1>13, RowStep

LEMMA InsertsInflow ==
  ASSUME PaymentsInv, NEW d \in Inflow, InsertInflow(d)
  PROVE  PaymentsInv'
<1> USE CallsAre
<1>1. /\ Goto(d, "insertFunding") /\ at[d] = "insertInflow"
      /\ UNCHANGED <<balance, rowLock, spray, Given, told, snap, rowVars, outcome, credits, overlapped, faults>>
  BY DEF InsertInflow, Leaves
<1>2. at[d] \in Places \ {"sent"} /\ at[d] \in Writing /\ at[d] \in Early /\ "insertFunding" \in PlacesOf(d) \ {"idle", "failed"}
      /\ "insertFunding" \notin Early /\ "insertFunding" \notin {"writeTransaction", "writePayout"} \cup Ends
  BY <1>1 DEF Places, Early, PlacesOf, Ends, Writing
<1>3. TypeOK /\ OneAtATime /\ InflowFits(d) /\ Into(d) \in Wallets
  BY <1>1 DEF PaymentsInv, InflowFits
<1>4. at'[d] = "insertFunding" /\ (\A b \in Calls : b /= d => at'[b] = at[b]) /\ CallTypes' /\ request' = request /\ deposit' = deposit
  BY <1>1, <1>2, <1>3, Goes DEF Given
<1>5. PICK row : row = InflowTransaction(d)
  OBVIOUS
<1>6. row.reference = DrawnRef("inflow", d) /\ row.group = d /\ transaction' = transaction \cup {row}
  BY <1>5 DEF InflowTransaction, InsertInflow
<1>7. TypeOK'
  <2>1. AmountOf(d) \in Int
    BY <1>1, <1>3, DepositsAre
  <2>2. DrawnRef("inflow", d) \in References
    BY DEF References
  <2>3. row \in TransactionRow
    BY <1>3, <1>5, <2>1, <2>2 DEF InflowTransaction, TransactionRow
  <2>4. transaction' \subseteq TransactionRow
    BY <1>3, <1>6, <2>3 DEF TypeOK, TablesTypeOK
  <2> QED BY <1>1, <1>3, <1>4, <2>4 DEF TypeOK, TablesTypeOK, CallTypes, Given
<1>8. /\ \A b \in Calls : Recorded(b) => Recorded(b)'
      /\ \A b \in Calls : b /= d /\ Recorded(b)' => Recorded(b)
      /\ \A s \in Transfer : s /= d => TransferFits(s)'
      /\ ~overlapped => (\A s \in Transfer : RowsAgree(s)') /\ (\A b \in Asking : AskingInTurn(b)')
  BY <1>1, <1>2, <1>4, <1>6, NewRow
<1>9. ASSUME NEW r \in transaction PROVE r.reference /= row.reference
  <2>1. RowFits(r) /\ r.group /= d
    BY <1>2, NoRows DEF PaymentsInv, Recorded
  <2> QED BY <1>6, <2>1 DEF RowFits, OwnReference, ReferenceOf, DrawnRef, ClientRef
<1>10. ReferencesDiffer'
  <2>1. ReferencesDiffer
    BY DEF PaymentsInv
  <2> QED BY <1>6, <1>9, <2>1 DEF ReferencesDiffer
<1>11. \A r \in transaction' \ transaction : RowFits(r)'
  BY <1>4, <1>6 DEF RowFits, OwnReference
<1>12. InflowFits(d)'
  <2>1. Recorded(d)' /\ Into(d)' = Into(d)
    BY <1>4, <1>6 DEF Recorded, Into
  <2> QED BY <1>3, <1>4, <2>1 DEF InflowFits
<1> QED BY <1>1, <1>2, <1>7, <1>8, <1>10, <1>11, <1>12, RowStep

LEMMA InsertsPayout ==
  ASSUME PaymentsInv, NEW t \in Transfer, InsertPayout(t)
  PROVE  PaymentsInv'
<1> USE CallsAre
<1>1. /\ Goto(t, "done") /\ at[t] = "insertPayout" /\ payout' = [payout EXCEPT ![t] = "PENDING"]
      /\ UNCHANGED <<tables, Given, told, snap, funding, webhookEvent, outcome, credits, overlapped, faults>>
  BY DEF InsertPayout, Leaves
<1>2. at[t] \in Places \ {"sent"} /\ at[t] \in Writing /\ "done" \in PlacesOf(t) \ {"idle", "failed"} /\ "done" \notin Early
  BY <1>1 DEF Places, Early, PlacesOf, Ends, Writing
<1>3. TypeOK /\ OneAtATime /\ TransferFits(t) /\ payout \in [Transfer -> PayoutStatuses \cup {"none"}]
  BY DEF PaymentsInv, TypeOK
<1>4. at'[t] = "done" /\ (\A b \in Calls : b /= t => at'[b] = at[b]) /\ CallTypes' /\ request' = request
  BY <1>1, <1>2, <1>3, Goes DEF Given
<1>5. payout'[t] = "PENDING" /\ (\A s \in Transfer : s /= t => payout'[s] = payout[s]) /\ payout[t] = "none"
  BY <1>1, <1>3 DEF TransferFits
<1>6. TypeOK'
  <2>1. payout' \in [Transfer -> PayoutStatuses \cup {"none"}]
    BY <1>1, <1>3 DEF PayoutStatuses
  <2> QED BY <1>1, <1>3, <1>4, <2>1 DEF TypeOK, TablesTypeOK, CallTypes, Given
<1>7. (\A b \in Calls : Recorded(b)' <=> Recorded(b)) /\ transaction' = transaction
  BY <1>1 DEF Recorded
<1>8. \A r \in transaction : r.group = t => r.status = "PENDING"
  BY <1>5 DEF PaymentsInv, RowFits
<1>9. ASSUME NEW s \in Transfer PROVE TransferFits(s)'
  <2>1. CASE s = t
    BY <1>1, <1>3, <1>4, <1>5, <1>7, <1>8, <2>1 DEF TransferFits, Holds
  <2>2. CASE s /= t
    BY <1>1, <1>4, <1>5, <1>7, <2>2 DEF PaymentsInv, TransferFits
  <2> QED BY <2>1, <2>2
<1>10. ASSUME ~overlapped, NEW s \in Transfer PROVE RowsAgree(s)'
  <2>1. CASE s = t
    BY <1>5, <1>7, <1>8, <2>1 DEF RowsAgree, TransactionStatusOf
  <2>2. CASE s /= t
    <3>1. RowsAgree(s)
      BY <1>10 DEF PaymentsInv
    <3>2. \A b \in Asking : HalfWritten(b)' <=> HalfWritten(b)
      BY <1>4 DEF HalfWritten
    <3> QED BY <1>4, <1>5, <1>7, <2>2, <3>1, <3>2 DEF RowsAgree
  <2> QED BY <2>1, <2>2
<1>11. ASSUME ~overlapped, NEW b \in Asking PROVE AskingInTurn(b)'
  <2>1. AskingInTurn(b) /\ AskingFits(b) /\ at'[b] = at[b] /\ request'[b] = request[b] /\ told'[b] = told[b]
    BY <1>1, <1>4, <1>11 DEF PaymentsInv
  <2>2. CASE at[b] \in {"writePayout", "writeTransaction"}
    <3>1. payout[request[b]] /= "none" /\ at[b] /= "idle"
      BY <2>1, <2>2 DEF AskingFits
    <3>2. PICK s \in Transfer : s = request[b]
      BY <3>1, PayoutsAre
    <3>3. payout'[s] = payout[s]
      BY <1>5, <3>1, <3>2
    <3> QED BY <1>7, <2>1, <3>2, <3>3 DEF AskingInTurn
  <2>3. CASE at[b] \notin {"writePayout", "writeTransaction"}
    BY <2>1, <2>3 DEF AskingInTurn
  <2> QED BY <2>2, <2>3
<1>12. ReferencesDiffer' /\ transaction' \ transaction = {}
  BY <1>7 DEF PaymentsInv, ReferencesDiffer
<1>13. \A s \in Transfer : payout[s] /= "none" => payout'[s] /= "none"
  BY <1>5
<1> QED BY <1>1, <1>2, <1>6, <1>7, <1>9, <1>10, <1>11, <1>12, <1>13, RowStep
LEMMA WritesPayout ==
  ASSUME PaymentsInv, NEW a \in Asking, WritePayout(a)
  PROVE  PaymentsInv'
<1> USE CallsAre
<1> DEFINE place == IF a \in Hook THEN "writeTransaction" ELSE "done"
<1>1. PICK status : status = IF a \in Hook THEN HookStatus(told[a]) ELSE RequeryStatus(told[a])
  OBVIOUS
<1>2. /\ Goto(a, place) /\ at[a] = "writePayout" /\ payout' = [payout EXCEPT ![request[a]] = status]
      /\ UNCHANGED <<tables, Given, told, snap, funding, webhookEvent, outcome, credits, overlapped, faults>>
  BY <1>1 DEF WritePayout, SetPayoutStatus, Leaves
<1>3. /\ a \in Calls /\ at[a] \in Places \ {"sent"} /\ at[a] \in Writing /\ at[a] /= "idle"
      /\ place \in PlacesOf(a) \ {"idle", "failed"} /\ place \notin Early
  BY <1>2 DEF Places, Early, PlacesOf, Ends, Writing
<1>4. TypeOK /\ OneAtATime /\ AskingFits(a) /\ payout \in [Transfer -> PayoutStatuses \cup {"none"}]
  BY DEF PaymentsInv, TypeOK
<1>5. payout[request[a]] /= "none" /\ ToldTruly(a)
  BY <1>2, <1>4 DEF AskingFits
<1>6. PICK t \in Transfer : t = request[a]
  BY <1>3, <1>5, PayoutsAre
<1>7. at[t] = "done" /\ status \in PayoutStatuses /\ status /= "none"
  BY <1>1, <1>3, <1>5, <1>6, PayoutsAre, StatusesAre DEF PayoutStatuses
<1>8. at'[a] = place /\ (\A b \in Calls : b /= a => at'[b] = at[b]) /\ CallTypes' /\ request' = request /\ told' = told
  BY <1>2, <1>3, <1>4, Goes DEF Given
<1>9. payout'[t] = status /\ \A s \in Transfer : s /= t => payout'[s] = payout[s]
  BY <1>2, <1>4, <1>6
<1>10. TypeOK'
  <2>1. payout' \in [Transfer -> PayoutStatuses \cup {"none"}]
    BY <1>2, <1>4, <1>7
  <2> QED BY <1>2, <1>4, <1>8, <2>1 DEF TypeOK, TablesTypeOK, CallTypes, Given
<1>11. (\A b \in Calls : Recorded(b)' <=> Recorded(b)) /\ transaction' = transaction
  BY <1>2 DEF Recorded
<1>12. ASSUME NEW s \in Transfer PROVE TransferFits(s)'
  <2>1. at'[s] = at[s] /\ TransferFits(s) /\ outcome' = outcome /\ s \in Calls
    BY <1>2, <1>8 DEF PaymentsInv
  <2>2. CASE s = t
    <3>1. Holds(status, outcome[t])
      BY <1>1, <1>5, <1>6, StatusesHold
    <3> QED BY <1>7, <1>9, <1>11, <2>1, <2>2, <3>1 DEF TransferFits, Holds
  <2>3. CASE s /= t
    BY <1>9, <1>11, <2>1, <2>3 DEF TransferFits
  <2> QED BY <2>2, <2>3
<1>13. AskingFits(a)'
  <2>1. ToldTruly(a)'
    BY <1>2, <1>5, <1>8 DEF ToldTruly
  <2>2. payout'[request[a]] /= "none"
    BY <1>6, <1>7, <1>9
  <2> QED BY <1>8, <2>1, <2>2 DEF AskingFits
<1>14. ASSUME ~overlapped, NEW s \in Transfer PROVE RowsAgree(s)'
  <2>1. RowsAgree(s)
    BY <1>14 DEF PaymentsInv
  <2>2. CASE s /= t
    <3>1. \A b \in Asking : b /= a => (HalfWritten(b)' <=> HalfWritten(b))
      BY <1>8 DEF HalfWritten
    <3>2. request[a] /= s
      BY <1>6, <2>2
    <3> QED BY <1>8, <1>9, <1>11, <2>1, <2>2, <3>1, <3>2 DEF RowsAgree
  <2>3. CASE s = t /\ a \in Hook
    <3>1. HalfWritten(a)'
      BY <1>8, <2>3 DEF HalfWritten
    <3> QED BY <1>6, <1>8, <2>3, <3>1 DEF RowsAgree
  <2>4. CASE s = t /\ a \in Requery
    <3>1. \A r \in transaction : r.group = t => r.status = RequeryStatus(told[a])
      BY <1>2, <1>6, <1>14, <2>4 DEF PaymentsInv, AskingInTurn
    <3>2. payout'[t] = RequeryStatus(told[a]) /\ TransactionStatusOf(RequeryStatus(told[a])) = RequeryStatus(told[a])
      BY <1>1, <1>9, <2>4, StatusesAre
    <3> QED BY <1>11, <2>4, <3>1, <3>2 DEF RowsAgree
  <2> QED BY <2>2, <2>3, <2>4
<1>15. ASSUME ~overlapped, NEW b \in Asking PROVE AskingInTurn(b)'
  <2>1. CASE b = a
    BY <1>1, <1>6, <1>8, <1>9, <2>1 DEF AskingInTurn
  <2>2. CASE b /= a
    <3>1. at'[b] \notin {"writePayout", "writeTransaction"}
      BY <1>2, <1>3, <1>4, <1>8, <1>15, <2>2 DEF OneAtATime, InFlight, Places
    <3> QED BY <3>1 DEF AskingInTurn
  <2> QED BY <2>1, <2>2
<1>16. ReferencesDiffer' /\ transaction' \ transaction = {}
  BY <1>11 DEF PaymentsInv, ReferencesDiffer
<1>17. \A s \in Transfer : payout[s] /= "none" => payout'[s] /= "none"
  BY <1>7, <1>9
<1> HIDE DEF place
<1> QED BY <1>2, <1>3, <1>10, <1>11, <1>12, <1>13, <1>14, <1>15, <1>16, <1>17, RowStep

\* The reference of a payout that has its second row names its Transaction, and no other.
LEMMA ReferencesName ==
  ASSUME PaymentsInv, NEW t \in Transfer, payout[t] /= "none", NEW r \in transaction
  PROVE  r.reference = ReferenceOf(t) <=> r.group = t
<1> USE CallsAre
<1>1. PICK q \in transaction : q.group = t
  BY DEF PaymentsInv, TransferFits, Recorded
<1>2. q.reference = ReferenceOf(t)
  BY <1>1 DEF PaymentsInv, RowFits, OwnReference
<1>3. r.reference = q.reference => r.group = q.group
  BY <1>1 DEF PaymentsInv, ReferencesDiffer
<1>4. r.group = t => r.reference = ReferenceOf(t)
  BY DEF PaymentsInv, RowFits, OwnReference
<1> QED BY <1>1, <1>2, <1>3, <1>4

LEMMA StatusIsSet ==
  ASSUME PaymentsInv, NEW t \in Transfer, payout[t] /= "none", NEW status, SetTransactionStatus(t, status),
         status \in {"PENDING", "PROCESSING", "SUCCESS", "FAILED", "REVERSED"}
  PROVE  /\ \A q \in transaction' : \E r \in transaction :
              /\ q.group = r.group /\ q.reference = r.reference
              /\ q.status = IF r.group = t THEN status ELSE r.status
         /\ \A r \in transaction : \E q \in transaction' : q.group = r.group
         /\ transaction' \subseteq TransactionRow
<1> DEFINE image(r) == IF r.reference = ReferenceOf(t) THEN [r EXCEPT !.status = status] ELSE r
<1>1. transaction' = {image(r) : r \in transaction}
  BY DEF SetTransactionStatus
<1>2. ASSUME NEW r \in transaction
      PROVE  /\ image(r) \in TransactionRow /\ image(r).group = r.group /\ image(r).reference = r.reference
             /\ image(r).status = IF r.group = t THEN status ELSE r.status
  <2>1. r \in TransactionRow
    BY DEF PaymentsInv, TypeOK, TablesTypeOK
  <2>2. r.reference = ReferenceOf(t) <=> r.group = t
    BY ReferencesName
  <2>3. CASE r.reference = ReferenceOf(t)
    <3>1. image(r) = [r EXCEPT !.status = status]
      BY <2>3
    <3> QED BY <2>1, <2>2, <2>3, <3>1 DEF TransactionRow
  <2>4. CASE r.reference /= ReferenceOf(t)
    BY <2>1, <2>2, <2>4
  <2> QED BY <2>3, <2>4
<1> HIDE DEF image
<1> QED BY <1>1, <1>2

LEMMA WritesTransaction ==
  ASSUME PaymentsInv, NEW a \in Asking, WriteTransaction(a)
  PROVE  PaymentsInv'
<1> USE CallsAre
<1>1. PICK status : status = IF a \in Hook THEN TransactionStatusOf(HookStatus(told[a])) ELSE RequeryStatus(told[a])
  OBVIOUS
<1>2. PICK place : place = IF a \in Hook THEN IF RefundDue(a) THEN "creditWallet" ELSE "storeEvent" ELSE "writePayout"
  OBVIOUS
<1>3. /\ Goto(a, place) /\ at[a] = "writeTransaction" /\ SetTransactionStatus(request[a], status)
      /\ UNCHANGED <<balance, rowLock, spray, Given, told, snap, rowVars, outcome, credits, overlapped, faults>>
  BY <1>1, <1>2 DEF WriteTransaction, Leaves
<1>4. /\ a \in Calls /\ at[a] \in Places \ {"sent"} /\ at[a] \in Writing /\ at[a] /= "idle"
      /\ place \in PlacesOf(a) \ {"idle", "failed"} /\ place \notin Early
  BY <1>2, <1>3 DEF Places, Early, PlacesOf, Ends, Writing
<1>5. TypeOK /\ OneAtATime /\ AskingFits(a) /\ payout[request[a]] /= "none" /\ ToldTruly(a)
  BY <1>3 DEF PaymentsInv, AskingFits
<1>6. PICK t \in Transfer : t = request[a]
  BY <1>4, <1>5, PayoutsAre
<1>7. at[t] = "done" /\ status \in {"PENDING", "PROCESSING", "SUCCESS", "FAILED", "REVERSED"}
  BY <1>1, <1>4, <1>5, <1>6, PayoutsAre, StatusesAre
<1>8. at'[a] = place /\ (\A b \in Calls : b /= a => at'[b] = at[b]) /\ CallTypes' /\ request' = request
      /\ told' = told /\ payout' = payout /\ outcome' = outcome
  BY <1>3, <1>4, <1>5, Goes DEF Given
<1>9. /\ \A q \in transaction' : \E r \in transaction :
           /\ q.group = r.group /\ q.reference = r.reference
           /\ q.status = IF r.group = t THEN status ELSE r.status
      /\ \A r \in transaction : \E q \in transaction' : q.group = r.group
      /\ transaction' \subseteq TransactionRow
  BY <1>3, <1>5, <1>6, <1>7, StatusIsSet
<1>10. TypeOK'
  BY <1>3, <1>5, <1>8, <1>9 DEF TypeOK, TablesTypeOK, CallTypes, Given
<1>11. \A b \in Calls : Recorded(b)' <=> Recorded(b)
  BY <1>9 DEF Recorded
<1>12. ReferencesDiffer'
  <2>1. ReferencesDiffer
    BY DEF PaymentsInv
  <2> QED BY <1>9, <2>1 DEF ReferencesDiffer
<1>13. \A b \in Calls : Keeps(b)
  <2>1. Keeps(a)
    BY <1>3, <1>4, <1>8 DEF Keeps, Ends
  <2>2. \A b \in Calls : b /= a => Same(b)
    BY <1>8 DEF Same
  <2> QED BY <2>1, <2>2, SameKeeps
<1>14. ASSUME NEW q \in transaction' PROVE RowFits(q)'
  <2>1. PICK r \in transaction : /\ q.group = r.group /\ q.reference = r.reference
                                 /\ q.status = IF r.group = t THEN status ELSE r.status
    BY <1>9
  <2>2. RowFits(r)'
    BY <1>8, <1>13, RowsStay
  <2>3. payout'[t] /= "none"
    BY <1>5, <1>6, <1>8
  <2> QED BY <2>1, <2>2, <2>3 DEF RowFits
<1>15. ASSUME NEW s \in Transfer PROVE TransferFits(s)'
  <2>1. at'[s] = at[s] /\ TransferFits(s) /\ s \in Calls
    BY <1>8 DEF PaymentsInv
  <2>2. Holds(status, outcome[t])
    BY <1>1, <1>5, <1>6, StatusesHold
  <2>3. ASSUME NEW q \in transaction', q.group = s PROVE Holds(q.status, outcome[s])
    <3>1. PICK r \in transaction : q.group = r.group /\ q.status = IF r.group = t THEN status ELSE r.status
      BY <1>9
    <3> QED BY <2>1, <2>2, <2>3, <3>1 DEF TransferFits
  <2> QED BY <1>8, <1>11, <2>1, <2>3 DEF TransferFits, Holds
<1>16. AskingFits(a)'
  <2>1. ToldTruly(a)'
    BY <1>5, <1>8 DEF ToldTruly
  <2>2. place = "creditWallet" => told[a] \in {"failed", "rejected"}
    BY <1>2, HookStatuses DEF RefundDue
  <2> QED BY <1>2, <1>5, <1>8, <2>1, <2>2 DEF AskingFits
<1>17. ASSUME ~overlapped, NEW s \in Transfer PROVE RowsAgree(s)'
  <2>1. RowsAgree(s)
    BY <1>17 DEF PaymentsInv
  <2>2. CASE s /= t
    <3>1. \A b \in Asking : b /= a => (HalfWritten(b)' <=> HalfWritten(b))
      BY <1>8 DEF HalfWritten
    <3>2. request[a] /= s
      BY <1>6, <2>2
    <3>3. ASSUME NEW q \in transaction', q.group = s PROVE \E r \in transaction : r.group = s /\ q.status = r.status
      BY <1>9, <2>2, <3>3
    <3> QED BY <1>8, <2>1, <3>1, <3>2, <3>3 DEF RowsAgree
  <2>3. CASE s = t /\ a \in Hook
    <3>1. payout[t] = HookStatus(told[a])
      BY <1>3, <1>6, <1>17, <2>3 DEF PaymentsInv, AskingInTurn
    <3>2. status = TransactionStatusOf(payout'[t])
      BY <1>1, <1>8, <2>3, <3>1
    <3> QED BY <1>9, <2>3, <3>2 DEF RowsAgree
  <2>4. CASE s = t /\ a \in Requery
    <3>1. HalfWritten(a)'
      BY <1>2, <1>8, <2>4 DEF HalfWritten
    <3> QED BY <1>6, <1>8, <2>4, <3>1 DEF RowsAgree
  <2> QED BY <2>2, <2>3, <2>4
<1>18. ASSUME ~overlapped, NEW b \in Asking PROVE AskingInTurn(b)'
  <2>1. CASE b = a
    <3>1. a \in Requery => \A q \in transaction' : q.group = t => q.status = RequeryStatus(told[a])
      BY <1>1, <1>9
    <3>2. a \in Hook => place /= "writeTransaction"
      BY <1>2
    <3> QED BY <1>6, <1>8, <2>1, <3>1, <3>2 DEF AskingInTurn
  <2>2. CASE b /= a
    <3>1. at'[b] \notin {"writePayout", "writeTransaction"}
      BY <1>3, <1>4, <1>5, <1>8, <1>18, <2>2 DEF OneAtATime, InFlight, Places
    <3> QED BY <3>1 DEF AskingInTurn
  <2> QED BY <2>1, <2>2
<1>19. UNCHANGED <<Given, told, funding, credits, outcome, overlapped>>
  BY <1>3
<1> QED BY <1>3, <1>4, <1>8, <1>10, <1>11, <1>12, <1>14, <1>15, <1>16, <1>17, <1>18, <1>19, RowStep

(***************************************************************************)
(* What the webhooks have added to the balances: an invariant over the     *)
(* one above.  In turn the balance a webhook has read is still that of the *)
(* wallet when it writes; the deposits are counted by their fundings while *)
(* their delivery lives, and by their credits when it died after writing.  *)
(***************************************************************************)
Carrying == {"insertInflow", "insertFunding", "writePayout", "writeTransaction", "creditWallet"}

WalletFor(a) == IF a \in Inflow THEN Into(a) ELSE request[request[a]].wallet

FundedTo(w) == {f \in funding : f.wallet = w /\ at[f.by] \in {"storeEvent", "done"}}
CreditedTo(w) == {c \in credits : c.wallet = w /\ (c.by \in Hook \/ at[c.by] = "lost")}

SnapsFit == \A a \in Crediting : at[a] \in Carrying => snap[a] = balance[WalletFor(a)]

SumsFit ==
  \A w \in Wallets :
    balance[w].available = Opening + SumOfAmounts(FundedTo(w)) + SumOfAmounts(CreditedTo(w))

RecordsFit ==
  /\ IsFiniteSet(funding) /\ IsFiniteSet(credits)
  /\ \A f \in funding : f.wallet = Into(f.by) /\ f.amount = AmountOf(f.by)
  /\ ~overlapped => SnapsFit /\ SumsFit

LEMMA RowsAre ==
  ASSUME PaymentsInv
  PROVE  /\ \A f \in funding : f.by \in Inflow /\ f.by \in Calls /\ f.amount \in Int /\ f.wallet \in Wallets
                               /\ at[f.by] \in {"creditWallet", "storeEvent", "done", "lost"}
         /\ \A f, g \in funding : f.by = g.by => f = g
         /\ \A c \in credits : c.by \in Crediting /\ c.by \in Calls /\ c.amount \in Int /\ c.wallet \in Wallets
                               /\ at[c.by] \in {"storeEvent", "done", "lost"}
         /\ \A c, e \in credits : c.by = e.by => c = e
<1>1. TypeOK /\ Sums \subseteq Int
  BY ValueAssumption DEF PaymentsInv
<1>2. \A f \in funding : f \in FundingRow /\ FundingFits(f)
  BY <1>1 DEF PaymentsInv, TypeOK
<1>3. \A c \in credits : c \in Credit /\ CreditFits(c)
  BY <1>1 DEF PaymentsInv, TypeOK
<1>4. \A f, g \in funding : f.by = g.by => f = g
  BY <1>2 DEF FundingFits, PaymentsInv, FundingsDiffer
<1>5. \A f \in funding : f.by \in Inflow /\ f.amount \in Int /\ f.wallet \in Wallets
  BY <1>1, <1>2 DEF FundingRow
<1>6. \A c \in credits : c.by \in Crediting /\ c.amount \in Int /\ c.wallet \in Wallets
  BY <1>1, <1>3 DEF Credit
<1>7. ASSUME NEW c \in credits, NEW e \in credits, c.by = e.by PROVE c = e
  <2>1. c.for = e.for /\ c.wallet = e.wallet /\ c.amount = e.amount
    BY <1>3, <1>6, <1>7, CallsAre DEF CreditFits
  <2> QED BY <1>3, <1>7, <2>1 DEF Credit
<1> QED BY <1>1, <1>2, <1>3, <1>4, <1>5, <1>6, <1>7, TypesAre DEF FundingFits, CreditFits

\* Which wallet a call is about does not change while it carries a balance.
LEMMA WalletStays ==
  ASSUME PaymentsInv, NEW a \in Crediting, at[a] \in Carrying, deposit' = deposit,
         \A b \in Calls : at[b] /= "idle" => request'[b] = request[b]
  PROVE  WalletFor(a)' = WalletFor(a) /\ a \in Calls /\ (a \in Inflow => WalletFor(a) \in Wallets)
<1> USE CallsAre
<1>1. a \in Calls /\ at[a] /= "idle" /\ request'[a] = request[a]
  BY DEF Carrying
<1>2. CASE a \in Inflow
  <2>1. InflowFits(a)
    BY <1>2 DEF PaymentsInv
  <2>2. at[a] \in {"insertInflow", "insertFunding", "creditWallet"}
    BY <1>1, <1>2 DEF PaymentsInv, PlacesOf, Carrying, Ends
  <2> QED BY <1>1, <1>2, <2>1, <2>2 DEF WalletFor, Into, InflowFits
<1>3. CASE a \notin Inflow
  <2>1. a \in Hook /\ at[a] \in {"writePayout", "writeTransaction", "creditWallet"}
    BY <1>1, <1>3 DEF PaymentsInv, PlacesOf, Carrying, Ends
  <2>2. payout[request[a]] /= "none"
    BY <2>1 DEF PaymentsInv, AskingFits
  <2>3. request[a] \in Calls /\ at[request[a]] = "done"
    BY <1>1, <2>1, <2>2, PayoutsAre
  <2> QED BY <1>1, <1>3, <2>3 DEF WalletFor
<1> QED BY <1>2, <1>3

\* A step that credits nothing: it may record a deposit, or read the balance of its wallet.
Still ==
  /\ UNCHANGED <<deposit, balance, credits>>
  /\ overlapped => overlapped'
  /\ funding \subseteq funding' /\ IsFiniteSet(funding')
  /\ \A f \in funding' \ funding :
       at'[f.by] = "creditWallet" /\ f.wallet = Into(f.by)' /\ f.amount = AmountOf(f.by)'
  /\ \A b \in Calls : at[b] /= "idle" => request'[b] = request[b]
  /\ \A d \in Inflow : (at'[d] \in {"storeEvent", "done"} <=> at[d] \in {"storeEvent", "done"})
                       /\ (at[d] = "lost" => at'[d] = "lost")
  /\ \A a \in Crediting : at'[a] \in Carrying =>
       (at[a] \in Carrying /\ snap'[a] = snap[a]) \/ snap'[a] = balance[WalletFor(a)']

LEMMA StillFits ==
  ASSUME PaymentsInv, RecordsFit, Still
  PROVE  RecordsFit'
<1> USE CallsAre
<1>1. \A f \in funding' : f.wallet = Into(f.by)' /\ f.amount = AmountOf(f.by)'
  <2> SUFFICES ASSUME NEW f \in funding PROVE f.wallet = Into(f.by)' /\ f.amount = AmountOf(f.by)'
    BY DEF Still
  <2>1. PICK d \in Calls : d = f.by /\ at[d] \in {"creditWallet", "storeEvent", "done", "lost"}
    BY RowsAre
  <2>2. f.wallet = Into(d) /\ f.amount = AmountOf(d)
    BY <2>1 DEF RecordsFit
  <2>3. request'[d] = request[d] /\ deposit' = deposit
    BY <2>1 DEF Still
  <2> QED BY <2>1, <2>2, <2>3 DEF Into, AmountOf
<1>2. ASSUME ~overlapped' PROVE SnapsFit'
  <2> SUFFICES ASSUME NEW a \in Crediting, at'[a] \in Carrying PROVE snap'[a] = balance'[WalletFor(a)']
    BY DEF SnapsFit
  <2>1. balance' = balance /\ ~overlapped
    BY <1>2 DEF Still
  <2>2. CASE at[a] \in Carrying /\ snap'[a] = snap[a]
    <3>1. snap[a] = balance[WalletFor(a)] /\ WalletFor(a)' = WalletFor(a)
      BY <2>1, <2>2, WalletStays DEF RecordsFit, SnapsFit, Still
    <3> QED BY <2>1, <2>2, <3>1
  <2>3. CASE snap'[a] = balance[WalletFor(a)']
    BY <2>1, <2>3
  <2> QED BY <2>2, <2>3 DEF Still
<1>3. ASSUME ~overlapped', NEW w \in Wallets
      PROVE  balance'[w].available = Opening + SumOfAmounts(FundedTo(w)') + SumOfAmounts(CreditedTo(w)')
  <2>1. FundedTo(w)' = FundedTo(w)
    <3>1. \A f \in funding' \ funding : at'[f.by] \notin {"storeEvent", "done"}
      BY DEF Still
    <3>2. \A f \in funding : at'[f.by] \in {"storeEvent", "done"} <=> at[f.by] \in {"storeEvent", "done"}
      BY RowsAre DEF Still
    <3> QED BY <3>1, <3>2 DEF FundedTo, Still
  <2>2. CreditedTo(w)' = CreditedTo(w)
    <3>1. \A c \in credits : c.by \notin Hook =>
            c.by \in Inflow /\ at[c.by] \in {"storeEvent", "done", "lost"}
      BY RowsAre
    <3>2. \A d \in Inflow : at[d] \in {"storeEvent", "done", "lost"} => (at'[d] = "lost" <=> at[d] = "lost")
      BY DEF Still
    <3> QED BY <3>1, <3>2 DEF CreditedTo, Still
  <2>3. balance' = balance /\ ~overlapped
    BY <1>3 DEF Still
  <2> QED BY <2>1, <2>2, <2>3 DEF RecordsFit, SumsFit
<1>4. IsFiniteSet(funding') /\ IsFiniteSet(credits')
  BY DEF Still, RecordsFit
<1> QED BY <1>1, <1>2, <1>3, <1>4 DEF RecordsFit, SumsFit

LEMMA RecordsAddUp ==
  ASSUME PaymentsInv, RecordsFit, NEW w
  PROVE  /\ IsFiniteSet(FundedTo(w)) /\ IsFiniteSet(CreditedTo(w))
         /\ (\A f \in FundedTo(w) : f.amount \in Int) /\ (\A c \in CreditedTo(w) : c.amount \in Int)
         /\ SumOfAmounts(FundedTo(w)) \in Int /\ SumOfAmounts(CreditedTo(w)) \in Int
<1>1. FundedTo(w) \subseteq funding /\ CreditedTo(w) \subseteq credits
  BY DEF FundedTo, CreditedTo
<1>2. /\ IsFiniteSet(FundedTo(w)) /\ IsFiniteSet(CreditedTo(w))
      /\ (\A f \in FundedTo(w) : f.amount \in Int) /\ (\A c \in CreditedTo(w) : c.amount \in Int)
  BY <1>1, RowsAre, FS_Subset DEF RecordsFit
<1> QED BY <1>2, SumInt

\* The write of a webhook: a deposit counts by its funding from now on, a refund by its credit.
LEMMA WritesFit ==
  ASSUME PaymentsInv, RecordsFit, NEW a \in Crediting, at[a] = "creditWallet",
         NEW cause, NEW n \in Int, Write(a, cause, WalletFor(a), n), a \in Inflow => n = AmountOf(a)
  PROVE  RecordsFit'
<1> USE CallsAre
<1> DEFINE u == WalletFor(a)
           credit == [by |-> a, for |-> cause, wallet |-> u, amount |-> n]
<1>1. /\ balance' = [balance EXCEPT ![u] = Plus(snap[a], n)] /\ credits' = credits \cup {credit}
      /\ at' = [at EXCEPT ![a] = "storeEvent"] /\ UNCHANGED <<request, deposit, funding, snap, overlapped>>
  BY DEF Write, Goto, Given
<1>2. /\ TypeOK /\ a \in Calls /\ at \in [Calls -> {"idle"} \cup Places \cup Ends]
      /\ balance \in [Wallets -> Balance] /\ at[a] \in Carrying
  BY DEF PaymentsInv, TypeOK, TablesTypeOK, Carrying
<1>3. at'[a] = "storeEvent" /\ \A b \in Calls : b /= a => at'[b] = at[b]
  BY <1>1, <1>2
<1>4. credit.by = a /\ credit.wallet = u /\ credit.amount = n
  OBVIOUS
<1> HIDE DEF u, credit
<1>5. IsFiniteSet(funding') /\ IsFiniteSet(credits')
  BY <1>1, FS_AddElement DEF RecordsFit
<1>6. \A f \in funding' : f.wallet = Into(f.by)' /\ f.amount = AmountOf(f.by)'
  BY <1>1 DEF RecordsFit, Into, AmountOf
<1>7. ASSUME ~overlapped' PROVE SnapsFit'
  <2> SUFFICES ASSUME NEW b \in Crediting, at'[b] \in Carrying PROVE FALSE
    BY DEF SnapsFit
  <2>1. b /= a /\ b \in Calls /\ at[b] \in Carrying /\ ~overlapped
    BY <1>1, <1>3, <1>7 DEF Carrying
  <2>2. a \in InFlight /\ b \in InFlight
    BY <1>2, <2>1 DEF InFlight, Places, Carrying
  <2> QED BY <2>1, <2>2 DEF PaymentsInv, OneAtATime
<1>8. ASSUME ~overlapped', NEW w \in Wallets
      PROVE  balance'[w].available = Opening + SumOfAmounts(FundedTo(w)') + SumOfAmounts(CreditedTo(w)')
  <2>1. /\ balance[w].available = Opening + SumOfAmounts(FundedTo(w)) + SumOfAmounts(CreditedTo(w))
        /\ snap[a] = balance[u] /\ balance[w] \in Balance
    BY <1>1, <1>2, <1>8 DEF RecordsFit, SumsFit, SnapsFit, u
  <2>2. \A c \in credits : c.by /= a /\ c.by \in Calls
    BY RowsAre
  <2>3. \A c \in credits : at'[c.by] = at[c.by]
    BY <1>3, <2>2
  <2>4. \A f \in funding : f.by \in Calls /\ (f.by /= a => at'[f.by] = at[f.by])
    BY <1>3, RowsAre
  <2>5. CASE w /= u
    <3>1. FundedTo(w)' = FundedTo(w)
      <4>1. \A f \in funding : f.wallet = w => f.by /= a
        BY <2>5, RowsAre DEF RecordsFit, u, WalletFor
      <4> QED BY <1>1, <2>4, <4>1 DEF FundedTo
    <3>2. CreditedTo(w)' = CreditedTo(w)
      BY <1>1, <1>4, <2>3, <2>5 DEF CreditedTo
    <3>3. balance'[w] = balance[w]
      BY <1>1, <1>2, <2>5
    <3> QED BY <2>1, <3>1, <3>2, <3>3
  <2>6. CASE w = u
    <3>1. balance'[w].available = balance[w].available + n
      <4>1. balance'[w] = Plus(balance[w], n)
        BY <1>1, <1>2, <2>1, <2>6
      <4> QED BY <2>1, <4>1 DEF Plus, Balance
    <3>2. CASE a \in Inflow
      <4>1. PICK f \in funding : f.by = a
        BY <3>2 DEF PaymentsInv, InflowFits
      <4>2. f.wallet = w /\ f.amount = n
        BY <2>6, <3>2, <4>1 DEF RecordsFit, u, WalletFor
      <4>3. FundedTo(w)' = FundedTo(w) \cup {f} /\ f \notin FundedTo(w)
        BY <1>1, <1>3, <2>4, <4>1, <4>2, RowsAre DEF FundedTo
      <4>4. CreditedTo(w)' = CreditedTo(w)
        BY <1>1, <1>3, <1>4, <2>3, <3>2 DEF CreditedTo
      <4>5. SumOfAmounts(FundedTo(w) \cup {f}) = SumOfAmounts(FundedTo(w)) + f.amount
        BY <4>2, <4>3, RecordsAddUp, SumAdd
      <4> QED BY <2>1, <3>1, <4>2, <4>3, <4>4, <4>5, RecordsAddUp, OpeningAssumption
    <3>3. CASE a \notin Inflow
      <4>1. a \in Hook
        BY <3>3
      <4>2. CreditedTo(w)' = CreditedTo(w) \cup {credit} /\ credit \notin CreditedTo(w)
        BY <1>1, <1>4, <2>2, <2>3, <2>6, <4>1 DEF CreditedTo
      <4>3. FundedTo(w)' = FundedTo(w)
        <5>1. \A f \in funding : f.by /= a
          BY <3>3, RowsAre
        <5> QED BY <1>1, <2>4, <5>1 DEF FundedTo
      <4>4. SumOfAmounts(CreditedTo(w) \cup {credit}) = SumOfAmounts(CreditedTo(w)) + credit.amount
        <5>1. \A c \in CreditedTo(w) \cup {credit} : c.amount \in Int
          BY <1>4, RecordsAddUp
        <5> QED BY <4>2, <5>1, RecordsAddUp, SumAdd
      <4> QED BY <1>4, <2>1, <3>1, <4>2, <4>3, <4>4, RecordsAddUp, OpeningAssumption
    <3> QED BY <3>2, <3>3
  <2> QED BY <2>5, <2>6
<1> QED BY <1>5, <1>6, <1>7, <1>8 DEF RecordsFit, SumsFit

\* A delivery that dies after its write: its deposit is counted by the credit instead.
LEMMA DeathFits ==
  ASSUME PaymentsInv, RecordsFit, ~overlapped, NEW a \in Inflow, at[a] = "storeEvent",
         at' = [at EXCEPT ![a] = "lost"], UNCHANGED <<balance, request, deposit, funding, credits>>
  PROVE  RecordsFit'
<1> USE CallsAre
<1>1. /\ TypeOK /\ a \in Calls /\ at \in [Calls -> {"idle"} \cup Places \cup Ends]
      /\ balance \in [Wallets -> Balance]
  BY DEF PaymentsInv, TypeOK, TablesTypeOK
<1>2. at'[a] = "lost" /\ \A b \in Calls : b /= a => at'[b] = at[b]
  BY <1>1
<1>3. PICK f \in funding : f.by = a
  BY DEF PaymentsInv, InflowFits
<1>4. FundingFits(f) /\ f.wallet = Into(a) /\ f.amount = AmountOf(a)
  BY <1>3 DEF RecordsFit, PaymentsInv
<1>5. PICK c \in credits : c.by = a
  BY <1>3, <1>4 DEF FundingFits, Credited
<1>6. c.wallet = f.wallet /\ c.amount = f.amount /\ f.wallet \in Wallets
  BY <1>4, <1>5, RowsAre DEF PaymentsInv, CreditFits
<1>7. \A b \in Crediting : at'[b] \notin Carrying
  <2> SUFFICES ASSUME NEW b \in Crediting, at'[b] \in Carrying PROVE FALSE
    OBVIOUS
  <2>1. b /= a /\ b \in Calls /\ at[b] \in Carrying
    BY <1>2 DEF Carrying
  <2>2. a \in InFlight /\ b \in InFlight
    BY <1>1, <2>1 DEF InFlight, Places, Carrying
  <2> QED BY <2>1, <2>2 DEF PaymentsInv, OneAtATime
<1>8. \A g \in funding : g.by = a => g = f
  BY <1>3, RowsAre
<1>9. \A e \in credits : e.by = a => e = c
  BY <1>5, RowsAre
<1>10. ASSUME NEW w \in Wallets
       PROVE  balance'[w].available = Opening + SumOfAmounts(FundedTo(w)') + SumOfAmounts(CreditedTo(w)')
  <2>1. balance[w].available = Opening + SumOfAmounts(FundedTo(w)) + SumOfAmounts(CreditedTo(w))
    BY DEF RecordsFit, SumsFit
  <2>2. \A g \in funding : g.by \in Calls
    BY RowsAre
  <2>3. \A e \in credits : e.by \in Calls
    BY RowsAre
  <2>4. CASE w /= f.wallet
    <3>1. FundedTo(w)' = FundedTo(w)
      BY <1>2, <1>8, <2>2, <2>4 DEF FundedTo
    <3>2. CreditedTo(w)' = CreditedTo(w)
      BY <1>2, <1>6, <1>9, <2>3, <2>4 DEF CreditedTo
    <3> QED BY <2>1, <3>1, <3>2
  <2>5. CASE w = f.wallet
    <3>1. f \in FundedTo(w) /\ FundedTo(w)' = FundedTo(w) \ {f}
      BY <1>2, <1>3, <1>8, <2>2, <2>5 DEF FundedTo
    <3>2. c \notin CreditedTo(w) /\ CreditedTo(w)' = CreditedTo(w) \cup {c}
      BY <1>2, <1>5, <1>6, <1>9, <2>3, <2>5 DEF CreditedTo
    <3>3. SumOfAmounts(FundedTo(w)) = f.amount + SumOfAmounts(FundedTo(w) \ {f})
      BY <3>1, RecordsAddUp, SumWithout
    <3>4. SumOfAmounts(CreditedTo(w) \cup {c}) = SumOfAmounts(CreditedTo(w)) + c.amount
      <4>1. \A e \in CreditedTo(w) \cup {c} : e.amount \in Int
        BY RecordsAddUp, RowsAre
      <4> QED BY <3>2, <4>1, RecordsAddUp, SumAdd
    <3>5. f.amount \in Int /\ SumOfAmounts(FundedTo(w) \ {f}) \in Int
      <4>1. IsFiniteSet(FundedTo(w) \ {f}) /\ \A g \in FundedTo(w) \ {f} : g.amount \in Int
        BY RecordsAddUp, FS_RemoveElement
      <4>2. SumOfAmounts(FundedTo(w) \ {f}) \in Int
        BY <4>1, SumInt
      <4> QED BY <3>1, <4>2, RecordsAddUp
    <3> QED BY <1>6, <2>1, <3>1, <3>2, <3>3, <3>4, <3>5, RecordsAddUp, OpeningAssumption
  <2> QED BY <2>4, <2>5
<1>11. \A g \in funding' : g.wallet = Into(g.by)' /\ g.amount = AmountOf(g.by)'
  BY DEF RecordsFit, Into, AmountOf
<1> QED BY <1>7, <1>10, <1>11 DEF RecordsFit, SnapsFit, SumsFit

LEMMA FaultsFit ==
  ASSUME PaymentsInv, RecordsFit, Fault
  PROVE  RecordsFit'
<1> USE CallsAre, PlacesAre
<1>1. PICK dead \in {{a} : a \in InFlight} \cup {InFlight} :
        /\ at' = [a \in Calls |-> IF a \in dead THEN "lost" ELSE at[a]]
        /\ snap' = [a \in Crediting |-> IF a \in dead THEN Both(0) ELSE snap[a]]
        /\ UNCHANGED <<balance, request, deposit, funding, credits, overlapped>> /\ InFlight /= {}
  BY DEF Fault, Given
<1>2. TypeOK /\ at \in [Calls -> {"idle"} \cup Places \cup Ends] /\ OneAtATime
  BY DEF PaymentsInv, TypeOK
<1>3. CASE overlapped
  <2>1. \A f \in funding' : f.wallet = Into(f.by)' /\ f.amount = AmountOf(f.by)'
    BY <1>1 DEF RecordsFit, Into, AmountOf
  <2> QED BY <1>1, <1>3, <2>1 DEF RecordsFit
<1>4. CASE ~overlapped
  <2>1. PICK a \in InFlight : InFlight = {a}
    BY <1>1, <1>2, <1>4 DEF OneAtATime
  <2>2. dead = {a} /\ a \in Calls /\ at[a] \in Places \ {"sent"}
    BY <2>1 DEF InFlight
  <2>3. at'[a] = "lost" /\ at' = [at EXCEPT ![a] = "lost"] /\ \A b \in Calls : b /= a => at'[b] = at[b]
    BY <1>1, <1>2, <2>2
  <2>4. CASE a \in Inflow /\ at[a] = "storeEvent"
    BY <1>1, <1>4, <2>3, <2>4, DeathFits
  <2>5. CASE ~(a \in Inflow /\ at[a] = "storeEvent")
    <3>1. ASSUME NEW b \in Crediting, at'[b] \in Carrying PROVE at[b] \in Carrying /\ snap'[b] = snap[b]
      <4>1. b \in Calls /\ b /= a
        BY <2>3, <3>1 DEF Carrying
      <4> QED BY <1>1, <2>2, <2>3, <3>1, <4>1
    <3>2. ASSUME NEW d \in Inflow
          PROVE  /\ at'[d] \in {"storeEvent", "done"} <=> at[d] \in {"storeEvent", "done"}
                 /\ at[d] = "lost" => at'[d] = "lost"
      <4>1. d = a => at[d] \notin {"storeEvent", "done", "lost"}
        BY <2>2, <2>5 DEF Places
      <4> QED BY <2>3, <4>1
    <3>3. Still
      BY <1>1, <3>1, <3>2 DEF Still, RecordsFit
    <3> QED BY <3>3, StillFits
  <2> QED BY <2>4, <2>5
<1> QED BY <1>3, <1>4

\* A call that goes on without a write to a balance.
LEMMA GoesStill ==
  ASSUME PaymentsInv, RecordsFit, NEW a \in Calls, NEW place, Goto(a, place),
         UNCHANGED <<Given, balance, funding, credits>>, overlapped => overlapped',
         a \in Inflow => /\ at[a] = "storeEvent" <=> place = "done"
                         /\ at[a] \notin {"done", "lost"} /\ place /= "storeEvent",
         \A b \in Crediting : b /= a => snap'[b] = snap[b],
         a \in Crediting /\ place \in Carrying =>
           (at[a] \in Carrying /\ snap'[a] = snap[a]) \/ snap'[a] = balance[WalletFor(a)']
  PROVE  RecordsFit'
<1> USE CallsAre
<1>1. at'[a] = place /\ \A b \in Calls : b /= a => at'[b] = at[b]
  BY DEF PaymentsInv, TypeOK, Goto
<1>2. UNCHANGED <<request, deposit>>
  BY DEF Given
<1>3. \A d \in Inflow : (at'[d] \in {"storeEvent", "done"} <=> at[d] \in {"storeEvent", "done"})
                        /\ (at[d] = "lost" => at'[d] = "lost")
  BY <1>1
<1>4. \A b \in Crediting : at'[b] \in Carrying =>
        (at[b] \in Carrying /\ snap'[b] = snap[b]) \/ snap'[b] = balance[WalletFor(b)']
  BY <1>1
<1>5. Still
  BY <1>2, <1>3, <1>4 DEF Still, RecordsFit
<1> QED BY <1>5, StillFits

LEMMA TransfersFit ==
  ASSUME PaymentsInv, RecordsFit, NEW t \in Transfer, TransferStep(t)
  PROVE  RecordsFit'
<1> USE CallsAre
<1>1. PICK place \in {"insertTransaction", "insertPayout", "failed", "done"} :
        Goto(t, place) /\ UNCHANGED <<Given, balance, funding, credits, snap, overlapped>>
  BY DEF TransferStep, CallProvider, InsertTransaction, InsertPayout, Leaves
<1> QED BY <1>1, GoesStill

LEMMA InflowsFit ==
  ASSUME PaymentsInv, RecordsFit, NEW d \in Inflow, InflowStep(d)
  PROVE  RecordsFit'
<1> USE CallsAre
<1>1. TypeOK /\ d \in Calls /\ snap \in [Crediting -> Balance] /\ d \in Crediting /\ d \notin Asking
      /\ at \in [Calls -> {"idle"} \cup Places \cup Ends]
  BY DEF PaymentsInv, TypeOK
<1>2. CASE ReadWallet(d)
  <2>1. CASE Into(d) = Stranger
    <3>1. Moves(d, "failed") /\ snap' = snap /\ at[d] = "readWallet"
      BY <1>2, <2>1, ValueAssumption DEF ReadWallet
    <3> QED BY <1>1, <3>1, GoesStill DEF Moves, Leaves, Carrying
  <2>2. CASE Into(d) /= Stranger
    <3>1. Moves(d, "insertInflow") /\ snap' = [snap EXCEPT ![d] = balance[Into(d)]] /\ at[d] = "readWallet"
      BY <1>2, <2>2 DEF ReadWallet
    <3>2. snap'[d] = balance[WalletFor(d)'] /\ \A b \in Crediting : b /= d => snap'[b] = snap[b]
      BY <1>1, <3>1 DEF Moves, Leaves, Given, WalletFor, Into
    <3> QED BY <1>1, <3>1, <3>2, GoesStill DEF Moves, Leaves
  <2> QED BY <2>1, <2>2
<1>3. CASE InsertInflow(d)
  <2>1. at[d] = "insertInflow" /\ at[d] \in Carrying /\ Leaves(d, "insertFunding") /\ UNCHANGED <<snap, rowVars, credits>>
    BY <1>3 DEF InsertInflow, Carrying
  <2> QED BY <1>1, <2>1, GoesStill DEF Leaves
<1>4. CASE InsertFunding(d)
  <2>1. at[d] = "insertFunding" /\ at[d] \in Carrying /\ credits' = credits
    BY <1>4 DEF InsertFunding, Carrying
  <2>2. CASE Leaves(d, "failed") /\ Forget(d) /\ UNCHANGED funding
    <3>1. \A b \in Crediting : b /= d => snap'[b] = snap[b]
      BY <1>1, <2>2 DEF Forget
    <3> QED BY <1>1, <2>1, <2>2, <3>1, GoesStill DEF Leaves, Carrying
  <2>3. CASE AddFunding(d)
    <3> DEFINE row == [reference |-> request[d], wallet |-> Into(d), amount |-> AmountOf(d),
                       transaction |-> DrawnRef("inflow", d), by |-> d]
    <3>1. /\ funding' = funding \cup {row} /\ snap' = snap /\ at' = [at EXCEPT ![d] = "creditWallet"]
          /\ UNCHANGED <<request, deposit, balance, overlapped, credits>>
      BY <2>1, <2>3 DEF AddFunding, Leaves, Goto, Given
    <3>2. row.by = d /\ row.wallet = Into(d) /\ row.amount = AmountOf(d)
      OBVIOUS
    <3> HIDE DEF row
    <3>3. at'[d] = "creditWallet" /\ \A b \in Calls : b /= d => at'[b] = at[b]
      BY <1>1, <3>1
    <3>4. \A f \in funding' \ funding :
            at'[f.by] = "creditWallet" /\ f.wallet = Into(f.by)' /\ f.amount = AmountOf(f.by)'
      BY <3>1, <3>2, <3>3 DEF Into, AmountOf
    <3>5. funding \subseteq funding' /\ IsFiniteSet(funding')
      BY <3>1, FS_AddElement DEF RecordsFit
    <3>6. \A e \in Inflow : (at'[e] \in {"storeEvent", "done"} <=> at[e] \in {"storeEvent", "done"})
                            /\ (at[e] = "lost" => at'[e] = "lost")
      BY <2>1, <3>3
    <3>7. \A a \in Crediting : at'[a] \in Carrying => at[a] \in Carrying /\ snap'[a] = snap[a]
      BY <2>1, <3>1, <3>3
    <3>8. Still
      BY <3>1, <3>4, <3>5, <3>6, <3>7 DEF Still
    <3> QED BY <3>8, StillFits
  <2> QED BY <1>4, <2>2, <2>3 DEF InsertFunding
<1>5. CASE CreditWallet(d)
  <2>1. /\ at[d] = "creditWallet" /\ AmountOf(d) \in Int /\ Into(d) = WalletFor(d)
        /\ Write(d, request[d], Into(d), AmountOf(d))
    BY <1>1, <1>5, DepositsAre DEF CreditWallet, WalletFor
  <2> QED BY <1>1, <2>1, WritesFit
<1>6. CASE StoreEvent(d)
  <2>1. at[d] = "storeEvent" /\ Leaves(d, "done") /\ UNCHANGED <<funding, credits>> /\ Forget(d)
    BY <1>6 DEF StoreEvent
  <2>2. \A b \in Crediting : b /= d => snap'[b] = snap[b]
    BY <1>1, <2>1 DEF Forget
  <2> QED BY <1>1, <2>1, <2>2, GoesStill DEF Leaves, Carrying
<1> QED BY <1>2, <1>3, <1>4, <1>5, <1>6 DEF InflowStep

LEMMA AskingsFit ==
  ASSUME PaymentsInv, RecordsFit, NEW a \in Asking,
         AskingStep(a) \/ (a \in Hook /\ (Refund(a) \/ StoreEvent(a))) \/ (a \in Requery /\ AskProvider(a))
  PROVE  RecordsFit'
<1> USE CallsAre
<1>1. TypeOK /\ a \in Calls /\ a \notin Inflow /\ snap \in [Crediting -> Balance]
      /\ (a \in Crediting => a \in Hook)
  BY DEF PaymentsInv, TypeOK
<1>2. CASE ReadPayout(a)
  <2>1. CASE payout[request[a]] = "none"
    <3>1. PICK place \in {"failed", "done"} : Moves(a, place) /\ snap' = snap
      BY <1>2, <2>1 DEF ReadPayout
    <3> QED BY <1>1, <3>1, GoesStill DEF Moves, Leaves, Carrying
  <2>2. CASE payout[request[a]] /= "none" /\ a \in Hook
    <3>1. Moves(a, "writePayout") /\ snap' = [snap EXCEPT ![a] = balance[request[request[a]].wallet]]
      BY <1>2, <2>2 DEF ReadPayout
    <3>2. snap'[a] = balance[WalletFor(a)'] /\ \A b \in Crediting : b /= a => snap'[b] = snap[b]
      BY <1>1, <2>2, <3>1 DEF Moves, Leaves, Given, WalletFor
    <3> QED BY <1>1, <3>1, <3>2, GoesStill DEF Moves, Leaves
  <2>3. CASE payout[request[a]] /= "none" /\ a \notin Hook
    <3>1. Moves(a, "askProvider") /\ snap' = snap
      BY <1>2, <2>3 DEF ReadPayout
    <3> QED BY <1>1, <3>1, GoesStill DEF Moves, Leaves, Carrying
  <2> QED BY <2>1, <2>2, <2>3
<1>3. CASE WritePayout(a)
  <2>1. /\ at[a] = "writePayout" /\ at[a] \in Carrying /\ UNCHANGED <<snap, funding, credits>>
        /\ Leaves(a, "writeTransaction") \/ Leaves(a, "done")
    BY <1>3 DEF WritePayout, Carrying
  <2> QED BY <1>1, <2>1, GoesStill DEF Leaves
<1>4. CASE WriteTransaction(a)
  <2>1. PICK place \in {"creditWallet", "storeEvent", "writePayout"} :
          /\ at[a] = "writeTransaction" /\ at[a] \in Carrying /\ UNCHANGED <<snap, funding, credits>>
          /\ Leaves(a, place)
    BY <1>4 DEF WriteTransaction, Carrying
  <2> QED BY <1>1, <2>1, GoesStill DEF Leaves
<1>5. CASE a \in Hook /\ Refund(a)
  <2>1. at[a] = "creditWallet" /\ Write(a, request[a], WalletFor(a), request[request[a]].amount)
    BY <1>1, <1>5 DEF Refund, WalletFor
  <2>2. AskingFits(a)
    BY DEF PaymentsInv
  <2>3. payout[request[a]] /= "none"
    BY <2>1, <2>2 DEF AskingFits
  <2>4. request[request[a]] \in [wallet : Wallets, amount : Sums, key : Keys \cup {NoKey}] /\ Sums \subseteq Int
    BY <2>1, <2>3, PayoutsAre, ValueAssumption
  <2>5. request[request[a]].amount \in Int
    BY <2>4
  <2> QED BY <1>1, <1>5, <2>1, <2>5, WritesFit
<1>6. CASE a \in Hook /\ StoreEvent(a)
  <2>1. Leaves(a, "done") /\ UNCHANGED <<funding, credits>> /\ Forget(a)
    BY <1>6 DEF StoreEvent
  <2>2. \A b \in Crediting : b /= a => snap'[b] = snap[b]
    BY <1>1, <2>1 DEF Forget
  <2> QED BY <1>1, <2>1, <2>2, GoesStill DEF Leaves, Carrying
<1>7. CASE a \in Requery /\ AskProvider(a)
  <2>1. PICK place \in {"writeTransaction", "failed"} : Moves(a, place) /\ snap' = snap
    BY <1>7 DEF AskProvider
  <2> QED BY <1>1, <1>7, <2>1, GoesStill DEF Moves, Leaves
<1> QED BY <1>2, <1>3, <1>4, <1>5, <1>6, <1>7 DEF AskingStep

LEMMA RecordsFitOn == PaymentsInv /\ RecordsFit /\ [Next]_vars => RecordsFit'
<1> SUFFICES ASSUME PaymentsInv, RecordsFit, [Next]_vars PROVE RecordsFit'
  OBVIOUS
<1> USE CallsAre
<1>1. TypeOK /\ at \in [Calls -> {"idle"} \cup Places \cup Ends] /\ DOMAIN request = Calls /\ IsFiniteSet(funding)
  BY DEF PaymentsInv, TypeOK, RecordsFit
<1>2. ASSUME NEW a \in Calls, Arrive(a) PROVE RecordsFit'
  <2>1. /\ at[a] \in {"idle", "sent"} /\ Goto(a, First(a))
        /\ UNCHANGED <<balance, deposit, snap, funding, credits>>
    BY <1>2 DEF Arrive
  <2>2. at'[a] = First(a) /\ \A b \in Calls : b /= a => at'[b] = at[b]
    BY <1>1, <2>1 DEF Goto
  <2>3. First(a) \in {"callProvider", "readWallet", "readPayout"}
    BY DEF First
  <2>4. First(a) \notin Carrying \cup {"storeEvent", "done", "lost"}
    BY <2>3 DEF Carrying
  <2>5. \A b \in Calls : at[b] /= "idle" => request'[b] = request[b]
    BY <1>1, <1>2 DEF Arrive
  <2>6. overlapped => overlapped'
    BY <1>2 DEF Arrive
  <2>7. \A b \in Crediting : at'[b] \in Carrying => at[b] \in Carrying /\ snap'[b] = snap[b]
    BY <2>1, <2>2, <2>4
  <2>8. \A d \in Inflow : (at'[d] \in {"storeEvent", "done"} <=> at[d] \in {"storeEvent", "done"})
                          /\ (at[d] = "lost" => at'[d] = "lost")
    BY <2>1, <2>2, <2>4
  <2>9. Still
    BY <1>1, <2>1, <2>5, <2>6, <2>7, <2>8 DEF Still
  <2> QED BY <2>9, StillFits
<1>3. ASSUME NEW h \in Hook, SendHook(h) PROVE RecordsFit'
  <2>1. at[h] = "idle" /\ Goto(h, "sent") /\ UNCHANGED <<balance, deposit, snap, funding, credits, overlapped>>
        /\ \A b \in Calls : b /= h => request'[b] = request[b]
    BY <1>1, <1>3 DEF SendHook
  <2>2. at'[h] = "sent" /\ \A b \in Calls : b /= h => at'[b] = at[b]
    BY <1>1, <2>1 DEF Goto
  <2>3. \A b \in Crediting : at'[b] \in Carrying => at[b] \in Carrying /\ snap'[b] = snap[b]
    BY <2>1, <2>2 DEF Carrying
  <2>4. Still
    BY <1>1, <2>1, <2>2, <2>3 DEF Still
  <2> QED BY <2>4, StillFits
<1>4. ASSUME UNCHANGED <<callVars, balance, funding, credits, overlapped>> PROVE RecordsFit'
  <2>1. Still
    BY <1>1, <1>4 DEF Still
  <2> QED BY <2>1, StillFits
<1>5. ASSUME NEW t \in Transfer, Settle(t) PROVE RecordsFit'
  BY <1>4, <1>5 DEF Settle
<1>6. CASE UNCHANGED vars
  BY <1>4, <1>6
<1>7. CASE \E a \in Asking : AskingStep(a)
  BY <1>7, AskingsFit
<1>8. CASE \E h \in Hook : SendHook(h) \/ Refund(h) \/ StoreEvent(h)
  BY <1>3, <1>8, AskingsFit
<1>9. CASE \E r \in Requery : AskProvider(r)
  BY <1>9, AskingsFit
<1>10. CASE \E t \in Transfer : TransferStep(t) \/ Settle(t)
  BY <1>5, <1>10, TransfersFit
<1>11. CASE \E d \in Inflow : InflowStep(d)
  BY <1>11, InflowsFit
<1> QED BY <1>2, <1>6, <1>7, <1>8, <1>9, <1>10, <1>11, FaultsFit DEF Next

LEMMA RecordsFitFirst == Init => RecordsFit
<1> SUFFICES ASSUME Init PROVE RecordsFit
  OBVIOUS
<1> USE CallsAre
<1>1. funding = {} /\ credits = {} /\ IsFiniteSet(funding) /\ IsFiniteSet(credits)
  BY FS_EmptySet DEF Init
<1>2. \A a \in Crediting : at[a] \notin Carrying
  BY DEF Init, Carrying
<1>3. ASSUME NEW w \in Wallets
      PROVE  balance[w].available = Opening + SumOfAmounts(FundedTo(w)) + SumOfAmounts(CreditedTo(w))
  <2>1. balance[w].available = Opening
    BY DEF Init, TablesInit, Both
  <2>2. FundedTo(w) = {} /\ CreditedTo(w) = {}
    BY <1>1 DEF FundedTo, CreditedTo
  <2> QED BY <2>1, <2>2, SumOfNone, OpeningAssumption
<1> QED BY <1>1, <1>2, <1>3 DEF RecordsFit, SnapsFit, SumsFit

(***************************************************************************)
(*                               THEOREMS                                  *)
(***************************************************************************)
LEMMA InitiallyHolds == Init => PaymentsInv
<1> SUFFICES ASSUME Init PROVE PaymentsInv
  OBVIOUS
<1> USE CallsAre
<1>1. /\ deposit \in [Deposits -> [wallet : Wallets \cup {Stranger}, amount : Sums]]
      /\ request = [a \in Calls |-> NoRequest] /\ at = [a \in Calls |-> "idle"] /\ told = [a \in Asking |-> "none"]
      /\ snap = [a \in Crediting |-> Both(0)] /\ payout = [t \in Transfer |-> "none"] /\ funding = {} /\ webhookEvent = {}
      /\ credits = {} /\ overlapped = FALSE /\ outcome = [t \in Transfer |-> "none"] /\ faults = 0 /\ transaction = {}
  BY DEF Init, TablesInit
<1>2. TablesTypeOK
  BY OpeningAssumption DEF Init, TablesInit, TablesTypeOK, Both, Balance
<1>3. faults \in 0..MaxFaults /\ snap \in [Crediting -> Balance]
  BY <1>1, PaymentBounds DEF Both, Balance
<1>4. TypeOK
  BY <1>1, <1>2, <1>3 DEF TypeOK, Outcomes, Answers
<1>5. OneAtATime /\ ReferencesDiffer /\ FundingsDiffer
  BY <1>1 DEF OneAtATime, InFlight, Places, ReferencesDiffer, FundingsDiffer
<1>6. \A a \in Calls : at[a] \in PlacesOf(a)
  BY <1>1 DEF PlacesOf
<1>7. \A t \in Transfer : TransferFits(t) /\ RowsAgree(t)
  BY <1>1 DEF TransferFits, RowsAgree, Holds
<1>8. \A d \in Inflow : InflowFits(d) /\ LeftBehind(d)
  BY <1>1 DEF InflowFits, LeftBehind
<1>9. \A a \in Asking : AskingFits(a) /\ AskingInTurn(a)
  BY <1>1 DEF AskingFits, ToldTruly, AskingInTurn
<1>10. (\A r \in transaction : RowFits(r)) /\ (\A f \in funding : FundingFits(f)) /\ (\A c \in credits : CreditFits(c))
  BY <1>1
<1> QED BY <1>4, <1>5, <1>6, <1>7, <1>8, <1>9, <1>10 DEF PaymentsInv

LEMMA NextKeeps == PaymentsInv /\ [Next]_vars => PaymentsInv'
<1> SUFFICES ASSUME PaymentsInv, [Next]_vars PROVE PaymentsInv'
  OBVIOUS
<1> USE CallsAre
<1>1. CASE \E a \in Calls : Arrive(a)
  BY <1>1, Arrives
<1>2. CASE \E t \in Transfer : TransferStep(t) \/ Settle(t)
  <2>1. ASSUME NEW t \in Transfer, InsertTransaction(t) PROVE PaymentsInv'
    BY <2>1, InsertsTransaction, FindsReferenceTaken DEF InsertTransaction
  <2> QED BY <1>2, <2>1, CallsProvider, InsertsPayout, Settles DEF TransferStep
<1>3. CASE \E d \in Inflow : InflowStep(d)
  BY <1>3, ReadsWallet, InsertsInflow, InsertsFunding, CreditsWallet, StoresEvent DEF InflowStep
<1>4. CASE \E a \in Asking : AskingStep(a)
  BY <1>4, ReadsPayout, WritesPayout, WritesTransaction DEF AskingStep
<1>5. CASE \E h \in Hook : SendHook(h) \/ Refund(h) \/ StoreEvent(h)
  BY <1>5, SendsHook, Refunds, StoresEvent
<1>6. CASE \E r \in Requery : AskProvider(r)
  BY <1>6, AsksProvider
<1>7. CASE Fault
  BY <1>7, Faults
<1>8. CASE UNCHANGED vars
  BY <1>8, Stutters
<1> QED BY <1>1, <1>2, <1>3, <1>4, <1>5, <1>6, <1>7, <1>8 DEF Next

\* The inductive invariant: rows, fundings and credits name the call that wrote them and
\* how far it got, and what a call was told of a payout is still so.
THEOREM InductiveInvariant == Spec => []PaymentsInv
BY InitiallyHolds, NextKeeps, PTL DEF Spec

\* Every row, and every local of a call, holds a value of its type, through every
\* interleaving of payouts, deposits, notices, requeries and faults.
THEOREM TypeCorrect == Spec => []TypeOK
<1>1. PaymentsInv => TypeOK
  BY DEF PaymentsInv
<1> QED BY <1>1, InductiveInvariant, PTL

\* However many deliveries announce a deposit, and however they interleave, it is credited
\* once: the unique column lets one of them through.
THEOREM DepositsOnce == Spec => []DepositsAreCreditedOnce
<1>1. ASSUME PaymentsInv PROVE DepositsAreCreditedOnce
  <2> SUFFICES ASSUME NEW c \in credits, NEW e \in credits, c.by \in Inflow, e.by \in Inflow, c.for = e.for PROVE c = e
    BY DEF DepositsAreCreditedOnce
  <2>1. CreditFits(c) /\ CreditFits(e) /\ c \in Credit /\ e \in Credit
    BY <1>1 DEF PaymentsInv, TypeOK
  <2>2. PICK f \in funding : f.by = c.by
    BY <2>1 DEF CreditFits
  <2>3. PICK g \in funding : g.by = e.by
    BY <2>1 DEF CreditFits
  <2>4. f.reference = request[c.by] /\ g.reference = request[e.by]
    BY <1>1, <2>2, <2>3 DEF PaymentsInv, FundingFits
  <2>5. f = g
    <3>1. f.reference = g.reference
      BY <2>1, <2>4 DEF CreditFits
    <3> QED BY <1>1, <3>1 DEF PaymentsInv, FundingsDiffer
  <2>6. c.by = e.by
    BY <2>2, <2>3, <2>5
  <2>7. c.wallet = e.wallet /\ c.amount = e.amount
    BY <2>1, <2>6 DEF CreditFits
  <2> QED BY <2>1, <2>6, <2>7 DEF Credit
<1> QED BY <1>1, InductiveInvariant, PTL

\* A recorded deposit has its funding; and a record without one belongs to a delivery that
\* died, or that repeated a deposit whose funding is credited, being credited, or died.
THEOREM InflowsStayExplained == Spec => []InflowsAreExplained
<1>1. ASSUME PaymentsInv PROVE InflowsAreExplained
  <2> SUFFICES ASSUME NEW d \in Inflow
               PROVE  LET mine == {r.reference : r \in {t \in transaction : t.group = d}} IN
                      /\ at[d] \in {"creditWallet", "storeEvent", "done"} =>
                           \E f \in funding : f.by = d /\ f.transaction \in mine
                      /\ at[d] = "failed" /\ mine /= {} =>
                           \E f \in funding :
                             /\ f.by /= d /\ f.reference = request[d]
                             /\ at[f.by] \in {"creditWallet", "lost"} \/ \E c \in credits : c.by = f.by
    BY DEF InflowsAreExplained
  <2> DEFINE mine == {r.reference : r \in {t \in transaction : t.group = d}}
  <2>1. InflowFits(d) /\ LeftBehind(d)
    BY <1>1 DEF PaymentsInv
  <2>2. ASSUME at[d] \in {"creditWallet", "storeEvent", "done"}
        PROVE  \E f \in funding : f.by = d /\ f.transaction \in mine
    <3>1. PICK r \in transaction : r.group = d
      BY <2>1, <2>2 DEF InflowFits, Recorded
    <3>2. r.reference = DrawnRef("inflow", d)
      BY <1>1, <3>1, CallsAre DEF PaymentsInv, RowFits, OwnReference
    <3>3. PICK f \in funding : f.by = d
      BY <2>1, <2>2 DEF InflowFits
    <3>4. f.transaction = DrawnRef("inflow", d)
      BY <1>1, <3>3 DEF PaymentsInv, FundingFits
    <3> QED BY <3>1, <3>2, <3>3, <3>4
  <2>3. ASSUME at[d] = "failed", mine /= {}
        PROVE  \E f \in funding :
                 /\ f.by /= d /\ f.reference = request[d]
                 /\ at[f.by] \in {"creditWallet", "lost"} \/ \E c \in credits : c.by = f.by
    <3>1. Recorded(d)
      BY <2>3 DEF Recorded
    <3>2. PICK f \in funding : f.by /= d /\ f.reference = request[d]
      BY <2>1, <2>3, <3>1 DEF LeftBehind
    <3>3. FundingFits(f)
      BY <1>1 DEF PaymentsInv
    <3> QED BY <3>2, <3>3 DEF FundingFits, Credited
  <2> QED BY <2>2, <2>3
<1> QED BY <1>1, InductiveInvariant, PTL

\* A refund is of a payout the provider has failed or rejected, to the wallet and for the
\* amount of the payout, in whatever order notices and requeries arrive.
THEOREM RefundsAreDue == Spec => []RefundsFollowFailures
<1>1. ASSUME PaymentsInv PROVE RefundsFollowFailures
  <2>1. ASSUME NEW c \in credits, c.by \in Hook
        PROVE  /\ told[c.by] \in {"failed", "rejected"} /\ outcome[c.for] = told[c.by]
               /\ c.wallet = request[c.for].wallet /\ c.amount = request[c.for].amount
    <3>1. CreditFits(c) /\ AskingFits(c.by)
      BY <1>1, <2>1, CallsAre DEF PaymentsInv
    <3> QED BY <2>1, <3>1 DEF CreditFits, AskingFits, ToldTruly
  <2> QED BY <2>1 DEF RefundsFollowFailures
<1> QED BY <1>1, InductiveInvariant, PTL

\* A final status in either row of a payout is the provider's; and while calls come one at
\* a time the rows agree, unless a call died between them.
THEOREM StatusesAreTheProviders == Spec => []PayoutStatusesAreTheProviders
<1>1. ASSUME PaymentsInv PROVE PayoutStatusesAreTheProviders
  <2> SUFFICES ASSUME NEW t \in Transfer
               PROVE  LET rows == {r \in transaction : r.group = t}
                          statuses == {payout[t]} \cup {r.status : r \in rows}
                      IN /\ "SUCCESS" \in statuses => outcome[t] \in {"success", "reversed"}
                         /\ statuses \cap {"FAILED", "REJECTED"} /= {} => outcome[t] \in {"failed", "rejected"}
                         /\ "REVERSED" \in statuses => outcome[t] = "reversed"
                         /\ (~overlapped /\ payout[t] /= "none"
                               /\ \A a \in Asking : request[a] = t => at[a] \in {"idle", "sent", "failed", "done"}) =>
                              \A r \in rows : r.status = TransactionStatusOf(payout[t])
    BY DEF PayoutStatusesAreTheProviders
  <2> DEFINE rows == {r \in transaction : r.group = t}
             statuses == {payout[t]} \cup {r.status : r \in rows}
  <2>1. TransferFits(t)
    BY <1>1 DEF PaymentsInv
  <2>2. ASSUME NEW s \in statuses PROVE Holds(s, outcome[t])
    BY <2>1, <2>2 DEF TransferFits
  <2>3. ASSUME ~overlapped, payout[t] /= "none",
               \A a \in Asking : request[a] = t => at[a] \in {"idle", "sent", "failed", "done"}
        PROVE  \A r \in rows : r.status = TransactionStatusOf(payout[t])
    <3>1. RowsAgree(t)
      BY <1>1, <2>3 DEF PaymentsInv
    <3>2. \A a \in Asking : request[a] = t => ~HalfWritten(a)
      BY <2>3 DEF HalfWritten
    <3> QED BY <2>3, <3>1, <3>2 DEF RowsAgree
  <2>4. /\ "SUCCESS" \in statuses => outcome[t] \in {"success", "reversed"}
        /\ statuses \cap {"FAILED", "REJECTED"} /= {} => outcome[t] \in {"failed", "rejected"}
        /\ "REVERSED" \in statuses => outcome[t] = "reversed"
    <3> HIDE DEF statuses
    <3> QED BY <2>2 DEF Holds
  <2> QED BY <2>3, <2>4
<1> QED BY <1>1, InductiveInvariant, PTL

\* While calls have come one at a time, and none is being served, a wallet holds what it
\* opened with, the deposits recorded for it and the refunds; a delivery that died counts
\* only if it had written the balance before.
THEOREM BalancesStayMatched == Spec => []BalancesMatchTheRecords
<1>1. Spec => []RecordsFit
  BY RecordsFitFirst, RecordsFitOn, InductiveInvariant, PTL DEF Spec
<1>2. ASSUME PaymentsInv, RecordsFit PROVE BalancesMatchTheRecords
  <2> SUFFICES ASSUME ~overlapped, InFlight = {}, NEW w \in Wallets
               PROVE  balance[w].available =
                        Opening + SumOfAmounts({f \in funding : f.wallet = w /\ at[f.by] /= "lost"})
                                + SumOfAmounts({c \in credits : c.wallet = w /\ (c.by \in Hook \/ at[c.by] = "lost")})
    BY DEF BalancesMatchTheRecords
  <2>1. balance[w].available = Opening + SumOfAmounts(FundedTo(w)) + SumOfAmounts(CreditedTo(w))
    BY <1>2 DEF RecordsFit, SumsFit
  <2>2. \A f \in funding : at[f.by] \in {"done", "lost"}
    <3> SUFFICES ASSUME NEW f \in funding, at[f.by] \notin {"done", "lost"} PROVE FALSE
      OBVIOUS
    <3>1. f.by \in Calls /\ at[f.by] \in {"creditWallet", "storeEvent"}
      BY <1>2, RowsAre
    <3>2. f.by \in InFlight
      BY <3>1 DEF InFlight, Places
    <3> QED BY <3>2
  <2>3. FundedTo(w) = {f \in funding : f.wallet = w /\ at[f.by] /= "lost"}
    BY <2>2 DEF FundedTo
  <2> QED BY <2>1, <2>3 DEF CreditedTo
<1> QED BY <1>1, <1>2, InductiveInvariant, PTL

(***************************************************************************)
(* handleInflowWebhook implements DepositDesk: a call that arrives is a    *)
(* notice, the insert of the funding takes the deposit, the write of the   *)
(* balance credits it, and the end of the call accepts or refuses.         *)
(***************************************************************************)
announcedBar == [d \in Inflow |-> request[d]]
takenBar == {[deposit |-> f.reference, by |-> f.by] : f \in funding}
creditedBar ==
  {[deposit |-> c.for, by |-> c.by, worth |-> [wallet |-> c.wallet, amount |-> c.amount]] :
     c \in {e \in credits : e.by \in Inflow}}
answerBar == [d \in Inflow |-> AnswerTo(d)]

LEMMA TheDesk ==
  /\ Desk!Init <=> /\ deposit \in [Deposits -> [wallet : Wallets \cup {Stranger}, amount : Sums]]
                   /\ announcedBar = [d \in Inflow |-> NoRequest]
                   /\ takenBar = {} /\ creditedBar = {}
                   /\ answerBar = [d \in Inflow |-> "pending"]
  /\ UNCHANGED <<deposit, announcedBar, takenBar, creditedBar, answerBar>> => [Desk!Next]_(Desk!desk)
  /\ \A d \in Inflow :
       /\ /\ announcedBar[d] = NoRequest
          /\ \E x \in Deposits : announcedBar' = [announcedBar EXCEPT ![d] = x]
          /\ UNCHANGED <<deposit, takenBar, creditedBar, answerBar>>
          => Desk!Next
       /\ /\ answerBar[d] = "pending"
          /\ announcedBar[d] \in Deposits
          /\ deposit[announcedBar[d]] \in [wallet : Wallets, amount : Sums]
          /\ \A t \in takenBar : t.deposit /= announcedBar[d]
          /\ takenBar' = takenBar \cup {[deposit |-> announcedBar[d], by |-> d]}
          /\ UNCHANGED <<deposit, announcedBar, creditedBar, answerBar>>
          => Desk!Next
       /\ /\ answerBar[d] = "pending"
          /\ [deposit |-> announcedBar[d], by |-> d] \in takenBar
          /\ \A c \in creditedBar : c.deposit /= announcedBar[d]
          /\ creditedBar' = creditedBar \cup
               {[deposit |-> announcedBar[d], by |-> d, worth |-> deposit[announcedBar[d]]]}
          /\ UNCHANGED <<deposit, announcedBar, takenBar, answerBar>>
          => Desk!Next
       /\ /\ answerBar[d] = "pending"
          /\ \E c \in creditedBar : c.deposit = announcedBar[d] /\ c.by = d
          /\ answerBar' = [answerBar EXCEPT ![d] = "accepted"]
          /\ UNCHANGED <<deposit, announcedBar, takenBar, creditedBar>>
          => Desk!Next
  /\ \A S \in SUBSET Inflow :
       /\ \A d \in S : answerBar[d] = "pending"
       /\ answerBar' = [d \in Inflow |-> IF d \in S THEN "refused" ELSE answerBar[d]]
       /\ UNCHANGED <<deposit, announcedBar, takenBar, creditedBar>>
       => Desk!Next
BY DEF Desk!Init, Desk!Next, Desk!desk, Desk!Announce, Desk!Take, Desk!Credit, Desk!Accept,
       Desk!Refuse, Desk!Untaken, Desk!Uncredited, announcedBar, takenBar, creditedBar, answerBar

\* A delivery that has credited its deposit holds its funding, and nobody else does.
LEMMA CreditsAreOfTheirTaker ==
  ASSUME PaymentsInv, NEW d \in Inflow, NEW f \in funding, f.by = d,
         NEW c \in credits, c.by \in Inflow, c.for = request[d]
  PROVE  c.by = d
<1>1. CreditFits(c) /\ FundingFits(f)
  BY DEF PaymentsInv
<1>2. PICK g \in funding : g.by = c.by
  BY <1>1 DEF CreditFits
<1>3. FundingFits(g)
  BY DEF PaymentsInv
<1>4. g.reference = f.reference
  BY <1>1, <1>2, <1>3 DEF FundingFits, CreditFits
<1> QED BY <1>2, <1>4 DEF PaymentsInv, FundingsDiffer

\* Steps that write neither a funding nor the balance of a deposit.
DeskIdle ==
  /\ UNCHANGED <<deposit, funding>>
  /\ {e \in credits : e.by \in Inflow}' = {e \in credits : e.by \in Inflow}

LEMMA IdleDesk == DeskIdle => UNCHANGED <<deposit, takenBar, creditedBar>>
BY DEF DeskIdle, takenBar, creditedBar

\* The calls that are no deliveries.
LEMMA OthersAtTheDesk ==
  ASSUME DeskIdle, \A d \in Inflow : at'[d] = at[d] /\ request'[d] = request[d]
  PROVE  [Desk!Next]_(Desk!desk)
<1>1. UNCHANGED <<announcedBar, answerBar>>
  BY DEF announcedBar, answerBar, AnswerTo
<1> QED BY <1>1, IdleDesk, TheDesk

\* A delivery that goes on, and one that is refused.
LEMMA GoesOnAtTheDesk ==
  ASSUME NEW d \in Inflow, DeskIdle, request' = request,
         \A e \in Inflow : e /= d => at'[e] = at[e],
         at[d] \notin Ends, at'[d] \notin {"done", "lost"}
  PROVE  [Desk!Next]_(Desk!desk)
<1>1. announcedBar' = announcedBar
  BY DEF announcedBar
<1>2. answerBar[d] = "pending" /\ \A e \in Inflow : e /= d => AnswerTo(e)' = AnswerTo(e)
  BY DEF answerBar, AnswerTo, Ends
<1>3. CASE at'[d] /= "failed"
  <2>1. AnswerTo(d) = "pending" /\ AnswerTo(d)' = "pending"
    BY <1>3 DEF AnswerTo, Ends
  <2>2. answerBar' = answerBar
    BY <1>2, <2>1 DEF answerBar
  <2> QED BY <1>1, <2>2, IdleDesk, TheDesk
<1>4. CASE at'[d] = "failed"
  <2>1. AnswerTo(d)' = "refused"
    BY <1>4 DEF AnswerTo
  <2>2. answerBar' = [e \in Inflow |-> IF e \in {d} THEN "refused" ELSE answerBar[e]]
    BY <1>2, <2>1 DEF answerBar
  <2>3. {d} \in SUBSET Inflow /\ \A e \in {d} : answerBar[e] = "pending"
    BY <1>2
  <2> QED BY <1>1, <2>2, <2>3, IdleDesk, TheDesk
<1> QED BY <1>3, <1>4

LEMMA DeliveryAtTheDesk ==
  ASSUME PaymentsInv, NEW d \in Inflow, InflowStep(d)
  PROVE  [Desk!Next]_(Desk!desk)
<1> USE CallsAre
<1>1. TypeOK /\ d \in Calls /\ at \in [Calls -> {"idle"} \cup Places \cup Ends]
  BY DEF PaymentsInv, TypeOK
<1>2. ASSUME NEW place, Leaves(d, place)
      PROVE  /\ at'[d] = place /\ request' = request /\ deposit' = deposit
             /\ \A e \in Inflow : e /= d => at'[e] = at[e]
  BY <1>1, <1>2 DEF Leaves, Goto, Given
<1>3. ASSUME NEW place \in {"failed", "insertInflow", "insertFunding"}, Leaves(d, place), at[d] \notin Ends,
             UNCHANGED <<funding, credits>>
      PROVE  [Desk!Next]_(Desk!desk)
  <2>1. DeskIdle /\ at'[d] \notin {"done", "lost"}
    BY <1>2, <1>3 DEF DeskIdle
  <2> QED BY <1>2, <1>3, <2>1, GoesOnAtTheDesk
<1>4. at[d] /= "idle" /\ at[d] \notin Ends
  BY DEF InflowStep, ReadWallet, InsertInflow, InsertFunding, CreditWallet, StoreEvent, Ends
<1>5. request[d] \in Deposits /\ AnswerTo(d) = "pending"
  BY <1>1, <1>4, DepositsAre DEF AnswerTo, Ends
<1>6. announcedBar[d] = request[d] /\ answerBar[d] = "pending"
  BY <1>5 DEF announcedBar, answerBar
<1>7. CASE ReadWallet(d)
  BY <1>3, <1>4, <1>7 DEF ReadWallet, Moves
<1>8. CASE InsertInflow(d)
  BY <1>3, <1>4, <1>8 DEF InsertInflow
<1>9. CASE InsertFunding(d)
  <2>1. credits' = credits /\ at[d] = "insertFunding"
    BY <1>9 DEF InsertFunding
  <2>2. CASE Funded(request[d])
    <3>1. Leaves(d, "failed") /\ funding' = funding
      BY <1>9, <2>2 DEF InsertFunding
    <3> QED BY <1>3, <1>4, <2>1, <3>1
  <2>3. CASE ~Funded(request[d])
    <3> DEFINE row == [reference |-> request[d], wallet |-> Into(d), amount |-> AmountOf(d),
                       transaction |-> DrawnRef("inflow", d), by |-> d]
    <3>1. funding' = funding \cup {row} /\ Leaves(d, "creditWallet")
      BY <1>9, <2>3 DEF InsertFunding, AddFunding
    <3>2. row.reference = request[d] /\ row.by = d
      OBVIOUS
    <3> HIDE DEF row
    <3>3. takenBar' = takenBar \cup {[deposit |-> request[d], by |-> d]}
      BY <3>1, <3>2 DEF takenBar
    <3>4. \A t \in takenBar : t.deposit /= request[d]
      BY <2>3 DEF takenBar, Funded
    <3>5. announcedBar' = announcedBar /\ creditedBar' = creditedBar /\ deposit' = deposit
      BY <1>2, <2>1, <3>1 DEF announcedBar, creditedBar
    <3>6. answerBar' = answerBar
      <4>1. \A e \in Inflow : AnswerTo(e)' = AnswerTo(e)
        BY <1>2, <2>1, <3>1 DEF AnswerTo
      <4> QED BY <4>1 DEF answerBar
    <3>7. deposit[request[d]] \in [wallet : Wallets, amount : Sums]
      <4>1. deposit[request[d]] \in [wallet : Wallets \cup {Stranger}, amount : Sums]
        BY <1>1, <1>5 DEF TypeOK
      <4>2. deposit[request[d]].wallet \in Wallets
        BY <2>1 DEF PaymentsInv, InflowFits, Into
      <4> QED BY <4>1, <4>2
    <3> QED BY <1>5, <1>6, <3>3, <3>4, <3>5, <3>6, <3>7, TheDesk
  <2> QED BY <2>2, <2>3
<1>10. CASE CreditWallet(d)
  <2> DEFINE new == [by |-> d, for |-> request[d], wallet |-> Into(d), amount |-> AmountOf(d)]
  <2>1. /\ at[d] = "creditWallet" /\ credits' = credits \cup {new} /\ funding' = funding
        /\ request' = request /\ deposit' = deposit /\ at' = [at EXCEPT ![d] = "storeEvent"]
    BY <1>10 DEF CreditWallet, Write, Goto, Given
  <2>2. PICK f \in funding : f.by = d
    BY <2>1 DEF PaymentsInv, InflowFits
  <2>3. f.reference = request[d]
    BY <2>2 DEF PaymentsInv, FundingFits
  <2>4. [deposit |-> request[d], by |-> d] \in takenBar
    BY <2>2, <2>3 DEF takenBar
  <2>5. \A c \in creditedBar : c.deposit /= request[d]
    <3> SUFFICES ASSUME NEW c \in credits, c.by \in Inflow, c.for = request[d] PROVE FALSE
      BY DEF creditedBar
    <3>1. c.by = d
      BY <2>2, CreditsAreOfTheirTaker
    <3> QED BY <2>1, <3>1 DEF PaymentsInv, CreditFits
  <2>6. deposit[request[d]] = [wallet |-> new.wallet, amount |-> new.amount] /\ new.by = d /\ new.for = request[d]
    <3>1. deposit[request[d]] \in [wallet : Wallets \cup {Stranger}, amount : Sums]
      BY <1>1, <1>5 DEF TypeOK
    <3> QED BY <3>1 DEF Into, AmountOf
  <2> HIDE DEF new
  <2>7. creditedBar' = creditedBar \cup
          {[deposit |-> request[d], by |-> d, worth |-> deposit[request[d]]]}
    BY <2>1, <2>6 DEF creditedBar
  <2>8. announcedBar' = announcedBar /\ takenBar' = takenBar
    BY <2>1 DEF announcedBar, takenBar
  <2>9. answerBar' = answerBar
    <3>1. \A e \in Inflow : AnswerTo(e)' = AnswerTo(e)
      BY <1>1, <2>1 DEF AnswerTo
    <3> QED BY <3>1 DEF answerBar
  <2> QED BY <1>6, <2>1, <2>4, <2>5, <2>7, <2>8, <2>9, TheDesk
<1>11. CASE StoreEvent(d)
  <2>1. at[d] = "storeEvent" /\ Leaves(d, "done") /\ UNCHANGED <<funding, credits>>
    BY <1>11 DEF StoreEvent
  <2>2. DeskIdle /\ announcedBar' = announcedBar
    BY <1>2, <2>1 DEF DeskIdle, announcedBar
  <2>3. PICK f \in funding : f.by = d
    BY <2>1 DEF PaymentsInv, InflowFits
  <2>4. PICK c \in credits : c.by = d
    BY <2>1, <2>3 DEF PaymentsInv, FundingFits, Credited
  <2>5. c.for = request[d]
    BY <2>4 DEF PaymentsInv, CreditFits
  <2>6. \E b \in creditedBar : b.deposit = request[d] /\ b.by = d
    <3> DEFINE b == [deposit |-> c.for, by |-> c.by, worth |-> [wallet |-> c.wallet, amount |-> c.amount]]
    <3>1. b \in creditedBar
      BY <2>4 DEF creditedBar
    <3>2. b.deposit = request[d] /\ b.by = d
      BY <2>4, <2>5
    <3> QED BY <3>1, <3>2
  <2>7. answerBar' = [answerBar EXCEPT ![d] = "accepted"]
    <3>1. AnswerTo(d)' = "accepted" /\ \A e \in Inflow : e /= d => AnswerTo(e)' = AnswerTo(e)
      BY <1>2, <2>1 DEF AnswerTo
    <3> QED BY <3>1 DEF answerBar
  <2> QED BY <1>6, <2>2, <2>6, <2>7, IdleDesk, TheDesk
<1> QED BY <1>7, <1>8, <1>9, <1>10, <1>11 DEF InflowStep

\* A crash leaves the notices in flight without an answer.
LEMMA FaultAtTheDesk == PaymentsInv /\ Fault => [Desk!Next]_(Desk!desk)
<1> SUFFICES ASSUME PaymentsInv, Fault PROVE [Desk!Next]_(Desk!desk)
  OBVIOUS
<1> USE CallsAre
<1>1. PICK dead \in SUBSET InFlight : at' = [a \in Calls |-> IF a \in dead THEN "lost" ELSE at[a]]
  BY DEF Fault
<1>2. DeskIdle /\ request' = request
  BY DEF Fault, DeskIdle, Given
<1>3. announcedBar' = announcedBar
  BY <1>2 DEF announcedBar
<1> DEFINE S == Inflow \cap dead
<1>4. \A d \in S : AnswerTo(d) = "pending" /\ AnswerTo(d)' = "refused"
  BY <1>1 DEF AnswerTo, InFlight, Places
<1>5. \A d \in Inflow : d \notin S => AnswerTo(d)' = AnswerTo(d)
  BY <1>1 DEF AnswerTo
<1>6. S \in SUBSET Inflow
  OBVIOUS
<1> HIDE DEF S
<1>7. /\ \A d \in S : answerBar[d] = "pending"
      /\ answerBar' = [d \in Inflow |-> IF d \in S THEN "refused" ELSE answerBar[d]]
  BY <1>4, <1>5, <1>6 DEF answerBar
<1> QED BY <1>2, <1>3, <1>6, <1>7, IdleDesk, TheDesk

LEMMA ArrivesAtTheDesk ==
  ASSUME PaymentsInv, NEW a \in Calls, Arrive(a)
  PROVE  [Desk!Next]_(Desk!desk)
<1> USE CallsAre
<1>1. TypeOK /\ at \in [Calls -> {"idle"} \cup Places \cup Ends] /\ DOMAIN request = Calls
  BY DEF PaymentsInv, TypeOK
<1>2. DeskIdle /\ at' = [at EXCEPT ![a] = First(a)]
  BY DEF Arrive, Goto, DeskIdle
<1>3. \A b \in Calls : b /= a => at'[b] = at[b] /\ request'[b] = request[b]
  BY <1>1, <1>2 DEF Arrive
<1>4. CASE a \in Inflow
  <2>1. at[a] = "idle" /\ request[a] = NoRequest
    <3>1. at[a] \in {"idle", "sent"} /\ at[a] \in PlacesOf(a)
      BY DEF Arrive, PaymentsInv
    <3>2. at[a] = "idle"
      BY <1>4, <3>1 DEF PlacesOf, Ends
    <3> QED BY <1>1, <3>2 DEF TypeOK
  <2>2. PICK x \in Deposits : request' = [request EXCEPT ![a] = x]
    BY <1>4, <2>1 DEF Arrive, Requests
  <2>3. announcedBar[a] = NoRequest /\ announcedBar' = [announcedBar EXCEPT ![a] = x]
    BY <1>1, <1>4, <2>1, <2>2 DEF announcedBar
  <2>4. answerBar' = answerBar
    <3>1. at'[a] = "readWallet"
      BY <1>1, <1>2, <1>4 DEF First
    <3>2. \A d \in Inflow : AnswerTo(d)' = AnswerTo(d)
      BY <1>3, <2>1, <3>1 DEF AnswerTo
    <3> QED BY <3>2 DEF answerBar
  <2> QED BY <1>2, <1>4, <2>3, <2>4, IdleDesk, TheDesk
<1>5. CASE a \notin Inflow
  <2>1. \A d \in Inflow : at'[d] = at[d] /\ request'[d] = request[d]
    BY <1>3, <1>5
  <2> QED BY <1>2, <2>1, OthersAtTheDesk
<1> QED BY <1>4, <1>5

\* The calls about payouts.
LEMMA PayoutsAtTheDesk ==
  ASSUME PaymentsInv, NEW a \in Transfer \cup Asking,
         \/ a \in Transfer /\ TransferStep(a)
         \/ a \in Asking /\ AskingStep(a)
         \/ a \in Hook /\ (SendHook(a) \/ Refund(a) \/ StoreEvent(a))
         \/ a \in Requery /\ AskProvider(a)
  PROVE  [Desk!Next]_(Desk!desk)
<1> USE CallsAre
<1>1. at \in [Calls -> {"idle"} \cup Places \cup Ends] /\ DOMAIN request = Calls /\ a \notin Inflow
  BY DEF PaymentsInv, TypeOK
<1>2. ASSUME NEW place, Leaves(a, place), UNCHANGED <<funding, credits>>
      PROVE  [Desk!Next]_(Desk!desk)
  <2>1. DeskIdle /\ \A d \in Inflow : at'[d] = at[d] /\ request'[d] = request[d]
    BY <1>1, <1>2 DEF Leaves, Goto, Given, DeskIdle
  <2> QED BY <2>1, OthersAtTheDesk
<1>3. CASE a \in Transfer /\ TransferStep(a)
  <2>1. CASE CallProvider(a)
    <3>1. DeskIdle /\ \A d \in Inflow : at'[d] = at[d] /\ request'[d] = request[d]
      BY <1>1, <2>1 DEF CallProvider, Goto, Given, DeskIdle
    <3> QED BY <3>1, OthersAtTheDesk
  <2>2. CASE ~CallProvider(a)
    BY <1>2, <1>3, <2>2 DEF TransferStep, InsertTransaction, InsertPayout
  <2> QED BY <2>1, <2>2
<1>4. CASE a \in Asking /\ AskingStep(a)
  <2>1. PICK place \in Places \cup Ends : Leaves(a, place) /\ UNCHANGED <<funding, credits>>
    BY <1>4 DEF AskingStep, ReadPayout, WritePayout, WriteTransaction, Moves, Places, Ends
  <2> QED BY <1>2, <2>1
<1>5. CASE a \in Hook /\ SendHook(a)
  <2>1. DeskIdle /\ \A d \in Inflow : at'[d] = at[d] /\ request'[d] = request[d]
    BY <1>1, <1>5 DEF SendHook, Goto, DeskIdle
  <2> QED BY <2>1, OthersAtTheDesk
<1>6. CASE a \in Hook /\ Refund(a)
  <2> DEFINE new == [by |-> a, for |-> request[a], wallet |-> request[request[a]].wallet,
                     amount |-> request[request[a]].amount]
  <2>1. credits' = credits \cup {new} /\ new.by = a
    BY <1>6 DEF Refund, Write
  <2> HIDE DEF new
  <2>2. DeskIdle
    BY <1>1, <1>6, <2>1 DEF Refund, Write, Given, DeskIdle
  <2>3. \A d \in Inflow : at'[d] = at[d] /\ request'[d] = request[d]
    BY <1>1, <1>6 DEF Refund, Write, Goto, Given
  <2> QED BY <2>2, <2>3, OthersAtTheDesk
<1>7. CASE a \in Hook /\ StoreEvent(a)
  BY <1>2, <1>7 DEF StoreEvent
<1>8. CASE a \in Requery /\ AskProvider(a)
  BY <1>2, <1>8 DEF AskProvider, Moves
<1> QED BY <1>3, <1>4, <1>5, <1>6, <1>7, <1>8

\* handleInflowWebhook implements DepositDesk: however its deliveries are repeated and
\* interleave with each other and with payouts, notices and faults, one delivery takes a
\* deposit, and it alone credits it, once, before it is accepted (webhooks.service.ts:46-126).
THEOREM Implements == Spec => ImplementsDepositDesk
<1>1. Init => Desk!Init
  <2> SUFFICES ASSUME Init PROVE Desk!Init
    OBVIOUS
  <2>1. \A d \in Inflow : request[d] = NoRequest /\ AnswerTo(d) = "pending"
    BY CallsAre DEF Init, AnswerTo
  <2>2. announcedBar = [d \in Inflow |-> NoRequest] /\ answerBar = [d \in Inflow |-> "pending"]
    BY <2>1 DEF announcedBar, answerBar
  <2>3. takenBar = {} /\ creditedBar = {}
    BY DEF Init, takenBar, creditedBar
  <2>4. deposit \in [Deposits -> [wallet : Wallets \cup {Stranger}, amount : Sums]]
    BY DEF Init
  <2> QED BY <2>2, <2>3, <2>4, TheDesk
<1>2. PaymentsInv /\ [Next]_vars => [Desk!Next]_(Desk!desk)
  <2> SUFFICES ASSUME PaymentsInv, [Next]_vars PROVE [Desk!Next]_(Desk!desk)
    OBVIOUS
  <2> USE CallsAre
  <2>1. CASE \E d \in Inflow : InflowStep(d)
    BY <2>1, DeliveryAtTheDesk
  <2>2. CASE \E a \in Calls : Arrive(a)
    BY <2>2, ArrivesAtTheDesk
  <2>3. CASE (\E t \in Transfer : Settle(t)) \/ UNCHANGED vars
    <3>1. DeskIdle /\ \A d \in Inflow : at'[d] = at[d] /\ request'[d] = request[d]
      BY <2>3 DEF Settle, DeskIdle
    <3> QED BY <3>1, OthersAtTheDesk
  <2>4. CASE (\E t \in Transfer : TransferStep(t)) \/ (\E a \in Asking : AskingStep(a))
    BY <2>4, PayoutsAtTheDesk
  <2>5. CASE \/ \E h \in Hook : SendHook(h) \/ Refund(h) \/ StoreEvent(h)
             \/ \E r \in Requery : AskProvider(r)
    BY <2>5, PayoutsAtTheDesk
  <2> QED BY <2>1, <2>2, <2>3, <2>4, <2>5, FaultAtTheDesk DEF Next
<1> QED BY <1>1, <1>2, InductiveInvariant, PTL DEF Spec, Desk!Spec, ImplementsDepositDesk
=============================================================================
