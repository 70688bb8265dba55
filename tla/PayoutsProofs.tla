---------------------------- MODULE PayoutsProofs ----------------------------
(***************************************************************************)
(* Theorems about the two-step payout for every number of calls, codes,    *)
(* PINs and wallets.  The row has room for one order and one code: what a  *)
(* confirmation reads there was stored by whichever call came last, and    *)
(* the invariant says how much of the check made then still holds.         *)
(***************************************************************************)
EXTENDS Payouts, LedgerProofs

USE DEF tables, rowVars, callVars, payoutVars, vars

(***************************************************************************)
(* The invariant.                                                          *)
(***************************************************************************)
Holding == {"clearPending", "rereadWallet", "callProvider", "debit"}
PastCode == {"checkPin", "readPending"} \cup Holding

\* An order in the row has passed the check of its wallet, and a code in it is drawn.
Stored(i) == at[i] \notin {"idle", "readWallet", "storePending", "failed"}
Drawn(i) == at[i] \notin {"idle", "readWallet", "storePending", "storeOtp", "failed"}

OneAtATime == ~overlapped => \A a, b \in InFlight : a = b

RowFits ==
  /\ otp /= NoCode => Drawn(otp)
  /\ pending /= NoPayout => Stored(pending) /\ order[pending].wallet \in Owned

InitiateFits(i) ==
  /\ at[i] \in {"idle"} \cup InitiatePlaces \cup Ends
  /\ at[i] = "storePending" => order[i].wallet \in Owned

ConfirmFits(c) ==
  /\ at[c] \in {"idle"} \cup ConfirmPlaces \cup Ends
  /\ at[c] \in {"clearOtp"} \cup PastCode => claim[c].code /= NoCode /\ Drawn(claim[c].code)
  /\ at[c] \in {"readPending"} \cup Holding => pin /= NoPin
  /\ IF at[c] \in Holding
     THEN took[c] /= NoPayout /\ Stored(took[c]) /\ order[took[c]].wallet \in Owned
     ELSE took[c] = NoPayout

\* While calls come one at a time, the order in the row is that of the code in it, unless
\* its call has died in between, and neither has been paid.
RowInTurn ==
  otp /= NoCode =>
    /\ pending /= NoPayout /\ (pending = otp \/ at[pending] \in {"lost", "storeOtp"})
    /\ \A p \in paid : p.order /= pending /\ claim[p.by].code /= otp

InitiateInTurn(i) == at[i] = "storeOtp" => pending = i /\ \A p \in paid : p.order /= i

ConfirmInTurn(c) ==
  /\ at[c] = "clearOtp" => otp = claim[c].code
  /\ at[c] \in PastCode =>
       /\ otp = NoCode
       /\ LET i == IF at[c] \in Holding THEN took[c] ELSE pending IN
          /\ i /= NoPayout /\ (i = claim[c].code \/ at[i] = "lost")
          /\ at[c] /= "debit" => \A p \in paid : p.order /= i /\ claim[p.by].code /= claim[c].code

PayoutsInv ==
  /\ TypeOK /\ OneAtATime /\ RowFits
  /\ \A i \in Initiate : InitiateFits(i)
  /\ \A c \in Confirm : ConfirmFits(c)
  /\ PaymentsAreAuthorised
  /\ ~overlapped => /\ RowInTurn
                    /\ \A i \in Initiate : InitiateInTurn(i)
                    /\ \A c \in Confirm : ConfirmInTurn(c)
  /\ CodesPayOnceInTurn /\ CodesConfirmTheirOrder

(***************************************************************************)
(* Calls and their places.                                                 *)
(***************************************************************************)
LEMMA CallsAre ==
  /\ Initiate \cap Confirm = {} /\ Calls = Initiate \cup Confirm
  /\ NoCode \notin Initiate /\ NoPayout \notin Initiate /\ NoPin \notin Pins
BY CallAssumption, CodeAssumption, PayoutAssumption DEF Calls

LEMMA PlacesAre ==
  /\ InitiatePlaces \cap Ends = {} /\ ConfirmPlaces \cap Ends = {} /\ InitiatePlaces \cap ConfirmPlaces = {}
  /\ "idle" \notin InitiatePlaces \cup ConfirmPlaces \cup Ends
  /\ Holding \subseteq PastCode /\ PastCode \subseteq ConfirmPlaces
BY DEF InitiatePlaces, ConfirmPlaces, Ends, Holding, PastCode

LEMMA Lone ==
  ASSUME TypeOK, OneAtATime, ~overlapped, NEW a \in Calls, at[a] \notin {"idle"} \cup Ends
  PROVE  \A b \in Calls : b /= a => at[b] \in {"idle"} \cup Ends
BY DEF OneAtATime, InFlight

\* A call that moves on leaves the others where they are.
LEMMA GotoOn ==
  ASSUME TypeOK, OneAtATime, NEW a \in Calls, at[a] \notin {"idle"} \cup Ends, overlapped' = overlapped,
         NEW place \in InitiatePlaces \cup ConfirmPlaces \cup Ends, Goto(a, place)
  PROVE  /\ at'[a] = place /\ \A b \in Calls : b /= a => at'[b] = at[b]
         /\ at' \in [Calls -> {"idle"} \cup InitiatePlaces \cup ConfirmPlaces \cup Ends]
         /\ OneAtATime'
<1>1. at \in [Calls -> {"idle"} \cup InitiatePlaces \cup ConfirmPlaces \cup Ends]
  BY DEF TypeOK
<1>2. at'[a] = place /\ \A b \in Calls : b /= a => at'[b] = at[b]
  BY <1>1 DEF Goto
<1>3. at' \in [Calls -> {"idle"} \cup InitiatePlaces \cup ConfirmPlaces \cup Ends]
  BY <1>1 DEF Goto
<1>4. OneAtATime'
  BY <1>2 DEF OneAtATime, InFlight
<1> QED BY <1>2, <1>3, <1>4

(***************************************************************************)
(* A confirmation moves: what is then left to show.                        *)
(***************************************************************************)
ConfirmMove(c) ==
  /\ at' \in [Calls -> {"idle"} \cup InitiatePlaces \cup ConfirmPlaces \cup Ends]
  /\ at'[c] \in ConfirmPlaces \cup Ends /\ at[c] \in ConfirmPlaces
  /\ \A b \in Calls : b /= c => at'[b] = at[b]
  /\ \A i \in Initiate : at'[i] = at[i] /\ (Stored(i)' <=> Stored(i)) /\ (Drawn(i)' <=> Drawn(i))
  /\ OneAtATime' /\ RowFits'
  /\ \A i \in Initiate : InitiateFits(i)'
  /\ \A d \in Confirm : d /= c => ConfirmFits(d)'
  /\ ~overlapped => \A b \in Calls : b /= c => at[b] \in {"idle"} \cup Ends

LEMMA ConfirmMoves ==
  ASSUME PayoutsInv, NEW c \in Confirm, at[c] \in ConfirmPlaces, NEW place \in ConfirmPlaces \cup Ends,
         Goto(c, place), UNCHANGED <<order, claim, overlapped, pending, pin>>, otp' \in {otp, NoCode},
         \A d \in Confirm : d /= c => took'[d] = took[d]
  PROVE  ConfirmMove(c) /\ at'[c] = place
<1> USE CallsAre, PlacesAre
<1>1. TypeOK /\ OneAtATime /\ c \in Calls /\ at[c] \notin {"idle"} \cup Ends
  BY DEF PayoutsInv
<1>2. /\ at'[c] = place /\ \A b \in Calls : b /= c => at'[b] = at[b]
      /\ at' \in [Calls -> {"idle"} \cup InitiatePlaces \cup ConfirmPlaces \cup Ends]
      /\ OneAtATime'
  BY <1>1, GotoOn
<1>3. \A i \in Initiate : at'[i] = at[i] /\ (Stored(i)' <=> Stored(i)) /\ (Drawn(i)' <=> Drawn(i))
  BY <1>2 DEF Stored, Drawn
<1>4. otp \in Initiate \cup {NoCode} /\ pending \in Initiate \cup {NoPayout}
      /\ claim \in [Confirm -> [code : Initiate \cup {NoCode}, pin : Pins]]
      /\ took \in [Confirm -> Initiate \cup {NoPayout}]
  BY <1>1 DEF TypeOK
<1>5. RowFits'
  BY <1>3, <1>4 DEF PayoutsInv, RowFits
<1>6. \A i \in Initiate : InitiateFits(i)'
  BY <1>3 DEF PayoutsInv, InitiateFits
<1>7. ASSUME NEW d \in Confirm, d /= c PROVE ConfirmFits(d)'
  <2>1. ConfirmFits(d) /\ at'[d] = at[d] /\ took'[d] = took[d]
    BY <1>2, <1>7 DEF PayoutsInv
  <2>2. claim[d].code \in Initiate \cup {NoCode} /\ took[d] \in Initiate \cup {NoPayout}
    BY <1>4
  <2> QED BY <1>3, <2>1, <2>2 DEF ConfirmFits
<1>8. ~overlapped => \A b \in Calls : b /= c => at[b] \in {"idle"} \cup Ends
  BY <1>1, Lone
<1> QED BY <1>2, <1>3, <1>5, <1>6, <1>7, <1>8 DEF ConfirmMove

LEMMA ConfirmRest ==
  ASSUME PayoutsInv, NEW c \in Confirm, ConfirmMove(c),
         UNCHANGED <<order, claim, overlapped, pending, pin, paid>>, otp' \in {otp, NoCode},
         TypeOK', ConfirmFits(c)', ~overlapped => ConfirmInTurn(c)'
  PROVE  PayoutsInv'
<1> USE CallsAre, PlacesAre
<1>1. /\ otp \in Initiate \cup {NoCode} /\ pending \in Initiate \cup {NoPayout}
      /\ \A p \in paid : p.by \in Confirm /\ p.order \in Initiate /\ claim[p.by].code \in Initiate \cup {NoCode}
  BY DEF PayoutsInv, TypeOK, Payment
<1>2. \A i \in Initiate : at'[i] = at[i]
  BY DEF ConfirmMove
<1>3. PaymentsAreAuthorised'
  <2> SUFFICES ASSUME NEW p \in paid
               PROVE  /\ p.wallet \in Owned
                      /\ p.wallet = order[p.order].wallet /\ p.amount = order[p.order].amount
                      /\ at'[p.order] \notin {"idle", "readWallet", "storePending", "failed"}
                      /\ claim[p.by].code /= NoCode
                      /\ at'[claim[p.by].code] \notin {"idle", "readWallet", "storePending", "storeOtp", "failed"}
                      /\ pin /= NoPin
    BY DEF PaymentsAreAuthorised
  <2> QED BY <1>1, <1>2 DEF PayoutsInv, PaymentsAreAuthorised
<1>4. CodesPayOnceInTurn' /\ CodesConfirmTheirOrder'
  BY <1>1, <1>2 DEF PayoutsInv, CodesPayOnceInTurn, CodesConfirmTheirOrder
<1>5. ASSUME ~overlapped PROVE RowInTurn'
  BY <1>1, <1>2, <1>5 DEF PayoutsInv, RowInTurn
<1>6. ASSUME ~overlapped, NEW i \in Initiate PROVE InitiateInTurn(i)'
  <2>1. at'[i] /= "storeOtp"
    BY <1>6 DEF ConfirmMove, Ends
  <2> QED BY <2>1 DEF InitiateInTurn
<1>7. ASSUME ~overlapped, NEW d \in Confirm, d /= c PROVE ConfirmInTurn(d)'
  <2>1. at'[d] \notin {"clearOtp"} \cup PastCode
    BY <1>7 DEF ConfirmMove, ConfirmPlaces, Ends, PastCode, Holding
  <2> QED BY <2>1 DEF ConfirmInTurn
<1> QED BY <1>3, <1>4, <1>5, <1>6, <1>7 DEF PayoutsInv, ConfirmMove
(***************************************************************************)
(* The steps of confirmPayout.                                             *)
(***************************************************************************)
LEMMA CodeStays ==
  ASSUME NEW c \in Confirm, ConfirmMove(c), claim' = claim, claim[c].code \in Initiate, Drawn(claim[c].code)
  PROVE  claim[c].code /= NoCode /\ Drawn(claim[c].code)'
<1>1. PICK i \in Initiate : i = claim[c].code
  OBVIOUS
<1>2. at'[i] = at[i]
  BY DEF ConfirmMove
<1> QED BY <1>1, <1>2, CallsAre DEF Drawn

LEMMA MoveTypes ==
  ASSUME TypeOK, NEW a, NEW place, Move(a, place),
         at' \in [Calls -> {"idle"} \cup InitiatePlaces \cup ConfirmPlaces \cup Ends]
  PROVE  TypeOK'
BY DEF Move, TypeOK, TablesTypeOK

\* A confirmation that ends drops what it holds.
LEMMA EndsConfirm ==
  ASSUME PayoutsInv, NEW c \in Confirm, at[c] \in ConfirmPlaces, NEW place \in Ends, End(c, place),
         paid' = paid, TablesTypeOK'
  PROVE  PayoutsInv'
<1>1. /\ Goto(c, place) /\ UNCHANGED <<order, claim, rowVars, overlapped, crashes, paid>>
      /\ took' = [took EXCEPT ![c] = NoPayout] /\ read' = [read EXCEPT ![c] = Both(0)]
  BY DEF End
<1>2. TypeOK /\ took \in [Confirm -> Initiate \cup {NoPayout}] /\ read \in [Confirm -> Balance] /\ Both(0) \in Balance
  BY DEF PayoutsInv, TypeOK, Both, Balance
<1>3. ConfirmMove(c) /\ at'[c] = place
  <2>1. \A d \in Confirm : d /= c => took'[d] = took[d]
    BY <1>1, <1>2
  <2> QED BY <1>1, <2>1, ConfirmMoves
<1>4. TypeOK'
  <2>1. took' \in [Confirm -> Initiate \cup {NoPayout}] /\ read' \in [Confirm -> Balance]
    BY <1>1, <1>2
  <2> QED BY <1>1, <1>2, <1>3, <2>1 DEF TypeOK, ConfirmMove
<1>5. ConfirmFits(c)' /\ ConfirmInTurn(c)'
  <2>1. took'[c] = NoPayout /\ at'[c] \notin {"clearOtp"} \cup PastCode /\ at'[c] \in Ends
    BY <1>1, <1>2, <1>3 DEF PastCode, Holding, Ends
  <2> QED BY <2>1, PlacesAre DEF ConfirmFits, ConfirmInTurn, PastCode
<1> QED BY <1>1, <1>3, <1>4, <1>5, ConfirmRest

LEMMA ReadsOtp ==
  ASSUME PayoutsInv, NEW c \in Confirm, ReadOtp(c)
  PROVE  PayoutsInv'
<1> USE CallsAre
<1>1. PICK place \in {"failed", "clearExpired", "clearOtp"} :
        /\ Move(c, place)
        /\ place = "clearOtp" => otp = claim[c].code /\ otp /= NoCode
  BY DEF ReadOtp
<1>2. at[c] = "readOtp" /\ at[c] \in ConfirmPlaces /\ place \in ConfirmPlaces \cup Ends
  BY DEF ReadOtp, ConfirmPlaces, Ends
<1>3. ConfirmMove(c) /\ at'[c] = place
  BY <1>1, <1>2, ConfirmMoves DEF Move
<1>4. TypeOK'
  BY <1>1, <1>3, MoveTypes DEF PayoutsInv, ConfirmMove
<1>5. ConfirmFits(c)
  BY DEF PayoutsInv
<1>6. took[c] = NoPayout /\ place \notin PastCode /\ (otp /= NoCode => Drawn(otp) /\ otp \in Initiate)
  BY <1>2, <1>5 DEF ConfirmFits, Holding, PastCode, PayoutsInv, RowFits, TypeOK
<1>7. ConfirmFits(c)'
  <2>1. took' = took /\ claim' = claim
    BY <1>1 DEF Move
  <2>2. at'[c] = "clearOtp" => claim[c].code /= NoCode /\ Drawn(claim[c].code)'
    BY <1>1, <1>3, <1>6, <2>1, CodeStays
  <2>3. at'[c] \notin {"readPending"} \cup Holding /\ at'[c] \in {"idle"} \cup ConfirmPlaces \cup Ends
    BY <1>2, <1>3, <1>6 DEF PastCode
  <2> QED BY <1>3, <1>6, <2>1, <2>2, <2>3 DEF ConfirmFits
<1>8. ConfirmInTurn(c)'
  BY <1>1, <1>3, <1>6 DEF ConfirmInTurn, Move
<1> QED BY <1>1, <1>3, <1>4, <1>7, <1>8, ConfirmRest DEF Move

LEMMA ClearsOtp ==
  ASSUME PayoutsInv, NEW c \in Confirm, ClearOtp(c)
  PROVE  PayoutsInv'
<1> USE CallsAre
<1> DEFINE place == IF at[c] = "clearOtp" THEN "checkPin" ELSE "failed"
<1>1. /\ at[c] \in ConfirmPlaces /\ at[c] \notin PastCode /\ otp' = NoCode /\ WriteRow(c, place) /\ pending' = pending
      /\ place \in ConfirmPlaces \cup Ends
      /\ Goto(c, place) /\ UNCHANGED <<tables, order, claim, took, read, expired, pin, paid, overlapped, crashes>>
  BY DEF ClearOtp, WriteRow, ConfirmPlaces, Ends, PastCode, Holding
<1>2. ConfirmMove(c) /\ at'[c] = place
  BY <1>1, ConfirmMoves
<1>3. TypeOK'
  BY <1>1, <1>2 DEF PayoutsInv, TypeOK, TablesTypeOK, ConfirmMove
<1>4. ConfirmFits(c)
  BY DEF PayoutsInv
<1>5. took[c] = NoPayout /\ place \notin {"clearOtp", "readPending"} \cup Holding
  BY <1>1, <1>4, PlacesAre DEF ConfirmFits, Holding
<1>6. place = "checkPin" => claim[c].code \in Initiate /\ Drawn(claim[c].code)
  BY <1>4 DEF ConfirmFits, PayoutsInv, TypeOK
<1>7. ConfirmFits(c)'
  <2>1. place \in PastCode => place = "checkPin"
    BY DEF PastCode, Holding
  <2>2. at'[c] \in {"clearOtp"} \cup PastCode => claim[c].code /= NoCode /\ Drawn(claim[c].code)'
    BY <1>1, <1>2, <1>5, <1>6, <2>1, CodeStays
  <2> QED BY <1>1, <1>2, <1>5, <2>2 DEF ConfirmFits
<1>8. ASSUME ~overlapped PROVE ConfirmInTurn(c)'
  <2>1. CASE place = "checkPin"
    <3>1. at[c] = "clearOtp" /\ otp = claim[c].code /\ claim[c].code \in Initiate
      BY <1>6, <1>8, <2>1 DEF PayoutsInv, ConfirmInTurn
    <3>2. /\ pending /= NoPayout /\ (pending = otp \/ at[pending] \in {"lost", "storeOtp"})
          /\ \A p \in paid : p.order /= pending /\ claim[p.by].code /= otp
      BY <1>8, <3>1 DEF PayoutsInv, RowInTurn
    <3>3. pending \in Initiate /\ at[pending] /= "storeOtp" /\ at'[pending] = at[pending]
      BY <1>2, <1>8, <3>2 DEF PayoutsInv, TypeOK, ConfirmMove, Ends
    <3> QED BY <1>1, <1>2, <2>1, <3>1, <3>2, <3>3 DEF ConfirmInTurn, Holding
  <2>2. CASE place = "failed"
    BY <1>2, <2>2 DEF ConfirmInTurn, PastCode, Holding
  <2> QED BY <2>1, <2>2
<1> QED BY <1>1, <1>2, <1>3, <1>7, <1>8, ConfirmRest

LEMMA ChecksPin ==
  ASSUME PayoutsInv, NEW c \in Confirm, CheckPin(c)
  PROVE  PayoutsInv'
<1> USE CallsAre
<1>1. PICK place \in {"readPending", "failed"} : Move(c, place) /\ (place = "readPending" => pin = claim[c].pin)
  BY DEF CheckPin
<1>2. at[c] = "checkPin" /\ at[c] \in ConfirmPlaces /\ place \in ConfirmPlaces \cup Ends
  BY DEF CheckPin, ConfirmPlaces, Ends
<1>3. ConfirmMove(c) /\ at'[c] = place
  BY <1>1, <1>2, ConfirmMoves DEF Move
<1>4. TypeOK'
  BY <1>1, <1>3, MoveTypes DEF PayoutsInv, ConfirmMove
<1>5. ConfirmFits(c) /\ claim[c].pin \in Pins /\ claim[c].code \in Initiate \cup {NoCode} /\ pending \in Initiate \cup {NoPayout}
  BY DEF PayoutsInv, TypeOK
<1>6. took[c] = NoPayout /\ claim[c].code /= NoCode /\ Drawn(claim[c].code)
  BY <1>2, <1>5 DEF ConfirmFits, Holding, PastCode
<1>7. ConfirmFits(c)'
  <2>1. took' = took /\ claim' = claim /\ pin' = pin
    BY <1>1 DEF Move
  <2>2. Drawn(claim[c].code)' /\ (place = "readPending" => pin /= NoPin)
    BY <1>1, <1>3, <1>5, <1>6, <2>1, CodeStays
  <2>3. place \notin Holding
    BY DEF Holding
  <2> QED BY <1>2, <1>3, <1>6, <2>1, <2>2, <2>3, PlacesAre DEF ConfirmFits, Ends, PastCode
<1>8. ASSUME ~overlapped PROVE ConfirmInTurn(c)'
  <2>1. ConfirmInTurn(c)
    BY <1>8 DEF PayoutsInv
  <2>2. at'[pending] = at[pending] \/ pending = NoPayout
    BY <1>3, <1>5 DEF ConfirmMove
  <2> QED BY <1>1, <1>2, <1>3, <2>1, <2>2 DEF ConfirmInTurn, Move, PastCode, Holding
<1> QED BY <1>1, <1>3, <1>4, <1>7, <1>8, ConfirmRest DEF Move
\* An order that was in the row when it was read is still one that passed its check.
LEMMA OrderStays ==
  ASSUME NEW c \in Confirm, ConfirmMove(c), order' = order, NEW i \in Initiate, took'[c] = i,
         Stored(i), order[i].wallet \in Owned
  PROVE  took[c]' /= NoPayout /\ Stored(took[c])' /\ order[took[c]].wallet' \in Owned
<1>1. at'[i] = at[i]
  BY DEF ConfirmMove
<1> QED BY <1>1, CallsAre DEF Stored

LEMMA Holds ==
  ASSUME PayoutsInv, NEW c \in Confirm, at[c] \in PastCode
  PROVE  /\ at[c] \in ConfirmPlaces
         /\ claim[c].code \in Initiate /\ Drawn(claim[c].code)
         /\ at[c] /= "checkPin" => pin /= NoPin
         /\ at[c] \in Holding => took[c] \in Initiate /\ Stored(took[c]) /\ order[took[c]].wallet \in Owned
         /\ at[c] \in {"checkPin", "readPending"} => took[c] = NoPayout
         /\ order \in [Initiate -> [wallet : Wallets, amount : Sums]]
         /\ claim \in [Confirm -> [code : Initiate \cup {NoCode}, pin : Pins]]
         /\ took \in [Confirm -> Initiate \cup {NoPayout}] /\ read \in [Confirm -> Balance]
         /\ balance \in [Wallets -> Balance]
<1> USE CallsAre, PlacesAre
<1>1. ConfirmFits(c) /\ claim[c].code \in Initiate \cup {NoCode} /\ took[c] \in Initiate \cup {NoPayout}
  BY DEF PayoutsInv, TypeOK
<1>2. /\ claim[c].code /= NoCode /\ Drawn(claim[c].code)
      /\ at[c] /= "checkPin" => at[c] \in {"readPending"} \cup Holding
      /\ at[c] \in {"checkPin", "readPending"} => at[c] \notin Holding
  BY <1>1 DEF ConfirmFits, PastCode, Holding
<1>3. at[c] /= "checkPin" => pin /= NoPin
  BY <1>1, <1>2 DEF ConfirmFits
<1>4. IF at[c] \in Holding
      THEN took[c] /= NoPayout /\ Stored(took[c]) /\ order[took[c]].wallet \in Owned
      ELSE took[c] = NoPayout
  BY <1>1 DEF ConfirmFits
<1>5. TypeOK
  BY DEF PayoutsInv
<1> QED BY <1>1, <1>2, <1>3, <1>4, <1>5 DEF TypeOK, TablesTypeOK

LEMMA ReadsPending ==
  ASSUME PayoutsInv, NEW c \in Confirm, ReadPending(c), ~Move(c, "failed")
  PROVE  PayoutsInv'
<1> USE CallsAre
<1>1. /\ at[c] = "readPending" /\ pending /= NoPayout /\ took' = [took EXCEPT ![c] = pending] /\ Goto(c, "clearPending")
      /\ UNCHANGED <<tables, order, claim, read, rowVars, paid, overlapped, crashes>>
  BY DEF ReadPending
<1>2. at[c] \in PastCode /\ at[c] \notin Holding /\ "clearPending" \in ConfirmPlaces \cup Ends /\ "clearPending" \in Holding
  BY <1>1 DEF PastCode, Holding, ConfirmPlaces
<1>3. PICK i \in Initiate : i = pending
  BY <1>1 DEF PayoutsInv, TypeOK
<1>4. took' \in [Confirm -> Initiate \cup {NoPayout}] /\ took'[c] = i /\ \A d \in Confirm : d /= c => took'[d] = took[d]
  BY <1>1, <1>2, <1>3, Holds
<1>5. ConfirmMove(c) /\ at'[c] = "clearPending"
  BY <1>1, <1>2, <1>4, Holds, ConfirmMoves
<1>6. TypeOK'
  BY <1>1, <1>4, <1>5 DEF PayoutsInv, TypeOK, TablesTypeOK, ConfirmMove
<1>7. Stored(i) /\ order[i].wallet \in Owned
  BY <1>1, <1>3 DEF PayoutsInv, RowFits
<1>8. ConfirmFits(c)'
  <2>1. claim[c].code /= NoCode /\ Drawn(claim[c].code)'
    BY <1>1, <1>2, <1>5, Holds, CodeStays
  <2>2. (took[c] /= NoPayout /\ Stored(took[c]) /\ order[took[c]].wallet \in Owned)'
    BY <1>1, <1>4, <1>5, <1>7, OrderStays
  <2>3. pin' /= NoPin
    BY <1>1, <1>2, Holds
  <2> QED BY <1>1, <1>2, <1>5, <2>1, <2>2, <2>3 DEF ConfirmFits
<1>9. ASSUME ~overlapped PROVE ConfirmInTurn(c)'
  <2>1. ConfirmInTurn(c) /\ at'[i] = at[i]
    BY <1>5, <1>9 DEF PayoutsInv, ConfirmMove
  <2>2. /\ otp = NoCode /\ (i = claim[c].code \/ at[i] = "lost")
        /\ \A p \in paid : p.order /= i /\ claim[p.by].code /= claim[c].code
    BY <1>1, <1>2, <1>3, <2>1 DEF ConfirmInTurn
  <2> QED BY <1>1, <1>2, <1>4, <1>5, <2>1, <2>2 DEF ConfirmInTurn
<1> QED BY <1>1, <1>5, <1>6, <1>8, <1>9, ConfirmRest

\* A confirmation that goes on with the order it holds.
LEMMA HoldsOn ==
  ASSUME PayoutsInv, NEW c \in Confirm, at[c] \in Holding, NEW place \in Holding,
         at[c] /= "debit" \/ place = "debit",
         Goto(c, place), UNCHANGED <<order, claim, took, rowVars, overlapped, crashes, paid>>, TablesTypeOK',
         read' \in [Confirm -> Balance]
  PROVE  PayoutsInv'
<1> USE CallsAre, PlacesAre
<1>1. at[c] \in ConfirmPlaces /\ place \in ConfirmPlaces /\ at[c] \in PastCode /\ place \in PastCode
  OBVIOUS
<1>2. ConfirmMove(c) /\ at'[c] = place
  BY <1>1, ConfirmMoves
<1>3. TypeOK'
  BY <1>2 DEF PayoutsInv, TypeOK, ConfirmMove
<1>4. PICK i \in Initiate : took[c] = i /\ Stored(i) /\ order[i].wallet \in Owned
  BY <1>1, Holds
<1>5. at[c] /= "checkPin"
  BY DEF Holding
<1>6. ConfirmFits(c)'
  <2>1. claim[c].code /= NoCode /\ Drawn(claim[c].code)'
    BY <1>1, <1>2, Holds, CodeStays
  <2>2. (took[c] /= NoPayout /\ Stored(took[c]) /\ order[took[c]].wallet \in Owned)'
    BY <1>2, <1>4, OrderStays
  <2>3. pin' /= NoPin
    BY <1>1, <1>5, Holds
  <2> QED BY <1>1, <1>2, <2>1, <2>2, <2>3 DEF ConfirmFits
<1>7. ASSUME ~overlapped PROVE ConfirmInTurn(c)'
  <2>1. ConfirmInTurn(c) /\ at'[i] = at[i] /\ place /= "clearOtp"
    BY <1>2, <1>7 DEF PayoutsInv, ConfirmMove, Holding
  <2>2. /\ otp = NoCode /\ (i = claim[c].code \/ at[i] = "lost")
        /\ at[c] /= "debit" => \A p \in paid : p.order /= i /\ claim[p.by].code /= claim[c].code
    BY <1>1, <1>4, <2>1 DEF ConfirmInTurn
  <2>3. place /= "debit" => at[c] /= "debit"
    OBVIOUS
  <2> QED BY <1>1, <1>2, <1>4, <2>1, <2>2, <2>3 DEF ConfirmInTurn
<1> QED BY <1>2, <1>3, <1>6, <1>7, ConfirmRest

\* The provider pays: what is paid was ordered, and in turn for the first time.
LEMMA Pays ==
  ASSUME PayoutsInv, NEW c \in Confirm, at[c] = "callProvider", paid' = paid \cup {PaymentOf(c)},
         NEW place \in {"debit", "failed"}, Goto(c, place),
         UNCHANGED <<tables, order, claim, rowVars, overlapped, crashes>>,
         NEW k \in Initiate \cup {NoPayout}, took' = [took EXCEPT ![c] = k],
         place = "debit" => k = took[c], place = "failed" => k = NoPayout,
         read' \in [Confirm -> Balance]
  PROVE  PayoutsInv'
<1> USE CallsAre, PlacesAre
<1>1. at[c] \in Holding /\ at[c] \in PastCode /\ at[c] \in ConfirmPlaces /\ place \in ConfirmPlaces \cup Ends
  BY DEF Holding, PastCode, ConfirmPlaces, Ends
<1>2. took'[c] = k /\ (\A d \in Confirm : d /= c => took'[d] = took[d]) /\ took' \in [Confirm -> Initiate \cup {NoPayout}]
  BY <1>1, Holds
<1>3. ConfirmMove(c) /\ at'[c] = place
  BY <1>1, <1>2, ConfirmMoves
<1>4. PICK i \in Initiate : took[c] = i /\ Stored(i) /\ order[i].wallet \in Owned
  BY <1>1, Holds
<1>5. PICK h \in Initiate : claim[c].code = h /\ Drawn(h) /\ h /= NoCode
  BY <1>1, Holds
<1>6. pin /= NoPin /\ order[i] \in [wallet : Wallets, amount : Sums]
  BY <1>1, Holds
<1>7. PICK r : r = PaymentOf(c)
  OBVIOUS
<1>8. r \in Payment /\ r.by = c /\ r.order = i /\ r.wallet = order[i].wallet /\ r.amount = order[i].amount
  BY <1>4, <1>6, <1>7 DEF PaymentOf, Payment
<1>9. TypeOK'
  BY <1>2, <1>3, <1>7, <1>8 DEF PayoutsInv, TypeOK, TablesTypeOK, ConfirmMove
<1>10. \A j \in Initiate : at'[j] = at[j]
  BY <1>3 DEF ConfirmMove
<1>11. \A p \in paid : p.by \in Confirm /\ p.order \in Initiate /\ claim[p.by].code \in Initiate \cup {NoCode}
  BY DEF PayoutsInv, TypeOK, Payment
<1>12. PaymentsAreAuthorised'
  <2> SUFFICES ASSUME NEW p \in paid \cup {r}
               PROVE  /\ p.wallet \in Owned
                      /\ p.wallet = order[p.order].wallet /\ p.amount = order[p.order].amount
                      /\ at'[p.order] \notin {"idle", "readWallet", "storePending", "failed"}
                      /\ claim[p.by].code /= NoCode
                      /\ at'[claim[p.by].code] \notin {"idle", "readWallet", "storePending", "storeOtp", "failed"}
                      /\ pin /= NoPin
    BY <1>7 DEF PaymentsAreAuthorised
  <2>1. CASE p = r
    BY <1>4, <1>5, <1>6, <1>8, <1>10, <2>1 DEF Stored, Drawn
  <2>2. CASE p \in paid
    BY <1>10, <1>11, <2>2 DEF PayoutsInv, PaymentsAreAuthorised
  <2> QED BY <2>1, <2>2
<1>13. ASSUME ~overlapped
       PROVE  /\ otp = NoCode /\ (i = h \/ at[i] = "lost")
              /\ \A p \in paid : p.order /= i /\ claim[p.by].code /= h
  <2>1. ConfirmInTurn(c)
    BY <1>13 DEF PayoutsInv
  <2> QED BY <1>1, <1>4, <1>5, <2>1 DEF ConfirmInTurn
<1>14. CodesPayOnceInTurn'
  <2> SUFFICES ASSUME ~overlapped, NEW p \in paid \cup {r}, NEW q \in paid \cup {r},
                      claim[p.by].code = claim[q.by].code \/ p.order = q.order
               PROVE  p = q
    BY <1>7 DEF CodesPayOnceInTurn
  <2>1. CASE p \in paid /\ q \in paid
    BY <2>1 DEF PayoutsInv, CodesPayOnceInTurn
  <2>2. CASE p \notin paid \/ q \notin paid
    BY <1>5, <1>8, <1>13, <2>2
  <2> QED BY <2>1, <2>2
<1>15. CodesConfirmTheirOrder'
  <2> SUFFICES ASSUME ~overlapped, NEW p \in paid \cup {r}
               PROVE  p.order = claim[p.by].code \/ at'[p.order] = "lost"
    BY <1>7 DEF CodesConfirmTheirOrder
  <2>1. CASE p = r
    BY <1>5, <1>8, <1>10, <1>13, <2>1
  <2>2. CASE p \in paid
    BY <1>10, <1>11, <2>2 DEF PayoutsInv, CodesConfirmTheirOrder
  <2> QED BY <2>1, <2>2
<1>16. ConfirmFits(c)'
  <2>1. CASE place = "debit"
    <3>1. place \in Holding /\ place \in PastCode /\ place \in ConfirmPlaces
      BY <2>1 DEF Holding, PastCode, ConfirmPlaces
    <3>2. claim[c].code /= NoCode /\ Drawn(claim[c].code)'
      BY <1>1, <1>3, Holds, CodeStays
    <3>3. (took[c] /= NoPayout /\ Stored(took[c]) /\ order[took[c]].wallet \in Owned)'
      BY <1>2, <1>3, <1>4, <2>1, OrderStays
    <3> QED BY <1>3, <1>6, <3>1, <3>2, <3>3 DEF ConfirmFits
  <2>2. CASE place = "failed"
    BY <1>2, <1>3, <2>2 DEF ConfirmFits, PastCode, Holding, Ends
  <2> QED BY <2>1, <2>2
<1>17. ASSUME ~overlapped PROVE RowInTurn' /\ ConfirmInTurn(c)'
  <2>1. RowInTurn'
    BY <1>13, <1>17 DEF RowInTurn
  <2>2. CASE place = "debit"
    <3>1. place \in Holding /\ place \in PastCode /\ took'[c] = i
      BY <1>2, <1>4, <2>2 DEF Holding, PastCode
    <3> QED BY <1>3, <1>5, <1>10, <1>13, <1>17, <2>1, <2>2, <3>1 DEF ConfirmInTurn
  <2>3. CASE place = "failed"
    BY <1>3, <2>1, <2>3 DEF ConfirmInTurn, PastCode, Holding
  <2> QED BY <2>2, <2>3
<1>18. ASSUME ~overlapped, NEW j \in Initiate PROVE InitiateInTurn(j)'
  <2>1. at'[j] /= "storeOtp"
    BY <1>3, <1>18 DEF ConfirmMove, Ends
  <2> QED BY <2>1 DEF InitiateInTurn
<1>19. ASSUME ~overlapped, NEW d \in Confirm, d /= c PROVE ConfirmInTurn(d)'
  <2>1. at'[d] \notin {"clearOtp"} \cup PastCode
    BY <1>3, <1>19 DEF ConfirmMove, ConfirmPlaces, Ends, PastCode, Holding
  <2> QED BY <2>1 DEF ConfirmInTurn
<1> QED BY <1>3, <1>9, <1>12, <1>14, <1>15, <1>16, <1>17, <1>18, <1>19 DEF PayoutsInv, ConfirmMove
LEMMA ConfirmSteps ==
  ASSUME PayoutsInv, NEW c \in Confirm, ConfirmStep(c)
  PROVE  PayoutsInv'
<1> USE CallsAre, PlacesAre
<1>1. TypeOK /\ TablesTypeOK /\ "failed" \in Ends /\ "done" \in Ends
  BY DEF PayoutsInv, TypeOK, Ends
<1>2. CASE ReadOtp(c) \/ ClearOtp(c) \/ CheckPin(c)
  BY <1>2, ReadsOtp, ClearsOtp, ChecksPin
<1>3. CASE ReadPending(c)
  <2>1. CASE Move(c, "failed") /\ at[c] = "readPending"
    <3>1. at[c] \in ConfirmPlaces /\ at[c] \in PastCode /\ "failed" \in ConfirmPlaces \cup Ends
      BY <1>1, <2>1 DEF PastCode, ConfirmPlaces
    <3>2. took[c] = NoPayout
      BY <2>1, <3>1, Holds
    <3>3. ConfirmMove(c) /\ at'[c] = "failed"
      BY <2>1, <3>1, ConfirmMoves DEF Move
    <3>4. TypeOK'
      BY <1>1, <2>1, <3>3, MoveTypes DEF ConfirmMove
    <3>5. ConfirmFits(c)' /\ ConfirmInTurn(c)'
      <4>1. took' = took /\ "failed" \notin {"clearOtp"} \cup PastCode
        BY <2>1 DEF Move, PastCode, Holding
      <4> QED BY <1>1, <3>2, <3>3, <4>1 DEF ConfirmFits, ConfirmInTurn, PastCode
    <3> QED BY <2>1, <3>3, <3>4, <3>5, ConfirmRest DEF Move
  <2> QED BY <1>3, <2>1, ReadsPending DEF ReadPending
<1>4. CASE ClearPending(c)
  <2>1. at[c] \in Holding /\ "rereadWallet" \in Holding /\ Goto(c, "rereadWallet") /\ at[c] /= "debit"
        /\ UNCHANGED <<tables, order, claim, took, read, rowVars, paid, overlapped, crashes>>
    BY <1>4 DEF ClearPending, Move, Holding
  <2>2. TablesTypeOK' /\ read' \in [Confirm -> Balance]
    BY <1>1, <2>1 DEF TablesTypeOK, TypeOK
  <2> QED BY <2>1, <2>2, HoldsOn
<1>5. CASE RereadWallet(c)
  <2>1. at[c] = "rereadWallet" /\ at[c] \in Holding /\ at[c] \in ConfirmPlaces /\ "callProvider" \in Holding
    BY <1>5 DEF RereadWallet, Holding, ConfirmPlaces
  <2>2. CASE Refuse(c)
    <3>1. End(c, "failed") /\ paid' = paid /\ TablesTypeOK'
      BY <1>1, <2>2 DEF Refuse, TablesTypeOK
    <3> QED BY <1>1, <2>1, <3>1, EndsConfirm
  <2>3. CASE KeepBalance(c) /\ UNCHANGED balance
    <3>1. PICK i \in Initiate : took[c] = i /\ order[i] \in [wallet : Wallets, amount : Sums]
      BY <2>1, Holds
    <3>2. balance \in [Wallets -> Balance] /\ order[i].wallet \in Wallets /\ read \in [Confirm -> Balance]
      BY <2>1, <3>1, Holds
    <3>3. read' = [read EXCEPT ![c] = balance[order[i].wallet]] /\ read' \in [Confirm -> Balance]
      BY <2>3, <3>1, <3>2 DEF KeepBalance
    <3>4. TablesTypeOK' /\ Goto(c, "callProvider")
          /\ UNCHANGED <<order, claim, took, rowVars, overlapped, crashes, paid>>
      BY <1>1, <2>3 DEF KeepBalance, TablesTypeOK
    <3> QED BY <2>1, <3>3, <3>4, HoldsOn
  <2> QED BY <1>5, <2>2, <2>3 DEF RereadWallet
<1>6. CASE CallProvider(c)
  <2>1. at[c] = "callProvider" /\ at[c] \in Holding /\ at[c] \in ConfirmPlaces
    BY <1>6 DEF CallProvider, Holding, ConfirmPlaces
  <2>2. took \in [Confirm -> Initiate \cup {NoPayout}] /\ read \in [Confirm -> Balance] /\ Both(0) \in Balance
    BY <2>1, Holds DEF Both, Balance
  <2>3. CASE Refuse(c)
    <3>1. End(c, "failed") /\ paid' = paid /\ TablesTypeOK'
      BY <1>1, <2>3 DEF Refuse, TablesTypeOK
    <3> QED BY <1>1, <2>1, <3>1, EndsConfirm
  <2>4. CASE paid' = paid \cup {PaymentOf(c)} /\ UNCHANGED tables
             /\ Goto(c, "debit") /\ UNCHANGED <<order, claim, took, read, rowVars, overlapped, crashes>>
    <3>1. took' = [took EXCEPT ![c] = took[c]] /\ took[c] \in Initiate \cup {NoPayout} /\ read' \in [Confirm -> Balance]
      BY <2>2, <2>4
    <3> QED BY <2>1, <2>4, <3>1, Pays
  <2>5. CASE paid' = paid \cup {PaymentOf(c)} /\ UNCHANGED tables /\ End(c, "failed")
    <3>1. /\ Goto(c, "failed") /\ UNCHANGED <<tables, order, claim, rowVars, overlapped, crashes>>
          /\ took' = [took EXCEPT ![c] = NoPayout]
      BY <2>5 DEF End
    <3>2. read' \in [Confirm -> Balance]
      BY <2>2, <2>5 DEF End
    <3> QED BY <2>1, <2>5, <3>1, <3>2, Pays
  <2> QED BY <1>6, <2>3, <2>4, <2>5 DEF CallProvider
<1>7. CASE Debit(c)
  <2>1. at[c] = "debit" /\ at[c] \in Holding /\ at[c] \in ConfirmPlaces
    BY <1>7 DEF Debit, Holding, ConfirmPlaces
  <2>2. PICK i \in Initiate : took[c] = i /\ order[i] \in [wallet : Wallets, amount : Sums]
    BY <2>1, Holds
  <2>3. read[c] \in Balance /\ balance \in [Wallets -> Balance] /\ order[i].wallet \in Wallets /\ order[i].amount \in Int
    <3>1. order[i].amount \in Sums
      BY <2>2
    <3>2. \A n \in Sums : n \in Int
      BY SumAssumption
    <3> QED BY <2>1, <2>2, <3>1, <3>2, Holds
  <2>4. Minus(read[c], order[i].amount) \in Balance
    BY <2>3 DEF Minus, Plus, Balance
  <2>5. balance' \in [Wallets -> Balance] /\ UNCHANGED <<rowLock, transaction, spray, paid>> /\ End(c, "done")
    BY <1>7, <2>2, <2>3, <2>4 DEF Debit
  <2>6. TablesTypeOK'
    BY <1>1, <2>5 DEF TablesTypeOK
  <2> QED BY <1>1, <2>1, <2>5, <2>6, EndsConfirm
<1> QED BY <1>2, <1>3, <1>4, <1>5, <1>6, <1>7 DEF ConfirmStep

(***************************************************************************)
(* The steps of initiatePayout.                                            *)
(***************************************************************************)
LEMMA InitiateRest ==
  ASSUME PayoutsInv, NEW i \in Initiate, at[i] \in InitiatePlaces, NEW place \in InitiatePlaces \cup Ends,
         Goto(i, place), UNCHANGED <<tables, order, claim, took, read, expired, pin, paid, overlapped, crashes>>,
         NEW k, NEW h, pending' = k, otp' = h, k \in {pending, i}, h \in {otp, i},
         (at[i] \in {"storeOtp", "sendOtp"} => place \in {"sendOtp", "done"}),
         at[i] = "sendOtp" => place = "done",
         place \in {"storePending", "storeOtp"} \/ k = i => order[i].wallet \in Owned,
         k = pending \/ place = "storeOtp", h = otp \/ (place = "sendOtp" /\ at[i] = "storeOtp"),
         at[i] /= "storeOtp" \/ h = i,
         place = "storeOtp" => k = i
  PROVE  PayoutsInv'
<1> USE CallsAre, PlacesAre
<1>1. TypeOK /\ OneAtATime /\ i \in Calls /\ at[i] \notin {"idle"} \cup Ends
  BY DEF PayoutsInv
<1>2. /\ at'[i] = place /\ \A b \in Calls : b /= i => at'[b] = at[b]
      /\ at' \in [Calls -> {"idle"} \cup InitiatePlaces \cup ConfirmPlaces \cup Ends]
      /\ OneAtATime'
  BY <1>1, GotoOn
<1>3. ASSUME NEW j \in Initiate
      PROVE  /\ at[j] \notin {"idle", "readWallet", "storePending", "failed"} =>
                  at'[j] \notin {"idle", "readWallet", "storePending", "failed"}
             /\ at[j] \notin {"idle", "readWallet", "storePending", "storeOtp", "failed"} =>
                  at'[j] \notin {"idle", "readWallet", "storePending", "storeOtp", "failed"}
             /\ at[j] = "lost" => at'[j] = "lost"
  <2>1. CASE j = i
    BY <1>1, <1>2, <2>1 DEF InitiatePlaces, Ends
  <2>2. CASE j /= i
    BY <1>2, <2>2
  <2> QED BY <2>1, <2>2
<1>4. /\ otp \in Initiate \cup {NoCode} /\ pending \in Initiate \cup {NoPayout}
      /\ \A p \in paid : p.by \in Confirm /\ p.order \in Initiate /\ claim[p.by].code \in Initiate \cup {NoCode}
      /\ claim \in [Confirm -> [code : Initiate \cup {NoCode}, pin : Pins]]
      /\ took \in [Confirm -> Initiate \cup {NoPayout}]
  BY <1>1 DEF TypeOK, Payment
<1>5. TypeOK'
  <2>1. k \in Initiate \cup {NoPayout} /\ h \in Initiate \cup {NoCode}
    BY <1>4
  <2> QED BY <1>1, <1>2, <2>1 DEF TypeOK, TablesTypeOK
<1>6. RowFits'
  <2>1. (otp /= NoCode => Drawn(otp)) /\ (pending /= NoPayout => Stored(pending) /\ order[pending].wallet \in Owned)
    BY DEF PayoutsInv, RowFits
  <2>2. h /= NoCode => at'[h] \notin {"idle", "readWallet", "storePending", "storeOtp", "failed"}
    BY <1>2, <1>3, <1>4, <2>1 DEF Drawn
  <2>3. k /= NoPayout => at'[k] \notin {"idle", "readWallet", "storePending", "failed"} /\ order[k].wallet \in Owned
    <3>1. CASE k = pending
      BY <1>3, <1>4, <2>1, <3>1 DEF Stored
    <3>2. CASE k /= pending
      BY <1>2, <3>2
    <3> QED BY <3>1, <3>2
  <2> QED BY <2>2, <2>3 DEF RowFits, Stored, Drawn
<1>7. ASSUME NEW j \in Initiate PROVE InitiateFits(j)'
  <2>1. CASE j = i
    BY <1>2, <2>1 DEF InitiateFits
  <2>2. CASE j /= i
    BY <1>2, <2>2 DEF PayoutsInv, InitiateFits
  <2> QED BY <2>1, <2>2
<1>8. ASSUME NEW d \in Confirm PROVE ConfirmFits(d)'
  <2>1. ConfirmFits(d) /\ at'[d] = at[d]
    BY <1>2 DEF PayoutsInv
  <2>2. claim[d].code \in Initiate \cup {NoCode} /\ took[d] \in Initiate \cup {NoPayout}
    BY <1>4
  <2> QED BY <1>3, <2>1, <2>2 DEF ConfirmFits, Stored, Drawn
<1>9. PaymentsAreAuthorised'
  <2> SUFFICES ASSUME NEW p \in paid
               PROVE  /\ p.wallet \in Owned
                      /\ p.wallet = order[p.order].wallet /\ p.amount = order[p.order].amount
                      /\ at'[p.order] \notin {"idle", "readWallet", "storePending", "failed"}
                      /\ claim[p.by].code /= NoCode
                      /\ at'[claim[p.by].code] \notin {"idle", "readWallet", "storePending", "storeOtp", "failed"}
                      /\ pin /= NoPin
    BY DEF PaymentsAreAuthorised
  <2> QED BY <1>3, <1>4 DEF PayoutsInv, PaymentsAreAuthorised
<1>10. CodesPayOnceInTurn' /\ CodesConfirmTheirOrder'
  BY <1>3, <1>4 DEF PayoutsInv, CodesPayOnceInTurn, CodesConfirmTheirOrder
<1>11. ASSUME ~overlapped
       PROVE  \A b \in Calls : b /= i => at[b] \in {"idle"} \cup Ends /\ at'[b] \in {"idle"} \cup Ends
  BY <1>1, <1>2, <1>11, Lone
<1>12. ASSUME ~overlapped, NEW d \in Confirm PROVE ConfirmInTurn(d)'
  <2>1. at'[d] \notin {"clearOtp"} \cup PastCode
    BY <1>11, <1>12 DEF Ends, PastCode, Holding
  <2> QED BY <2>1 DEF ConfirmInTurn
<1>13. \A p \in paid : (at[p.order] \notin {"idle", "readWallet", "storePending", "failed"})
                       /\ at[claim[p.by].code] \notin {"idle", "readWallet", "storePending", "storeOtp", "failed"}
  BY DEF PayoutsInv, PaymentsAreAuthorised
<1>14. ASSUME ~overlapped, NEW j \in Initiate PROVE InitiateInTurn(j)'
  <2>1. CASE j = i /\ place = "storeOtp"
    <3>1. at[i] \in {"readWallet", "storePending"}
      BY <2>1 DEF InitiatePlaces
    <3> QED BY <1>13, <2>1, <3>1 DEF InitiateInTurn
  <2>2. CASE j = i /\ place /= "storeOtp"
    BY <1>2, <2>2 DEF InitiateInTurn
  <2>3. CASE j /= i
    BY <1>11, <1>14, <2>3 DEF InitiateInTurn, Ends
  <2> QED BY <2>1, <2>2, <2>3
<1>15. ASSUME ~overlapped PROVE RowInTurn'
  <2> SUFFICES ASSUME h /= NoCode
               PROVE  /\ k /= NoPayout /\ (k = h \/ at'[k] \in {"lost", "storeOtp"})
                      /\ \A p \in paid : p.order /= k /\ claim[p.by].code /= h
    BY DEF RowInTurn
  <2>1. RowInTurn /\ InitiateInTurn(i)
    BY <1>15 DEF PayoutsInv
  <2>2. CASE h = otp /\ k = pending
    <3>1. /\ pending /= NoPayout /\ (pending = otp \/ at[pending] \in {"lost", "storeOtp"})
          /\ \A p \in paid : p.order /= pending /\ claim[p.by].code /= otp
      BY <2>1, <2>2 DEF RowInTurn
    <3>2. pending = i /\ pending /= otp => at'[i] = "storeOtp"
      BY <1>1, <2>2, <3>1 DEF Ends
    <3>3. pending /= i => at'[pending] = at[pending]
      BY <1>2, <1>4, <3>1
    <3> QED BY <2>2, <3>1, <3>2, <3>3
  <2>3. CASE h = otp /\ k /= pending
    <3>1. k = i /\ place = "storeOtp" /\ at[i] \in {"readWallet", "storePending"}
      BY <2>3 DEF InitiatePlaces
    <3>2. \A p \in paid : claim[p.by].code /= h
      BY <2>1, <2>3 DEF RowInTurn
    <3> QED BY <1>2, <1>13, <3>1, <3>2
  <2>4. CASE h /= otp
    <3>1. h = i /\ place = "sendOtp" /\ k = pending /\ at[i] = "storeOtp"
      BY <2>4
    <3> QED BY <1>13, <2>1, <3>1 DEF InitiateInTurn
  <2> QED BY <2>2, <2>3, <2>4
<1> QED BY <1>2, <1>5, <1>6, <1>7, <1>8, <1>9, <1>10, <1>12, <1>14, <1>15 DEF PayoutsInv
LEMMA InitiateSteps ==
  ASSUME PayoutsInv, NEW i \in Initiate, InitiateStep(i)
  PROVE  PayoutsInv'
<1> USE CallsAre
<1>1. RowFits /\ InitiateFits(i) /\ (pending = i => order[i].wallet \in Owned)
  BY DEF PayoutsInv, RowFits
<1>2. CASE ReadWallet(i)
  <2>1. at[i] = "readWallet" /\ at[i] \in InitiatePlaces
    BY <1>2 DEF ReadWallet, InitiatePlaces
  <2>2. PICK place \in {"storePending", "failed"} :
          Move(i, place) /\ (place = "storePending" => order[i].wallet \in Owned)
    BY <1>2 DEF ReadWallet
  <2>3. /\ place \in InitiatePlaces \cup Ends /\ Goto(i, place) /\ pending' = pending /\ otp' = otp
        /\ UNCHANGED <<tables, order, claim, took, read, expired, pin, paid, overlapped, crashes>>
    BY <2>2 DEF Move, InitiatePlaces, Ends
  <2>4. place \notin {"storeOtp", "sendOtp"} /\ (place = "storePending" \/ pending = i => order[i].wallet \in Owned)
    BY <1>1, <2>2
  <2> QED BY <2>1, <2>3, <2>4, InitiateRest
<1>3. CASE StorePending(i)
  <2>1. at[i] = "storePending" /\ at[i] \in InitiatePlaces /\ "storeOtp" \in InitiatePlaces
    BY <1>3 DEF StorePending, InitiatePlaces
  <2>2. /\ Goto(i, "storeOtp") /\ pending' = i /\ otp' = otp /\ order[i].wallet \in Owned
        /\ UNCHANGED <<tables, order, claim, took, read, expired, pin, paid, overlapped, crashes>>
    BY <1>1, <1>3, <2>1 DEF StorePending, WriteRow, InitiateFits
  <2> QED BY <2>1, <2>2, InitiateRest
<1>4. CASE StoreOtp(i)
  <2>1. at[i] = "storeOtp" /\ at[i] \in InitiatePlaces /\ "sendOtp" \in InitiatePlaces
    BY <1>4 DEF StoreOtp, InitiatePlaces
  <2>2. /\ Goto(i, "sendOtp") /\ pending' = pending /\ otp' = i
        /\ UNCHANGED <<tables, order, claim, took, read, expired, pin, paid, overlapped, crashes>>
    BY <1>4 DEF StoreOtp, WriteRow
  <2> QED BY <1>1, <2>1, <2>2, InitiateRest
<1>5. CASE SendOtp(i)
  <2>1. at[i] = "sendOtp" /\ at[i] \in InitiatePlaces /\ "done" \in Ends
    BY <1>5 DEF SendOtp, InitiatePlaces, Ends
  <2>2. /\ Goto(i, "done") /\ pending' = pending /\ otp' = otp
        /\ UNCHANGED <<tables, order, claim, took, read, expired, pin, paid, overlapped, crashes>>
    BY <1>5 DEF SendOtp, Move
  <2> QED BY <1>1, <2>1, <2>2, InitiateRest
<1> QED BY <1>2, <1>3, <1>4, <1>5 DEF InitiateStep

(***************************************************************************)
(* A step that leaves the row's references, the orders and the payments    *)
(* alone, and takes no call back over a check it has passed.               *)
(***************************************************************************)
LEMMA CallsKeep ==
  ASSUME PayoutsInv, UNCHANGED <<order, claim, otp, pending, paid>>, pin' = pin \/ pin' /= NoPin,
         \A i \in Initiate : (Stored(i) => Stored(i)') /\ (Drawn(i) => Drawn(i)') /\ (at[i] = "lost" => at'[i] = "lost"),
         overlapped => overlapped'
  PROVE  PaymentsAreAuthorised' /\ CodesPayOnceInTurn' /\ CodesConfirmTheirOrder' /\ RowFits'
<1> USE CallsAre
<1>1. /\ otp \in Initiate \cup {NoCode} /\ pending \in Initiate \cup {NoPayout}
      /\ \A p \in paid : p.by \in Confirm /\ p.order \in Initiate /\ claim[p.by].code \in Initiate \cup {NoCode}
  BY DEF PayoutsInv, TypeOK, Payment
<1>2. RowFits'
  BY <1>1 DEF PayoutsInv, RowFits, Stored, Drawn
<1>3. \A i \in Initiate :
        /\ at[i] \notin {"idle", "readWallet", "storePending", "failed"} =>
             at'[i] \notin {"idle", "readWallet", "storePending", "failed"}
        /\ at[i] \notin {"idle", "readWallet", "storePending", "storeOtp", "failed"} =>
             at'[i] \notin {"idle", "readWallet", "storePending", "storeOtp", "failed"}
  BY DEF Stored, Drawn
<1>4. PaymentsAreAuthorised'
  <2> SUFFICES ASSUME NEW p \in paid
               PROVE  /\ p.wallet \in Owned
                      /\ p.wallet = order[p.order].wallet /\ p.amount = order[p.order].amount
                      /\ at'[p.order] \notin {"idle", "readWallet", "storePending", "failed"}
                      /\ claim[p.by].code /= NoCode
                      /\ at'[claim[p.by].code] \notin {"idle", "readWallet", "storePending", "storeOtp", "failed"}
                      /\ pin' /= NoPin
    BY DEF PaymentsAreAuthorised
  <2> QED BY <1>1, <1>3 DEF PayoutsInv, PaymentsAreAuthorised
<1>5. CodesPayOnceInTurn' /\ CodesConfirmTheirOrder'
  BY <1>1 DEF PayoutsInv, CodesPayOnceInTurn, CodesConfirmTheirOrder
<1> QED BY <1>2, <1>4, <1>5
LEMMA Arrives ==
  ASSUME PayoutsInv, NEW a \in Calls, Arrive(a)
  PROVE  PayoutsInv'
<1> USE CallsAre, PlacesAre
<1> DEFINE place == IF a \in Initiate THEN "readWallet" ELSE "readOtp"
<1>1. /\ at[a] = "idle" /\ Goto(a, place) /\ overlapped' = (overlapped \/ InFlight /= {})
      /\ UNCHANGED <<tables, order, claim, took, read, rowVars, paid, crashes>>
      /\ place \in InitiatePlaces \cup ConfirmPlaces
  BY DEF Arrive, InitiatePlaces, ConfirmPlaces
<1>2. TypeOK /\ at \in [Calls -> {"idle"} \cup InitiatePlaces \cup ConfirmPlaces \cup Ends] /\ overlapped \in BOOLEAN
  BY DEF PayoutsInv, TypeOK
<1>3. /\ at'[a] = place /\ \A b \in Calls : b /= a => at'[b] = at[b]
      /\ at' \in [Calls -> {"idle"} \cup InitiatePlaces \cup ConfirmPlaces \cup Ends]
  BY <1>1, <1>2 DEF Goto
<1>4. TypeOK'
  <2>1. overlapped' \in BOOLEAN
    BY <1>1, <1>2
  <2> QED BY <1>1, <1>2, <1>3, <2>1 DEF TypeOK, TablesTypeOK
<1>5. ~overlapped' => ~overlapped /\ \A b \in Calls : at[b] \in {"idle"} \cup Ends
  BY <1>1 DEF InFlight
<1>6. OneAtATime'
  BY <1>3, <1>5 DEF OneAtATime, InFlight
<1>7. \A i \in Initiate : (Stored(i) => Stored(i)') /\ (Drawn(i) => Drawn(i)') /\ (at[i] = "lost" => at'[i] = "lost")
  BY <1>1, <1>3 DEF Stored, Drawn
<1>8. PaymentsAreAuthorised' /\ CodesPayOnceInTurn' /\ CodesConfirmTheirOrder' /\ RowFits'
  BY <1>1, <1>7, CallsKeep
<1>9. ASSUME NEW i \in Initiate PROVE InitiateFits(i)'
  <2>1. CASE i = a
    BY <1>3, <2>1 DEF InitiateFits, InitiatePlaces
  <2>2. CASE i /= a
    BY <1>1, <1>3, <2>2 DEF PayoutsInv, InitiateFits
  <2> QED BY <2>1, <2>2
<1>10. ASSUME NEW c \in Confirm PROVE ConfirmFits(c)'
  <2>1. /\ ConfirmFits(c) /\ claim[c].code \in Initiate \cup {NoCode} /\ took[c] \in Initiate \cup {NoPayout}
        /\ UNCHANGED <<claim, took, pin, order>>
    BY <1>1, <1>2 DEF PayoutsInv, TypeOK
  <2>2. CASE c = a
    <3>1. place = "readOtp" /\ place \notin {"clearOtp"} \cup PastCode /\ place \in ConfirmPlaces
      BY <2>2 DEF PastCode, Holding, ConfirmPlaces
    <3>2. took[c] = NoPayout
      BY <1>1, <2>1, <2>2 DEF ConfirmFits, Holding
    <3> QED BY <1>3, <2>1, <2>2, <3>1, <3>2 DEF ConfirmFits, PastCode
  <2>3. CASE c /= a
    BY <1>3, <1>7, <2>1, <2>3 DEF ConfirmFits
  <2> QED BY <2>2, <2>3
<1>11. ASSUME ~overlapped' PROVE RowInTurn'
  <2>1. RowInTurn /\ pending \in Initiate \cup {NoPayout}
    BY <1>2, <1>5, <1>11 DEF PayoutsInv, TypeOK
  <2>2. pending \in Initiate => pending /= a /\ at'[pending] = at[pending]
    BY <1>1, <1>3 DEF PayoutsInv, RowFits, Stored
  <2> QED BY <1>1, <2>1, <2>2 DEF RowInTurn
<1>12. ASSUME ~overlapped', NEW i \in Initiate PROVE InitiateInTurn(i)'
  BY <1>3, <1>5, <1>12 DEF InitiateInTurn, Ends
<1>13. ASSUME ~overlapped', NEW c \in Confirm PROVE ConfirmInTurn(c)'
  <2>1. at'[c] \notin {"clearOtp"} \cup PastCode
    BY <1>3, <1>5, <1>13 DEF Ends, PastCode, Holding
  <2> QED BY <2>1 DEF ConfirmInTurn
<1> QED BY <1>4, <1>6, <1>8, <1>9, <1>10, <1>11, <1>12, <1>13 DEF PayoutsInv

LEMMA Expires ==
  ASSUME PayoutsInv, NEW i \in Initiate, Expire(i)
  PROVE  PayoutsInv'
<1>1. UNCHANGED <<tables, callVars, otp, pending, pin, paid, overlapped, crashes>> /\ expired' = expired \cup {i}
  BY DEF Expire
<1>2. TypeOK'
  BY <1>1 DEF PayoutsInv, TypeOK, TablesTypeOK
<1>3. OneAtATime' /\ \A j \in Initiate : InitiateFits(j)' /\ InitiateInTurn(j)' = InitiateInTurn(j)
  BY <1>1 DEF PayoutsInv, OneAtATime, InFlight, InitiateFits, InitiateInTurn
<1>4. PaymentsAreAuthorised' /\ CodesPayOnceInTurn' /\ CodesConfirmTheirOrder' /\ RowFits'
  BY <1>1, CallsKeep DEF Stored, Drawn
<1>5. ASSUME NEW c \in Confirm PROVE ConfirmFits(c)' /\ ConfirmInTurn(c)' = ConfirmInTurn(c)
  BY <1>1, <1>5 DEF PayoutsInv, ConfirmFits, ConfirmInTurn, Stored, Drawn
<1>6. RowInTurn' = RowInTurn
  BY <1>1 DEF RowInTurn
<1> QED BY <1>1, <1>2, <1>3, <1>4, <1>5, <1>6 DEF PayoutsInv

LEMMA SetsPin ==
  ASSUME PayoutsInv, NEW p \in Pins, SetPayoutPin(p)
  PROVE  PayoutsInv'
<1>1. UNCHANGED <<tables, callVars, otp, expired, pending, paid, overlapped, crashes>> /\ pin' = p /\ pin' /= NoPin
  BY CallsAre DEF SetPayoutPin
<1>2. TypeOK'
  BY <1>1 DEF PayoutsInv, TypeOK, TablesTypeOK
<1>3. OneAtATime' /\ \A j \in Initiate : InitiateFits(j)' /\ InitiateInTurn(j)' = InitiateInTurn(j)
  BY <1>1 DEF PayoutsInv, OneAtATime, InFlight, InitiateFits, InitiateInTurn
<1>4. PaymentsAreAuthorised' /\ CodesPayOnceInTurn' /\ CodesConfirmTheirOrder' /\ RowFits'
  BY <1>1, CallsKeep DEF Stored, Drawn
<1>5. ASSUME NEW c \in Confirm PROVE ConfirmFits(c)' /\ ConfirmInTurn(c)' = ConfirmInTurn(c)
  BY <1>1, <1>5 DEF PayoutsInv, ConfirmFits, ConfirmInTurn, Stored, Drawn
<1>6. RowInTurn' = RowInTurn
  BY <1>1 DEF RowInTurn
<1> QED BY <1>1, <1>2, <1>3, <1>4, <1>5, <1>6 DEF PayoutsInv

LEMMA Stutters ==
  ASSUME PayoutsInv, UNCHANGED vars
  PROVE  PayoutsInv'
<1>1. UNCHANGED <<tables, callVars, rowVars, paid, overlapped, crashes>>
  OBVIOUS
<1>2. TypeOK'
  BY <1>1 DEF PayoutsInv, TypeOK, TablesTypeOK
<1>3. OneAtATime' /\ \A j \in Initiate : InitiateFits(j)' /\ InitiateInTurn(j)' = InitiateInTurn(j)
  BY <1>1 DEF PayoutsInv, OneAtATime, InFlight, InitiateFits, InitiateInTurn
<1>4. PaymentsAreAuthorised' /\ CodesPayOnceInTurn' /\ CodesConfirmTheirOrder' /\ RowFits'
  BY <1>1, CallsKeep DEF Stored, Drawn
<1>5. ASSUME NEW c \in Confirm PROVE ConfirmFits(c)' /\ ConfirmInTurn(c)' = ConfirmInTurn(c)
  BY <1>1, <1>5 DEF PayoutsInv, ConfirmFits, ConfirmInTurn, Stored, Drawn
<1>6. RowInTurn' = RowInTurn
  BY <1>1 DEF RowInTurn
<1> QED BY <1>1, <1>2, <1>3, <1>4, <1>5, <1>6 DEF PayoutsInv

\* A crash takes every call in flight with it, and leaves the row as it was.
LEMMA Crashes ==
  ASSUME PayoutsInv, Crash
  PROVE  PayoutsInv'
<1> USE CallsAre, PlacesAre
<1>1. /\ UNCHANGED <<tables, order, claim, rowVars, paid, overlapped>>
      /\ crashes < MaxCrashes /\ crashes' = crashes + 1
      /\ took' = [c \in Confirm |-> NoPayout] /\ read' = [c \in Confirm |-> Both(0)]
      /\ at' = [a \in Calls |-> IF a \in InFlight THEN "lost" ELSE at[a]]
  BY DEF Crash
<1>2. TypeOK /\ at \in [Calls -> {"idle"} \cup InitiatePlaces \cup ConfirmPlaces \cup Ends] /\ crashes \in 0..MaxCrashes
  BY DEF PayoutsInv, TypeOK
<1>3. \A a \in Calls : at'[a] \in {"idle"} \cup Ends
                       /\ at'[a] = IF at[a] \in {"idle"} \cup Ends THEN at[a] ELSE "lost"
  BY <1>1, <1>2 DEF InFlight, Ends
<1>4. TypeOK'
  <2>1. crashes' \in 0..MaxCrashes
    BY <1>1, <1>2, PayoutBounds
  <2>2. took' \in [Confirm -> Initiate \cup {NoPayout}] /\ read' \in [Confirm -> Balance]
    BY <1>1 DEF Both, Balance
  <2>3. at' \in [Calls -> {"idle"} \cup InitiatePlaces \cup ConfirmPlaces \cup Ends]
    BY <1>1, <1>3
  <2> QED BY <1>1, <1>2, <2>1, <2>2, <2>3 DEF TypeOK, TablesTypeOK
<1>5. OneAtATime'
  BY <1>3 DEF OneAtATime, InFlight
<1>6. \A i \in Initiate : (Stored(i) => Stored(i)') /\ (Drawn(i) => Drawn(i)') /\ (at[i] = "lost" => at'[i] = "lost")
  BY <1>3 DEF Stored, Drawn, Ends
<1>7. PaymentsAreAuthorised' /\ CodesPayOnceInTurn' /\ CodesConfirmTheirOrder' /\ RowFits'
  BY <1>1, <1>6, CallsKeep
<1>8. ASSUME NEW i \in Initiate PROVE InitiateFits(i)' /\ InitiateInTurn(i)'
  BY <1>3 DEF InitiateFits, InitiateInTurn, Ends
<1>9. ASSUME NEW c \in Confirm PROVE ConfirmFits(c)' /\ ConfirmInTurn(c)'
  <2>1. at'[c] \in {"idle"} \cup Ends /\ took'[c] = NoPayout
    BY <1>1, <1>3
  <2>2. at'[c] \notin {"clearOtp"} \cup PastCode
    BY <2>1 DEF Ends, PastCode, Holding
  <2> QED BY <2>1, <2>2 DEF ConfirmFits, ConfirmInTurn, PastCode
<1>10. ASSUME ~overlapped PROVE RowInTurn'
  <2>1. RowInTurn /\ pending \in Initiate \cup {NoPayout}
    BY <1>2, <1>10 DEF PayoutsInv, TypeOK
  <2>2. pending \in Initiate => (at[pending] \in {"lost", "storeOtp"} => at'[pending] = "lost")
    BY <1>3 DEF Ends
  <2> QED BY <1>1, <2>1, <2>2 DEF RowInTurn
<1> QED BY <1>1, <1>4, <1>5, <1>7, <1>8, <1>9, <1>10 DEF PayoutsInv

(***************************************************************************)
(* What the payouts have taken from the balances: an invariant over the    *)
(* one above.  A call has paid before it debits, pays once, and in turn    *)
(* the balance it has read is still that of the wallet.                    *)
(***************************************************************************)
Settled(w) == {p \in paid : p.wallet = w /\ at[p.by] = "done"}

BalancesFit ==
  /\ IsFiniteSet(paid)
  /\ \A p \in paid : at[p.by] \in {"debit"} \cup Ends
  /\ \A p, q \in paid : p.by = q.by => p = q
  /\ \A c \in Confirm : at[c] = "debit" => PaymentOf(c) \in paid
  /\ ~overlapped => \A c \in Confirm :
       at[c] \in {"callProvider", "debit"} => read[c] = balance[order[took[c]].wallet]
  /\ BalancesMatchPayouts

LEMMA PaidRows ==
  ASSUME TypeOK
  PROVE  \A p \in paid : p.by \in Confirm /\ p.by \in Calls /\ p.amount \in Int /\ p.wallet \in Wallets
<1>1. Sums \subseteq Int /\ Confirm \subseteq Calls
  BY SumAssumption, CallsAre
<1>2. \A p \in paid : p \in Payment
  BY DEF TypeOK
<1> QED BY <1>1, <1>2 DEF Payment

\* A step that settles no payout and executes none; a call may keep the balance of its wallet.
Quiet ==
  /\ UNCHANGED <<balance, order, paid>>
  /\ overlapped => overlapped'
  /\ \A c \in Confirm :
       /\ at'[c] = "debit" => at[c] = "debit"
       /\ at'[c] \in {"callProvider", "debit"} =>
            \/ at[c] = at'[c] /\ took'[c] = took[c] /\ read'[c] = read[c]
            \/ at'[c] = "callProvider" /\ read'[c] = balance[order[took'[c]].wallet]
       /\ at'[c] = "done" <=> at[c] = "done"
       /\ at[c] \in {"debit"} \cup Ends => at'[c] \in {"debit"} \cup Ends

LEMMA QuietFits ==
  ASSUME TypeOK, BalancesFit, Quiet, overlapped' \in BOOLEAN
  PROVE  BalancesFit'
<1>1. \A p \in paid : p.by \in Confirm
  BY PaidRows
<1>2. \A p \in paid : at'[p.by] \in {"debit"} \cup Ends
  BY <1>1 DEF BalancesFit, Quiet
<1>3. \A c \in Confirm : at'[c] = "debit" => PaymentOf(c)' \in paid
  <2> SUFFICES ASSUME NEW c \in Confirm, at'[c] = "debit" PROVE PaymentOf(c)' \in paid
    OBVIOUS
  <2>1. at[c] = "debit" /\ took'[c] = took[c] /\ order' = order
    BY DEF Quiet
  <2> QED BY <2>1 DEF BalancesFit, PaymentOf
<1>4. ASSUME ~overlapped', NEW c \in Confirm, at'[c] \in {"callProvider", "debit"}
      PROVE  read'[c] = balance'[order'[took'[c]].wallet]
  <2>1. ~overlapped /\ balance' = balance /\ order' = order
    BY <1>4 DEF Quiet
  <2>2. CASE at[c] = at'[c] /\ took'[c] = took[c] /\ read'[c] = read[c]
    <3>1. read[c] = balance[order[took[c]].wallet]
      BY <1>4, <2>1, <2>2 DEF BalancesFit
    <3> QED BY <2>1, <2>2, <3>1
  <2>3. CASE read'[c] = balance[order[took'[c]].wallet]
    BY <2>1, <2>3
  <2> QED BY <1>4, <2>2, <2>3 DEF Quiet
<1>5. BalancesMatchPayouts'
  <2> SUFFICES ASSUME ~overlapped', NEW w \in Wallets
               PROVE  balance'[w].available =
                        Opening - SumOfAmounts({p \in paid : p.wallet = w /\ at'[p.by] = "done"})
    BY DEF BalancesMatchPayouts, Quiet
  <2>1. {p \in paid : p.wallet = w /\ at'[p.by] = "done"} = {p \in paid : p.wallet = w /\ at[p.by] = "done"}
    BY <1>1 DEF Quiet
  <2>2. ~overlapped /\ balance' = balance
    BY DEF Quiet
  <2> QED BY <2>1, <2>2 DEF BalancesFit, BalancesMatchPayouts
<1>6. IsFiniteSet(paid') /\ (\A p, q \in paid' : p.by = q.by => p = q) /\ paid' = paid
  BY DEF BalancesFit, Quiet
<1> QED BY <1>2, <1>3, <1>4, <1>5, <1>6 DEF BalancesFit

\* The provider executes a payout; nothing is settled yet.
LEMMA PaysFit ==
  ASSUME PayoutsInv, BalancesFit, NEW c \in Confirm, at[c] = "callProvider", paid' = paid \cup {PaymentOf(c)},
         NEW place \in {"debit", "failed"}, Goto(c, place), UNCHANGED <<balance, order, overlapped>>,
         \A d \in Confirm : d /= c \/ place = "debit" => took'[d] = took[d] /\ read'[d] = read[d]
  PROVE  BalancesFit'
<1>1. TypeOK /\ c \in Calls /\ at \in [Calls -> {"idle"} \cup InitiatePlaces \cup ConfirmPlaces \cup Ends]
  BY CallsAre DEF PayoutsInv, TypeOK
<1>2. /\ at'[c] = place /\ \A b \in Calls : b /= c => at'[b] = at[b]
      /\ Confirm \subseteq Calls /\ at[c] \notin {"debit", "done"} \cup Ends /\ place \in {"debit"} \cup Ends
  BY <1>1, CallsAre DEF Goto, Ends
<1>3. \A p \in paid : p.by \in Confirm /\ p.by \in Calls /\ p.by /= c
  BY <1>1, <1>2, PaidRows DEF BalancesFit
<1>4. PaymentOf(c).by = c
  BY DEF PaymentOf
<1>5. IsFiniteSet(paid')
  BY FS_AddElement DEF BalancesFit
<1>6. PICK r : r = PaymentOf(c)
  OBVIOUS
<1>7. (\A p \in paid' : at'[p.by] \in {"debit"} \cup Ends) /\ (\A p, q \in paid' : p.by = q.by => p = q)
  BY <1>2, <1>3, <1>4, <1>6 DEF BalancesFit
<1>8. \A d \in Confirm : at'[d] = "debit" => PaymentOf(d)' \in paid'
  <2> SUFFICES ASSUME NEW d \in Confirm, at'[d] = "debit" PROVE PaymentOf(d)' \in paid'
    OBVIOUS
  <2>1. took'[d] = took[d]
    BY <1>2
  <2>2. PaymentOf(d)' = PaymentOf(d)
    BY <2>1 DEF PaymentOf
  <2>3. d /= c => at[d] = "debit"
    BY <1>2
  <2> QED BY <2>2, <2>3 DEF BalancesFit
<1>9. ASSUME ~overlapped', NEW d \in Confirm, at'[d] \in {"callProvider", "debit"}
      PROVE  read'[d] = balance'[order'[took'[d]].wallet]
  <2>1. d /= c \/ place = "debit"
    BY <1>2, <1>9
  <2>2. took'[d] = took[d] /\ read'[d] = read[d] /\ at[d] \in {"callProvider", "debit"}
    BY <1>2, <1>9, <2>1
  <2>3. read[d] = balance[order[took[d]].wallet]
    BY <1>9, <2>2 DEF BalancesFit
  <2> QED BY <2>2, <2>3
<1>10. BalancesMatchPayouts'
  <2> SUFFICES ASSUME ~overlapped', NEW w \in Wallets
               PROVE  balance[w].available =
                        Opening - SumOfAmounts({p \in paid' : p.wallet = w /\ at'[p.by] = "done"})
    BY DEF BalancesMatchPayouts
  <2>1. {p \in paid' : p.wallet = w /\ at'[p.by] = "done"} = {p \in paid : p.wallet = w /\ at[p.by] = "done"}
    BY <1>2, <1>3, <1>4, <1>6
  <2> QED BY <2>1 DEF BalancesFit, BalancesMatchPayouts
<1> QED BY <1>5, <1>7, <1>8, <1>9, <1>10 DEF BalancesFit

\* The debit settles the payout of its call, and takes its amount from the balance.
LEMMA DebitFits ==
  ASSUME PayoutsInv, BalancesFit, NEW c \in Confirm, Debit(c)
  PROVE  BalancesFit'
<1>1. TypeOK /\ at[c] = "debit" /\ at[c] \in Holding /\ at[c] \in PastCode /\ c \in Calls
  BY CallsAre DEF PayoutsInv, Debit, Holding, PastCode
<1>2. PICK i \in Initiate : took[c] = i
  BY <1>1, Holds
<1> DEFINE u == order[i].wallet
           n == order[i].amount
<1>3. u \in Wallets /\ n \in Int /\ read[c] \in Balance /\ balance \in [Wallets -> Balance]
  <2>1. order[i] \in [wallet : Wallets, amount : Sums] /\ Sums \subseteq Int
    BY <1>1, Holds, SumAssumption
  <2>2. u \in Wallets /\ n \in Int
    BY <2>1
  <2> QED BY <1>1, <2>2, Holds
<1>4. /\ balance' = [balance EXCEPT ![u] = Minus(read[c], n)] /\ UNCHANGED <<order, paid, overlapped>>
      /\ Goto(c, "done") /\ took' = [took EXCEPT ![c] = NoPayout] /\ read' = [read EXCEPT ![c] = Both(0)]
  BY <1>2 DEF Debit, End
<1>5. PICK r : r = PaymentOf(c)
  OBVIOUS
<1>6. r \in paid /\ r.by = c /\ r.wallet = u /\ r.amount = n
  BY <1>1, <1>2, <1>5 DEF BalancesFit, PaymentOf
<1> HIDE DEF u, n
<1>7. /\ at'[c] = "done" /\ \A b \in Calls : b /= c => at'[b] = at[b]
      /\ Confirm \subseteq Calls
      /\ \A d \in Confirm : d /= c => took'[d] = took[d] /\ read'[d] = read[d]
  BY <1>1, <1>4, CallsAre DEF Goto, TypeOK
<1>8. \A p \in paid : p.by \in Confirm /\ p.by \in Calls /\ p.amount \in Int
  BY <1>1, PaidRows
<1>9. (\A p \in paid' : at'[p.by] \in {"debit"} \cup Ends) /\ (\A p, q \in paid' : p.by = q.by => p = q)
  BY <1>4, <1>7, <1>8 DEF BalancesFit, Ends
<1>10. \A d \in Confirm : at'[d] = "debit" => PaymentOf(d)' \in paid'
  <2> SUFFICES ASSUME NEW d \in Confirm, at'[d] = "debit" PROVE PaymentOf(d)' \in paid'
    OBVIOUS
  <2>1. d /= c /\ at[d] = "debit" /\ took'[d] = took[d]
    BY <1>7
  <2>2. PaymentOf(d)' = PaymentOf(d)
    BY <1>4, <2>1 DEF PaymentOf
  <2> QED BY <1>4, <2>1, <2>2 DEF BalancesFit
<1>11. ASSUME ~overlapped', NEW d \in Confirm, at'[d] \in {"callProvider", "debit"}
       PROVE  read'[d] = balance'[order'[took'[d]].wallet]
  <2>1. d /= c /\ at[d] \in {"callProvider", "debit"} /\ d \in Calls /\ ~overlapped
    BY <1>4, <1>7, <1>11
  <2>2. at[d] \in {"idle"} \cup Ends
    <3>1. at[c] \notin {"idle"} \cup Ends /\ OneAtATime
      BY <1>1 DEF Ends, PayoutsInv
    <3> QED BY <1>1, <2>1, <3>1, Lone
  <2> QED BY <2>1, <2>2 DEF Ends
<1>12. BalancesMatchPayouts'
  <2> SUFFICES ASSUME ~overlapped, NEW w \in Wallets
               PROVE  balance'[w].available = Opening - SumOfAmounts(Settled(w)')
    BY <1>4 DEF BalancesMatchPayouts, Settled
  <2>1. balance[w].available = Opening - SumOfAmounts(Settled(w))
    BY DEF BalancesFit, BalancesMatchPayouts, Settled
  <2>2. CASE w /= u
    <3>1. Settled(w)' = Settled(w)
      BY <1>4, <1>6, <1>7, <1>8, <2>2 DEF Settled, BalancesFit
    <3>2. balance'[w] = balance[w]
      BY <1>3, <1>4, <2>2
    <3> QED BY <2>1, <3>1, <3>2
  <2>3. CASE w = u
    <3>1. read[c] = balance[u]
      BY <1>1, <1>2 DEF BalancesFit, u
    <3>2. balance'[w] = Minus(balance[u], n)
      BY <1>3, <1>4, <2>3, <3>1
    <3>3. balance'[w].available = balance[w].available - n
      BY <1>3, <2>3, <3>2 DEF Minus, Plus, Balance
    <3>4. Settled(w)' = Settled(w) \cup {r} /\ r \notin Settled(w)
      BY <1>1, <1>4, <1>6, <1>7, <1>8, <2>3 DEF Settled, BalancesFit
    <3>5. IsFiniteSet(Settled(w)) /\ \A p \in Settled(w) \cup {r} : p.amount \in Int
      <4>1. Settled(w) \subseteq paid
        BY DEF Settled
      <4> QED BY <1>6, <1>8, <4>1, FS_Subset DEF BalancesFit
    <3>6. SumOfAmounts(Settled(w)) \in Int
      BY <3>5, SumInt
    <3>7. SumOfAmounts(Settled(w) \cup {r}) = SumOfAmounts(Settled(w)) + r.amount
      BY <3>4, <3>5, SumAdd
    <3> QED BY <1>3, <1>6, <2>1, <3>3, <3>4, <3>6, <3>7, OpeningAssumption
  <2> QED BY <2>2, <2>3
<1> QED BY <1>4, <1>9, <1>10, <1>11, <1>12 DEF BalancesFit

\* A call of either kind that only moves, or ends without having paid, is quiet.
LEMMA MovesQuietly ==
  ASSUME TypeOK, NEW a \in Calls, NEW place \in InitiatePlaces \cup ConfirmPlaces \cup Ends, Goto(a, place),
         UNCHANGED <<balance, order, paid, overlapped>>,
         at[a] \notin {"debit"} \cup Ends, place /= "debit", place = "done" => a \notin Confirm,
         \A d \in Confirm : d /= a => took'[d] = took[d] /\ read'[d] = read[d],
         place = "callProvider" => read'[a] = balance[order[took'[a]].wallet]
  PROVE  Quiet /\ overlapped' \in BOOLEAN
<1>1. /\ at'[a] = place /\ \A b \in Calls : b /= a => at'[b] = at[b]
      /\ Confirm \subseteq Calls /\ overlapped \in BOOLEAN
  BY CallsAre DEF Goto, TypeOK
<1>2. ASSUME NEW c \in Confirm
      PROVE  /\ at'[c] = "debit" => at[c] = "debit"
             /\ at'[c] \in {"callProvider", "debit"} =>
                  \/ at[c] = at'[c] /\ took'[c] = took[c] /\ read'[c] = read[c]
                  \/ at'[c] = "callProvider" /\ read'[c] = balance[order[took'[c]].wallet]
             /\ at'[c] = "done" <=> at[c] = "done"
             /\ at[c] \in {"debit"} \cup Ends => at'[c] \in {"debit"} \cup Ends
  <2>1. CASE c = a
    BY <1>1, <2>1 DEF Ends
  <2>2. CASE c /= a
    BY <1>1, <2>2
  <2> QED BY <2>1, <2>2
<1> QED BY <1>1, <1>2 DEF Quiet

LEMMA BalancesFitOn == PayoutsInv /\ PayoutsInv' /\ BalancesFit /\ [Next]_vars => BalancesFit'
<1> SUFFICES ASSUME PayoutsInv, PayoutsInv', BalancesFit, [Next]_vars PROVE BalancesFit'
  OBVIOUS
<1> USE CallsAre, PlacesAre
<1>1. /\ TypeOK /\ overlapped' \in BOOLEAN /\ Confirm \subseteq Calls /\ Initiate \subseteq Calls
      /\ at \in [Calls -> {"idle"} \cup InitiatePlaces \cup ConfirmPlaces \cup Ends]
      /\ took \in [Confirm -> Initiate \cup {NoPayout}] /\ read \in [Confirm -> Balance]
  BY DEF PayoutsInv, TypeOK
<1>2. ASSUME NEW a \in Calls, Arrive(a) PROVE BalancesFit'
  <2> DEFINE place == IF a \in Initiate THEN "readWallet" ELSE "readOtp"
  <2>1. /\ at[a] = "idle" /\ Goto(a, place) /\ UNCHANGED <<balance, order, took, read, paid>>
        /\ overlapped => overlapped'
    BY <1>2 DEF Arrive
  <2>2. place \in {"readWallet", "readOtp"}
    OBVIOUS
  <2> HIDE DEF place
  <2>3. at'[a] = place /\ \A b \in Calls : b /= a => at'[b] = at[b]
    BY <1>1, <2>1 DEF Goto
  <2>4. ASSUME NEW c \in Confirm
        PROVE  /\ at'[c] \in {"callProvider", "debit"} => at[c] = at'[c]
               /\ at'[c] = "done" <=> at[c] = "done"
               /\ at[c] \in {"debit"} \cup Ends => at'[c] \in {"debit"} \cup Ends
    BY <1>1, <2>1, <2>2, <2>3 DEF Ends
  <2>5. Quiet
    BY <2>1, <2>4 DEF Quiet
  <2> QED BY <1>1, <2>5, QuietFits
<1>3. ASSUME NEW i \in Initiate, InitiateStep(i) PROVE BalancesFit'
  <2>1. PICK place \in {"storePending", "failed", "storeOtp", "sendOtp", "done"} :
          /\ Goto(i, place) /\ UNCHANGED <<tables, order, took, read, paid, overlapped>>
          /\ at[i] \in {"readWallet", "storePending", "storeOtp", "sendOtp"}
    BY <1>3 DEF InitiateStep, ReadWallet, StorePending, StoreOtp, SendOtp, Move, WriteRow
  <2>2. place \in InitiatePlaces \cup ConfirmPlaces \cup Ends /\ i \in Calls /\ i \notin Confirm
        /\ at[i] \notin {"debit"} \cup Ends
    BY <1>1, <2>1 DEF InitiatePlaces, Ends
  <2>3. Quiet
    BY <1>1, <2>1, <2>2, MovesQuietly
  <2> QED BY <1>1, <2>3, QuietFits
<1>4. ASSUME UNCHANGED <<balance, callVars, paid, overlapped>> PROVE BalancesFit'
  <2>1. Quiet
    BY <1>4 DEF Quiet
  <2> QED BY <1>1, <2>1, QuietFits
<1>5. ASSUME NEW i \in Initiate, Expire(i) PROVE BalancesFit'
  BY <1>4, <1>5 DEF Expire
<1>6. ASSUME NEW p \in Pins, SetPayoutPin(p) PROVE BalancesFit'
  BY <1>4, <1>6 DEF SetPayoutPin
<1>7. CASE Crash
  <2>1. /\ UNCHANGED <<balance, order, paid, overlapped>>
        /\ \A c \in Confirm : at'[c] = IF at[c] \in {"idle"} \cup Ends THEN at[c] ELSE "lost"
    BY <1>1, <1>7 DEF Crash, InFlight
  <2>2. Quiet
    BY <2>1 DEF Quiet, Ends
  <2> QED BY <1>1, <2>2, QuietFits
<1>8. ASSUME NEW c \in Confirm, NEW place \in ConfirmPlaces \cup Ends, at[c] \in ConfirmPlaces, at[c] /= "debit",
             place \notin {"debit", "done", "callProvider"}, Goto(c, place),
             UNCHANGED <<balance, order, paid, overlapped>>,
             \A d \in Confirm : d /= c => took'[d] = took[d] /\ read'[d] = read[d]
      PROVE  BalancesFit'
  <2>1. c \in Calls /\ at[c] \notin {"debit"} \cup Ends
    BY <1>1, <1>8
  <2>2. Quiet
    BY <1>1, <1>8, <2>1, MovesQuietly
  <2> QED BY <1>1, <2>2, QuietFits
<1>9. ASSUME NEW c \in Confirm, Refuse(c), at[c] \in {"rereadWallet", "callProvider"} PROVE BalancesFit'
  <2>1. /\ Goto(c, "failed") /\ UNCHANGED <<balance, order, paid, overlapped>>
        /\ \A d \in Confirm : d /= c => took'[d] = took[d] /\ read'[d] = read[d]
    BY <1>1, <1>9 DEF Refuse, End
  <2>2. at[c] \in ConfirmPlaces /\ at[c] /= "debit" /\ "failed" \in Ends
    BY <1>9 DEF ConfirmPlaces, Ends
  <2> QED BY <1>8, <2>1, <2>2
<1>10. ASSUME NEW c \in Confirm, ConfirmStep(c) PROVE BalancesFit'
  <2>1. CASE ReadOtp(c) \/ ClearOtp(c) \/ CheckPin(c) \/ ReadPending(c) \/ ClearPending(c)
    <3>1. PICK place \in {"failed", "clearExpired", "clearOtp", "checkPin", "readPending", "clearPending", "rereadWallet"} :
            /\ Goto(c, place) /\ UNCHANGED <<balance, order, paid, overlapped, read>>
            /\ \A d \in Confirm : d /= c => took'[d] = took[d]
            /\ at[c] \in {"readOtp", "clearOtp", "clearExpired", "checkPin", "readPending", "clearPending"}
      BY <1>1, <2>1 DEF ReadOtp, ClearOtp, CheckPin, ReadPending, ClearPending, Move, WriteRow
    <3>2. place \in ConfirmPlaces \cup Ends /\ at[c] \in ConfirmPlaces /\ at[c] /= "debit"
      BY <3>1 DEF ConfirmPlaces, Ends
    <3> QED BY <1>8, <3>1, <3>2
  <2>2. CASE RereadWallet(c)
    <3>1. CASE Refuse(c)
      BY <1>9, <2>2, <3>1 DEF RereadWallet
    <3>2. CASE KeepBalance(c) /\ UNCHANGED balance
      <4>1. /\ Goto(c, "callProvider") /\ UNCHANGED <<balance, order, paid, overlapped, took>>
            /\ read'[c] = balance[order[took'[c]].wallet]
            /\ \A d \in Confirm : d /= c => took'[d] = took[d] /\ read'[d] = read[d]
        BY <1>1, <3>2 DEF KeepBalance
      <4>2. c \in Calls /\ at[c] \notin {"debit"} \cup Ends /\ "callProvider" \in ConfirmPlaces
        BY <1>1, <2>2 DEF RereadWallet, ConfirmPlaces, Ends
      <4>3. Quiet
        BY <1>1, <4>1, <4>2, MovesQuietly
      <4> QED BY <1>1, <4>3, QuietFits
    <3> QED BY <2>2, <3>1, <3>2 DEF RereadWallet
  <2>3. CASE CallProvider(c)
    <3>1. CASE Refuse(c)
      BY <1>9, <2>3, <3>1 DEF CallProvider
    <3>2. CASE paid' = paid \cup {PaymentOf(c)} /\ UNCHANGED tables
               /\ Goto(c, "debit") /\ UNCHANGED <<order, claim, took, read, rowVars, overlapped, crashes>>
      BY <2>3, <3>2, PaysFit DEF CallProvider
    <3>3. CASE paid' = paid \cup {PaymentOf(c)} /\ UNCHANGED tables /\ End(c, "failed")
      <4>1. /\ Goto(c, "failed") /\ UNCHANGED <<balance, order, overlapped>>
            /\ \A d \in Confirm : d /= c => took'[d] = took[d] /\ read'[d] = read[d]
        BY <1>1, <3>3 DEF End
      <4> QED BY <2>3, <3>3, <4>1, PaysFit DEF CallProvider
    <3> QED BY <2>3, <3>1, <3>2, <3>3 DEF CallProvider
  <2>4. CASE Debit(c)
    BY <2>4, DebitFits
  <2> QED BY <1>10, <2>1, <2>2, <2>3, <2>4 DEF ConfirmStep
<1>11. CASE UNCHANGED vars
  BY <1>4, <1>11
<1> QED BY <1>2, <1>3, <1>5, <1>6, <1>7, <1>10, <1>11 DEF Next

LEMMA BalancesFitFirst == Init => BalancesFit
<1> SUFFICES ASSUME Init PROVE BalancesFit
  OBVIOUS
<1>1. paid = {} /\ IsFiniteSet(paid) /\ overlapped = FALSE
  BY FS_EmptySet DEF Init
<1>2. \A c \in Confirm : at[c] = "idle"
  BY CallsAre DEF Init
<1>3. ASSUME NEW w \in Wallets
      PROVE  balance[w].available = Opening - SumOfAmounts({p \in paid : p.wallet = w /\ at[p.by] = "done"})
  <2>1. balance[w].available = Opening
    BY DEF Init, TablesInit, Both
  <2>2. {p \in paid : p.wallet = w /\ at[p.by] = "done"} = {}
    BY <1>1
  <2> QED BY <2>1, <2>2, SumOfNone, OpeningAssumption
<1> QED BY <1>1, <1>2, <1>3 DEF BalancesFit, BalancesMatchPayouts

(***************************************************************************)
(*                               THEOREMS                                  *)
(***************************************************************************)
LEMMA InitiallyHolds == Init => PayoutsInv
<1> SUFFICES ASSUME Init PROVE PayoutsInv
  OBVIOUS
<1> USE CallsAre, PlacesAre
<1>1. /\ at = [a \in Calls |-> "idle"] /\ took = [c \in Confirm |-> NoPayout] /\ read = [c \in Confirm |-> Both(0)]
      /\ otp = NoCode /\ expired = {} /\ pending = NoPayout /\ pin = NoPin /\ paid = {} /\ overlapped = FALSE /\ crashes = 0
      /\ order \in [Initiate -> [wallet : Wallets, amount : Sums]]
      /\ claim \in [Confirm -> [code : Initiate \cup {NoCode}, pin : Pins]]
  BY DEF Init
<1>2. TablesTypeOK
  BY OpeningAssumption DEF Init, TablesInit, TablesTypeOK, Both, Balance
<1>3. crashes \in 0..MaxCrashes /\ read \in [Confirm -> Balance] /\ paid \subseteq Payment
  BY <1>1, PayoutBounds DEF Both, Balance
<1>4. TypeOK
  BY <1>1, <1>2, <1>3 DEF TypeOK
<1>5. OneAtATime /\ RowFits /\ RowInTurn
  BY <1>1 DEF OneAtATime, InFlight, RowFits, RowInTurn
<1>6. \A i \in Initiate : InitiateFits(i) /\ InitiateInTurn(i)
  BY <1>1 DEF InitiateFits, InitiateInTurn
<1>7. ASSUME NEW c \in Confirm PROVE ConfirmFits(c) /\ ConfirmInTurn(c)
  <2>1. at[c] = "idle" /\ at[c] \notin {"clearOtp"} \cup PastCode /\ took[c] = NoPayout
    BY <1>1 DEF PastCode, Holding
  <2> QED BY <2>1 DEF ConfirmFits, ConfirmInTurn, PastCode
<1>8. PaymentsAreAuthorised /\ CodesPayOnceInTurn /\ CodesConfirmTheirOrder
  BY <1>1 DEF PaymentsAreAuthorised, CodesPayOnceInTurn, CodesConfirmTheirOrder
<1> QED BY <1>4, <1>5, <1>6, <1>7, <1>8 DEF PayoutsInv

LEMMA NextKeeps == PayoutsInv /\ [Next]_vars => PayoutsInv'
<1> SUFFICES ASSUME PayoutsInv, [Next]_vars PROVE PayoutsInv'
  OBVIOUS
<1>1. CASE \E a \in Calls : Arrive(a)
  BY <1>1, Arrives
<1>2. CASE \E i \in Initiate : InitiateStep(i) \/ Expire(i)
  BY <1>2, InitiateSteps, Expires
<1>3. CASE \E c \in Confirm : ConfirmStep(c)
  BY <1>3, ConfirmSteps
<1>4. CASE \E p \in Pins : SetPayoutPin(p)
  BY <1>4, SetsPin
<1>5. CASE Crash
  BY <1>5, Crashes
<1>6. CASE UNCHANGED vars
  BY <1>6, Stutters
<1> QED BY <1>1, <1>2, <1>3, <1>4, <1>5, <1>6 DEF Next

\* The inductive invariant: whatever order and code the row holds have passed their checks,
\* and while calls come one at a time the two belong together and neither has been paid.
THEOREM InductiveInvariant == Spec => []PayoutsInv
BY InitiallyHolds, NextKeeps, PTL DEF Spec

\* Every column and every local of a call holds a value of its type, through every
\* interleaving of initiatePayout, confirmPayout, setPayoutPin and crashes.
THEOREM TypeCorrect == Spec => []TypeOK
<1>1. PayoutsInv => TypeOK
  BY DEF PayoutsInv
<1> QED BY <1>1, InductiveInvariant, PTL

\* However many calls interleave, what confirmPayout pays passed the ownership check of
\* initiatePayout, with a code that was drawn and a PIN that was set.
THEOREM PaymentsStayAuthorised == Spec => []PaymentsAreAuthorised
<1>1. PayoutsInv => PaymentsAreAuthorised
  BY DEF PayoutsInv
<1> QED BY <1>1, InductiveInvariant, PTL

\* While calls have come one at a time, a code pays once and an order is paid once.
THEOREM CodesPayOnceEach == Spec => []CodesPayOnceInTurn
<1>1. PayoutsInv => CodesPayOnceInTurn
  BY DEF PayoutsInv
<1> QED BY <1>1, InductiveInvariant, PTL

\* While calls have come one at a time, a code confirms the order it was mailed for, or
\* that of a call that died before it drew a code.
THEOREM CodesConfirmOrders == Spec => []CodesConfirmTheirOrder
<1>1. PayoutsInv => CodesConfirmTheirOrder
  BY DEF PayoutsInv
<1> QED BY <1>1, InductiveInvariant, PTL

\* While calls have come one at a time, a wallet holds what it opened with less the sum of
\* its finished payouts: the balance a confirmation read before it asked the provider is
\* still there when it is written back.
THEOREM BalancesStayMatched == Spec => []BalancesMatchPayouts
<1>1. Spec => []BalancesFit
  BY BalancesFitFirst, BalancesFitOn, InductiveInvariant, PTL DEF Spec
<1>2. BalancesFit => BalancesMatchPayouts
  BY DEF BalancesFit
<1> QED BY <1>1, <1>2, PTL

(***************************************************************************)
(* The two steps implement PayoutDesk: what the row and the confirmations  *)
(* hold is offered, the codes in the row and past the comparison are       *)
(* valid.  Neither reads how far an initiatePayout has got; that its order *)
(* has passed the check of the wallet comes from where the call stands.    *)
(***************************************************************************)
Past(c) == at[c] \in ConfirmPlaces \ {"readOtp", "clearExpired"}
codeBar == [c \in Confirm |-> claim[c].code]
offeredBar == ({pending} \cup {took[c] : c \in Confirm}) \ {NoPayout}
validBar == ({otp} \cup {claim[c].code : c \in {d \in Confirm : Past(d)}}) \ {NoCode}
pinBar == pin /= NoPin
answerBar == [c \in Confirm |-> AnswerTo(c)]

Withdraws == offeredBar' \in SUBSET offeredBar /\ validBar' \in SUBSET validBar
SameAsked == order' = order /\ codeBar' = codeBar

LEMMA TheDesk ==
  /\ Desk!Init <=> /\ order \in [Initiate -> [wallet : Wallets, amount : Sums]]
                   /\ codeBar \in [Confirm -> Initiate \cup {NoCode}]
                   /\ offeredBar = {} /\ validBar = {} /\ pinBar = FALSE /\ paid = {}
                   /\ answerBar = [c \in Confirm |-> "pending"]
  /\ SameAsked /\ UNCHANGED <<offeredBar, validBar, pinBar, paid, answerBar>> => [Desk!Next]_(Desk!desk)
  /\ SameAsked /\ Withdraws /\ UNCHANGED <<pinBar, paid, answerBar>> => Desk!Next
  /\ SameAsked /\ pinBar' = TRUE /\ UNCHANGED <<offeredBar, validBar, paid, answerBar>> => Desk!Next
  /\ \A i \in Initiate :
       /\ /\ order[i].wallet \in Owned
          /\ \E K \in SUBSET offeredBar : offeredBar' = K \cup {i}
          /\ SameAsked /\ UNCHANGED <<validBar, pinBar, paid, answerBar>>
          => Desk!Next
       /\ /\ order[i].wallet \in Owned
          /\ \E K \in SUBSET validBar : validBar' = K \cup {i}
          /\ SameAsked /\ UNCHANGED <<offeredBar, pinBar, paid, answerBar>>
          => Desk!Next
  /\ \A c \in Confirm :
       /\ /\ answerBar[c] = "pending" /\ pinBar /\ codeBar[c] \in validBar
          /\ \A p \in paid : p.by /= c
          /\ \E o \in offeredBar :
               paid' = paid \cup {[by |-> c, order |-> o, wallet |-> order[o].wallet, amount |-> order[o].amount]}
          /\ answerBar' \in {answerBar, [answerBar EXCEPT ![c] = "refused"]}
          /\ SameAsked /\ Withdraws /\ UNCHANGED pinBar
          => Desk!Next
       /\ /\ answerBar[c] = "pending"
          /\ \E p \in paid : p.by = c
          /\ answerBar' = [answerBar EXCEPT ![c] = "accepted"]
          /\ SameAsked /\ Withdraws /\ UNCHANGED <<pinBar, paid>>
          => Desk!Next
  /\ \A S \in SUBSET Confirm :
       /\ \A c \in S : answerBar[c] = "pending"
       /\ answerBar' = [c \in Confirm |-> IF c \in S THEN "refused" ELSE answerBar[c]]
       /\ SameAsked /\ Withdraws /\ UNCHANGED <<pinBar, paid>>
       => Desk!Next
BY DEF Desk!Init, Desk!Next, Desk!desk, Desk!asked, Desk!Withdraw, Desk!Drop, Desk!SetPin, Desk!Offer,
       Desk!Draw, Desk!PaymentOf, Desk!Pay, Desk!Accept, Desk!Refuse, SameAsked, Withdraws, ValidCodes, Past,
       codeBar, offeredBar, validBar, pinBar, answerBar

\* A code is drawn for an order whose wallet was found to be the user's.
DrawsFit == \A i \in Initiate : at[i] = "storeOtp" => order[i].wallet \in Owned

LEMMA DrawsFitOn == PayoutsInv /\ DrawsFit /\ [Next]_vars => DrawsFit'
<1> SUFFICES ASSUME PayoutsInv, DrawsFit, [Next]_vars, NEW i \in Initiate, at'[i] = "storeOtp"
             PROVE  order'[i].wallet \in Owned
  BY DEF DrawsFit
<1> USE CallsAre
<1>1. at \in [Calls -> {"idle"} \cup InitiatePlaces \cup ConfirmPlaces \cup Ends] /\ InitiateFits(i)
  BY DEF PayoutsInv, TypeOK
<1>2. order' = order
  BY DEF Next, Arrive, InitiateStep, ReadWallet, StorePending, StoreOtp, SendOtp, Expire, ConfirmStep, ReadOtp,
         ClearOtp, CheckPin, ReadPending, ClearPending, RereadWallet, KeepBalance, CallProvider, Debit, End,
         Refuse, Move, WriteRow, SetPayoutPin, Crash
<1>3. at[i] = "storeOtp" \/ StorePending(i)
  <2>1. ASSUME NEW a \in Calls, NEW place, Goto(a, place), place /= "storeOtp" PROVE at[i] = "storeOtp"
    BY <1>1, <2>1 DEF Goto
  <2>2. CASE \E a \in Calls : Arrive(a)
    BY <2>1, <2>2 DEF Arrive
  <2>3. CASE \E j \in Initiate : ReadWallet(j) \/ StoreOtp(j) \/ SendOtp(j)
    BY <2>1, <2>3 DEF ReadWallet, StoreOtp, SendOtp, Move, WriteRow
  <2>4. CASE \E j \in Initiate : StorePending(j)
    BY <1>1, <2>4 DEF StorePending, WriteRow, Goto
  <2>5. CASE \E c \in Confirm : ConfirmStep(c)
    <3>1. PICK c \in Confirm, place \in ConfirmPlaces \cup Ends : Goto(c, place)
      BY <2>5 DEF ConfirmStep, ReadOtp, ClearOtp, CheckPin, ReadPending, ClearPending, RereadWallet,
                  KeepBalance, CallProvider, Debit, End, Refuse, Move, WriteRow, ConfirmPlaces, Ends
    <3> QED BY <2>1, <3>1 DEF ConfirmPlaces, Ends
  <2>6. CASE Crash
    BY <1>1, <2>6 DEF Crash
  <2>7. CASE UNCHANGED at
    BY <2>7
  <2> QED BY <2>2, <2>3, <2>4, <2>5, <2>6, <2>7 DEF Next, InitiateStep, Expire, SetPayoutPin
<1>4. order[i].wallet \in Owned
  BY <1>1, <1>3 DEF DrawsFit, StorePending, InitiateFits
<1> QED BY <1>2, <1>4

\* The confirmations stand, and what they have taken.
Stand ==
  UNCHANGED <<claim, took>> /\ \A c \in Confirm : Past(c)' = Past(c) /\ AnswerTo(c)' = AnswerTo(c)

LEMMA StandStill ==
  ASSUME Stand
  PROVE  /\ codeBar' = codeBar /\ answerBar' = answerBar
         /\ pending' = pending => offeredBar' = offeredBar
         /\ otp' = otp => validBar' = validBar
<1>1. codeBar' = codeBar /\ answerBar' = answerBar
  BY DEF Stand, codeBar, answerBar
<1>2. pending' = pending => offeredBar' = offeredBar
  BY DEF Stand, offeredBar
<1>3. ASSUME otp' = otp PROVE validBar' = validBar
  <2>1. {d \in Confirm : Past(d)}' = {d \in Confirm : Past(d)}
    BY DEF Stand
  <2> QED BY <1>3, <2>1 DEF Stand, validBar
<1> QED BY <1>1, <1>2, <1>3

LEMMA Still ==
  ASSUME Stand, UNCHANGED <<order, pending, otp, pin, paid>>
  PROVE  [Desk!Next]_(Desk!desk)
<1>1. pinBar' = pinBar
  BY DEF pinBar
<1> QED BY <1>1, StandStill, TheDesk DEF SameAsked

\* A confirmation that goes on or ends.
LEMMA ConfirmAtTheDesk ==
  ASSUME PayoutsInv, NEW c \in Confirm, at[c] \in ConfirmPlaces, NEW place \in ConfirmPlaces \cup Ends,
         Goto(c, place), UNCHANGED <<order, claim, pending, pin>>, otp' \in {otp, NoCode},
         \A d \in Confirm : d /= c => took'[d] = took[d],
         took'[c] \in {took[c], pending, NoPayout},
         place \in ConfirmPlaces \ {"readOtp", "clearExpired"} => Past(c) \/ claim[c].code = otp
  PROVE  /\ SameAsked /\ Withdraws /\ pinBar' = pinBar /\ answerBar[c] = "pending"
         /\ at'[c] = place /\ answerBar' = [answerBar EXCEPT ![c] = AnswerTo(c)']
         /\ place \in ConfirmPlaces => answerBar' = answerBar
         /\ place = "failed" => answerBar' = [answerBar EXCEPT ![c] = "refused"]
         /\ place = "done" => answerBar' = [answerBar EXCEPT ![c] = "accepted"]
         /\ place = "failed" /\ paid' = paid => [Desk!Next]_(Desk!desk)
         /\ place \in ConfirmPlaces /\ paid' = paid => [Desk!Next]_(Desk!desk)
<1> USE CallsAre
<1>1. at \in [Calls -> {"idle"} \cup InitiatePlaces \cup ConfirmPlaces \cup Ends]
      /\ took \in [Confirm -> Initiate \cup {NoPayout}]
  BY DEF PayoutsInv, TypeOK
<1>2. at'[c] = place /\ \A d \in Confirm : d /= c => at'[d] = at[d]
  BY <1>1 DEF Goto
<1>3. SameAsked /\ pinBar' = pinBar
  BY DEF SameAsked, codeBar, pinBar
<1>4. offeredBar' \in SUBSET offeredBar
  BY DEF offeredBar
<1>5. validBar' \in SUBSET validBar
  <2>1. ASSUME NEW d \in Confirm, Past(d)' PROVE Past(d) \/ claim[d].code = otp
    BY <1>2, <2>1 DEF Past
  <2> QED BY <2>1 DEF validBar
<1>6. answerBar[c] = "pending" /\ \A d \in Confirm : d /= c => AnswerTo(d)' = AnswerTo(d)
  BY <1>2 DEF answerBar, AnswerTo, ConfirmPlaces
<1>7. answerBar' = [answerBar EXCEPT ![c] = AnswerTo(c)']
  BY <1>6 DEF answerBar
<1>8. /\ place \in ConfirmPlaces => AnswerTo(c)' = "pending"
      /\ place = "failed" => AnswerTo(c)' = "refused"
      /\ place = "done" => AnswerTo(c)' = "accepted"
  BY <1>2 DEF AnswerTo, ConfirmPlaces
<1>9. place \in ConfirmPlaces => answerBar' = answerBar
  BY <1>6, <1>7, <1>8 DEF answerBar
<1>10. place \in ConfirmPlaces /\ paid' = paid => [Desk!Next]_(Desk!desk)
  BY <1>3, <1>4, <1>5, <1>9, TheDesk DEF Withdraws
<1>11. ASSUME place = "failed", paid' = paid PROVE [Desk!Next]_(Desk!desk)
  <2>1. answerBar' = [d \in Confirm |-> IF d \in {c} THEN "refused" ELSE answerBar[d]]
    BY <1>7, <1>8, <1>11 DEF answerBar
  <2>2. {c} \in SUBSET Confirm /\ \A d \in {c} : answerBar[d] = "pending"
    BY <1>6
  <2> QED BY <1>3, <1>4, <1>5, <1>11, <2>1, <2>2, TheDesk DEF Withdraws
<1> QED BY <1>2, <1>3, <1>4, <1>5, <1>6, <1>7, <1>8, <1>9, <1>10, <1>11 DEF Withdraws

LEMMA PaysAtTheDesk ==
  ASSUME PayoutsInv, BalancesFit, NEW c \in Confirm, CallProvider(c) \/ Debit(c)
  PROVE  [Desk!Next]_(Desk!desk)
<1> USE CallsAre, PlacesAre
<1>1. /\ TypeOK /\ ConfirmFits(c)
      /\ at \in [Calls -> {"idle"} \cup InitiatePlaces \cup ConfirmPlaces \cup Ends]
      /\ took \in [Confirm -> Initiate \cup {NoPayout}]
  BY DEF PayoutsInv, TypeOK
<1>2. at[c] \in {"callProvider", "debit"} /\ at[c] \in Holding /\ at[c] \in ConfirmPlaces
  BY DEF CallProvider, Debit, Holding, ConfirmPlaces
<1>3. PICK o \in Initiate : o = took[c]
  BY <1>1, <1>2 DEF ConfirmFits
<1>4. o \in offeredBar
  BY <1>3 DEF offeredBar
<1>5. codeBar[c] \in validBar /\ pinBar
  <2>1. Past(c) /\ claim[c].code /= NoCode /\ pin /= NoPin
    BY <1>1, <1>2 DEF Past, ConfirmFits
  <2> QED BY <2>1 DEF codeBar, validBar, pinBar
<1>6. ASSUME NEW place \in {"failed", "debit", "done"}, Goto(c, place), UNCHANGED <<order, claim, pending, pin, otp>>,
             \A d \in Confirm : d /= c => took'[d] = took[d], took'[c] \in {took[c], NoPayout}
      PROVE  /\ SameAsked /\ Withdraws /\ pinBar' = pinBar /\ answerBar[c] = "pending"
             /\ place = "debit" => answerBar' = answerBar
             /\ place = "failed" => answerBar' = [answerBar EXCEPT ![c] = "refused"]
             /\ place = "done" => answerBar' = [answerBar EXCEPT ![c] = "accepted"]
             /\ place = "failed" /\ paid' = paid => [Desk!Next]_(Desk!desk)
  <2>1. place \in ConfirmPlaces \cup Ends /\ Past(c)
    BY <1>2 DEF ConfirmPlaces, Ends, Past
  <2>2. "debit" \in ConfirmPlaces
    BY DEF ConfirmPlaces
  <2> QED BY <1>2, <1>6, <2>1, <2>2, ConfirmAtTheDesk
<1>7. ASSUME NEW place \in {"failed", "done"}, End(c, place)
      PROVE  /\ Goto(c, place) /\ UNCHANGED <<order, claim, pending, pin, otp>>
             /\ (\A d \in Confirm : d /= c => took'[d] = took[d]) /\ took'[c] \in {took[c], NoPayout}
  BY <1>1, <1>7 DEF End
<1>8. CASE CallProvider(c)
  <2>1. at[c] = "callProvider"
    BY <1>8 DEF CallProvider
  <2>2. CASE Refuse(c)
    <3>1. End(c, "failed") /\ paid' = paid
      BY <2>2 DEF Refuse
    <3> QED BY <1>6, <1>7, <3>1
  <2>3. CASE ~Refuse(c)
    <3>1. \A p \in paid : p.by /= c
      BY <2>1 DEF BalancesFit, Ends
    <3>2. /\ paid' = paid \cup {PaymentOf(c)}
          /\ \/ Goto(c, "debit") /\ UNCHANGED <<order, claim, took, read, rowVars, overlapped, crashes>>
             \/ End(c, "failed")
      BY <1>8, <2>3 DEF CallProvider
    <3>3. PaymentOf(c) = [by |-> c, order |-> o, wallet |-> order[o].wallet, amount |-> order[o].amount]
      BY <1>3 DEF PaymentOf
    <3>4. /\ SameAsked /\ Withdraws /\ pinBar' = pinBar /\ answerBar[c] = "pending"
          /\ answerBar' \in {answerBar, [answerBar EXCEPT ![c] = "refused"]}
      <4>1. CASE End(c, "failed")
        BY <1>6, <1>7, <4>1
      <4>2. CASE Goto(c, "debit") /\ UNCHANGED <<order, claim, took, read, rowVars, overlapped, crashes>>
        BY <1>6, <4>2
      <4> QED BY <3>2, <4>1, <4>2
    <3>5. \E b \in offeredBar :
            paid' = paid \cup {[by |-> c, order |-> b, wallet |-> order[b].wallet, amount |-> order[b].amount]}
      BY <1>4, <3>2, <3>3
    <3> QED BY <1>5, <3>1, <3>4, <3>5, TheDesk
  <2> QED BY <2>2, <2>3
<1>9. CASE Debit(c)
  <2>1. at[c] = "debit" /\ End(c, "done") /\ paid' = paid
    BY <1>9 DEF Debit
  <2>2. \E p \in paid : p.by = c
    <3>1. PaymentOf(c) \in paid
      BY <2>1 DEF BalancesFit
    <3> QED BY <3>1 DEF PaymentOf
  <2>3. /\ SameAsked /\ Withdraws /\ pinBar' = pinBar /\ answerBar[c] = "pending"
        /\ answerBar' = [answerBar EXCEPT ![c] = "accepted"]
    BY <1>6, <1>7, <2>1
  <2> QED BY <2>1, <2>2, <2>3, TheDesk
<1> QED BY <1>8, <1>9

LEMMA ChecksAtTheDesk ==
  ASSUME PayoutsInv, NEW c \in Confirm,
         ReadOtp(c) \/ ClearOtp(c) \/ CheckPin(c) \/ ReadPending(c) \/ ClearPending(c) \/ RereadWallet(c)
  PROVE  [Desk!Next]_(Desk!desk)
<1> USE CallsAre, PlacesAre
<1>1. took \in [Confirm -> Initiate \cup {NoPayout}]
  BY DEF PayoutsInv, TypeOK
<1>2. ASSUME NEW place \in {"failed", "clearExpired", "clearOtp", "checkPin", "readPending", "clearPending",
                            "rereadWallet", "callProvider"},
             at[c] \in ConfirmPlaces, Goto(c, place), UNCHANGED <<order, claim, pending, pin, paid>>,
             otp' \in {otp, NoCode}, \A d \in Confirm : d /= c => took'[d] = took[d],
             took'[c] \in {took[c], pending, NoPayout},
             place \notin {"failed", "clearExpired"} => Past(c) \/ claim[c].code = otp
      PROVE  [Desk!Next]_(Desk!desk)
  <2>1. place \in ConfirmPlaces \cup Ends /\ (place \in Ends => place = "failed")
    BY DEF ConfirmPlaces, Ends
  <2>2. place \in ConfirmPlaces \ {"readOtp", "clearExpired"} => Past(c) \/ claim[c].code = otp
    BY <1>2, <2>1 DEF Ends
  <2> QED BY <1>2, <2>1, <2>2, ConfirmAtTheDesk
<1>3. CASE ReadOtp(c)
  <2>1. PICK place \in {"failed", "clearExpired", "clearOtp"} :
          Move(c, place) /\ at[c] = "readOtp" /\ (place = "clearOtp" => claim[c].code = otp)
    BY <1>3 DEF ReadOtp
  <2> QED BY <1>2, <2>1 DEF Move, ConfirmPlaces
<1>4. CASE ClearOtp(c)
  <2>1. PICK place \in {"checkPin", "failed"} :
          /\ Goto(c, place) /\ UNCHANGED <<order, claim, pending, pin, paid, took>> /\ otp' = NoCode
          /\ at[c] \in {"clearOtp", "clearExpired"} /\ (place = "checkPin" => at[c] = "clearOtp")
    BY <1>4 DEF ClearOtp, WriteRow
  <2> QED BY <1>2, <2>1 DEF Past, ConfirmPlaces
<1>5. CASE CheckPin(c) \/ ClearPending(c)
  <2>1. PICK place \in {"failed", "readPending", "rereadWallet"} : Move(c, place) /\ at[c] \in {"checkPin", "clearPending"}
    BY <1>5 DEF CheckPin, ClearPending
  <2> QED BY <1>2, <2>1 DEF Move, Past, ConfirmPlaces
<1>6. CASE ReadPending(c)
  <2>1. at[c] = "readPending" /\ at[c] \in ConfirmPlaces /\ Past(c)
    BY <1>6 DEF ReadPending, Past, ConfirmPlaces
  <2>2. CASE pending = NoPayout
    <3>1. Move(c, "failed")
      BY <1>6, <2>2 DEF ReadPending
    <3> QED BY <1>2, <2>1, <3>1 DEF Move
  <2>3. CASE pending /= NoPayout
    <3>1. /\ Goto(c, "clearPending") /\ UNCHANGED <<order, claim, pending, pin, paid, otp>>
          /\ took'[c] = pending /\ \A d \in Confirm : d /= c => took'[d] = took[d]
      BY <1>1, <1>6, <2>3 DEF ReadPending
    <3> QED BY <1>2, <2>1, <3>1
  <2> QED BY <2>2, <2>3
<1>7. CASE RereadWallet(c)
  <2>1. at[c] = "rereadWallet" /\ at[c] \in ConfirmPlaces /\ Past(c)
    BY <1>7 DEF RereadWallet, Past, ConfirmPlaces
  <2>2. CASE Refuse(c)
    <3>1. /\ Goto(c, "failed") /\ UNCHANGED <<order, claim, pending, pin, paid, otp>>
          /\ took'[c] = NoPayout /\ \A d \in Confirm : d /= c => took'[d] = took[d]
      BY <1>1, <2>2 DEF Refuse, End
    <3> QED BY <1>2, <2>1, <3>1
  <2>3. CASE KeepBalance(c)
    <3>1. Goto(c, "callProvider") /\ UNCHANGED <<order, claim, pending, pin, paid, otp, took>>
      BY <2>3 DEF KeepBalance
    <3> QED BY <1>2, <2>1, <3>1
  <2> QED BY <1>7, <2>2, <2>3 DEF RereadWallet
<1> QED BY <1>3, <1>4, <1>5, <1>6, <1>7

\* A call that is no confirmation goes on.
LEMMA InitiateAtTheDesk ==
  ASSUME PayoutsInv, DrawsFit, NEW i \in Initiate, InitiateStep(i)
  PROVE  [Desk!Next]_(Desk!desk)
<1> USE CallsAre
<1>1. at \in [Calls -> {"idle"} \cup InitiatePlaces \cup ConfirmPlaces \cup Ends] /\ InitiateFits(i)
  BY DEF PayoutsInv, TypeOK
<1>2. ASSUME NEW place, Goto(i, place), UNCHANGED <<claim, took>> PROVE Stand
  BY <1>1, <1>2 DEF Goto, Stand, Past, AnswerTo
<1>3. CASE ReadWallet(i) \/ SendOtp(i)
  <2>1. PICK place : Move(i, place)
    BY <1>3 DEF ReadWallet, SendOtp
  <2> QED BY <1>2, <2>1, Still DEF Move
<1>4. CASE StorePending(i)
  <2>1. /\ Stand /\ order[i].wallet \in Owned
        /\ pending' = i /\ UNCHANGED <<order, otp, pin, paid, took>>
    BY <1>1, <1>2, <1>4 DEF StorePending, WriteRow, InitiateFits
  <2>2. offeredBar' = ({took[c] : c \in Confirm} \ {NoPayout}) \cup {i}
    BY <2>1 DEF offeredBar
  <2>3. \E K \in SUBSET offeredBar : offeredBar' = K \cup {i}
    <3>1. {took[c] : c \in Confirm} \ {NoPayout} \in SUBSET offeredBar
      BY DEF offeredBar
    <3> QED BY <2>2, <3>1
  <2>4. SameAsked /\ UNCHANGED <<validBar, pinBar, paid, answerBar>>
    BY <2>1, StandStill DEF SameAsked, pinBar
  <2> QED BY <2>1, <2>3, <2>4, TheDesk
<1>5. CASE StoreOtp(i)
  <2>1. /\ Stand /\ order[i].wallet \in Owned
        /\ otp' = i /\ UNCHANGED <<order, pending, pin, paid, claim>>
    BY <1>2, <1>5 DEF StoreOtp, WriteRow, DrawsFit
  <2> DEFINE K == {claim[c].code : c \in {d \in Confirm : Past(d)}} \ {NoCode}
  <2>2. K \in SUBSET validBar
    BY DEF validBar
  <2>3. validBar' = K \cup {i}
    <3>1. {d \in Confirm : Past(d)}' = {d \in Confirm : Past(d)}
      BY <2>1 DEF Stand
    <3> QED BY <2>1, <3>1 DEF validBar
  <2> HIDE DEF K
  <2>4. SameAsked /\ UNCHANGED <<offeredBar, pinBar, paid, answerBar>>
    BY <2>1, StandStill DEF SameAsked, pinBar
  <2> QED BY <2>1, <2>2, <2>3, <2>4, TheDesk
<1> QED BY <1>3, <1>4, <1>5 DEF InitiateStep

LEMMA ArrivesAtTheDesk ==
  ASSUME PayoutsInv, NEW a \in Calls, Arrive(a)
  PROVE  [Desk!Next]_(Desk!desk)
<1> USE CallsAre
<1>1. at \in [Calls -> {"idle"} \cup InitiatePlaces \cup ConfirmPlaces \cup Ends]
  BY DEF PayoutsInv, TypeOK
<1>2. at[a] = "idle" /\ at'[a] \in {"readWallet", "readOtp"} /\ \A b \in Calls : b /= a => at'[b] = at[b]
  BY <1>1 DEF Arrive, Goto
<1>3. Stand
  BY <1>2 DEF Arrive, Stand, Past, AnswerTo, ConfirmPlaces
<1> QED BY <1>3, Still DEF Arrive

\* A crash leaves the confirmations in flight without an answer.
LEMMA CrashAtTheDesk == PayoutsInv /\ Crash => [Desk!Next]_(Desk!desk)
<1> SUFFICES ASSUME PayoutsInv, Crash PROVE [Desk!Next]_(Desk!desk)
  OBVIOUS
<1> USE CallsAre
<1>1. /\ at' = [a \in Calls |-> IF a \in InFlight THEN "lost" ELSE at[a]]
      /\ took' = [c \in Confirm |-> NoPayout]
      /\ UNCHANGED <<order, claim, otp, pending, pin, paid>>
  BY DEF Crash
<1> DEFINE S == Confirm \cap InFlight
<1>2. \A c \in S : AnswerTo(c) = "pending" /\ AnswerTo(c)' = "refused"
  BY <1>1 DEF AnswerTo, InFlight, Ends
<1>3. \A c \in Confirm : c \notin S => AnswerTo(c)' = AnswerTo(c)
  BY <1>1 DEF AnswerTo
<1>4. S \in SUBSET Confirm
  OBVIOUS
<1> HIDE DEF S
<1>5. /\ \A c \in S : answerBar[c] = "pending"
      /\ answerBar' = [c \in Confirm |-> IF c \in S THEN "refused" ELSE answerBar[c]]
  BY <1>2, <1>3, <1>4 DEF answerBar
<1>6. SameAsked /\ pinBar' = pinBar
  BY <1>1 DEF SameAsked, codeBar, pinBar
<1>7. Withdraws
  <2>1. offeredBar' \in SUBSET offeredBar
    BY <1>1 DEF offeredBar
  <2>2. \A c \in Confirm : Past(c)' => Past(c)
    BY <1>1 DEF Past, ConfirmPlaces
  <2>3. validBar' \in SUBSET validBar
    BY <1>1, <2>2 DEF validBar
  <2> QED BY <2>1, <2>3 DEF Withdraws
<1> QED BY <1>1, <1>4, <1>5, <1>6, <1>7, TheDesk

\* The two steps implement PayoutDesk for any number of orders, codes and confirmations,
\* however they interleave with each other, with changes of the PIN and with crashes
\* (walletmodule.service.ts:523-700, payout-security.service.ts).
THEOREM Implements == Spec => ImplementsPayoutDesk
<1>1. Init => Desk!Init /\ DrawsFit
  <2> SUFFICES ASSUME Init PROVE Desk!Init /\ DrawsFit
    OBVIOUS
  <2> USE CallsAre
  <2>1. \A a \in Calls : at[a] = "idle"
    BY DEF Init
  <2>2. answerBar = [c \in Confirm |-> "pending"] /\ DrawsFit
    BY <2>1 DEF answerBar, AnswerTo, DrawsFit
  <2>3. offeredBar = {} /\ validBar = {} /\ pinBar = FALSE
    BY <2>1 DEF Init, offeredBar, validBar, pinBar, Past, ConfirmPlaces
  <2>4. codeBar \in [Confirm -> Initiate \cup {NoCode}]
    BY DEF Init, codeBar
  <2>5. order \in [Initiate -> [wallet : Wallets, amount : Sums]] /\ paid = {}
    BY DEF Init
  <2> QED BY <2>2, <2>3, <2>4, <2>5, TheDesk
<1>2. PayoutsInv /\ BalancesFit /\ DrawsFit /\ [Next]_vars => [Desk!Next]_(Desk!desk)
  <2> SUFFICES ASSUME PayoutsInv, BalancesFit, DrawsFit, [Next]_vars PROVE [Desk!Next]_(Desk!desk)
    OBVIOUS
  <2>1. CASE \E a \in Calls : Arrive(a)
    BY <2>1, ArrivesAtTheDesk
  <2>2. CASE \E i \in Initiate : InitiateStep(i)
    BY <2>2, InitiateAtTheDesk
  <2>3. CASE \E c \in Confirm : ConfirmStep(c)
    BY <2>3, PaysAtTheDesk, ChecksAtTheDesk DEF ConfirmStep
  <2>4. CASE (\E i \in Initiate : Expire(i)) \/ UNCHANGED vars
    <3>1. UNCHANGED <<callVars, order, pending, otp, pin, paid>>
      BY <2>4 DEF Expire
    <3>2. Stand
      BY <3>1 DEF Stand, Past, AnswerTo
    <3> QED BY <3>1, <3>2, Still
  <2>5. CASE \E p \in Pins : SetPayoutPin(p)
    <3>1. pinBar' = TRUE /\ UNCHANGED <<callVars, order, pending, otp, paid>>
      BY <2>5, CallsAre DEF SetPayoutPin, pinBar
    <3>2. Stand
      BY <3>1 DEF Stand, Past, AnswerTo
    <3>3. SameAsked /\ UNCHANGED <<offeredBar, validBar, answerBar>>
      BY <3>1, <3>2, StandStill DEF SameAsked
    <3> QED BY <3>1, <3>3, TheDesk
  <2> QED BY <2>1, <2>2, <2>3, <2>4, <2>5, CrashAtTheDesk DEF Next
<1>3. Spec => []DrawsFit
  BY <1>1, DrawsFitOn, InductiveInvariant, PTL DEF Spec
<1>4. Spec => []BalancesFit
  BY BalancesFitFirst, BalancesFitOn, InductiveInvariant, PTL DEF Spec
<1> QED BY <1>1, <1>2, <1>3, <1>4, InductiveInvariant, PTL DEF Spec, Desk!Spec, ImplementsPayoutDesk
=============================================================================
