---------------------------- MODULE GuestsProofs ----------------------------
(***************************************************************************)
(* Theorems about customers, wallets and events for every number of users, *)
(* calls and join codes.  The three services meet in the Customer rows     *)
(* only: Kyc writes them, and the others rely on a tier once reached.      *)
(***************************************************************************)
EXTENDS Guests, TLAPS

(***************************************************************************)
(* What the steps of the process do to its calls, and that calls which     *)
(* have not overlapped come in turn.                                       *)
(***************************************************************************)
\* While no two calls have been in flight together, at most one is.
OneAtATime == ~overlapped => \A c, d \in InFlight : c = d

\* A call that moves on leaves the others, and what all of them ask for, alone.
LEMMA GotoServer ==
  ASSUME ServerTypeOK, NEW c \in Calls, NEW place, Goto(c, place)
  PROVE  /\ ServerTypeOK'
         /\ request' = request /\ overlapped' = overlapped /\ faults' = faults
         /\ at'[c] = place
         /\ \A d \in Calls : d /= c => at'[d] = at[d]
BY DEF ServerTypeOK, Goto, callVars

\* A call that arrives was idle; and it overlaps unless no other is in flight.
LEMMA EnterServer ==
  ASSUME ServerTypeOK, NEW c \in Calls, NEW wishes, NEW first, Enter(c, wishes, first)
  PROVE  /\ ServerTypeOK'
         /\ at[c] = "idle" /\ at'[c] = first
         /\ request'[c] \in wishes
         /\ \A d \in Calls : d /= c => at'[d] = at[d] /\ request'[d] = request[d]
         /\ ~overlapped' => ~overlapped /\ InFlight = {}
         /\ faults' = faults
<1>1. PICK r \in wishes : request' = [request EXCEPT ![c] = r]
  BY DEF Enter
<1>2. at' = [at EXCEPT ![c] = first] /\ at[c] = "idle" /\ faults' = faults
      /\ overlapped' = (overlapped \/ InFlight /= {})
  BY DEF Enter
<1>3. overlapped' \in BOOLEAN
  <2>1. overlapped' = TRUE \/ overlapped' = FALSE
    BY <1>2 DEF ServerTypeOK
  <2> QED BY <2>1
<1>4. ~overlapped' => ~overlapped /\ InFlight = {}
  BY <1>2
<1>5. faults' \in 0..MaxFaults /\ DOMAIN request' = Calls /\ DOMAIN at' = Calls
  BY <1>1, <1>2 DEF ServerTypeOK
<1>6. request'[c] = r /\ at'[c] = first
      /\ \A d \in Calls : d /= c => at'[d] = at[d] /\ request'[d] = request[d]
  BY <1>1, <1>2 DEF ServerTypeOK
<1> QED BY <1>2, <1>3, <1>4, <1>5, <1>6 DEF ServerTypeOK

\* The calls that are lost stand at their end, the others where they stood.
LEMMA LoseServer ==
  ASSUME ServerTypeOK, NEW dead, Lose(dead)
  PROVE  /\ ServerTypeOK'
         /\ request' = request /\ overlapped' = overlapped
         /\ \A d \in Calls : at'[d] = IF d \in dead THEN "lost" ELSE at[d]
<1>1. faults \in Nat /\ MaxFaults \in Nat /\ faults < MaxFaults /\ faults' = faults + 1
  BY CallBounds DEF ServerTypeOK, Lose
<1>2. faults' \in 0..MaxFaults
  BY <1>1
<1> QED BY <1>2 DEF ServerTypeOK, Lose

LEMMA CallsInitServer == CallsInit => ServerTypeOK /\ InFlight = {}
<1> SUFFICES ASSUME CallsInit PROVE ServerTypeOK /\ InFlight = {} OBVIOUS
<1>1. faults \in 0..MaxFaults
  BY CallBounds DEF CallsInit
<1>2. overlapped \in BOOLEAN
  BY DEF CallsInit
<1>3. DOMAIN request = Calls /\ DOMAIN at = Calls
  BY DEF CallsInit
<1>4. InFlight = {}
  BY DEF CallsInit, InFlight
<1> QED BY <1>1, <1>2, <1>3, <1>4 DEF ServerTypeOK

LEMMA GotoInTurn ==
  ASSUME ServerTypeOK, OneAtATime, NEW c \in InFlight, NEW place, Goto(c, place)
  PROVE  OneAtATime'
<1>1. c \in Calls
  BY DEF InFlight
<1>2. overlapped' = overlapped /\ \A d \in Calls : d /= c => at'[d] = at[d]
  BY <1>1, GotoServer
<1> QED BY <1>2 DEF OneAtATime, InFlight

LEMMA EnterInTurn ==
  ASSUME ServerTypeOK, OneAtATime, NEW c \in Calls, NEW wishes, NEW first, Enter(c, wishes, first)
  PROVE  OneAtATime'
<1>1. \A d \in Calls : d /= c => at'[d] = at[d]
  BY EnterServer
<1>2. ~overlapped' => InFlight = {}
  BY EnterServer
<1> QED BY <1>1, <1>2 DEF OneAtATime, InFlight

LEMMA LoseInTurn ==
  ASSUME ServerTypeOK, OneAtATime, NEW dead, Lose(dead)
  PROVE  OneAtATime'
BY LoseServer DEF OneAtATime, InFlight, Ends

USE DEF vars, customerVars, kycVars, openingVars, eventVars

(***************************************************************************)
(* The invariant.                                                          *)
(***************************************************************************)
TiersAreReached == \A u \in Users : tier[u] <= reached[u]

\* From where a call stands it follows whether its row is there, and the provider's.
OpenerFits(c) ==
  /\ at[c] \in {"idle", "findCustomer", "insertWallet", "failed"} => wallet[c] = NoWallet
  /\ at[c] = "insertWallet" => reached[request[c].opens] >= 1
  /\ at[c] \in {"askForWallet", "deleteWallet", "linkWallet", "linkUnnumbered"} =>
       wallet[c] /= NoWallet /\ ~wallet[c].linked
  /\ at[c] \in {"linkWallet", "linkUnnumbered"} => c \in held
  /\ at[c] = "done" => wallet[c] /= NoWallet /\ wallet[c].linked
  /\ wallet[c] /= NoWallet =>
       /\ reached[wallet[c].owner] >= 1
       /\ IF wallet[c].linked THEN c \in held ELSE wallet[c].balance = "zero" /\ ~wallet[c].numbered

\* A linked row is not deleted.
LookUpFits(n) ==
  at[n] = "updateBalance" => wallet[request[n].number] /= NoWallet /\ wallet[request[n].number].linked

OpeningsInv ==
  /\ OpeningsTypeOK
  /\ \A c \in OpenWallet : OpenerFits(c)
  /\ \A n \in LookUp : LookUpFits(n)

\* An event is inserted once; afterwards its call is past the insertion.
Inserted(e) == e = Standing \/ at[e] \notin {"idle", "readTier", "drawCode", "insertEvent"}

EventFits(e) ==
  /\ ~Inserted(e) => event[e] = NoEvent
  /\ event[e] = NoEvent => \A u \in Users : seat[e][u] = NoSeat
  /\ event[e] /= NoEvent /\ e /= Standing => event[e].host = By(e)
  /\ event[e] /= NoEvent /\ (e = Standing \/ at[e] \in {"readPerformer", "insertPerformer", "done"}) =>
       seat[e][event[e].host] /= NoSeat
  /\ \A u \in Users : seat[e][u] /= NoSeat /\ seat[e][u].role \in {"PERFORMER", "CELEBRANT"} => reached[u] >= 2

\* The tier a role needs has been reached since it was read.
CreatorFits(c) ==
  /\ at[c] \in {"drawCode", "insertEvent", "insertHost"} => reached[By(c)] >= 2
  /\ at[c] = "readPerformer" => request[c].performer /= Nobody
  /\ at[c] = "insertPerformer" => request[c].performer \in Users /\ reached[request[c].performer] >= 2
JoinerFits(j) ==
  at[j] \in {"readSeat", "recheckTier", "updateSeat", "readWallet", "insertSeat"} =>
    (request[j].role \in {"PERFORMER", "CELEBRANT"} => reached[By(j)] >= 2)

\* Whoever is about to leave has had a seat, and is not the host.
LeaverFits(l) ==
  /\ at[l] \in {"readEvent", "deleteSeat"} => Inserted(Of(l))
  /\ at[l] = "deleteSeat" => event[Of(l)] = NoEvent \/ event[Of(l)].host /= By(l)

EventsInv ==
  /\ EventsTypeOK
  /\ \A e \in Named : EventFits(e)
  /\ \A c \in CreateEvent : CreatorFits(c)
  /\ \A j \in JoinEvent : JoinerFits(j)
  /\ \A l \in LeaveEvent : LeaverFits(l)

GuestsInv ==
  /\ CustomersTypeOK /\ OneAtATime /\ TiersAreReached
  /\ KycTypeOK /\ OpeningsInv /\ EventsInv

(***************************************************************************)
(* The steps of one component leave the calls of the others alone.         *)
(***************************************************************************)
CallsStand(S) ==
  \A d \in S : /\ request'[d] = request[d]
               /\ at'[d] = at[d] \/ (at[d] \notin {"idle"} \cup Ends /\ at'[d] = "lost")

\* Tiers once reached stay reached.
ReachedGrows == \A u \in Users : reached'[u] >= reached[u]

LEMMA CallsAre ==
  /\ KycCall \subseteq Calls /\ OpenWallet \subseteq Calls /\ LookUp \subseteq Calls /\ EventCall \subseteq Calls
  /\ CreateEvent \subseteq EventCall /\ JoinEvent \subseteq EventCall
  /\ LeaveEvent \subseteq EventCall /\ RemoveEvent \subseteq EventCall
  /\ OpenWallet \cap LookUp = {} /\ CreateEvent \cap (JoinEvent \cup LeaveEvent \cup RemoveEvent) = {}
  /\ JoinEvent \cap (LeaveEvent \cup RemoveEvent) = {} /\ LeaveEvent \cap RemoveEvent = {}
  /\ Standing \notin Calls /\ Named = CreateEvent \cup {Standing}
  /\ OpeningCall = OpenWallet \cup LookUp
  /\ KycCall \cap EventCall = {} /\ OpeningCall \cap (KycCall \cup EventCall) = {}
BY KycAssumption, OpeningsAssumption, EventAssumption, GuestAssumption DEF EventCall, OpeningCall, Named

LEMMA GotoStands ==
  ASSUME ServerTypeOK, NEW S \in SUBSET Calls, NEW c \in Calls \ S, NEW place, Goto(c, place)
  PROVE  CallsStand(S)
BY GotoServer DEF CallsStand

LEMMA EnterStands ==
  ASSUME ServerTypeOK, NEW S \in SUBSET Calls, NEW c \in Calls \ S, NEW requests, NEW first,
         Enter(c, requests, first)
  PROVE  CallsStand(S)
BY EnterServer DEF CallsStand

LEMMA LoseStands ==
  ASSUME ServerTypeOK, NEW S \in SUBSET Calls, NEW dead \in SUBSET InFlight, Lose(dead)
  PROVE  CallsStand(S)
BY LoseServer DEF CallsStand, InFlight

\* Wallets that nobody writes to go on fitting their calls.
LEMMA OpeningsStand ==
  ASSUME OpeningsInv, CustomersTypeOK, UNCHANGED openingVars, CallsStand(OpeningCall), ReachedGrows,
         reached' \in [Users -> Tiers \cup {NoCustomer}]
  PROVE  OpeningsInv'
<1> USE CallsAre
<1>1. OpeningsTypeOK'
  <2>1. ASSUME NEW c \in OpeningCall
        PROVE  /\ request'[c] \in IF at'[c] = "idle" THEN {NoRequest} ELSE OpeningRequests(c)
               /\ at'[c] \in {"idle"} \cup OpeningPlaces \cup Ends
    BY DEF OpeningsInv, OpeningsTypeOK, CallsStand, Ends
  <2> QED BY <2>1 DEF OpeningsInv, OpeningsTypeOK
<1>2. ASSUME NEW c \in OpenWallet PROVE OpenerFits(c)'
  <2>1. OpenerFits(c) /\ request'[c] = request[c]
        /\ (at'[c] = at[c] \/ (at[c] \notin {"idle"} \cup Ends /\ at'[c] = "lost"))
    BY DEF OpeningsInv, CallsStand
  <2>2. wallet[c] /= NoWallet => wallet[c].owner \in Users
    BY DEF OpeningsInv, OpeningsTypeOK, WalletRow
  <2>3. at[c] /= "idle" => request[c].opens \in Users
    BY DEF OpeningsInv, OpeningsTypeOK, OpeningRequests
  <2>4. \A u \in Users : reached[u] >= 1 => reached'[u] >= 1
    BY DEF ReachedGrows, CustomersTypeOK, Tiers, NoCustomer
  <2> QED BY <2>1, <2>2, <2>3, <2>4 DEF OpenerFits
<1>3. ASSUME NEW n \in LookUp PROVE LookUpFits(n)'
  BY DEF OpeningsInv, CallsStand, LookUpFits
<1> QED BY <1>1, <1>2, <1>3 DEF OpeningsInv

\* And so do events and seats.
LEMMA EventsStand ==
  ASSUME EventsInv, CustomersTypeOK, UNCHANGED eventVars, CallsStand(EventCall), ReachedGrows,
         reached' \in [Users -> Tiers \cup {NoCustomer}]
  PROVE  EventsInv'
<1> USE CallsAre
<1>1. EventsTypeOK'
  BY DEF EventsInv, EventsTypeOK, CallsStand, EventRequests, Ends
<1>2. \A u \in Users : reached[u] >= 2 => reached'[u] >= 2
  BY DEF ReachedGrows, CustomersTypeOK, Tiers, NoCustomer
<1>3. \A c \in EventCall :
        /\ request'[c] = request[c] /\ By(c)' = By(c) /\ Of(c)' = Of(c)
        /\ at'[c] = at[c] \/ (at[c] \notin {"idle"} \cup Ends /\ at'[c] = "lost")
  BY DEF CallsStand, By, Of
<1>4. \A e \in Named : /\ Inserted(e) => Inserted(e)'
                       /\ e /= Standing /\ at'[e] \in {"idle", "readTier", "drawCode", "insertEvent"} => ~Inserted(e)
  BY <1>3 DEF Inserted
<1>5. ASSUME NEW e \in Named PROVE EventFits(e)'
  <2>1. EventFits(e) /\ (~Inserted(e)' => ~Inserted(e))
    BY <1>4 DEF EventsInv
  <2>2. e /= Standing => By(e)' = By(e) /\ (at'[e] \in {"readPerformer", "insertPerformer", "done"} => at'[e] = at[e])
    BY <1>3
  <2> QED BY <1>2, <2>1, <2>2 DEF EventFits
<1>6. ASSUME NEW c \in CreateEvent PROVE CreatorFits(c)'
  <2>1. at[c] /= "idle" => By(c) \in Users
    BY DEF EventsInv, EventsTypeOK, EventRequests, By
  <2>2. CreatorFits(c)
    BY DEF EventsInv
  <2> QED BY <1>2, <1>3, <2>1, <2>2 DEF CreatorFits
<1>7. ASSUME NEW j \in JoinEvent PROVE JoinerFits(j)'
  <2>1. at[j] /= "idle" => By(j) \in Users
    BY DEF EventsInv, EventsTypeOK, EventRequests, By
  <2>2. JoinerFits(j)
    BY DEF EventsInv
  <2> QED BY <1>2, <1>3, <2>1, <2>2 DEF JoinerFits
<1>8. ASSUME NEW l \in LeaveEvent PROVE LeaverFits(l)'
  <2>1. LeaverFits(l) /\ (at[l] /= "idle" => Of(l) \in Named)
    BY DEF EventsInv, EventsTypeOK, EventRequests, Of
  <2>2. at'[l] \in {"readEvent", "deleteSeat"} => at'[l] = at[l] /\ Inserted(Of(l))'
    <3>1. CASE at'[l] \in {"readEvent", "deleteSeat"}
      <4>1. at'[l] = at[l] /\ at[l] /= "idle"
        BY <1>3, <3>1
      <4>2. Inserted(Of(l)) /\ Of(l) \in Named /\ Of(l)' = Of(l)
        BY <1>3, <2>1, <3>1, <4>1 DEF LeaverFits
      <4>3. at'[Of(l)] = at[Of(l)] \/ Of(l) = Standing \/ at'[Of(l)] = "lost"
        BY <1>3, <4>2
      <4>4. Inserted(Of(l))'
        BY <4>2, <4>3 DEF Inserted
      <4> QED BY <4>1, <4>4
    <3> QED BY <3>1
  <2> QED BY <1>3, <2>1, <2>2 DEF LeaverFits
<1> QED BY <1>1, <1>5, <1>6, <1>7, <1>8 DEF EventsInv

LEMMA KycTypesStand ==
  ASSUME KycTypeOK, UNCHANGED kycVars, CallsStand(KycCall)
  PROVE  KycTypeOK'
BY DEF KycTypeOK, CallsStand, Ends

(***************************************************************************)
(* The start.                                                              *)
(***************************************************************************)
LEMMA InitGuests == Init => GuestsInv
<1> SUFFICES ASSUME Init PROVE GuestsInv OBVIOUS
<1> USE CallsAre
<1>1. ServerTypeOK /\ InFlight = {} /\ CallsInit
  BY CallsInitServer DEF Init
<1>2. \A c \in Calls : at[c] = "idle" /\ request[c] = NoRequest
  BY <1>1 DEF CallsInit
<1>3. PICK profile \in [Users -> Profiles] :
        /\ tier = [u \in Users |-> profile[u].tier]
        /\ given = [u \in Users |-> profile[u].given]
        /\ row = [u \in Users |-> [k \in Kinds |-> IF k \in profile[u].checks THEN "verified" ELSE "none"]]
        /\ vouched = {p \in Users \X Kinds : p[2] \in profile[p[1]].checks}
  BY DEF Init, KycInit
<1>4. reached = tier /\ registered = {} /\ local = [c \in KycCall |-> Fresh]
  BY DEF Init, KycInit
<1>5. tier \in [Users -> Tiers \cup {NoCustomer}] /\ given \in [Users -> Tiers \cup {NoCustomer}]
  BY <1>3, KycAssumption
<1>6. CustomersTypeOK /\ TiersAreReached
  BY <1>1, <1>4, <1>5 DEF CustomersTypeOK, TiersAreReached, Tiers, NoCustomer
<1>7. OneAtATime
  BY <1>1 DEF OneAtATime
<1>8. KycTypeOK
  <2>1. row \in [Users -> [Kinds -> States]] /\ vouched \subseteq Users \X Kinds
    BY <1>3 DEF States
  <2>2. Fresh \in Locals
    BY DEF Fresh, Locals, Kinds, States, Tiers
  <2> QED BY <1>2, <1>4, <1>5, <2>1, <2>2 DEF KycTypeOK
<1>9. OpeningsInv
  <2>1. wallet = [c \in OpenWallet |-> NoWallet] /\ held = {}
    BY DEF Init, OpeningsInit
  <2>2. OpeningsTypeOK
    BY <1>2, <2>1 DEF OpeningsTypeOK
  <2> QED BY <1>2, <2>1, <2>2 DEF OpeningsInv, OpenerFits, LookUpFits
<1>10. EventsInv
  <2>1. PICK u \in Users :
          /\ Qualified(u)
          /\ event = [e \in Named |-> IF e = Standing THEN [host |-> u, code |-> AnyCode] ELSE NoEvent]
          /\ seat = [e \in Named |-> [v \in Users |->
                       IF e = Standing /\ v = u THEN [role |-> "CELEBRANT", id |-> Standing] ELSE NoSeat]]
    BY DEF Init, EventsInit
  <2>2. drawn = [c \in CreateEvent |-> AnyCode] /\ seen = [c \in JoinEvent \cup LeaveEvent |-> Standing]
    BY DEF Init, EventsInit
  <2>3. AnyCode \in Codes
    BY EventAssumption DEF AnyCode
  <2>4. [host |-> u, code |-> AnyCode] \in EventRow /\ [role |-> "CELEBRANT", id |-> Standing] \in SeatRow
    BY <2>3 DEF EventRow, SeatRow, Roles
  <2>5. EventsTypeOK
    BY <1>2, <2>1, <2>2, <2>3, <2>4 DEF EventsTypeOK
  <2>6. reached[u] >= 2
    BY <1>4, <2>1 DEF Qualified
  <2>7. \A e \in Named : EventFits(e)
    <3>1. ASSUME NEW e \in Named, e /= Standing PROVE EventFits(e)
      <4>1. event[e] = NoEvent /\ \A v \in Users : seat[e][v] = NoSeat
        BY <2>1, <3>1
      <4> QED BY <4>1 DEF EventFits
    <3>2. EventFits(Standing)
      <4>1. event[Standing] = [host |-> u, code |-> AnyCode] /\ event[Standing] /= NoEvent
        BY <2>1, <2>4, EventAssumption
      <4>2. seat[Standing][u] = [role |-> "CELEBRANT", id |-> Standing] /\ seat[Standing][u] /= NoSeat
            /\ \A v \in Users : v /= u => seat[Standing][v] = NoSeat
        BY <2>1, <2>4, EventAssumption
      <4> QED BY <2>6, <4>1, <4>2 DEF EventFits, Inserted
    <3> QED BY <3>1, <3>2
  <2> QED BY <1>2, <2>5, <2>7 DEF EventsInv, CreatorFits, JoinerFits, LeaverFits
<1> QED BY <1>6, <1>7, <1>8, <1>9, <1>10 DEF GuestsInv

(***************************************************************************)
(* The steps of the wallets.                                               *)
(***************************************************************************)
\* A call of the wallets moves on: so its type, and what holds of the others.
LEMMA OpeningGoes ==
  ASSUME GuestsInv, NEW c \in OpeningCall, at[c] \in OpeningPlaces,
         NEW place \in OpeningPlaces \cup Ends, Goto(c, place), UNCHANGED customerVars,
         wallet' \in [OpenWallet -> WalletRow \cup {NoWallet}], held' \subseteq OpenWallet
  PROVE  /\ CustomersTypeOK' /\ OneAtATime' /\ TiersAreReached' /\ OpeningsTypeOK'
         /\ CallsStand(KycCall) /\ CallsStand(EventCall) /\ ReachedGrows
         /\ request' = request /\ at'[c] = place
         /\ \A d \in OpeningCall : d /= c => at'[d] = at[d]
<1> USE CallsAre
<1>1. ServerTypeOK /\ c \in Calls /\ c \in InFlight
  BY DEF GuestsInv, CustomersTypeOK, InFlight, OpeningPlaces, Ends
<1>2. /\ ServerTypeOK' /\ OneAtATime' /\ request' = request /\ at'[c] = place
      /\ \A d \in Calls : d /= c => at'[d] = at[d]
  BY <1>1, GotoServer, GotoInTurn DEF GuestsInv
<1>3. CallsStand(KycCall) /\ CallsStand(EventCall)
  BY <1>1, GotoStands
<1>4. CustomersTypeOK' /\ TiersAreReached' /\ ReachedGrows
  BY <1>2 DEF GuestsInv, CustomersTypeOK, TiersAreReached, ReachedGrows, Tiers, NoCustomer
<1>5. ASSUME NEW d \in OpeningCall
      PROVE  /\ request'[d] \in IF at'[d] = "idle" THEN {NoRequest} ELSE OpeningRequests(d)
             /\ at'[d] \in {"idle"} \cup OpeningPlaces \cup Ends
  <2>1. at[c] /= "idle" /\ place /= "idle"
    BY DEF OpeningPlaces, Ends
  <2>2. /\ request[d] \in IF at[d] = "idle" THEN {NoRequest} ELSE OpeningRequests(d)
        /\ at[d] \in {"idle"} \cup OpeningPlaces \cup Ends
    BY DEF GuestsInv, OpeningsInv, OpeningsTypeOK
  <2> QED BY <1>2, <2>1, <2>2
<1>6. OpeningsTypeOK'
  BY <1>5 DEF OpeningsTypeOK
<1> QED BY <1>2, <1>3, <1>4, <1>6

\* What is left to show when a wallet's call has moved on.
LEMMA OpeningRest ==
  ASSUME GuestsInv, UNCHANGED <<customerVars, kycVars, eventVars>>,
         CustomersTypeOK', OneAtATime', TiersAreReached', CallsStand(KycCall), CallsStand(EventCall), ReachedGrows,
         OpeningsInv'
  PROVE  GuestsInv'
<1>1. reached' \in [Users -> Tiers \cup {NoCustomer}]
  BY DEF CustomersTypeOK
<1>2. EventsInv' /\ KycTypeOK'
  BY <1>1, EventsStand, KycTypesStand DEF GuestsInv
<1> QED BY <1>2 DEF GuestsInv

LEMMA WalletIs ==
  ASSUME GuestsInv, NEW c \in OpenWallet
  PROVE  /\ wallet \in [OpenWallet -> WalletRow \cup {NoWallet}] /\ held \subseteq OpenWallet
         /\ wallet[c] \in WalletRow \cup {NoWallet} /\ NoWallet \notin WalletRow
         /\ at[c] /= "idle" => request[c].opens \in Users
         /\ OpenerFits(c)
BY CallsAre, OpeningsAssumption DEF GuestsInv, OpeningsInv, OpeningsTypeOK, OpeningRequests

LEMMA LookUpIs ==
  ASSUME GuestsInv, NEW n \in LookUp, at[n] /= "idle"
  PROVE  request[n].number \in OpenWallet /\ LookUpFits(n)
<1>1. request[n] \in OpeningRequests(n) /\ LookUpFits(n)
  BY CallsAre DEF GuestsInv, OpeningsInv, OpeningsTypeOK
<1>2. n \notin OpenWallet
  BY CallsAre
<1> QED BY <1>1, <1>2 DEF OpeningRequests

LEMMA OpeningArrives ==
  ASSUME GuestsInv, NEW c \in OpeningCall, OpeningArrive(c), UNCHANGED <<kycVars, eventVars>>
  PROVE  GuestsInv'
<1> USE CallsAre
<1> DEFINE first == IF c \in OpenWallet THEN "findCustomer" ELSE "findWallet"
<1>1. Enter(c, OpeningRequests(c), first) /\ UNCHANGED <<customerVars, openingVars>>
  BY DEF OpeningArrive
<1>2. ServerTypeOK /\ c \in Calls
  BY DEF GuestsInv, CustomersTypeOK
<1>3. /\ ServerTypeOK' /\ OneAtATime' /\ at[c] = "idle" /\ at'[c] = first /\ request'[c] \in OpeningRequests(c)
      /\ \A d \in Calls : d /= c => at'[d] = at[d] /\ request'[d] = request[d]
  BY <1>1, <1>2, EnterServer, EnterInTurn DEF GuestsInv
<1>4. CallsStand(KycCall) /\ CallsStand(EventCall)
  BY <1>1, <1>2, EnterStands
<1>5. CustomersTypeOK' /\ TiersAreReached' /\ ReachedGrows
  BY <1>1, <1>3 DEF GuestsInv, CustomersTypeOK, TiersAreReached, ReachedGrows, Tiers, NoCustomer
<1>6. OpeningsTypeOK'
  <2>1. ASSUME NEW d \in OpeningCall
        PROVE  /\ request'[d] \in IF at'[d] = "idle" THEN {NoRequest} ELSE OpeningRequests(d)
               /\ at'[d] \in {"idle"} \cup OpeningPlaces \cup Ends
    BY <1>3 DEF GuestsInv, OpeningsInv, OpeningsTypeOK, OpeningPlaces
  <2> QED BY <1>1, <2>1 DEF GuestsInv, OpeningsInv, OpeningsTypeOK
<1>7. \A d \in OpenWallet : OpenerFits(d)'
  BY <1>1, <1>3, WalletIs DEF OpenerFits
<1>8. \A n \in LookUp : LookUpFits(n)'
  BY <1>1, <1>3 DEF GuestsInv, OpeningsInv, LookUpFits
<1>9. OpeningsInv'
  BY <1>6, <1>7, <1>8 DEF OpeningsInv
<1> QED BY <1>1, <1>3, <1>4, <1>5, <1>9, OpeningRest

\* The steps of createWalletByUserId.
LEMMA Opens ==
  ASSUME GuestsInv, NEW c \in OpenWallet, UNCHANGED <<kycVars, eventVars>>,
         FindCustomer(c) \/ InsertWallet(c) \/ AskForWallet(c) \/ DeleteWallet(c) \/ LinkWallet(c)
  PROVE  GuestsInv'
<1> USE CallsAre, WalletIs
<1>1. PICK place \in OpeningPlaces \cup Ends :
        /\ Goto(c, place)
        /\ at[c] \in {"findCustomer", "insertWallet", "askForWallet", "deleteWallet", "linkWallet", "linkUnnumbered"}
        /\ at[c] = "findCustomer" => place \in {"insertWallet", "failed"}
                                     /\ (place = "insertWallet" => MayOpen(request[c].opens)) /\ UNCHANGED openingVars
        /\ at[c] = "insertWallet" => place = "askForWallet" /\ InsertWallet(c)
        /\ at[c] = "askForWallet" => /\ place \in {"linkWallet", "linkUnnumbered", "deleteWallet"}
                                     /\ place \in {"linkWallet", "linkUnnumbered"} => held' = held \cup {c}
                                     /\ held' \in {held, held \cup {c}} /\ wallet' = wallet
        /\ at[c] = "deleteWallet" => place = "failed" /\ DeleteWallet(c)
        /\ at[c] \in {"linkWallet", "linkUnnumbered"} => place = "done" /\ LinkWallet(c)
  <2>1. CASE FindCustomer(c)
    BY <2>1 DEF FindCustomer, Passes, OpeningPlaces, Ends
  <2>2. CASE InsertWallet(c)
    BY <2>2 DEF InsertWallet, OpeningPlaces
  <2>3. CASE AskForWallet(c)
    BY <2>3 DEF AskForWallet, OpeningPlaces
  <2>4. CASE DeleteWallet(c)
    BY <2>4 DEF DeleteWallet, Ends
  <2>5. CASE LinkWallet(c)
    BY <2>5 DEF LinkWallet, Ends
  <2> QED BY <2>1, <2>2, <2>3, <2>4, <2>5
<1>2. UNCHANGED customerVars
  BY DEF FindCustomer, Passes, InsertWallet, AskForWallet, DeleteWallet, LinkWallet
<1>3. at[c] \in OpeningPlaces /\ c \in OpeningCall
  BY <1>1 DEF OpeningPlaces
<1>4. CASE at[c] = "findCustomer"
  <2>1. /\ CustomersTypeOK' /\ OneAtATime' /\ TiersAreReached' /\ OpeningsTypeOK'
        /\ CallsStand(KycCall) /\ CallsStand(EventCall) /\ ReachedGrows
        /\ request' = request /\ at'[c] = place
        /\ \A d \in OpeningCall : d /= c => at'[d] = at[d]
    BY <1>1, <1>2, <1>3, <1>4, OpeningGoes
  <2>2. place = "insertWallet" => reached[request[c].opens] >= 1
    <3>1. request[c].opens \in Users
      BY <1>4
    <3> QED BY <1>1, <1>4, <3>1 DEF MayOpen, GuestsInv, TiersAreReached, CustomersTypeOK, Tiers, NoCustomer
  <2>3. OpenerFits(c)'
    BY <1>1, <1>2, <1>4, <2>1, <2>2 DEF OpenerFits
  <2>4. \A d \in OpenWallet : OpenerFits(d)'
    BY <1>1, <1>2, <1>4, <2>1, <2>3 DEF OpenerFits
  <2>5. \A n \in LookUp : LookUpFits(n)'
    BY <1>1, <1>4, <2>1 DEF GuestsInv, OpeningsInv, LookUpFits
  <2>6. OpeningsInv'
    BY <2>1, <2>4, <2>5 DEF OpeningsInv
  <2> QED BY <1>2, <2>1, <2>6, OpeningRest
<1>5. CASE at[c] = "insertWallet"
  <2> DEFINE r == [owner |-> request[c].opens, linked |-> FALSE, numbered |-> FALSE, balance |-> "zero"]
  <2>1. wallet' = [wallet EXCEPT ![c] = r] /\ held' = held /\ r \in WalletRow
    BY <1>1, <1>5 DEF InsertWallet, WalletRow
  <2>2. r.owner = request[c].opens /\ ~r.linked /\ ~r.numbered /\ r.balance = "zero" /\ r /= NoWallet
    BY <2>1
  <2> HIDE DEF r
  <2>3. wallet' \in [OpenWallet -> WalletRow \cup {NoWallet}] /\ wallet'[c] = r
        /\ \A d \in OpenWallet : d /= c => wallet'[d] = wallet[d]
    BY <2>1
  <2>4. /\ CustomersTypeOK' /\ OneAtATime' /\ TiersAreReached' /\ OpeningsTypeOK'
        /\ CallsStand(KycCall) /\ CallsStand(EventCall) /\ ReachedGrows
        /\ request' = request /\ at'[c] = place
        /\ \A d \in OpeningCall : d /= c => at'[d] = at[d]
    BY <1>1, <1>2, <1>3, <2>1, <2>3, OpeningGoes
  <2>5. OpenerFits(c)'
    BY <1>1, <1>2, <1>5, <2>2, <2>3, <2>4 DEF OpenerFits
  <2>6. \A d \in OpenWallet : OpenerFits(d)'
    BY <1>2, <2>1, <2>3, <2>4, <2>5 DEF OpenerFits
  <2>7. \A n \in LookUp : LookUpFits(n)'
    <3> SUFFICES ASSUME NEW n \in LookUp, at'[n] = "updateBalance"
                 PROVE  LookUpFits(n)'
      BY DEF LookUpFits
    <3>1. request[n].number \in OpenWallet /\ LookUpFits(n) /\ at[n] = "updateBalance"
      BY <2>4, LookUpIs
    <3>2. request[n].number /= c
      BY <1>5, <3>1 DEF OpenerFits, LookUpFits
    <3> QED BY <2>3, <2>4, <3>1, <3>2 DEF LookUpFits
  <2>8. OpeningsInv'
    BY <2>4, <2>6, <2>7 DEF OpeningsInv
  <2> QED BY <1>2, <2>4, <2>8, OpeningRest
<1>6. CASE at[c] = "askForWallet"
  <2>1. wallet' = wallet /\ held' \in {held, held \cup {c}}
    BY <1>1, <1>6
  <2>2. /\ CustomersTypeOK' /\ OneAtATime' /\ TiersAreReached' /\ OpeningsTypeOK'
        /\ CallsStand(KycCall) /\ CallsStand(EventCall) /\ ReachedGrows
        /\ request' = request /\ at'[c] = place
        /\ \A d \in OpeningCall : d /= c => at'[d] = at[d]
    BY <1>1, <1>2, <1>3, <2>1, OpeningGoes
  <2>3. OpenerFits(c)'
    BY <1>1, <1>2, <1>6, <2>1, <2>2 DEF OpenerFits
  <2>4. \A d \in OpenWallet : OpenerFits(d)'
    BY <1>2, <2>1, <2>2, <2>3 DEF OpenerFits
  <2>5. \A n \in LookUp : LookUpFits(n)'
    BY <2>1, <2>2 DEF GuestsInv, OpeningsInv, LookUpFits
  <2>6. OpeningsInv'
    BY <2>2, <2>4, <2>5 DEF OpeningsInv
  <2> QED BY <1>2, <2>2, <2>6, OpeningRest
<1>7. CASE at[c] = "deleteWallet"
  <2>1. wallet' = [wallet EXCEPT ![c] = NoWallet] /\ held' = held
    BY <1>1, <1>7 DEF DeleteWallet, RemoveWallet
  <2>2. wallet' \in [OpenWallet -> WalletRow \cup {NoWallet}] /\ wallet'[c] = NoWallet
        /\ \A d \in OpenWallet : d /= c => wallet'[d] = wallet[d]
    BY <2>1
  <2>3. /\ CustomersTypeOK' /\ OneAtATime' /\ TiersAreReached' /\ OpeningsTypeOK'
        /\ CallsStand(KycCall) /\ CallsStand(EventCall) /\ ReachedGrows
        /\ request' = request /\ at'[c] = place
        /\ \A d \in OpeningCall : d /= c => at'[d] = at[d]
    BY <1>1, <1>2, <1>3, <2>1, <2>2, OpeningGoes
  <2>4. \A d \in OpenWallet : OpenerFits(d)'
    BY <1>1, <1>2, <1>7, <2>1, <2>2, <2>3 DEF OpenerFits
  <2>5. \A n \in LookUp : LookUpFits(n)'
    <3> SUFFICES ASSUME NEW n \in LookUp, at'[n] = "updateBalance"
                 PROVE  LookUpFits(n)'
      BY DEF LookUpFits
    <3>1. request[n].number \in OpenWallet /\ LookUpFits(n) /\ at[n] = "updateBalance"
      BY <2>3, LookUpIs
    <3>2. request[n].number /= c
      BY <1>7, <3>1 DEF OpenerFits, LookUpFits
    <3> QED BY <2>2, <2>3, <3>1, <3>2 DEF LookUpFits
  <2>6. OpeningsInv'
    BY <2>3, <2>4, <2>5 DEF OpeningsInv
  <2> QED BY <1>2, <2>3, <2>6, OpeningRest
<1>8. CASE at[c] \in {"linkWallet", "linkUnnumbered"}
  <2> DEFINE r == [wallet[c] EXCEPT !.linked = TRUE, !.numbered = (at[c] = "linkWallet"), !.balance = "opening"]
  <2>1. wallet[c] \in WalletRow /\ c \in held
    BY <1>8 DEF OpenerFits
  <2>2. wallet' = [wallet EXCEPT ![c] = r] /\ held' = held
    BY <1>1, <1>8, <2>1 DEF LinkWallet
  <2>3. r \in WalletRow /\ r.linked /\ r.owner = wallet[c].owner
    BY <2>1 DEF WalletRow
  <2> HIDE DEF r
  <2>4. wallet' \in [OpenWallet -> WalletRow \cup {NoWallet}] /\ wallet'[c] = r /\ r /= NoWallet
        /\ \A d \in OpenWallet : d /= c => wallet'[d] = wallet[d]
    BY <2>2, <2>3
  <2>5. /\ CustomersTypeOK' /\ OneAtATime' /\ TiersAreReached' /\ OpeningsTypeOK'
        /\ CallsStand(KycCall) /\ CallsStand(EventCall) /\ ReachedGrows
        /\ request' = request /\ at'[c] = place
        /\ \A d \in OpeningCall : d /= c => at'[d] = at[d]
    BY <1>1, <1>2, <1>3, <2>2, <2>4, OpeningGoes
  <2>6. \A d \in OpenWallet : OpenerFits(d)'
    BY <1>1, <1>2, <1>8, <2>1, <2>2, <2>3, <2>4, <2>5 DEF OpenerFits
  <2>7. \A n \in LookUp : LookUpFits(n)'
    <3> SUFFICES ASSUME NEW n \in LookUp, at'[n] = "updateBalance"
                 PROVE  LookUpFits(n)'
      BY DEF LookUpFits
    <3>1. request[n].number \in OpenWallet /\ LookUpFits(n) /\ at[n] = "updateBalance"
      BY <2>5, LookUpIs
    <3> QED BY <2>3, <2>4, <2>5, <3>1 DEF LookUpFits
  <2>8. OpeningsInv'
    BY <2>5, <2>6, <2>7 DEF OpeningsInv
  <2> QED BY <1>2, <2>5, <2>8, OpeningRest
<1> QED BY <1>1, <1>4, <1>5, <1>6, <1>7, <1>8

\* The steps of getWalletByAccountNumber.
LEMMA LooksUp ==
  ASSUME GuestsInv, NEW n \in LookUp, UNCHANGED <<kycVars, eventVars>>,
         FindWallet(n) \/ AskForBalance(n) \/ FindLinked(n) \/ UpdateBalance(n)
  PROVE  GuestsInv'
<1> USE CallsAre, WalletIs
<1>1. UNCHANGED customerVars /\ held' = held /\ n \in OpeningCall /\ n \notin OpenWallet
  BY DEF FindWallet, AskForBalance, FindLinked, UpdateBalance, Passes
<1>2. CASE FindWallet(n) \/ AskForBalance(n) \/ FindLinked(n)
  <2>1. PICK place \in OpeningPlaces \cup Ends :
          /\ Goto(n, place) /\ UNCHANGED openingVars /\ at[n] \in OpeningPlaces
          /\ place = "updateBalance" => wallet[request[n].number] /= NoWallet /\ wallet[request[n].number].linked
    <3>1. CASE FindWallet(n)
      BY <3>1 DEF FindWallet, Passes, OpeningPlaces, Ends
    <3>2. CASE AskForBalance(n)
      BY <3>2 DEF AskForBalance, Passes, OpeningPlaces, Ends
    <3>3. CASE FindLinked(n)
      BY <3>3 DEF FindLinked, Passes, OpeningPlaces, Ends
    <3> QED BY <1>2, <3>1, <3>2, <3>3
  <2>2. wallet \in [OpenWallet -> WalletRow \cup {NoWallet}] /\ held \subseteq OpenWallet
    BY DEF GuestsInv, OpeningsInv, OpeningsTypeOK
  <2>3. /\ CustomersTypeOK' /\ OneAtATime' /\ TiersAreReached' /\ OpeningsTypeOK'
        /\ CallsStand(KycCall) /\ CallsStand(EventCall) /\ ReachedGrows
        /\ request' = request /\ at'[n] = place
        /\ \A d \in OpeningCall : d /= n => at'[d] = at[d]
    BY <1>1, <2>1, <2>2, OpeningGoes
  <2>4. \A d \in OpenWallet : OpenerFits(d)'
    BY <1>1, <2>1, <2>3 DEF OpenerFits
  <2>5. \A m \in LookUp : LookUpFits(m)'
    BY <2>1, <2>3 DEF GuestsInv, OpeningsInv, LookUpFits
  <2>6. OpeningsInv'
    BY <2>3, <2>4, <2>5 DEF OpeningsInv
  <2> QED BY <1>1, <2>3, <2>6, OpeningRest
<1>3. CASE UpdateBalance(n)
  <2>0. PICK w \in OpenWallet : w = request[n].number
    BY <1>3, LookUpIs DEF UpdateBalance
  <2> DEFINE r == [wallet[w] EXCEPT !.balance = "provider's"]
  <2>1. /\ at[n] = "updateBalance" /\ Goto(n, "done")
        /\ wallet[w] \in WalletRow /\ wallet[w].linked
        /\ wallet' = [wallet EXCEPT ![w] = r]
    BY <1>3, <2>0, LookUpIs DEF UpdateBalance, LookUpFits
  <2>2. /\ r \in WalletRow /\ r.owner = wallet[w].owner /\ r.linked
    BY <2>1 DEF WalletRow
  <2> HIDE DEF r
  <2>3. /\ wallet' \in [OpenWallet -> WalletRow \cup {NoWallet}] /\ wallet'[w] = r /\ r /= NoWallet
        /\ \A d \in OpenWallet : d /= w => wallet'[d] = wallet[d]
    BY <2>1, <2>2
  <2>4. "updateBalance" \in OpeningPlaces /\ "done" \in OpeningPlaces \cup Ends
    BY DEF OpeningPlaces, Ends
  <2>5. /\ CustomersTypeOK' /\ OneAtATime' /\ TiersAreReached' /\ OpeningsTypeOK'
        /\ CallsStand(KycCall) /\ CallsStand(EventCall) /\ ReachedGrows
        /\ request' = request /\ at'[n] = "done"
        /\ \A d \in OpeningCall : d /= n => at'[d] = at[d]
    <3>1. held \subseteq OpenWallet
      BY <2>1
    <3> QED BY <1>1, <2>1, <2>3, <2>4, <3>1, OpeningGoes
  <2>6. OpenerFits(w)'
    <3>1. at'[w] = at[w] /\ OpenerFits(w)
      BY <1>1, <2>1, <2>5
    <3> QED BY <1>1, <2>1, <2>2, <2>3, <2>5, <3>1 DEF OpenerFits
  <2>7. \A d \in OpenWallet : OpenerFits(d)'
    <3> SUFFICES ASSUME NEW d \in OpenWallet, d /= w PROVE OpenerFits(d)'
      BY <2>6
    <3>1. at'[d] = at[d] /\ wallet'[d] = wallet[d] /\ OpenerFits(d)
      BY <1>1, <2>3, <2>5
    <3> QED BY <1>1, <2>5, <3>1 DEF OpenerFits
  <2>8. \A m \in LookUp : LookUpFits(m)'
    <3> SUFFICES ASSUME NEW m \in LookUp, at'[m] = "updateBalance" PROVE LookUpFits(m)'
      BY DEF LookUpFits
    <3>1. request[m].number \in OpenWallet /\ LookUpFits(m) /\ at[m] = "updateBalance"
      BY <2>5, LookUpIs
    <3> QED BY <2>2, <2>3, <2>5, <3>1 DEF LookUpFits
  <2>9. OpeningsInv'
    BY <2>5, <2>7, <2>8 DEF OpeningsInv
  <2> QED BY <1>1, <2>5, <2>9, OpeningRest
<1> QED BY <1>2, <1>3

LEMMA OpeningSteps ==
  ASSUME GuestsInv, OpeningStep, UNCHANGED <<kycVars, eventVars>> PROVE GuestsInv'
<1>1. CASE \E c \in OpeningCall : OpeningArrive(c)
  BY <1>1, OpeningArrives
<1>2. CASE \E c \in OpenWallet : FindCustomer(c) \/ InsertWallet(c) \/ AskForWallet(c)
                                 \/ DeleteWallet(c) \/ LinkWallet(c)
  BY <1>2, Opens
<1>3. CASE \E n \in LookUp : FindWallet(n) \/ AskForBalance(n) \/ FindLinked(n) \/ UpdateBalance(n)
  BY <1>3, LooksUp
<1> QED BY <1>1, <1>2, <1>3, CallsAre DEF OpeningStep

(***************************************************************************)
(* The steps of the events.                                                *)
(***************************************************************************)
\* What a step of call c does to the calls.
EventMove(c) ==
  /\ CustomersTypeOK' /\ OneAtATime' /\ TiersAreReached' /\ EventsTypeOK'
  /\ CallsStand(KycCall) /\ CallsStand(OpeningCall) /\ ReachedGrows
  /\ \A d \in EventCall : d /= c => at'[d] = at[d] /\ request'[d] = request[d]
  /\ at[c] /= "idle" => request'[c] = request[c]

LEMMA EventGoes ==
  ASSUME GuestsInv, NEW c \in EventCall, at[c] \in EventPlaces,
         NEW place \in EventPlaces \cup Ends, Goto(c, place), UNCHANGED customerVars,
         event' \in [Named -> EventRow \cup {NoEvent}],
         seat' \in [Named -> [Users -> SeatRow \cup {NoSeat}]],
         drawn' \in [CreateEvent -> Codes], seen' \in [JoinEvent \cup LeaveEvent -> Named \cup JoinEvent]
  PROVE  EventMove(c) /\ request' = request /\ at'[c] = place
<1> USE CallsAre
<1>1. ServerTypeOK /\ c \in Calls /\ c \in InFlight
  BY DEF GuestsInv, CustomersTypeOK, InFlight, EventPlaces, Ends
<1>2. /\ ServerTypeOK' /\ OneAtATime' /\ request' = request /\ at'[c] = place
      /\ \A d \in Calls : d /= c => at'[d] = at[d]
  BY <1>1, GotoServer, GotoInTurn DEF GuestsInv
<1>3. CallsStand(KycCall) /\ CallsStand(OpeningCall)
  BY <1>1, GotoStands
<1>4. CustomersTypeOK' /\ TiersAreReached' /\ ReachedGrows
  BY <1>2 DEF GuestsInv, CustomersTypeOK, TiersAreReached, ReachedGrows, Tiers, NoCustomer
<1>5. ASSUME NEW d \in EventCall
      PROVE  /\ request'[d] \in IF at'[d] = "idle" THEN {NoRequest} ELSE EventRequests(d)
             /\ at'[d] \in {"idle"} \cup EventPlaces \cup Ends
  <2>1. at[c] /= "idle" /\ place /= "idle"
    BY DEF EventPlaces, Ends
  <2>2. /\ request[d] \in IF at[d] = "idle" THEN {NoRequest} ELSE EventRequests(d)
        /\ at[d] \in {"idle"} \cup EventPlaces \cup Ends
    BY DEF GuestsInv, EventsInv, EventsTypeOK
  <2> QED BY <1>2, <2>1, <2>2
<1>6. EventsTypeOK'
  BY <1>5 DEF EventsTypeOK
<1> QED BY <1>2, <1>3, <1>4, <1>6 DEF EventMove

\* What the request of a call asks for.
LEMMA EventCallIs ==
  ASSUME GuestsInv, NEW c \in EventCall, at[c] /= "idle"
  PROVE  /\ By(c) \in Users
         /\ c \notin CreateEvent => Of(c) \in Named
         /\ c \in CreateEvent => request[c].performer \in Users \cup {Nobody, Stranger}
         /\ c \in JoinEvent => request[c].role \in Roles
<1>1. request[c] \in EventRequests(c)
  BY DEF GuestsInv, EventsInv, EventsTypeOK
<1>2. CASE c \in CreateEvent
  BY <1>1, <1>2, CallsAre DEF EventRequests, By
<1>3. CASE c \in JoinEvent
  BY <1>1, <1>3, CallsAre DEF EventRequests, By, Of
<1>4. CASE c \notin CreateEvent /\ c \notin JoinEvent
  BY <1>1, <1>4 DEF EventRequests, By, Of
<1> QED BY <1>2, <1>3, <1>4

LEMMA EventRowsAre ==
  ASSUME GuestsInv, NEW e \in Named
  PROVE  /\ event \in [Named -> EventRow \cup {NoEvent}] /\ seat \in [Named -> [Users -> SeatRow \cup {NoSeat}]]
         /\ drawn \in [CreateEvent -> Codes] /\ seen \in [JoinEvent \cup LeaveEvent -> Named \cup JoinEvent]
         /\ NoEvent \notin EventRow /\ NoSeat \notin SeatRow
         /\ event[e] /= NoEvent => event[e] \in EventRow /\ event[e].host \in Users
         /\ \A u \in Users : seat[e][u] /= NoSeat =>
              /\ seat[e][u] \in SeatRow /\ seat[e][u].role \in Roles /\ seat[e][u].id \in Named \cup JoinEvent
         /\ EventFits(e)
BY EventAssumption DEF GuestsInv, EventsInv, EventsTypeOK, EventRow, SeatRow

\* An event that is not written to, and whose creator does not move, fits on.
LEMMA EventKept ==
  ASSUME GuestsInv, NEW c \in EventCall, EventMove(c), UNCHANGED customerVars,
         NEW e \in Named, e /= c, event'[e] = event[e], seat'[e] = seat[e]
  PROVE  EventFits(e)'
<1>1. EventFits(e)
  BY DEF GuestsInv, EventsInv
<1>2. e /= Standing => at'[e] = at[e] /\ request'[e] = request[e]
  BY CallsAre DEF EventMove
<1> QED BY <1>1, <1>2 DEF EventFits, Inserted, By

\* It remains to look at the events, and at the call that has moved.
LEMMA EventRest ==
  ASSUME GuestsInv, NEW c \in EventCall, EventMove(c),
         UNCHANGED <<customerVars, kycVars, openingVars>>,
         c \in CreateEvent => (Inserted(c) => Inserted(c)') /\ CreatorFits(c)',
         c \in JoinEvent => JoinerFits(c)',
         c \in LeaveEvent => LeaverFits(c)',
         \A e \in Named : Inserted(e) => event'[e] \in {event[e], NoEvent},
         \A e \in Named : EventFits(e)'
  PROVE  GuestsInv'
<1> USE CallsAre
<1>1. \A d \in EventCall : d /= c =>
        at'[d] = at[d] /\ request'[d] = request[d] /\ By(d)' = By(d) /\ Of(d)' = Of(d)
  BY DEF EventMove, By, Of
<1>2. \A d \in CreateEvent : CreatorFits(d)'
  <2> SUFFICES ASSUME NEW d \in CreateEvent, d /= c PROVE CreatorFits(d)'
    OBVIOUS
  <2>1. CreatorFits(d)
    BY DEF GuestsInv, EventsInv
  <2> QED BY <1>1, <2>1 DEF CreatorFits
<1>3. \A d \in JoinEvent : JoinerFits(d)'
  <2> SUFFICES ASSUME NEW d \in JoinEvent, d /= c PROVE JoinerFits(d)'
    OBVIOUS
  <2>1. JoinerFits(d)
    BY DEF GuestsInv, EventsInv
  <2> QED BY <1>1, <2>1 DEF JoinerFits
<1>4. \A e \in Named : Inserted(e) => Inserted(e)'
  <2> SUFFICES ASSUME NEW e \in CreateEvent, e /= c, Inserted(e) PROVE Inserted(e)'
    BY DEF Inserted
  <2> QED BY <1>1 DEF Inserted
<1>5. \A d \in LeaveEvent : LeaverFits(d)'
  <2> SUFFICES ASSUME NEW d \in LeaveEvent, d /= c, at[d] /= "idle" PROVE LeaverFits(d)'
    BY <1>1 DEF LeaverFits
  <2>1. LeaverFits(d) /\ Of(d) \in Named
    BY EventCallIs DEF GuestsInv, EventsInv
  <2>2. at'[d] \in {"readEvent", "deleteSeat"} => Inserted(Of(d))'
    <3>1. CASE at'[d] \in {"readEvent", "deleteSeat"}
      <4>1. Inserted(Of(d)) /\ Of(d)' = Of(d)
        BY <1>1, <2>1, <3>1 DEF LeaverFits
      <4>2. PICK e \in Named : e = Of(d)
        BY <2>1
      <4>3. Inserted(e)'
        BY <1>4, <4>1, <4>2
      <4> QED BY <4>1, <4>2, <4>3 DEF Inserted
    <3> QED BY <3>1
  <2>3. at'[d] = "deleteSeat" => event'[Of(d)] = NoEvent \/ event'[Of(d)].host /= By(d)
    <3>1. at'[d] = "deleteSeat" => at[d] = "deleteSeat" /\ Inserted(Of(d))
      BY <1>1, <2>1 DEF LeaverFits
    <3> QED BY <2>1, <3>1 DEF LeaverFits
  <2> QED BY <1>1, <2>2, <2>3 DEF LeaverFits
<1>6. EventsInv'
  BY <1>2, <1>3, <1>5 DEF EventsInv, EventMove
<1>7. reached' \in [Users -> Tiers \cup {NoCustomer}]
  BY DEF EventMove, CustomersTypeOK
<1>8. OpeningsInv' /\ KycTypeOK'
  BY <1>7, OpeningsStand, KycTypesStand DEF GuestsInv, EventMove
<1> QED BY <1>6, <1>8 DEF GuestsInv, EventMove

LEMMA EventsArrives ==
  ASSUME GuestsInv, NEW c \in EventCall, EventsArrive(c), UNCHANGED <<kycVars, openingVars>>
  PROVE  GuestsInv'
<1> USE CallsAre
<1> DEFINE first == IF c \in CreateEvent THEN "readTier" ELSE IF c \in LeaveEvent THEN "readSeat" ELSE "readEvent"
<1>1. Enter(c, EventRequests(c), first) /\ UNCHANGED <<customerVars, eventVars>>
  BY DEF EventsArrive
<1>2. ServerTypeOK /\ c \in Calls
  BY DEF GuestsInv, CustomersTypeOK
<1>3. /\ ServerTypeOK' /\ OneAtATime' /\ at[c] = "idle" /\ at'[c] = first /\ request'[c] \in EventRequests(c)
      /\ \A d \in Calls : d /= c => at'[d] = at[d] /\ request'[d] = request[d]
  BY <1>1, <1>2, EnterServer, EnterInTurn DEF GuestsInv
<1>4. CallsStand(KycCall) /\ CallsStand(OpeningCall)
  BY <1>1, <1>2, EnterStands
<1>5. CustomersTypeOK' /\ TiersAreReached' /\ ReachedGrows
  BY <1>1, <1>3 DEF GuestsInv, CustomersTypeOK, TiersAreReached, ReachedGrows, Tiers, NoCustomer
<1>6. EventsTypeOK'
  <2>1. ASSUME NEW d \in EventCall
        PROVE  /\ request'[d] \in IF at'[d] = "idle" THEN {NoRequest} ELSE EventRequests(d)
               /\ at'[d] \in {"idle"} \cup EventPlaces \cup Ends
    BY <1>3 DEF GuestsInv, EventsInv, EventsTypeOK, EventPlaces
  <2> QED BY <1>1, <2>1 DEF GuestsInv, EventsInv, EventsTypeOK
<1>7. EventMove(c)
  BY <1>3, <1>4, <1>5, <1>6 DEF EventMove
<1>8. /\ c \in CreateEvent => CreatorFits(c)' /\ ~Inserted(c)
      /\ c \in JoinEvent => JoinerFits(c)'
      /\ c \in LeaveEvent => LeaverFits(c)'
  BY <1>3 DEF CreatorFits, JoinerFits, LeaverFits, Inserted
<1>9. \A e \in Named : EventFits(e)'
  <2> SUFFICES ASSUME NEW e \in Named, e = c PROVE EventFits(e)'
    BY <1>1, <1>7, EventKept
  <2>1. ~Inserted(e) /\ EventFits(e) /\ at'[e] = "readTier"
    BY <1>3, EventRowsAre DEF Inserted
  <2> QED BY <1>1, <1>3, <2>1 DEF EventFits, Inserted
<1> QED BY <1>1, <1>7, <1>8, <1>9, EventRest

\* A step that writes no row: what it has found about its own call is left to show.
LEMMA EventMoves ==
  ASSUME GuestsInv, NEW c \in EventCall, at[c] \in EventPlaces, NEW place \in EventPlaces \cup Ends,
         Goto(c, place), UNCHANGED <<customerVars, kycVars, openingVars, event, seat>>,
         drawn' \in [CreateEvent -> Codes], seen' \in [JoinEvent \cup LeaveEvent -> Named \cup JoinEvent],
         c \in CreateEvent =>
           /\ at[c] \in {"insertEvent", "insertHost", "readPerformer", "insertPerformer"} =>
                place \in {"readPerformer", "insertPerformer", "done", "failed"}
           /\ place \in {"drawCode", "insertEvent", "insertHost"} => reached[By(c)] >= 2
           /\ place \in {"readTier", "drawCode", "insertEvent"} => ~Inserted(c)
           /\ place = "insertHost" => Inserted(c)
           /\ place \in {"readPerformer", "insertPerformer", "done"} =>
                event[c] = NoEvent \/ at[c] \in {"readPerformer", "insertPerformer"}
           /\ place /= "readPerformer"
           /\ place = "insertPerformer" => request[c].performer \in Users /\ reached[request[c].performer] >= 2,
         c \in JoinEvent =>
           (place \in {"readSeat", "recheckTier", "updateSeat", "readWallet", "insertSeat"} =>
              (request[c].role \in {"PERFORMER", "CELEBRANT"} => reached[By(c)] >= 2)),
         c \in LeaveEvent =>
           /\ place \in {"readEvent", "deleteSeat"} => Inserted(Of(c))
           /\ place = "deleteSeat" => event[Of(c)] = NoEvent \/ event[Of(c)].host /= By(c)
  PROVE  GuestsInv'
<1> USE CallsAre
<1>1. at[c] /= "idle" /\ c /= Standing /\ place /= "idle"
  BY DEF EventPlaces, Ends
<1>2. EventMove(c) /\ request' = request /\ at'[c] = place
  <2>1. /\ event' \in [Named -> EventRow \cup {NoEvent}]
        /\ seat' \in [Named -> [Users -> SeatRow \cup {NoSeat}]]
    BY DEF GuestsInv, EventsInv, EventsTypeOK
  <2> QED BY <2>1, EventGoes
<1>3. By(c)' = By(c) /\ Of(c)' = Of(c)
  BY <1>2 DEF By, Of
<1>4. c \in CreateEvent => (Inserted(c) => Inserted(c)') /\ CreatorFits(c)'
  <2>1. CASE c \in CreateEvent
    <3>1. Inserted(c) => Inserted(c)'
      BY <1>1, <1>2, <2>1 DEF Inserted
    <3>2. CreatorFits(c)'
      BY <1>2, <1>3, <2>1 DEF CreatorFits
    <3> QED BY <3>1, <3>2
  <2> QED BY <2>1
<1>5. c \in JoinEvent => JoinerFits(c)'
  BY <1>2, <1>3 DEF JoinerFits
<1>6. c \in LeaveEvent => LeaverFits(c)'
  <2>1. CASE c \in LeaveEvent
    <3>1. Of(c) \in Named
      BY <1>1, <2>1, EventCallIs
    <3>2. PICK e \in Named : e = Of(c)
      BY <3>1
    <3>3. Inserted(e) => Inserted(e)'
      <4>1. e /= c
        BY <2>1
      <4> QED BY <1>2, <4>1 DEF Inserted, EventMove
    <3>4. Inserted(Of(c)) => Inserted(Of(c))'
      BY <1>3, <3>2, <3>3 DEF Inserted
    <3> QED BY <1>2, <1>3, <2>1, <3>4 DEF LeaverFits
  <2> QED BY <2>1
<1>7. ASSUME NEW e \in Named PROVE EventFits(e)'
  <2>1. CASE e /= c
    BY <1>2, <2>1, EventKept
  <2>2. CASE e = c
    <3>1. EventFits(c) /\ c \in CreateEvent
      BY <2>2, EventRowsAre
    <3>2. Inserted(c) => Inserted(c)'
      BY <1>4, <3>1
    <3>3. EventFits(c)'
      BY <1>1, <1>2, <1>3, <3>1, <3>2 DEF EventFits
    <3> QED BY <2>2, <3>3
  <2> QED BY <2>1, <2>2
<1> QED BY <1>2, <1>4, <1>5, <1>6, <1>7, EventRest

\* Who is qualified, or may play a role that needs it, has reached Tier_2.
LEMMA QualifiedReached ==
  ASSUME GuestsInv, NEW u \in Users
  PROVE  /\ Qualified(u) => reached[u] >= 2
         /\ \A role : MayPlay(u, role) /\ role \in {"PERFORMER", "CELEBRANT"} => reached[u] >= 2
<1>1. tier[u] \in {-1, 0, 1, 2, 3} /\ reached[u] \in {-1, 0, 1, 2, 3} /\ tier[u] <= reached[u]
  BY DEF GuestsInv, CustomersTypeOK, TiersAreReached, Tiers, NoCustomer
<1> QED BY <1>1 DEF Qualified, MayPlay, NoCustomer

\* Every step of the events that writes no row.
LEMMA EventsReads ==
  ASSUME GuestsInv, NEW c \in EventCall, UNCHANGED <<kycVars, openingVars>>,
         \/ c \in CreateEvent /\ (ReadHostTier(c) \/ DrawCode(c) \/ ReadPerformer(c))
         \/ c \in JoinEvent /\ (ReadEventToJoin(c) \/ CheckTierForRole(c) \/ ReadSeatToJoin(c) \/ ReadWallet(c))
         \/ c \in LeaveEvent /\ (ReadSeatToLeave(c) \/ ReadEventToLeave(c))
         \/ c \in RemoveEvent /\ ReadEventToRemove(c)
  PROVE  GuestsInv'
<1> USE CallsAre
<1>1. drawn \in [CreateEvent -> Codes] /\ seen \in [JoinEvent \cup LeaveEvent -> Named \cup JoinEvent]
  BY DEF GuestsInv, EventsInv, EventsTypeOK
<1>2. CASE c \in CreateEvent /\ ReadHostTier(c)
  <2>1. PICK place \in {"drawCode", "failed"} :
          Goto(c, place) /\ (place = "drawCode" => Qualified(By(c)))
    BY <1>2 DEF ReadHostTier, Moves
  <2>2. at[c] = "readTier" /\ UNCHANGED <<customerVars, event, seat, drawn, seen>>
    BY <1>2 DEF ReadHostTier, Moves
  <2>3. By(c) \in Users
    BY <2>2, EventCallIs
  <2>4. ~Inserted(c)
    BY <2>2, <1>2 DEF Inserted
  <2> QED BY <1>1, <1>2, <2>1, <2>2, <2>3, <2>4, QualifiedReached, EventMoves DEF EventPlaces, Ends
<1>3. CASE c \in CreateEvent /\ DrawCode(c)
  <2>1. PICK place \in {"insertEvent", "failed"} : Goto(c, place)
    BY <1>3 DEF DrawCode
  <2>2. at[c] = "drawCode" /\ UNCHANGED <<customerVars, event, seat, seen>> /\ drawn' \in [CreateEvent -> Codes]
    BY <1>1, <1>3 DEF DrawCode
  <2>3. reached[By(c)] >= 2
    BY <1>3, <2>2 DEF GuestsInv, EventsInv, CreatorFits
  <2>4. ~Inserted(c)
    BY <2>2, <1>3 DEF Inserted
  <2> QED BY <1>1, <1>3, <2>1, <2>2, <2>3, <2>4, EventMoves DEF EventPlaces, Ends
<1>4. CASE c \in CreateEvent /\ ReadPerformer(c)
  <2>1. PICK place \in {"failed", "done", "insertPerformer"} :
          Goto(c, place) /\ (place = "insertPerformer" =>
                               request[c].performer /= Stranger /\ Qualified(request[c].performer))
    BY <1>4 DEF ReadPerformer, Moves
  <2>2. at[c] = "readPerformer" /\ UNCHANGED <<customerVars, event, seat, drawn, seen>>
    BY <1>4 DEF ReadPerformer, Moves
  <2>3. request[c].performer \in Users \cup {Stranger}
    BY <1>4, <2>2, EventCallIs DEF GuestsInv, EventsInv, CreatorFits
  <2>4. place = "insertPerformer" => request[c].performer \in Users /\ reached[request[c].performer] >= 2
    BY <2>1, <2>3, QualifiedReached
  <2> QED BY <1>1, <1>4, <2>1, <2>2, <2>4, EventMoves DEF EventPlaces, Ends
<1>5. CASE c \in JoinEvent /\ ReadEventToJoin(c)
  <2>1. PICK place \in {"failed", "readTier"} : Goto(c, place)
    BY <1>5 DEF ReadEventToJoin, Moves
  <2>2. at[c] = "readEvent" /\ UNCHANGED <<customerVars, event, seat, drawn, seen>>
    BY <1>5 DEF ReadEventToJoin, Moves
  <2> QED BY <1>1, <1>5, <2>1, <2>2, EventMoves DEF EventPlaces, Ends
<1>6. CASE c \in JoinEvent /\ CheckTierForRole(c)
  <2>1. PICK place \in {"failed", "readSeat", "updateSeat"} :
          Goto(c, place) /\ (place /= "failed" => MayPlay(By(c), request[c].role))
    BY <1>6 DEF CheckTierForRole, Moves
  <2>2. at[c] \in {"readTier", "recheckTier"} /\ UNCHANGED <<customerVars, event, seat, drawn, seen>>
    BY <1>6 DEF CheckTierForRole, Moves
  <2>3. By(c) \in Users
    BY <2>2, EventCallIs
  <2>4. place /= "failed" => (request[c].role \in {"PERFORMER", "CELEBRANT"} => reached[By(c)] >= 2)
    BY <2>1, <2>3, QualifiedReached
  <2> QED BY <1>1, <1>6, <2>1, <2>2, <2>4, EventMoves DEF EventPlaces, Ends
<1>7. CASE c \in JoinEvent /\ ReadSeatToJoin(c)
  <2>1. at[c] = "readSeat" /\ Of(c) \in Named /\ By(c) \in Users
    BY <1>7, EventCallIs DEF ReadSeatToJoin
  <2>2. PICK place \in {"failed", "readWallet", "recheckTier"} : Goto(c, place)
    BY <1>7 DEF ReadSeatToJoin, Moves
  <2>3. UNCHANGED <<customerVars, event, seat, drawn>>
    BY <1>7 DEF ReadSeatToJoin, Moves
  <2>4. seat[Of(c)][By(c)] /= NoSeat => seat[Of(c)][By(c)].id \in Named \cup JoinEvent
    BY <2>1, EventRowsAre
  <2>5. seen' \in [JoinEvent \cup LeaveEvent -> Named \cup JoinEvent]
    BY <1>1, <1>7, <2>4 DEF ReadSeatToJoin, Moves
  <2>6. request[c].role \in {"PERFORMER", "CELEBRANT"} => reached[By(c)] >= 2
    BY <1>7, <2>1 DEF GuestsInv, EventsInv, JoinerFits
  <2> QED BY <1>1, <1>7, <2>1, <2>2, <2>3, <2>5, <2>6, EventMoves DEF EventPlaces, Ends
<1>8. CASE c \in JoinEvent /\ ReadWallet(c)
  <2>1. PICK place \in {"insertSeat", "failed"} : Goto(c, place)
    BY <1>8 DEF ReadWallet, Moves
  <2>2. at[c] = "readWallet" /\ UNCHANGED <<customerVars, event, seat, drawn, seen>>
    BY <1>8 DEF ReadWallet, Moves
  <2>3. request[c].role \in {"PERFORMER", "CELEBRANT"} => reached[By(c)] >= 2
    BY <1>8, <2>2 DEF GuestsInv, EventsInv, JoinerFits
  <2> QED BY <1>1, <1>8, <2>1, <2>2, <2>3, EventMoves DEF EventPlaces, Ends
<1>9. CASE c \in LeaveEvent /\ ReadSeatToLeave(c)
  <2>1. at[c] = "readSeat" /\ Of(c) \in Named /\ By(c) \in Users
    BY <1>9, EventCallIs DEF ReadSeatToLeave
  <2>2. PICK place \in {"failed", "readEvent"} :
          Goto(c, place) /\ (place = "readEvent" => seat[Of(c)][By(c)] /= NoSeat)
    BY <1>9 DEF ReadSeatToLeave, Moves
  <2>3. UNCHANGED <<customerVars, event, seat, drawn>>
    BY <1>9 DEF ReadSeatToLeave, Moves
  <2>4. seat[Of(c)][By(c)] /= NoSeat => seat[Of(c)][By(c)].id \in Named \cup JoinEvent
    BY <2>1, EventRowsAre
  <2>5. seen' \in [JoinEvent \cup LeaveEvent -> Named \cup JoinEvent]
    BY <1>1, <1>9, <2>4 DEF ReadSeatToLeave, Moves
  <2>6. place = "readEvent" => Inserted(Of(c))
    BY <2>1, <2>2, EventRowsAre DEF EventFits
  <2> QED BY <1>1, <1>9, <2>1, <2>2, <2>3, <2>5, <2>6, EventMoves DEF EventPlaces, Ends
<1>10. CASE c \in LeaveEvent /\ ReadEventToLeave(c)
  <2>1. PICK place \in {"failed", "deleteSeat"} :
          /\ Goto(c, place)
          /\ place = "deleteSeat" => event[Of(c)] = NoEvent \/ event[Of(c)].host /= By(c)
    BY <1>10 DEF ReadEventToLeave, Moves
  <2>2. at[c] = "readEvent" /\ UNCHANGED <<customerVars, event, seat, drawn, seen>>
    BY <1>10 DEF ReadEventToLeave, Moves
  <2>3. Inserted(Of(c))
    BY <1>10, <2>2 DEF GuestsInv, EventsInv, LeaverFits
  <2> QED BY <1>1, <1>10, <2>1, <2>2, <2>3, EventMoves DEF EventPlaces, Ends
<1>11. CASE c \in RemoveEvent /\ ReadEventToRemove(c)
  <2>1. PICK place \in {"failed", "deleteEvent"} : Goto(c, place)
    BY <1>11 DEF ReadEventToRemove, Moves
  <2>2. at[c] = "readEvent" /\ UNCHANGED <<customerVars, event, seat, drawn, seen>>
    BY <1>11 DEF ReadEventToRemove, Moves
  <2> QED BY <1>1, <1>11, <2>1, <2>2, EventMoves DEF EventPlaces, Ends
<1> QED BY <1>2, <1>3, <1>4, <1>5, <1>6, <1>7, <1>8, <1>9, <1>10, <1>11

\* A seat is given in an event that is there, to a user who may play the role.
LEMMA SeatsOne ==
  ASSUME GuestsInv, NEW c \in EventCall, at[c] \in EventPlaces, NEW place \in {"done", "readPerformer"},
         Goto(c, place), UNCHANGED <<kycVars, openingVars>>,
         NEW e \in Named, NEW u \in Users, NEW role \in Roles, NEW id \in Named \cup JoinEvent,
         event[e] /= NoEvent, Seat(e, u, role, id),
         role \in {"PERFORMER", "CELEBRANT"} => reached[u] >= 2,
         c \in CreateEvent => e = c /\ Inserted(c),
         c \in CreateEvent /\ at[c] /= "insertPerformer" => u = By(c),
         place = "readPerformer" => c \in CreateEvent /\ request[c].performer /= Nobody
  PROVE  GuestsInv'
<1> USE CallsAre
<1> DEFINE r == [role |-> role, id |-> id]
<1>1. /\ seat' = [seat EXCEPT ![e][u] = r] /\ UNCHANGED <<customerVars, event, drawn, seen>>
      /\ r \in SeatRow /\ r.role = role
  BY DEF Seat, SeatRow
<1> HIDE DEF r
<1>2. /\ seat \in [Named -> [Users -> SeatRow \cup {NoSeat}]] /\ NoSeat \notin SeatRow
      /\ event \in [Named -> EventRow \cup {NoEvent}]
      /\ drawn \in [CreateEvent -> Codes] /\ seen \in [JoinEvent \cup LeaveEvent -> Named \cup JoinEvent]
  BY EventRowsAre
<1>3. /\ seat' \in [Named -> [Users -> SeatRow \cup {NoSeat}]]
      /\ seat'[e][u] = r /\ \A v \in Users : v /= u => seat'[e][v] = seat[e][v]
      /\ \A f \in Named : f /= e => seat'[f] = seat[f]
  BY <1>1, <1>2
<1>4. at[c] /= "idle" /\ c /= Standing /\ place \in EventPlaces \cup Ends
  BY DEF EventPlaces, Ends
<1>5. EventMove(c) /\ request' = request /\ at'[c] = place
  BY <1>1, <1>2, <1>3, <1>4, EventGoes
<1>6. By(c)' = By(c)
  BY <1>5 DEF By
<1>7. EventFits(e)'
  <2>1. EventFits(e) /\ event[e].host \in Users
    BY EventRowsAre
  <2>2. e /= Standing => By(e)' = By(e)
    BY <1>5 DEF By
  <2>3. seat'[e][u] /= NoSeat
    BY <1>1, <1>2, <1>3
  <2>4. \A v \in Users : seat[e][v] /= NoSeat => seat'[e][v] /= NoSeat
    BY <1>3, <2>3
  <2>5. \A v \in Users : seat'[e][v] /= NoSeat /\ seat'[e][v].role \in {"PERFORMER", "CELEBRANT"} => reached[v] >= 2
    <3> TAKE v \in Users
    <3>1. CASE v = u
      BY <1>1, <1>3, <3>1
    <3>2. CASE v /= u
      BY <1>3, <2>1, <3>2 DEF EventFits
    <3> QED BY <3>1, <3>2
  <2>6. e = Standing \/ at'[e] \in {"readPerformer", "insertPerformer", "done"} => seat'[e][event[e].host] /= NoSeat
    <3>1. CASE e = c
      <4>1. c \in CreateEvent
        BY <3>1
      <4>2. CASE at[c] = "insertPerformer"
        BY <2>1, <2>4, <3>1, <4>2 DEF EventFits
      <4>3. CASE at[c] /= "insertPerformer"
        <5>1. u = By(c) /\ event[e].host = By(c)
          BY <1>4, <2>1, <3>1, <4>1, <4>3 DEF EventFits
        <5> QED BY <2>3, <5>1
      <4> QED BY <4>2, <4>3
    <3>2. CASE e /= c
      <4>1. e /= Standing => at'[e] = at[e]
        BY <1>5, <3>2 DEF EventMove
      <4> QED BY <2>1, <2>4, <4>1 DEF EventFits
    <3> QED BY <3>1, <3>2
  <2>7. (e /= Standing => at'[e] \notin {"idle", "readTier", "drawCode", "insertEvent"}) \/ ~Inserted(e)
    <3>1. CASE e = c
      BY <1>1, <1>5, <3>1
    <3>2. CASE e /= c
      BY <1>5, <3>2 DEF EventMove, Inserted
    <3> QED BY <3>1, <3>2
  <2>8. ~Inserted(e)' => event'[e] = NoEvent
    BY <1>1, <2>1, <2>7 DEF EventFits, Inserted
  <2> HIDE DEF Inserted
  <2>9. event'[e] = event[e] /\ event[e] /= NoEvent
    BY <1>1, <2>1 DEF EventFits
  <2>10. (event'[e] /= NoEvent /\ e /= Standing) => event'[e].host = By(e)'
    BY <2>1, <2>2, <2>9 DEF EventFits
  <2>11. (event'[e] /= NoEvent /\ (e = Standing \/ at'[e] \in {"readPerformer", "insertPerformer", "done"})) =>
          seat'[e][event'[e].host] /= NoSeat
    BY <2>6, <2>9
  <2>12. \A v \in Users : seat'[e][v] /= NoSeat /\ seat'[e][v].role \in {"PERFORMER", "CELEBRANT"} => reached'[v] >= 2
    BY <1>1, <2>5
  <2> QED BY <2>8, <2>9, <2>10, <2>11, <2>12 DEF EventFits
<1>8. \A f \in Named : EventFits(f)'
  <2> SUFFICES ASSUME NEW f \in Named, f /= e PROVE EventFits(f)'
    BY <1>7
  <2>1. CASE f /= c
    BY <1>1, <1>3, <1>5, <2>1, EventKept
  <2>2. CASE f = c
    BY <2>2
  <2> QED BY <2>1, <2>2
<1>9. c \in CreateEvent => (Inserted(c) => Inserted(c)') /\ CreatorFits(c)'
  BY <1>4, <1>5 DEF Inserted, CreatorFits
<1>10. (c \in JoinEvent => JoinerFits(c)') /\ (c \in LeaveEvent => LeaverFits(c)')
  BY <1>5 DEF JoinerFits, LeaverFits
<1> QED BY <1>1, <1>5, <1>8, <1>9, <1>10, EventRest

LEMMA GivesSeats ==
  ASSUME GuestsInv, NEW c \in EventCall, UNCHANGED <<kycVars, openingVars>>,
         \/ c \in CreateEvent /\ (InsertHost(c) \/ InsertPerformer(c))
         \/ c \in JoinEvent /\ (UpdateSeat(c) \/ InsertSeat(c))
  PROVE  GuestsInv'
<1> USE CallsAre
<1>1. drawn \in [CreateEvent -> Codes] /\ seen \in [JoinEvent \cup LeaveEvent -> Named \cup JoinEvent]
  BY DEF GuestsInv, EventsInv, EventsTypeOK
<1>2. at[c] \in {"insertHost", "insertPerformer", "updateSeat", "insertSeat"}
  BY DEF InsertHost, InsertPerformer, UpdateSeat, InsertSeat
<1>3. at[c] \in EventPlaces /\ at[c] /= "idle" /\ By(c) \in Users
  BY <1>2, EventCallIs DEF EventPlaces
<1>4. CASE Moves(c, "failed")
  <2>1. Goto(c, "failed") /\ UNCHANGED <<customerVars, event, seat, drawn, seen>>
    BY <1>4 DEF Moves
  <2>2. "failed" \in EventPlaces \cup Ends
    BY DEF Ends
  <2> QED BY <1>1, <1>2, <1>3, <2>1, <2>2, EventMoves
<1>5. CASE c \in CreateEvent /\ InsertHost(c) /\ ~Moves(c, "failed")
  <2>1. /\ at[c] = "insertHost" /\ event[c] /= NoEvent /\ Seat(c, By(c), "CELEBRANT", c)
        /\ Goto(c, AfterHost(c))
    BY <1>5 DEF InsertHost, Vacant
  <2>2. Inserted(c) /\ reached[By(c)] >= 2
    BY <1>5, <2>1 DEF Inserted, GuestsInv, EventsInv, CreatorFits
  <2>3. AfterHost(c) \in {"done", "readPerformer"} /\ (AfterHost(c) = "readPerformer" => request[c].performer /= Nobody)
    BY DEF AfterHost
  <2>4. "CELEBRANT" \in Roles /\ c \in Named
    BY <1>5 DEF Roles
  <2> QED BY <1>3, <1>5, <2>1, <2>2, <2>3, <2>4, SeatsOne
<1>6. CASE c \in CreateEvent /\ InsertPerformer(c) /\ ~Moves(c, "failed")
  <2> DEFINE p == request[c].performer
  <2>1. at[c] = "insertPerformer" /\ p \in Users /\ reached[p] >= 2
    BY <1>6 DEF InsertPerformer, GuestsInv, EventsInv, CreatorFits
  <2>2. Inserted(c) /\ "done" \in EventPlaces \cup Ends
    BY <1>6, <2>1 DEF Inserted, Ends
  <2>3. CASE Moves(c, "done")
    <3>1. Goto(c, "done") /\ UNCHANGED <<customerVars, event, seat, drawn, seen>>
      BY <2>3 DEF Moves
    <3> QED BY <1>1, <1>3, <1>6, <2>1, <2>2, <3>1, EventMoves
  <2>4. CASE Vacant(c, p) /\ Seat(c, p, "PERFORMER", c) /\ Goto(c, "done")
    <3>1. event[c] /= NoEvent /\ "PERFORMER" \in Roles /\ c \in Named
      BY <1>6, <2>4 DEF Vacant, Roles
    <3> QED BY <1>3, <1>6, <2>1, <2>2, <2>4, <3>1, SeatsOne
  <2> QED BY <1>6, <2>3, <2>4 DEF InsertPerformer
<1>7. CASE c \in JoinEvent /\ (UpdateSeat(c) \/ InsertSeat(c)) /\ ~Moves(c, "failed")
  <2>1. PICK id \in {c, seen[c]} :
          /\ Seat(Of(c), By(c), request[c].role, id) /\ Goto(c, "done")
          /\ Vacant(Of(c), By(c)) \/ Found(c)
    BY <1>7 DEF UpdateSeat, InsertSeat
  <2>2. Of(c) \in Named /\ request[c].role \in Roles
    BY <1>3, <1>7, EventCallIs
  <2>3. id \in Named \cup JoinEvent
    BY <1>1, <1>7, <2>1
  <2>4. event[Of(c)] /= NoEvent
    BY <1>3, <2>1, <2>2, EventRowsAre DEF Vacant, Found, EventFits
  <2>5. request[c].role \in {"PERFORMER", "CELEBRANT"} => reached[By(c)] >= 2
    <3>1. at[c] \in {"updateSeat", "insertSeat"}
      BY <1>7 DEF UpdateSeat, InsertSeat
    <3> QED BY <1>7, <3>1 DEF GuestsInv, EventsInv, JoinerFits
  <2> QED BY <1>3, <1>7, <2>1, <2>2, <2>3, <2>4, <2>5, SeatsOne
<1> QED BY <1>4, <1>5, <1>6, <1>7

LEMMA InsertsEvent ==
  ASSUME GuestsInv, NEW c \in CreateEvent, InsertEvent(c), UNCHANGED <<kycVars, openingVars>>
  PROVE  GuestsInv'
<1> USE CallsAre
<1>1. at[c] = "insertEvent" /\ at[c] \in EventPlaces /\ By(c) \in Users /\ c \in EventCall /\ c \in Named
  BY EventCallIs DEF InsertEvent, EventPlaces
<1>2. drawn \in [CreateEvent -> Codes] /\ seen \in [JoinEvent \cup LeaveEvent -> Named \cup JoinEvent]
  BY DEF GuestsInv, EventsInv, EventsTypeOK
<1>3. CASE Moves(c, "failed")
  <2>1. Goto(c, "failed") /\ UNCHANGED <<customerVars, event, seat, drawn, seen>>
    BY <1>3 DEF Moves
  <2>2. "failed" \in EventPlaces \cup Ends
    BY DEF Ends
  <2> QED BY <1>1, <1>2, <2>1, <2>2, EventMoves
<1>4. CASE ~Moves(c, "failed")
  <2> DEFINE r == [host |-> By(c), code |-> drawn[c]]
  <2>1. /\ event' = [event EXCEPT ![c] = r] /\ Goto(c, "insertHost") /\ UNCHANGED <<customerVars, seat, drawn, seen>>
        /\ r \in EventRow /\ r.host = By(c)
    BY <1>1, <1>2, <1>4 DEF InsertEvent, EventRow
  <2> HIDE DEF r
  <2>11. /\ event \in [Named -> EventRow \cup {NoEvent}] /\ seat \in [Named -> [Users -> SeatRow \cup {NoSeat}]]
        /\ NoEvent \notin EventRow /\ EventFits(c)
    BY <1>1, EventRowsAre
  <2>12. ~Inserted(c)
    BY <1>1 DEF Inserted
  <2>2. /\ event \in [Named -> EventRow \cup {NoEvent}] /\ seat \in [Named -> [Users -> SeatRow \cup {NoSeat}]]
        /\ NoEvent \notin EventRow /\ EventFits(c) /\ ~Inserted(c)
    BY <2>11, <2>12
  <2>3. /\ event' \in [Named -> EventRow \cup {NoEvent}] /\ event'[c] = r /\ r /= NoEvent
        /\ \A f \in Named : f /= c => event'[f] = event[f]
    BY <1>1, <2>1, <2>2
  <2>4. "insertHost" \in EventPlaces \cup Ends
    BY DEF EventPlaces
  <2>5. EventMove(c) /\ request' = request /\ at'[c] = "insertHost"
    BY <1>1, <1>2, <2>1, <2>2, <2>3, <2>4, EventGoes
  <2>6. By(c)' = By(c)
    BY <2>5 DEF By
  <2>7. EventFits(c)'
    BY <1>1, <2>1, <2>2, <2>3, <2>5, <2>6 DEF EventFits, Inserted
  <2>8. \A f \in Named : EventFits(f)'
    BY <1>1, <2>1, <2>3, <2>5, <2>7, EventKept
  <2>9. CreatorFits(c)' /\ ~Inserted(c)
    <3>1. reached[By(c)] >= 2
      BY <1>1 DEF GuestsInv, EventsInv, CreatorFits
    <3> QED BY <2>1, <2>2, <2>5, <2>6, <3>1 DEF CreatorFits
  <2>10. \A e \in Named : Inserted(e) => event'[e] \in {event[e], NoEvent}
    BY <2>2, <2>3
  <2> QED BY <1>1, <2>1, <2>5, <2>8, <2>9, <2>10, EventRest
<1> QED BY <1>3, <1>4

LEMMA DeletesSeat ==
  ASSUME GuestsInv, NEW c \in LeaveEvent, DeleteSeat(c), UNCHANGED <<kycVars, openingVars>>
  PROVE  GuestsInv'
<1> USE CallsAre
<1>1. at[c] = "deleteSeat" /\ at[c] \in EventPlaces /\ By(c) \in Users /\ c \in EventCall /\ Of(c) \in Named
  BY EventCallIs DEF DeleteSeat, EventPlaces
<1>2. drawn \in [CreateEvent -> Codes] /\ seen \in [JoinEvent \cup LeaveEvent -> Named \cup JoinEvent]
  BY DEF GuestsInv, EventsInv, EventsTypeOK
<1>3. CASE Moves(c, "failed")
  <2>1. Goto(c, "failed") /\ UNCHANGED <<customerVars, event, seat, drawn, seen>>
    BY <1>3 DEF Moves
  <2>2. "failed" \in EventPlaces \cup Ends
    BY DEF Ends
  <2> QED BY <1>1, <1>2, <2>1, <2>2, EventMoves
<1>4. CASE ~Moves(c, "failed")
  <2>1. PICK e \in Named, u \in Users : e = Of(c) /\ u = By(c)
    BY <1>1
  <2>2. /\ seat' = [seat EXCEPT ![e][u] = NoSeat] /\ Goto(c, "done") /\ UNCHANGED <<customerVars, event, drawn, seen>>
    BY <1>4, <2>1 DEF DeleteSeat
  <2>3. /\ seat \in [Named -> [Users -> SeatRow \cup {NoSeat}]] /\ event \in [Named -> EventRow \cup {NoEvent}]
        /\ EventFits(e) /\ (event[e] /= NoEvent => event[e].host \in Users)
    BY EventRowsAre
  <2>4. /\ seat' \in [Named -> [Users -> SeatRow \cup {NoSeat}]]
        /\ seat'[e][u] = NoSeat /\ \A v \in Users : v /= u => seat'[e][v] = seat[e][v]
        /\ \A f \in Named : f /= e => seat'[f] = seat[f]
    BY <2>2, <2>3
  <2>5. "done" \in EventPlaces \cup Ends
    BY DEF Ends
  <2>6. EventMove(c) /\ request' = request /\ at'[c] = "done"
    BY <1>1, <1>2, <2>2, <2>3, <2>4, <2>5, EventGoes
  <2>7. event[e] = NoEvent \/ event[e].host /= u
    BY <1>1, <2>1 DEF GuestsInv, EventsInv, LeaverFits
  <2>8. EventFits(e)'
    <3>1. e /= Standing => at'[e] = at[e] /\ By(e)' = By(e)
      BY <2>6 DEF EventMove, By
    <3>2. event[e] /= NoEvent => seat'[e][event[e].host] = seat[e][event[e].host]
      BY <2>3, <2>4, <2>7
    <3>3. \A v \in Users : seat'[e][v] \in {NoSeat, seat[e][v]}
      BY <2>4
    <3> QED BY <2>2, <2>3, <3>1, <3>2, <3>3 DEF EventFits, Inserted
  <2>9. \A f \in Named : EventFits(f)'
    <3> SUFFICES ASSUME NEW f \in Named, f /= e PROVE EventFits(f)'
      BY <2>8
    <3>1. f /= c
      OBVIOUS
    <3> QED BY <1>1, <2>2, <2>4, <2>6, <3>1, EventKept
  <2>10. LeaverFits(c)'
    BY <2>6 DEF LeaverFits
  <2> QED BY <1>1, <2>2, <2>6, <2>9, <2>10, EventRest
<1> QED BY <1>3, <1>4

LEMMA DeletesEvent ==
  ASSUME GuestsInv, NEW c \in RemoveEvent, DeleteEvent(c), UNCHANGED <<kycVars, openingVars>>
  PROVE  GuestsInv'
<1> USE CallsAre
<1>1. at[c] = "deleteEvent" /\ at[c] \in EventPlaces /\ c \in EventCall /\ Of(c) \in Named
  BY EventCallIs DEF DeleteEvent, EventPlaces
<1>2. drawn \in [CreateEvent -> Codes] /\ seen \in [JoinEvent \cup LeaveEvent -> Named \cup JoinEvent]
  BY DEF GuestsInv, EventsInv, EventsTypeOK
<1>3. CASE Moves(c, "failed")
  <2>1. Goto(c, "failed") /\ UNCHANGED <<customerVars, event, seat, drawn, seen>>
    BY <1>3 DEF Moves
  <2>2. "failed" \in EventPlaces \cup Ends
    BY DEF Ends
  <2> QED BY <1>1, <1>2, <2>1, <2>2, EventMoves
<1>4. CASE ~Moves(c, "failed")
  <2>1. PICK e \in Named : e = Of(c)
    BY <1>1
  <2>2. /\ event' = [event EXCEPT ![e] = NoEvent] /\ seat' = [seat EXCEPT ![e] = [u \in Users |-> NoSeat]]
        /\ Goto(c, "done") /\ UNCHANGED <<customerVars, drawn, seen>>
    BY <1>4, <2>1 DEF DeleteEvent
  <2>3. /\ seat \in [Named -> [Users -> SeatRow \cup {NoSeat}]] /\ event \in [Named -> EventRow \cup {NoEvent}]
        /\ EventFits(e)
    BY EventRowsAre
  <2>4. /\ seat' \in [Named -> [Users -> SeatRow \cup {NoSeat}]] /\ event' \in [Named -> EventRow \cup {NoEvent}]
        /\ event'[e] = NoEvent /\ \A u \in Users : seat'[e][u] = NoSeat
        /\ \A f \in Named : f /= e => seat'[f] = seat[f] /\ event'[f] = event[f]
    BY <2>2, <2>3
  <2>5. "done" \in EventPlaces \cup Ends
    BY DEF Ends
  <2>6. EventMove(c) /\ request' = request /\ at'[c] = "done"
    BY <1>1, <1>2, <2>2, <2>4, <2>5, EventGoes
  <2>7. EventFits(e)'
    BY <2>4 DEF EventFits
  <2>8. \A f \in Named : EventFits(f)'
    <3> SUFFICES ASSUME NEW f \in Named, f /= e PROVE EventFits(f)'
      BY <2>7
    <3>1. f /= c
      OBVIOUS
    <3> QED BY <1>1, <2>2, <2>4, <2>6, <3>1, EventKept
  <2>9. \A f \in Named : event'[f] \in {event[f], NoEvent}
    BY <2>4
  <2> QED BY <1>1, <2>2, <2>6, <2>8, <2>9, EventRest
<1> QED BY <1>3, <1>4

LEMMA EventSteps ==
  ASSUME GuestsInv, EventStep, UNCHANGED <<kycVars, openingVars>> PROVE GuestsInv'
<1> USE CallsAre
<1>1. CASE \E c \in EventCall : EventsArrive(c)
  BY <1>1, EventsArrives
<1>2. ASSUME NEW c \in CreateEvent,
             \/ ReadHostTier(c) \/ DrawCode(c) \/ InsertEvent(c) \/ InsertHost(c)
             \/ ReadPerformer(c) \/ InsertPerformer(c)
      PROVE  GuestsInv'
  BY <1>2, EventsReads, InsertsEvent, GivesSeats
<1>3. ASSUME NEW c \in JoinEvent,
             \/ ReadEventToJoin(c) \/ CheckTierForRole(c) \/ ReadSeatToJoin(c)
             \/ UpdateSeat(c) \/ ReadWallet(c) \/ InsertSeat(c)
      PROVE  GuestsInv'
  BY <1>3, EventsReads, GivesSeats
<1>4. ASSUME NEW c \in LeaveEvent, ReadSeatToLeave(c) \/ ReadEventToLeave(c) \/ DeleteSeat(c)
      PROVE  GuestsInv'
  BY <1>4, EventsReads, DeletesSeat
<1>5. ASSUME NEW c \in RemoveEvent, ReadEventToRemove(c) \/ DeleteEvent(c)
      PROVE  GuestsInv'
  BY <1>5, EventsReads, DeletesEvent
<1> QED BY <1>1, <1>2, <1>3, <1>4, <1>5 DEF EventStep

(***************************************************************************)
(* The steps of the checks, as to their types.                             *)
(***************************************************************************)
KycMove(c) ==
  /\ GuestsInv' /\ UNCHANGED callVars
  /\ at[c] \in KycPlaces /\ at'[c] \in KycPlaces \cup Ends
  /\ \A d \in Calls : d /= c => at'[d] = at[d]
  /\ \A d \in KycCall : d /= c => local'[d] = local[d]
  /\ local'[c].hadBoth => local[c].hadBoth

LEMMA KycCallIs ==
  ASSUME GuestsInv, NEW c \in KycCall
  PROVE  /\ c \in Calls /\ c \notin OpeningCall /\ c \notin EventCall
         /\ local \in [KycCall -> Locals] /\ local[c] \in Locals
         /\ local[c].kind \in Kinds /\ local[c].verdict \in States /\ local[c].tier \in Tiers
         /\ local[c].addressed \in BOOLEAN /\ local[c].hadBoth \in BOOLEAN
         /\ given \in [Users -> Tiers \cup {NoCustomer}]
         /\ row \in [Users -> [Kinds -> States]] /\ vouched \subseteq Users \X Kinds /\ registered \subseteq KycCall
         /\ tier \in [Users -> Tiers \cup {NoCustomer}] /\ reached \in [Users -> Tiers \cup {NoCustomer}]
         /\ at[c] /= "idle" => User(c) \in Users /\ Op(c) \in Operations /\ request[c].tier \in Tiers
<1>1. c \in Calls /\ c \notin OpeningCall /\ c \notin EventCall
  BY CallsAre
<1>2. KycTypeOK /\ CustomersTypeOK
  BY DEF GuestsInv
<1>3. local \in [KycCall -> Locals] /\ local[c] \in Locals
  BY <1>2 DEF KycTypeOK
<1>4. at[c] /= "idle" => request[c] \in KycRequests
  BY <1>2 DEF KycTypeOK
<1>5. at[c] /= "idle" => User(c) \in Users /\ Op(c) \in Operations /\ request[c].tier \in Tiers
  <2>1. ASSUME NEW r \in KycRequests PROVE r.user \in Users /\ r.op \in Operations /\ r.tier \in Tiers
    <3>1. CASE r \in [op : {"createCustomer"}, user : Users, tier : AskedTiers]
      BY <3>1, KycAssumption DEF Operations
    <3>2. CASE r \in [op : Operations \ {"createCustomer"}, user : Users, tier : {0}]
      BY <3>2 DEF Tiers
    <3> QED BY <3>1, <3>2 DEF KycRequests
  <2> QED BY <1>4, <2>1 DEF User, Op
<1> QED BY <1>1, <1>2, <1>3, <1>5 DEF Locals, KycTypeOK, CustomersTypeOK

LEMMA KycGoes ==
  ASSUME GuestsInv, NEW c \in KycCall, at[c] \in KycPlaces, NEW place \in KycPlaces \cup Ends, Goto(c, place),
         UNCHANGED <<openingVars, eventVars>>,
         row' \in [Users -> [Kinds -> States]], vouched' \subseteq Users \X Kinds, registered' \subseteq KycCall,
         NEW l \in Locals, local' = [local EXCEPT ![c] = l], l.hadBoth => local[c].hadBoth,
         given' \in [Users -> Tiers \cup {NoCustomer}],
         tier' \in [Users -> Tiers \cup {NoCustomer}], reached' \in [Users -> Tiers \cup {NoCustomer}],
         TiersAreReached', ReachedGrows
  PROVE  KycMove(c)
<1> USE CallsAre
<1>1. ServerTypeOK /\ c \in Calls /\ c \in InFlight /\ local \in [KycCall -> Locals]
  BY DEF GuestsInv, CustomersTypeOK, KycTypeOK, InFlight, KycPlaces, Ends
<1>2. /\ ServerTypeOK' /\ OneAtATime' /\ request' = request /\ at'[c] = place
      /\ \A d \in Calls : d /= c => at'[d] = at[d]
  BY <1>1, GotoServer, GotoInTurn DEF GuestsInv
<1>3. CallsStand(OpeningCall) /\ CallsStand(EventCall)
  BY <1>1, GotoStands
<1>4. CustomersTypeOK'
  BY <1>2 DEF CustomersTypeOK
<1>5. EventsInv' /\ OpeningsInv'
  BY <1>3, EventsStand, OpeningsStand DEF GuestsInv
<1>6. /\ local' \in [KycCall -> Locals] /\ (local'[c].hadBoth => local[c].hadBoth)
      /\ \A d \in KycCall : d /= c => local'[d] = local[d]
  BY <1>1
<1>7. ASSUME NEW d \in KycCall
      PROVE  /\ request'[d] \in IF at'[d] = "idle" THEN {NoRequest} ELSE KycRequests
             /\ at'[d] \in {"idle"} \cup KycPlaces \cup Ends
  <2>1. at[c] /= "idle" /\ place /= "idle"
    BY DEF KycPlaces, Ends
  <2>2. /\ request[d] \in IF at[d] = "idle" THEN {NoRequest} ELSE KycRequests
        /\ at[d] \in {"idle"} \cup KycPlaces \cup Ends
    BY DEF GuestsInv, KycTypeOK
  <2> QED BY <1>2, <2>1, <2>2
<1>8. KycTypeOK'
  <2>1. \A d \in KycCall : request'[d] \in IF at'[d] = "idle" THEN {NoRequest} ELSE KycRequests
    BY <1>7
  <2>2. \A d \in KycCall : at'[d] \in {"idle"} \cup KycPlaces \cup Ends
    BY <1>7
  <2>3. /\ row' \in [Users -> [Kinds -> States]] /\ vouched' \subseteq Users \X Kinds /\ registered' \subseteq KycCall
        /\ given' \in [Users -> Tiers \cup {NoCustomer}]
        /\ local' \in [KycCall -> Locals]
    BY <1>6
  <2> QED BY <2>1, <2>2, <2>3 DEF KycTypeOK
<1>9. GuestsInv'
  BY <1>2, <1>4, <1>5, <1>8 DEF GuestsInv
<1>10. UNCHANGED callVars
  BY DEF Goto
<1> QED BY <1>2, <1>6, <1>9, <1>10 DEF KycMove

\* The same for a step that writes no tier.
LEMMA KycGoesOn ==
  ASSUME GuestsInv, NEW c \in KycCall, at[c] \in KycPlaces, NEW place \in KycPlaces \cup Ends, Goto(c, place),
         UNCHANGED <<customerVars, given, openingVars, eventVars>>,
         row' \in [Users -> [Kinds -> States]], vouched' \subseteq Users \X Kinds, registered' \subseteq KycCall,
         NEW l \in Locals, local' = [local EXCEPT ![c] = l], l.hadBoth => local[c].hadBoth
  PROVE  KycMove(c)
<1>1. /\ tier' \in [Users -> Tiers \cup {NoCustomer}] /\ reached' \in [Users -> Tiers \cup {NoCustomer}]
      /\ given' \in [Users -> Tiers \cup {NoCustomer}]
  BY DEF GuestsInv, CustomersTypeOK, KycTypeOK
<1>2. TiersAreReached' /\ ReachedGrows
  BY DEF GuestsInv, CustomersTypeOK, TiersAreReached, ReachedGrows, Tiers, NoCustomer
<1> QED BY <1>1, <1>2, KycGoes

\* And for one that writes no locals either, or drops them.
LEMMA KycPlain ==
  ASSUME GuestsInv, NEW c \in KycCall, at[c] \in KycPlaces, NEW place \in KycPlaces \cup Ends,
         UNCHANGED <<openingVars, eventVars>>,
         Throw(c) \/ Proceed(c, place) \/ (\E kind \in Kinds : Turn(c, kind)) \/ TurnToBvn(c)
  PROVE  KycMove(c) /\ UNCHANGED <<customerVars, row, vouched, given, registered>>
<1>1. /\ local \in [KycCall -> Locals] /\ local[c] \in Locals
      /\ row \in [Users -> [Kinds -> States]] /\ vouched \subseteq Users \X Kinds /\ registered \subseteq KycCall
  BY KycCallIs
<1>2. UNCHANGED <<customerVars, row, vouched, given, registered>>
  BY DEF Throw, Proceed, Turn, TurnToBvn
<1>3. "failed" \in KycPlaces \cup Ends /\ "ask" \in KycPlaces \cup Ends
  BY DEF KycPlaces, Ends
<1>4. CASE Throw(c)
  <2>1. Goto(c, "failed") /\ local' = [local EXCEPT ![c] = Fresh] /\ Fresh \in Locals /\ ~Fresh.hadBoth
    BY <1>4 DEF Throw, Finish, Fresh, Locals, Kinds, States, Tiers
  <2> QED BY <1>1, <1>2, <1>3, <2>1, KycGoesOn
<1>5. CASE Proceed(c, place)
  <2>1. Goto(c, place) /\ local' = [local EXCEPT ![c] = local[c]]
    BY <1>1, <1>5 DEF Proceed
  <2> QED BY <1>1, <1>2, <2>1, KycGoesOn
<1>6. ASSUME NEW kind \in Kinds, Turn(c, kind) PROVE KycMove(c)
  <2>1. Goto(c, "ask") /\ local' = [local EXCEPT ![c] = [local[c] EXCEPT !.kind = kind]]
    BY <1>1, <1>6 DEF Turn
  <2>2. [local[c] EXCEPT !.kind = kind] \in Locals /\ [local[c] EXCEPT !.kind = kind].hadBoth = local[c].hadBoth
    BY <1>1 DEF Locals
  <2> QED BY <1>1, <1>2, <1>3, <2>1, <2>2, KycGoesOn
<1>7. CASE TurnToBvn(c)
  <2>1. Throw(c) \/ Turn(c, "bvn")
    BY <1>7 DEF TurnToBvn
  <2>2. "bvn" \in Kinds
    BY DEF Kinds
  <2> QED BY <1>2, <1>4, <1>6, <2>1, <2>2
<1> QED BY <1>2, <1>4, <1>5, <1>6, <1>7

LEMMA TierIsSet ==
  ASSUME GuestsInv, NEW u \in Users, NEW n \in Tiers, SetTier(u, n)
  PROVE  /\ tier' \in [Users -> Tiers \cup {NoCustomer}] /\ reached' \in [Users -> Tiers \cup {NoCustomer}]
         /\ TiersAreReached' /\ ReachedGrows
         /\ tier'[u] = n /\ \A v \in Users : v /= u => tier'[v] = tier[v]
<1>1. /\ tier \in [Users -> Tiers \cup {NoCustomer}] /\ reached \in [Users -> Tiers \cup {NoCustomer}]
      /\ \A v \in Users : tier[v] <= reached[v]
  BY DEF GuestsInv, CustomersTypeOK, TiersAreReached
<1>2. tier' = [tier EXCEPT ![u] = n] /\ reached' = [reached EXCEPT ![u] = IF n > reached[u] THEN n ELSE reached[u]]
  BY <1>1 DEF SetTier
<1>3. tier'[u] = n /\ \A v \in Users : v /= u => tier'[v] = tier[v] /\ reached'[v] = reached[v]
  BY <1>1, <1>2
<1>4. tier' \in [Users -> Tiers \cup {NoCustomer}] /\ reached' \in [Users -> Tiers \cup {NoCustomer}]
  BY <1>1, <1>2
<1>5. reached'[u] >= n /\ reached'[u] >= reached[u]
  <2>1. n \in Int /\ reached[u] \in Int
    BY <1>1 DEF Tiers, NoCustomer
  <2>2. reached'[u] = IF n > reached[u] THEN n ELSE reached[u]
    BY <1>1, <1>2
  <2> QED BY <2>1, <2>2
<1>6. \A v \in Users : tier'[v] <= reached'[v] /\ reached'[v] >= reached[v]
  <2> TAKE v \in Users
  <2>1. CASE v = u
    BY <1>3, <1>5, <2>1 DEF Tiers
  <2>2. CASE v /= u
    BY <1>1, <1>3, <2>2 DEF Tiers, NoCustomer
  <2> QED BY <2>1, <2>2
<1> QED BY <1>3, <1>4, <1>6 DEF TiersAreReached, ReachedGrows

LEMMA KycArrives ==
  ASSUME GuestsInv, NEW c \in KycCall, KycArrive(c), UNCHANGED <<openingVars, eventVars>>
  PROVE  GuestsInv'
<1> USE CallsAre
<1>1. ServerTypeOK /\ c \in Calls /\ at[c] = "idle" /\ Enter(c, KycRequests, "find")
      /\ UNCHANGED <<customerVars, row, vouched, given, registered>>
      /\ local' = [local EXCEPT ![c].hadBoth = HasBoth(request'[c].user)]
  BY DEF KycArrive, Enter, GuestsInv, CustomersTypeOK
<1>2. "find" \notin {"idle"} \cup Ends
  BY DEF Ends
<1>3. PICK r \in KycRequests : request' = [request EXCEPT ![c] = r]
  BY <1>1 DEF Enter
<1>4. /\ ServerTypeOK' /\ OneAtATime'
      /\ at'[c] = "find" /\ request'[c] = r
      /\ \A d \in Calls : d /= c => at'[d] = at[d] /\ request'[d] = request[d]
  BY <1>1, <1>2, <1>3, EnterServer, EnterInTurn DEF GuestsInv, ServerTypeOK
<1>5. CallsStand(OpeningCall) /\ CallsStand(EventCall)
  BY <1>1, EnterStands
<1>6. CustomersTypeOK' /\ TiersAreReached' /\ ReachedGrows
  BY <1>1, <1>4 DEF GuestsInv, CustomersTypeOK, TiersAreReached, ReachedGrows, Tiers, NoCustomer
<1>7. reached' \in [Users -> Tiers \cup {NoCustomer}]
  BY <1>6 DEF CustomersTypeOK
<1>8. EventsInv' /\ OpeningsInv'
  BY <1>5, <1>6, <1>7, EventsStand, OpeningsStand DEF GuestsInv
<1>9. ASSUME NEW d \in KycCall
      PROVE  /\ request'[d] \in IF at'[d] = "idle" THEN {NoRequest} ELSE KycRequests
             /\ at'[d] \in {"idle"} \cup KycPlaces \cup Ends
  <2>1. CASE d = c
    BY <1>4, <2>1 DEF KycPlaces
  <2>2. CASE d /= c
    BY <1>4, <2>2 DEF GuestsInv, KycTypeOK
  <2> QED BY <2>1, <2>2
<1>10. KycTypeOK'
  <2>1. local' = [local EXCEPT ![c] = [local[c] EXCEPT !.hadBoth = HasBoth(r.user)]]
    BY <1>1, <1>4, KycCallIs
  <2>2. [local[c] EXCEPT !.hadBoth = HasBoth(r.user)] \in Locals
    BY KycCallIs DEF Locals, HasBoth, Has
  <2>3. local' \in [KycCall -> Locals]
    BY <2>1, <2>2, KycCallIs
  <2> QED BY <1>1, <1>9, <2>3 DEF GuestsInv, KycTypeOK
<1> QED BY <1>4, <1>6, <1>8, <1>10 DEF GuestsInv

\* Every other step of a check.
KycReads(c) ==
  \/ FindForCreation(c) \/ FindForCheck(c) \/ FindForBoth(c) \/ ReadCustomer(c) \/ Register(c)
  \/ Reread(c) \/ CheckTier(c) \/ Refresh(c) \/ Enquire(c)

LEMMA KycFinishes ==
  ASSUME GuestsInv, NEW c \in KycCall, at[c] \in KycPlaces, NEW place \in Ends, Finish(c, place),
         UNCHANGED <<customerVars, given, openingVars, eventVars>>,
         row' \in [Users -> [Kinds -> States]], vouched' \subseteq Users \X Kinds, registered' \subseteq KycCall
  PROVE  KycMove(c)
<1>1. Goto(c, place) /\ local' = [local EXCEPT ![c] = Fresh] /\ Fresh \in Locals /\ ~Fresh.hadBoth
  BY DEF Finish, Fresh, Locals, Kinds, States, Tiers
<1> QED BY <1>1, KycGoesOn

LEMMA KycReadsGo ==
  ASSUME GuestsInv, NEW c \in KycCall, KycReads(c), UNCHANGED <<openingVars, eventVars>>
  PROVE  KycMove(c) /\ UNCHANGED <<customerVars, row, vouched, given>>
<1>1. at[c] \in KycPlaces
  BY DEF KycReads, FindForCreation, FindForCheck, FindForBoth, ReadCustomer, Register, Reread, CheckTier,
         Refresh, Enquire, KycPlaces
<1>2. /\ local \in [KycCall -> Locals] /\ local[c] \in Locals /\ c \in KycCall
      /\ row \in [Users -> [Kinds -> States]] /\ vouched \subseteq Users \X Kinds /\ registered \subseteq KycCall
  BY KycCallIs
<1>3. \A p \in {"readCustomer", "register", "checkTier", "enquire"} : p \in KycPlaces \cup Ends
  BY DEF KycPlaces
<1>4. "nin" \in Kinds /\ "bvn" \in Kinds /\ "address" \in Kinds
  BY DEF Kinds
<1>5. CASE Throw(c) \/ TurnToBvn(c) \/ (\E kind \in Kinds : Turn(c, kind))
           \/ \E p \in {"readCustomer", "register", "checkTier", "enquire"} : Proceed(c, p)
  BY <1>1, <1>3, <1>5, KycPlain
<1>6. CASE FindForBoth(c) /\ ~Throw(c)
  <2> DEFINE place == IF Has(User(c), "nin") THEN "refresh" ELSE "ask"
             l == [local[c] EXCEPT !.addressed = Has(User(c), "address")]
  <2>1. Goto(c, place) /\ local' = [local EXCEPT ![c] = l] /\ UNCHANGED <<customerVars, row, vouched, given, registered>>
    BY <1>2, <1>6 DEF FindForBoth
  <2>2. place \in KycPlaces \cup Ends /\ l \in Locals /\ l.hadBoth = local[c].hadBoth
    BY <1>2 DEF KycPlaces, Locals, Has
  <2> QED BY <1>1, <1>2, <2>1, <2>2, KycGoesOn
<1>7. CASE Register(c) /\ ~Throw(c)
  <2>1. PICK place \in {"insertCustomer", "failed"} :
          /\ registered' = registered \cup {c} /\ Goto(c, place)
          /\ UNCHANGED <<customerVars, row, vouched, given, local>>
    BY <1>7 DEF Register
  <2>2. place \in KycPlaces \cup Ends
    BY DEF KycPlaces, Ends
  <2>3. local' = [local EXCEPT ![c] = local[c]] /\ registered' \subseteq KycCall
    BY <1>2, <2>1
  <2> QED BY <1>1, <1>2, <2>1, <2>2, <2>3, KycGoesOn
<1>8. CASE Enquire(c)
  <2>1. PICK place \in {"done", "failed"} : Finish(c, place) /\ UNCHANGED <<customerVars, row, vouched, given, registered>>
    BY <1>8 DEF Enquire
  <2>2. place \in Ends
    BY DEF Ends
  <2> QED BY <1>1, <1>2, <2>1, <2>2, KycFinishes
<1>9. CASE FindForCreation(c)
  BY <1>5, <1>9 DEF FindForCreation
<1>10. CASE FindForCheck(c)
  <2>1. Throw(c) \/ Turn(c, "nin") \/ Turn(c, "bvn") \/ Proceed(c, "checkTier")
    BY <1>10 DEF FindForCheck
  <2> QED BY <1>4, <1>5, <2>1
<1>11. CASE ReadCustomer(c) \/ Reread(c) \/ Refresh(c)
  BY <1>5, <1>11 DEF ReadCustomer, Reread, Refresh
<1>12. CASE CheckTier(c)
  <2>1. Throw(c) \/ Turn(c, "address")
    BY <1>12 DEF CheckTier
  <2> QED BY <1>4, <1>5, <2>1
<1> QED BY <1>5, <1>6, <1>7, <1>8, <1>9, <1>10, <1>11, <1>12 DEF KycReads

LEMMA KycLeaves ==
  ASSUME NEW c \in KycCall, local \in [KycCall -> Locals], Leave(c)
  PROVE  \E place \in {"done", "refresh", "enquire"}, l \in Locals :
           /\ Goto(c, place) /\ local' = [local EXCEPT ![c] = l]
           /\ place /= "done" => l = local[c] /\ Op(c) = "upgradeWithNinAndAddress"
           /\ place = "done" => l = Fresh
           /\ l.hadBoth => local[c].hadBoth
<1>1. CASE After(c) = "done"
  <2>1. Goto(c, "done") /\ local' = [local EXCEPT ![c] = Fresh] /\ Fresh \in Locals /\ ~Fresh.hadBoth
    BY <1>1 DEF Leave, Finish, Fresh, Locals, Kinds, States, Tiers
  <2> QED BY <2>1
<1>2. CASE After(c) /= "done"
  <2>1. Goto(c, After(c)) /\ local' = [local EXCEPT ![c] = local[c]] /\ local[c] \in Locals
    BY <1>2 DEF Leave
  <2>2. After(c) \in {"refresh", "enquire"} /\ Op(c) = "upgradeWithNinAndAddress"
    BY <1>2 DEF After
  <2> QED BY <2>1, <2>2
<1> QED BY <1>1, <1>2

LEMMA InsertsCustomer ==
  ASSUME GuestsInv, NEW c \in KycCall, InsertCustomer(c), ~Throw(c), UNCHANGED <<openingVars, eventVars>>
  PROVE  KycMove(c)
<1>1. at[c] = "insertCustomer" /\ at[c] \in KycPlaces /\ User(c) \in Users /\ request[c].tier \in Tiers
  BY KycCallIs DEF InsertCustomer, KycPlaces
<1>2. /\ row \in [Users -> [Kinds -> States]] /\ vouched \subseteq Users \X Kinds /\ registered \subseteq KycCall
      /\ given \in [Users -> Tiers \cup {NoCustomer}] /\ local \in [KycCall -> Locals] /\ local[c] \in Locals
  BY KycCallIs
<1>3. /\ SetTier(User(c), request[c].tier) /\ Goto(c, AfterInsert(c))
      /\ given' = [given EXCEPT ![User(c)] = request[c].tier]
      /\ UNCHANGED <<row, vouched, registered>> /\ local' = [local EXCEPT ![c] = local[c]]
  BY <1>2 DEF InsertCustomer
<1>4. AfterInsert(c) \in KycPlaces \cup Ends
  BY DEF AfterInsert, Ends, KycPlaces
<1>5. given' \in [Users -> Tiers \cup {NoCustomer}]
  BY <1>1, <1>2, <1>3
<1>6. /\ tier' \in [Users -> Tiers \cup {NoCustomer}] /\ reached' \in [Users -> Tiers \cup {NoCustomer}]
      /\ TiersAreReached' /\ ReachedGrows
  BY <1>1, <1>3, TierIsSet
<1> QED BY <1>1, <1>2, <1>3, <1>4, <1>5, <1>6, KycGoes

LEMMA Asks ==
  ASSUME GuestsInv, NEW c \in KycCall, Ask(c), ~Throw(c), UNCHANGED <<openingVars, eventVars>>
  PROVE  KycMove(c)
<1>1. at[c] \in KycPlaces /\ User(c) \in Users
  BY KycCallIs DEF Ask, KycPlaces
<1>2. PICK v \in {"verified", "unverified"} :
        /\ vouched' = IF v = "verified" THEN vouched \cup {<<User(c), local[c].kind>>} ELSE vouched
        /\ \/ Goto(c, "store") /\ local' = [local EXCEPT ![c].verdict = v]
           \/ Finish(c, "failed")
        /\ UNCHANGED <<customerVars, row, given, registered>>
  BY DEF Ask
<1>3. /\ row \in [Users -> [Kinds -> States]] /\ vouched \subseteq Users \X Kinds /\ registered \subseteq KycCall
      /\ local \in [KycCall -> Locals] /\ local[c] \in Locals /\ local[c].kind \in Kinds
  BY KycCallIs
<1>4. vouched' \subseteq Users \X Kinds
  BY <1>1, <1>2, <1>3
<1>5. CASE Finish(c, "failed")
  <2>1. "failed" \in Ends
    BY DEF Ends
  <2> QED BY <1>1, <1>2, <1>3, <1>4, <1>5, <2>1, KycFinishes
<1>6. CASE Goto(c, "store") /\ local' = [local EXCEPT ![c].verdict = v]
  <2>1. local' = [local EXCEPT ![c] = [local[c] EXCEPT !.verdict = v]]
    BY <1>3, <1>6
  <2>2. [local[c] EXCEPT !.verdict = v] \in Locals /\ [local[c] EXCEPT !.verdict = v].hadBoth = local[c].hadBoth
        /\ "store" \in KycPlaces \cup Ends
    BY <1>3 DEF Locals, States, KycPlaces
  <2> QED BY <1>1, <1>2, <1>3, <1>4, <1>6, <2>1, <2>2, KycGoesOn
<1> QED BY <1>2, <1>5, <1>6

LEMMA Stores ==
  ASSUME GuestsInv, NEW c \in KycCall, Store(c), UNCHANGED <<openingVars, eventVars>>
  PROVE  KycMove(c)
<1>1. at[c] \in KycPlaces /\ User(c) \in Users /\ StoreRow(c) /\ UNCHANGED <<customerVars, vouched, given, registered>>
  BY KycCallIs DEF Store, KycPlaces
<1>2. /\ row \in [Users -> [Kinds -> States]] /\ vouched \subseteq Users \X Kinds /\ registered \subseteq KycCall
      /\ local \in [KycCall -> Locals] /\ local[c] \in Locals
      /\ local[c].kind \in Kinds /\ local[c].verdict \in States
  BY KycCallIs
<1>3. row' \in [Users -> [Kinds -> States]]
  BY <1>1, <1>2 DEF StoreRow
<1>4. PICK place \in KycPlaces \cup Ends, l \in Locals :
        Goto(c, place) /\ local' = [local EXCEPT ![c] = l] /\ (l.hadBoth => local[c].hadBoth)
  <2>1. CASE Leave(c)
    <3>1. {"done", "refresh", "enquire"} \subseteq KycPlaces \cup Ends
      BY DEF KycPlaces, Ends
    <3> QED BY <1>2, <2>1, <3>1, KycLeaves
  <2>2. CASE Goto(c, "writeTier") /\ local' = [local EXCEPT ![c].tier = 3]
    <3>1. local' = [local EXCEPT ![c] = [local[c] EXCEPT !.tier = 3]]
      BY <1>2, <2>2
    <3>2. [local[c] EXCEPT !.tier = 3] \in Locals /\ [local[c] EXCEPT !.tier = 3].hadBoth = local[c].hadBoth
          /\ "writeTier" \in KycPlaces \cup Ends
      BY <1>2 DEF Locals, Tiers, KycPlaces
    <3> QED BY <2>2, <3>1, <3>2
  <2>3. CASE Goto(c, "readOther") /\ UNCHANGED local
    <3>1. local' = [local EXCEPT ![c] = local[c]] /\ "readOther" \in KycPlaces \cup Ends
      BY <1>2, <2>3 DEF KycPlaces
    <3> QED BY <1>2, <2>3, <3>1
  <2> QED BY <2>1, <2>2, <2>3 DEF Store
<1> QED BY <1>1, <1>2, <1>3, <1>4, KycGoesOn

LEMMA ReadsOther ==
  ASSUME GuestsInv, NEW c \in KycCall, ReadOther(c), UNCHANGED <<openingVars, eventVars>>
  PROVE  KycMove(c)
<1>1. /\ row \in [Users -> [Kinds -> States]] /\ vouched \subseteq Users \X Kinds /\ registered \subseteq KycCall
      /\ local \in [KycCall -> Locals] /\ local[c] \in Locals
  BY KycCallIs
<1>2. at[c] \in KycPlaces /\ Goto(c, "writeTier") /\ UNCHANGED <<customerVars, row, vouched, given, registered>>
      /\ local' = [local EXCEPT ![c] = [local[c] EXCEPT !.tier = NewTier(c)]]
  BY <1>1 DEF ReadOther, KycPlaces
<1>3. [local[c] EXCEPT !.tier = NewTier(c)] \in Locals /\ "writeTier" \in KycPlaces \cup Ends
      /\ [local[c] EXCEPT !.tier = NewTier(c)].hadBoth = local[c].hadBoth
  <2>1. NewTier(c) \in Tiers
    BY DEF NewTier, Tiers
  <2> QED BY <1>1, <2>1 DEF Locals, KycPlaces
<1> QED BY <1>1, <1>2, <1>3, KycGoesOn

LEMMA WritesTier ==
  ASSUME GuestsInv, NEW c \in KycCall, WriteTier(c), UNCHANGED <<openingVars, eventVars>>
  PROVE  KycMove(c)
<1>1. at[c] \in KycPlaces /\ User(c) \in Users
      /\ SetTier(User(c), local[c].tier) /\ Leave(c) /\ UNCHANGED <<row, vouched, given, registered>>
  BY KycCallIs DEF WriteTier, KycPlaces
<1>2. /\ row \in [Users -> [Kinds -> States]] /\ vouched \subseteq Users \X Kinds /\ registered \subseteq KycCall
      /\ given \in [Users -> Tiers \cup {NoCustomer}]
      /\ local \in [KycCall -> Locals] /\ local[c].tier \in Tiers
  BY KycCallIs
<1>3. PICK place \in {"done", "refresh", "enquire"}, l \in Locals :
        Goto(c, place) /\ local' = [local EXCEPT ![c] = l] /\ (l.hadBoth => local[c].hadBoth)
  BY <1>1, <1>2, KycLeaves
<1>4. place \in KycPlaces \cup Ends
  BY DEF KycPlaces, Ends
<1>5. /\ tier' \in [Users -> Tiers \cup {NoCustomer}] /\ reached' \in [Users -> Tiers \cup {NoCustomer}]
      /\ TiersAreReached' /\ ReachedGrows
  BY <1>1, <1>2, TierIsSet
<1> QED BY <1>1, <1>2, <1>3, <1>4, <1>5, KycGoes

LEMMA KycMoves ==
  ASSUME GuestsInv, NEW c \in KycCall, KycStep(c), ~KycArrive(c), UNCHANGED <<openingVars, eventVars>>
  PROVE  KycMove(c)
<1>1. CASE KycReads(c)
  BY <1>1, KycReadsGo
<1>2. CASE Throw(c) /\ at[c] \in KycPlaces
  <2>1. "done" \in KycPlaces \cup Ends
    BY DEF Ends
  <2> QED BY <1>2, <2>1, KycPlain
<1>3. CASE InsertCustomer(c)
  BY <1>2, <1>3, InsertsCustomer DEF InsertCustomer, KycPlaces
<1>4. CASE Ask(c)
  BY <1>2, <1>4, Asks DEF Ask, KycPlaces
<1>5. CASE Store(c) \/ ReadOther(c) \/ WriteTier(c)
  BY <1>5, Stores, ReadsOther, WritesTier
<1> QED BY <1>1, <1>3, <1>4, <1>5 DEF KycStep, KycReads

(***************************************************************************)
(* The theorems about roles, events and wallets.                           *)
(***************************************************************************)
LEMMA GuestsStep ==
  ASSUME GuestsInv, [Next]_vars
  PROVE  GuestsInv'
<1> USE CallsAre
<1>1. ASSUME NEW c \in KycCall, KycStep(c), UNCHANGED <<openingVars, eventVars>> PROVE GuestsInv'
  BY <1>1, KycArrives, KycMoves DEF KycMove
<1>2. CASE OpeningStep /\ UNCHANGED <<kycVars, eventVars>>
  BY <1>2, OpeningSteps
<1>3. CASE EventStep /\ UNCHANGED <<kycVars, openingVars>>
  BY <1>3, EventSteps
<1>4. CASE (Fail \/ Crash) /\ UNCHANGED <<customerVars, kycVars, openingVars, eventVars>>
  <2>1. PICK dead \in SUBSET InFlight : Lose(dead)
    BY <1>4 DEF Fail, Crash
  <2>2. ServerTypeOK /\ KycCall \in SUBSET Calls /\ OpeningCall \in SUBSET Calls /\ EventCall \in SUBSET Calls
    BY DEF GuestsInv, CustomersTypeOK
  <2>3. ServerTypeOK' /\ OneAtATime' /\ CallsStand(KycCall) /\ CallsStand(OpeningCall) /\ CallsStand(EventCall)
    BY <2>1, <2>2, LoseServer, LoseInTurn, LoseStands DEF GuestsInv
  <2>4. CustomersTypeOK' /\ TiersAreReached' /\ ReachedGrows
    BY <1>4, <2>3 DEF GuestsInv, CustomersTypeOK, TiersAreReached, ReachedGrows, Tiers, NoCustomer
  <2>5. reached' \in [Users -> Tiers \cup {NoCustomer}]
    BY <2>4 DEF CustomersTypeOK
  <2> QED BY <1>4, <2>3, <2>4, <2>5, KycTypesStand, OpeningsStand, EventsStand DEF GuestsInv
<1>5. CASE UNCHANGED vars
  <2>1. UNCHANGED <<at, callVars>>
    BY <1>5
  <2>2. ServerTypeOK' /\ OneAtATime' /\ InFlight' = InFlight
    BY <2>1 DEF GuestsInv, CustomersTypeOK, ServerTypeOK, OneAtATime, InFlight, callVars
  <2>3. CallsStand(KycCall) /\ CallsStand(OpeningCall) /\ CallsStand(EventCall)
    BY <2>1 DEF CallsStand, callVars
  <2>4. CustomersTypeOK' /\ TiersAreReached' /\ ReachedGrows
    BY <1>5, <2>2 DEF GuestsInv, CustomersTypeOK, TiersAreReached, ReachedGrows, Tiers, NoCustomer
  <2>5. reached' \in [Users -> Tiers \cup {NoCustomer}]
    BY <2>4 DEF CustomersTypeOK
  <2> QED BY <1>5, <2>2, <2>3, <2>4, <2>5, KycTypesStand, OpeningsStand, EventsStand DEF GuestsInv
<1> QED BY <1>1, <1>2, <1>3, <1>4, <1>5 DEF Next

\* The types and what follows from where the calls stand hold in every state.
THEOREM InductiveInvariant == Spec => []GuestsInv
<1>1. GuestsInv /\ [Next]_vars => GuestsInv'
  BY GuestsStep
<1> QED BY <1>1, InitGuests, PTL DEF Spec

\* Customers, checks, wallets, events and calls have their types.
THEOREM TypeCorrect == Spec => []TypeOK
<1>1. GuestsInv => TypeOK
  BY DEF GuestsInv, OpeningsInv, EventsInv, TypeOK
<1> QED BY <1>1, InductiveInvariant, PTL

\* The tier is read some awaits before the role is written, and the tier may fall in between: whoever
\* has the role has been at Tier_2 (events.service.ts:37-56, :551-658).
THEOREM RolesAreEarned == Spec => []RolesWereEarned
<1>1. GuestsInv => RolesWereEarned
  BY DEF GuestsInv, EventsInv, EventFits, RolesWereEarned, Seated
<1> QED BY <1>1, InductiveInvariant, PTL

\* Whoever joins, leaves or removes the event meanwhile, the host keeps a seat in it, and no seat is
\* left without its event (events.service.ts:60-272, :527-688).
THEOREM EventsStayWhole == Spec => []EventsHoldTogether
<1>1. GuestsInv => EventsHoldTogether
  <2> SUFFICES ASSUME GuestsInv, NEW e \in Named
               PROVE  /\ (event[e] /= NoEvent /\ (e = Standing \/ at[e] = "done")) => event[e].host \in Seated(e)
                      /\ event[e] = NoEvent => Seated(e) = {}
    BY DEF EventsHoldTogether
  <2>1. EventFits(e) /\ (event[e] /= NoEvent => event[e].host \in Users)
    BY EventRowsAre
  <2> QED BY <2>1 DEF EventFits, Seated
<1> QED BY <1>1, InductiveInvariant, PTL

\* A wallet row that is linked stands for one the provider holds, and one that is not is empty and will
\* be deleted unless its call is lost (walletmodule.service.ts:42-145, :179-241).
THEOREM WalletsAreBacked == Spec => []WalletsAreTheProviders
<1>1. GuestsInv => WalletsAreTheProviders
  BY DEF GuestsInv, OpeningsInv, OpenerFits, WalletsAreTheProviders
<1> QED BY <1>1, InductiveInvariant, PTL

(***************************************************************************)
(* What holds of the checks, whatever tier customers are created with.     *)
(***************************************************************************)
\* From where a check stands it follows what it has found.
CheckFits(c) ==
  /\ at[c] \in {"idle", "find"} => local[c].kind = "nin"
  /\ at[c] \in {"reread", "ask", "store", "readOther", "writeTier", "refresh", "checkTier", "enquire"} => Known(User(c))
  /\ at[c] \in {"ask", "store", "writeTier"} /\ local[c].kind = "address" =>
       /\ given[User(c)] >= 1 \/ <<User(c), "nin">> \in vouched \/ <<User(c), "bvn">> \in vouched
       /\ given[User(c)] >= 2 \/ HasBoth(User(c))
  /\ at[c] \in {"store", "readOther", "writeTier"} /\ local[c].verdict = "verified" =>
       <<User(c), local[c].kind>> \in vouched
  /\ at[c] = "store" => local[c].verdict /= "none"
  /\ at[c] = "readOther" => local[c].kind /= "address" /\ local[c].verdict = "verified" /\ Has(User(c), local[c].kind)
  /\ at[c] = "writeTier" =>
       /\ local[c].verdict = "verified"
       /\ IF local[c].kind = "address" THEN local[c].tier = 3
          ELSE local[c].tier \in {1, 2} /\ (local[c].tier = 2 => HasBoth(User(c)))

\* A check that came when both rows were there finds the other one, and writes Tier_2.
CameFits(c) ==
  at[c] \in KycPlaces /\ local[c].hadBoth =>
    /\ HasBoth(User(c))
    /\ at[c] = "writeTier" /\ local[c].kind /= "address" => local[c].tier = 2

\* A customer's rows and tier go together.
CustomerFits(u) ==
  /\ \A k \in Kinds : Has(u, k) => Known(u)
  /\ tier[u] >= 1 => given[u] >= 1 \/ <<u, "nin">> \in vouched \/ <<u, "bvn">> \in vouched
  /\ tier[u] >= 2 => given[u] >= 2 \/ HasBoth(u)
  /\ tier[u] = 3 => given[u] = 3 \/ <<u, "address">> \in vouched

\* In turn, a check that has found no other row is right about it when it writes.
AloneFits(c) ==
  at[c] = "writeTier" /\ local[c].kind /= "address" /\ local[c].tier = 1 => ~Has(User(c), Other(local[c].kind))

\* The second of two verified checks is about to make it Tier_2.
Rising(u) ==
  \E c \in KycCall :
    /\ at[c] \in {"readOther", "writeTier"} /\ User(c) = u /\ local[c].kind /= "address"
    /\ at[c] = "writeTier" => local[c].tier = 2
BothVerified(u) == row[u]["nin"] = "verified" /\ row[u]["bvn"] = "verified"

ChecksInv ==
  /\ \A c \in KycCall : CheckFits(c) /\ CameFits(c)
  /\ \A u \in Users : CustomerFits(u)
  /\ ~overlapped => \A c \in KycCall : AloneFits(c)
  /\ (~overlapped /\ faults = 0) => \A u \in Users : BothVerified(u) => tier[u] >= 2 \/ Rising(u)

\* Customers stay, rows stay, and what the provider has found stays found.
ChecksGrow ==
  /\ \A u \in Users : Known(u) => Known(u)' /\ given'[u] = given[u]
  /\ \A u \in Users : \A k \in Kinds : Has(u, k) => Has(u, k)'
  /\ vouched \subseteq vouched'

LEMMA CheckKept ==
  ASSUME GuestsInv, ChecksInv, ChecksGrow, NEW d \in KycCall,
         request'[d] = request[d], at'[d] = at[d] \/ at'[d] = "lost", local'[d] = local[d]
  PROVE  CheckFits(d)'
<1>1. CheckFits(d) /\ User(d)' = User(d)
  BY DEF ChecksInv, User
<1>2. CASE at'[d] = "lost"
  BY <1>2 DEF CheckFits
<1>3. CASE at'[d] = at[d] /\ at[d] /= "idle"
  <2>1. User(d) \in Users /\ local[d].kind \in Kinds /\ "nin" \in Kinds /\ "bvn" \in Kinds
    BY <1>3, KycCallIs DEF Kinds
  <2>2. PICK u \in Users : User(d) = u
    BY <2>1
  <2>3. User(d)' = u /\ (Known(u) => Known(u)' /\ given'[u] = given[u]) /\ (Has(u, "nin") => Has(u, "nin")') /\ (Has(u, "bvn") => Has(u, "bvn")')
        /\ (Has(u, local[d].kind) => (row[u][local[d].kind] /= "none")')
    BY <1>1, <2>1, <2>2 DEF ChecksGrow, Has
  <2>4. CheckFits(d)
    BY <1>1
  <2>5. /\ (at[d] \in {"reread", "ask", "store", "readOther", "writeTier", "refresh", "checkTier", "enquire"} => Known(u))
        /\ at[d] = "readOther" => Has(u, local[d].kind)
    BY <2>2, <2>4 DEF CheckFits
  <2>6. \A k : <<u, k>> \in vouched => <<u, k>> \in vouched'
    BY DEF ChecksGrow
  <2>7. Known(u) => given'[User(d)'] = given[User(d)]
    BY <2>2, <2>3
  <2> QED BY <1>3, <2>2, <2>3, <2>4, <2>5, <2>6, <2>7 DEF CheckFits, HasBoth, Has
<1>4. CASE at'[d] = at[d] /\ at[d] = "idle"
  BY <1>1, <1>4 DEF CheckFits
<1> QED BY <1>2, <1>3, <1>4

LEMMA CameKept ==
  ASSUME GuestsInv, ChecksInv, ChecksGrow, NEW d \in KycCall, request'[d] = request[d],
         at[d] = "idle" => at'[d] = "idle", local'[d].hadBoth => local[d].hadBoth,
         at'[d] = "writeTier" => \/ at[d] = "writeTier" /\ local'[d] = local[d]
                                 \/ local'[d].kind = "address" \/ local'[d].tier = 2 \/ ~local[d].hadBoth,
         at'[d] \in KycPlaces => at[d] \in KycPlaces
  PROVE  CameFits(d)'
<1>1. CASE at'[d] \in KycPlaces /\ local'[d].hadBoth
  <2>1. at[d] \in KycPlaces /\ local[d].hadBoth /\ CameFits(d) /\ User(d)' = User(d)
    BY <1>1 DEF ChecksInv, User
  <2>2. HasBoth(User(d)) /\ User(d) \in Users
    BY <2>1, KycCallIs DEF CameFits, KycPlaces
  <2>3. HasBoth(User(d))'
    <3>1. PICK u \in Users : u = User(d)
      BY <2>2
    <3>2. Has(u, "nin")' /\ Has(u, "bvn")'
      BY <2>2, <3>1 DEF ChecksGrow, HasBoth, Kinds
    <3> QED BY <2>1, <3>1, <3>2 DEF HasBoth, Has
  <2> QED BY <2>1, <2>3 DEF CameFits
<1>2. CASE ~(at'[d] \in KycPlaces /\ local'[d].hadBoth)
  BY <1>2 DEF CameFits
<1> QED BY <1>1, <1>2

LEMMA AloneInTurn ==
  ASSUME GuestsInv, ~overlapped, NEW c \in KycCall, at[c] \in KycPlaces
  PROVE  /\ \A d \in KycCall : d /= c => at[d] \notin {"readOther", "writeTier"}
         /\ \A u : Rising(u) => /\ at[c] \in {"readOther", "writeTier"} /\ User(c) = u /\ local[c].kind /= "address"
                                /\ at[c] = "writeTier" => local[c].tier = 2
<1>1. c \in InFlight /\ OneAtATime
  BY CallsAre DEF GuestsInv, InFlight, KycPlaces, Ends
<1>2. ASSUME NEW d \in KycCall, d /= c, at[d] \in {"readOther", "writeTier"} PROVE FALSE
  <2>1. d \in InFlight
    BY <1>2, CallsAre DEF InFlight, Ends
  <2> QED BY <1>1, <1>2, <2>1 DEF OneAtATime
<1> QED BY <1>2 DEF Rising

\* What is left to show when check c has moved.
LEMMA ChecksRest ==
  ASSUME GuestsInv, ChecksInv, ChecksGrow, NEW c \in KycCall, KycMove(c),
         CheckFits(c)', \A u \in Users : CustomerFits(u)', ~overlapped => AloneFits(c)',
         at'[c] = "writeTier" => local'[c].kind = "address" \/ local'[c].tier = 2 \/ ~local[c].hadBoth,
         (~overlapped /\ faults = 0) => \A u \in Users : BothVerified(u)' => tier'[u] >= 2 \/ Rising(u)'
  PROVE  ChecksInv'
<1>1. UNCHANGED callVars /\ (\A d \in Calls : d /= c => at'[d] = at[d]) /\ (\A d \in KycCall : d /= c => local'[d] = local[d])
  BY DEF KycMove
<1>2. request' = request /\ overlapped' = overlapped /\ faults' = faults
  BY <1>1 DEF callVars
<1>3. ASSUME NEW d \in KycCall PROVE CheckFits(d)' /\ CameFits(d)'
  <2>1. CASE d = c
    <3>1. at[c] \in KycPlaces /\ at[c] /= "idle" /\ (local'[c].hadBoth => local[c].hadBoth)
      BY DEF KycMove, KycPlaces
    <3> QED BY <1>2, <2>1, <3>1, CameKept
  <2>2. CASE d /= c
    <3>1. at'[d] = at[d] /\ local'[d] = local[d] /\ request'[d] = request[d]
      BY <1>1, <1>2, <2>2, CallsAre
    <3> QED BY <3>1, CheckKept, CameKept
  <2> QED BY <2>1, <2>2
<1>4. ASSUME ~overlapped, NEW d \in KycCall PROVE AloneFits(d)'
  <2>1. CASE d /= c
    <3>1. at[d] /= "writeTier"
      BY <1>4, <2>1, AloneInTurn DEF KycMove
    <3> QED BY <1>1, <2>1, <3>1, CallsAre DEF AloneFits
  <2> QED BY <1>4, <2>1
<1> QED BY <1>2, <1>3, <1>4 DEF ChecksInv

\* A step that writes neither tier nor row.
LEMMA ChecksRead ==
  ASSUME GuestsInv, ChecksInv, NEW c \in KycCall, KycMove(c), UNCHANGED <<customerVars, row, vouched, given>>,
         at[c] \notin {"readOther", "writeTier"}, at'[c] /= "writeTier", CheckFits(c)'
  PROVE  ChecksInv'
<1>1. ChecksGrow
  BY DEF ChecksGrow, Known, Has
<1>2. \A u \in Users : CustomerFits(u)'
  BY DEF ChecksInv, CustomerFits, Known, HasBoth, Has
<1>3. AloneFits(c)'
  BY DEF AloneFits
<1>4. ASSUME ~overlapped, faults = 0, NEW u \in Users, BothVerified(u)' PROVE tier'[u] >= 2
  <2>1. ~Rising(u)
    BY <1>4, AloneInTurn DEF KycMove
  <2>2. BothVerified(u)
    BY <1>4 DEF BothVerified
  <2> QED BY <1>4, <2>1, <2>2 DEF ChecksInv
<1> QED BY <1>1, <1>2, <1>3, <1>4, ChecksRest

LEMMA MovesTo ==
  ASSUME GuestsInv, NEW c \in KycCall, NEW place, Goto(c, place)
  PROVE  at'[c] = place /\ User(c)' = User(c)
BY GotoServer, CallsAre DEF GuestsInv, CustomersTypeOK, User

\* What a check has read when it goes on without a write of its own.
LEMMA ReadsFit ==
  ASSUME GuestsInv, ChecksInv, NEW c \in KycCall, UNCHANGED <<customerVars, row, vouched, given>>,
         \/ Throw(c) \/ Register(c) \/ Enquire(c)
         \/ Proceed(c, "readCustomer") \/ Proceed(c, "register")
         \/ Known(User(c)) /\ (Proceed(c, "checkTier") \/ Proceed(c, "enquire"))
         \/ Known(User(c)) /\ (Turn(c, "nin") \/ Turn(c, "bvn"))
         \/ at[c] /= "idle" /\ tier[User(c)] = 2 /\ Turn(c, "address")
         \/ Known(User(c)) /\ FindForBoth(c)
  PROVE  CheckFits(c)' /\ at'[c] \notin {"readOther", "writeTier"}
<1>1. /\ local \in [KycCall -> Locals] /\ local[c] \in Locals
  BY KycCallIs
<1>2. Known(User(c)) /\ User(c)' = User(c) => Known(User(c))'
  BY DEF Known
<1>3. CASE Throw(c) \/ Register(c) \/ Enquire(c) \/ Proceed(c, "readCustomer") \/ Proceed(c, "register")
  <2>1. \E place \in Ends \cup {"insertCustomer", "readCustomer", "register"} : Goto(c, place)
    BY <1>3 DEF Throw, Register, Enquire, Finish, Proceed, Ends
  <2>2. at'[c] \in Ends \cup {"insertCustomer", "readCustomer", "register"}
    BY <2>1, MovesTo
  <2> QED BY <2>2 DEF CheckFits, Ends
<1>4. CASE Known(User(c)) /\ (Proceed(c, "checkTier") \/ Proceed(c, "enquire"))
  <2>1. at'[c] \in {"checkTier", "enquire"} /\ User(c)' = User(c)
    BY <1>4, MovesTo DEF Proceed
  <2> QED BY <1>2, <1>4, <2>1 DEF CheckFits
<1>5. ASSUME Known(User(c)), NEW kind \in {"nin", "bvn"}, Turn(c, kind) PROVE CheckFits(c)' /\ at'[c] = "ask"
  <2>1. at'[c] = "ask" /\ User(c)' = User(c)
    BY <1>5, MovesTo DEF Turn
  <2>2. local'[c].kind = kind
    BY <1>1, <1>5 DEF Turn, Locals
  <2> QED BY <1>2, <1>5, <2>1, <2>2 DEF CheckFits
<1>6. CASE at[c] /= "idle" /\ tier[User(c)] = 2 /\ Turn(c, "address")
  <2>1. at'[c] = "ask" /\ User(c)' = User(c)
    BY <1>6, MovesTo DEF Turn
  <2>2. CustomerFits(User(c))
    BY <1>6, KycCallIs DEF ChecksInv
  <2>3. /\ given[User(c)] >= 1 \/ <<User(c), "nin">> \in vouched \/ <<User(c), "bvn">> \in vouched
        /\ given[User(c)] >= 2 \/ HasBoth(User(c))
        /\ Known(User(c))
    BY <1>6, <2>2 DEF CustomerFits, Known, NoCustomer
  <2>4. (HasBoth(User(c)) => HasBoth(User(c))') /\ Known(User(c))' /\ given'[User(c)'] = given[User(c)]
    BY <2>1, <2>3 DEF HasBoth, Has, Known
  <2> QED BY <2>1, <2>3, <2>4 DEF CheckFits
<1>7. CASE Known(User(c)) /\ FindForBoth(c) /\ ~Throw(c)
  <2>1. PICK place \in {"refresh", "ask"} : Goto(c, place) /\ local' = [local EXCEPT ![c].addressed = Has(User(c), "address")]
    BY <1>7 DEF FindForBoth
  <2>2. at'[c] = place /\ User(c)' = User(c)
    BY <2>1, MovesTo
  <2>3. local[c].kind = "nin"
    BY <1>7 DEF FindForBoth, ChecksInv, CheckFits
  <2>4. local'[c].kind = "nin"
    BY <1>1, <2>1, <2>3 DEF Locals
  <2> QED BY <1>2, <1>7, <2>2, <2>4 DEF CheckFits
<1> QED BY <1>3, <1>4, <1>5, <1>6, <1>7

LEMMA ReadsKeepChecks ==
  ASSUME GuestsInv, ChecksInv, NEW c \in KycCall, KycReads(c), UNCHANGED <<openingVars, eventVars>>
  PROVE  ChecksInv'
<1>1. KycMove(c) /\ UNCHANGED <<customerVars, row, vouched, given>>
  BY KycReadsGo
<1>2. at[c] \notin {"idle", "readOther", "writeTier"}
  BY DEF KycReads, FindForCreation, FindForCheck, FindForBoth, ReadCustomer, Register, Reread, CheckTier,
         Refresh, Enquire
<1>3. CheckFits(c)
  BY DEF ChecksInv
<1>4. \/ Throw(c) \/ Register(c) \/ Enquire(c)
      \/ Proceed(c, "readCustomer") \/ Proceed(c, "register")
      \/ Known(User(c)) /\ (Proceed(c, "checkTier") \/ Proceed(c, "enquire"))
      \/ Known(User(c)) /\ (Turn(c, "nin") \/ Turn(c, "bvn"))
      \/ at[c] /= "idle" /\ tier[User(c)] = 2 /\ Turn(c, "address")
      \/ Known(User(c)) /\ FindForBoth(c)
  <2>1. CASE FindForCreation(c) \/ FindForCheck(c) \/ ReadCustomer(c) \/ Register(c) \/ Enquire(c)
    BY <2>1 DEF FindForCreation, FindForCheck, ReadCustomer, TurnToBvn
  <2>2. CASE FindForBoth(c)
    BY <2>2 DEF FindForBoth
  <2>3. CASE Reread(c)
    <3>1. Known(User(c))
      BY <1>3, <2>3 DEF Reread, CheckFits
    <3> QED BY <2>3, <3>1 DEF Reread, TurnToBvn
  <2>4. CASE CheckTier(c)
    BY <1>2, <2>4 DEF CheckTier
  <2>5. CASE Refresh(c)
    <3>1. Known(User(c))
      BY <1>3, <2>5 DEF Refresh, CheckFits
    <3> QED BY <2>5, <3>1 DEF Refresh
  <2> QED BY <2>1, <2>2, <2>3, <2>4, <2>5 DEF KycReads
<1>5. CheckFits(c)' /\ at'[c] \notin {"readOther", "writeTier"}
  BY <1>1, <1>4, ReadsFit
<1> QED BY <1>1, <1>2, <1>5, ChecksRead

LEMMA ThrowKeepsChecks ==
  ASSUME GuestsInv, ChecksInv, NEW c \in KycCall, Throw(c), at[c] \in {"insertCustomer", "ask"},
         UNCHANGED <<openingVars, eventVars>>
  PROVE  ChecksInv'
<1>1. at[c] \in KycPlaces /\ "done" \in KycPlaces \cup Ends
  BY DEF KycPlaces, Ends
<1>2. KycMove(c) /\ UNCHANGED <<customerVars, row, vouched, given>>
  BY <1>1, KycPlain
<1>3. CheckFits(c)' /\ at'[c] \notin {"readOther", "writeTier"}
  BY <1>2, ReadsFit
<1> QED BY <1>2, <1>3, ChecksRead

LEMMA InsertKeepsChecks ==
  ASSUME GuestsInv, ChecksInv, NEW c \in KycCall, InsertCustomer(c), ~Throw(c),
         UNCHANGED <<openingVars, eventVars>>
  PROVE  ChecksInv' /\ \A w \in Users : tier[w] >= 2 => tier'[w] = tier[w]
<1>1. KycMove(c) /\ at[c] = "insertCustomer" /\ User(c) \in Users /\ request[c].tier \in Tiers
  BY InsertsCustomer, KycCallIs DEF InsertCustomer
<1>2. PICK u \in Users, n \in Tiers : u = User(c) /\ n = request[c].tier
  BY <1>1
<1>3. /\ SetTier(u, n) /\ given' = [given EXCEPT ![u] = n] /\ Goto(c, AfterInsert(c))
      /\ UNCHANGED <<row, vouched, registered, local>> /\ ~Known(u)
  BY <1>2 DEF InsertCustomer
<1>4. tier'[u] = n /\ given'[u] = n /\ \A v \in Users : v /= u => tier'[v] = tier[v] /\ given'[v] = given[v]
  BY <1>3, TierIsSet, KycCallIs
<1>5. Known(u)'
  BY <1>4 DEF Known, Tiers, NoCustomer
<1>6. ChecksGrow
  <2>1. \A v \in Users : Known(v) => Known(v)' /\ given'[v] = given[v]
    BY <1>3, <1>4 DEF Known
  <2> QED BY <1>3, <2>1 DEF ChecksGrow, Has
<1>7. at'[c] \in {"done", "reread"} /\ User(c)' = u
  BY <1>2, <1>3, MovesTo DEF AfterInsert
<1>8. CheckFits(c)'
  BY <1>5, <1>7 DEF CheckFits
<1>9. ASSUME NEW v \in Users PROVE CustomerFits(v)'
  <2>1. CustomerFits(v)
    BY DEF ChecksInv
  <2>2. CASE v = u
    BY <1>4, <1>5, <2>2 DEF CustomerFits
  <2>3. CASE v /= u
    BY <1>3, <1>4, <2>1, <2>3 DEF CustomerFits, Known, HasBoth, Has
  <2> QED BY <2>2, <2>3
<1>10. AloneFits(c)'
  BY <1>7 DEF AloneFits
<1>11. ASSUME ~overlapped, faults = 0, NEW v \in Users, BothVerified(v)' PROVE tier'[v] >= 2
  <2>1. BothVerified(v) /\ ~Rising(v)
    BY <1>1, <1>3, <1>11, AloneInTurn DEF KycMove, BothVerified
  <2>2. tier[v] >= 2
    BY <1>11, <2>1 DEF ChecksInv
  <2>3. v /= u
    BY <1>3, <2>2 DEF Known, NoCustomer
  <2> QED BY <1>4, <2>2, <2>3
<1>12. \A w \in Users : tier[w] >= 2 => tier'[w] = tier[w]
  BY <1>3, <1>4 DEF Known, NoCustomer
<1>13. ChecksInv'
  BY <1>1, <1>6, <1>7, <1>8, <1>9, <1>10, <1>11, ChecksRest
<1> QED BY <1>12, <1>13

LEMMA AskKeepsChecks ==
  ASSUME GuestsInv, ChecksInv, NEW c \in KycCall, Ask(c), ~Throw(c), UNCHANGED <<openingVars, eventVars>>
  PROVE  ChecksInv'
<1>1. KycMove(c) /\ at[c] = "ask" /\ User(c) \in Users
  BY Asks, KycCallIs DEF Ask
<1>2. PICK v \in {"verified", "unverified"} :
        /\ vouched' = IF v = "verified" THEN vouched \cup {<<User(c), local[c].kind>>} ELSE vouched
        /\ \/ Goto(c, "store") /\ local' = [local EXCEPT ![c].verdict = v]
           \/ Finish(c, "failed")
        /\ UNCHANGED <<customerVars, row, given, registered>>
  BY DEF Ask
<1>3. ChecksGrow
  BY <1>2 DEF ChecksGrow, Known, Has
<1>4. ASSUME NEW w \in Users PROVE CustomerFits(w)'
  <2>1. CustomerFits(w)
    BY DEF ChecksInv
  <2> QED BY <1>2, <2>1 DEF CustomerFits, Known, HasBoth, Has
<1>5. at'[c] \in {"store", "failed"} /\ User(c)' = User(c)
  BY <1>2, MovesTo DEF Finish
<1>6. CheckFits(c)'
  <2>1. CASE Finish(c, "failed")
    <3>1. at'[c] = "failed"
      BY <2>1, MovesTo DEF Finish
    <3> QED BY <3>1 DEF CheckFits
  <2>2. CASE Goto(c, "store") /\ local' = [local EXCEPT ![c].verdict = v]
    <3>1. local'[c].kind = local[c].kind /\ local'[c].verdict = v /\ v /= "none"
      BY <2>2, KycCallIs DEF Locals
    <3>2. CheckFits(c)
      BY DEF ChecksInv
    <3>3. /\ Known(User(c))
          /\ local[c].kind = "address" =>
               /\ given[User(c)] >= 1 \/ <<User(c), "nin">> \in vouched \/ <<User(c), "bvn">> \in vouched
               /\ given[User(c)] >= 2 \/ HasBoth(User(c))
      BY <1>1, <3>2 DEF CheckFits
    <3>4. Known(User(c))' /\ (HasBoth(User(c)) => HasBoth(User(c))') /\ given'[User(c)'] = given[User(c)]
      BY <1>2, <1>5, <3>3 DEF Known, HasBoth, Has
    <3>5. at'[c] = "store"
      BY <2>2, MovesTo
    <3> QED BY <1>2, <1>5, <3>1, <3>3, <3>4, <3>5 DEF CheckFits
  <2> QED BY <1>2, <2>1, <2>2
<1>7. AloneFits(c)'
  BY <1>5 DEF AloneFits
<1>8. ASSUME ~overlapped, faults = 0, NEW w \in Users, BothVerified(w)' PROVE tier'[w] >= 2
  <2>1. BothVerified(w) /\ ~Rising(w)
    BY <1>1, <1>2, <1>8, AloneInTurn DEF KycMove, BothVerified
  <2> QED BY <1>2, <1>8, <2>1 DEF ChecksInv
<1> QED BY <1>1, <1>3, <1>4, <1>5, <1>6, <1>7, <1>8, ChecksRest

LEMMA StoreKeepsChecks ==
  ASSUME GuestsInv, ChecksInv, NEW c \in KycCall, Store(c), UNCHANGED <<openingVars, eventVars>>
  PROVE  ChecksInv'
<1>1. KycMove(c) /\ at[c] = "store" /\ User(c) \in Users /\ StoreRow(c) /\ UNCHANGED <<customerVars, vouched, given, registered>>
  BY Stores, KycCallIs DEF Store
<1>2. /\ row \in [Users -> [Kinds -> States]] /\ local \in [KycCall -> Locals]
      /\ local[c] \in Locals /\ local[c].kind \in Kinds /\ local[c].verdict \in States
  BY KycCallIs
<1>3. PICK u \in Users, k \in Kinds, v \in States : u = User(c) /\ k = local[c].kind /\ v = local[c].verdict
  BY <1>1, <1>2
<1>4. row'[u][k] = v
      /\ \A w \in Users : \A h \in Kinds : w /= u \/ h /= k => row'[w][h] = row[w][h]
  BY <1>1, <1>2, <1>3 DEF StoreRow
<1>5. CheckFits(c)
  BY DEF ChecksInv
<1>6. /\ Known(u) /\ v /= "none" /\ (v = "verified" => <<u, k>> \in vouched)
      /\ k = "address" => /\ given[u] >= 1 \/ <<u, "nin">> \in vouched \/ <<u, "bvn">> \in vouched
                          /\ given[u] >= 2 \/ HasBoth(u)
  BY <1>1, <1>3, <1>5 DEF CheckFits
<1>7. \A w \in Users : Known(w)' <=> Known(w)
  BY <1>1 DEF Known
<1>8. \A w \in Users : \A h \in Kinds : (Has(w, h) => Has(w, h)') /\ (Has(w, h)' => Has(w, h) \/ w = u)
  BY <1>4, <1>6 DEF Has
<1>9. ChecksGrow
  BY <1>1, <1>7, <1>8 DEF ChecksGrow
<1>10. ASSUME NEW w \in Users PROVE CustomerFits(w)'
  <2>1. CustomerFits(w) /\ "nin" \in Kinds /\ "bvn" \in Kinds
    BY DEF ChecksInv, Kinds
  <2>2. HasBoth(w) => HasBoth(w)'
    BY <1>8, <2>1 DEF HasBoth
  <2> QED BY <1>1, <1>6, <1>7, <1>8, <2>1, <2>2 DEF CustomerFits
<1>11. User(c)' = u
  <2>1. request' = request
    BY <1>1 DEF KycMove, callVars
  <2> QED BY <1>3, <2>1 DEF User
<1>12. \/ at'[c] \in {"done", "refresh", "enquire"} /\ v /= "verified"
       \/ at'[c] = "writeTier" /\ v = "verified" /\ k = "address" /\ local' = [local EXCEPT ![c].tier = 3]
       \/ at'[c] = "readOther" /\ v = "verified" /\ k /= "address" /\ local' = local
  <2>1. CASE Leave(c) /\ v /= "verified"
    <3>1. PICK place \in {"done", "refresh", "enquire"} : Goto(c, place)
      BY <1>2, <2>1, KycLeaves
    <3> QED BY <2>1, <3>1, MovesTo
  <2>2. CASE v = "verified" /\ k = "address" /\ Goto(c, "writeTier") /\ local' = [local EXCEPT ![c].tier = 3]
    BY <2>2, MovesTo
  <2>3. CASE v = "verified" /\ k /= "address" /\ Goto(c, "readOther") /\ UNCHANGED local
    BY <2>3, MovesTo
  <2> QED BY <1>3, <2>1, <2>2, <2>3 DEF Store
<1>13. CheckFits(c)'
  <2>1. Known(User(c))'
    BY <1>6, <1>7, <1>11
  <2>2. CASE at'[c] \in {"done", "refresh", "enquire"} /\ v /= "verified"
    BY <2>1, <2>2 DEF CheckFits
  <2>3. CASE at'[c] = "writeTier" /\ v = "verified" /\ k = "address" /\ local' = [local EXCEPT ![c].tier = 3]
    <3>1. local'[c].kind = "address" /\ local'[c].verdict = "verified" /\ local'[c].tier = 3
      BY <1>2, <1>3, <2>3 DEF Locals
    <3>2. HasBoth(u) => HasBoth(u)'
      BY <1>8 DEF HasBoth, Kinds
    <3>3. (HasBoth(u) => HasBoth(User(c))') /\ given'[User(c)'] = given[u]
      BY <1>1, <1>11, <3>2 DEF HasBoth, Has
    <3> QED BY <1>1, <1>6, <1>11, <2>1, <2>3, <3>1, <3>3 DEF CheckFits
  <2>4. CASE at'[c] = "readOther" /\ v = "verified" /\ k /= "address" /\ local' = local
    <3>1. Has(User(c), local[c].kind)'
      BY <1>3, <1>4, <1>6, <1>11, <2>4 DEF Has
    <3> QED BY <1>1, <1>3, <1>6, <1>11, <2>1, <2>4, <3>1 DEF CheckFits
  <2> QED BY <1>12, <2>2, <2>3, <2>4
<1>14. AloneFits(c)' /\ (at'[c] = "writeTier" => local'[c].kind = "address")
  <2>1. at'[c] = "writeTier" => local'[c].kind = "address"
    BY <1>2, <1>3, <1>12 DEF Locals
  <2> QED BY <2>1 DEF AloneFits
<1>15. ASSUME ~overlapped, faults = 0, NEW w \in Users, BothVerified(w)' PROVE tier'[w] >= 2 \/ Rising(w)'
  <2>1. ~Rising(w)
    BY <1>1, <1>15, AloneInTurn DEF KycMove
  <2>2. BothVerified(w) => tier[w] >= 2
    BY <1>15, <2>1 DEF ChecksInv
  <2>3. CASE at'[c] = "readOther" /\ w = u
    BY <1>3, <1>11, <1>12, <2>3 DEF Rising
  <2>4. CASE ~(at'[c] = "readOther" /\ w = u)
    <3>1. w /= u \/ k = "address"
      BY <1>4, <1>12, <1>15, <2>4 DEF BothVerified, Kinds
    <3>2. BothVerified(w)
      BY <1>4, <1>15, <3>1 DEF BothVerified, Kinds
    <3> QED BY <1>1, <2>2, <3>2
  <2> QED BY <2>3, <2>4
<1> QED BY <1>1, <1>9, <1>10, <1>13, <1>14, <1>15, ChecksRest

LEMMA ReadOtherKeepsChecks ==
  ASSUME GuestsInv, ChecksInv, NEW c \in KycCall, ReadOther(c), UNCHANGED <<openingVars, eventVars>>
  PROVE  ChecksInv'
<1>1. /\ KycMove(c) /\ at[c] = "readOther" /\ User(c) \in Users /\ Goto(c, "writeTier")
      /\ local' = [local EXCEPT ![c].tier = NewTier(c)] /\ UNCHANGED <<customerVars, row, vouched, given, registered>>
  BY ReadsOther, KycCallIs DEF ReadOther
<1>2. local'[c].kind = local[c].kind /\ local'[c].verdict = local[c].verdict /\ local'[c].tier = NewTier(c)
      /\ local[c].kind \in Kinds
  BY <1>1, KycCallIs DEF Locals
<1>3. PICK u \in Users, k \in Kinds : u = User(c) /\ k = local[c].kind
  BY <1>1, <1>2
<1>4. CheckFits(c)
  BY DEF ChecksInv
<1>5. Known(u) /\ k /= "address" /\ local[c].verdict = "verified" /\ Has(u, k) /\ <<u, k>> \in vouched
  BY <1>1, <1>3, <1>4 DEF CheckFits
<1>6. at'[c] = "writeTier" /\ User(c)' = u
  BY <1>1, <1>3, MovesTo
<1>7. /\ NewTier(c) \in {1, 2}
      /\ NewTier(c) = 2 <=> Has(u, Other(k))
      /\ (Has(u, k) /\ Has(u, Other(k))) <=> HasBoth(u)
  BY <1>3, <1>5 DEF NewTier, Other, Kinds, HasBoth
<1>8. ChecksGrow
  BY <1>1 DEF ChecksGrow, Known, Has
<1>9. \A w \in Users : CustomerFits(w)'
  BY <1>1 DEF ChecksInv, CustomerFits, Known, HasBoth, Has
<1>10. Known(User(c))' /\ (HasBoth(User(c))' <=> HasBoth(u)) /\ \A h : Has(User(c), h)' <=> Has(u, h)
  BY <1>1, <1>5, <1>6 DEF Known, HasBoth, Has
<1>11. CheckFits(c)'
  BY <1>1, <1>2, <1>3, <1>5, <1>6, <1>7, <1>10 DEF CheckFits
<1>12. AloneFits(c)'
  <2>1. NewTier(c) = 1 => ~Has(u, Other(k))
    BY <1>7
  <2> QED BY <1>1, <1>2, <1>3, <1>6, <2>1 DEF AloneFits, Has, Other
<1>13. ASSUME ~overlapped, faults = 0, NEW w \in Users, BothVerified(w)' PROVE tier'[w] >= 2 \/ Rising(w)'
  <2>1. BothVerified(w)
    BY <1>1, <1>13 DEF BothVerified
  <2>2. tier[w] >= 2 \/ Rising(w)
    BY <1>13, <2>1 DEF ChecksInv
  <2>3. CASE Rising(w)
    <3>1. w = u
      BY <1>1, <1>3, <1>13, <2>3, AloneInTurn DEF KycMove
    <3>2. HasBoth(u)
      BY <2>1, <3>1 DEF BothVerified, HasBoth, Has
    <3> QED BY <1>2, <1>3, <1>5, <1>6, <1>7, <3>1, <3>2 DEF Rising
  <2> QED BY <1>1, <2>2, <2>3
<1>14. local'[c].tier = 2 \/ ~local[c].hadBoth
  <2>1. local[c].hadBoth => HasBoth(u)
    BY <1>1, <1>3 DEF ChecksInv, CameFits, KycPlaces
  <2> QED BY <1>2, <1>5, <1>7, <2>1
<1> QED BY <1>1, <1>8, <1>9, <1>11, <1>12, <1>13, <1>14, ChecksRest

\* A check that takes Tier_2 away came before both rows were there.
LEMMA WriteKeepsChecks ==
  ASSUME GuestsInv, ChecksInv, NEW c \in KycCall, WriteTier(c), UNCHANGED <<openingVars, eventVars>>
  PROVE  /\ ChecksInv'
         /\ \A w \in Users : tier[w] >= 2 /\ tier'[w] < 2 =>
               at[c] = "writeTier" /\ at'[c] /= at[c] /\ User(c) = w /\ ~local[c].hadBoth
<1>1. /\ KycMove(c) /\ at[c] = "writeTier" /\ User(c) \in Users /\ SetTier(User(c), local[c].tier) /\ Leave(c)
      /\ UNCHANGED <<row, vouched, given, registered>>
  BY WritesTier, KycCallIs DEF WriteTier
<1>2. PICK u \in Users, k \in Kinds, n \in Tiers : u = User(c) /\ k = local[c].kind /\ n = local[c].tier
  BY <1>1, KycCallIs
<1>3. tier'[u] = n /\ \A w \in Users : w /= u => tier'[w] = tier[w]
  BY <1>1, <1>2, TierIsSet
<1>4. CheckFits(c)
  BY DEF ChecksInv
<1>5. /\ <<u, k>> \in vouched
      /\ k = "address" => /\ given[u] >= 1 \/ <<u, "nin">> \in vouched \/ <<u, "bvn">> \in vouched
                          /\ given[u] >= 2 \/ HasBoth(u)
      /\ IF k = "address" THEN n = 3 ELSE n \in {1, 2} /\ (n = 2 => HasBoth(u))
  BY <1>1, <1>2, <1>4 DEF CheckFits
<1>6. Known(u)' /\ n >= 1
  BY <1>3, <1>5 DEF Known, NoCustomer
<1>7. ChecksGrow
  <2>1. \A w \in Users : Known(w) => Known(w)'
    BY <1>3, <1>6 DEF Known
  <2> QED BY <1>1, <2>1 DEF ChecksGrow, Has
<1>8. ASSUME NEW w \in Users PROVE CustomerFits(w)'
  <2>1. CustomerFits(w)
    BY DEF ChecksInv
  <2>2. CASE w = u
    <3>1. tier'[u] >= 1 => given[u] >= 1 \/ <<u, "nin">> \in vouched \/ <<u, "bvn">> \in vouched
      BY <1>5 DEF Kinds
    <3>2. tier'[u] >= 2 => given[u] >= 2 \/ HasBoth(u)
      BY <1>3, <1>5
    <3>3. tier'[u] = 3 => <<u, "address">> \in vouched
      BY <1>3, <1>5
    <3>4. (HasBoth(u)' <=> HasBoth(u)) /\ \A h : Has(u, h)' <=> Has(u, h)
      BY <1>1 DEF HasBoth, Has
    <3> QED BY <1>1, <1>6, <2>2, <3>1, <3>2, <3>3, <3>4 DEF CustomerFits
  <2>3. CASE w /= u
    BY <1>1, <1>3, <2>1, <2>3 DEF CustomerFits, Known, HasBoth, Has
  <2> QED BY <2>2, <2>3
<1>9. at'[c] \in {"done", "refresh", "enquire"}
  <2>1. local \in [KycCall -> Locals]
    BY KycCallIs
  <2>2. PICK place \in {"done", "refresh", "enquire"} : Goto(c, place)
    BY <1>1, <2>1, KycLeaves
  <2> QED BY <2>2, MovesTo
<1>10. User(c)' = u
  <2>1. request' = request
    BY <1>1 DEF KycMove, callVars
  <2> QED BY <1>2, <2>1 DEF User
<1>11. CheckFits(c)' /\ AloneFits(c)'
  BY <1>6, <1>9, <1>10 DEF CheckFits, AloneFits
<1>12. ASSUME ~overlapped, n = 1 PROVE ~Has(u, Other(k))
  <2>1. AloneFits(c)
    BY <1>12 DEF ChecksInv
  <2>2. k /= "address"
    BY <1>5, <1>12
  <2> QED BY <1>1, <1>2, <1>12, <2>1, <2>2 DEF AloneFits
<1>13. ~overlapped /\ HasBoth(u) => n >= 2
  BY <1>5, <1>12 DEF Other, HasBoth
<1>14. ASSUME ~overlapped, faults = 0, NEW w \in Users, BothVerified(w)' PROVE tier'[w] >= 2
  <2>1. BothVerified(w)
    BY <1>1, <1>14 DEF BothVerified
  <2>2. CASE w = u
    BY <1>3, <1>13, <1>14, <2>1, <2>2 DEF BothVerified, HasBoth, Has
  <2>3. CASE w /= u
    <3>1. ~Rising(w)
      BY <1>1, <1>2, <1>14, <2>3, AloneInTurn DEF KycMove
    <3> QED BY <1>3, <1>14, <2>1, <2>3, <3>1 DEF ChecksInv
  <2> QED BY <2>2, <2>3
<1>15. ASSUME NEW w \in Users, tier[w] >= 2, tier'[w] < 2
       PROVE  at[c] = "writeTier" /\ at'[c] /= at[c] /\ User(c) = w /\ ~local[c].hadBoth
  <2>1. w = u
    <3>1. tier[w] \in Int
      BY KycCallIs DEF Tiers, NoCustomer
    <3> QED BY <1>3, <1>15, <3>1
  <2>2. k /= "address" /\ local[c].tier /= 2
    BY <1>2, <1>3, <1>5, <1>15, <2>1
  <2>3. ~local[c].hadBoth
    BY <1>1, <1>2, <2>2 DEF ChecksInv, CameFits, KycPlaces
  <2> QED BY <1>1, <1>2, <1>9, <2>1, <2>3
<1>16. ChecksInv'
  BY <1>1, <1>7, <1>8, <1>9, <1>11, <1>14, ChecksRest
<1> QED BY <1>15, <1>16

LEMMA ArrivalKeepsChecks ==
  ASSUME GuestsInv, ChecksInv, NEW c \in KycCall, KycArrive(c)
  PROVE  ChecksInv'
<1>1. /\ ServerTypeOK /\ c \in Calls /\ Enter(c, KycRequests, "find")
      /\ UNCHANGED <<customerVars, row, vouched, given, registered>>
      /\ local' = [local EXCEPT ![c].hadBoth = HasBoth(User(c)')]
  BY CallsAre DEF KycArrive, GuestsInv, CustomersTypeOK, User
<1>2. /\ at[c] = "idle" /\ at'[c] = "find" /\ faults' = faults
      /\ \A d \in Calls : d /= c => at'[d] = at[d] /\ request'[d] = request[d]
      /\ ~overlapped' => ~overlapped /\ InFlight = {}
  BY <1>1, EnterServer
<1>3. ChecksGrow
  BY <1>1 DEF ChecksGrow, Known, Has
<1>4. ASSUME NEW d \in KycCall PROVE CheckFits(d)' /\ CameFits(d)'
  <2>1. CASE d = c
    <3>1. local[c].kind = "nin"
      BY <1>2 DEF ChecksInv, CheckFits
    <3>2. local'[c].kind = "nin" /\ local'[c].hadBoth = HasBoth(User(c)')
      BY <1>1, <3>1, KycCallIs DEF Locals
    <3>3. HasBoth(User(c))' <=> HasBoth(User(c)')
      BY <1>1 DEF HasBoth, Has
    <3> QED BY <1>2, <2>1, <3>2, <3>3 DEF CheckFits, CameFits
  <2>2. CASE d /= c
    <3>1. at'[d] = at[d] /\ request'[d] = request[d]
      BY <1>2, <2>2, CallsAre
    <3>2. local'[d] = local[d]
      BY <1>1, <2>2, KycCallIs
    <3> QED BY <1>3, <3>1, <3>2, CheckKept, CameKept
  <2> QED BY <2>1, <2>2
<1>5. \A u \in Users : CustomerFits(u)'
  BY <1>1 DEF ChecksInv, CustomerFits, Known, HasBoth, Has
<1>6. ASSUME ~overlapped', NEW d \in KycCall PROVE at[d] \notin {"readOther", "writeTier"} /\ at'[d] /= "writeTier"
  BY <1>2, <1>6, CallsAre DEF InFlight, Ends
<1>7. ~overlapped' => \A d \in KycCall : AloneFits(d)'
  BY <1>6 DEF AloneFits
<1>8. ASSUME ~overlapped', faults' = 0, NEW u \in Users, BothVerified(u)' PROVE tier'[u] >= 2
  BY <1>1, <1>2, <1>6, <1>8 DEF ChecksInv, Rising, BothVerified
<1> QED BY <1>4, <1>5, <1>7, <1>8 DEF ChecksInv

\* A step of another service, or the loss of calls.
LEMMA OthersKeepChecks ==
  ASSUME GuestsInv, ChecksInv, UNCHANGED <<customerVars, kycVars>>, CallsStand(KycCall),
         ~overlapped' => ~overlapped,
         faults' = 0 => faults = 0 /\ \A d \in KycCall : at'[d] = at[d]
  PROVE  ChecksInv'
<1>1. ChecksGrow
  BY DEF ChecksGrow, Known, Has
<1>2. \A d \in KycCall : request'[d] = request[d] /\ (at'[d] = at[d] \/ at'[d] = "lost") /\ User(d)' = User(d)
  BY DEF CallsStand, User
<1>3. ASSUME NEW d \in KycCall PROVE CheckFits(d)' /\ CameFits(d)'
  <2>1. /\ request'[d] = request[d] /\ local'[d] = local[d] /\ (at'[d] = at[d] \/ at'[d] = "lost")
        /\ at[d] = "idle" => at'[d] = "idle"
    BY <1>2 DEF CallsStand
  <2>2. "lost" \notin KycPlaces
    BY DEF KycPlaces
  <2> QED BY <1>1, <2>1, <2>2, CheckKept, CameKept
<1>4. \A u \in Users : CustomerFits(u)'
  BY DEF ChecksInv, CustomerFits, Known, HasBoth, Has
<1>5. ~overlapped' => \A d \in KycCall : AloneFits(d)'
  BY <1>2 DEF ChecksInv, AloneFits, Has
<1>6. ASSUME ~overlapped', faults' = 0, NEW u \in Users, BothVerified(u)' PROVE tier'[u] >= 2 \/ Rising(u)'
  <2>1. tier[u] >= 2 \/ Rising(u)
    BY <1>6 DEF ChecksInv, BothVerified
  <2>2. Rising(u) => Rising(u)'
    BY <1>2, <1>6 DEF Rising
  <2> QED BY <2>1, <2>2
<1> QED BY <1>3, <1>4, <1>5, <1>6 DEF ChecksInv

\* What the others' steps do to the calls of the checks.
LEMMA OthersCalls ==
  ASSUME GuestsInv, OpeningStep \/ EventStep
  PROVE  /\ CallsStand(KycCall) /\ (~overlapped' => ~overlapped) /\ faults' = faults
         /\ \A d \in KycCall : at'[d] = at[d]
         /\ UNCHANGED customerVars
<1> USE CallsAre
<1>1. ServerTypeOK /\ KycCall \in SUBSET Calls
  BY DEF GuestsInv, CustomersTypeOK
<1>2. ASSUME NEW c \in OpeningCall \cup EventCall, NEW place, Goto(c, place)
      PROVE  /\ CallsStand(KycCall) /\ (~overlapped' => ~overlapped) /\ faults' = faults
             /\ \A d \in KycCall : at'[d] = at[d]
  <2>1. c \in Calls \ KycCall
    OBVIOUS
  <2> QED BY <1>1, <1>2, <2>1, GotoServer, GotoStands
<1>3. ASSUME NEW c \in OpeningCall \cup EventCall, NEW requests, NEW first, Enter(c, requests, first)
      PROVE  /\ CallsStand(KycCall) /\ (~overlapped' => ~overlapped) /\ faults' = faults
             /\ \A d \in KycCall : at'[d] = at[d]
  <2>1. c \in Calls \ KycCall
    OBVIOUS
  <2> QED BY <1>1, <1>3, <2>1, EnterServer, EnterStands
<1>4. CASE OpeningStep
  <2>1. PICK c \in OpeningCall : \/ OpeningArrive(c) \/ FindCustomer(c) \/ InsertWallet(c) \/ AskForWallet(c)
                                 \/ DeleteWallet(c) \/ LinkWallet(c) \/ FindWallet(c) \/ AskForBalance(c)
                                 \/ FindLinked(c) \/ UpdateBalance(c)
    BY <1>4 DEF OpeningStep
  <2>2. UNCHANGED customerVars
    BY <2>1 DEF OpeningArrive, FindCustomer, InsertWallet, AskForWallet, DeleteWallet, LinkWallet, FindWallet,
                AskForBalance, FindLinked, UpdateBalance, Passes
  <2>3. (\E place : Goto(c, place)) \/ (\E requests, first : Enter(c, requests, first))
    BY <2>1 DEF OpeningArrive, FindCustomer, InsertWallet, AskForWallet, DeleteWallet, LinkWallet, FindWallet,
                AskForBalance, FindLinked, UpdateBalance, Passes
  <2> QED BY <1>2, <1>3, <2>2, <2>3
<1>5. CASE EventStep
  <2>1. PICK c \in EventCall :
          \/ EventsArrive(c)
          \/ ReadHostTier(c) \/ DrawCode(c) \/ InsertEvent(c) \/ InsertHost(c)
          \/ ReadPerformer(c) \/ InsertPerformer(c)
          \/ ReadEventToJoin(c) \/ CheckTierForRole(c) \/ ReadSeatToJoin(c)
          \/ UpdateSeat(c) \/ ReadWallet(c) \/ InsertSeat(c)
          \/ ReadSeatToLeave(c) \/ ReadEventToLeave(c) \/ DeleteSeat(c)
          \/ ReadEventToRemove(c) \/ DeleteEvent(c)
    BY <1>5 DEF EventStep
  <2>2. UNCHANGED customerVars /\ ((\E place : Goto(c, place)) \/ (\E requests, first : Enter(c, requests, first)))
    <3>1. CASE EventsArrive(c) \/ ReadHostTier(c) \/ DrawCode(c) \/ InsertEvent(c)
      BY <3>1 DEF EventsArrive, ReadHostTier, DrawCode, InsertEvent, Moves
    <3>2. CASE InsertHost(c) \/ ReadPerformer(c) \/ InsertPerformer(c)
      BY <3>2 DEF InsertHost, ReadPerformer, InsertPerformer, Moves, Seat
    <3>3. CASE ReadEventToJoin(c) \/ CheckTierForRole(c) \/ ReadSeatToJoin(c)
      BY <3>3 DEF ReadEventToJoin, CheckTierForRole, ReadSeatToJoin, Moves
    <3>4. CASE UpdateSeat(c) \/ ReadWallet(c) \/ InsertSeat(c)
      BY <3>4 DEF UpdateSeat, ReadWallet, InsertSeat, Moves, Seat
    <3>5. CASE ReadSeatToLeave(c) \/ ReadEventToLeave(c) \/ DeleteSeat(c)
      BY <3>5 DEF ReadSeatToLeave, ReadEventToLeave, DeleteSeat, Moves
    <3>6. CASE ReadEventToRemove(c) \/ DeleteEvent(c)
      BY <3>6 DEF ReadEventToRemove, DeleteEvent, Moves
    <3> QED BY <2>1, <3>1, <3>2, <3>3, <3>4, <3>5, <3>6
  <2> QED BY <1>2, <1>3, <2>2
<1> QED BY <1>4, <1>5

LEMMA InitChecks == Init => ChecksInv
<1> SUFFICES ASSUME Init PROVE ChecksInv OBVIOUS
<1>1. \A c \in KycCall : at[c] = "idle"
  BY CallsAre DEF Init, CallsInit
<1>2. local = [c \in KycCall |-> Fresh]
  BY DEF Init, KycInit
<1>3. PICK profile \in [Users -> Profiles] :
        /\ tier = [u \in Users |-> profile[u].tier]
        /\ given = [u \in Users |-> profile[u].given]
        /\ row = [u \in Users |-> [k \in Kinds |-> IF k \in profile[u].checks THEN "verified" ELSE "none"]]
        /\ vouched = {p \in Users \X Kinds : p[2] \in profile[p[1]].checks}
  BY DEF Init, KycInit
<1>4. \A c \in KycCall : CheckFits(c) /\ CameFits(c) /\ AloneFits(c)
  BY <1>1, <1>2 DEF CheckFits, CameFits, AloneFits, Fresh, KycPlaces
<1>5. ASSUME NEW u \in Users PROVE CustomerFits(u) /\ (BothVerified(u) => tier[u] >= 2)
  <2>1. PICK p \in Profiles : p = profile[u]
    OBVIOUS
  <2>2. p.tier \in Tiers \cup {NoCustomer} /\ p.given \in Tiers \cup {NoCustomer} /\ p.checks \subseteq Kinds /\ Earned(p)
    BY KycAssumption
  <2>3. /\ tier[u] = p.tier /\ given[u] = p.given
        /\ \A k \in Kinds : /\ row[u][k] = IF k \in p.checks THEN "verified" ELSE "none"
                            /\ <<u, k>> \in vouched <=> k \in p.checks
    BY <1>3, <2>1
  <2>4. /\ p.tier >= 1 => p.given >= 1 \/ "nin" \in p.checks \/ "bvn" \in p.checks
        /\ p.tier >= 2 => p.given >= 2 \/ ("nin" \in p.checks /\ "bvn" \in p.checks)
        /\ "nin" \in p.checks /\ "bvn" \in p.checks => p.tier >= 2
        /\ p.tier = 3 => p.given = 3 \/ "address" \in p.checks
        /\ p.tier = NoCustomer => p.checks = {}
    BY <2>2 DEF Earned
  <2>5. "nin" \in Kinds /\ "bvn" \in Kinds /\ "address" \in Kinds
    BY DEF Kinds
  <2>6. \A k \in Kinds : Has(u, k) <=> k \in p.checks
    BY <2>3 DEF Has
  <2> QED BY <2>3, <2>4, <2>5, <2>6 DEF CustomerFits, BothVerified, Known, HasBoth
<1> QED BY <1>4, <1>5 DEF ChecksInv

\* An earlier check of the user's is what takes Tier_2 away in this step.
TakenByEarlier(u) ==
  \E c \in KycCall : at[c] = "writeTier" /\ at'[c] /= at[c] /\ User(c) = u /\ ~local[c].hadBoth

LEMMA ChecksStep ==
  ASSUME GuestsInv, ChecksInv, [Next]_vars
  PROVE  ChecksInv' /\ \A u \in Users : tier[u] >= 2 /\ tier'[u] < 2 => TakenByEarlier(u)
<1>1. \A u \in Users : tier[u] \in Int
  BY DEF GuestsInv, CustomersTypeOK, Tiers, NoCustomer
<1>2. (\A u \in Users : tier[u] >= 2 => tier'[u] = tier[u]) =>
        \A u \in Users : tier[u] >= 2 /\ tier'[u] < 2 => TakenByEarlier(u)
  BY <1>1
<1>3. ASSUME NEW c \in KycCall, KycStep(c), UNCHANGED <<openingVars, eventVars>>
      PROVE  ChecksInv' /\ \A u \in Users : tier[u] >= 2 /\ tier'[u] < 2 => TakenByEarlier(u)
  <2>1. CASE KycArrive(c)
    BY <1>2, <2>1, ArrivalKeepsChecks DEF KycArrive
  <2>2. CASE KycReads(c)
    BY <1>2, <1>3, <2>2, ReadsKeepChecks, KycReadsGo
  <2>3. CASE Throw(c) /\ at[c] \in {"insertCustomer", "ask"}
    BY <1>2, <1>3, <2>3, ThrowKeepsChecks DEF Throw
  <2>4. CASE InsertCustomer(c) /\ ~Throw(c)
    BY <1>2, <1>3, <2>4, InsertKeepsChecks
  <2>5. CASE Ask(c) /\ ~Throw(c)
    BY <1>2, <1>3, <2>5, AskKeepsChecks DEF Ask
  <2>6. CASE Store(c)
    BY <1>2, <1>3, <2>6, StoreKeepsChecks DEF Store
  <2>7. CASE ReadOther(c)
    BY <1>2, <1>3, <2>7, ReadOtherKeepsChecks DEF ReadOther
  <2>8. CASE WriteTier(c)
    BY <1>3, <2>8, WriteKeepsChecks DEF TakenByEarlier
  <2>9. (InsertCustomer(c) => at[c] = "insertCustomer") /\ (Ask(c) => at[c] = "ask")
    BY DEF InsertCustomer, Ask
  <2> QED BY <1>3, <2>1, <2>2, <2>3, <2>4, <2>5, <2>6, <2>7, <2>8, <2>9 DEF KycStep, KycReads
<1>4. CASE (OpeningStep \/ EventStep) /\ UNCHANGED kycVars
  BY <1>2, <1>4, OthersCalls, OthersKeepChecks
<1>5. CASE (Fail \/ Crash) /\ UNCHANGED <<customerVars, kycVars>>
  <2>1. PICK dead \in SUBSET InFlight : Lose(dead)
    BY <1>5 DEF Fail, Crash
  <2>2. ServerTypeOK /\ KycCall \in SUBSET Calls
    BY CallsAre DEF GuestsInv, CustomersTypeOK
  <2>3. CallsStand(KycCall) /\ overlapped' = overlapped
    BY <2>1, <2>2, LoseServer, LoseStands
  <2>4. faults' /= 0
    BY <2>1, <2>2, CallBounds DEF Lose, ServerTypeOK
  <2> QED BY <1>2, <1>5, <2>3, <2>4, OthersKeepChecks
<1>6. CASE UNCHANGED vars
  <2>1. UNCHANGED <<at, request, overlapped, faults, customerVars, kycVars>>
    BY <1>6 DEF callVars
  <2>2. CallsStand(KycCall)
    BY <2>1 DEF CallsStand
  <2> QED BY <1>2, <2>1, <2>2, OthersKeepChecks
<1> QED BY <1>3, <1>4, <1>5, <1>6 DEF Next

\* And so does what the checks have found, whatever tiers clients ask customers to be created with.
THEOREM ChecksInvariant == Spec => []ChecksInv
<1>1. GuestsInv /\ ChecksInv /\ [Next]_vars => ChecksInv'
  BY ChecksStep
<1> QED BY <1>1, InitChecks, InductiveInvariant, PTL DEF Spec

\* However the checks overlap, each tier has the checks behind it that it stands for unless the customer
\* was created with it; and in turn two verified checks make it Tier_2 (customer-kyc.service.ts:385-681).
THEOREM TiersAreEarned == Spec => []TiersFollowTheChecks
<1>1. GuestsInv /\ ChecksInv => TiersFollowTheChecks
  <2> SUFFICES ASSUME GuestsInv, ChecksInv, NEW u \in Users
               PROVE  /\ tier[u] >= 1 => given[u] >= 1 \/ <<u, "nin">> \in vouched \/ <<u, "bvn">> \in vouched
                      /\ tier[u] >= 2 => given[u] >= 2 \/ HasBoth(u)
                      /\ tier[u] = 3 => given[u] = 3 \/ <<u, "address">> \in vouched
                      /\ (~overlapped /\ InFlight = {} /\ faults = 0 /\ Known(u)
                            /\ row[u]["nin"] = "verified" /\ row[u]["bvn"] = "verified") => tier[u] >= 2
    BY DEF TiersFollowTheChecks
  <2>1. CustomerFits(u)
    BY DEF ChecksInv
  <2>2. InFlight = {} => ~Rising(u)
    BY CallsAre DEF Rising, InFlight, Ends
  <2> QED BY <2>1, <2>2 DEF CustomerFits, ChecksInv, BothVerified
<1> QED BY <1>1, ChecksInvariant, InductiveInvariant, PTL

\* The tier is written blindly, and two checks that overlap can take Tier_2 from each other's customer;
\* a check that came when both rows were there never does, however many others it meets, whatever it
\* finds and whatever is lost (customer-kyc.service.ts:458-477, :575-594, :669-677).
THEOREM TierTwoIsTakenByEarlierChecks == Spec => OnlyEarlierChecksTakeTierTwo
<1>1. GuestsInv /\ ChecksInv /\ [Next]_vars
        => [\A u \in Users : tier[u] >= 2 /\ tier'[u] < 2 =>
              \E c \in KycCall : /\ at[c] = "writeTier" /\ at'[c] /= at[c]
                                /\ User(c) = u /\ ~local[c].hadBoth]_<<tier, at>>
  BY ChecksStep DEF TakenByEarlier
<1> QED BY <1>1, ChecksInvariant, InductiveInvariant, PTL DEF Spec, OnlyEarlierChecksTakeTierTwo
=============================================================================
