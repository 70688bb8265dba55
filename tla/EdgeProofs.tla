----------------------------- MODULE EdgeProofs -----------------------------
(***************************************************************************)
(* Theorems about Edge for every number of calls, users, sockets, events,  *)
(* tokens and devices, every limit and every length of the window.         *)
(***************************************************************************)
EXTENDS Edge, TLAPS, FiniteSetTheorems

(***************************************************************************)
(* What the steps of the process do to its calls, and that calls which     *)
(* have not overlapped come in turn.                                       *)
(***************************************************************************)
\* While no two calls have been in flight together, at most one is.
OneAtATime == ~overlapped => \A c, d \in InFlight : c = d

\* A call that moves on leaves the others, and what all of them ask for, alone.
LEMMA GotoServer ==
  ASSUME ServerTypeOK, NEW c \in Calls, NEW place, Goto(c, place)
  PROVE  /\ ServerTypeOK'
         /\ request' = request /\ overlapped' = overlapped /\ faults' = faults
         /\ at'[c] = place
         /\ \A d \in Calls : d /= c => at'[d] = at[d]
BY DEF ServerTypeOK, Goto, callVars

\* A call that arrives was idle; and it overlaps unless no other is in flight.
LEMMA EnterServer ==
  ASSUME ServerTypeOK, NEW c \in Calls, NEW wishes, NEW first, Enter(c, wishes, first)
  PROVE  /\ ServerTypeOK'
         /\ at[c] = "idle" /\ at'[c] = first
         /\ request'[c] \in wishes
         /\ \A d \in Calls : d /= c => at'[d] = at[d] /\ request'[d] = request[d]
         /\ ~overlapped' => ~overlapped /\ InFlight = {}
         /\ faults' = faults
<1>1. PICK r \in wishes : request' = [request EXCEPT ![c] = r]
  BY DEF Enter
<1>2. at' = [at EXCEPT ![c] = first] /\ at[c] = "idle" /\ faults' = faults
      /\ overlapped' = (overlapped \/ InFlight /= {})
  BY DEF Enter
<1>3. overlapped' \in BOOLEAN
  <2>1. overlapped' = TRUE \/ overlapped' = FALSE
    BY <1>2 DEF ServerTypeOK
  <2> QED BY <2>1
<1>4. ~overlapped' => ~overlapped /\ InFlight = {}
  BY <1>2
<1>5. faults' \in 0..MaxFaults /\ DOMAIN request' = Calls /\ DOMAIN at' = Calls
  BY <1>1, <1>2 DEF ServerTypeOK
<1>6. request'[c] = r /\ at'[c] = first
      /\ \A d \in Calls : d /= c => at'[d] = at[d] /\ request'[d] = request[d]
  BY <1>1, <1>2 DEF ServerTypeOK
<1> QED BY <1>2, <1>3, <1>4, <1>5, <1>6 DEF ServerTypeOK

\* The calls that are lost stand at their end, the others where they stood.
LEMMA LoseServer ==
  ASSUME ServerTypeOK, NEW dead, Lose(dead)
  PROVE  /\ ServerTypeOK'
         /\ request' = request /\ overlapped' = overlapped
         /\ \A d \in Calls : at'[d] = IF d \in dead THEN "lost" ELSE at[d]
<1>1. faults \in Nat /\ MaxFaults \in Nat /\ faults < MaxFaults /\ faults' = faults + 1
  BY CallBounds DEF ServerTypeOK, Lose
<1>2. faults' \in 0..MaxFaults
  BY <1>1
<1> QED BY <1>2 DEF ServerTypeOK, Lose

LEMMA CallsInitServer == CallsInit => ServerTypeOK /\ InFlight = {}
<1> SUFFICES ASSUME CallsInit PROVE ServerTypeOK /\ InFlight = {} OBVIOUS
<1>1. faults \in 0..MaxFaults
  BY CallBounds DEF CallsInit
<1>2. overlapped \in BOOLEAN
  BY DEF CallsInit
<1>3. DOMAIN request = Calls /\ DOMAIN at = Calls
  BY DEF CallsInit
<1>4. InFlight = {}
  BY DEF CallsInit, InFlight
<1> QED BY <1>1, <1>2, <1>3, <1>4 DEF ServerTypeOK

LEMMA GotoInTurn ==
  ASSUME ServerTypeOK, OneAtATime, NEW c \in InFlight, NEW place, Goto(c, place)
  PROVE  OneAtATime'
<1>1. c \in Calls
  BY DEF InFlight
<1>2. overlapped' = overlapped /\ \A d \in Calls : d /= c => at'[d] = at[d]
  BY <1>1, GotoServer
<1> QED BY <1>2 DEF OneAtATime, InFlight

LEMMA EnterInTurn ==
  ASSUME ServerTypeOK, OneAtATime, NEW c \in Calls, NEW wishes, NEW first, Enter(c, wishes, first)
  PROVE  OneAtATime'
<1>1. \A d \in Calls : d /= c => at'[d] = at[d]
  BY EnterServer
<1>2. ~overlapped' => InFlight = {}
  BY EnterServer
<1> QED BY <1>1, <1>2 DEF OneAtATime, InFlight

LEMMA LoseInTurn ==
  ASSUME ServerTypeOK, OneAtATime, NEW dead, Lose(dead)
  PROVE  OneAtATime'
BY LoseServer DEF OneAtATime, InFlight, Ends

USE DEF vars, rateVars, roomVars, deviceVars

\* The steps by the component they belong to; the bound on the observation has
\* no part in any proof.
DeviceFail(c) == c \in InFlight /\ Lose({c}) /\ UNCHANGED deviceVars

LEMMA StepCases ==
  ASSUME [Next]_vars
  PROVE  \/ RateStep /\ UNCHANGED <<roomVars, deviceVars>>
         \/ (RoomStep \/ RoomFail) /\ UNCHANGED <<rateVars, deviceVars>>
         \/ \E c \in DeviceCall : (DeviceStep(c) \/ DeviceFail(c)) /\ UNCHANGED <<rateVars, roomVars>>
         \/ Die
         \/ UNCHANGED vars
BY DEF Next, Step, DeviceFail

(***************************************************************************)
(* The rate limit.                                                         *)
(***************************************************************************)

\* The memory of the guard: of the sprays let through, those less than a window
\* old are in the entry of their user, and the entry has no others.
EntriesAreRecent ==
  \A u \in Sprayers :
    /\ IsFiniteSet(requests[u]) /\ requests[u] \subseteq passed[u]
    /\ \A r \in passed[u] : r.time <= clock /\ (r.time > clock - Window => r \in requests[u])

RateInv == ServerTypeOK /\ RateTypeOK /\ EntriesAreRecent /\ WindowIsKept

LEMMA RateInitInv == CallsInit /\ RateInit => RateInv
<1> SUFFICES ASSUME CallsInit, RateInit PROVE RateInv OBVIOUS
<1>1. ServerTypeOK
  BY CallsInitServer
<1>2. Cardinality({}) = 0 /\ IsFiniteSet({})
  BY FS_EmptySet
<1>3. RateTypeOK
  BY <1>2, RateLimitAssumption DEF CallsInit, RateInit, RateTypeOK, Nothing
<1>4. EntriesAreRecent
  BY <1>2 DEF EntriesAreRecent, RateInit, Nothing
<1>5. WindowIsKept
  <2> SUFFICES ASSUME NEW u \in Sprayers, NEW t \in 0..MaxClock
               PROVE  Cardinality({r \in passed[u] : t <= r.time /\ r.time < t + Window}) <= MaxRequests
    BY DEF WindowIsKept
  <2>1. {r \in passed[u] : t <= r.time /\ r.time < t + Window} = {}
    BY DEF RateInit, Nothing
  <2> QED BY <2>1, <1>2, RateLimitAssumption
<1> QED BY <1>1, <1>3, <1>4, <1>5 DEF RateInv

\* What is less than a window old, of a finite entry, is not more than the entry.
LEMMA RecentIsPart ==
  ASSUME NEW entry, IsFiniteSet(entry), NEW now
  PROVE  /\ Recent(entry, now) \subseteq entry /\ IsFiniteSet(Recent(entry, now))
         /\ Cardinality(Recent(entry, now)) \in Nat /\ Cardinality(entry) \in Nat
         /\ Cardinality(Recent(entry, now)) <= Cardinality(entry)
<1>1. Recent(entry, now) \in SUBSET entry
  BY DEF Recent
<1> QED BY <1>1, FS_Subset, FS_CardinalityType

LEMMA CanActivateInv ==
  ASSUME RateInv, NEW c \in SprayCall, CanActivate(c) PROVE RateInv'
<1> DEFINE new == [by |-> c, time |-> clock']
<1> USE RateLimitAssumption
<1>1. clock \in 0..MaxClock /\ clock' \in 0..MaxClock /\ clock <= clock' /\ c \in Calls
  BY DEF CanActivate, RateInv, RateTypeOK
<1>2. PICK u \in Sprayers :
        LET recent == Recent(requests[u], clock') IN
        IF Cardinality(recent) >= MaxRequests
        THEN Enter(c, {[user |-> u]}, "failed") /\ UNCHANGED <<requests, timers, passed>>
        ELSE /\ Enter(c, {[user |-> u]}, "done")
             /\ requests' = [requests EXCEPT ![u] = recent \cup {new}]
             /\ timers' = timers \cup {<<u, clock'>>}
             /\ passed' = [passed EXCEPT ![u] = @ \cup {new}]
  BY DEF CanActivate
<1>3. /\ requests \in [Sprayers -> SUBSET LetThrough] /\ passed \in [Sprayers -> SUBSET LetThrough]
      /\ timers \subseteq Sprayers \X (0..MaxClock)
      /\ \A v \in Sprayers : Cardinality(requests[v]) <= MaxRequests
      /\ \A v \in Sprayers : IsFiniteSet(requests[v]) /\ requests[v] \subseteq passed[v]
  BY DEF RateInv, RateTypeOK, EntriesAreRecent
<1>4. new \in LetThrough /\ new.time = clock'
  BY <1>1 DEF LetThrough
<1>5. \A r \in LetThrough : r.time \in Int
  BY DEF LetThrough
<1>6. PICK place \in {"failed", "done"} : Enter(c, {[user |-> u]}, place)
  BY <1>2
<1>7. /\ ServerTypeOK'
      /\ at[c] = "idle" /\ at'[c] = place /\ request'[c] \in {[user |-> u]}
      /\ \A d \in Calls : d /= c => at'[d] = at[d] /\ request'[d] = request[d]
  BY <1>1, <1>6, EnterServer DEF RateInv
<1>8. /\ \A d \in SprayCall : request'[d] \in IF at'[d] = "idle" THEN {NoRequest} ELSE [user : Sprayers]
      /\ \A d \in SprayCall : at'[d] \in {"idle"} \cup Ends
  <2>1. \A d \in SprayCall : d \in Calls
    OBVIOUS
  <2>2. [user |-> u] \in [user : Sprayers] /\ place /= "idle" /\ place \in Ends
    BY DEF Ends
  <2>3. \A d \in SprayCall : d /= c => at'[d] = at[d] /\ request'[d] = request[d]
    BY <1>7, <2>1
  <2> QED BY <1>7, <2>2, <2>3 DEF RateInv, RateTypeOK
<1>9. CASE UNCHANGED <<requests, timers, passed>>
  <2>1. RateTypeOK'
    BY <1>1, <1>8, <1>9 DEF RateInv, RateTypeOK
  <2>2. EntriesAreRecent'
    BY <1>1, <1>3, <1>5, <1>9 DEF RateInv, EntriesAreRecent
  <2>3. WindowIsKept'
    BY <1>9 DEF RateInv, WindowIsKept
  <2> QED BY <1>7, <2>1, <2>2, <2>3 DEF RateInv
<1>10. CASE /\ Cardinality(Recent(requests[u], clock')) < MaxRequests
            /\ requests' = [requests EXCEPT ![u] = Recent(requests[u], clock') \cup {new}]
            /\ timers' = timers \cup {<<u, clock'>>}
            /\ passed' = [passed EXCEPT ![u] = @ \cup {new}]
  <2> DEFINE recent == Recent(requests[u], clock')
  <2>1. recent \subseteq requests[u] /\ IsFiniteSet(recent) /\ Cardinality(recent) \in Nat
    BY <1>3, RecentIsPart
  <2>2. IsFiniteSet(recent \cup {new}) /\ Cardinality(recent \cup {new}) <= MaxRequests
        /\ Cardinality(recent \cup {new}) \in Nat
    <3>1. /\ IsFiniteSet(recent \cup {new})
          /\ Cardinality(recent \cup {new}) =
               IF new \in recent THEN Cardinality(recent) ELSE Cardinality(recent) + 1
      BY <2>1, FS_AddElement
    <3>2. Cardinality(recent) < MaxRequests
      BY <1>10
    <3> QED BY <2>1, <3>1, <3>2
  <2>3. RateTypeOK'
    BY <1>1, <1>3, <1>4, <1>8, <1>10, <2>1, <2>2 DEF RateTypeOK
  <2>4. EntriesAreRecent'
    <3>1. \A v \in Sprayers : v /= u => requests'[v] = requests[v] /\ passed'[v] = passed[v]
      BY <1>3, <1>10
    <3>2. requests'[u] = recent \cup {new} /\ passed'[u] = passed[u] \cup {new}
      BY <1>3, <1>10
    <3>3. \A r \in passed[u] : r.time > clock' - Window => r \in recent
      BY <1>1, <1>3, <1>5 DEF RateInv, EntriesAreRecent, Recent
    <3>4. \A v \in Sprayers : \A r \in passed[v] : r.time <= clock' /\ (r.time > clock' - Window => r \in requests[v])
      BY <1>1, <1>3, <1>5 DEF RateInv, EntriesAreRecent
    <3> SUFFICES ASSUME NEW v \in Sprayers
                 PROVE  /\ IsFiniteSet(requests'[v]) /\ requests'[v] \subseteq passed'[v]
                        /\ \A r \in passed'[v] : /\ r.time <= clock'
                                                 /\ r.time > clock' - Window => r \in requests'[v]
      BY DEF EntriesAreRecent
    <3>5. CASE v /= u
      BY <1>3, <3>1, <3>4, <3>5
    <3>6. CASE v = u
      <4>1. requests'[v] \subseteq passed'[v]
        BY <1>3, <2>1, <3>2, <3>6
      <4>2. IsFiniteSet(requests'[v])
        BY <2>2, <3>2, <3>6
      <4>3. ASSUME NEW r \in passed'[v]
            PROVE  r.time <= clock' /\ (r.time > clock' - Window => r \in requests'[v])
        <5>1. CASE r = new
          BY <1>1, <1>4, <3>2, <3>6, <5>1
        <5>2. CASE r \in passed[v]
          BY <3>2, <3>3, <3>4, <3>6, <5>2
        <5> QED BY <3>2, <3>6, <5>1, <5>2
      <4> QED BY <4>1, <4>2, <4>3
    <3> QED BY <3>5, <3>6
  <2>5. WindowIsKept'
    <3> SUFFICES ASSUME NEW v \in Sprayers, NEW t \in 0..MaxClock
                 PROVE  Cardinality({r \in passed'[v] : t <= r.time /\ r.time < t + Window}) <= MaxRequests
      BY DEF WindowIsKept
    <3> DEFINE window == {r \in passed'[v] : t <= r.time /\ r.time < t + Window}
    <3>1. CASE new \notin window \/ v /= u
      <4>1. window = {r \in passed[v] : t <= r.time /\ r.time < t + Window}
        BY <1>3, <1>10, <3>1
      <4> QED BY <4>1 DEF RateInv, WindowIsKept
    <3>2. CASE new \in window /\ v = u
      <4>1. clock' < t + Window
        BY <1>4, <3>2
      <4>2. window \subseteq recent \cup {new}
        BY <1>1, <1>3, <1>5, <1>10, <3>2, <4>1 DEF RateInv, EntriesAreRecent, Recent
      <4>3. Cardinality(window) <= Cardinality(recent \cup {new}) /\ IsFiniteSet(window)
        BY <2>2, <4>2, FS_Subset
      <4>4. Cardinality(window) \in Nat
        BY <4>3, FS_CardinalityType
      <4> QED BY <2>2, <4>3, <4>4
    <3> QED BY <3>1, <3>2
  <2> QED BY <1>7, <2>3, <2>4, <2>5 DEF RateInv
<1>11. Cardinality(Recent(requests[u], clock')) \in Nat
  BY <1>3, RecentIsPart
<1> QED BY <1>2, <1>9, <1>10, <1>11

\* A timer comes two windows after its request: what it drops is old by then.
LEMMA CleanupInv == ASSUME RateInv, Cleanup PROVE RateInv'
<1> USE RateLimitAssumption
<1>1. PICK timer \in timers :
        /\ clock' >= timer[2] + 2 * Window
        /\ timers' = timers \ {timer}
        /\ requests' = [requests EXCEPT ![timer[1]] = Recent(@, timer[2])]
  BY DEF Cleanup
<1>2. clock \in 0..MaxClock /\ clock' \in 0..MaxClock /\ clock <= clock' /\ UNCHANGED <<callVars, at, passed>>
  BY DEF Cleanup, RateInv, RateTypeOK
<1>3. timer[1] \in Sprayers /\ timer[2] \in 0..MaxClock
  BY DEF RateInv, RateTypeOK
<1>4. \A v \in Sprayers : requests[v] \subseteq LetThrough /\ IsFiniteSet(requests[v])
                          /\ requests[v] \subseteq passed[v] /\ Cardinality(requests[v]) <= MaxRequests
                          /\ passed[v] \subseteq LetThrough
  BY DEF RateInv, RateTypeOK, EntriesAreRecent
<1>5. requests \in [Sprayers -> SUBSET LetThrough]
  BY DEF RateInv, RateTypeOK
<1>6. \A r \in LetThrough : r.time \in Int
  BY DEF LetThrough
<1>7. \A v \in Sprayers :
        requests'[v] = IF v = timer[1] THEN Recent(requests[v], timer[2]) ELSE requests[v]
  BY <1>1, <1>3, <1>5
<1>8. \A v \in Sprayers : /\ IsFiniteSet(requests'[v]) /\ requests'[v] \subseteq requests[v]
                          /\ Cardinality(requests'[v]) <= MaxRequests
  <2> SUFFICES ASSUME NEW v \in Sprayers
               PROVE  /\ IsFiniteSet(requests'[v]) /\ requests'[v] \subseteq requests[v]
                      /\ Cardinality(requests'[v]) <= MaxRequests
    OBVIOUS
  <2>1. CASE v = timer[1]
    BY <1>4, <1>7, <2>1, RecentIsPart
  <2>2. CASE v /= timer[1]
    BY <1>4, <1>7, <2>2
  <2> QED BY <2>1, <2>2
<1>9. requests' \in [Sprayers -> SUBSET LetThrough]
  BY <1>1, <1>5, <1>8
<1>10. RateTypeOK'
  BY <1>1, <1>2, <1>8, <1>9 DEF RateInv, RateTypeOK, callVars
<1>11. EntriesAreRecent'
  <2>1. ASSUME NEW v \in Sprayers, NEW r \in passed[v]
        PROVE  r.time <= clock' /\ (r.time > clock' - Window => r \in requests'[v])
    <3>1. r.time \in Int /\ r.time <= clock /\ (r.time > clock - Window => r \in requests[v])
      BY <1>4, <1>6 DEF RateInv, EntriesAreRecent
    <3>2. r.time > clock' - Window => r \in requests[v] /\ r.time > timer[2] - Window
      BY <1>1, <1>2, <1>3, <3>1
    <3>3. r.time <= clock'
      BY <1>2, <3>1
    <3>4. ASSUME r.time > clock' - Window PROVE r \in requests'[v]
      <4>1. r \in requests[v] /\ r \in Recent(requests[v], timer[2])
        BY <3>2, <3>4 DEF Recent
      <4> QED BY <1>7, <4>1
    <3> QED BY <3>3, <3>4
  <2> QED BY <1>2, <1>4, <1>8, <2>1 DEF EntriesAreRecent
<1>12. WindowIsKept' /\ ServerTypeOK'
  BY <1>2 DEF RateInv, WindowIsKept, ServerTypeOK, callVars
<1> QED BY <1>10, <1>11, <1>12 DEF RateInv

LEMMA RateCrashInv ==
  ASSUME RateInv, RateCrash, ServerTypeOK',
         \A c \in SprayCall : at'[c] = at[c] /\ request'[c] = request[c]
  PROVE  RateInv'
<1>1. Cardinality({}) = 0 /\ IsFiniteSet({})
  BY FS_EmptySet
<1> HIDE DEF rateVars
<1>5. \A u \in Sprayers : requests'[u] = {} /\ passed'[u] = {}
  BY DEF RateCrash, Nothing
<1>6. Nothing \in [Sprayers -> SUBSET LetThrough]
  BY DEF Nothing
<1>2. RateTypeOK'
  <2>1. /\ requests' \in [Sprayers -> SUBSET LetThrough] /\ passed' \in [Sprayers -> SUBSET LetThrough]
        /\ timers' = {} /\ clock' = clock
    BY <1>6 DEF RateCrash
  <2>2. \A u \in Sprayers : Cardinality(requests'[u]) <= MaxRequests
    BY <1>1, <1>5, RateLimitAssumption
  <2> QED BY <2>1, <2>2 DEF RateInv, RateTypeOK
<1>3. EntriesAreRecent'
  BY <1>1, <1>5 DEF EntriesAreRecent
<1>4. WindowIsKept'
  <2> SUFFICES ASSUME NEW u \in Sprayers, NEW t \in 0..MaxClock
               PROVE  Cardinality({r \in passed'[u] : t <= r.time /\ r.time < t + Window}) <= MaxRequests
    BY DEF WindowIsKept
  <2> DEFINE window == {r \in passed'[u] : t <= r.time /\ r.time < t + Window}
  <2>1. window = {}
    <3>1. passed'[u] = {}
      BY <1>5
    <3> QED BY <3>1
  <2>2. Cardinality(window) = 0
    BY <2>1, <1>1
  <2> HIDE DEF window
  <2>3. Cardinality(window) <= MaxRequests
    BY <2>2, RateLimitAssumption
  <2> QED BY <2>3 DEF window
<1> QED BY <1>2, <1>3, <1>4 DEF RateInv

\* What the other components do is nothing to the guard.
LEMMA RateFrame ==
  ASSUME RateInv, UNCHANGED rateVars, ServerTypeOK',
         \A c \in SprayCall : at'[c] = at[c] /\ request'[c] = request[c]
  PROVE  RateInv'
<1>1. RateTypeOK'
  BY DEF RateInv, RateTypeOK
<1>2. EntriesAreRecent' /\ WindowIsKept'
  BY DEF RateInv, EntriesAreRecent, WindowIsKept
<1> QED BY <1>1, <1>2 DEF RateInv

(***************************************************************************)
(* The sockets.                                                            *)
(***************************************************************************)

\* A call about a socket stands where its kind leads; a connection goes on with
\* a valid token, and a join with a socket that has a user.
RoomCallsFit ==
  \A c \in RoomCall :
    /\ at[c] = "findUser" => Asks(c, "connect") /\ request[c].token /= Nobody
    /\ at[c] = "findEvent" => Asks(c, "join") /\ attached[Socket(c)] /= Nobody

ListenersAreKnown ==
  \A s \in Sockets : rooms[s] /= {} => conn[s] = "open" /\ attached[s] /= Nobody

\* The last message about an event is one of this socket about this event, and a
\* socket that is not open has none.
AskedOfIts ==
  \A s \in Sockets, e \in LiveEvent : LET c == asked[s][e] IN
    c /= Nobody => /\ conn[s] = "open" /\ at[c] /= "idle"
                   /\ Socket(c) = s /\ request[c].event = e
                   /\ Asks(c, "join") \/ Asks(c, "leave")

\* In turn, a room is listened in by whoever asked last to join it; and the join
\* under way is what its socket has asked last.
JoinsInTurn ==
  ~overlapped =>
    /\ \A s \in Sockets, e \in LiveEvent : LET c == asked[s][e] IN
         /\ e \in rooms[s] => c /= Nobody /\ ~Asks(c, "leave")
         /\ c /= Nobody /\ Asks(c, "join") /\ at[c] = "done" => e \in rooms[s]
    /\ \A c \in RoomCall : at[c] = "findEvent" /\ request[c].event /= NoEvent /\ conn[Socket(c)] = "open" =>
         asked[Socket(c)][request[c].event] = c

RoomInv ==
  /\ ServerTypeOK /\ OneAtATime
  /\ RoomsTypeOK /\ RoomCallsFit /\ ListenersAreKnown /\ AskedOfIts /\ JoinsInTurn

LEMMA RoomsInvFollow == RoomInv => RoomsFollowTheirMessages
BY DEF RoomInv, ListenersAreKnown, JoinsInTurn, RoomsFollowTheirMessages

LEMMA RoomInitInv == CallsInit /\ RoomsInit => RoomInv
<1> SUFFICES ASSUME CallsInit, RoomsInit PROVE RoomInv OBVIOUS
<1> USE RoomsAssumption
<1>1. ServerTypeOK /\ InFlight = {}
  BY CallsInitServer
<1>2. \A c \in RoomCall : at[c] = "idle" /\ request[c] = NoRequest
  BY DEF CallsInit
<1>3. RoomsTypeOK
  BY <1>2 DEF RoomsInit, RoomsTypeOK
<1>4. OneAtATime
  BY <1>1 DEF OneAtATime
<1> QED BY <1>1, <1>2, <1>3, <1>4 DEF RoomInv, RoomsInit, RoomCallsFit, ListenersAreKnown, AskedOfIts, JoinsInTurn

LEMMA RoomRequestsAre ==
  ASSUME NEW r \in RoomRequests
  PROVE  /\ r.op \in {"connect", "join", "leave"} /\ r.socket \in Sockets
         /\ r.op = "connect" => r.token \in People \cup {Nobody}
         /\ r.op = "join" => r.event \in LiveEvent \cup {NoEvent}
         /\ r.op = "leave" => r.event \in LiveEvent
BY DEF RoomRequests

LEMMA RoomArriveInv == ASSUME RoomInv, NEW c \in RoomCall, RoomArrive(c) PROVE RoomInv'
<1> USE RoomsAssumption
<1> DEFINE R == {r \in RoomRequests : conn[r.socket] = IF r.op = "connect" THEN "new" ELSE "open"}
           s == Socket(c)'
<1>1. c \in Calls /\ Enter(c, R, "start")
  BY DEF RoomArrive
<1>2. /\ ServerTypeOK' /\ OneAtATime'
      /\ at[c] = "idle" /\ at'[c] = "start" /\ request'[c] \in R
      /\ \A d \in Calls : d /= c => at'[d] = at[d] /\ request'[d] = request[d]
      /\ ~overlapped' => ~overlapped
  BY <1>1, EnterServer, EnterInTurn DEF RoomInv
<1>3. request'[c] \in RoomRequests /\ s \in Sockets /\ s = request'[c].socket
  BY <1>2, RoomRequestsAre DEF Socket
<1>4. conn' = [conn EXCEPT ![s] = "open"] /\ UNCHANGED <<attached, rooms, asked>>
  BY <1>3 DEF RoomArrive
<1>5. \A d \in RoomCall : d /= c => at'[d] = at[d] /\ request'[d] = request[d]
  BY <1>2
<1>6. RoomsTypeOK'
  BY <1>2, <1>3, <1>4, <1>5 DEF RoomInv, RoomsTypeOK, RoomPlaces
<1>7. RoomCallsFit'
  BY <1>2, <1>4, <1>5 DEF RoomInv, RoomCallsFit, Asks, Socket
<1>8. conn[s] \in {"new", "open"} /\ conn'[s] = "open" /\ \A t \in Sockets : t /= s => conn'[t] = conn[t]
  BY <1>2, <1>3, <1>4 DEF RoomInv, RoomsTypeOK
<1>9. ListenersAreKnown'
  BY <1>4, <1>8 DEF RoomInv, ListenersAreKnown
<1>10. \A t \in Sockets, e \in LiveEvent : asked[t][e] \in RoomCall \cup {Nobody} /\ asked[t][e] /= c
  BY <1>2 DEF RoomInv, RoomsTypeOK, AskedOfIts
<1>11. AskedOfIts'
  BY <1>4, <1>5, <1>8, <1>10 DEF RoomInv, AskedOfIts, Asks, Socket
<1>12. JoinsInTurn'
  <2> SUFFICES ASSUME ~overlapped' PROVE JoinsInTurn'
    BY DEF JoinsInTurn
  <2>1. \A t \in Sockets, e \in LiveEvent :
          /\ e \in rooms'[t] => asked'[t][e] /= Nobody /\ ~Asks(asked[t][e], "leave")'
          /\ asked'[t][e] /= Nobody /\ Asks(asked[t][e], "join")' /\ at'[asked'[t][e]] = "done" => e \in rooms'[t]
    BY <1>2, <1>4, <1>5, <1>10 DEF RoomInv, JoinsInTurn, Asks
  <2>2. ASSUME NEW d \in RoomCall, at'[d] = "findEvent", request'[d].event /= NoEvent, conn'[Socket(d)'] = "open"
        PROVE  asked'[Socket(d)'][request'[d].event] = d
    <3>1. d /= c /\ d \in InFlight /\ InFlight = {}
      BY <1>1, <1>2, <1>5, <2>2, EnterServer DEF InFlight, Ends, RoomInv
    <3> QED BY <3>1
  <2> QED BY <2>1, <2>2 DEF JoinsInTurn, Socket
<1> QED BY <1>2, <1>6, <1>7, <1>9, <1>11, <1>12 DEF RoomInv
\* Calls that fail, or end without a join, and sockets that are closed, or not
\* touched at all, leave everything in order.
LEMMA RoomQuiet ==
  ASSUME RoomInv, ServerTypeOK', OneAtATime', ~overlapped' => ~overlapped,
         \A c \in RoomCall : /\ request'[c] = request[c]
                             /\ \/ at'[c] = at[c]
                                \/ at[c] /= "idle" /\ at'[c] \in {"failed", "lost"}
                                \/ at[c] /= "idle" /\ at'[c] = "done" /\ ~Asks(c, "join")
                                \/ /\ at[c] /= "idle" /\ at'[c] = "findUser"
                                   /\ Asks(c, "connect") /\ request[c].token /= Nobody,
         attached' = attached,
         conn' \in [Sockets -> {"new", "open", "closed"}],
         rooms' \in [Sockets -> SUBSET LiveEvent],
         asked' \in [Sockets -> [LiveEvent -> RoomCall \cup {Nobody}]],
         \A s \in Sockets :
           \/ conn'[s] = conn[s] /\ rooms'[s] = rooms[s] /\ asked'[s] = asked[s]
           \/ conn'[s] /= "open" /\ rooms'[s] = {} /\ \A e \in LiveEvent : asked'[s][e] = Nobody
  PROVE  RoomInv'
<1> USE RoomsAssumption
<1>1. RoomsTypeOK'
  BY DEF RoomInv, RoomsTypeOK, RoomPlaces, Ends
<1>2. RoomCallsFit'
  BY DEF RoomInv, RoomCallsFit, Asks, Socket
<1>3. ListenersAreKnown'
  BY DEF RoomInv, ListenersAreKnown
<1>4. \A s \in Sockets, e \in LiveEvent : asked[s][e] \in RoomCall \cup {Nobody}
  BY DEF RoomInv, RoomsTypeOK
<1>5. AskedOfIts'
  BY <1>4 DEF RoomInv, AskedOfIts, Asks, Socket
<1>6. JoinsInTurn'
  <2> SUFFICES ASSUME ~overlapped' PROVE JoinsInTurn'
    BY DEF JoinsInTurn
  <2>1. ASSUME NEW s \in Sockets, NEW e \in LiveEvent
        PROVE  /\ e \in rooms'[s] => asked'[s][e] /= Nobody /\ ~Asks(asked[s][e], "leave")'
               /\ asked'[s][e] /= Nobody /\ Asks(asked[s][e], "join")' /\ at'[asked'[s][e]] = "done" => e \in rooms'[s]
    BY <1>4, <2>1 DEF RoomInv, JoinsInTurn, Asks
  <2>2. ASSUME NEW d \in RoomCall, at'[d] = "findEvent", request'[d].event /= NoEvent, conn'[Socket(d)'] = "open"
        PROVE  asked'[Socket(d)'][request'[d].event] = d
    <3>1. at[d] = "findEvent" /\ request'[d] = request[d] /\ Socket(d)' = Socket(d)
      BY <2>2 DEF Socket
    <3>2. request[d] \in RoomRequests
      BY <3>1 DEF RoomInv, RoomsTypeOK
    <3>3. Socket(d) \in Sockets
      BY <3>2, RoomRequestsAre DEF Socket
    <3>4. conn[Socket(d)] = "open" /\ asked'[Socket(d)] = asked[Socket(d)]
      BY <2>2, <3>1, <3>3
    <3> QED BY <2>2, <3>1, <3>4 DEF RoomInv, JoinsInTurn
  <2> QED BY <2>1, <2>2 DEF JoinsInTurn
<1> QED BY <1>1, <1>2, <1>3, <1>5, <1>6 DEF RoomInv

LEMMA RoomGoto ==
  ASSUME RoomInv, NEW c \in RoomCall, at[c] \in RoomPlaces, NEW place, Goto(c, place)
  PROVE  /\ ServerTypeOK' /\ OneAtATime' /\ overlapped' = overlapped /\ request' = request
         /\ at'[c] = place /\ \A d \in RoomCall : d /= c => at'[d] = at[d]
         /\ c \in InFlight /\ request[c] \in RoomRequests /\ Socket(c) \in Sockets
<1>1. c \in InFlight /\ c \in Calls
  BY RoomsAssumption DEF InFlight, Ends, RoomPlaces
<1>2. request[c] \in RoomRequests
  BY DEF RoomInv, RoomsTypeOK, RoomPlaces
<1>3. Socket(c) \in Sockets
  BY <1>2, RoomRequestsAre DEF Socket
<1> QED BY <1>1, <1>2, <1>3, GotoServer, GotoInTurn, RoomsAssumption DEF RoomInv

LEMMA CloseTypes ==
  ASSUME RoomInv, NEW s \in Sockets, Close(s)
  PROVE  /\ attached' = attached /\ conn' \in [Sockets -> {"new", "open", "closed"}]
         /\ rooms' \in [Sockets -> SUBSET LiveEvent]
         /\ asked' \in [Sockets -> [LiveEvent -> RoomCall \cup {Nobody}]]
         /\ \A t \in Sockets :
              \/ conn'[t] = conn[t] /\ rooms'[t] = rooms[t] /\ asked'[t] = asked[t]
              \/ conn'[t] /= "open" /\ rooms'[t] = {} /\ \A e \in LiveEvent : asked'[t][e] = Nobody
BY DEF RoomInv, RoomsTypeOK, Close

LEMMA TurnsInv ==
  ASSUME RoomInv, NEW c \in RoomCall, at[c] \in RoomPlaces, NEW place, Turns(c, place),
         \/ place = "failed"
         \/ place = "done" /\ ~Asks(c, "join")
         \/ place = "findUser" /\ Asks(c, "connect") /\ request[c].token /= Nobody
  PROVE  RoomInv'
<1>1. Goto(c, place) /\ UNCHANGED roomVars
  BY DEF Turns
<1>2. RoomsTypeOK
  BY DEF RoomInv
<1> QED BY <1>1, <1>2, RoomGoto, RoomQuiet DEF RoomsTypeOK, RoomPlaces

LEMMA VerifyTokenInv == ASSUME RoomInv, NEW c \in RoomCall, VerifyToken(c) PROVE RoomInv'
<1>1. at[c] \in RoomPlaces /\ at[c] /= "idle" /\ Asks(c, "connect") /\ ~Asks(c, "join")
  BY DEF VerifyToken, RoomPlaces, Asks
<1>2. CASE request[c].token = Nobody
  <2>1. Goto(c, "done") /\ Close(Socket(c))
    BY <1>2 DEF VerifyToken
  <2> QED BY <1>1, <2>1, RoomGoto, CloseTypes, RoomQuiet
<1>3. CASE request[c].token /= Nobody
  BY <1>1, <1>3, TurnsInv DEF VerifyToken
<1> QED BY <1>2, <1>3

LEMMA DisconnectInv == ASSUME RoomInv, NEW s \in Sockets, Disconnect(s) PROVE RoomInv'
<1>1. UNCHANGED <<callVars, at>> /\ Close(s)
  BY DEF Disconnect
<1>2. ServerTypeOK' /\ OneAtATime' /\ overlapped' = overlapped
  BY <1>1 DEF RoomInv, ServerTypeOK, OneAtATime, InFlight, callVars
<1> QED BY <1>1, <1>2, CloseTypes, RoomQuiet DEF callVars

LEMMA RoomFailInv == ASSUME RoomInv, RoomFail PROVE RoomInv'
<1>1. PICK c \in InFlight \cap RoomCall :
        Lose({c}) /\ IF Asks(c, "connect") THEN Close(Socket(c)) ELSE UNCHANGED roomVars
  BY DEF RoomFail
<1>2. at[c] \in RoomPlaces /\ at[c] /= "idle"
  BY DEF RoomInv, RoomsTypeOK, InFlight, RoomPlaces
<1>3. request[c] \in RoomRequests
  BY <1>2 DEF RoomInv, RoomsTypeOK
<1>4. Socket(c) \in Sockets
  BY <1>3, RoomRequestsAre DEF Socket
<1>5. ServerTypeOK' /\ OneAtATime' /\ overlapped' = overlapped /\ request' = request
      /\ \A d \in RoomCall : at'[d] = IF d = c THEN "lost" ELSE at[d]
  BY <1>1, LoseServer, LoseInTurn, RoomsAssumption DEF RoomInv
<1>6. CASE Close(Socket(c))
  BY <1>2, <1>4, <1>5, <1>6, CloseTypes, RoomQuiet
<1>7. CASE UNCHANGED roomVars
  BY <1>2, <1>5, <1>7, RoomQuiet DEF RoomInv, RoomsTypeOK
<1> QED BY <1>1, <1>6, <1>7

LEMMA RoomDieInv == ASSUME RoomInv, Lose(InFlight), RoomCrash PROVE RoomInv'
<1>1. ServerTypeOK' /\ OneAtATime' /\ overlapped' = overlapped /\ request' = request
      /\ \A d \in RoomCall : at'[d] = IF d \in InFlight THEN "lost" ELSE at[d]
  BY LoseServer, LoseInTurn, RoomsAssumption DEF RoomInv
<1>2. \A d \in RoomCall : d \in InFlight => at[d] /= "idle"
  BY DEF InFlight
<1>3. attached' = attached /\ conn' \in [Sockets -> {"new", "open", "closed"}]
      /\ rooms' \in [Sockets -> SUBSET LiveEvent]
      /\ asked' \in [Sockets -> [LiveEvent -> RoomCall \cup {Nobody}]]
  BY DEF RoomInv, RoomsTypeOK, RoomCrash
<1>4. \A s \in Sockets : conn'[s] /= "open" /\ rooms'[s] = {} /\ \A e \in LiveEvent : asked'[s][e] = Nobody
  BY DEF RoomCrash
<1> QED BY <1>1, <1>2, <1>3, <1>4, RoomQuiet
LEMMA AttachUserInv == ASSUME RoomInv, NEW c \in RoomCall, AttachUser(c) PROVE RoomInv'
<1> USE RoomsAssumption
<1> DEFINE s == Socket(c)
<1>1. /\ at[c] = "findUser" /\ at[c] \in RoomPlaces /\ Goto(c, "done")
      /\ attached' = [attached EXCEPT ![s] = request[c].token] /\ UNCHANGED <<conn, rooms, asked>>
  BY DEF AttachUser, RoomPlaces
<1>2. Asks(c, "connect") /\ request[c].token /= Nobody /\ ~Asks(c, "join")
  BY <1>1 DEF RoomInv, RoomCallsFit, Asks
<1>3. /\ ServerTypeOK' /\ OneAtATime' /\ overlapped' = overlapped /\ request' = request
      /\ at'[c] = "done" /\ \A d \in RoomCall : d /= c => at'[d] = at[d]
      /\ request[c] \in RoomRequests /\ s \in Sockets
  BY <1>1, RoomGoto
<1>4. request[c].token \in People
  BY <1>2, <1>3, RoomRequestsAre DEF Asks
<1>5. attached'[s] /= Nobody /\ \A t \in Sockets : t /= s => attached'[t] = attached[t]
  BY <1>1, <1>2, <1>3 DEF RoomInv, RoomsTypeOK
<1>6. RoomsTypeOK'
  BY <1>1, <1>3, <1>4 DEF RoomInv, RoomsTypeOK, Ends
<1>7. \A d \in RoomCall : at[d] = "findEvent" => request[d] \in RoomRequests
  BY DEF RoomInv, RoomsTypeOK
<1>8. \A d \in RoomCall : at[d] = "findEvent" => Socket(d) \in Sockets
  BY <1>7, RoomRequestsAre DEF Socket
<1>9. RoomCallsFit'
  BY <1>3, <1>5, <1>8 DEF RoomInv, RoomCallsFit, Asks, Socket
<1>10. ListenersAreKnown'
  BY <1>1, <1>5 DEF RoomInv, ListenersAreKnown
<1>11. AskedOfIts'
  BY <1>1, <1>3 DEF RoomInv, AskedOfIts, Asks, Socket, RoomsTypeOK
<1>12. JoinsInTurn'
  <2>1. \A t \in Sockets, e \in LiveEvent : asked[t][e] \in RoomCall \cup {Nobody}
    BY DEF RoomInv, RoomsTypeOK
  <2>2. \A d \in RoomCall : /\ Asks(d, "join") /\ at'[d] = "done" => at[d] = "done"
                            /\ at'[d] = "findEvent" => at[d] = "findEvent"
    BY <1>2, <1>3
  <2> QED BY <1>1, <1>3, <2>1, <2>2 DEF RoomInv, JoinsInTurn, Asks, Socket
<1> QED BY <1>3, <1>6, <1>9, <1>10, <1>11, <1>12 DEF RoomInv

\* A message of a socket that is open is the last about its event, and the only
\* one in turn.
LEMMA AskInv ==
  ASSUME RoomInv, NEW c \in RoomCall, at[c] = "start", Asks(c, "join") \/ Asks(c, "leave"),
         request[c].event \in LiveEvent, conn[Socket(c)] = "open", attached[Socket(c)] /= Nobody,
         NEW place, Goto(c, place), UNCHANGED <<conn, attached>>,
         asked' = [asked EXCEPT ![Socket(c)][request[c].event] = c],
         \/ Asks(c, "join") /\ place = "findEvent" /\ rooms' = rooms
         \/ /\ Asks(c, "leave") /\ place = "done"
            /\ rooms' = [rooms EXCEPT ![Socket(c)] = @ \ {request[c].event}]
  PROVE  RoomInv'
<1> USE RoomsAssumption
<1> DEFINE s == Socket(c)
           e == request[c].event
<1>1. at[c] \in RoomPlaces
  BY DEF RoomPlaces
<1>2. /\ ServerTypeOK' /\ OneAtATime' /\ overlapped' = overlapped /\ request' = request
      /\ at'[c] = place /\ \A d \in RoomCall : d /= c => at'[d] = at[d]
      /\ c \in InFlight /\ request[c] \in RoomRequests /\ s \in Sockets
  BY <1>1, RoomGoto
<1>3. \A t \in Sockets, f \in LiveEvent :
        /\ asked[t][f] \in RoomCall \cup {Nobody}
        /\ asked'[t][f] = IF t = s /\ f = e THEN c ELSE asked[t][f]
        /\ f \in rooms'[t] <=> f \in rooms[t] /\ ~(t = s /\ f = e /\ Asks(c, "leave"))
  BY <1>2 DEF RoomInv, RoomsTypeOK, Asks
<1>4. asked' \in [Sockets -> [LiveEvent -> RoomCall \cup {Nobody}]] /\ rooms' \in [Sockets -> SUBSET LiveEvent]
  BY <1>2 DEF RoomInv, RoomsTypeOK
<1>5. RoomsTypeOK'
  BY <1>2, <1>4 DEF RoomInv, RoomsTypeOK, Ends, RoomPlaces
<1>6. RoomCallsFit'
  BY <1>2 DEF RoomInv, RoomCallsFit, Asks, Socket
<1>7. \A t \in Sockets : rooms'[t] \subseteq rooms[t]
  <2>1. rooms' = rooms \/ rooms' = [rooms EXCEPT ![s] = @ \ {e}]
    OBVIOUS
  <2>2. DOMAIN rooms = Sockets
    BY DEF RoomInv, RoomsTypeOK
  <2> QED BY <2>1, <2>2
<1>8. ListenersAreKnown'
  BY <1>7 DEF RoomInv, ListenersAreKnown
<1>9. AskedOfIts'
  BY <1>2, <1>3 DEF RoomInv, AskedOfIts, Asks, Socket
<1>10. JoinsInTurn'
  <2> SUFFICES ASSUME ~overlapped' PROVE JoinsInTurn'
    BY DEF JoinsInTurn
  <2>1. ASSUME NEW t \in Sockets, NEW f \in LiveEvent
        PROVE  /\ f \in rooms'[t] => asked'[t][f] /= Nobody /\ ~Asks(asked[t][f], "leave")'
               /\ asked'[t][f] /= Nobody /\ Asks(asked[t][f], "join")' /\ at'[asked'[t][f]] = "done" => f \in rooms'[t]
    <3>1. CASE t = s /\ f = e
      BY <1>2, <1>3, <3>1 DEF Asks
    <3>2. CASE ~(t = s /\ f = e)
      <4>1. asked'[t][f] = asked[t][f] /\ (f \in rooms'[t] <=> f \in rooms[t])
        BY <1>3, <3>2
      <4>2. /\ f \in rooms[t] => asked[t][f] /= Nobody /\ ~Asks(asked[t][f], "leave")
            /\ asked[t][f] /= Nobody /\ Asks(asked[t][f], "join") /\ at[asked[t][f]] = "done" => f \in rooms[t]
        BY <1>2 DEF RoomInv, JoinsInTurn
      <4>3. asked[t][f] /= Nobody => asked[t][f] /= c
        BY <3>2 DEF RoomInv, AskedOfIts
      <4> QED BY <1>2, <1>3, <4>1, <4>2, <4>3 DEF Asks
    <3> QED BY <3>1, <3>2
  <2>2. ASSUME NEW d \in RoomCall, at'[d] = "findEvent"
        PROVE  d = c
    <3>1. CASE d /= c
      <4>1. d \in InFlight
        BY <1>2, <2>2, <3>1 DEF InFlight, Ends
      <4> QED BY <1>2, <3>1, <4>1 DEF RoomInv, OneAtATime
    <3> QED BY <3>1
  <2>3. asked'[s][e] = c
    BY <1>2, <1>3
  <2> QED BY <1>2, <2>1, <2>2, <2>3 DEF JoinsInTurn, Socket
<1> QED BY <1>2, <1>5, <1>6, <1>8, <1>9, <1>10 DEF RoomInv
LEMMA StartJoinInv == ASSUME RoomInv, NEW c \in RoomCall, StartJoin(c) PROVE RoomInv'
<1> USE RoomsAssumption
<1>1. at[c] = "start" /\ at[c] \in RoomPlaces /\ Asks(c, "join")
  BY DEF StartJoin, RoomPlaces
<1>2. request[c] \in RoomRequests
  BY <1>1 DEF RoomInv, RoomsTypeOK
<1>3. request[c].event \in LiveEvent \cup {NoEvent} /\ Socket(c) \in Sockets
  BY <1>1, <1>2, RoomRequestsAre DEF Asks, Socket
<1>4. CASE ~Authenticated(Socket(c))
  BY <1>1, <1>4, TurnsInv DEF StartJoin
<1>5. CASE Authenticated(Socket(c))
  <2>1. Goto(c, "findEvent") /\ asked' = Ask(c) /\ UNCHANGED <<conn, attached, rooms>>
    BY <1>5 DEF StartJoin
  <2>2. attached[Socket(c)] /= Nobody
    BY <1>5 DEF Authenticated
  <2>3. CASE request[c].event /= NoEvent /\ conn[Socket(c)] = "open"
    <3>1. asked' = [asked EXCEPT ![Socket(c)][request[c].event] = c]
      BY <2>1, <2>3 DEF Ask
    <3> QED BY <1>1, <1>3, <2>1, <2>2, <2>3, <3>1, AskInv
  <2>4. CASE request[c].event = NoEvent \/ conn[Socket(c)] /= "open"
    <3>1. asked' = asked
      BY <2>1, <2>4 DEF Ask
    <3>2. /\ ServerTypeOK' /\ OneAtATime' /\ overlapped' = overlapped /\ request' = request
          /\ at'[c] = "findEvent" /\ \A d \in RoomCall : d /= c => at'[d] = at[d]
      BY <1>1, <2>1, RoomGoto
    <3>3. RoomsTypeOK'
      BY <1>2, <2>1, <3>1, <3>2 DEF RoomInv, RoomsTypeOK, RoomPlaces
    <3>4. RoomCallsFit'
      BY <1>1, <2>1, <2>2, <3>2 DEF RoomInv, RoomCallsFit, Asks, Socket
    <3>5. ListenersAreKnown'
      BY <2>1 DEF RoomInv, ListenersAreKnown
    <3>6. \A t \in Sockets, e \in LiveEvent : asked[t][e] \in RoomCall \cup {Nobody}
      BY DEF RoomInv, RoomsTypeOK
    <3>7. AskedOfIts'
      BY <2>1, <3>1, <3>2, <3>6 DEF RoomInv, AskedOfIts, Asks, Socket
    <3>8. \A d \in RoomCall : at'[d] = "done" => at[d] = "done"
      BY <3>2
    <3>9. \A d \in RoomCall :
            at'[d] = "findEvent" /\ request'[d].event /= NoEvent /\ conn'[Socket(d)] = "open" => at[d] = "findEvent"
      BY <2>1, <2>4, <3>2
    <3>10. JoinsInTurn'
      BY <2>1, <3>1, <3>2, <3>6, <3>8, <3>9 DEF RoomInv, JoinsInTurn, Asks, Socket
    <3> QED BY <3>2, <3>3, <3>4, <3>5, <3>7, <3>10 DEF RoomInv
  <2> QED BY <2>3, <2>4
<1> QED BY <1>4, <1>5

LEMMA FindEventInv == ASSUME RoomInv, NEW c \in RoomCall, FindEvent(c) PROVE RoomInv'
<1> USE RoomsAssumption
<1> DEFINE s == Socket(c)
           e == request[c].event
<1>1. at[c] = "findEvent" /\ at[c] \in RoomPlaces
  BY DEF FindEvent, RoomPlaces
<1>2. Asks(c, "join") /\ attached[s] /= Nobody
  BY <1>1 DEF RoomInv, RoomCallsFit
<1>3. request[c] \in RoomRequests
  BY <1>1 DEF RoomInv, RoomsTypeOK
<1>4. e \in LiveEvent \cup {NoEvent} /\ s \in Sockets
  BY <1>2, <1>3, RoomRequestsAre DEF Asks, Socket
<1>5. CASE e = NoEvent
  BY <1>1, <1>5, TurnsInv DEF FindEvent
<1>6. CASE e /= NoEvent
  <2>1. Goto(c, "done") /\ Joins(c) /\ UNCHANGED <<conn, attached, asked>>
    BY <1>6 DEF FindEvent
  <2>2. /\ ServerTypeOK' /\ OneAtATime' /\ overlapped' = overlapped /\ request' = request
        /\ at'[c] = "done" /\ \A d \in RoomCall : d /= c => at'[d] = at[d]
    BY <1>1, <2>1, RoomGoto
  <2>3. DOMAIN rooms = Sockets /\ \A t \in Sockets : rooms[t] \subseteq LiveEvent
    BY DEF RoomInv, RoomsTypeOK
  <2>4. \A t \in Sockets :
          rooms'[t] = IF t = s /\ conn[s] = "open" THEN rooms[t] \cup {e} ELSE rooms[t]
    BY <1>4, <2>1, <2>3 DEF Joins
  <2>5. rooms' \in [Sockets -> SUBSET LiveEvent]
    BY <1>4, <1>6, <2>1 DEF RoomInv, RoomsTypeOK, Joins
  <2>6. RoomsTypeOK'
    BY <2>1, <2>2, <2>5, <1>3 DEF RoomInv, RoomsTypeOK, Ends
  <2>7. RoomCallsFit'
    BY <2>1, <2>2 DEF RoomInv, RoomCallsFit, Asks, Socket
  <2>8. ListenersAreKnown'
    BY <1>2, <2>1, <2>4 DEF RoomInv, ListenersAreKnown
  <2>9. \A t \in Sockets, f \in LiveEvent : asked[t][f] \in RoomCall \cup {Nobody}
    BY DEF RoomInv, RoomsTypeOK
  <2>10. AskedOfIts'
    BY <2>1, <2>2, <2>9 DEF RoomInv, AskedOfIts, Asks, Socket
  <2>11. JoinsInTurn'
    <3> SUFFICES ASSUME ~overlapped' PROVE JoinsInTurn'
      BY DEF JoinsInTurn
    <3>1. conn[s] = "open" => asked[s][e] = c
      BY <1>1, <1>6, <2>2 DEF RoomInv, JoinsInTurn
    <3>2. ASSUME NEW t \in Sockets, NEW f \in LiveEvent
          PROVE  /\ f \in rooms'[t] => asked'[t][f] /= Nobody /\ ~Asks(asked[t][f], "leave")'
                 /\ asked'[t][f] /= Nobody /\ Asks(asked[t][f], "join")' /\ at'[asked'[t][f]] = "done" => f \in rooms'[t]
      <4>1. /\ f \in rooms[t] => asked[t][f] /= Nobody /\ ~Asks(asked[t][f], "leave")
            /\ asked[t][f] /= Nobody /\ Asks(asked[t][f], "join") /\ at[asked[t][f]] = "done" => f \in rooms[t]
        BY <2>2 DEF RoomInv, JoinsInTurn
      <4>2. asked[t][f] = c => t = s /\ f = e /\ conn[s] = "open"
        BY DEF RoomInv, AskedOfIts
      <4>3. f \in rooms'[t] => f \in rooms[t] \/ (f = e /\ t = s /\ conn[s] = "open")
        BY <2>4
      <4>4. ASSUME asked'[t][f] /= Nobody, Asks(asked[t][f], "join")', at'[asked'[t][f]] = "done"
            PROVE  f \in rooms'[t]
        <5>1. CASE asked[t][f] = c
          BY <2>4, <4>2, <5>1
        <5>2. CASE asked[t][f] /= c
          BY <2>1, <2>2, <2>4, <2>9, <4>1, <4>4, <5>2 DEF Asks
        <5> QED BY <5>1, <5>2
      <4>5. c /= Nobody /\ ~Asks(c, "leave")
        BY <1>2 DEF Asks
      <4>6. ASSUME f \in rooms'[t] PROVE asked'[t][f] /= Nobody /\ ~Asks(asked[t][f], "leave")'
        BY <2>1, <2>2, <3>1, <4>1, <4>3, <4>5, <4>6 DEF Asks
      <4> QED BY <4>4, <4>6
    <3>3. \A d \in RoomCall : at'[d] = "findEvent" => at[d] = "findEvent"
      BY <2>2
    <3> QED BY <2>1, <2>2, <3>2, <3>3 DEF RoomInv, JoinsInTurn, Socket
  <2> QED BY <2>2, <2>6, <2>7, <2>8, <2>10, <2>11 DEF RoomInv
<1> QED BY <1>5, <1>6

LEMMA LeaveRoomInv == ASSUME RoomInv, NEW c \in RoomCall, LeaveRoom(c) PROVE RoomInv'
<1> USE RoomsAssumption
<1>1. at[c] = "start" /\ at[c] \in RoomPlaces /\ Asks(c, "leave") /\ ~Asks(c, "join")
  BY DEF LeaveRoom, RoomPlaces, Asks
<1>2. request[c] \in RoomRequests
  BY <1>1 DEF RoomInv, RoomsTypeOK
<1>3. request[c].event \in LiveEvent /\ Socket(c) \in Sockets
  BY <1>1, <1>2, RoomRequestsAre DEF Asks, Socket
<1>4. CASE ~Authenticated(Socket(c))
  BY <1>1, <1>4, TurnsInv DEF LeaveRoom
<1>5. CASE Authenticated(Socket(c))
  <2>1. /\ Goto(c, "done") /\ asked' = Ask(c) /\ UNCHANGED <<conn, attached>>
        /\ rooms' = [rooms EXCEPT ![Socket(c)] = @ \ {request[c].event}]
    BY <1>5 DEF LeaveRoom
  <2>2. attached[Socket(c)] /= Nobody /\ request[c].event /= NoEvent
    BY <1>3, <1>5 DEF Authenticated
  <2>3. CASE conn[Socket(c)] = "open"
    <3>1. asked' = [asked EXCEPT ![Socket(c)][request[c].event] = c]
      BY <2>1, <2>2, <2>3 DEF Ask
    <3> QED BY <1>1, <1>3, <2>1, <2>2, <2>3, <3>1, AskInv
  <2>4. CASE conn[Socket(c)] /= "open"
    <3>1. asked' = asked
      BY <2>1, <2>4 DEF Ask
    <3>2. rooms[Socket(c)] = {} /\ rooms \in [Sockets -> SUBSET LiveEvent]
      BY <1>3, <2>4 DEF RoomInv, ListenersAreKnown, RoomsTypeOK
    <3>3. rooms' = rooms
      BY <1>3, <2>1, <3>2
    <3> QED BY <1>1, <2>1, <3>1, <3>3, TurnsInv DEF Turns
  <2> QED BY <2>3, <2>4
<1> QED BY <1>4, <1>5
(***************************************************************************)
(* The devices.                                                            *)
(***************************************************************************)

\* A call about devices stands where its kind leads.
DeviceCallFits(c) ==
  /\ at[c] = "write" => Op(c) \in {"register", "update", "deactivate", "remove"}
  /\ at[c] = "insert" => Op(c) = "register"
  /\ at[c] \in {"push", "single"} => Op(c) = "send"

\* In turn, what a call has read still holds when it writes or pushes.
ReadsHold(c) ==
  /\ at[c] = "write" /\ Op(c) = "register" =>
       /\ found[c] \in Rows
       /\ device[found[c]].user = request[c].user /\ device[found[c]].token = request[c].token
  /\ at[c] \in {"push", "single"} =>
       \A t \in left[c] : \E d \in With(t) : device[d].user \in request[c].to

\* A device was inserted by a call that is done, and pushed to by one that has begun.
TracesOfCalls ==
  /\ \A c \in DeviceCall : device[c] /= NoDevice => at[c] = "done"
  /\ \A p \in delivered : at[p.by] /= "idle"

DeviceInv ==
  /\ ServerTypeOK /\ OneAtATime /\ DevicesTypeOK
  /\ \A c \in DeviceCall : DeviceCallFits(c)
  /\ ~overlapped => \A c \in DeviceCall : ReadsHold(c)
  /\ TracesOfCalls /\ RegistrationsHold /\ MessagesReachTheirUsers

LEMMA DeviceInitInv == CallsInit /\ DevicesInit => DeviceInv
<1> SUFFICES ASSUME CallsInit, DevicesInit PROVE DeviceInv OBVIOUS
<1> USE DevicesAssumption
<1>1. ServerTypeOK /\ InFlight = {}
  BY CallsInitServer
<1>2. \A c \in DeviceCall : at[c] = "idle" /\ request[c] = NoRequest
  BY DEF CallsInit
<1>3. PICK old \in DeviceRow \cup {NoDevice} :
        device = [d \in Ids |-> IF d = OldDevice THEN old ELSE NoDevice]
  BY DEF DevicesInit
<1>4. DevicesTypeOK
  BY <1>2, <1>3 DEF DevicesInit, DevicesTypeOK
<1>5. OneAtATime
  BY <1>1 DEF OneAtATime
<1>6. \A c \in DeviceCall : DeviceCallFits(c) /\ ReadsHold(c)
  BY <1>2 DEF DeviceCallFits, ReadsHold
<1>7. TracesOfCalls
  BY <1>3 DEF TracesOfCalls, DevicesInit, Ids
<1>8. Rows \subseteq {OldDevice}
  BY <1>3 DEF Rows
<1>9. RegistrationsHold /\ MessagesReachTheirUsers
  BY <1>8 DEF RegistrationsHold, MessagesReachTheirUsers, DevicesInit
<1> QED BY <1>1, <1>4, <1>5, <1>6, <1>7, <1>9 DEF DeviceInv

LEMMA DeviceRequestsAre ==
  ASSUME NEW r \in DeviceRequests
  PROVE  /\ r.op \in {"register", "update", "deactivate", "remove", "send"}
         /\ r.op /= "send" => r.user \in Users
         /\ r.op = "register" => r.token \in Tokens
         /\ r.op = "update" => r.token \in Tokens \cup {Null} /\ r.active \in BOOLEAN \cup {Null}
         /\ r.op \in {"update", "deactivate", "remove"} => r.device \in Ids
         /\ r.op = "send" => r.to \in SUBSET Users
BY DEF DeviceRequests

\* A step that changes no device and pushes nothing keeps what it does not spoil
\* for its own call.
LEMMA DeviceQuiet ==
  ASSUME DeviceInv, ServerTypeOK', OneAtATime', ~overlapped' => ~overlapped,
         UNCHANGED <<device, delivered, promised>>,
         found' \in [DeviceCall -> Ids \cup {Null}], left' \in [DeviceCall -> SUBSET Tokens],
         \A c \in DeviceCall :
           /\ request'[c] = request[c]
           /\ \/ at'[c] = at[c] /\ found'[c] = found[c] /\ left'[c] = left[c]
              \/ /\ at[c] \notin {"idle"} \cup Ends /\ at'[c] \in DevicePlaces \cup Ends
                 /\ DeviceCallFits(c)' /\ (~overlapped' => ReadsHold(c)')
  PROVE  DeviceInv'
<1> USE DevicesAssumption
<1>1. DevicesTypeOK'
  <2>1. "idle" \notin DevicePlaces \cup Ends
    BY DEF DevicePlaces, Ends
  <2>2. \A c \in DeviceCall : request'[c] \in IF at'[c] = "idle" THEN {NoRequest} ELSE DeviceRequests
    BY <2>1 DEF DeviceInv, DevicesTypeOK
  <2>3. \A c \in DeviceCall : at'[c] \in {"idle"} \cup DevicePlaces \cup Ends
    BY DEF DeviceInv, DevicesTypeOK
  <2> QED BY <2>2, <2>3 DEF DeviceInv, DevicesTypeOK
<1>2. \A c \in DeviceCall : DeviceCallFits(c)'
  BY DEF DeviceInv, DeviceCallFits, Op
<1>3. ~overlapped' => \A c \in DeviceCall : ReadsHold(c)'
  BY DEF DeviceInv, ReadsHold, Op, Rows, With
<1>4. TracesOfCalls'
  <2>1. \A p \in delivered : p.by \in DeviceCall
    BY DEF DeviceInv, DevicesTypeOK
  <2>2. \A c \in DeviceCall : (at[c] = "done" => at'[c] = "done") /\ (at[c] /= "idle" => at'[c] /= "idle")
    BY DEF Ends, DevicePlaces
  <2> QED BY <2>1, <2>2 DEF DeviceInv, TracesOfCalls
<1>5. RegistrationsHold'
  BY DEF DeviceInv, RegistrationsHold, Rows, With
<1>6. MessagesReachTheirUsers'
  <2>1. \A p \in delivered : p.by \in DeviceCall
    BY DEF DeviceInv, DevicesTypeOK
  <2> QED BY <2>1 DEF DeviceInv, MessagesReachTheirUsers
<1> QED BY <1>1, <1>2, <1>3, <1>4, <1>5, <1>6 DEF DeviceInv

LEMMA DeviceGoto ==
  ASSUME DeviceInv, NEW c \in DeviceCall, at[c] \in DevicePlaces, NEW place, Goto(c, place)
  PROVE  /\ ServerTypeOK' /\ OneAtATime' /\ overlapped' = overlapped /\ request' = request
         /\ at'[c] = place /\ \A d \in DeviceCall : d /= c => at'[d] = at[d]
         /\ c \in InFlight /\ request[c] \in DeviceRequests
         /\ at[c] \notin {"idle"} \cup Ends
<1>1. c \in InFlight /\ c \in Calls /\ at[c] \notin {"idle"} \cup Ends
  BY DevicesAssumption DEF InFlight, Ends, DevicePlaces
<1>2. request[c] \in DeviceRequests
  BY DEF DeviceInv, DevicesTypeOK, DevicePlaces
<1> QED BY <1>1, <1>2, GotoServer, GotoInTurn, DevicesAssumption DEF DeviceInv

\* A call that moves on and remembers at most what it read.
LEMMA StepsInv ==
  ASSUME DeviceInv, NEW c \in DeviceCall, at[c] \in DevicePlaces, NEW place, Steps(c, place),
         \/ place \in {"findToken", "done", "failed"}
         \/ place = "insert" /\ Op(c) = "register"
         \/ place = "write" /\ Op(c) = "update"
  PROVE  DeviceInv'
<1>1. Goto(c, place) /\ UNCHANGED deviceVars
  BY DEF Steps
<1>2. /\ ServerTypeOK' /\ OneAtATime' /\ overlapped' = overlapped /\ request' = request
      /\ at'[c] = place /\ \A d \in DeviceCall : d /= c => at'[d] = at[d]
      /\ at[c] \notin {"idle"} \cup Ends
  BY <1>1, DeviceGoto
<1>3. DeviceCallFits(c)' /\ ReadsHold(c)'
  BY <1>2 DEF DeviceCallFits, ReadsHold, Op
<1>4. found' \in [DeviceCall -> Ids \cup {Null}] /\ left' \in [DeviceCall -> SUBSET Tokens]
  BY <1>1 DEF DeviceInv, DevicesTypeOK
<1>5. at'[c] \in DevicePlaces \cup Ends
  BY <1>2 DEF DevicePlaces, Ends
<1> QED BY <1>1, <1>2, <1>3, <1>4, <1>5, DeviceQuiet

LEMMA DeviceArriveInv == ASSUME DeviceInv, NEW c \in DeviceCall, DeviceArrive(c) PROVE DeviceInv'
<1> USE DevicesAssumption
<1> DEFINE R == {r \in DeviceRequests : r.op \in {"update", "deactivate", "remove"} => r.device \in Rows}
<1>1. c \in Calls /\ Enter(c, R, "start") /\ UNCHANGED deviceVars
  BY DEF DeviceArrive
<1>2. /\ ServerTypeOK' /\ OneAtATime'
      /\ at[c] = "idle" /\ at'[c] = "start" /\ request'[c] \in DeviceRequests
      /\ \A d \in DeviceCall : d /= c => at'[d] = at[d] /\ request'[d] = request[d]
      /\ ~overlapped' => ~overlapped
  BY <1>1, EnterServer, EnterInTurn DEF DeviceInv
<1>3. DevicesTypeOK'
  BY <1>1, <1>2 DEF DeviceInv, DevicesTypeOK, DevicePlaces
<1>4. \A d \in DeviceCall : DeviceCallFits(d)'
  BY <1>2 DEF DeviceInv, DeviceCallFits, Op
<1>5. ~overlapped' => \A d \in DeviceCall : ReadsHold(d)'
  BY <1>1, <1>2 DEF DeviceInv, ReadsHold, Op, Rows, With
<1>6. \A p \in delivered : p.by \in DeviceCall /\ p.by /= c
  BY <1>2 DEF DeviceInv, DevicesTypeOK, TracesOfCalls
<1>7. TracesOfCalls'
  BY <1>1, <1>2, <1>6 DEF DeviceInv, TracesOfCalls
<1>8. RegistrationsHold'
  BY <1>1, <1>2 DEF DeviceInv, RegistrationsHold, Rows, With
<1>9. MessagesReachTheirUsers'
  BY <1>1, <1>2, <1>6 DEF DeviceInv, MessagesReachTheirUsers
<1> QED BY <1>2, <1>3, <1>4, <1>5, <1>7, <1>8, <1>9 DEF DeviceInv
LEMMA FindUserInv == ASSUME DeviceInv, NEW c \in DeviceCall, FindUser(c) PROVE DeviceInv'
<1>1. at[c] \in DevicePlaces /\ Steps(c, "findToken")
  BY DEF FindUser, DevicePlaces
<1> QED BY <1>1, StepsInv

LEMMA FindTokenInv == ASSUME DeviceInv, NEW c \in DeviceCall, FindToken(c) PROVE DeviceInv'
<1>1. at[c] = "findToken" /\ at[c] \in DevicePlaces /\ Op(c) = "register"
  BY DEF FindToken, DevicePlaces
<1>2. CASE Steps(c, "insert") \/ Steps(c, "failed")
  BY <1>1, <1>2, StepsInv
<1>3. ASSUME NEW d \in With(request[c].token), device[d].user = request[c].user,
             found' = [found EXCEPT ![c] = d], Goto(c, "write"),
             UNCHANGED <<device, left, delivered, promised>>
      PROVE  DeviceInv'
  <2>1. /\ ServerTypeOK' /\ OneAtATime' /\ overlapped' = overlapped /\ request' = request
        /\ at'[c] = "write" /\ \A e \in DeviceCall : e /= c => at'[e] = at[e]
        /\ at[c] \notin {"idle"} \cup Ends
    BY <1>1, <1>3, DeviceGoto
  <2>2. d \in Rows /\ device[d].token = request[c].token /\ d \in Ids
    BY DEF With, Rows
  <2>3. found' \in [DeviceCall -> Ids \cup {Null}] /\ left' \in [DeviceCall -> SUBSET Tokens]
        /\ found'[c] = d /\ \A e \in DeviceCall : e /= c => found'[e] = found[e]
    BY <1>3, <2>2 DEF DeviceInv, DevicesTypeOK
  <2>4. DeviceCallFits(c)' /\ ReadsHold(c)'
    BY <1>1, <1>3, <2>1, <2>2, <2>3 DEF DeviceCallFits, ReadsHold, Op, Rows
  <2>5. at'[c] \in DevicePlaces
    BY <2>1 DEF DevicePlaces
  <2> QED BY <1>3, <2>1, <2>3, <2>4, <2>5, DeviceQuiet
<1> QED BY <1>2, <1>3 DEF FindToken

LEMMA FindDeviceInv == ASSUME DeviceInv, NEW c \in DeviceCall, FindDevice(c) PROVE DeviceInv'
<1>1. at[c] = "start" /\ at[c] \in DevicePlaces /\ Op(c) \in {"update", "deactivate", "remove"}
  BY DEF FindDevice, DevicePlaces
<1>2. CASE ~Mine(c)
  <2>1. Steps(c, "failed")
    BY <1>2 DEF FindDevice
  <2> QED BY <1>1, <2>1, StepsInv
<1>3. CASE Mine(c)
  <2>1. PICK place \in {"findToken", "write"} : Goto(c, place)
    BY <1>3 DEF FindDevice
  <2>2. found' = [found EXCEPT ![c] = request[c].device] /\ UNCHANGED <<device, left, delivered, promised>>
    BY <1>3 DEF FindDevice
  <2>3. /\ ServerTypeOK' /\ OneAtATime' /\ overlapped' = overlapped /\ request' = request
        /\ at'[c] = place /\ \A e \in DeviceCall : e /= c => at'[e] = at[e]
        /\ at[c] \notin {"idle"} \cup Ends
    BY <1>1, <2>1, DeviceGoto
  <2>4. request[c].device \in Ids
    BY <1>3 DEF Mine, Rows
  <2>5. found' \in [DeviceCall -> Ids \cup {Null}] /\ left' \in [DeviceCall -> SUBSET Tokens]
        /\ \A e \in DeviceCall : e /= c => found'[e] = found[e]
    BY <2>2, <2>4 DEF DeviceInv, DevicesTypeOK
  <2>6. DeviceCallFits(c)' /\ ReadsHold(c)'
    BY <1>1, <2>3 DEF DeviceCallFits, ReadsHold, Op
  <2>7. at'[c] \in DevicePlaces
    BY <2>3 DEF DevicePlaces
  <2> QED BY <2>2, <2>3, <2>5, <2>6, <2>7, DeviceQuiet
<1> QED BY <1>2, <1>3

LEMMA FindNewTokenInv == ASSUME DeviceInv, NEW c \in DeviceCall, FindNewToken(c) PROVE DeviceInv'
<1>1. PICK place \in {"write", "failed"} : Steps(c, place)
  BY DEF FindNewToken
<1>2. at[c] \in DevicePlaces /\ Op(c) = "update"
  BY DEF FindNewToken, DevicePlaces
<1> QED BY <1>1, <1>2, StepsInv

LEMMA ReadDevicesInv == ASSUME DeviceInv, NEW c \in DeviceCall, ReadDevices(c) PROVE DeviceInv'
<1>1. at[c] = "start" /\ at[c] \in DevicePlaces /\ Op(c) = "send"
  BY DEF ReadDevices, DevicePlaces
<1>2. CASE Targets(c) = {}
  <2>1. Steps(c, "failed")
    BY <1>2 DEF ReadDevices
  <2> QED BY <1>1, <2>1, StepsInv
<1>3. CASE Targets(c) /= {}
  <2>1. Goto(c, "push") /\ left' = [left EXCEPT ![c] = Targets(c)] /\ UNCHANGED <<device, found, delivered, promised>>
    BY <1>3 DEF ReadDevices
  <2>2. /\ ServerTypeOK' /\ OneAtATime' /\ overlapped' = overlapped /\ request' = request
        /\ at'[c] = "push" /\ \A e \in DeviceCall : e /= c => at'[e] = at[e]
        /\ at[c] \notin {"idle"} \cup Ends
    BY <1>1, <2>1, DeviceGoto
  <2>3. \A d \in Rows : device[d] \in DeviceRow
    BY DEF DeviceInv, DevicesTypeOK, Rows
  <2>4. Targets(c) \subseteq Tokens
    BY <2>3 DEF Targets, DeviceRow
  <2>5. found' \in [DeviceCall -> Ids \cup {Null}] /\ left' \in [DeviceCall -> SUBSET Tokens]
        /\ left'[c] = Targets(c) /\ \A e \in DeviceCall : e /= c => left'[e] = left[e]
    BY <2>1, <2>4 DEF DeviceInv, DevicesTypeOK
  <2>6. \A t \in Targets(c) : \E d \in With(t) : device[d].user \in request[c].to
    BY DEF Targets, Target, With
  <2>7. DeviceCallFits(c)' /\ ReadsHold(c)'
    BY <1>1, <2>1, <2>2, <2>5, <2>6 DEF DeviceCallFits, ReadsHold, Op, With, Rows
  <2>8. at'[c] \in DevicePlaces
    BY <2>2 DEF DevicePlaces
  <2> QED BY <2>1, <2>2, <2>5, <2>7, <2>8, DeviceQuiet
<1> QED BY <1>2, <1>3

LEMMA MarkInv == ASSUME DeviceInv, NEW c \in DeviceCall, Mark(c) PROVE DeviceInv'
<1>1. at[c] \in DevicePlaces /\ Steps(c, "done")
  BY DEF Mark, DevicePlaces
<1> QED BY <1>1, StepsInv
\* The token of a row is its own: whoever looks it up finds that row's owner.
LEMMA OwnerIs ==
  ASSUME DeviceInv, NEW t, NEW d \in With(t) PROVE Owner(t) = device[d].user
<1>1. With(t) /= {} /\ (CHOOSE e \in With(t) : TRUE) \in With(t)
  OBVIOUS
<1>2. (CHOOSE e \in With(t) : TRUE) = d
  BY <1>1 DEF DeviceInv, RegistrationsHold, With
<1> QED BY <1>1, <1>2 DEF Owner

LEMMA OwnerType == ASSUME DeviceInv, NEW t PROVE Owner(t) \in Users \cup {Null}
<1>1. CASE With(t) = {}
  BY <1>1 DEF Owner
<1>2. CASE With(t) /= {}
  <2>1. PICK d \in With(t) : TRUE
    BY <1>2
  <2>2. device[d] \in DeviceRow
    BY DEF With, Rows, DeviceInv, DevicesTypeOK
  <2> QED BY <2>1, <2>2, OwnerIs DEF DeviceRow
<1> QED BY <1>1, <1>2

\* A step of a message that pushes to some of the tokens left to it.
LEMMA PushesInv ==
  ASSUME DeviceInv, NEW c \in DeviceCall, at[c] \in {"push", "single"},
         NEW reached \in SUBSET left[c],
         delivered' = delivered \/ delivered' = delivered \cup Pushes(c, reached),
         left' \in [DeviceCall -> SUBSET Tokens], left'[c] \subseteq left[c],
         \A e \in DeviceCall : e /= c => left'[e] = left[e],
         NEW place \in {"single", "mark", "done"}, Goto(c, place),
         UNCHANGED <<device, found, promised>>
  PROVE  DeviceInv'
<1> USE DevicesAssumption
<1>1. at[c] \in DevicePlaces /\ at[c] \notin {"idle"} \cup Ends /\ Op(c) = "send"
  BY DEF DeviceInv, DeviceCallFits, DevicePlaces, Ends
<1>2. /\ ServerTypeOK' /\ OneAtATime' /\ overlapped' = overlapped /\ request' = request
      /\ at'[c] = place /\ \A e \in DeviceCall : e /= c => at'[e] = at[e]
      /\ request[c] \in DeviceRequests
  BY <1>1, DeviceGoto
<1>3. \A p \in Pushes(c, reached) : p.by = c /\ p.token \in reached /\ p.owner = Owner(p.token)
  BY DEF Pushes
<1>4. delivered' \subseteq [by : DeviceCall, token : Tokens, owner : Users \cup {Null}]
  <2>1. \A t \in reached : t \in Tokens /\ Owner(t) \in Users \cup {Null}
    BY OwnerType DEF DeviceInv, DevicesTypeOK
  <2>2. Pushes(c, reached) \subseteq [by : DeviceCall, token : Tokens, owner : Users \cup {Null}]
    BY <2>1 DEF Pushes
  <2> QED BY <2>2 DEF DeviceInv, DevicesTypeOK
<1>5. DevicesTypeOK'
  <2>1. \A d \in DeviceCall : request'[d] \in IF at'[d] = "idle" THEN {NoRequest} ELSE DeviceRequests
    BY <1>2 DEF DeviceInv, DevicesTypeOK
  <2>2. \A d \in DeviceCall : at'[d] \in {"idle"} \cup DevicePlaces \cup Ends
    BY <1>2 DEF DeviceInv, DevicesTypeOK, DevicePlaces, Ends
  <2> QED BY <1>4, <2>1, <2>2 DEF DeviceInv, DevicesTypeOK
<1>6. \A d \in DeviceCall : DeviceCallFits(d)'
  BY <1>1, <1>2 DEF DeviceInv, DeviceCallFits, Op
<1>7. ~overlapped' => \A d \in DeviceCall : ReadsHold(d)'
  BY <1>1, <1>2 DEF DeviceInv, ReadsHold, Op, Rows, With
<1>8. TracesOfCalls'
  <2>1. \A p \in delivered : p.by \in DeviceCall
    BY DEF DeviceInv, DevicesTypeOK
  <2>2. \A d \in DeviceCall : (at[d] = "done" => at'[d] = "done") /\ (at[d] /= "idle" => at'[d] /= "idle")
    BY <1>2, <1>1 DEF Ends
  <2>3. at'[c] /= "idle"
    BY <1>2
  <2> QED BY <1>3, <2>1, <2>2, <2>3 DEF DeviceInv, TracesOfCalls
<1>9. RegistrationsHold'
  BY <1>2 DEF DeviceInv, RegistrationsHold, Rows, With
<1>10. ASSUME ~overlapped, NEW p \in Pushes(c, reached) PROVE p.owner \in request[p.by].to
  <2>1. PICK d \in With(p.token) : device[d].user \in request[c].to
    BY <1>3, <1>10 DEF DeviceInv, ReadsHold
  <2> QED BY <1>3, <2>1, OwnerIs
<1>11. MessagesReachTheirUsers'
  BY <1>2, <1>10 DEF DeviceInv, MessagesReachTheirUsers
<1> QED BY <1>2, <1>5, <1>6, <1>7, <1>8, <1>9, <1>11 DEF DeviceInv

LEMMA MulticastInv == ASSUME DeviceInv, NEW c \in DeviceCall, Multicast(c) PROVE DeviceInv'
<1>1. PICK reached \in SUBSET left[c] :
        /\ delivered' = delivered \cup Pushes(c, reached)
        /\ \/ /\ left' = [left EXCEPT ![c] = {}]
              /\ Goto(c, IF reached = {} THEN "done" ELSE "mark")
           \/ UNCHANGED left /\ Goto(c, "single")
  BY DEF Multicast
<1>2. PICK place \in {"single", "mark", "done"} : Goto(c, place)
  BY <1>1
<1>3. left' \in [DeviceCall -> SUBSET Tokens] /\ left'[c] \subseteq left[c]
      /\ \A e \in DeviceCall : e /= c => left'[e] = left[e]
  BY <1>1 DEF DeviceInv, DevicesTypeOK
<1> QED BY <1>1, <1>2, <1>3, PushesInv DEF Multicast

LEMMA PushSingleInv == ASSUME DeviceInv, NEW c \in DeviceCall, PushSingle(c) PROVE DeviceInv'
<1>1. PICK t \in left[c] :
        /\ delivered' \in {delivered, delivered \cup Pushes(c, {t})}
        /\ left' = [left EXCEPT ![c] = @ \ {t}]
        /\ Goto(c, IF left[c] = {t} THEN "mark" ELSE "single")
  BY DEF PushSingle
<1>2. PICK place \in {"single", "mark", "done"} : Goto(c, place)
  BY <1>1
<1>3. left' \in [DeviceCall -> SUBSET Tokens] /\ left'[c] \subseteq left[c]
      /\ \A e \in DeviceCall : e /= c => left'[e] = left[e]
  BY <1>1 DEF DeviceInv, DevicesTypeOK
<1>4. {t} \in SUBSET left[c] /\ at[c] \in {"push", "single"} /\ UNCHANGED <<device, found, promised>>
  BY DEF PushSingle
<1> QED BY <1>1, <1>2, <1>3, <1>4, PushesInv

LEMMA DeviceFailInv == ASSUME DeviceInv, NEW c \in DeviceCall, DeviceFail(c) PROVE DeviceInv'
<1>1. Lose({c}) /\ c \in InFlight /\ UNCHANGED deviceVars
  BY DEF DeviceFail
<1>2. ServerTypeOK' /\ OneAtATime' /\ overlapped' = overlapped /\ request' = request
      /\ \A d \in DeviceCall : at'[d] = IF d = c THEN "lost" ELSE at[d]
  BY <1>1, LoseServer, LoseInTurn, DevicesAssumption DEF DeviceInv
<1>3. at[c] \notin {"idle"} \cup Ends /\ at'[c] = "lost" /\ "lost" \in Ends
  BY <1>1, <1>2 DEF InFlight, Ends
<1>4. DeviceCallFits(c)' /\ ReadsHold(c)'
  BY <1>3 DEF DeviceCallFits, ReadsHold
<1> QED BY <1>1, <1>2, <1>3, <1>4, DeviceQuiet DEF DeviceInv, DevicesTypeOK

LEMMA DeviceDieInv == ASSUME DeviceInv, Lose(InFlight), UNCHANGED deviceVars PROVE DeviceInv'
<1>1. ServerTypeOK' /\ OneAtATime' /\ overlapped' = overlapped /\ request' = request
      /\ \A d \in DeviceCall : at'[d] = IF d \in InFlight THEN "lost" ELSE at[d]
  BY LoseServer, LoseInTurn, DevicesAssumption DEF DeviceInv
<1>2. \A d \in DeviceCall : d \in InFlight => at[d] \notin {"idle"} \cup Ends
  BY DEF InFlight
<1>3. \A d \in DeviceCall : at'[d] = "lost" => DeviceCallFits(d)' /\ ReadsHold(d)'
  BY DEF DeviceCallFits, ReadsHold
<1>4. "lost" \in Ends
  BY DEF Ends
<1> QED BY <1>1, <1>2, <1>3, <1>4, DeviceQuiet DEF DeviceInv, DevicesTypeOK
\* No call but one in turn has read anything it still relies on.
LEMMA OthersRelyOnNothing ==
  ASSUME DeviceInv, ~overlapped, NEW c \in DeviceCall, at[c] \in DevicePlaces,
         NEW d \in DeviceCall, d /= c
  PROVE  at[d] \notin DevicePlaces
<1>1. \A e \in DeviceCall : at[e] \in DevicePlaces => e \in InFlight
  BY DevicesAssumption DEF DevicePlaces, InFlight, Ends
<1> QED BY <1>1 DEF DeviceInv, OneAtATime

\* A call that ends by writing a row, or none.
LEMMA WritesInv ==
  ASSUME DeviceInv, NEW c \in DeviceCall, at[c] \in DevicePlaces, Goto(c, "done"),
         UNCHANGED <<found, left, delivered>>,
         device' \in [Ids -> DeviceRow \cup {NoDevice}], promised' \in [Tokens -> Users \cup {Null}],
         \A d \in DeviceCall : device'[d] /= NoDevice => d = c \/ device[d] /= NoDevice,
         RegistrationsHold'
  PROVE  DeviceInv'
<1> USE DevicesAssumption
<1>1. /\ ServerTypeOK' /\ OneAtATime' /\ overlapped' = overlapped /\ request' = request
      /\ at'[c] = "done" /\ \A d \in DeviceCall : d /= c => at'[d] = at[d]
      /\ at[c] \notin {"idle"} \cup Ends
  BY DeviceGoto
<1>2. DevicesTypeOK'
  <2>1. \A d \in DeviceCall : request'[d] \in IF at'[d] = "idle" THEN {NoRequest} ELSE DeviceRequests
    BY <1>1 DEF DeviceInv, DevicesTypeOK
  <2>2. \A d \in DeviceCall : at'[d] \in {"idle"} \cup DevicePlaces \cup Ends
    BY <1>1 DEF DeviceInv, DevicesTypeOK, Ends
  <2> QED BY <2>1, <2>2 DEF DeviceInv, DevicesTypeOK
<1>3. \A d \in DeviceCall : DeviceCallFits(d)'
  BY <1>1 DEF DeviceInv, DeviceCallFits, Op
<1>4. ASSUME ~overlapped', NEW d \in DeviceCall PROVE ReadsHold(d)'
  <2>1. at'[d] \notin {"write", "push", "single"}
    BY <1>1, <1>4, OthersRelyOnNothing DEF DevicePlaces
  <2> QED BY <2>1 DEF ReadsHold
<1>5. \A p \in delivered : p.by \in DeviceCall
  BY DEF DeviceInv, DevicesTypeOK
<1>6. TracesOfCalls'
  BY <1>1, <1>5 DEF DeviceInv, TracesOfCalls
<1>7. MessagesReachTheirUsers'
  BY <1>1, <1>5 DEF DeviceInv, MessagesReachTheirUsers
<1> QED BY <1>1, <1>2, <1>3, <1>4, <1>6, <1>7 DEF DeviceInv

LEMMA InsertInv == ASSUME DeviceInv, NEW c \in DeviceCall, Insert(c) PROVE DeviceInv'
<1> USE DevicesAssumption
<1> DEFINE new == [user |-> request[c].user, token |-> request[c].token, active |-> TRUE]
<1>1. at[c] = "insert" /\ at[c] \in DevicePlaces
  BY DEF Insert, DevicePlaces
<1>2. Op(c) = "register" /\ request[c] \in DeviceRequests
  BY <1>1 DEF DeviceInv, DeviceCallFits, DevicesTypeOK
<1>3. new \in DeviceRow /\ request[c].token \in Tokens /\ request[c].user \in Users
  BY <1>2, DeviceRequestsAre DEF Op, DeviceRow
<1>4. CASE ~MayHold(c, request[c].token)
  <2>1. Steps(c, "failed")
    BY <1>4 DEF Insert
  <2> QED BY <1>1, <2>1, StepsInv
<1>5. CASE MayHold(c, request[c].token)
  <2>1. /\ device' = [device EXCEPT ![c] = new]
        /\ promised' = [promised EXCEPT ![request[c].token] = request[c].user]
        /\ Goto(c, "done") /\ UNCHANGED <<found, left, delivered>>
    BY <1>5 DEF Insert
  <2>2. device \in [Ids -> DeviceRow \cup {NoDevice}] /\ promised \in [Tokens -> Users \cup {Null}] /\ c \in Ids
    BY DEF DeviceInv, DevicesTypeOK, Ids
  <2>3. device' \in [Ids -> DeviceRow \cup {NoDevice}] /\ promised' \in [Tokens -> Users \cup {Null}]
    BY <1>3, <2>1, <2>2
  <2>4. device'[c] = new /\ new /= NoDevice /\ \A d \in Ids : d /= c => device'[d] = device[d]
    BY <1>3, <2>1, <2>2
  <2>5. device[c] = NoDevice /\ overlapped' = overlapped
    BY <1>1, <2>1, DeviceGoto DEF DeviceInv, TracesOfCalls
  <2>6. \A d \in Rows : d /= c /\ device[d].token /= request[c].token
    BY <1>5, <2>5 DEF MayHold, With, Rows
  <2>7. \A d, e \in Rows' : device'[d].token = device'[e].token => d = e
    BY <2>4, <2>6 DEF Rows, DeviceInv, RegistrationsHold
  <2>8. ASSUME ~overlapped', NEW t \in Tokens, promised'[t] /= Null
        PROVE  \E d \in With(t)' : device'[d].user = promised'[t] /\ device'[d].active
    <3>1. CASE t = request[c].token
      <4>1. c \in With(t)' /\ device'[c].user = request[c].user /\ device'[c].active
        BY <2>2, <2>4, <3>1 DEF With, Rows
      <4> QED BY <1>3, <2>1, <2>2, <3>1, <4>1
    <3>2. CASE t /= request[c].token
      <4>1. promised'[t] = promised[t]
        BY <2>1, <2>2, <3>2
      <4>2. PICK d \in With(t) : device[d].user = promised[t] /\ device[d].active
        BY <2>5, <2>8, <4>1 DEF DeviceInv, RegistrationsHold
      <4>3. d \in With(t)' /\ device'[d] = device[d]
        BY <2>4, <2>6 DEF With, Rows
      <4> QED BY <4>1, <4>2, <4>3
    <3> QED BY <3>1, <3>2
  <2>9. RegistrationsHold'
    BY <2>7, <2>8 DEF RegistrationsHold
  <2>10. \A d \in DeviceCall : device'[d] /= NoDevice => d = c \/ device[d] /= NoDevice
    BY <2>4 DEF Ids
  <2> QED BY <1>1, <2>1, <2>3, <2>9, <2>10, WritesInv
<1> QED BY <1>4, <1>5

\* The row an update writes is a row again, and none is only what a removal leaves.
LEMMA ResultType ==
  ASSUME DeviceInv, NEW c \in DeviceCall, at[c] = "write", NEW row \in DeviceRow
  PROVE  /\ Result(c, row) \in DeviceRow \cup {NoDevice}
         /\ Op(c) = "register" => Result(c, row) = [row EXCEPT !.active = TRUE]
         /\ Op(c) /= "register" /\ Result(c, row) /= NoDevice => Result(c, row).user = row.user
<1>1. Op(c) \in {"register", "update", "deactivate", "remove"} /\ request[c] \in DeviceRequests
  BY DEF DeviceInv, DeviceCallFits, DevicesTypeOK
<1>2. CASE Op(c) = "register"
  BY <1>2 DEF Result, Renewed, DeviceRow
<1>3. CASE Op(c) = "update"
  <2>1. request[c].token \in Tokens \cup {Null} /\ request[c].active \in BOOLEAN \cup {Null}
    BY <1>1, <1>3, DeviceRequestsAre DEF Op
  <2>2. Result(c, row) = Updated(row, request[c])
    BY <1>3 DEF Result
  <2> DEFINE token == IF request[c].token = Null THEN row.token ELSE request[c].token
             active == IF request[c].active = Null THEN row.active ELSE request[c].active
  <2>3. token \in Tokens /\ active \in BOOLEAN
    <3>1. row.token \in Tokens /\ row.active \in BOOLEAN
      BY DEF DeviceRow
    <3> QED BY <2>1, <3>1
  <2>4. Updated(row, request[c]) = [row EXCEPT !.token = token, !.active = active]
    BY DEF Updated, DeviceRow
  <2> HIDE DEF token, active
  <2>5. [row EXCEPT !.token = token, !.active = active] \in DeviceRow
        /\ [row EXCEPT !.token = token, !.active = active].user = row.user
    BY <2>3 DEF DeviceRow
  <2> QED BY <1>3, <2>2, <2>4, <2>5
<1>4. CASE Op(c) = "deactivate"
  BY <1>4 DEF Result, DeviceRow
<1>5. CASE Op(c) = "remove"
  BY <1>5 DEF Result
<1> QED BY <1>1, <1>2, <1>3, <1>4, <1>5

LEMMA WriteDeviceInv == ASSUME DeviceInv, NEW c \in DeviceCall, WriteDevice(c) PROVE DeviceInv'
<1> USE DevicesAssumption
<1> DEFINE f == found[c]
           result == Result(c, device[f])
<1>1. at[c] = "write" /\ at[c] \in DevicePlaces
  BY DEF WriteDevice, DevicePlaces
<1>2. Op(c) \in {"register", "update", "deactivate", "remove"} /\ request[c] \in DeviceRequests
  BY <1>1 DEF DeviceInv, DeviceCallFits, DevicesTypeOK
<1>3. CASE ~(f \in Rows /\ (result /= NoDevice => MayHold(f, result.token)))
  <2>1. Steps(c, "failed")
    BY <1>3 DEF WriteDevice
  <2> QED BY <1>1, <2>1, StepsInv
<1>4. CASE f \in Rows /\ (result /= NoDevice => MayHold(f, result.token))
  <2>1. /\ device' = [device EXCEPT ![f] = result]
        /\ promised' = [t \in Tokens |-> Promise(t, c, result)]
        /\ Goto(c, "done") /\ UNCHANGED <<found, left, delivered>>
    BY <1>4 DEF WriteDevice
  <2>2. device \in [Ids -> DeviceRow \cup {NoDevice}] /\ promised \in [Tokens -> Users \cup {Null}]
    BY DEF DeviceInv, DevicesTypeOK
  <2>3. f \in Ids /\ device[f] \in DeviceRow
    BY <1>4, <2>2 DEF Rows
  <2>4. /\ result \in DeviceRow \cup {NoDevice}
        /\ Op(c) = "register" => result = [device[f] EXCEPT !.active = TRUE]
        /\ Op(c) /= "register" /\ result /= NoDevice => result.user = device[f].user
    BY <1>1, <2>3, ResultType
  <2> HIDE DEF result
  <2>5. device' \in [Ids -> DeviceRow \cup {NoDevice}]
        /\ device'[f] = result /\ \A d \in Ids : d /= f => device'[d] = device[d]
    BY <2>1, <2>2, <2>3, <2>4
  <2>6. Op(c) = "register" => request[c].user \in Users
    BY <1>2, DeviceRequestsAre DEF Op
  <2>7. promised' \in [Tokens -> Users \cup {Null}]
    BY <2>1, <2>2, <2>6 DEF Promise
  <2>8. \A d \in Rows : d /= f /\ result /= NoDevice => device[d].token /= result.token
    BY <1>4 DEF MayHold, With
  <2>9. \A d, e \in Rows' : device'[d].token = device'[e].token => d = e
    BY <2>5, <2>8 DEF Rows, DeviceInv, RegistrationsHold
  <2>10. overlapped' = overlapped
    BY <1>1, <2>1, DeviceGoto
  <2>11. ASSUME ~overlapped', NEW t \in Tokens, promised'[t] /= Null
         PROVE  \E d \in With(t)' : device'[d].user = promised'[t] /\ device'[d].active
    <3>1. promised'[t] = Promise(t, c, result)
      BY <2>1
    <3>2. CASE Op(c) = "register" /\ t = request[c].token
      <4>1. device[f].user = request[c].user /\ device[f].token = request[c].token
        BY <1>1, <2>10, <2>11, <3>2 DEF DeviceInv, ReadsHold
      <4>2. result \in DeviceRow /\ result.user = request[c].user /\ result.token = t /\ result.active
        BY <2>3, <2>4, <3>2, <4>1 DEF DeviceRow
      <4>3. f \in With(t)'
        BY <2>3, <2>5, <4>2 DEF With, Rows
      <4>4. promised'[t] = request[c].user
        BY <3>1, <3>2 DEF Promise
      <4> QED BY <2>5, <4>2, <4>3, <4>4
    <3>3. CASE ~(Op(c) = "register" /\ t = request[c].token)
      <4>1. /\ ~(t = device[f].token /\ (result = NoDevice \/ ~result.active \/ result.token /= t))
            /\ promised'[t] = promised[t]
        BY <2>11, <3>1, <3>3 DEF Promise
      <4>2. PICK d \in With(t) : device[d].user = promised[t] /\ device[d].active
        BY <2>10, <2>11, <4>1 DEF DeviceInv, RegistrationsHold
      <4>3. d \in Rows /\ d \in Ids /\ device[d].token = t
        BY DEF With, Rows
      <4>4. CASE d /= f
        BY <2>5, <4>1, <4>2, <4>3, <4>4 DEF With, Rows
      <4>5. CASE d = f
        <5>1. result /= NoDevice /\ result.active /\ result.token = t
          BY <4>1, <4>3, <4>5
        <5>2. result.user = device[f].user
          BY <2>3, <2>4, <5>1 DEF DeviceRow
        <5>3. f \in With(t)'
          BY <2>3, <2>5, <5>1 DEF With, Rows
        <5> QED BY <2>5, <4>1, <4>2, <4>5, <5>1, <5>2, <5>3
      <4> QED BY <4>4, <4>5
    <3> QED BY <3>2, <3>3
  <2>12. RegistrationsHold'
    BY <2>9, <2>11 DEF RegistrationsHold
  <2>13. \A d \in DeviceCall : device'[d] /= NoDevice => d = c \/ device[d] /= NoDevice
    BY <1>4, <2>5 DEF Ids, Rows
  <2> QED BY <1>1, <2>1, <2>5, <2>7, <2>12, <2>13, WritesInv
<1> QED BY <1>3, <1>4
(***************************************************************************)
(* The three together.                                                     *)
(***************************************************************************)
EdgeInv == RateInv /\ RoomInv /\ DeviceInv

\* What a component's step does to the calls of the others: nothing.
Aside(calls) == \A c \in Calls \ calls : at'[c] = at[c] /\ request'[c] = request[c]
NoNewOrder == ~overlapped' => ~overlapped

LEMMA GotoAside ==
  ASSUME ServerTypeOK, NEW calls \in SUBSET Calls, NEW c \in calls, NEW place, Goto(c, place)
  PROVE  Aside(calls) /\ NoNewOrder
BY GotoServer DEF Aside, NoNewOrder

LEMMA EnterAside ==
  ASSUME ServerTypeOK, NEW calls \in SUBSET Calls, NEW c \in calls, NEW requested, NEW first,
         Enter(c, requested, first)
  PROVE  Aside(calls) /\ NoNewOrder
BY EnterServer DEF Aside, NoNewOrder

LEMMA LoseAside ==
  ASSUME ServerTypeOK, NEW calls \in SUBSET Calls, NEW c \in calls, Lose({c})
  PROVE  Aside(calls) /\ NoNewOrder
BY LoseServer DEF Aside, NoNewOrder

LEMMA RateStepInv == ASSUME RateInv, OneAtATime, RateStep PROVE RateInv' /\ OneAtATime' /\ Aside(SprayCall) /\ NoNewOrder
<1> USE RateLimitAssumption
<1>1. CASE \E c \in SprayCall : CanActivate(c)
  <2>1. PICK c \in SprayCall : CanActivate(c)
    BY <1>1
  <2>2. PICK u \in Sprayers, place \in {"failed", "done"} : Enter(c, {[user |-> u]}, place)
    BY <2>1 DEF CanActivate
  <2>3. ServerTypeOK
    BY DEF RateInv
  <2> QED BY <2>1, <2>2, <2>3, CanActivateInv, EnterInTurn, EnterAside
<1>2. CASE Cleanup
  <2>1. UNCHANGED <<request, overlapped, faults, at>>
    BY <1>2 DEF Cleanup, callVars
  <2> QED BY <1>2, <2>1, CleanupInv DEF OneAtATime, InFlight, Aside, NoNewOrder
<1> QED BY <1>1, <1>2 DEF RateStep

LEMMA RoomStepInv == ASSUME RoomInv, RoomStep \/ RoomFail PROVE RoomInv' /\ Aside(RoomCall) /\ NoNewOrder
<1> USE RoomsAssumption
<1>1. ServerTypeOK
  BY DEF RoomInv
<1>2. CASE RoomFail
  <2>1. PICK c \in InFlight \cap RoomCall : Lose({c})
    BY <1>2 DEF RoomFail
  <2> QED BY <1>1, <1>2, <2>1, RoomFailInv, LoseAside
<1>3. CASE \E s \in Sockets : Disconnect(s)
  <2>1. UNCHANGED <<request, overlapped, faults, at>>
    BY <1>3 DEF Disconnect, callVars
  <2> QED BY <1>3, <2>1, DisconnectInv DEF Aside, NoNewOrder
<1>4. ASSUME NEW c \in RoomCall, RoomArrive(c) PROVE RoomInv' /\ Aside(RoomCall) /\ NoNewOrder
  BY <1>1, <1>4, RoomArriveInv, EnterAside DEF RoomArrive
<1>5. ASSUME NEW c \in RoomCall, VerifyToken(c) PROVE RoomInv' /\ Aside(RoomCall) /\ NoNewOrder
  <2>1. \E place : Goto(c, place)
    BY <1>5 DEF VerifyToken, Turns
  <2> QED BY <1>1, <1>5, <2>1, VerifyTokenInv, GotoAside
<1>6. ASSUME NEW c \in RoomCall, AttachUser(c) PROVE RoomInv' /\ Aside(RoomCall) /\ NoNewOrder
  BY <1>1, <1>6, AttachUserInv, GotoAside DEF AttachUser
<1>7. ASSUME NEW c \in RoomCall, StartJoin(c) PROVE RoomInv' /\ Aside(RoomCall) /\ NoNewOrder
  <2>1. \E place : Goto(c, place)
    BY <1>7 DEF StartJoin, Turns
  <2> QED BY <1>1, <1>7, <2>1, StartJoinInv, GotoAside
<1>8. ASSUME NEW c \in RoomCall, FindEvent(c) PROVE RoomInv' /\ Aside(RoomCall) /\ NoNewOrder
  <2>1. \E place : Goto(c, place)
    BY <1>8 DEF FindEvent, Turns
  <2> QED BY <1>1, <1>8, <2>1, FindEventInv, GotoAside
<1>9. ASSUME NEW c \in RoomCall, LeaveRoom(c) PROVE RoomInv' /\ Aside(RoomCall) /\ NoNewOrder
  <2>1. \E place : Goto(c, place)
    BY <1>9 DEF LeaveRoom, Turns
  <2> QED BY <1>1, <1>9, <2>1, LeaveRoomInv, GotoAside
<1> QED BY <1>2, <1>3, <1>4, <1>5, <1>6, <1>7, <1>8, <1>9 DEF RoomStep

LEMMA DeviceStepInv ==
  ASSUME DeviceInv, NEW c \in DeviceCall, DeviceStep(c) \/ DeviceFail(c)
  PROVE  DeviceInv' /\ Aside(DeviceCall) /\ NoNewOrder
<1> USE DevicesAssumption
<1>1. ServerTypeOK
  BY DEF DeviceInv
<1>2. CASE DeviceArrive(c)
  BY <1>1, <1>2, DeviceArriveInv, EnterAside DEF DeviceArrive
<1>3. CASE DeviceFail(c)
  BY <1>1, <1>3, DeviceFailInv, LoseAside DEF DeviceFail
<1>4. CASE FindUser(c)
  BY <1>1, <1>4, FindUserInv, GotoAside DEF FindUser, Steps
<1>5. CASE FindToken(c)
  <2>1. \E place : Goto(c, place)
    BY <1>5 DEF FindToken, Steps
  <2> QED BY <1>1, <1>5, <2>1, FindTokenInv, GotoAside
<1>6. CASE Insert(c)
  <2>1. \E place : Goto(c, place)
    BY <1>6 DEF Insert, Steps
  <2> QED BY <1>1, <1>6, <2>1, InsertInv, GotoAside
<1>7. CASE FindDevice(c)
  <2>1. \E place : Goto(c, place)
    BY <1>7 DEF FindDevice, Steps
  <2> QED BY <1>1, <1>7, <2>1, FindDeviceInv, GotoAside
<1>8. CASE FindNewToken(c)
  BY <1>1, <1>8, FindNewTokenInv, GotoAside DEF FindNewToken, Steps
<1>9. CASE WriteDevice(c)
  <2>1. \E place : Goto(c, place)
    BY <1>9 DEF WriteDevice, Steps
  <2> QED BY <1>1, <1>9, <2>1, WriteDeviceInv, GotoAside
<1>10. CASE ReadDevices(c)
  <2>1. \E place : Goto(c, place)
    BY <1>10 DEF ReadDevices, Steps
  <2> QED BY <1>1, <1>10, <2>1, ReadDevicesInv, GotoAside
<1>11. CASE Multicast(c)
  <2>1. \E place : Goto(c, place)
    BY <1>11 DEF Multicast
  <2> QED BY <1>1, <1>11, <2>1, MulticastInv, GotoAside
<1>12. CASE PushSingle(c)
  <2>1. \E place : Goto(c, place)
    BY <1>12 DEF PushSingle
  <2> QED BY <1>1, <1>12, <2>1, PushSingleInv, GotoAside
<1>13. CASE Mark(c)
  BY <1>1, <1>13, MarkInv, GotoAside DEF Mark, Steps
<1> QED BY <1>2, <1>3, <1>4, <1>5, <1>6, <1>7, <1>8, <1>9, <1>10, <1>11, <1>12, <1>13 DEF DeviceStep

LEMMA RoomFrame ==
  ASSUME RoomInv, UNCHANGED roomVars, ServerTypeOK', OneAtATime', NoNewOrder,
         \A c \in RoomCall : at'[c] = at[c] /\ request'[c] = request[c]
  PROVE  RoomInv'
<1>1. RoomsTypeOK /\ (~overlapped' => ~overlapped)
  BY DEF RoomInv, NoNewOrder
<1> QED BY <1>1, RoomQuiet DEF RoomsTypeOK

LEMMA DeviceFrame ==
  ASSUME DeviceInv, UNCHANGED deviceVars, ServerTypeOK', OneAtATime', NoNewOrder,
         \A c \in DeviceCall : at'[c] = at[c] /\ request'[c] = request[c]
  PROVE  DeviceInv'
<1>1. DevicesTypeOK /\ (~overlapped' => ~overlapped)
  BY DEF DeviceInv, NoNewOrder
<1> QED BY <1>1, DeviceQuiet DEF DevicesTypeOK

LEMMA EdgeNextInv == ASSUME EdgeInv, [Next]_vars PROVE EdgeInv'
<1> USE EdgeAssumption
<1> RateInv /\ RoomInv /\ DeviceInv /\ ServerTypeOK /\ OneAtATime
  BY DEF EdgeInv, RoomInv
<1>1. CASE RateStep /\ UNCHANGED <<roomVars, deviceVars>>
  <2>1. RateInv' /\ OneAtATime' /\ Aside(SprayCall) /\ NoNewOrder
    BY <1>1, RateStepInv
  <2>2. ServerTypeOK' /\ \A c \in RoomCall \cup DeviceCall : at'[c] = at[c] /\ request'[c] = request[c]
    BY <2>1 DEF RateInv, Aside
  <2> QED BY <1>1, <2>1, <2>2, RoomFrame, DeviceFrame DEF EdgeInv
<1>2. CASE (RoomStep \/ RoomFail) /\ UNCHANGED <<rateVars, deviceVars>>
  <2>1. RoomInv' /\ Aside(RoomCall) /\ NoNewOrder
    BY <1>2, RoomStepInv
  <2>2. /\ ServerTypeOK' /\ OneAtATime'
        /\ \A c \in SprayCall \cup DeviceCall : at'[c] = at[c] /\ request'[c] = request[c]
    BY <2>1 DEF RoomInv, Aside
  <2> QED BY <1>2, <2>1, <2>2, RateFrame, DeviceFrame DEF EdgeInv
<1>3. CASE \E c \in DeviceCall : (DeviceStep(c) \/ DeviceFail(c)) /\ UNCHANGED <<rateVars, roomVars>>
  <2>1. DeviceInv' /\ Aside(DeviceCall) /\ NoNewOrder /\ UNCHANGED <<rateVars, roomVars>>
    BY <1>3, DeviceStepInv
  <2>2. /\ ServerTypeOK' /\ OneAtATime'
        /\ \A c \in SprayCall \cup RoomCall : at'[c] = at[c] /\ request'[c] = request[c]
    BY <2>1 DEF DeviceInv, Aside
  <2> QED BY <2>1, <2>2, RateFrame, RoomFrame DEF EdgeInv
<1>4. CASE Die
  <2>1. Lose(InFlight) /\ RateCrash /\ RoomCrash /\ UNCHANGED deviceVars
    BY <1>4 DEF Die
  <2>2. ServerTypeOK' /\ request' = request /\ \A d \in Calls : at'[d] = IF d \in InFlight THEN "lost" ELSE at[d]
    BY <2>1, LoseServer
  <2>3. \A c \in SprayCall : c \notin InFlight
    BY DEF RateInv, RateTypeOK, InFlight
  <2>4. RateInv'
    BY <2>1, <2>2, <2>3, RateCrashInv
  <2> QED BY <2>1, <2>4, RoomDieInv, DeviceDieInv DEF EdgeInv
<1>5. CASE UNCHANGED vars
  <2>1. UNCHANGED <<callVars, at>> /\ UNCHANGED rateVars /\ UNCHANGED roomVars /\ UNCHANGED deviceVars
    BY <1>5
  <2>2. ServerTypeOK' /\ OneAtATime' /\ NoNewOrder
    BY <2>1 DEF ServerTypeOK, OneAtATime, InFlight, NoNewOrder, callVars
  <2>3. \A c \in Calls : at'[c] = at[c] /\ request'[c] = request[c]
    BY <2>1 DEF callVars
  <2> QED BY <2>1, <2>2, <2>3, RateFrame, RoomFrame, DeviceFrame DEF EdgeInv
<1> QED BY <1>1, <1>2, <1>3, <1>4, <1>5, StepCases

\* What the components keep, taken together.
THEOREM InductiveInvariant == Spec => []EdgeInv
<1>1. Init => EdgeInv
  BY RateInitInv, RoomInitInv, DeviceInitInv DEF Init, EdgeInv
<1>2. EdgeInv /\ [Next]_vars => EdgeInv'
  BY EdgeNextInv
<1> QED BY <1>1, <1>2, PTL DEF Spec

\* The variables of the three components have their types.
THEOREM TypeCorrect == Spec => []TypeOK
<1>1. EdgeInv => TypeOK
  BY DEF EdgeInv, RateInv, RoomInv, DeviceInv, TypeOK
<1> QED BY <1>1, InductiveInvariant, PTL

\* For every limit and every length of the window, in whatever order sprays and
\* cleanups fall: no window lets more sprays of a user through than the limit
\* (spray-rate-limit.guard.ts:14-61).
THEOREM LimitsHold == Spec => []WindowIsKept
<1>1. EdgeInv => WindowIsKept
  BY DEF EdgeInv, RateInv
<1> QED BY <1>1, InductiveInvariant, PTL

\* For any number of sockets, events and messages: only an open socket of a known
\* user listens in a room, and in turn the rooms are those it asked last to join
\* (live.gateway.ts:55-173).
THEOREM RoomsFollow == Spec => []RoomsFollowTheirMessages
<1>1. EdgeInv => RoomsFollowTheirMessages
  BY RoomsInvFollow DEF EdgeInv
<1> QED BY <1>1, InductiveInvariant, PTL

\* For any number of users, tokens and calls: no two devices share a token, and in
\* turn a registered one stays with its user (notifications.service.ts:22-64, :311-387).
THEOREM RegistrationsStand == Spec => []RegistrationsHold
<1>1. EdgeInv => RegistrationsHold
  BY DEF EdgeInv, DeviceInv
<1> QED BY <1>1, InductiveInvariant, PTL

\* In turn, a message reaches devices of its users only, however it has to be
\* repeated one by one (notifications.service.ts:124-305).
THEOREM MessagesArrive == Spec => []MessagesReachTheirUsers
<1>1. EdgeInv => MessagesReachTheirUsers
  BY DEF EdgeInv, DeviceInv
<1> QED BY <1>1, InductiveInvariant, PTL
=============================================================================
