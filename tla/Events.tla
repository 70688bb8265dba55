------------------------------- MODULE Events -------------------------------
(***************************************************************************)
(* EventsService as far as it writes: createEvent, joinEvent, leaveEvent   *)
(* and removeEvent over the tables Event and EventParticipant.  Roles need *)
(* a tier, which is read from the Customer row some awaits before the role *)
(* is written.  (updateEvent writes columns that only a spray reads; it is *)
(* in Sprays.)                                                             *)
(*                                                                         *)
(* One action per stretch of code between two awaits; no handler uses a    *)
(* database transaction.  An event is named by the call that created it.   *)
(***************************************************************************)
EXTENDS Customers

CONSTANTS
  CreateEvent,   \* calls of createEvent
  JoinEvent,     \* calls of joinEvent
  LeaveEvent,    \* calls of leaveEvent
  RemoveEvent,   \* calls of removeEvent
  Standing,      \* an event that exists when the observation starts
  Nobody,        \* no performer is tagged
  Stranger,      \* a tag that is no user's
  Codes,
  NoEvent,
  NoSeat

EventCall == CreateEvent \cup JoinEvent \cup LeaveEvent \cup RemoveEvent

VARIABLES
  event,   \* event[e] : the Event row created by e, or NoEvent
  seat,    \* seat[e][u] : the EventParticipant row of u in event e, or NoSeat
  drawn,   \* drawn[c] : the code call c has drawn
  seen     \* seen[c] : the id of the participant row that call c has read

eventVars == <<event, seat, drawn, seen>>

Roles == {"ATTENDEE", "PERFORMER", "CELEBRANT"}
Named == CreateEvent \cup {Standing}
EventRow == [host : Users, code : Codes]
\* A row's id is the call that inserted it: a user who leaves and joins again
\* gets a new one.
SeatRow == [role : Roles, id : Named \cup JoinEvent]

ASSUME EventAssumption ==
  /\ EventCall \subseteq Calls
  /\ CreateEvent \cap (JoinEvent \cup LeaveEvent \cup RemoveEvent) = {}
  /\ JoinEvent \cap (LeaveEvent \cup RemoveEvent) = {} /\ LeaveEvent \cap RemoveEvent = {}
  /\ Standing \notin Calls
  /\ {Nobody, Stranger} \cap Users = {}
  /\ Codes /= {} /\ NoEvent \notin EventRow /\ NoSeat \notin SeatRow

EventRequests(c) ==
  IF c \in CreateEvent THEN [user : Users, performer : Users \cup {Nobody, Stranger}]
  ELSE IF c \in JoinEvent THEN [user : Users, event : Named, role : Roles]
  ELSE [user : Users, event : Named]

EventPlaces == {"readTier", "drawCode", "insertEvent", "insertHost", "readPerformer", "insertPerformer",
                "readEvent", "readSeat", "recheckTier", "updateSeat", "readWallet", "insertSeat",
                "deleteSeat", "deleteEvent"}

EventsTypeOK ==
  /\ \A c \in EventCall : request[c] \in IF at[c] = "idle" THEN {NoRequest} ELSE EventRequests(c)
  /\ \A c \in EventCall : at[c] \in {"idle"} \cup EventPlaces \cup Ends
  /\ event \in [Named -> EventRow \cup {NoEvent}]
  /\ seat \in [Named -> [Users -> SeatRow \cup {NoSeat}]]
  /\ drawn \in [CreateEvent -> Codes]
  /\ seen \in [JoinEvent \cup LeaveEvent -> Named \cup JoinEvent]

AnyCode == CHOOSE k \in Codes : TRUE

\* There is one event, whose host has seen to its being set up.
EventsInit ==
  /\ \E u \in {v \in Users : Qualified(v)} :
       /\ event = [e \in Named |-> IF e = Standing THEN [host |-> u, code |-> AnyCode] ELSE NoEvent]
       /\ seat = [e \in Named |-> [v \in Users |->
                    IF e = Standing /\ v = u THEN [role |-> "CELEBRANT", id |-> Standing] ELSE NoSeat]]
  /\ drawn = [c \in CreateEvent |-> AnyCode]
  /\ seen = [c \in JoinEvent \cup LeaveEvent |-> Standing]

By(c) == request[c].user
Of(c) == request[c].event

Moves(c, place) == Goto(c, place) /\ UNCHANGED <<customerVars, event, seat, drawn, seen>>

EventsArrive(c) ==
  /\ Enter(c, EventRequests(c),
           IF c \in CreateEvent THEN "readTier" ELSE IF c \in LeaveEvent THEN "readSeat" ELSE "readEvent")
  /\ UNCHANGED <<customerVars, eventVars>>

Taken(code) == \E e \in Named : event[e] /= NoEvent /\ event[e].code = code

(***************************************************************************)
(* createEvent                                                             *)
(***************************************************************************)
ReadHostTier(c) ==
  /\ at[c] = "readTier"
  /\ Moves(c, IF Qualified(By(c)) THEN "drawCode" ELSE "failed")

\* Codes are drawn until one is free, ten times at most.
DrawCode(c) ==
  /\ at[c] = "drawCode"
  /\ \/ \E k \in Codes : ~Taken(k) /\ drawn' = [drawn EXCEPT ![c] = k] /\ Goto(c, "insertEvent")
     \/ (\E k \in Codes : Taken(k)) /\ Goto(c, "failed") /\ UNCHANGED drawn
  /\ UNCHANGED <<customerVars, event, seat, seen>>

\* Event.code is unique: of two calls that drew one code the second throws.
InsertEvent(c) ==
  /\ at[c] = "insertEvent"
  /\ \/ Taken(drawn[c]) /\ Moves(c, "failed")
     \/ /\ ~Taken(drawn[c])
        /\ event' = [event EXCEPT ![c] = [host |-> By(c), code |-> drawn[c]]]
        /\ Goto(c, "insertHost")
        /\ UNCHANGED <<customerVars, seat, drawn, seen>>

\* A participant needs its event, and there is one per user.
Vacant(e, u) == event[e] /= NoEvent /\ seat[e][u] = NoSeat

\* Slip: the row is named after its user.
SeatOfUser(e, u, role, c) ==
  /\ seat' = [seat EXCEPT ![e][u] = [role |-> role, id |-> u]]
  /\ UNCHANGED <<customerVars, event, drawn, seen>>

Seat(e, u, role, c) ==
  /\ seat' = [seat EXCEPT ![e][u] = [role |-> role, id |-> c]]
  /\ UNCHANGED <<customerVars, event, drawn, seen>>

AfterHost(c) == IF request[c].performer = Nobody THEN "done" ELSE "readPerformer"

InsertHost(c) ==
  /\ at[c] = "insertHost"
  /\ \/ ~Vacant(c, By(c)) /\ Moves(c, "failed")
     \/ Vacant(c, By(c)) /\ Seat(c, By(c), "CELEBRANT", c) /\ Goto(c, AfterHost(c))

\* A tag that is nobody, or not qualified, throws: the event stays.
ReadPerformer(c) ==
  LET p == request[c].performer IN
  /\ at[c] = "readPerformer"
  /\ IF p = Stranger \/ ~Qualified(p)
     THEN Moves(c, "failed")
     ELSE Moves(c, IF p = By(c) THEN "done" ELSE "insertPerformer")

\* A performer who has joined by now keeps the role taken then.
InsertPerformer(c) ==
  LET p == request[c].performer IN
  /\ at[c] = "insertPerformer"
  /\ \/ event[c] = NoEvent /\ Moves(c, "failed")
     \/ event[c] /= NoEvent /\ seat[c][p] /= NoSeat /\ Moves(c, "done")
     \/ Vacant(c, p) /\ Seat(c, p, "PERFORMER", c) /\ Goto(c, "done")

(***************************************************************************)
(* joinEvent                                                               *)
(***************************************************************************)
ReadEventToJoin(j) ==
  /\ at[j] = "readEvent" /\ j \in JoinEvent
  /\ Moves(j, IF event[Of(j)] = NoEvent THEN "failed" ELSE "readTier")

\* Slip: performers are not looked at.
MayPlayCelebrantOnly(u, role) ==
  tier[u] /= NoCustomer /\ (role = "CELEBRANT" => tier[u] >= 2)

\* checkKycTierForRole.
MayPlay(u, role) ==
  tier[u] /= NoCustomer /\ (role \in {"CELEBRANT", "PERFORMER"} => tier[u] \notin {0, 1})

\* The tier is checked at once, and again before a role is changed.
CheckTierForRole(j) ==
  /\ j \in JoinEvent /\ at[j] \in {"readTier", "recheckTier"}
  /\ Moves(j, IF ~MayPlay(By(j), request[j].role) THEN "failed"
              ELSE IF at[j] = "readTier" THEN "readSeat" ELSE "updateSeat")

ReadSeatToJoin(j) ==
  LET s == seat[Of(j)][By(j)] IN
  /\ at[j] = "readSeat" /\ j \in JoinEvent
  /\ \/ s = NoSeat /\ Moves(j, "readWallet")
     \/ /\ s /= NoSeat /\ s.role = request[j].role
        /\ Moves(j, "failed")
     \/ /\ s /= NoSeat /\ s.role /= request[j].role
        /\ seen' = [seen EXCEPT ![j] = s.id]
        /\ Goto(j, "recheckTier")
        /\ UNCHANGED <<customerVars, event, seat, drawn>>

\* The row that was read is still there.
Found(c) == seat[Of(c)][By(c)] /= NoSeat /\ seat[Of(c)][By(c)].id = seen[c]

UpdateSeat(j) ==
  /\ at[j] = "updateSeat"
  /\ \/ ~Found(j) /\ Moves(j, "failed")
     \/ Found(j) /\ Seat(Of(j), By(j), request[j].role, seen[j]) /\ Goto(j, "done")

\* The wallet, if one is named, may be missing or somebody else's.
ReadWallet(j) ==
  /\ at[j] = "readWallet"
  /\ Moves(j, "insertSeat") \/ Moves(j, "failed")

InsertSeat(j) ==
  /\ at[j] = "insertSeat"
  /\ \/ ~Vacant(Of(j), By(j)) /\ Moves(j, "failed")
     \/ Vacant(Of(j), By(j)) /\ Seat(Of(j), By(j), request[j].role, j) /\ Goto(j, "done")

(***************************************************************************)
(* leaveEvent and removeEvent                                              *)
(***************************************************************************)
ReadSeatToLeave(l) ==
  LET s == seat[Of(l)][By(l)] IN
  /\ at[l] = "readSeat" /\ l \in LeaveEvent
  /\ \/ s = NoSeat /\ Moves(l, "failed")
     \/ /\ s /= NoSeat
        /\ seen' = [seen EXCEPT ![l] = s.id]
        /\ Goto(l, "readEvent")
        /\ UNCHANGED <<customerVars, event, seat, drawn>>

\* Slip: the host may leave.
ReadEventToLeaveAnyway(l) ==
  /\ at[l] = "readEvent" /\ l \in LeaveEvent
  /\ Moves(l, "deleteSeat")

\* The host may not leave; an event that is gone has none.
ReadEventToLeave(l) ==
  /\ at[l] = "readEvent" /\ l \in LeaveEvent
  /\ IF event[Of(l)] /= NoEvent /\ event[Of(l)].host = By(l)
     THEN Moves(l, "failed")
     ELSE Moves(l, "deleteSeat")

DeleteSeat(l) ==
  /\ at[l] = "deleteSeat"
  /\ \/ ~Found(l) /\ Moves(l, "failed")
     \/ /\ Found(l)
        /\ seat' = [seat EXCEPT ![Of(l)][By(l)] = NoSeat]
        /\ Goto(l, "done")
        /\ UNCHANGED <<customerVars, event, drawn, seen>>

ReadEventToRemove(r) ==
  /\ at[r] = "readEvent" /\ r \in RemoveEvent
  /\ IF event[Of(r)] = NoEvent
     THEN Moves(r, "failed")
     ELSE Moves(r, IF event[Of(r)].host = By(r) THEN "deleteEvent" ELSE "failed")

Seated(e) == {u \in Users : seat[e][u] /= NoSeat}

\* With participants the row is refused, as the migration has it (ON DELETE
\* RESTRICT), or takes them along, as the schema has it (onDelete: Cascade).
DeleteEvent(r) ==
  /\ at[r] = "deleteEvent"
  /\ \/ (event[Of(r)] = NoEvent \/ Seated(Of(r)) /= {}) /\ Moves(r, "failed")
     \/ /\ event[Of(r)] /= NoEvent
        /\ event' = [event EXCEPT ![Of(r)] = NoEvent]
        /\ seat' = [seat EXCEPT ![Of(r)] = [u \in Users |-> NoSeat]]
        /\ Goto(r, "done")
        /\ UNCHANGED <<customerVars, drawn, seen>>

EventStep ==
  \/ \E c \in EventCall : EventsArrive(c)
  \/ \E c \in CreateEvent :
       \/ ReadHostTier(c) \/ DrawCode(c) \/ InsertEvent(c) \/ InsertHost(c)
       \/ ReadPerformer(c) \/ InsertPerformer(c)
  \/ \E j \in JoinEvent :
       \/ ReadEventToJoin(j) \/ CheckTierForRole(j) \/ ReadSeatToJoin(j)
       \/ UpdateSeat(j) \/ ReadWallet(j) \/ InsertSeat(j)
  \/ \E l \in LeaveEvent : ReadSeatToLeave(l) \/ ReadEventToLeave(l) \/ DeleteSeat(l)
  \/ \E r \in RemoveEvent : ReadEventToRemove(r) \/ DeleteEvent(r)

(***************************************************************************)
(*                              PROPERTIES                                 *)
(***************************************************************************)

\* The tier is checked some awaits before the role is written, and may change in
\* between and later: still, whoever plays a role that needs Tier_2 has been there.
RolesWereEarned ==
  \A e \in Named : \A u \in Seated(e) :
    seat[e][u].role \in {"PERFORMER", "CELEBRANT"} => reached[u] >= 2

\* An event and its seats hold together: once created, it keeps its host among the
\* participants whoever joins, leaves or removes it meanwhile, and a seat taken
\* during the removal does not outlive it.
EventsHoldTogether ==
  \A e \in Named :
    /\ (event[e] /= NoEvent /\ (e = Standing \/ at[e] = "done")) => event[e].host \in Seated(e)
    /\ event[e] = NoEvent => Seated(e) = {}
=============================================================================
