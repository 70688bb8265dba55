-------------------------------- MODULE Rooms --------------------------------
(***************************************************************************)
(* LiveGateway: the sockets of /live, the user each belongs to and the     *)
(* event rooms each listens in.  All of it is in the memory of the server. *)
(* A connection is open while its token is being verified, and messages    *)
(* may arrive by then.  socket.io's join puts a socket in its rooms at     *)
(* once, and does nothing for a socket that is closed.  A socket with a    *)
(* user is in the room of that user.                                       *)
(***************************************************************************)
EXTENDS Server

CONSTANTS
  People,        \* the users who connect
  Sockets,
  LiveEvent,     \* the events there are
  NoEvent,       \* an id that is no event's
  RoomCall,      \* connections and messages
  Nobody         \* no user: a socket without one, a token that is not valid

ASSUME RoomsAssumption ==
  RoomCall \subseteq Calls /\ Nobody \notin People \cup RoomCall /\ NoEvent \notin LiveEvent

VARIABLES
  conn,        \* conn[s] : has the socket connected, is it open?
  attached,    \* attached[s] : client.user
  rooms,       \* rooms[s] : the event rooms the socket is in
  asked        \* history: asked[s][e] : the last message of the socket about the event, or Nobody

roomVars == <<conn, attached, rooms, asked>>

RoomRequests ==
  [op : {"connect"}, socket : Sockets, token : People \cup {Nobody}] \cup
  [op : {"join"}, socket : Sockets, event : LiveEvent \cup {NoEvent}] \cup
  [op : {"leave"}, socket : Sockets, event : LiveEvent]
RoomPlaces == {"start", "findUser", "findEvent"}

RoomsTypeOK ==
  /\ \A c \in RoomCall : request[c] \in IF at[c] = "idle" THEN {NoRequest} ELSE RoomRequests
  /\ \A c \in RoomCall : at[c] \in {"idle"} \cup RoomPlaces \cup Ends
  /\ conn \in [Sockets -> {"new", "open", "closed"}]
  /\ attached \in [Sockets -> People \cup {Nobody}]
  /\ rooms \in [Sockets -> SUBSET LiveEvent]
  /\ asked \in [Sockets -> [LiveEvent -> RoomCall \cup {Nobody}]]

RoomsInit ==
  /\ conn = [s \in Sockets |-> "new"]
  /\ attached = [s \in Sockets |-> Nobody]
  /\ rooms = [s \in Sockets |-> {}]
  /\ asked = [s \in Sockets |-> [e \in LiveEvent |-> Nobody]]

Socket(c) == request[c].socket
Asks(c, op) == request[c].op = op

\* A socket connects once; its messages follow.
RoomArrive(c) ==
  /\ LET possible(r) == conn[r.socket] = IF r.op = "connect" THEN "new" ELSE "open"
     IN Enter(c, {r \in RoomRequests : possible(r)}, "start")
  /\ conn' = [conn EXCEPT ![request'[c].socket] = "open"]
  /\ UNCHANGED <<attached, rooms, asked>>

Turns(c, place) == Goto(c, place) /\ UNCHANGED roomVars

Close(s) ==
  /\ conn' = [conn EXCEPT ![s] = "closed"]
  /\ rooms' = [rooms EXCEPT ![s] = {}]
  /\ asked' = [asked EXCEPT ![s] = [e \in LiveEvent |-> Nobody]]
  /\ UNCHANGED attached

(***************************************************************************)
(* handleConnection                                                        *)
(***************************************************************************)
VerifyToken(c) ==
  /\ at[c] = "start" /\ Asks(c, "connect")
  /\ IF request[c].token = Nobody THEN Goto(c, "done") /\ Close(Socket(c)) ELSE Turns(c, "findUser")

AttachUser(c) ==
  /\ at[c] = "findUser"
  /\ attached' = [attached EXCEPT ![Socket(c)] = request[c].token]
  /\ Goto(c, "done")
  /\ UNCHANGED <<conn, rooms, asked>>

(***************************************************************************)
(* event.join and event.leave                                              *)
(***************************************************************************)
\* Slip: a socket need not have a user.
AnySocket(s) == TRUE

Authenticated(s) == attached[s] /= Nobody

\* Slip: a socket that has been closed still joins.
JoinsAlways(c) == rooms' = [rooms EXCEPT ![Socket(c)] = @ \cup {request[c].event}]

Joins(c) ==
  rooms' = IF conn[Socket(c)] = "open" THEN [rooms EXCEPT ![Socket(c)] = @ \cup {request[c].event}] ELSE rooms

\* The history of what was asked; closed sockets have none.
Ask(c) ==
  IF request[c].event = NoEvent \/ conn[Socket(c)] /= "open" THEN asked
  ELSE [asked EXCEPT ![Socket(c)][request[c].event] = c]

StartJoin(c) ==
  /\ at[c] = "start" /\ Asks(c, "join")
  /\ IF Authenticated(Socket(c))
     THEN /\ Goto(c, "findEvent") /\ asked' = Ask(c)
          /\ UNCHANGED <<conn, attached, rooms>>
     ELSE Turns(c, "failed")

FindEvent(c) ==
  /\ at[c] = "findEvent"
  /\ IF request[c].event = NoEvent THEN Turns(c, "failed")
     ELSE Goto(c, "done") /\ Joins(c) /\ UNCHANGED <<conn, attached, asked>>

LeaveRoom(c) ==
  /\ at[c] = "start" /\ Asks(c, "leave")
  /\ IF Authenticated(Socket(c))
     THEN /\ Goto(c, "done") /\ asked' = Ask(c)
          /\ rooms' = [rooms EXCEPT ![Socket(c)] = @ \ {request[c].event}]
          /\ UNCHANGED <<conn, attached>>
     ELSE Turns(c, "done")

\* The client goes away, or the network between does; handlers run on.
Disconnect(s) ==
  /\ conn[s] = "open"
  /\ Close(s)
  /\ UNCHANGED <<callVars, at>>

RoomStep ==
  \/ \E c \in RoomCall : RoomArrive(c) \/ VerifyToken(c) \/ AttachUser(c)
                         \/ StartJoin(c) \/ FindEvent(c) \/ LeaveRoom(c)
  \/ \E s \in Sockets : Disconnect(s)

\* A handler that throws reports it; a connection that throws is closed.
RoomFail ==
  \E c \in InFlight \cap RoomCall :
    /\ Lose({c})
    /\ IF Asks(c, "connect") THEN Close(Socket(c)) ELSE UNCHANGED roomVars

\* The sockets of a process go with it.
RoomCrash ==
  /\ conn' = [s \in Sockets |-> IF conn[s] = "open" THEN "closed" ELSE conn[s]]
  /\ rooms' = [s \in Sockets |-> {}]
  /\ asked' = [s \in Sockets |-> [e \in LiveEvent |-> Nobody]]
  /\ UNCHANGED attached

(***************************************************************************)
(* Properties                                                              *)
(***************************************************************************)
\* Who listens in a room is connected and was known by a token, whatever joins
\* are still under way when the connection goes; and in turn, a socket is in the
\* rooms of the events it asked last to join, and in no others.  (A leave that
\* overtakes a join which still reads the event is undone by it: :118-136.)
RoomsFollowTheirMessages ==
  \A s \in Sockets :
    /\ rooms[s] /= {} => conn[s] = "open" /\ attached[s] /= Nobody
    /\ ~overlapped /\ InFlight = {} => \A e \in LiveEvent :
         /\ e \in rooms[s] => asked[s][e] /= Nobody /\ ~Asks(asked[s][e], "leave")
         /\ asked[s][e] /= Nobody /\ Asks(asked[s][e], "join") /\ at[asked[s][e]] = "done" => e \in rooms[s]
=============================================================================
