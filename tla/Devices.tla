------------------------------ MODULE Devices ------------------------------
(***************************************************************************)
(* NotificationsService: the devices users register, and the messages that *)
(* are pushed to them through Firebase.  Each handler reads rows, awaits   *)
(* and writes, without a database transaction: one action per stretch of   *)
(* code between two awaits.  Of a device the owner, the token and whether  *)
(* it is active are modelled; lastSeenAt, written besides, is read by no   *)
(* handler.                                                                *)
(***************************************************************************)
EXTENDS Server

CONSTANTS
  Users, Tokens,
  DeviceCall,    \* the calls of this service
  OldDevice,     \* a device registered before the observation starts
  NoDevice, Null


VARIABLES
  device,      \* device[d] : the row with id d (named by the call that inserted it), or NoDevice
  found,       \* found[c] : the id of the row call c will update
  left,        \* left[c] : the tokens call c has still to push to
  delivered,   \* history: the pushes that reached a token, and whose it was then
  promised     \* history: promised[t] : the user last told that token t is registered

deviceVars == <<device, found, left, delivered, promised>>

Ids == DeviceCall \cup {OldDevice}
DeviceRow == [user : Users, token : Tokens, active : BOOLEAN]

ASSUME DevicesAssumption ==
  /\ DeviceCall \subseteq Calls /\ OldDevice \notin Calls
  /\ NoDevice \notin DeviceRow /\ Null \notin Users

DeviceRequests ==
  [op : {"register"}, user : Users, token : Tokens] \cup
  [op : {"update"}, user : Users, device : Ids, token : Tokens \cup {Null}, active : BOOLEAN \cup {Null}] \cup
  [op : {"deactivate", "remove"}, user : Users, device : Ids] \cup
  [op : {"send"}, to : SUBSET Users \ {{}}]
DevicePlaces == {"start", "findToken", "write", "insert", "push", "single", "mark"}

DevicesTypeOK ==
  /\ \A c \in DeviceCall : request[c] \in IF at[c] = "idle" THEN {NoRequest} ELSE DeviceRequests
  /\ \A c \in DeviceCall : at[c] \in {"idle"} \cup DevicePlaces \cup Ends
  /\ device \in [Ids -> DeviceRow \cup {NoDevice}]
  /\ found \in [DeviceCall -> Ids \cup {Null}]
  /\ left \in [DeviceCall -> SUBSET Tokens]
  /\ delivered \subseteq [by : DeviceCall, token : Tokens, owner : Users \cup {Null}]
  /\ promised \in [Tokens -> Users \cup {Null}]

DevicesInit ==
  /\ \E old \in DeviceRow \cup {NoDevice} :
       device = [d \in Ids |-> IF d = OldDevice THEN old ELSE NoDevice]
  /\ found = [c \in DeviceCall |-> Null]
  /\ left = [c \in DeviceCall |-> {}]
  /\ delivered = {}
  /\ promised = [t \in Tokens |-> Null]

Op(c) == request[c].op
Rows == {d \in Ids : device[d] /= NoDevice}
With(t) == {d \in Rows : device[d].token = t}
Owner(t) == IF With(t) = {} THEN Null ELSE device[CHOOSE d \in With(t) : TRUE].user

\* A client knows the ids of devices that have been inserted.
DeviceArrive(c) ==
  /\ LET possible(r) == r.op \in {"update", "deactivate", "remove"} => r.device \in Rows
     IN Enter(c, {r \in DeviceRequests : possible(r)}, "start")
  /\ UNCHANGED deviceVars

Steps(c, place) == Goto(c, place) /\ UNCHANGED deviceVars

(***************************************************************************)
(* registerDevice                                                          *)
(***************************************************************************)
FindUser(c) ==
  /\ at[c] = "start" /\ Op(c) = "register"
  /\ Steps(c, "findToken")

FindToken(c) ==
  /\ at[c] = "findToken" /\ Op(c) = "register"
  /\ \/ With(request[c].token) = {} /\ Steps(c, "insert")
     \/ \E d \in With(request[c].token) :
          IF device[d].user = request[c].user
          THEN /\ found' = [found EXCEPT ![c] = d]
               /\ Goto(c, "write")
               /\ UNCHANGED <<device, left, delivered, promised>>
          ELSE Steps(c, "failed")

\* Slip: deviceToken is not unique.
MayHoldAny(d, t) == TRUE

\* deviceToken is unique.
MayHold(d, t) == With(t) \subseteq {d}

Insert(c) ==
  /\ at[c] = "insert"
  /\ IF MayHold(c, request[c].token)
     THEN /\ device' = [device EXCEPT ![c] =
               [user |-> request[c].user, token |-> request[c].token, active |-> TRUE]]
          /\ promised' = [promised EXCEPT ![request[c].token] = request[c].user]
          /\ Goto(c, "done")
          /\ UNCHANGED <<found, left, delivered>>
     ELSE Steps(c, "failed")

\* Slip: the device is not made active again.
Touched(row) == row

\* The update of a device that is registered again writes no token.
Renewed(row) == [row EXCEPT !.active = TRUE]

(***************************************************************************)
(* updateDevice, deactivateDevice, removeDevice                            *)
(***************************************************************************)
Mine(c) == request[c].device \in Rows /\ device[request[c].device].user = request[c].user

NewToken(c) == request[c].token \notin {Null, device[request[c].device].token}

FindDevice(c) ==
  /\ at[c] = "start" /\ Op(c) \in {"update", "deactivate", "remove"}
  /\ IF Mine(c)
     THEN /\ found' = [found EXCEPT ![c] = request[c].device]
          /\ Goto(c, IF Op(c) = "update" /\ NewToken(c) THEN "findToken" ELSE "write")
          /\ UNCHANGED <<device, left, delivered, promised>>
     ELSE Steps(c, "failed")

FindNewToken(c) ==
  /\ at[c] = "findToken" /\ Op(c) = "update"
  /\ Steps(c, IF With(request[c].token) = {} THEN "write" ELSE "failed")

\* Slip: a token that is not given is written all the same.
UpdatedAsAsked(row, r) ==
  [row EXCEPT !.token = r.token, !.active = IF r.active = Null THEN @ ELSE r.active]

Updated(row, r) ==
  [row EXCEPT !.token = IF r.token = Null THEN @ ELSE r.token,
              !.active = IF r.active = Null THEN @ ELSE r.active]

Result(c, row) ==
  CASE Op(c) = "register" -> Renewed(row)
    [] Op(c) = "update" -> Updated(row, request[c])
    [] Op(c) = "deactivate" -> [row EXCEPT !.active = FALSE]
    [] Op(c) = "remove" -> NoDevice

\* Whoever removes, changes or switches off a device takes the promise back.
Promise(t, c, result) ==
  IF Op(c) = "register" /\ t = request[c].token THEN request[c].user
  ELSE IF t = device[found[c]].token /\ (result = NoDevice \/ ~result.active \/ result.token /= t) THEN Null
  ELSE promised[t]

\* The update, or the delete, by id: it throws when the row is gone.
WriteDevice(c) ==
  /\ at[c] = "write"
  /\ LET result == Result(c, device[found[c]]) IN
     IF found[c] \in Rows /\ (result /= NoDevice => MayHold(found[c], result.token))
     THEN /\ device' = [device EXCEPT ![found[c]] = result]
          /\ promised' = [t \in Tokens |-> Promise(t, c, result)]
          /\ Goto(c, "done")
          /\ UNCHANGED <<found, left, delivered>>
     ELSE Steps(c, "failed")

(***************************************************************************)
(* sendMessage and sendBulkMessage.  Firebase pushes to all tokens of one  *)
(* request and answers for each; when the request as a whole throws, some  *)
(* may have been reached, and the handler pushes to all one by one.        *)
(***************************************************************************)
\* Slip: the devices of others are not left out.
AnyTarget(c, d) == device[d].active

Target(c, d) == device[d].active /\ device[d].user \in request[c].to

Targets(c) == {device[d].token : d \in {e \in Rows : Target(c, e)}}

ReadDevices(c) ==
  /\ at[c] = "start" /\ Op(c) = "send"
  /\ IF Targets(c) = {} THEN Steps(c, "failed")
     ELSE /\ left' = [left EXCEPT ![c] = Targets(c)]
          /\ Goto(c, "push")
          /\ UNCHANGED <<device, found, delivered, promised>>

Pushes(c, tokens) == {[by |-> c, token |-> t, owner |-> Owner(t)] : t \in tokens}

Multicast(c) ==
  /\ at[c] = "push"
  /\ \E reached \in SUBSET left[c] :
       /\ delivered' = delivered \cup Pushes(c, reached)
       /\ \/ /\ left' = [left EXCEPT ![c] = {}]
             /\ Goto(c, IF reached = {} THEN "done" ELSE "mark")
          \/ UNCHANGED left /\ Goto(c, "single")
  /\ UNCHANGED <<device, found, promised>>

\* One by one; a token that fails is counted and passed over.
PushSingle(c) ==
  /\ at[c] = "single"
  /\ \E t \in left[c] :
       /\ delivered' \in {delivered, delivered \cup Pushes(c, {t})}
       /\ left' = [left EXCEPT ![c] = @ \ {t}]
       /\ Goto(c, IF left[c] = {t} THEN "mark" ELSE "single")
  /\ UNCHANGED <<device, found, promised>>

\* lastSeenAt of the devices reached, in one statement.
Mark(c) == at[c] = "mark" /\ Steps(c, "done")

DeviceStep(c) ==
  \/ DeviceArrive(c) \/ FindUser(c) \/ FindToken(c) \/ Insert(c) \/ FindDevice(c) \/ FindNewToken(c)
  \/ WriteDevice(c) \/ ReadDevices(c) \/ Multicast(c) \/ PushSingle(c) \/ Mark(c)

(***************************************************************************)
(* Properties                                                              *)
(***************************************************************************)
\* Two devices do not share a token, however the lookups of several calls fall;
\* and in turn, a token stays registered and active for the user who was told so
\* last, until the device is changed or removed.  (Of calls that overlap a
\* register may answer for a row whose token was changed since its lookup:
\* notifications.service.ts:34-49.)
RegistrationsHold ==
  /\ \A d, e \in Rows : device[d].token = device[e].token => d = e
  /\ ~overlapped => \A t \in Tokens : promised[t] /= Null =>
       \E d \in With(t) : device[d].user = promised[t] /\ device[d].active

\* In turn, a message reaches only devices that its user has; a message that
\* overlaps a change of devices goes by what was read before
\* (notifications.service.ts:124-137, :286).
MessagesReachTheirUsers ==
  ~overlapped => \A p \in delivered : p.owner \in request[p.by].to
=============================================================================
