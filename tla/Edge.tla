-------------------------------- MODULE Edge --------------------------------
(***************************************************************************)
(* What stands between the clients and the services: the guard that limits *)
(* sprays, the sockets that listen, and the devices that get messages.     *)
(* They share the process: a crash empties the memory of the first two,    *)
(* while the third is a table and stays.  Nothing else of one is touched   *)
(* by another, so that an observation may keep to one of them.             *)
(***************************************************************************)
EXTENDS RateLimit, Rooms, Devices

CONSTANT MaxComponents   \* bound: how many of the three an observation uses

ASSUME EdgeAssumption ==
  /\ Calls = SprayCall \cup RoomCall \cup DeviceCall
  /\ SprayCall \cap (RoomCall \cup DeviceCall) = {} /\ RoomCall \cap DeviceCall = {}

vars == <<callVars, at, rateVars, roomVars, deviceVars>>

TypeOK == ServerTypeOK /\ RateTypeOK /\ RoomsTypeOK /\ DevicesTypeOK

Init == CallsInit /\ RateInit /\ RoomsInit /\ DevicesInit

InUse(calls) == \E c \in calls : at'[c] /= "idle"

\* The process may die while it serves no call: there is memory to lose.
Die == Lose(InFlight) /\ RateCrash /\ RoomCrash /\ UNCHANGED deviceVars

Step ==
  \/ RateStep /\ UNCHANGED <<roomVars, deviceVars>>
  \/ (RoomStep \/ RoomFail) /\ UNCHANGED <<rateVars, deviceVars>>
  \/ (\E c \in DeviceCall : DeviceStep(c) \/ (c \in InFlight /\ Lose({c}) /\ UNCHANGED deviceVars))
     /\ UNCHANGED <<rateVars, roomVars>>
  \/ Die

Next ==
  /\ Step
  /\ Cardinality({calls \in {SprayCall, RoomCall, DeviceCall} : InUse(calls)}) <= MaxComponents

Spec == Init /\ [][Next]_vars
=============================================================================
