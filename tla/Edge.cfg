\* Four sprays at the guard, four messages of a socket, or two calls about devices.
SPECIFICATION Spec
CONSTANTS
  NoRequest = NoRequest
  NoEvent = NoEvent
  NoDevice = NoDevice
  Null = Null
  Nobody = Nobody
  OldDevice = OldDevice
  Users = {ada, bob}
  People = {ada}
  Sprayers = {ada}
  Tokens = {t1, t2}
  Sockets = {s1}
  LiveEvent = {party}
  SprayCall = {p1, p2, p3, p4}
  RoomCall = {r1, r2, r3, r4}
  DeviceCall = {d1, d2}
  Calls = {p1, p2, p3, p4, r1, r2, r3, r4, d1, d2}
  MaxRequests = 2
  Window = 2
  MaxClock = 5
  MaxCalls = 4
  MaxComponents = 1
  MaxInFlight = 2
  MaxFaults = 1
SYMMETRY Symmetry
CHECK_DEADLOCK FALSE
INVARIANTS
  TypeOK
  WindowIsKept
  RoomsFollowTheirMessages
  RegistrationsHold
  MessagesReachTheirUsers
