\* Any two calls of two users.
SPECIFICATION Spec
CONSTANTS
  NoRequest = NoRequest
  NoEvent = NoEvent
  NoSeat = NoSeat
  Nobody = Nobody
  Stranger = Stranger
  Standing = Standing
  Users = {ada, bob}
  KycCall = {k1, k2}
  OpenWallet = {w1, w2}
  LookUp = {n1}
  NoWallet = NoWallet
  CreateEvent = {e1, e2}
  JoinEvent = {j1, j2}
  LeaveEvent = {l1}
  RemoveEvent = {x1}
  Calls = {k1, k2, e1, e2, j1, j2, l1, x1, w1, w2, n1}
  Codes = {a, b}
  AskedTiers = {0, 2}
  Profiles <- AnyProfile
  MaxCalls = 2
  MaxInFlight = 2
  MaxFaults = 1
SYMMETRY Symmetry
CHECK_DEADLOCK FALSE
INVARIANTS
  TypeOK
  TiersFollowTheChecks
  RolesWereEarned
  EventsHoldTogether
  WalletsAreTheProviders
PROPERTIES
  OnlyEarlierChecksTakeTierTwo
