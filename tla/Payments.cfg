\* Any three of two payouts, two deliveries of deposits, two notices and a requery.
SPECIFICATION Spec
CONSTANTS
  NoOne = NoOne
  Stranger = Stranger
  NoRequest = NoRequest
  NoKey = NoKey
  Wallets = {w}
  Actor = {t1, t2, d1, d2, h1, h2, r1}
  Transfer = {t1, t2}
  Inflow = {d1, d2}
  Hook = {h1, h2}
  Requery = {r1}
  Deposits = {x, y}
  Keys = {k}
  Opening = 1
  Sums = {1}
  MaxCalls = 3
  MaxInFlight = 2
  MaxFaults = 1
SYMMETRY Symmetry
CHECK_DEADLOCK FALSE
INVARIANTS
  TypeOK
  InflowsAreExplained
  RefundsFollowFailures
  PayoutStatusesAreTheProviders
  BalancesMatchTheRecords
PROPERTIES
  ImplementsDepositDesk
