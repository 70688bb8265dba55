\* A payout that took nothing is refunded.
SPECIFICATION Spec
CONSTANTS
  NoOne = NoOne
  Stranger = Stranger
  NoRequest = NoRequest
  NoKey = NoKey
  Wallets = {w}
  Actor = {t1, h1, h2}
  Transfer = {t1}
  Inflow = {}
  Hook = {h1, h2}
  Requery = {}
  Deposits = {}
  Keys = {}
  Opening = 1
  Sums = {1}
  MaxCalls = 3
  MaxInFlight = 1
  MaxFaults = 0
SYMMETRY Symmetry
CHECK_DEADLOCK FALSE
INVARIANTS
  RefundsReverseADebit
