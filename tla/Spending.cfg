\* A spray, two transfers, a payout, a requery and a reversal: any two of them.
SPECIFICATION Spec
CONSTANTS
  ada = ada  bob = bob  cyd = cyd
  wA = wA  wB = wB
  NoOne = NoOne
  NoKey = NoKey
  NoRequest = NoRequest
  NoWallet = NoWallet
  Absent = Absent
  Outside = Outside
  Wallets = {wA, wB}
  Req = {q1}
  Transfer = {t1, t2}
  Cashout = {c1}
  Requery = {a1}
  Reversal = {b1}
  Actor = {q1, t1, t2, c1, a1, b1}
  Keys = {k}
  Opening = 2
  Sums = {2}
  Users = {ada, bob, cyd}
  Host = ada
  Seats <- ThreeSeats
  DefaultWallet <- ThreeDefaults
  Currency <- OneCurrency
  Provisioned = {wA, wB}
  Amounts = {1}
  MinSprayAmount = 1
  MaxCalls = 2
  MaxServed = 2
  MaxInFlight = 2
  MaxFaults = 1
SYMMETRY Symmetry
CHECK_DEADLOCK FALSE
INVARIANTS
  TypeOK
  RecordsAreWrittenInOrder
  RecordsWereMoved
  FinishedMovesAreInTheBalance
PROPERTIES
  ImplementsPostingBook
