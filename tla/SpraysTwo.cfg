\* Two concurrent calls, two users, retries under one key, a crash.
SPECIFICATION FairSpec
CONSTANTS
  ada = ada  bob = bob
  wA = wA  wB = wB
  NoOne = NoOne
  NoWallet = NoWallet
  Absent = Absent
  Wallets = {wA, wB}
  Req = {r1, r2}
  Actor = {r1, r2}
  Keys = {k1, k2}
  Opening = 1
  Users = {ada, bob}
  Host = ada
  Seats <- TwoSeats
  DefaultWallet <- TwoDefaults
  Currency <- OneCurrency
  Provisioned <- AllWallets
  Amounts = {1}
  MinSprayAmount = 1
  MaxInFlight = 2
  MaxCrashes = 1
INVARIANTS
  SpraysAreWhole
  SpraysArePaid
  OneSprayPerKey
  EventsFollowCommits
  IInv
PROPERTIES
  ImplementsPostingBook
  BalanceWritesAreBooked
  EveryCallEnds
