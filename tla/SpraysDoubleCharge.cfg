\* Two calls under one key are both charged by the provider.
SPECIFICATION Spec
CONSTANTS
  ada = ada  bob = bob
  wA = wA  wB = wB
  NoOne = NoOne
  NoWallet = NoWallet
  Absent = Absent
  Wallets = {wA, wB}
  Req = {r1, r2}
  Actor = {r1, r2}
  Keys = {k1}
  Opening = 2
  Users = {ada, bob}
  Host = ada
  Seats <- TwoSeats
  DefaultWallet <- TwoDefaults
  Currency <- OneCurrency
  Provisioned <- AllWallets
  Amounts = {1}
  MinSprayAmount = 1
  MaxInFlight = 2
  MaxCrashes = 0
INVARIANTS
  ChargedOncePerKey
