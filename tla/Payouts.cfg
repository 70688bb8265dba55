\* Calls interleave; a crash may take them all.
SPECIFICATION Spec
CONSTANTS
  NoOne = NoOne
  NoCode = NoCode
  NoPayout = NoPayout
  NoPin = NoPin
  Wallets = {own, other}
  Owned = {own}
  Actor = {i1, i2, c1, c2}
  Initiate = {i1, i2}
  Confirm = {c1, c2}
  Keys = {}
  Opening = 3
  Pins = {p1, p2}
  Sums = {2}
  MaxInFlight = 3
  MaxCrashes = 1
SYMMETRY Symmetry
INVARIANTS
  TypeOK
  CodesPayOnceInTurn
  CodesConfirmTheirOrder
  BalancesMatchPayouts
PROPERTIES
  ImplementsPayoutDesk
