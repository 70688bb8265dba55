\* An order stays in the row after it has been paid.
SPECIFICATION Spec
CONSTANTS
  NoOne = NoOne
  NoCode = NoCode
  NoPayout = NoPayout
  NoPin = NoPin
  Wallets = {own, other}
  Owned = {own}
  Actor = {i1, i2, c1, c2}
  Initiate = {i1, i2}
  Confirm = {c1, c2}
  Keys = {}
  Opening = 2
  Pins = {p1, p2}
  Sums = {1}
  MaxInFlight = 1
  MaxCrashes = 0
SYMMETRY Symmetry
INVARIANTS
  PaidOrdersAreCleared
