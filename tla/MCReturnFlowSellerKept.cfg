SPECIFICATION Spec
CONSTANTS
  Items = {i1, i2}
  Riders = {r1}
  NoRider = NoRider
  Same = Same
  Handlers = {h1}
  MaxSearches = 2
SYMMETRY Symmetry
INVARIANT SellerBearsRefund
CHECK_DEADLOCK FALSE
