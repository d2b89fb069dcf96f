SPECIFICATION Spec
CONSTANTS
  Items = {i1}
  Riders = {r1}
  NoRider = NoRider
  Same = Same
  Handlers = {h1, h2}
  MaxSearches = 2
SYMMETRY Symmetry
INVARIANTS TypeOK RefundWithinAsked LostPayoutWasRefunded SellerChargedOnce RefundSettlesSeller
PROPERTIES RefundedOnce PayoutFinal
CHECK_DEADLOCK FALSE
