SPECIFICATION FairSpec
CONSTANTS
  Riders = {r1}
  NoRider = NoRider
  Workers = {w1, w2}
  MaxAttempts = 3
  Qty = 1
  CancelStages <- DefaultStages
  MaxCrashes = 1
  SettlementsFail = FALSE
CHECK_DEADLOCK FALSE
PROPERTIES
  SellerWaitEnds
  SearchEnds
  StockComesBack
