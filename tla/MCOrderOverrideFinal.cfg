SPECIFICATION OverrideSpec
CONSTANTS
  Riders = {r1}
  NoRider = NoRider
  Workers = {w1}
  MaxAttempts = 1
  Qty = 2
  CancelStages <- DefaultStages
  MaxCrashes = 0
  SettlementsFail = TRUE
  MaxOverrides = 1
CHECK_DEADLOCK FALSE
PROPERTY CancelledIsFinal
