SPECIFICATION Spec
CONSTANTS
  Riders = {r1, r2}
  NoRider = NoRider
  Workers = {w1, w2}
  MaxAttempts = 3
  Qty = 2
  CancelStages <- DefaultStages
  MaxCrashes = 1
  SettlementsFail = TRUE
CHECK_DEADLOCK FALSE
INVARIANT GivesBackEverything
