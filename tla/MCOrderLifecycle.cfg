SPECIFICATION Spec
CONSTANTS
  Riders = {r1, r2}
  NoRider = NoRider
  Workers = {w1, w2}
  MaxAttempts = 3
  Qty = 2
  CancelStages <- DefaultStages
  MaxCrashes = 1
  SettlementsFail = TRUE
SYMMETRY Symmetry
CHECK_DEADLOCK FALSE
INVARIANTS
  TypeOK
  StatusMirrorsWorkflow
  PaidBeforeWork
  RiderMatchesProgress
  StockAccountedFor
  StockHeldUntilInspected
  RecordMatchesOrder
  SettledOrGivenBack
PROPERTIES
  TerminalIsFinal
  KeepsPromise
