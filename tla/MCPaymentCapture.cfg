SPECIFICATION Spec
CONSTANTS
  p1 = p1
  p2 = p2
  Handlers = {p1, p2}
  MaxAttempts = 2
  Cases <- AllCases
SYMMETRY SymmetryHandlers
INVARIANTS TypeOK BookedOnce CaptureIsBooked PaidBeforeSeller CancelledMoneyComesBack RefundedOnce
PROPERTIES NeverRevived KeepsPromise
CHECK_DEADLOCK FALSE
