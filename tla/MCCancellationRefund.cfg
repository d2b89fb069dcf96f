SPECIFICATION Spec
CONSTANTS
  Workers = {w1, w2}
  Cases <- MCCases
  MaxAttempts = 2
  MaxRefunds = 2
SYMMETRY Symmetry
INVARIANTS TypeOK MoneyMovesOnce OneLiveRefund SuccessMeansPaid DoneMeansSettled
CHECK_DEADLOCK FALSE
