CONSTANTS
  Requests = {r1, r2, r3}
  Payloads = {p1, p2}
  NoRequest = NoRequest
  RedisModes = {"off", "timely", "late"}
  MaxTransactions = 2
SYMMETRY KeySymmetry
SPECIFICATION Spec
CHECK_DEADLOCK FALSE
INVARIANTS TypeOK RetryBillsNothing OneAtATime
