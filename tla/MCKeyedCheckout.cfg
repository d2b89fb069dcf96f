CONSTANTS
  Requests = {r1, r2, r3}
  Payloads = {p1, p2}
  NoRequest = NoRequest
  RedisModes = {"off", "late"}
  MaxTransactions = 1
  MaxCollisions = 1
SYMMETRY KeySymmetry
SPECIFICATION Spec
CHECK_DEADLOCK FALSE
INVARIANTS TypeOK OneCheckoutPerKey
PROPERTIES KeepsPromise
