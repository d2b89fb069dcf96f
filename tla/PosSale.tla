------------------------------ MODULE PosSale -------------------------------
(***************************************************************************)
(* createPosSale: requests of one seller's counter that carry one          *)
(* idempotency key.  The same entries as in KeyedCheckout, in another      *)
(* order: the sale is looked up before the lock is taken, and no index     *)
(* makes the key of a sale unique.                                         *)
(***************************************************************************)
EXTENDS IdempotencyKey

VARIABLES sales,      \* requests whose sale is in the database
          retries     \* requests that began after a sale was committed

vars == <<keyVars, sales, retries>>

Held == {"sell", "again", "keep", "unlock", "release", "fail", "failUnlock"}
Labels == {"start", "find", "day", "lock"} \cup Held

Init ==
  /\ KeyInit
  /\ sales = {} /\ retries = {}

Begin(r) ==
  /\ ReadResult(r, "idle")
  /\ retries' = IF sales = {} THEN retries ELSE retries \cup {r}
  /\ UNCHANGED sales

findExistingSaleWithoutRedis(r) ==
  /\ pc[r] = "find"
  /\ IF sales # {} /\ redis = "off"
       THEN \E s \in sales : AnswerWith(r, Placed(s))
       ELSE GoTo(r, "day") /\ UNCHANGED answer
  /\ UNCHANGED <<redis, payload, lock, cachedResult, cachedError, resultRead, attempt, sales, retries>>

\* The durable check: a committed sale of the key answers the request, and
\* nothing is cached or unlocked, since the request holds no lock yet.
findExistingSale(r) ==
  /\ pc[r] = "find"
  /\ IF sales # {}
       THEN \E s \in sales : AnswerWith(r, Placed(s))
       ELSE GoTo(r, "day") /\ UNCHANGED answer
  /\ UNCHANGED <<redis, payload, lock, cachedResult, cachedError, resultRead, attempt, sales, retries>>

\* The business day is open, or the request is refused.
assertDayOpen(r) ==
  /\ pc[r] = "day"
  /\ \/ GoTo(r, "lock") /\ UNCHANGED answer
     \/ AnswerWith(r, Refused("refused"))
  /\ UNCHANGED <<redis, payload, lock, cachedResult, cachedError, resultRead, attempt, sales, retries>>

\* The transaction commits the sale.
Commit(r) ==
  /\ pc[r] = "sell"
  /\ sales' = sales \cup {r}
  /\ answer' = [answer EXCEPT ![r] = Placed(r)]
  /\ GoTo(r, "keep")
  /\ UNCHANGED <<redis, payload, lock, cachedResult, cachedError, resultRead, attempt, retries>>

\* The transaction aborts on a transient conflict, on an error worth a retry by
\* the client, or on one that is final.
Abort(r) ==
  /\ pc[r] = "sell"
  /\ \/ GoTo(r, "again") /\ UNCHANGED answer
     \/ GoTo(r, "release") /\ answer' = [answer EXCEPT ![r] = Refused("retryLater")]
     \/ GoTo(r, "fail") /\ answer' = [answer EXCEPT ![r] = Refused("refused")]
  /\ UNCHANGED <<redis, payload, lock, cachedResult, cachedError, resultRead, attempt, sales, retries>>

\* createPosSale up to the lock, and the entries it writes around the transaction.
KeyStep(r) ==
  /\ \/ ReadResult(r, "start")
     \/ checkIdempotency(r, "find")
     \/ acquireIdempotencyLock(r, "lock", "sell")
     \/ BeginAgain(r, "again", "start")
     \/ storeIdempotencyResult(r, "keep", "unlock")
     \/ storeIdempotencyError(r, "fail", "failUnlock")
     \/ \E label \in {"unlock", "release", "failUnlock"} : releaseIdempotencyLock(r, label, "done")
     \/ Crash(r)
  /\ UNCHANGED <<sales, retries>>

createPosSale(r) ==
  \/ Begin(r) \/ KeyStep(r)
  \/ findExistingSale(r) \/ assertDayOpen(r)
  \/ Commit(r) \/ Abort(r)

Next ==
  \/ \E r \in Requests : createPosSale(r)
  \/ Expire(Held) /\ UNCHANGED <<sales, retries>>

Spec == Init /\ [][Next]_vars

-----------------------------------------------------------------------------
(* Properties *)

\* The shapes of the entries, of the requests and of the database.
TypeOK ==
  /\ KeyTypeOK(Labels)
  /\ sales \subseteq Requests /\ retries \subseteq Requests

\* A request that begins after a sale of its key was committed never bills
\* again, with Redis off, with every entry expired and after a crash between
\* the commit and the cached result (the durable check of createPosSale).
RetryBillsNothing == sales \cap retries = {}

\* The lock does what it can: with Redis on and no request outliving its lock,
\* one request at a time is between taking the lock and deleting it, through
\* errors, retries and crashes of other requests.
OneAtATime ==
  redis = "timely" => \A r, s \in Requests : pc[r] \in Held /\ pc[s] \in Held => r = s

\* What the idempotency service is for ("to prevent duplicate order creation
\* from retries, network failures, and concurrent requests"): with Redis on and
\* no request outliving its lock, one key bills one sale.
BilledOnce == redis = "timely" => Cardinality(sales) <= 1
=============================================================================
