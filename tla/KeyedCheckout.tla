--------------------------- MODULE KeyedCheckout ----------------------------
(***************************************************************************)
(* placeOrderAtomic: requests of one customer that carry one idempotency   *)
(* key (a checkout without a key has no such protocol).  The lock and the  *)
(* cached outcomes of IdempotencyKey spare work; what makes a placement    *)
(* unique is the unique index on the key of a checkout group, which the    *)
(* commit respects whatever the lock did.  The group itself expires a day  *)
(* later, but its orders keep the key, so a retry finds the same checkout. *)
(***************************************************************************)
EXTENDS IdempotencyKey

CONSTANT MaxCollisions      \* retries of an orderId collision

ASSUME CollisionsAssumption == MaxCollisions \in Nat

VARIABLES checkouts,        \* requests whose checkout group is in the database
          collisions        \* retries of an orderId collision so far

checkoutVars == <<checkouts, collisions>>
vars == <<keyVars, checkoutVars>>

Labels == {"start", "lock", "find", "place", "again", "keep", "unlock", "release",
           "fail", "failUnlock", "duplicate", "duplicateUnlock", "recover"}
Held == Labels \ {"start", "lock", "recover"}

Init ==
  /\ KeyInit
  /\ checkouts = {}
  /\ collisions = [r \in Requests |-> 0]

\* A checkout of the key, of whatever body, answers the request.
AnswerExisting(r) ==
  /\ \E c \in checkouts : answer' = [answer EXCEPT ![r] = Placed(c)]
  /\ GoTo(r, "keep")

findExistingCheckoutByIdempotency(r) ==
  /\ pc[r] = "find"
  /\ IF checkouts # {} THEN AnswerExisting(r)
                       ELSE GoTo(r, "place") /\ UNCHANGED answer
  /\ UNCHANGED <<redis, payload, lock, cachedResult, cachedError, resultRead, attempt, checkoutVars>>

\* The payment mode is switched off: the request fails and keeps the lock.
assertPaymentModeEnabled(r) ==
  /\ pc[r] = "find" /\ checkouts = {}
  /\ AnswerWith(r, Refused("refused"))
  /\ UNCHANGED <<redis, payload, lock, cachedResult, cachedError, resultRead, attempt, checkoutVars>>

CommitAnyway(r) ==
  /\ pc[r] = "place"
  /\ checkouts' = checkouts \cup {r}
  /\ answer' = [answer EXCEPT ![r] = Placed(r)]
  /\ GoTo(r, "keep")
  /\ UNCHANGED <<redis, payload, lock, cachedResult, cachedError, resultRead, attempt, collisions>>

\* The transaction commits; the unique index admits one group per key.
Commit(r) ==
  /\ pc[r] = "place"
  /\ checkouts = {}
  /\ checkouts' = checkouts \cup {r}
  /\ answer' = [answer EXCEPT ![r] = Placed(r)]
  /\ GoTo(r, "keep")
  /\ UNCHANGED <<redis, payload, lock, cachedResult, cachedError, resultRead, attempt, collisions>>

\* The transaction aborts: on a transient conflict, on a duplicate key (of the
\* idempotency key or of a generated public id), on an error worth a retry, or
\* on one that is final.
Abort(r) ==
  /\ pc[r] = "place"
  /\ \/ GoTo(r, "again") /\ UNCHANGED answer
     \/ GoTo(r, "duplicate") /\ answer' = [answer EXCEPT ![r] = Refused("refused")]
     \/ GoTo(r, "release") /\ answer' = [answer EXCEPT ![r] = Refused("retryLater")]
     \/ GoTo(r, "fail") /\ answer' = [answer EXCEPT ![r] = Refused("refused")]
  /\ UNCHANGED <<redis, payload, lock, cachedResult, cachedError, resultRead, attempt, checkoutVars>>

RecoverAsOwn(r) ==
  /\ pc[r] = "recover"
  /\ answer' = [answer EXCEPT ![r] = Placed(r)]
  /\ GoTo(r, "keep")
  /\ UNCHANGED <<redis, payload, lock, cachedResult, cachedError, resultRead, attempt, checkoutVars>>

\* A duplicate key, already cached as an error: the existing checkout is the
\* answer.  Without one, a collision of public ids is tried again from the start
\* and any other duplicate ends the request.
RecoverDuplicate(r) ==
  /\ pc[r] = "recover"
  /\ \/ checkouts # {} /\ AnswerExisting(r) /\ UNCHANGED collisions
     \/ /\ checkouts = {} /\ collisions[r] < MaxCollisions
        /\ collisions' = [collisions EXCEPT ![r] = @ + 1]
        /\ GoTo(r, "start") /\ UNCHANGED answer
     \/ /\ checkouts = {}
        /\ GoTo(r, "done") /\ UNCHANGED <<answer, collisions>>
  /\ UNCHANGED <<redis, payload, lock, cachedResult, cachedError, resultRead, attempt, checkouts>>

\* placeOrderAtomic up to the lock, and the entries it writes around the transaction.
KeyStep(r) ==
  /\ \/ ReadResult(r, "idle") \/ ReadResult(r, "start")
     \/ checkIdempotency(r, "lock")
     \/ acquireIdempotencyLock(r, "lock", "find")
     \/ BeginAgain(r, "again", "start")
     \/ storeIdempotencyResult(r, "keep", "unlock")
     \/ storeIdempotencyError(r, "fail", "failUnlock")
     \/ storeIdempotencyError(r, "duplicate", "duplicateUnlock")
     \/ releaseIdempotencyLock(r, "duplicateUnlock", "recover")
     \/ \E label \in {"unlock", "release", "failUnlock"} : releaseIdempotencyLock(r, label, "done")
     \/ Crash(r)
  /\ UNCHANGED checkoutVars

placeOrderAtomic(r) ==
  \/ KeyStep(r)
  \/ findExistingCheckoutByIdempotency(r) \/ assertPaymentModeEnabled(r)
  \/ Commit(r) \/ Abort(r) \/ RecoverDuplicate(r)

Next ==
  \/ \E r \in Requests : placeOrderAtomic(r)
  \/ Expire(Held) /\ UNCHANGED checkoutVars

Spec == Init /\ [][Next]_vars

-----------------------------------------------------------------------------
(* Properties *)

\* The shapes of the entries, of the requests and of the database.
TypeOK ==
  /\ KeyTypeOK(Labels)
  /\ checkouts \subseteq Requests
  /\ collisions \in [Requests -> 0 .. MaxCollisions]

\* However the lock expires or is deleted under its holder, and with Redis
\* off, one key places one checkout (the unique index on checkout groups).
OneCheckoutPerKey == Cardinality(checkouts) <= 1

\* Answers, fresh, cached or recovered from a duplicate key, name the one
\* checkout and are final: placeOrderAtomic keeps the promise of AtMostOnce.
told == [r \in Requests |-> IF pc[r] = "done" THEN answer[r].placed ELSE NoRequest]
Promise == INSTANCE AtMostOnce WITH placed <- checkouts, Nothing <- NoRequest
KeepsPromise == Promise!Spec
=============================================================================
