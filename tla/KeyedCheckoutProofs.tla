------------------------ MODULE KeyedCheckoutProofs -------------------------
(***************************************************************************)
(* For any number of requests, bodies and retries, one idempotency key     *)
(* places at most one checkout and every answer names it: KeyedCheckout    *)
(* implements AtMostOnce.  The argument does not use the lock.  Once a     *)
(* checkout is committed no other is, and whatever an answer, an entry or  *)
(* a request's copy of an entry names, it is that checkout.                *)
(***************************************************************************)
EXTENDS KeyedCheckout, FiniteSetTheorems, TLAPS

\* What an outcome may name: nothing or a committed checkout.
Nameable == checkouts \cup {NoRequest}

SinglePlacement == \A c, d \in checkouts : c = d
AnswersName == \A r \in Requests : answer[r].placed \in Nameable
EntriesName ==
  /\ cachedResult.placed \in Nameable
  /\ \A r \in Requests : resultRead[r].placed \in Nameable

Inductive == TypeOK /\ SinglePlacement /\ AnswersName /\ EntriesName

USE DEF KeyTypeOK, Answer, Refusal, Entry, NoEntry, NoAnswer, Refused, Placed

LEMMA InductiveInitially == Init => Inductive
<1> USE RequestsAssumption, TransactionsAssumption, CollisionsAssumption
<1>1. ASSUME Init PROVE TypeOK
  <2>1. /\ redis \in RedisModes /\ lock \in BOOLEAN
        /\ payload \in [Requests -> Payloads]
        /\ cachedResult \in Entry \cup {NoEntry} /\ cachedError \in Entry \cup {NoEntry}
    BY <1>1 DEF Init, KeyInit
  <2>2. /\ pc \in [Requests -> Labels \cup {"idle", "check", "done"}]
        /\ resultRead \in [Requests -> Entry \cup {NoEntry}]
        /\ attempt \in [Requests -> 1 .. MaxTransactions]
        /\ answer \in [Requests -> Answer]
    BY <1>1 DEF Init, KeyInit
  <2>3. checkouts \subseteq Requests /\ collisions \in [Requests -> 0 .. MaxCollisions]
    BY <1>1 DEF Init
  <2> QED
    BY <2>1, <2>2, <2>3 DEF TypeOK
<1>2. Init => SinglePlacement /\ AnswersName /\ EntriesName
  BY DEF Init, KeyInit, SinglePlacement, AnswersName, EntriesName, Nameable
<1> QED
  BY <1>1, <1>2 DEF Inductive

\* Each step of a request keeps the shapes.
LEMMA TypePreserved == TypeOK /\ [Next]_vars => TypeOK'
<1> USE TransactionsAssumption, CollisionsAssumption
<1> SUFFICES ASSUME TypeOK, [Next]_vars PROVE TypeOK'
  OBVIOUS
<1> USE DEF TypeOK, Labels, GoTo, AnswerWith, checkoutVars
<1>1. ASSUME NEW r \in Requests, KeyStep(r) PROVE TypeOK'
  <2>0. UNCHANGED checkoutVars
    BY <1>1 DEF KeyStep
  <2>1. CASE ReadResult(r, "idle") \/ ReadResult(r, "start")
    BY <2>0, <2>1 DEF ReadResult
  <2>2. CASE checkIdempotency(r, "lock")
    <3>1. pc' \in [Requests -> Labels \cup {"idle", "check", "done"}]
      BY <2>2 DEF checkIdempotency
    <3>2. answer' \in [Requests -> Answer]
      <4>1. resultRead[r].placed \in Requests \cup {NoRequest}
        OBVIOUS
      <4> QED
        BY <2>2, <4>1 DEF checkIdempotency
    <3>3. resultRead' \in [Requests -> Entry \cup {NoEntry}]
      BY <2>2 DEF checkIdempotency
    <3> QED
      BY <2>0, <2>2, <3>1, <3>2, <3>3 DEF checkIdempotency
  <2>3. CASE acquireIdempotencyLock(r, "lock", "find")
    <3>1. lock' \in BOOLEAN
      BY <2>3 DEF acquireIdempotencyLock
    <3>2. pc' \in [Requests -> Labels \cup {"idle", "check", "done"}]
      BY <2>3 DEF acquireIdempotencyLock
    <3>3. answer' \in [Requests -> Answer]
      BY <2>3 DEF acquireIdempotencyLock
    <3>4. UNCHANGED <<redis, payload, cachedResult, cachedError, resultRead, attempt>>
      BY <2>3 DEF acquireIdempotencyLock
    <3> QED
      BY <2>0, <3>1, <3>2, <3>3, <3>4
  <2>4. CASE BeginAgain(r, "again", "start")
    <3>1. lock' = FALSE /\ UNCHANGED <<redis, payload, cachedResult, cachedError, resultRead>>
      BY <2>4 DEF BeginAgain, DeleteLock
    <3>2. attempt' \in [Requests -> 1 .. MaxTransactions]
      <4>1. CASE attempt[r] < MaxTransactions
        <5>1. attempt[r] + 1 \in 1 .. MaxTransactions
          BY <4>1
        <5> QED
          BY <2>4, <4>1, <5>1 DEF BeginAgain
      <4>2. CASE ~(attempt[r] < MaxTransactions)
        BY <2>4, <4>2 DEF BeginAgain
      <4> QED
        BY <4>1, <4>2
    <3>3. pc' \in [Requests -> Labels \cup {"idle", "check", "done"}]
      <4>1. pc' = [pc EXCEPT ![r] = "start"] \/ pc' = [pc EXCEPT ![r] = "done"]
        BY <2>4 DEF BeginAgain
      <4> QED
        BY <4>1
    <3>4. answer' \in [Requests -> Answer]
      <4>1. answer' = answer \/ answer' = [answer EXCEPT ![r] = Refused("retryLater")]
        BY <2>4 DEF BeginAgain
      <4> QED
        BY <4>1
    <3> QED
      BY <2>0, <3>1, <3>2, <3>3, <3>4
  <2>5. CASE storeIdempotencyResult(r, "keep", "unlock")
    BY <2>0, <2>5 DEF storeIdempotencyResult, CacheResult
  <2>6. CASE \/ storeIdempotencyError(r, "fail", "failUnlock")
             \/ storeIdempotencyError(r, "duplicate", "duplicateUnlock")
    BY <2>0, <2>6 DEF storeIdempotencyError, CacheError
  <2>7. CASE \/ releaseIdempotencyLock(r, "duplicateUnlock", "recover")
             \/ \E label \in {"unlock", "release", "failUnlock"} :
                  releaseIdempotencyLock(r, label, "done")
    BY <2>0, <2>7 DEF releaseIdempotencyLock, DeleteLock
  <2>8. CASE Crash(r)
    BY <2>0, <2>8 DEF Crash
  <2> QED
    BY <1>1, <2>1, <2>2, <2>3, <2>4, <2>5, <2>6, <2>7, <2>8 DEF KeyStep
<1>2. ASSUME NEW r \in Requests,
             findExistingCheckoutByIdempotency(r) \/ assertPaymentModeEnabled(r)
      PROVE  TypeOK'
  BY <1>2 DEF findExistingCheckoutByIdempotency, assertPaymentModeEnabled, AnswerExisting
<1>3. ASSUME NEW r \in Requests, Commit(r) \/ Abort(r) PROVE TypeOK'
  BY <1>3 DEF Commit, Abort
<1>4. ASSUME NEW r \in Requests, RecoverDuplicate(r) PROVE TypeOK'
  BY <1>4 DEF RecoverDuplicate, AnswerExisting
<1>5. CASE Expire(Held) /\ UNCHANGED checkoutVars
  BY <1>5 DEF Expire
<1>6. CASE UNCHANGED vars
  BY <1>6 DEF vars, keyVars
<1> QED
  BY <1>1, <1>2, <1>3, <1>4, <1>5, <1>6 DEF Next, placeOrderAtomic

\* Each step names committed checkouts only, and commits only the first.
LEMMA NamesPreserved ==
  ASSUME Inductive, TypeOK', [Next]_vars
  PROVE  SinglePlacement' /\ AnswersName' /\ EntriesName'
<1> USE DEF Inductive, TypeOK, SinglePlacement, AnswersName, EntriesName, Nameable,
            GoTo, AnswerWith, checkoutVars
<1>1. ASSUME NEW r \in Requests, KeyStep(r)
      PROVE  SinglePlacement' /\ AnswersName' /\ EntriesName'
  <2>0. UNCHANGED checkoutVars
    BY <1>1 DEF KeyStep
  <2>1. CASE ReadResult(r, "idle") \/ ReadResult(r, "start")
    BY <2>0, <2>1 DEF ReadResult
  <2>2. CASE checkIdempotency(r, "lock")
    <3>1. answer'[r].placed \in Nameable
      BY <2>2 DEF checkIdempotency
    <3>2. /\ UNCHANGED <<checkouts, cachedResult>>
          /\ resultRead'[r].placed \in Nameable
          /\ \A q \in Requests \ {r} : answer'[q] = answer[q] /\ resultRead'[q] = resultRead[q]
      BY <2>0, <2>2 DEF checkIdempotency
    <3> QED
      BY <3>1, <3>2
  <2>3. CASE acquireIdempotencyLock(r, "lock", "find")
    <3>1. /\ answer'[r].placed \in Nameable
          /\ \A q \in Requests \ {r} : answer'[q] = answer[q]
          /\ UNCHANGED <<checkouts, cachedResult, resultRead>>
      BY <2>0, <2>3 DEF acquireIdempotencyLock
    <3> QED
      BY <3>1
  <2>4. CASE BeginAgain(r, "again", "start")
    <3>1. /\ answer'[r].placed \in Nameable
          /\ \A q \in Requests \ {r} : answer'[q] = answer[q]
          /\ UNCHANGED <<checkouts, cachedResult, resultRead>>
      BY <2>0, <2>4 DEF BeginAgain
    <3> QED
      BY <3>1
  <2>5. CASE storeIdempotencyResult(r, "keep", "unlock")
    BY <2>0, <2>5 DEF storeIdempotencyResult, CacheResult
  <2>6. CASE \/ storeIdempotencyError(r, "fail", "failUnlock")
             \/ storeIdempotencyError(r, "duplicate", "duplicateUnlock")
    BY <2>0, <2>6 DEF storeIdempotencyError
  <2>7. CASE \/ releaseIdempotencyLock(r, "duplicateUnlock", "recover")
             \/ \E label \in {"unlock", "release", "failUnlock"} :
                  releaseIdempotencyLock(r, label, "done")
    BY <2>0, <2>7 DEF releaseIdempotencyLock
  <2>8. CASE Crash(r)
    BY <2>0, <2>8 DEF Crash
  <2> QED
    BY <1>1, <2>1, <2>2, <2>3, <2>4, <2>5, <2>6, <2>7, <2>8 DEF KeyStep
<1>2. ASSUME NEW r \in Requests,
             findExistingCheckoutByIdempotency(r) \/ assertPaymentModeEnabled(r)
      PROVE  SinglePlacement' /\ AnswersName' /\ EntriesName'
  <2>1. /\ UNCHANGED <<checkouts, cachedResult, resultRead>>
        /\ answer'[r].placed \in Nameable
        /\ \A q \in Requests \ {r} : answer'[q] = answer[q]
    BY <1>2 DEF findExistingCheckoutByIdempotency, assertPaymentModeEnabled, AnswerExisting
  <2> QED
    BY <2>1
<1>3. ASSUME NEW r \in Requests, Commit(r)
      PROVE  SinglePlacement' /\ AnswersName' /\ EntriesName'
  BY <1>3 DEF Commit
<1>4. ASSUME NEW r \in Requests, Abort(r)
      PROVE  SinglePlacement' /\ AnswersName' /\ EntriesName'
  <2>1. /\ UNCHANGED <<checkouts, cachedResult, resultRead>>
        /\ answer'[r].placed \in Nameable
        /\ \A q \in Requests \ {r} : answer'[q] = answer[q]
    BY <1>4 DEF Abort
  <2> QED
    BY <2>1
<1>5. ASSUME NEW r \in Requests, RecoverDuplicate(r)
      PROVE  SinglePlacement' /\ AnswersName' /\ EntriesName'
  BY <1>5 DEF RecoverDuplicate, AnswerExisting
<1>6. CASE Expire(Held) /\ UNCHANGED checkoutVars
  BY <1>6 DEF Expire
<1>7. CASE UNCHANGED vars
  BY <1>7 DEF vars, keyVars
<1> QED
  BY <1>1, <1>2, <1>3, <1>4, <1>5, <1>6, <1>7 DEF Next, placeOrderAtomic

THEOREM Invariance == Spec => []Inductive
<1>1. Inductive /\ [Next]_vars => Inductive'
  BY TypePreserved, NamesPreserved DEF Inductive
<1> QED
  BY <1>1, InductiveInitially, PTL DEF Spec

\* The shapes of the entries, the requests and the database, for every
\* number of requests, bodies and retries.
THEOREM TypeCorrect == Spec => []TypeOK
  BY Invariance, PTL DEF Inductive

\* One key places at most one checkout, whatever became of the lock.
THEOREM OneCheckout == Spec => []OneCheckoutPerKey
<1>1. Inductive => OneCheckoutPerKey
  <2> SUFFICES ASSUME Inductive PROVE Cardinality(checkouts) <= 1
    BY DEF OneCheckoutPerKey
  <2>1. CASE checkouts = {}
    BY <2>1, FS_EmptySet
  <2>2. CASE checkouts # {}
    <3>1. PICK c : c \in checkouts
      BY <2>2
    <3>2. checkouts = {c}
      BY <3>1 DEF Inductive, SinglePlacement
    <3> QED
      BY <3>2, FS_Singleton
  <2> QED
    BY <2>1, <2>2
<1> QED
  BY <1>1, Invariance, PTL

-----------------------------------------------------------------------------
(* KeyedCheckout implements AtMostOnce *)

Unseen == UNCHANGED <<checkouts, told>>

\* What a step of r leaves alone, besides committing a checkout.
OnlyMoves(r) ==
  /\ pc[r] # "done"
  /\ UNCHANGED checkouts
  /\ \A q \in Requests \ {r} : pc'[q] = pc[q] /\ answer'[q] = answer[q]

\* A request that ends is told of the checkout, or of nothing.
LEMMA ToldStep ==
  ASSUME Inductive, AnswersName', NEW r \in Requests, OnlyMoves(r)
  PROVE  Promise!Next \/ Unseen
<1>1. \A q \in Requests \ {r} : told'[q] = told[q]
  BY DEF OnlyMoves, told
<1>2. told[r] = NoRequest
  BY DEF OnlyMoves, told
<1>3. told'[r] \in Nameable
  BY DEF OnlyMoves, told, AnswersName, Nameable
<1>4. told \in [Requests -> Nameable] /\ told' = [told EXCEPT ![r] = told'[r]]
  <2>1. DOMAIN told = Requests /\ DOMAIN told' = Requests
    BY DEF told
  <2>2. told \in [Requests -> Nameable]
    BY DEF told, Inductive, AnswersName, Nameable
  <2>3. told' = [q \in Requests |-> told'[q]]
    BY DEF told
  <2> QED
    BY <1>1, <2>1, <2>2, <2>3
<1>5. CASE told'[r] = NoRequest
  <2>1. told' = told
    BY <1>2, <1>4, <1>5
  <2> QED
    BY <2>1 DEF Unseen, OnlyMoves
<1>6. CASE told'[r] # NoRequest
  <2>1. told'[r] \in checkouts
    BY <1>3, <1>6 DEF Nameable
  <2> QED
    BY <1>2, <1>4, <2>1 DEF Promise!Next, Promise!Tell, OnlyMoves
<1> QED
  BY <1>5, <1>6

\* Every step places the one checkout, tells a request of it, or is not seen.
LEMMA PromiseStep ==
  ASSUME Inductive, Inductive', [Next]_vars
  PROVE  Promise!Next \/ Unseen
<1> USE DEF GoTo, AnswerWith
<1>0. /\ pc \in [Requests -> Labels \cup {"idle", "check", "done"}]
      /\ answer \in [Requests -> Answer]
  BY DEF Inductive, TypeOK, KeyTypeOK
<1>1. ASSUME NEW r \in Requests, KeyStep(r) PROVE OnlyMoves(r)
  <2>0. UNCHANGED checkouts
    BY <1>1 DEF KeyStep, checkoutVars
  <2>1. CASE \/ ReadResult(r, "idle") \/ ReadResult(r, "start")
             \/ storeIdempotencyResult(r, "keep", "unlock")
             \/ storeIdempotencyError(r, "fail", "failUnlock")
             \/ storeIdempotencyError(r, "duplicate", "duplicateUnlock")
    BY <2>0, <2>1, <1>0 DEF ReadResult, storeIdempotencyResult, storeIdempotencyError, OnlyMoves
  <2>2. CASE checkIdempotency(r, "lock")
    BY <2>0, <2>2, <1>0 DEF checkIdempotency, OnlyMoves
  <2>3. CASE acquireIdempotencyLock(r, "lock", "find") \/ BeginAgain(r, "again", "start")
    BY <2>0, <2>3, <1>0 DEF acquireIdempotencyLock, BeginAgain, OnlyMoves
  <2>4. CASE \/ releaseIdempotencyLock(r, "duplicateUnlock", "recover")
             \/ \E label \in {"unlock", "release", "failUnlock"} :
                  releaseIdempotencyLock(r, label, "done")
    BY <2>0, <2>4, <1>0 DEF releaseIdempotencyLock, OnlyMoves
  <2>5. CASE Crash(r)
    BY <2>0, <2>5, <1>0 DEF Crash, OnlyMoves
  <2> QED
    BY <1>1, <2>1, <2>2, <2>3, <2>4, <2>5 DEF KeyStep
<1>2. ASSUME NEW r \in Requests,
             \/ findExistingCheckoutByIdempotency(r) \/ assertPaymentModeEnabled(r)
             \/ Abort(r)
      PROVE  OnlyMoves(r)
  BY <1>0, <1>2 DEF findExistingCheckoutByIdempotency, assertPaymentModeEnabled, AnswerExisting,
                    Abort, OnlyMoves, checkoutVars
<1>3. ASSUME NEW r \in Requests, RecoverDuplicate(r) PROVE OnlyMoves(r)
  BY <1>0, <1>3 DEF RecoverDuplicate, AnswerExisting, OnlyMoves
<1>4. ASSUME NEW r \in Requests, Commit(r) PROVE Promise!Next
  <2>1. checkouts = {} /\ checkouts' = {r}
    BY <1>4 DEF Commit
  <2>2. \A q \in Requests : (pc'[q] = "done" <=> pc[q] = "done")
    BY <1>0, <1>4 DEF Commit
  <2>3. \A q \in Requests : pc[q] = "done" => answer'[q] = answer[q]
    BY <1>0, <1>4 DEF Commit
  <2>4. told' = told
    BY <2>2, <2>3 DEF told
  <2> QED
    BY <2>1, <2>4 DEF Promise!Next, Promise!Place
<1>5. CASE Expire(Held) /\ UNCHANGED checkoutVars
  BY <1>5 DEF Expire, checkoutVars, told, Unseen
<1>6. CASE UNCHANGED vars
  BY <1>6 DEF vars, keyVars, checkoutVars, told, Unseen
<1> QED
  BY <1>1, <1>2, <1>3, <1>4, <1>5, <1>6, ToldStep DEF Next, placeOrderAtomic, Inductive

\* placeOrderAtomic keeps the promise of its key for any number of requests.
THEOREM PromiseKept == Spec => KeepsPromise
<1>1. Init => Promise!Init
  BY DEF Init, KeyInit, Promise!Init, told
<1>2. Inductive /\ Inductive' /\ [Next]_vars => [Promise!Next]_(Promise!promiseVars)
  BY PromiseStep DEF Unseen, Promise!promiseVars
<1> QED
  BY <1>1, <1>2, Invariance, PTL DEF Spec, KeepsPromise, Promise!Spec
=============================================================================
