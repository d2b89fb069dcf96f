--------------------------- MODULE PosSaleProofs ----------------------------
(***************************************************************************)
(* For any number of requests, bodies and retries: a request that begins   *)
(* after a sale was committed bills nothing, and the lock admits one       *)
(* request at a time while no request outlives it.  The first rests on the *)
(* durable check alone, the second on the lock alone.                      *)
(***************************************************************************)
EXTENDS PosSale, TLAPS

AtLabels == pc \in [Requests -> Labels \cup {"idle", "check", "done"}]

\* A request that committed a sale has only its cached result left to write.
SoldRequestsEnd == \A r \in sales : pc[r] \in {"keep", "unlock", "done"}

\* A retry never gets past the durable check.
RetriesStop ==
  /\ sales \subseteq Requests /\ retries \subseteq Requests
  /\ retries # {} => sales # {}
  /\ \A r \in retries : pc[r] \in {"check", "find", "done"}

\* Who is at a held label holds the lock.
LockHeld == redis = "timely" => \A r \in Requests : pc[r] \in Held => lock

Inductive == AtLabels /\ SoldRequestsEnd /\ RetriesStop /\ RetryBillsNothing /\ LockHeld /\ OneAtATime

LEMMA InductiveInitially == Init => Inductive
  BY DEF Init, KeyInit, Inductive, AtLabels, SoldRequestsEnd, RetriesStop, RetryBillsNothing,
         LockHeld, OneAtATime, Labels, Held

\* A step of one request that leaves the database alone: where it may go.
LEMMA MovesKeep ==
  ASSUME Inductive, NEW r \in Requests, NEW l \in Labels \cup {"check", "done"},
         pc[r] # "done", pc[r] # "idle", pc' = [pc EXCEPT ![r] = l],
         UNCHANGED <<redis, sales, retries>>,
         \* committed sales and retries go where they may
         r \in sales => l \in {"unlock", "done"},
         r \in retries => l \in {"check", "find", "done"},
         \* the lock is taken on the way in and let go on the way out
         \/ pc[r] \in Held /\ l \in Held /\ lock' = lock
         \/ pc[r] \in Held /\ l \notin Held
         \/ pc[r] \notin Held /\ l \notin Held /\ lock' = lock
         \/ pc[r] \notin Held /\ l \in Held /\ ~lock /\ lock' = (redis # "off")
  PROVE  Inductive'
<1> USE DEF Inductive, AtLabels
<1>1. AtLabels' /\ SoldRequestsEnd' /\ RetriesStop' /\ RetryBillsNothing'
  BY DEF SoldRequestsEnd, RetriesStop, RetryBillsNothing
<1>2. ASSUME redis = "timely"
      PROVE  \A q, s \in Requests : pc'[q] \in Held /\ pc'[s] \in Held => q = s
  BY <1>2 DEF LockHeld, OneAtATime
<1>3. ASSUME redis = "timely", NEW q \in Requests, pc'[q] \in Held
      PROVE  lock'
  <2>1. CASE q = r
    <3>1. l \in Held
      BY <1>3, <2>1
    <3>2. CASE pc[r] \in Held
      BY <1>3, <3>1, <3>2 DEF LockHeld
    <3>3. CASE pc[r] \notin Held
      <4>1. lock' = (redis # "off") /\ redis # "off"
        BY <1>3, <3>1, <3>3
      <4> QED
        BY <4>1, Zenon
    <3> QED
      BY <3>2, <3>3
  <2>2. CASE q # r
    <3>1. pc[q] \in Held /\ lock
      BY <1>3, <2>2 DEF LockHeld
    <3>2. pc[r] \notin Held /\ l \notin Held
      BY <1>3, <2>2, <3>1 DEF OneAtATime, LockHeld
    <3> QED
      BY <3>1, <3>2
  <2> QED
    BY <2>1, <2>2
<1> QED
  BY <1>1, <1>2, <1>3 DEF LockHeld, OneAtATime

LEMMA InductiveStep == Inductive /\ [Next]_vars => Inductive'
<1> SUFFICES ASSUME Inductive, [Next]_vars PROVE Inductive'
  OBVIOUS
<1>0. AtLabels /\ SoldRequestsEnd /\ RetriesStop
  BY DEF Inductive
<1> USE DEF GoTo, AnswerWith, AtLabels, Labels, Held
<1>1. ASSUME NEW r \in Requests, KeyStep(r) PROVE Inductive'
  <2>0. UNCHANGED <<sales, retries>>
    BY <1>1 DEF KeyStep
  <2>1. CASE ReadResult(r, "start")
    BY <1>0, <2>0, <2>1, MovesKeep DEF ReadResult, SoldRequestsEnd, RetriesStop
  <2>2. CASE checkIdempotency(r, "find")
    <3>1. PICK l \in {"find", "done"} : pc' = [pc EXCEPT ![r] = l]
      BY <2>2 DEF checkIdempotency
    <3>2. pc[r] = "check" /\ UNCHANGED <<redis, lock>>
      BY <2>2 DEF checkIdempotency
    <3> QED
      BY <1>0, <2>0, <3>1, <3>2, MovesKeep DEF SoldRequestsEnd, RetriesStop
  <2>3. CASE acquireIdempotencyLock(r, "lock", "sell")
    <3>1. CASE lock
      BY <1>0, <2>0, <2>3, <3>1, MovesKeep DEF acquireIdempotencyLock, SoldRequestsEnd, RetriesStop
    <3>2. CASE ~lock
      BY <1>0, <2>0, <2>3, <3>2, MovesKeep DEF acquireIdempotencyLock, SoldRequestsEnd, RetriesStop
    <3> QED
      BY <3>1, <3>2
  <2>4. CASE BeginAgain(r, "again", "start")
    <3>1. PICK l \in {"start", "done"} : pc' = [pc EXCEPT ![r] = l]
      BY <2>4 DEF BeginAgain
    <3>2. pc[r] = "again" /\ UNCHANGED redis
      BY <2>4 DEF BeginAgain
    <3> QED
      BY <1>0, <2>0, <3>1, <3>2, MovesKeep DEF SoldRequestsEnd, RetriesStop
  <2>5. CASE storeIdempotencyResult(r, "keep", "unlock")
    BY <1>0, <2>0, <2>5, MovesKeep DEF storeIdempotencyResult, SoldRequestsEnd, RetriesStop
  <2>6. CASE storeIdempotencyError(r, "fail", "failUnlock")
    BY <1>0, <2>0, <2>6, MovesKeep DEF storeIdempotencyError, SoldRequestsEnd, RetriesStop
  <2>7. ASSUME NEW label \in {"unlock", "release", "failUnlock"},
               releaseIdempotencyLock(r, label, "done")
        PROVE  Inductive'
    BY <1>0, <2>0, <2>7, MovesKeep DEF releaseIdempotencyLock, SoldRequestsEnd, RetriesStop
  <2>8. CASE Crash(r)
    <3>1. /\ pc[r] \notin {"idle", "done"} /\ pc' = [pc EXCEPT ![r] = "done"]
          /\ UNCHANGED <<redis, lock>>
      BY <2>8 DEF Crash
    <3> QED
      BY <1>0, <2>0, <3>1, MovesKeep
  <2> QED
    BY <1>1, <2>1, <2>2, <2>3, <2>4, <2>5, <2>6, <2>7, <2>8 DEF KeyStep
<1>2. ASSUME NEW r \in Requests, Begin(r) PROVE Inductive'
  <2>1. pc[r] = "idle" /\ pc' = [pc EXCEPT ![r] = "check"] /\ UNCHANGED <<redis, lock, sales>>
    BY <1>2 DEF Begin, ReadResult
  <2>2. r \notin sales
    BY <1>0, <2>1 DEF SoldRequestsEnd
  <2>3. retries' \subseteq retries \cup {r} /\ (sales = {} => retries' = retries)
    BY <1>2 DEF Begin
  <2>4. AtLabels' /\ SoldRequestsEnd' /\ RetriesStop' /\ RetryBillsNothing'
    BY <1>0, <2>1, <2>2, <2>3 DEF SoldRequestsEnd, RetriesStop, RetryBillsNothing, Inductive
  <2>5. LockHeld' /\ OneAtATime'
    BY <1>0, <2>1 DEF LockHeld, OneAtATime, Inductive
  <2> QED
    BY <2>4, <2>5 DEF Inductive
<1>3. ASSUME NEW r \in Requests, findExistingSale(r) PROVE Inductive'
  <2>1. PICK l \in {"day", "done"} : /\ pc' = [pc EXCEPT ![r] = l]
                                     /\ l = "day" => sales = {}
    BY <1>3 DEF findExistingSale
  <2>2. pc[r] = "find" /\ UNCHANGED <<redis, lock, sales, retries>>
    BY <1>3 DEF findExistingSale
  <2> QED
    BY <1>0, <2>1, <2>2, MovesKeep DEF SoldRequestsEnd, RetriesStop
<1>4. ASSUME NEW r \in Requests, assertDayOpen(r) PROVE Inductive'
  <2>1. PICK l \in {"lock", "done"} : pc' = [pc EXCEPT ![r] = l]
    BY <1>4 DEF assertDayOpen
  <2>2. pc[r] = "day" /\ UNCHANGED <<redis, lock, sales, retries>>
    BY <1>4 DEF assertDayOpen
  <2> QED
    BY <1>0, <2>1, <2>2, MovesKeep DEF SoldRequestsEnd, RetriesStop
<1>5. ASSUME NEW r \in Requests, Commit(r) PROVE Inductive'
  <2>1. /\ pc[r] = "sell" /\ pc' = [pc EXCEPT ![r] = "keep"]
        /\ sales' = sales \cup {r} /\ UNCHANGED <<redis, lock, retries>>
    BY <1>5 DEF Commit
  <2>2. r \notin retries
    BY <1>0, <2>1 DEF RetriesStop
  <2>3. AtLabels' /\ SoldRequestsEnd' /\ RetriesStop' /\ RetryBillsNothing'
    BY <1>0, <2>1, <2>2 DEF SoldRequestsEnd, RetriesStop, RetryBillsNothing, Inductive
  <2>4. LockHeld' /\ OneAtATime'
    BY <1>0, <2>1 DEF LockHeld, OneAtATime, Inductive
  <2> QED
    BY <2>3, <2>4 DEF Inductive
<1>6. ASSUME NEW r \in Requests, Abort(r) PROVE Inductive'
  <2>1. PICK l \in {"again", "release", "fail"} : pc' = [pc EXCEPT ![r] = l]
    BY <1>6 DEF Abort
  <2>2. pc[r] = "sell" /\ UNCHANGED <<redis, lock, sales, retries>>
    BY <1>6 DEF Abort
  <2> QED
    BY <1>0, <2>1, <2>2, MovesKeep DEF SoldRequestsEnd, RetriesStop
<1>7. CASE Expire(Held) /\ UNCHANGED <<sales, retries>>
  <2>1. /\ UNCHANGED <<redis, pc, sales, retries>>
        /\ lock' = lock \/ redis = "late" \/ \A r \in Requests : pc[r] \notin Held
    BY <1>7 DEF Expire
  <2> QED
    BY <2>1 DEF Inductive, SoldRequestsEnd, RetriesStop, RetryBillsNothing, LockHeld, OneAtATime
<1>8. CASE UNCHANGED vars
  BY <1>8 DEF vars, keyVars, Inductive, SoldRequestsEnd, RetriesStop, RetryBillsNothing, LockHeld,
              OneAtATime
<1> QED
  BY <1>1, <1>2, <1>3, <1>4, <1>5, <1>6, <1>7, <1>8 DEF Next, createPosSale

\* The durable check: no retry of a committed sale bills again.
THEOREM RetryCorrect == Spec => []RetryBillsNothing
<1>1. Spec => []Inductive
  BY InductiveInitially, InductiveStep, PTL DEF Spec
<1>2. Inductive => RetryBillsNothing
  BY DEF Inductive
<1> QED
  BY <1>1, <1>2, PTL

\* The lock excludes a second biller as long as nobody outlives it.
THEOREM LockCorrect == Spec => []OneAtATime
<1>1. Spec => []Inductive
  BY InductiveInitially, InductiveStep, PTL DEF Spec
<1>2. Inductive => OneAtATime
  BY DEF Inductive
<1> QED
  BY <1>1, <1>2, PTL

-----------------------------------------------------------------------------
(* Types                                                                   *)

LEMMA TypeInitially == Init => TypeOK
<1> SUFFICES ASSUME Init PROVE TypeOK
  OBVIOUS
<1> USE RequestsAssumption, TransactionsAssumption
        DEF Init, KeyInit, Answer, Refusal, Entry, NoEntry, NoAnswer
<1>1. /\ redis \in RedisModes /\ lock \in BOOLEAN
      /\ payload \in [Requests -> Payloads]
      /\ cachedResult \in Entry \cup {NoEntry} /\ cachedError \in Entry \cup {NoEntry}
  OBVIOUS
<1>2. /\ pc \in [Requests -> Labels \cup {"idle", "check", "done"}]
      /\ resultRead \in [Requests -> Entry \cup {NoEntry}]
      /\ attempt \in [Requests -> 1 .. MaxTransactions]
      /\ answer \in [Requests -> Answer]
  OBVIOUS
<1>3. sales \subseteq Requests /\ retries \subseteq Requests
  OBVIOUS
<1> QED
  BY <1>1, <1>2, <1>3 DEF TypeOK, KeyTypeOK

\* What goes on in Redis and where the request goes keep their shapes.
LEMMA KeyTypeStep ==
  ASSUME TypeOK, NEW r \in Requests, KeyStep(r)
  PROVE  TypeOK'
<1> USE TransactionsAssumption
        DEF TypeOK, KeyTypeOK, Labels, Held, GoTo, AnswerWith, Answer, Refusal, Entry, NoEntry,
            NoAnswer, Refused, Placed
<1>0. UNCHANGED <<sales, retries>>
  BY DEF KeyStep
<1>1. CASE ReadResult(r, "start")
  BY <1>0, <1>1 DEF ReadResult
<1>2. CASE checkIdempotency(r, "find")
  <2>1. pc' \in [Requests -> Labels \cup {"idle", "check", "done"}]
    BY <1>2 DEF checkIdempotency
  <2>2. answer' \in [Requests -> Answer]
    <3>1. resultRead[r].placed \in Requests \cup {NoRequest}
      OBVIOUS
    <3> QED
      BY <1>2, <3>1 DEF checkIdempotency
  <2>3. resultRead' \in [Requests -> Entry \cup {NoEntry}]
    BY <1>2 DEF checkIdempotency
  <2> QED
    BY <1>0, <1>2, <2>1, <2>2, <2>3 DEF checkIdempotency
<1>3. CASE acquireIdempotencyLock(r, "lock", "sell")
  <2>1. lock' \in BOOLEAN
    BY <1>3 DEF acquireIdempotencyLock
  <2>2. pc' \in [Requests -> Labels \cup {"idle", "check", "done"}]
    BY <1>3 DEF acquireIdempotencyLock
  <2>3. answer' \in [Requests -> Answer]
    BY <1>3 DEF acquireIdempotencyLock
  <2>4. UNCHANGED <<redis, payload, cachedResult, cachedError, resultRead, attempt>>
    BY <1>3 DEF acquireIdempotencyLock
  <2> QED
    BY <1>0, <2>1, <2>2, <2>3, <2>4
<1>4. CASE BeginAgain(r, "again", "start")
  <2>1. lock' = FALSE /\ UNCHANGED <<redis, payload, cachedResult, cachedError, resultRead>>
    BY <1>4 DEF BeginAgain, DeleteLock
  <2>2. attempt' \in [Requests -> 1 .. MaxTransactions]
    <3>1. CASE attempt[r] < MaxTransactions
      <4>1. attempt[r] + 1 \in 1 .. MaxTransactions
        BY <3>1
      <4> QED
        BY <1>4, <3>1, <4>1 DEF BeginAgain
    <3>2. CASE ~(attempt[r] < MaxTransactions)
      BY <1>4, <3>2 DEF BeginAgain
    <3> QED
      BY <3>1, <3>2
  <2>3. pc' \in [Requests -> Labels \cup {"idle", "check", "done"}]
    <3>1. pc' = [pc EXCEPT ![r] = "start"] \/ pc' = [pc EXCEPT ![r] = "done"]
      BY <1>4 DEF BeginAgain
    <3> QED
      BY <3>1
  <2>4. answer' \in [Requests -> Answer]
    <3>1. answer' = answer \/ answer' = [answer EXCEPT ![r] = Refused("retryLater")]
      BY <1>4 DEF BeginAgain
    <3> QED
      BY <3>1
  <2> QED
    BY <1>0, <2>1, <2>2, <2>3, <2>4
<1>5. CASE storeIdempotencyResult(r, "keep", "unlock")
  BY <1>0, <1>5 DEF storeIdempotencyResult, CacheResult
<1>6. CASE storeIdempotencyError(r, "fail", "failUnlock")
  BY <1>0, <1>6 DEF storeIdempotencyError, CacheError
<1>7. CASE \E label \in {"unlock", "release", "failUnlock"} : releaseIdempotencyLock(r, label, "done")
  BY <1>0, <1>7 DEF releaseIdempotencyLock, DeleteLock
<1>8. CASE Crash(r)
  BY <1>0, <1>8 DEF Crash
<1> QED
  BY <1>1, <1>2, <1>3, <1>4, <1>5, <1>6, <1>7, <1>8 DEF KeyStep

\* A request that goes on, or is answered, and leaves the entries alone.
LEMMA Advances ==
  ASSUME TypeOK, NEW r \in Requests,
         NEW label \in Labels \cup {"idle", "check", "done"}, GoTo(r, label),
         NEW a \in Answer, answer' = answer \/ answer' = [answer EXCEPT ![r] = a],
         UNCHANGED <<redis, payload, lock, cachedResult, cachedError, resultRead, attempt>>,
         sales' \subseteq Requests, retries' \subseteq Requests
  PROVE  TypeOK'
<1>1. pc' \in [Requests -> Labels \cup {"idle", "check", "done"}]
  BY DEF TypeOK, KeyTypeOK, GoTo
<1>2. answer' \in [Requests -> Answer]
  BY DEF TypeOK, KeyTypeOK
<1> QED
  BY <1>1, <1>2 DEF TypeOK, KeyTypeOK

LEMMA Answers ==
  /\ \A kind \in Refusal : Refused(kind) \in Answer
  /\ \A r \in Requests : Placed(r) \in Answer
  BY DEF Refused, Placed, Answer, Refusal

LEMMA TypePreserved == TypeOK /\ [Next]_vars => TypeOK'
<1> SUFFICES ASSUME TypeOK, [Next]_vars PROVE TypeOK'
  OBVIOUS
<1>1. ASSUME NEW r \in Requests, Begin(r) PROVE TypeOK'
  BY <1>1 DEF Begin, ReadResult, TypeOK, KeyTypeOK, GoTo, Labels
<1>2. ASSUME NEW r \in Requests, findExistingSale(r) PROVE TypeOK'
  <2>1. sales \subseteq Requests /\ retries \subseteq Requests
    BY DEF TypeOK
  <2>2. CASE sales # {}
    <3>1. PICK s \in sales : AnswerWith(r, Placed(s))
      BY <1>2, <2>2 DEF findExistingSale
    <3> QED
      BY <1>2, <2>1, <3>1, Answers, Advances DEF findExistingSale, AnswerWith
  <2>3. CASE sales = {}
    BY <1>2, <2>1, <2>3, Answers, Advances DEF findExistingSale, Labels
  <2> QED
    BY <2>2, <2>3
<1>3. ASSUME NEW r \in Requests, assertDayOpen(r) \/ Commit(r) \/ Abort(r) PROVE TypeOK'
  <2> DEFINE Kept == UNCHANGED <<redis, payload, lock, cachedResult, cachedError, resultRead, attempt>>
  <2>1. sales' \subseteq Requests /\ retries' \subseteq Requests /\ Kept
    BY <1>3 DEF TypeOK, assertDayOpen, Commit, Abort
  <2>2. PICK label \in Labels \cup {"idle", "check", "done"}, a \in Answer :
          GoTo(r, label) /\ (answer' = answer \/ answer' = [answer EXCEPT ![r] = a])
    <3>1. CASE assertDayOpen(r)
      BY <3>1, Answers DEF assertDayOpen, AnswerWith, Labels, Refusal
    <3>2. CASE Commit(r)
      <4>1. "keep" \in Labels /\ Placed(r) \in Answer
        BY Answers DEF Labels, Held
      <4> QED
        BY <3>2, <4>1 DEF Commit
    <3>3. CASE Abort(r)
      <4>1. "again" \in Labels /\ "release" \in Labels /\ "fail" \in Labels
        BY DEF Labels, Held
      <4>2. Refused("retryLater") \in Answer /\ Refused("refused") \in Answer
        BY Answers DEF Refusal
      <4> QED
        BY <3>3, <4>1, <4>2 DEF Abort
    <3> QED
      BY <1>3, <3>1, <3>2, <3>3
  <2> QED
    BY <2>1, <2>2, Advances
<1>4. CASE Expire(Held) /\ UNCHANGED <<sales, retries>>
  BY <1>4 DEF Expire, TypeOK, KeyTypeOK, Held, Labels
<1>5. CASE UNCHANGED vars
  BY <1>5 DEF vars, keyVars, TypeOK, KeyTypeOK
<1> QED
  BY <1>1, <1>2, <1>3, <1>4, <1>5, KeyTypeStep DEF Next, createPosSale

\* The entries in Redis, the requests of createPosSale and the sales keep their
\* shapes; no request begins more than MAX_TRANSACTION_ATTEMPTS transactions.
THEOREM TypeCorrect == Spec => []TypeOK
  BY TypeInitially, TypePreserved, PTL DEF Spec
=============================================================================
