--------------------------- MODULE IdempotencyKey ---------------------------
(***************************************************************************)
(* The Redis entries of one idempotency key and the requests that carry    *)
(* it.  KeyedCheckout and PosSale build the protocols of a checkout and of *)
(* a counter sale from the operations below.                               *)
(*                                                                         *)
(* A request is one HTTP request with the key; its payload stands for the  *)
(* checksum of its body.  What a protocol places is named by the request   *)
(* that committed it.  Time is abstract: an entry may expire whenever it   *)
(* exists.  Whether that goes for the lock of a request that still runs is *)
(* the choice between timely and late requests.                            *)
(***************************************************************************)
EXTENDS Naturals, FiniteSets

CONSTANTS Requests,          \* requests that carry the key
          Payloads,          \* distinct bodies
          NoRequest,         \* absence of an entry
          RedisModes,        \* the modes of Redis considered
          MaxTransactions    \* MAX_TRANSACTION_ATTEMPTS

ASSUME RequestsAssumption == NoRequest \notin Requests
ASSUME ModesAssumption == RedisModes \subseteq {"off", "timely", "late"}
ASSUME TransactionsAssumption == MaxTransactions \in Nat \ {0}

VARIABLES redis,          \* off, or on with requests that end within the lock's TTL or late
          payload,        \* the body of each request
          lock,           \* idempotency:lock:<key> exists
          cachedResult,   \* idempotency:result:<key>
          cachedError,    \* idempotency:error:<key>
          pc,             \* where each request is
          resultRead,     \* the result entry a request read first
          attempt,        \* transactions a request has begun
          answer          \* what each request was, or is about to be, answered

keyVars == <<redis, payload, lock, cachedResult, cachedError, pc, resultRead, attempt, answer>>

\* A cached outcome: what was placed (NoRequest for an error) and for which body.
Entry == [placed : Requests \cup {NoRequest}, payload : Payloads]
NoEntry == [placed |-> NoRequest, payload |-> NoRequest]

Refusal == {"refused", "replayedError", "mismatch", "inProgress", "retryLater"}
Answer == [kind : {"none", "placed"} \cup Refusal, placed : Requests \cup {NoRequest}]
NoAnswer == [kind |-> "none", placed |-> NoRequest]
Refused(kind) == [kind |-> kind, placed |-> NoRequest]
Placed(r) == [kind |-> "placed", placed |-> r]

KeyTypeOK(labels) ==
  /\ redis \in RedisModes /\ lock \in BOOLEAN
  /\ payload \in [Requests -> Payloads]
  /\ cachedResult \in Entry \cup {NoEntry}
  /\ cachedError \in Entry \cup {NoEntry}
  /\ pc \in [Requests -> labels \cup {"idle", "check", "done"}]
  /\ resultRead \in [Requests -> Entry \cup {NoEntry}]
  /\ attempt \in [Requests -> 1 .. MaxTransactions]
  /\ answer \in [Requests -> Answer]

KeyInit ==
  /\ redis \in RedisModes
  /\ payload \in [Requests -> Payloads]
  /\ lock = FALSE
  /\ cachedResult = NoEntry /\ cachedError = NoEntry
  /\ pc = [r \in Requests |-> "idle"]
  /\ resultRead = [r \in Requests |-> NoEntry]
  /\ attempt = [r \in Requests |-> 1]
  /\ answer = [r \in Requests |-> NoAnswer]

GoTo(r, label) == pc' = [pc EXCEPT ![r] = label]

\* The request ends, answered.
AnswerWith(r, a) == GoTo(r, "done") /\ answer' = [answer EXCEPT ![r] = a]

-----------------------------------------------------------------------------
(* checkIdempotency reads three entries; the result may be older than the   *)
(* other two.  It is forgotten with the verdict.                            *)

ReadResult(r, label) ==
  /\ pc[r] = label
  /\ resultRead' = [resultRead EXCEPT ![r] = cachedResult]
  /\ GoTo(r, "check")
  /\ UNCHANGED <<redis, payload, lock, cachedResult, cachedError, attempt, answer>>

\* The verdict: an entry answers the request, errors first; without one, a held
\* lock means the key is in progress and a free one sends the request to next.
checkIdempotency(r, next) ==
  LET entry == IF cachedError # NoEntry THEN cachedError ELSE resultRead[r]
  IN /\ pc[r] = "check"
     /\ \/ /\ entry # NoEntry /\ entry.payload # payload[r]
           /\ AnswerWith(r, Refused("mismatch"))
        \/ /\ cachedError # NoEntry /\ cachedError.payload = payload[r]
           /\ AnswerWith(r, Refused("replayedError"))
        \/ /\ cachedError = NoEntry /\ entry # NoEntry /\ entry.payload = payload[r]
           /\ AnswerWith(r, Placed(entry.placed))
        \/ /\ entry = NoEntry /\ lock
           /\ AnswerWith(r, Refused("inProgress"))
        \/ /\ entry = NoEntry /\ ~lock
           /\ GoTo(r, next) /\ UNCHANGED answer
     /\ resultRead' = [resultRead EXCEPT ![r] = NoEntry]
     /\ UNCHANGED <<redis, payload, lock, cachedResult, cachedError, attempt>>

acquireIdempotencyLockBlind(r, label, next) ==
  /\ pc[r] = label
  /\ GoTo(r, next) /\ lock' = (redis # "off") /\ UNCHANGED answer
  /\ UNCHANGED <<redis, payload, cachedResult, cachedError, resultRead, attempt>>

\* SET NX: one of the requests that found the key free gets the lock.  Without
\* Redis every request gets it.
acquireIdempotencyLock(r, label, next) ==
  /\ pc[r] = label
  /\ IF lock THEN AnswerWith(r, Refused("inProgress")) /\ UNCHANGED lock
             ELSE GoTo(r, next) /\ lock' = (redis # "off") /\ UNCHANGED answer
  /\ UNCHANGED <<redis, payload, cachedResult, cachedError, resultRead, attempt>>

\* The first half of storeIdempotencyResult and of storeIdempotencyError.
CacheResult(r) == cachedResult' = IF redis # "off" THEN [placed |-> answer[r].placed, payload |-> payload[r]]
                                                  ELSE cachedResult
CacheError(r) == cachedError' = IF redis # "off" THEN [placed |-> NoRequest, payload |-> payload[r]]
                                                ELSE cachedError

\* DEL of the lock, whoever holds it by now.
DeleteLock == lock' = FALSE

-----------------------------------------------------------------------------
(* Steps both protocols share *)

storeIdempotencyResult(r, label, next) ==
  /\ pc[r] = label
  /\ CacheResult(r)
  /\ GoTo(r, next)
  /\ UNCHANGED <<redis, payload, lock, cachedError, resultRead, attempt, answer>>

storeIdempotencyError(r, label, next) ==
  /\ pc[r] = label
  /\ CacheError(r)
  /\ GoTo(r, next)
  /\ UNCHANGED <<redis, payload, lock, cachedResult, resultRead, attempt, answer>>

\* The lock goes; the request has its answer or goes on.
releaseIdempotencyLock(r, label, next) ==
  /\ pc[r] = label
  /\ DeleteLock
  /\ GoTo(r, next)
  /\ UNCHANGED <<redis, payload, cachedResult, cachedError, resultRead, attempt, answer>>

BeginAgainForever(r, label, first) ==
  /\ pc[r] = label
  /\ DeleteLock
  /\ GoTo(r, first) /\ UNCHANGED answer
  /\ attempt' = [attempt EXCEPT ![r] = @ + 1]
  /\ UNCHANGED <<redis, payload, cachedResult, cachedError, resultRead>>

\* A transient conflict releases the lock and begins again, up to MaxTransactions.
BeginAgain(r, label, first) ==
  /\ pc[r] = label
  /\ DeleteLock
  /\ IF attempt[r] < MaxTransactions
       THEN /\ GoTo(r, first) /\ UNCHANGED answer
            /\ attempt' = [attempt EXCEPT ![r] = @ + 1]
       ELSE AnswerWith(r, Refused("retryLater")) /\ UNCHANGED attempt
  /\ UNCHANGED <<redis, payload, cachedResult, cachedError, resultRead>>

\* The process of a request dies: no step of the request follows.
Crash(r) ==
  /\ pc[r] \notin {"idle", "done"}
  /\ AnswerWith(r, NoAnswer)
  /\ UNCHANGED <<redis, payload, lock, cachedResult, cachedError, resultRead, attempt>>

\* A TTL passes: LOCK_TTL_SECONDS, RESULT_TTL_SECONDS or ERROR_TTL_SECONDS.  Only
\* a late request is still at one of the held labels when the lock expires.
Expire(held) ==
  /\ \/ /\ lock /\ (redis = "late" \/ \A r \in Requests : pc[r] \notin held)
        /\ lock' = FALSE /\ UNCHANGED <<cachedResult, cachedError>>
     \/ /\ cachedResult # NoEntry /\ cachedResult' = NoEntry
        /\ UNCHANGED <<lock, cachedError>>
     \/ /\ cachedError # NoEntry /\ cachedError' = NoEntry
        /\ UNCHANGED <<lock, cachedResult>>
  /\ UNCHANGED <<redis, payload, pc, resultRead, attempt, answer>>
=============================================================================
