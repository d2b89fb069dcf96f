--------------------------- MODULE PaymentCapture ---------------------------
(***************************************************************************)
(* The online payment of one order, from the attempt at the gateway to the *)
(* money's entry in the books, and back when the order is cancelled.       *)
(* Webhooks, the customer's verification, the payment sweep and the rounds *)
(* of a refund bring in the gateway's answer at once, each from its own    *)
(* copy of the attempt and of the order.  Amounts and the other orders of  *)
(* a checkout are left out; what a refund does after its plan is frozen is *)
(* CancellationRefund's.                                                   *)
(***************************************************************************)
EXTENDS Naturals, FiniteSets

CONSTANTS Handlers,     \* processes at work on the order
          MaxAttempts,  \* bound: payment attempts ever made
          Cases         \* the shop's gateway, a bound on the attempts made there,
                        \* and whether processes crash and calls fail

ASSUME PaymentAssumption ==
  /\ MaxAttempts \in Nat \ {0}
  /\ Cases \subseteq [provider : {"RAZORPAY", "PHONEPE"}, attempts : 1..MaxAttempts,
                      faults : BOOLEAN]

VARIABLES
  case,      \* the case, with the active payment provider
  gate,      \* what became of each attempt at the gateway
  pay,       \* status of each attempt in the database, "none" without one
  seen,      \* webhook events stored
  order,     \* the order: workflow, paymentStatus and financeFlags
  record,    \* the cancellation record: which of the money its plan has
  credited,  \* times the platform's wallet was credited
  h,         \* what each process has read and is about to do
  missed     \* history: a process died on, or did not see, another's write

vars == <<case, gate, pay, seen, order, record, credited, h, missed>>

Attempts == 1..MaxAttempts
Outcomes == {"PENDING", "CAPTURED", "FAILED"}
Orders == [flow : {"CREATED", "SELLER_PENDING", "CANCELLED"},
           paid : {"CREATED", "PAID", "FAILED", "REFUNDED"},
           booked : BOOLEAN,      \* financeFlags.onlinePaymentCaptured
           reversed : BOOLEAN,    \* financeFlags.cancellationReversalApplied
           returned : BOOLEAN]    \* financeFlags.onlineRefundApplied

\* "open" has no plan yet; a plan is without the gateway's money, with it, or
\* says that the wallet got it back already.
Records == {"none", "open", "without", "with", "returned"}

Steps == {"idle", "look", "count", "initiate", "ask", "transition", "effects", "finance", "move",
          "late", "record", "insert", "add", "push", "attempts", "expire", "reverse",
          "reread", "freeze", "mark"}
\* Steps of a process that owes a cancelled order its record or its refund.
Owing == {"late", "record", "insert", "add", "push", "reverse"}

\* A reconciliation works for a sweep or a round and collects an outcome.
Copies == [pc : Steps, loop : {"none", "sweep", "round"}, a : 0..MaxAttempts,
           saw : Outcomes, next : Outcomes, todo : SUBSET Attempts,
           outcome : {"UNPAID", "PENDING", "UNKNOWN", "CAPTURED"},
           cancelled : BOOLEAN, plan : Records]

Idle == [pc |-> "idle", loop |-> "none", a |-> 0, saw |-> "PENDING", next |-> "PENDING", todo |-> {},
         outcome |-> "UNPAID", cancelled |-> FALSE, plan |-> "none"]

Init ==
  /\ case \in Cases
  /\ gate = [a \in Attempts |-> {}] /\ pay = [a \in Attempts |-> "none"] /\ seen = {}
  /\ order = [flow |-> "CREATED", paid |-> "CREATED", booked |-> FALSE,
              reversed |-> FALSE, returned |-> FALSE]
  /\ record = "none" /\ credited = 0
  /\ h = [p \in Handlers |-> Idle]
  /\ missed = FALSE

-----------------------------------------------------------------------------
(* How a process works                                                     *)

At(p, pc) == h[p].pc = pc
Become(p, copy) == h' = [h EXCEPT ![p] = copy]
GoTo(p, pc) == h' = [h EXCEPT ![p].pc = pc]
Done(p) == Become(p, Idle)
Miss(here) == missed' = (missed \/ here)

Cancelled == order.flow = "CANCELLED"
Captured == order.booked \/ order.paid = "PAID"
Unconfirmed == ~Captured /\ order.paid \notin {"FAILED", "REFUNDED"}

\* With a fault: what has not failed counts as paid.
AnswersHastily(a) ==
  IF case.provider = "PHONEPE" /\ "FAILED" \in gate[a] THEN {"FAILED"} ELSE {"CAPTURED"}

\* What the gateway answers when it is asked for an attempt.  A payment Razorpay
\* declined may be tried again on the same order, so the order is not failed; but
\* the payment is asked for once an event brought its id.
Answers(a) ==
  (IF "CAPTURED" \in gate[a] THEN {"CAPTURED"}
   ELSE IF case.provider = "PHONEPE" /\ "FAILED" \in gate[a] THEN {"FAILED"}
   ELSE {"PENDING"})
  \cup {declined \in {"FAILED"} : declined \in gate[a] /\ <<a, "PENDING">> \in seen}

\* A reconciliation asks for the latest attempt first.
Latest(p) == {a \in h[p].todo : \A b \in h[p].todo : b <= a}

\* The next attempt of a reconciliation, or what its caller makes of the outcome.
Proceed(p, todo, outcome) ==
  IF todo # {} /\ outcome # "CAPTURED"
    THEN Become(p, [Idle EXCEPT !.pc = "ask", !.loop = h[p].loop,
                                !.todo = todo, !.outcome = outcome])
  ELSE IF h[p].loop = "round" THEN Become(p, [Idle EXCEPT !.pc = "reread", !.outcome = outcome])
  ELSE IF h[p].loop = "none" \/ outcome \in {"CAPTURED", "UNKNOWN"} THEN Done(p)
  ELSE Become(p, [Idle EXCEPT !.pc = "expire"])

\* The side effects of a status are over.
Return(p) ==
  Proceed(p, h[p].todo, IF h[p].next = "CAPTURED" THEN "CAPTURED" ELSE h[p].outcome)

-----------------------------------------------------------------------------
(* An attempt                                                              *)

\* The order is read, then the attempts, and neither is read again.
BeginPayment(p) ==
  /\ h[p] = Idle
  /\ ~Cancelled /\ order.paid \notin {"PAID", "REFUNDED"}
  /\ GoTo(p, "look")
  /\ UNCHANGED <<case, gate, pay, seen, order, record, credited, missed>>

\* An open attempt is used again.
LookForOpen(p) ==
  /\ At(p, "look")
  /\ IF \E a \in Attempts : pay[a] = "PENDING" THEN Done(p) ELSE GoTo(p, "count")
  /\ UNCHANGED <<case, gate, pay, seen, order, record, credited, missed>>

CountAttempts(p) ==
  /\ At(p, "count")
  /\ LET made == {a \in Attempts : pay[a] # "none"}
     IN  IF Cardinality(made) >= case.attempts THEN Done(p)
         ELSE Become(p, [Idle EXCEPT !.pc = "initiate", !.a = Cardinality(made) + 1])
  /\ UNCHANGED <<case, gate, pay, seen, order, record, credited, missed>>

\* The attempt's number is part of its unique id.
createPaymentOrder(p) ==
  /\ At(p, "initiate")
  /\ pay' = IF pay[h[p].a] = "none" THEN [pay EXCEPT ![h[p].a] = "PENDING"] ELSE pay
  /\ Done(p)
  /\ UNCHANGED <<case, gate, seen, order, record, credited, missed>>

\* At Razorpay a declined payment may be tried again until one is captured.
GatewaySettles(a) ==
  /\ pay[a] # "none" /\ "CAPTURED" \notin gate[a]
  /\ \/ gate' = [gate EXCEPT ![a] = @ \cup {"FAILED"}]
     \/ /\ case.provider = "RAZORPAY" \/ "FAILED" \notin gate[a]
        /\ gate' = [gate EXCEPT ![a] = @ \cup {"CAPTURED"}]
  /\ UNCHANGED <<case, pay, seen, order, record, credited, h, missed>>

-----------------------------------------------------------------------------
(* How an answer comes in                                                  *)

\* PhonePe's event is known by its transaction alone, so all events of an attempt
\* are one: who stored that it is pending takes its capture for a duplicate.
\* Razorpay's is known by its type and its payment.
IsDuplicate(a, event) ==
  IF case.provider = "PHONEPE" THEN \E first \in Outcomes : <<a, first>> \in seen
  ELSE <<a, event>> \in seen

\* An early callback of PhonePe has no transaction yet.  It is known by its content,
\* which is left out: it may be new however many came before.
HasNoTransaction(event) == case.provider = "PHONEPE" /\ event = "PENDING"

\* With a fault: an event of an attempt that does not exist is not ignored.
WebhookUnknown(p) ==
  /\ h[p] = Idle
  /\ \E a \in Attempts : \E event \in gate[a] \cup {"PENDING"} :
       /\ ~IsDuplicate(a, event) /\ seen' = seen \cup {<<a, event>>}
       /\ Become(p, [Idle EXCEPT !.pc = "transition", !.a = a, !.saw = pay[a], !.next = event])
  /\ UNCHANGED <<case, gate, pay, order, record, credited, missed>>

\* An event that was stored is a duplicate, whatever became of the first.
Webhook(p) ==
  /\ h[p] = Idle
  /\ \E a \in Attempts : \E event \in gate[a] \cup {"PENDING"} :
       /\ pay[a] # "none"
       /\ \/ ~IsDuplicate(a, event) /\ seen' = seen \cup {<<a, event>>}
          \/ HasNoTransaction(event) /\ UNCHANGED seen
       /\ Become(p, [Idle EXCEPT !.pc = "transition", !.a = a, !.saw = pay[a], !.next = event])
  /\ UNCHANGED <<case, gate, pay, order, record, credited, missed>>

\* The customer's page asks PhonePe; Razorpay's page brings a signature, which is
\* all the code checks.  That Razorpay signs what it captured is assumed of it.
VerifyPayment(p) ==
  /\ h[p] = Idle
  /\ \E a \in Attempts :
       /\ pay[a] # "none"
       /\ LET copy == [Idle EXCEPT !.a = a, !.saw = pay[a]]
          IN  \/ case.provider = "PHONEPE" /\ Become(p, [copy EXCEPT !.pc = "ask"])
              \/ /\ case.provider = "RAZORPAY" /\ "CAPTURED" \in gate[a]
                 /\ Become(p, [copy EXCEPT !.pc = "transition", !.next = "CAPTURED"])
  /\ UNCHANGED <<case, gate, pay, seen, order, record, credited, missed>>

AskForCustomer(p) ==
  /\ At(p, "ask") /\ h[p].loop = "none"
  /\ \E answer \in Answers(h[p].a) :
       Become(p, [h[p] EXCEPT !.pc = "transition", !.next = answer])
  /\ UNCHANGED <<case, gate, pay, seen, order, record, credited, missed>>

\* A capture that is in the database is not applied again.
LoadAttempts(p) ==
  /\ At(p, "attempts")
  /\ Proceed(p, {a \in Attempts : pay[a] = "PENDING"},
             IF \E a \in Attempts : pay[a] = "CAPTURED" THEN "CAPTURED" ELSE "UNPAID")
  /\ UNCHANGED <<case, gate, pay, seen, order, record, credited, missed>>

AskToReconcile(p) ==
  /\ At(p, "ask") /\ h[p].loop # "none"
  /\ \E a \in Latest(p) : \E answer \in Answers(a) :
       IF answer = "PENDING"
         THEN Proceed(p, h[p].todo \ {a}, IF h[p].outcome = "UNKNOWN" THEN "UNKNOWN" ELSE "PENDING")
         ELSE Become(p, [h[p] EXCEPT !.pc = "transition", !.a = a, !.next = answer, !.todo = @ \ {a}])
  /\ UNCHANGED <<case, gate, pay, seen, order, record, credited, missed>>

\* A status is checked against the copy and saved over whatever it has become.
transitionPaymentState(p) ==
  /\ At(p, "transition")
  /\ IF h[p].saw \in {"PENDING", h[p].next}
       THEN /\ Become(p, [h[p] EXCEPT !.pc = "effects", !.a = 0, !.saw = "PENDING"])
            /\ pay' = IF h[p].saw = h[p].next THEN pay ELSE [pay EXCEPT ![h[p].a] = h[p].next]
       ELSE Done(p) /\ UNCHANGED pay
  /\ UNCHANGED <<case, gate, seen, order, record, credited, missed>>

-----------------------------------------------------------------------------
(* What a status does to the order                                         *)

\* With a fault: money for a cancelled order is only refunded.
ReadOrdersCancelled(p) ==
  /\ At(p, "effects") /\ h[p].next = "CAPTURED"
  /\ Become(p, [h[p] EXCEPT !.pc = IF Cancelled THEN "late" ELSE "finance"])
  /\ UNCHANGED <<case, gate, pay, seen, order, record, credited, missed>>

ReadOrders(p) ==
  /\ At(p, "effects") /\ h[p].next = "CAPTURED"
  /\ Become(p, [h[p] EXCEPT !.pc = "finance", !.cancelled = Cancelled])
  /\ UNCHANGED <<case, gate, pay, seen, order, record, credited, missed>>

\* With a fault: a second notice of the capture is booked again.
handleOnlineOrderFinanceAgain(p) ==
  /\ At(p, "finance")
  /\ order' = [order EXCEPT !.booked = TRUE, !.paid = "PAID"]
  /\ credited' = IF credited < 2 THEN credited + 1 ELSE credited
  /\ Miss(~order.booked /\ Cancelled /\ ~h[p].cancelled)
  /\ Become(p, [h[p] EXCEPT !.pc = IF h[p].cancelled THEN "late" ELSE "move", !.cancelled = FALSE])
  /\ UNCHANGED <<case, gate, pay, seen, record>>

\* One transaction.  Its caller goes by the order as it was read before.
handleOnlineOrderFinance(p) ==
  /\ At(p, "finance")
  /\ IF order.booked
       THEN UNCHANGED <<order, credited>>
       ELSE /\ order' = [order EXCEPT !.booked = TRUE, !.paid = "PAID"]
            /\ credited' = credited + 1
  /\ Miss(~order.booked /\ Cancelled /\ ~h[p].cancelled)
  /\ Become(p, [h[p] EXCEPT !.pc = IF h[p].cancelled THEN "late" ELSE "move", !.cancelled = FALSE])
  /\ UNCHANGED <<case, gate, pay, seen, record>>

\* With a fault: whatever became of the order, it goes to the seller.
moveOrderToSellerAnyway(p) ==
  /\ At(p, "move")
  /\ order' = [order EXCEPT !.flow = "SELLER_PENDING"]
  /\ Return(p)
  /\ UNCHANGED <<case, gate, pay, seen, record, credited, missed>>

moveOrderToSellerPendingAfterPayment(p) ==
  /\ At(p, "move")
  /\ order' = IF order.flow = "CREATED" THEN [order EXCEPT !.flow = "SELLER_PENDING"] ELSE order
  /\ Return(p)
  /\ UNCHANGED <<case, gate, pay, seen, record, credited, missed>>

PaymentFails(p) ==
  /\ At(p, "effects") /\ h[p].next = "FAILED"
  /\ order' = IF order.flow = "CREATED"
                THEN [order EXCEPT !.flow = "CANCELLED", !.paid = "FAILED"] ELSE order
  /\ GoTo(p, "record")
  /\ UNCHANGED <<case, gate, pay, seen, record, credited, missed>>

PaymentStillOpen(p) ==
  /\ At(p, "effects") /\ h[p].next = "PENDING"
  /\ order' = [order EXCEPT !.paid = "CREATED"]
  /\ Return(p)
  /\ UNCHANGED <<case, gate, pay, seen, record, credited, missed>>

-----------------------------------------------------------------------------
(* Cancellations, their record and the refund's plan                       *)

\* The customer, the seller or an administrator cancels: one transaction.
executeDirectCancellation(p) ==
  /\ h[p] = Idle /\ ~Cancelled
  /\ order' = [order EXCEPT !.flow = "CANCELLED"] /\ record' = "open"
  /\ UNCHANGED <<case, gate, pay, seen, credited, h, missed>>

\* The seller declines or lets the time pass, and the order is compensated.
SellerTurnsDown(p) ==
  /\ h[p] = Idle /\ order.flow = "SELLER_PENDING"
  /\ order' = [order EXCEPT !.flow = "CANCELLED"]
  /\ GoTo(p, "reverse")
  /\ UNCHANGED <<case, gate, pay, seen, record, credited, missed>>

\* The reservation of an unpaid order has run out.
StartSweep(p) ==
  /\ h[p] = Idle
  /\ order.flow = "CREATED" /\ order.paid # "PAID"
  /\ Become(p, [Idle EXCEPT !.pc = "attempts", !.loop = "sweep"])
  /\ UNCHANGED <<case, gate, pay, seen, order, record, credited, missed>>

ExpireOrder(p) ==
  /\ At(p, "expire")
  /\ IF order.flow = "CREATED" /\ order.paid # "PAID"
       THEN order' = [order EXCEPT !.flow = "CANCELLED"] /\ GoTo(p, "reverse")
       ELSE Done(p) /\ UNCHANGED order
  /\ UNCHANGED <<case, gate, pay, seen, record, credited, missed>>

\* With a fault: what was paid back before is paid back again.
reverseOrderFinanceAgain(p) ==
  /\ At(p, "reverse")
  /\ order' = [order EXCEPT !.reversed = TRUE, !.returned = order.booked,
                            !.paid = IF order.booked THEN "REFUNDED" ELSE @]
  /\ Miss(order.booked /\ record # "none" /\ ~order.reversed)
  /\ GoTo(p, "record")
  /\ UNCHANGED <<case, gate, pay, seen, record, credited>>

\* One transaction of compensateOrderCancellation, whose failure is swallowed.
reverseOrderFinanceOnCancellation(p) ==
  /\ At(p, "reverse")
  /\ GoTo(p, "record")
  /\ \/ /\ ~order.reversed
        /\ order' = [order EXCEPT !.reversed = TRUE, !.returned = order.booked,
                                  !.paid = IF order.booked THEN "REFUNDED" ELSE @]
        /\ Miss(order.booked /\ record # "none")
     \/ (order.reversed \/ case.faults) /\ UNCHANGED <<order, missed>>
  /\ UNCHANGED <<case, gate, pay, seen, record, credited>>

\* The order is read, then the record made if there is none.
recordExternalCancellation(p) ==
  /\ At(p, "record")
  /\ IF Cancelled
       THEN Become(p, [h[p] EXCEPT !.pc = "insert",
              !.plan = IF ~order.reversed THEN "open" ELSE IF order.returned THEN "returned" ELSE "without"])
       ELSE Return(p)
  /\ UNCHANGED <<case, gate, pay, seen, order, record, credited, missed>>

InsertRecord(p) ==
  /\ At(p, "insert")
  /\ record' = IF record = "none" THEN h[p].plan ELSE record
  /\ Miss(record = "none" /\ h[p].plan = "open" /\ order.returned)
  /\ IF h[p].next = "CAPTURED"
       THEN Become(p, [h[p] EXCEPT !.pc = "add", !.plan = "none"]) ELSE Return(p)
  /\ UNCHANGED <<case, gate, pay, seen, order, credited>>

onLatePaymentCapture(p) ==
  /\ At(p, "late")
  /\ GoTo(p, IF record = "none" THEN "record" ELSE "add")
  /\ UNCHANGED <<case, gate, pay, seen, order, record, credited, missed>>

\* With a fault: a plan without the gateway's money stays as it is.
addLateCaptureAllocationNever(p) ==
  /\ At(p, "add") /\ Return(p)
  /\ UNCHANGED <<case, gate, pay, seen, order, record, credited, missed>>

\* A record that is not planned yet is left to its plan.
addLateCaptureAllocation(p) ==
  /\ \/ /\ At(p, "add")
        /\ IF record = "without" /\ Captured /\ ~order.returned THEN GoTo(p, "push") ELSE Return(p)
        /\ UNCHANGED record
     \/ /\ At(p, "push")
        /\ record' = IF record = "without" THEN "with" ELSE record
        /\ Return(p)
  /\ UNCHANGED <<case, gate, pay, seen, order, credited, missed>>

\* With a fault: a payment that failed is paid back, too.
planRefundUnpaid(p) ==
  /\ h[p] = Idle /\ record = "open"
  /\ IF Unconfirmed
       THEN Become(p, [Idle EXCEPT !.pc = "attempts", !.loop = "round"])
       ELSE Become(p, [Idle EXCEPT !.pc = "freeze", !.plan = "with"])
  /\ UNCHANGED <<case, gate, pay, seen, order, record, credited, missed>>

\* A round on the refund: safeProcess after each of the above, or the reconcile
\* job.  The lease between rounds is left out; the plan is frozen once without it.
planRefund(p) ==
  /\ h[p] = Idle /\ record = "open"
  /\ IF Unconfirmed
       THEN Become(p, [Idle EXCEPT !.pc = "attempts", !.loop = "round"])
       ELSE Become(p, [Idle EXCEPT !.pc = "freeze", !.plan = IF Captured THEN "with" ELSE "without"])
  /\ UNCHANGED <<case, gate, pay, seen, order, record, credited, missed>>

\* A payment that is still open is waited for until its time is over.
ReadOrderAgain(p) ==
  /\ At(p, "reread")
  /\ LET wait == Unconfirmed /\ h[p].outcome # "UNPAID"
     IN  \/ wait /\ Done(p)
         \/ /\ ~wait \/ h[p].outcome # "UNKNOWN"
            /\ Become(p, [Idle EXCEPT !.pc = "freeze", !.plan = IF Captured THEN "with" ELSE "without"])
  /\ UNCHANGED <<case, gate, pay, seen, order, record, credited, missed>>

FreezePlan(p) ==
  /\ At(p, "freeze")
  /\ record' = IF record = "open" THEN h[p].plan ELSE record
  /\ Miss(record = "open" /\ h[p].plan = "without" /\ Captured)
  /\ Become(p, [Idle EXCEPT !.pc = "mark"])
  /\ UNCHANGED <<case, gate, pay, seen, order, credited>>

\* From here on no compensation pays the order back.
MarkReversed(p) ==
  /\ At(p, "mark")
  /\ order' = [order EXCEPT !.reversed = TRUE]
  /\ Done(p)
  /\ UNCHANGED <<case, gate, pay, seen, record, credited, missed>>

-----------------------------------------------------------------------------
(* Failures                                                                *)

\* A process dies or its call fails; the handler around it ends.
Die(p) ==
  /\ case.faults /\ h[p] # Idle
  /\ Done(p)
  /\ Miss(h[p].pc \in Owing)
  /\ UNCHANGED <<case, gate, pay, seen, order, record, credited>>

\* A failure the code goes on from: an attempt whose outcome stays unknown, or a
\* record or refund that could not be made.
Stumble(p) ==
  /\ case.faults
  /\ \/ /\ h[p].loop # "none" /\ h[p].pc \in {"ask", "transition", "effects", "finance", "move"}
        /\ Proceed(p, IF At(p, "ask") THEN h[p].todo \ Latest(p) ELSE h[p].todo, "UNKNOWN")
        /\ UNCHANGED missed
     \/ h[p].pc \in Owing \ {"reverse"} /\ Return(p) /\ Miss(TRUE)
  /\ UNCHANGED <<case, gate, pay, seen, order, record, credited>>

Work(p) ==
  \/ BeginPayment(p) \/ LookForOpen(p) \/ CountAttempts(p) \/ createPaymentOrder(p)
  \/ Webhook(p) \/ VerifyPayment(p) \/ AskForCustomer(p) \/ LoadAttempts(p) \/ AskToReconcile(p)
  \/ transitionPaymentState(p) \/ ReadOrders(p) \/ handleOnlineOrderFinance(p)
  \/ moveOrderToSellerPendingAfterPayment(p) \/ PaymentFails(p) \/ PaymentStillOpen(p)
  \/ executeDirectCancellation(p) \/ SellerTurnsDown(p) \/ StartSweep(p) \/ ExpireOrder(p)
  \/ reverseOrderFinanceOnCancellation(p) \/ recordExternalCancellation(p) \/ InsertRecord(p)
  \/ onLatePaymentCapture(p) \/ addLateCaptureAllocation(p)
  \/ planRefund(p) \/ ReadOrderAgain(p) \/ FreezePlan(p) \/ MarkReversed(p)
  \/ Die(p) \/ Stumble(p)

Next ==
  \/ \E p \in Handlers : Work(p)
  \/ \E a \in Attempts : GatewaySettles(a)

Spec == Init /\ [][Next]_vars

-----------------------------------------------------------------------------
(* Properties                                                              *)

\* The ranges the schemas of payment, order and cancellation keep
\* (payment.js, order.js, orderCancellation.js).
TypeOK ==
  /\ case \in Cases
  /\ gate \in [Attempts -> SUBSET {"CAPTURED", "FAILED"}]
  /\ pay \in [Attempts -> Outcomes \cup {"none"}]
  /\ seen \subseteq Attempts \X Outcomes
  /\ order \in Orders /\ record \in Records
  /\ credited \in Nat
  /\ h \in [Handlers -> Copies] /\ missed \in BOOLEAN

\* handleOnlineOrderFinance: however many webhooks, verifications, sweeps and
\* rounds bring in the capture, and of however many attempts, it is booked once.
BookedOnce == credited = IF order.booked THEN 1 ELSE 0

\* transitionPaymentState and the side effects after it: while nothing fails, a
\* capture whose webhook was stored as new, or that anyone saved, is booked once all
\* who work on the order are done, even over a failure decided from an older copy.
\* It is lost when the failure of the attempt was saved first: FAILED is final.  And
\* nothing is said of a capture that PhonePe reports of a transaction it reported
\* before: it counts as a duplicate (IsDuplicate), and unless someone asks the gateway
\* nobody learns of it.
CaptureIsBooked ==
  ~case.faults /\ (\A p \in Handlers : h[p] = Idle) =>
    \A a \in Attempts :
      /\ pay[a] = "CAPTURED" => order.booked
      /\ <<a, "CAPTURED">> \in seen => order.booked \/ pay[a] = "FAILED"

\* moveOrderToSellerPendingAfterPayment: a seller sees no order whose money the
\* gateway has not captured and the books do not have.
PaidBeforeSeller ==
  order.flow = "SELLER_PENDING" =>
    order.booked /\ \E a \in Attempts : "CAPTURED" \in gate[a]

\* handleOrderSideEffectsFromPaymentStatus: money that is booked for a cancelled
\* order went back, is in the plan or will be, once all who work on the order are
\* done and unless one of them missed another's write (missed).
CancelledMoneyComesBack ==
  Cancelled /\ order.booked /\ ~missed /\ (\A p \in Handlers : h[p] = Idle) =>
    order.returned \/ record \in {"open", "with"}

\* compensateOrderCancellation and planRefund: what the compensation put into the
\* customer's wallet is not refunded by the gateway too.
RefundedOnce == ~missed => ~(order.returned /\ record = "with")

\* A payment that comes late never takes an order out of its cancellation.
NeverRevived == [][Cancelled => Cancelled']_vars

\* The ways on which the customer's money goes back: the compensation pays the
\* wallet, and the refund's plan goes to the gateway.
Back == {way \in {"wallet", "source"} : IF way = "wallet" THEN order.returned ELSE record = "with"}

\* Every handler makes one of the promised moves or one that nobody sees: however
\* their copies age, no money is booked without a capture or twice, and none goes
\* back that was not booked for an order that is cancelled.
Promise == INSTANCE PaymentPromise WITH
  captured <- \E a \in Attempts : "CAPTURED" \in gate[a],
  booked <- credited, flow <- order.flow, back <- Back, crossed <- missed
KeepsPromise == Promise!Spec
=============================================================================
