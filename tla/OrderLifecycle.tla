--------------------------- MODULE OrderLifecycle ---------------------------
(***************************************************************************)
(* One v2 order, from placement to delivery or cancellation, and the       *)
(* cancellation record kept beside it.                                     *)
(*                                                                         *)
(* Every action is one MongoDB commit point of the backend: a conditional  *)
(* findOneAndUpdate, or a multi-document transaction.  A handler that      *)
(* reads, pauses and then writes is split only where what it read can have *)
(* changed and still be written: the delivery-search timeout, the OTP      *)
(* hand-over, and the follow-ups that run after a cancellation or a        *)
(* delivery has committed.  Elsewhere the update repeats every condition   *)
(* that was read, so the read adds nothing and the handler is one action.  *)
(*                                                                         *)
(* Timeout handlers are started by delayed Bull jobs (which may be lost,   *)
(* late or run twice) and by a sweep every ten seconds; here they may      *)
(* start at any time, so the job queue has no state of its own.            *)
(***************************************************************************)
EXTENDS Naturals, FiniteSets

CONSTANTS
  Riders,        \* delivery partners
  NoRider,       \* deliveryBoy: null
  Workers,       \* concurrent runs of the delivery-search timeout handler
  MaxAttempts,   \* DELIVERY_SEARCH_MAX_ATTEMPTS
  Qty,           \* units of stock the order took, each an order line of its own
  CancelStages,  \* policy.selfCancelStages: where a customer may self-cancel
  MaxCrashes,    \* bound on process crashes
  SettlementsFail  \* whether a settlement may fail with its payouts queued

ASSUME RidersAssumption == NoRider \notin Riders
ASSUME AttemptsAssumption == MaxAttempts \in Nat \ {0}
ASSUME QtyAssumption == Qty \in Nat \ {0}
ASSUME CrashesAssumption == MaxCrashes \in Nat
ASSUME FailAssumption == SettlementsFail \in BOOLEAN

VARIABLES
  order,          \* the order document
  record,         \* its OrderCancellation document
  unitsBack,      \* units given back to the seller's stock so far
  due,            \* which deadlines of the order have passed
  otp,            \* the latest hand-over code
  handOver,       \* riders whose request consumed a code and has yet to deliver
  timeoutRead,    \* per worker: the attempt its timeout handler read, 0 if idle
  followUp,       \* per kind of canceller: the compensation step it is at
  afterDelivery,  \* the step the delivering request is at
  settlement,     \* "applied" is financeFlags.deliveredSettlementApplied
  crashes

vars == <<order, record, unitsBack, due, otp, handOver, timeoutRead, followUp,
          afterDelivery, settlement, crashes>>

-----------------------------------------------------------------------------
(* Vocabulary *)

WorkflowStatus == {"CREATED", "SELLER_PENDING", "DELIVERY_SEARCH", "DELIVERY_ASSIGNED",
                   "PICKUP_READY", "OUT_FOR_DELIVERY", "DELIVERED", "CANCELLED"}

LegacyStatus == {"pending", "confirmed", "packed", "out_for_delivery", "delivered", "cancelled"}

RecordStatus == {"NONE", "REQUESTED", "UNDER_REVIEW", "APPROVED", "REJECTED", "WITHDRAWN",
                 "CANCELLED", "TRANSFERRED"}

OpenRequest == {"REQUESTED", "UNDER_REVIEW"}

OrderCancelledStatuses == {"APPROVED", "CANCELLED"}

\* The handlers that go on, outside any transaction, after an order was cancelled.
Cancellers == {"seller", "sellerTimeout", "deliveryTimeout", "paymentTimeout",
               "paymentFailed", "lateCapture"}

legacyStatusFromWorkflow(ws) ==
  CASE ws \in {"CREATED", "SELLER_PENDING"} -> "pending"
    [] ws \in {"DELIVERY_SEARCH", "DELIVERY_ASSIGNED", "PICKUP_READY"} -> "confirmed"
    [] ws = "OUT_FOR_DELIVERY" -> "out_for_delivery"
    [] ws = "DELIVERED" -> "delivered"
    [] ws = "CANCELLED" -> "cancelled"

\* What $set of workflowStatus together with its legacy mirror does.
MovedTo(o, ws) == [o EXCEPT !.workflowStatus = ws, !.status = legacyStatusFromWorkflow(ws)]

\* The first test that applies decides.
resolveCancellationStage(o) ==
  IF o.status = "cancelled" \/ o.workflowStatus = "CANCELLED" THEN "CANCELLED"
  ELSE IF o.status = "delivered" \/ o.workflowStatus = "DELIVERED" THEN "DELIVERED"
  ELSE IF o.pickedUp \/ o.workflowStatus = "OUT_FOR_DELIVERY" \/ o.status = "out_for_delivery"
    THEN "PICKED_UP"
  ELSE CASE o.workflowStatus = "CREATED" -> "AWAITING_PAYMENT"
         [] o.workflowStatus = "SELLER_PENDING" -> "PENDING_ACCEPTANCE"
         [] o.workflowStatus = "DELIVERY_SEARCH" -> IF o.ready THEN "PACKED" ELSE "ACCEPTED"
         [] o.workflowStatus = "DELIVERY_ASSIGNED" -> "RIDER_ASSIGNED"
         [] o.workflowStatus = "PICKUP_READY" -> "RIDER_AT_STORE"

PrePickupStages == {"AWAITING_PAYMENT", "PENDING_ACCEPTANCE", "ACCEPTED", "PACKED",
                    "RIDER_ASSIGNED", "RIDER_AT_STORE"}

NotPickedUp(o) == resolveCancellationStage(o) \in PrePickupStages

PickedUpOrder(o) == resolveCancellationStage(o) = "PICKED_UP"

-----------------------------------------------------------------------------
(* Placement: the order and its reservation are committed together.        *)

\* paid is paymentStatus = PAID; captured is financeFlags.onlinePaymentCaptured.
Placed(mode, paid, ws) ==
  [mode |-> mode, paid |-> paid, captured |-> FALSE, workflowStatus |-> ws,
   status |-> "pending", deliveryBoy |-> NoRider, skippedBy |-> {}, attempt |-> 0,
   ready |-> FALSE, pickedUp |-> FALSE, reservation |-> "HELD"]

NewOrders ==
  {Placed("COD", FALSE, "SELLER_PENDING"), Placed("ONLINE", FALSE, "CREATED"),
   Placed("WALLET", TRUE, "SELLER_PENDING"), Placed("WALLET", TRUE, "CREATED")}

NoRecord == [status |-> "NONE", returnLeg |-> "NOT_REQUIRED", inventory |-> "PENDING"]

Init ==
  /\ order \in NewOrders
  /\ record = NoRecord
  /\ unitsBack = 0
  /\ due = [seller |-> FALSE, search |-> FALSE]
  /\ otp = "none"
  /\ handOver = {}
  /\ timeoutRead = [w \in Workers |-> 0]
  /\ followUp = [c \in Cancellers |-> "none"]
  /\ afterDelivery = "none"
  /\ settlement = "none"
  /\ crashes = 0

-----------------------------------------------------------------------------
(* Payment, as far as the order sees it *)

\* handleOnlineOrderFinance marks the order paid, whatever its status.  Had the
\* handler read it as cancelled before, it goes on to the cancellation record.
CapturePayment ==
  /\ order.mode = "ONLINE" /\ ~order.captured
  /\ order' = [order EXCEPT !.paid = TRUE, !.captured = TRUE]
  /\ \/ UNCHANGED followUp
     \/ order.workflowStatus = "CANCELLED" /\ followUp' = [followUp EXCEPT !["lateCapture"] = "record"]
  /\ UNCHANGED <<record, unitsBack, due, otp, handOver, timeoutRead,
                 afterDelivery, settlement, crashes>>

\* Progress of another payment attempt, or a refund, overwrites paymentStatus.
OtherAttemptUpdate ==
  /\ order.mode = "ONLINE" /\ order.paid
  /\ order' = [order EXCEPT !.paid = FALSE]
  /\ UNCHANGED <<record, unitsBack, due, otp, handOver, timeoutRead, followUp,
                 afterDelivery, settlement, crashes>>

moveOrderToSellerPendingAfterPayment ==
  /\ order.mode = "ONLINE" /\ order.captured
  /\ order.workflowStatus = "CREATED"
  /\ order' = [order EXCEPT !.workflowStatus = "SELLER_PENDING"]
  /\ due' = [due EXCEPT !.seller = FALSE]
  /\ UNCHANGED <<record, unitsBack, otp, handOver, timeoutRead, followUp,
                 afterDelivery, settlement, crashes>>

\* Mutant: the canceller records the cancellation but never compensates.
CancelOnly(canceller) ==
  /\ order' = MovedTo(order, "CANCELLED")
  /\ followUp' = [followUp EXCEPT ![canceller] = "record"]
  /\ UNCHANGED <<record, unitsBack, due, otp, handOver, afterDelivery, settlement, crashes>>

\* A canceller's commit: the order is final, its compensation is still to run.
CancelFirst(canceller) ==
  /\ order' = MovedTo(order, "CANCELLED")
  /\ followUp' = [followUp EXCEPT ![canceller] = "claim"]
  /\ UNCHANGED <<record, unitsBack, due, otp, handOver, afterDelivery, settlement, crashes>>

PaymentTimeout ==
  /\ order.mode = "ONLINE" /\ ~order.paid
  /\ order.workflowStatus = "CREATED"
  /\ CancelFirst("paymentTimeout")
  /\ UNCHANGED timeoutRead

\* FAILED or CANCELLED at the gateway: an order still waiting for its payment is
\* cancelled and restocked in one transaction.
PaymentFailed ==
  /\ order.mode = "ONLINE"
  /\ followUp' = [followUp EXCEPT !["paymentFailed"] = "record"]
  /\ IF order.workflowStatus = "CREATED"
       THEN /\ order' = [MovedTo(order, "CANCELLED") EXCEPT !.reservation = "RELEASED", !.paid = FALSE]
            /\ unitsBack' = IF order.reservation = "RELEASED" THEN unitsBack ELSE unitsBack + Qty
       ELSE UNCHANGED <<order, unitsBack>>
  /\ UNCHANGED <<record, due, otp, handOver, timeoutRead, afterDelivery, settlement, crashes>>

-----------------------------------------------------------------------------
(* Seller *)

\* Mutant: the payment check is dropped.
sellerAcceptUnpaid ==
  /\ order.workflowStatus \in {"SELLER_PENDING", "CREATED"}
  /\ order' = [MovedTo(order, "DELIVERY_SEARCH") EXCEPT !.attempt = 1]
  /\ due' = [due EXCEPT !.search = FALSE]
  /\ UNCHANGED <<record, unitsBack, otp, handOver, timeoutRead, followUp,
                 afterDelivery, settlement, crashes>>

sellerAccept ==
  /\ order.workflowStatus \in {"SELLER_PENDING", "CREATED"}
  /\ order.mode # "ONLINE" \/ order.paid
  /\ order' = [MovedTo(order, "DELIVERY_SEARCH") EXCEPT !.attempt = 1]
  /\ due' = [due EXCEPT !.search = FALSE]
  /\ UNCHANGED <<record, unitsBack, otp, handOver, timeoutRead, followUp,
                 afterDelivery, settlement, crashes>>

sellerReject ==
  /\ order.workflowStatus = "SELLER_PENDING"
  /\ ~due.seller
  /\ CancelFirst("seller")
  /\ UNCHANGED timeoutRead

sellerMarkReady ==
  /\ order.workflowStatus \in {"DELIVERY_SEARCH", "DELIVERY_ASSIGNED", "PICKUP_READY"}
  /\ ~order.ready
  /\ order' = [order EXCEPT !.ready = TRUE]
  /\ UNCHANGED <<record, unitsBack, due, otp, handOver, timeoutRead, followUp,
                 afterDelivery, settlement, crashes>>

\* Mutant: the label is written without the status condition.
LabelPackedAlways ==
  /\ order.ready
  /\ order' = [order EXCEPT !.status = "packed"]
  /\ UNCHANGED <<record, unitsBack, due, otp, handOver, timeoutRead, followUp,
                 afterDelivery, settlement, crashes>>

\* PUT /status "packed" labels the legacy status once the order is ready.
LabelPacked ==
  /\ order.ready /\ order.status = "confirmed"
  /\ order' = [order EXCEPT !.status = "packed"]
  /\ UNCHANGED <<record, unitsBack, due, otp, handOver, timeoutRead, followUp,
                 afterDelivery, settlement, crashes>>

SellerDeadline ==
  /\ order.workflowStatus = "SELLER_PENDING" /\ ~due.seller
  /\ due' = [due EXCEPT !.seller = TRUE]
  /\ UNCHANGED <<order, record, unitsBack, otp, handOver, timeoutRead, followUp,
                 afterDelivery, settlement, crashes>>

\* Mutant: the expiry is compared the wrong way round.
processSellerTimeoutJobEarly ==
  /\ order.workflowStatus = "SELLER_PENDING"
  /\ ~due.seller
  /\ CancelFirst("sellerTimeout")
  /\ UNCHANGED timeoutRead

processSellerTimeoutJob ==
  /\ order.workflowStatus = "SELLER_PENDING"
  /\ due.seller
  /\ CancelFirst("sellerTimeout")
  /\ UNCHANGED timeoutRead

-----------------------------------------------------------------------------
(* Search for a rider *)

\* Mutant: deliveryBoy: null and the search status left out of the filter.
deliveryAcceptAny(r) ==
  /\ r \notin order.skippedBy
  /\ order.workflowStatus \in {"DELIVERY_SEARCH", "DELIVERY_ASSIGNED"}
  /\ order' = [MovedTo(order, "DELIVERY_ASSIGNED") EXCEPT !.deliveryBoy = r]
  /\ UNCHANGED <<record, unitsBack, due, otp, handOver, timeoutRead, followUp,
                 afterDelivery, settlement, crashes>>

deliveryAccept(r) ==
  /\ order.deliveryBoy = NoRider
  /\ r \notin order.skippedBy
  /\ order.status \notin {"cancelled", "delivered"}
  /\ order.workflowStatus = "DELIVERY_SEARCH"
  /\ order' = [MovedTo(order, "DELIVERY_ASSIGNED") EXCEPT !.deliveryBoy = r]
  /\ UNCHANGED <<record, unitsBack, due, otp, handOver, timeoutRead, followUp,
                 afterDelivery, settlement, crashes>>

skipOrder(r) ==
  /\ order.workflowStatus = "DELIVERY_SEARCH"
  /\ r \notin order.skippedBy
  /\ order' = [order EXCEPT !.skippedBy = @ \cup {r}]
  /\ UNCHANGED <<record, unitsBack, due, otp, handOver, timeoutRead, followUp,
                 afterDelivery, settlement, crashes>>

SearchDeadline ==
  /\ order.workflowStatus = "DELIVERY_SEARCH" /\ ~due.search
  /\ due' = [due EXCEPT !.search = TRUE]
  /\ UNCHANGED <<order, record, unitsBack, otp, handOver, timeoutRead, followUp,
                 afterDelivery, settlement, crashes>>

\* The handler reads the order and finds its search expired ...
ReadSearchTimeout(w) ==
  /\ timeoutRead[w] = 0
  /\ order.workflowStatus = "DELIVERY_SEARCH" /\ due.search
  /\ timeoutRead' = [timeoutRead EXCEPT ![w] = IF order.attempt = 0 THEN 1 ELSE order.attempt]
  /\ UNCHANGED <<order, record, unitsBack, due, otp, handOver, followUp,
                 afterDelivery, settlement, crashes>>

\* Mutant: the search is restarted, not widened: the filter names only the order.
WidenSearchRestart(w) ==
  /\ timeoutRead[w] \in 1 .. (MaxAttempts - 1)
  /\ timeoutRead' = [timeoutRead EXCEPT ![w] = 0]
  /\ order' = [MovedTo(order, "DELIVERY_SEARCH") EXCEPT !.attempt = timeoutRead[w] + 1]
  /\ due' = [due EXCEPT !.search = FALSE]
  /\ UNCHANGED <<record, unitsBack, otp, handOver, followUp, afterDelivery, settlement, crashes>>

\* Mutant: off by one, the last attempt is widened too.
WidenSearchOnce(w) ==
  /\ timeoutRead[w] \in 1 .. MaxAttempts
  /\ order.workflowStatus = "DELIVERY_SEARCH"
  /\ timeoutRead' = [timeoutRead EXCEPT ![w] = 0]
  /\ order' = [order EXCEPT !.attempt = timeoutRead[w] + 1]
  /\ due' = [due EXCEPT !.search = FALSE]
  /\ UNCHANGED <<record, unitsBack, otp, handOver, followUp, afterDelivery, settlement, crashes>>

\* Mutant: a new deadline without counting the attempt.
WidenSearchForever(w) ==
  /\ timeoutRead[w] \in 1 .. (MaxAttempts - 1)
  /\ timeoutRead' = [timeoutRead EXCEPT ![w] = 0]
  /\ due' = [due EXCEPT !.search = order.workflowStatus # "DELIVERY_SEARCH"]
  /\ UNCHANGED <<order, record, unitsBack, otp, handOver, followUp, afterDelivery, settlement, crashes>>

\* ... then widens it from the attempt it read: the filter does not name it ...
WidenSearch(w) ==
  /\ timeoutRead[w] \in 1 .. (MaxAttempts - 1)
  /\ timeoutRead' = [timeoutRead EXCEPT ![w] = 0]
  /\ IF order.workflowStatus = "DELIVERY_SEARCH"
       THEN /\ order' = [order EXCEPT !.attempt = timeoutRead[w] + 1]
            /\ due' = [due EXCEPT !.search = FALSE]
       ELSE UNCHANGED <<order, due>>
  /\ UNCHANGED <<record, unitsBack, otp, handOver, followUp, afterDelivery, settlement, crashes>>

\* ... or gives up on the order at the last attempt ...
GiveUpSearch(w) ==
  /\ timeoutRead[w] = MaxAttempts
  /\ order.workflowStatus = "DELIVERY_SEARCH"
  /\ timeoutRead' = [timeoutRead EXCEPT ![w] = 0]
  /\ CancelFirst("deliveryTimeout")

\* ... unless the order left the search in between.
MissedSearch(w) ==
  /\ timeoutRead[w] = MaxAttempts
  /\ order.workflowStatus # "DELIVERY_SEARCH"
  /\ timeoutRead' = [timeoutRead EXCEPT ![w] = 0]
  /\ UNCHANGED <<order, record, unitsBack, due, otp, handOver, followUp,
                 afterDelivery, settlement, crashes>>

-----------------------------------------------------------------------------
(* Pickup and hand-over *)

markArrivedAtStore ==
  /\ order.workflowStatus = "DELIVERY_ASSIGNED"
  /\ order.deliveryBoy # NoRider
  /\ order' = MovedTo(order, "PICKUP_READY")
  /\ UNCHANGED <<record, unitsBack, due, otp, handOver, timeoutRead, followUp,
                 afterDelivery, settlement, crashes>>

confirmPickup ==
  /\ order.workflowStatus \in {"DELIVERY_ASSIGNED", "PICKUP_READY"}
  /\ order.deliveryBoy # NoRider
  /\ order' = [MovedTo(order, "OUT_FOR_DELIVERY") EXCEPT !.pickedUp = TRUE]
  /\ UNCHANGED <<record, unitsBack, due, otp, handOver, timeoutRead, followUp,
                 afterDelivery, settlement, crashes>>

\* A fresh code; earlier ones are consumed.
requestHandoffOtp ==
  /\ order.workflowStatus = "OUT_FOR_DELIVERY"
  /\ order.deliveryBoy # NoRider
  /\ otp # "open"
  /\ otp' = "open"
  /\ UNCHANGED <<order, record, unitsBack, due, handOver, timeoutRead, followUp,
                 afterDelivery, settlement, crashes>>

\* Expired, or out of attempts.
OtpDies ==
  /\ otp = "open"
  /\ otp' = "dead"
  /\ UNCHANGED <<order, record, unitsBack, due, handOver, timeoutRead, followUp,
                 afterDelivery, settlement, crashes>>

\* The order is checked, then the matching code is consumed (an order that left
\* between the two makes FinishHandOver miss, as one that leaves later does) ...
ConsumeOtp(r) ==
  /\ order.deliveryBoy = r
  /\ order.workflowStatus = "OUT_FOR_DELIVERY"
  /\ otp = "open"
  /\ otp' = "dead"
  /\ handOver' = handOver \cup {r}
  /\ UNCHANGED <<order, record, unitsBack, due, timeoutRead, followUp,
                 afterDelivery, settlement, crashes>>

\* Mutant: the order is saved as delivered without repeating its state.
FinishHandOverBlind(r) ==
  /\ r \in handOver
  /\ handOver' = handOver \ {r}
  /\ order' = MovedTo(order, "DELIVERED")
  /\ afterDelivery' = "settle"
  /\ UNCHANGED <<record, unitsBack, due, otp, timeoutRead, followUp, settlement, crashes>>

\* ... and only then is the order moved, if it is still out with this rider.
FinishHandOver(r) ==
  /\ r \in handOver
  /\ handOver' = handOver \ {r}
  /\ IF order.workflowStatus = "OUT_FOR_DELIVERY" /\ order.deliveryBoy = r
       THEN /\ order' = MovedTo(order, "DELIVERED")
            /\ afterDelivery' = "settle"
       ELSE UNCHANGED <<order, afterDelivery>>
  /\ UNCHANGED <<record, unitsBack, due, otp, timeoutRead, followUp, settlement, crashes>>

-----------------------------------------------------------------------------
(* Settlement: the payouts of the seller and the rider *)

\* Mutant: the cancelled order is not refused.
MaySettleAnything(o) == o.mode = "ONLINE" => o.captured

\* What a settlement asks of the order it has read.
MaySettle(o) ==
  /\ o.status # "cancelled" /\ o.workflowStatus # "CANCELLED"
  /\ o.mode = "ONLINE" => o.captured

\* One transaction with the order, which is marked delivered if it was not yet.
\* Any other write to the order in between makes it abort.
Settle ==
  /\ MaySettle(order) /\ settlement # "applied"
  /\ order' = MovedTo(order, "DELIVERED")
  /\ settlement' = "applied"

\* But the payouts are queued in transactions of their own: a settlement that has
\* read the order ...
BeginSettlement ==
  /\ MaySettle(order) /\ settlement = "none"
  /\ SettlementsFail
  /\ settlement' = "begun"
  /\ UNCHANGED <<order, record, unitsBack, due, otp, handOver, timeoutRead, followUp,
                 afterDelivery, crashes>>

\* ... queues them whatever became of the order, and then aborts or crashes.  A
\* later settlement finds them and queues no others.
createPendingPayoutForOrder ==
  /\ settlement = "begun"
  /\ settlement' = "queued"
  /\ UNCHANGED <<order, record, unitsBack, due, otp, handOver, timeoutRead, followUp,
                 afterDelivery, crashes>>

\* The delivering request settles.  A failure is only a warning: it goes on to the hook.
settleDeliveredOrder ==
  /\ afterDelivery = "settle"
  /\ afterDelivery' = "hook"
  /\ Settle \/ UNCHANGED <<order, settlement>>
  /\ UNCHANGED <<record, unitsBack, due, otp, handOver, timeoutRead, followUp, crashes>>

\* POST /:id/delivered: a rider settles once more what was delivered; an
\* administrator settles, and so delivers, any order that is not cancelled.
markOrderDeliveredAndSettle ==
  /\ Settle
  /\ UNCHANGED <<record, unitsBack, due, otp, handOver, timeoutRead, followUp,
                 afterDelivery, crashes>>

\* The cash of an order delivered without a rider is booked to one named by an
\* administrator, who becomes its rider.
handleCodOrderFinance(r) ==
  /\ order.mode = "COD" /\ order.status = "delivered"
  /\ order.deliveryBoy = NoRider
  /\ order' = [order EXCEPT !.deliveryBoy = r]
  /\ UNCHANGED <<record, unitsBack, due, otp, handOver, timeoutRead, followUp,
                 afterDelivery, settlement, crashes>>

-----------------------------------------------------------------------------
(* What the cancellers do next *)

\* Mutant: the follow-up waits for a record that only comes after it.
ClaimReleaseLate(c) ==
  /\ followUp[c] = "claim"
  /\ record.status # "NONE"
  /\ order' = [order EXCEPT !.reservation = "RELEASED"]
  /\ followUp' = [followUp EXCEPT ![c] = "restock"]
  /\ UNCHANGED <<record, unitsBack, due, otp, handOver, timeoutRead,
                 afterDelivery, settlement, crashes>>

ClaimRelease(c) ==
  /\ followUp[c] = "claim"
  /\ order' = [order EXCEPT !.reservation = "RELEASED"]
  /\ followUp' = [followUp EXCEPT ![c] =
                    IF order.reservation = "RELEASED" THEN "record" ELSE "restock"]
  /\ UNCHANGED <<record, unitsBack, due, otp, handOver, timeoutRead,
                 afterDelivery, settlement, crashes>>

\* Item by item, outside any transaction.
RestockUnit(c) ==
  /\ followUp[c] = "restock"
  /\ unitsBack' = unitsBack + 1
  /\ followUp' = [followUp EXCEPT ![c] = IF unitsBack + 1 < Qty THEN "restock" ELSE "record"]
  /\ UNCHANGED <<order, record, due, otp, handOver, timeoutRead,
                 afterDelivery, settlement, crashes>>

recordExternalCancellation(c) ==
  /\ followUp[c] = "record"
  /\ followUp' = [followUp EXCEPT ![c] = "none"]
  /\ record' = IF order.status = "cancelled" /\ record.status = "NONE"
                 THEN [status |-> "CANCELLED", returnLeg |-> "NOT_REQUIRED",
                       inventory |-> IF order.reservation = "RELEASED"
                                       THEN "RESTORED" ELSE "NOT_REQUIRED"]
                 ELSE record
  /\ UNCHANGED <<order, unitsBack, due, otp, handOver, timeoutRead,
                 afterDelivery, settlement, crashes>>

-----------------------------------------------------------------------------
(* Cancellation service *)

\* Mutant: the reservation is given back without claiming it.
executeDirectCancellationUnclaimed ==
  /\ NotPickedUp(order)
  /\ order' = [MovedTo(order, "CANCELLED") EXCEPT !.reservation = "RELEASED"]
  /\ unitsBack' = unitsBack + Qty
  /\ record' = [status |-> "CANCELLED", returnLeg |-> "NOT_REQUIRED", inventory |-> "RESTORED"]
  /\ UNCHANGED <<due, otp, handOver, timeoutRead, followUp, afterDelivery, settlement, crashes>>

\* One transaction: the order, its record and its stock.
executeDirectCancellation ==
  /\ NotPickedUp(order)
  /\ order' = [MovedTo(order, "CANCELLED") EXCEPT !.reservation = "RELEASED"]
  /\ unitsBack' = IF order.reservation = "RELEASED" THEN unitsBack ELSE unitsBack + Qty
  /\ record' = [status |-> "CANCELLED", returnLeg |-> "NOT_REQUIRED",
                inventory |-> IF order.reservation = "RELEASED" THEN "NOT_REQUIRED" ELSE "RESTORED"]
  /\ UNCHANGED <<due, otp, handOver, timeoutRead, followUp, afterDelivery, settlement, crashes>>

CustomerCancel ==
  /\ resolveCancellationStage(order) \in CancelStages
  /\ record.status \notin OpenRequest \cup OrderCancelledStatuses \cup {"TRANSFERRED"}
  /\ executeDirectCancellation

AdminCancel == executeDirectCancellation

createCancellationRequest ==
  /\ PickedUpOrder(order)
  /\ record.status \in {"NONE", "WITHDRAWN"}
  /\ record' = [NoRecord EXCEPT !.status = "REQUESTED"]
  /\ UNCHANGED <<order, unitsBack, due, otp, handOver, timeoutRead, followUp,
                 afterDelivery, settlement, crashes>>

\* The statuses an open request moves to without touching the order.
Decide(from, status, inventory) ==
  /\ record.status \in from
  /\ record' = [record EXCEPT !.status = status, !.inventory = inventory]
  /\ UNCHANGED <<order, unitsBack, due, otp, handOver, timeoutRead, followUp, settlement, crashes>>

withdrawCancellationRequest ==
  Decide(OpenRequest, "WITHDRAWN", record.inventory) /\ UNCHANGED afterDelivery

markUnderReview ==
  Decide({"REQUESTED"}, "UNDER_REVIEW", record.inventory) /\ UNCHANGED afterDelivery

\* Mutant: a decision that does not ask whether the request is still open.
rejectAnyRequest ==
  Decide(RecordStatus \ {"NONE"}, "REJECTED", "NOT_REQUIRED") /\ UNCHANGED afterDelivery

rejectCancellationRequest ==
  Decide(OpenRequest, "REJECTED", "NOT_REQUIRED") /\ UNCHANGED afterDelivery

transferToDispute == Decide(OpenRequest, "TRANSFERRED", "NOT_REQUIRED")

\* An admin approves after all: the order turned out to be delivered.
ApproveDelivered ==
  /\ resolveCancellationStage(order) = "DELIVERED"
  /\ transferToDispute
  /\ UNCHANGED afterDelivery

\* The delivering request's last step looks for an open request.
onOrderDelivered ==
  /\ afterDelivery = "hook"
  /\ afterDelivery' = "none"
  /\ \/ transferToDispute
     \/ /\ record.status \notin OpenRequest
        /\ UNCHANGED <<order, record, unitsBack, due, otp, handOver, timeoutRead,
                       followUp, settlement, crashes>>

\* Mutant: the stock is given back with the approval, parcel still on the road.
approveAndRestock ==
  /\ PickedUpOrder(order)
  /\ order' = [MovedTo(order, "CANCELLED") EXCEPT !.reservation = "RELEASED"]
  /\ unitsBack' = unitsBack + Qty
  /\ record' = [status |-> "APPROVED", returnLeg |-> "RETURN_TO_STORE",
                inventory |-> "AWAITING_RETURN"]
  /\ UNCHANGED <<due, otp, handOver, timeoutRead, followUp, afterDelivery, settlement, crashes>>

\* Mutant: an open request is approved whatever became of the order.
approveWhateverStage ==
  /\ record.status \in OpenRequest
  /\ order' = MovedTo(order, "CANCELLED")
  /\ record' = [status |-> "APPROVED", returnLeg |-> "RETURN_TO_STORE",
                inventory |-> "AWAITING_RETURN"]
  /\ UNCHANGED <<unitsBack, due, otp, handOver, timeoutRead, followUp,
                 afterDelivery, settlement, crashes>>

\* Parcel with the rider: stop the order, keep its stock out until inspection.
\* An open request is approved; without one it is a manual cancellation, which
\* overwrites whatever record there is.
approvePostPickupCancellation ==
  /\ PickedUpOrder(order)
  /\ order' = MovedTo(order, "CANCELLED")
  /\ record' = IF order.deliveryBoy = NoRider
                 THEN [status |-> "APPROVED", returnLeg |-> "RETURNED_TO_STORE",
                       inventory |-> "AWAITING_INSPECTION"]
                 ELSE [status |-> "APPROVED", returnLeg |-> "RETURN_TO_STORE",
                       inventory |-> "AWAITING_RETURN"]
  /\ UNCHANGED <<unitsBack, due, otp, handOver, timeoutRead, followUp,
                 afterDelivery, settlement, crashes>>

confirmParcelReturned ==
  /\ record.returnLeg = "RETURN_TO_STORE"
  /\ record' = [record EXCEPT !.returnLeg = "RETURNED_TO_STORE",
                              !.inventory = "AWAITING_INSPECTION"]
  /\ UNCHANGED <<order, unitsBack, due, otp, handOver, timeoutRead, followUp,
                 afterDelivery, settlement, crashes>>

\* An admin may inspect before the rider has confirmed the return.
inspectReturnedParcel ==
  /\ record.inventory \in {"AWAITING_INSPECTION", "AWAITING_RETURN"}
  /\ order.reservation # "RELEASED"
  /\ \E sellable \in 0 .. Qty : unitsBack' = unitsBack + sellable
  /\ order' = [order EXCEPT !.reservation = "RELEASED"]
  /\ record' = [record EXCEPT !.returnLeg = "INSPECTED", !.inventory = "INSPECTED"]
  /\ UNCHANGED <<due, otp, handOver, timeoutRead, followUp, afterDelivery, settlement, crashes>>

-----------------------------------------------------------------------------
(* Crashes: what a process had committed stays, what it was about to do is   *)
(* forgotten.  Nothing of it is persisted, so nothing resumes it.            *)

ApiCrash ==
  /\ crashes < MaxCrashes
  /\ crashes' = crashes + 1
  /\ handOver' = {}
  /\ afterDelivery' = "none"
  /\ followUp' = [followUp EXCEPT !["seller"] = "none", !["paymentFailed"] = "none",
                                  !["lateCapture"] = "none"]
  /\ settlement' = IF settlement = "begun" THEN "none" ELSE settlement
  /\ UNCHANGED <<order, record, unitsBack, due, otp, timeoutRead>>

WorkerCrash ==
  /\ crashes < MaxCrashes
  /\ crashes' = crashes + 1
  /\ timeoutRead' = [w \in Workers |-> 0]
  /\ followUp' = [followUp EXCEPT !["sellerTimeout"] = "none", !["deliveryTimeout"] = "none",
                                  !["paymentTimeout"] = "none"]
  /\ UNCHANGED <<order, record, unitsBack, due, otp, handOver, afterDelivery, settlement>>

-----------------------------------------------------------------------------

PaymentStep ==
  CapturePayment \/ OtherAttemptUpdate \/ moveOrderToSellerPendingAfterPayment \/ PaymentTimeout \/ PaymentFailed

SellerStep ==
  sellerAccept \/ sellerReject \/ sellerMarkReady \/ LabelPacked

SearchStep ==
  \/ \E r \in Riders : deliveryAccept(r) \/ skipOrder(r)
  \/ \E w \in Workers : ReadSearchTimeout(w) \/ WidenSearch(w) \/ GiveUpSearch(w) \/ MissedSearch(w)

DeadlineStep == SellerDeadline \/ SearchDeadline \/ processSellerTimeoutJob

HandOverStep ==
  \/ markArrivedAtStore \/ confirmPickup \/ requestHandoffOtp \/ OtpDies
  \/ \E r \in Riders : ConsumeOtp(r) \/ FinishHandOver(r)
  \/ onOrderDelivered

SettlementStep ==
  \/ settleDeliveredOrder \/ markOrderDeliveredAndSettle
  \/ BeginSettlement \/ createPendingPayoutForOrder
  \/ \E r \in Riders : handleCodOrderFinance(r)

CompensationStep ==
  \E c \in Cancellers : ClaimRelease(c) \/ RestockUnit(c) \/ recordExternalCancellation(c)

CancellationStep ==
  \/ CustomerCancel \/ AdminCancel
  \/ createCancellationRequest \/ withdrawCancellationRequest \/ markUnderReview
  \/ rejectCancellationRequest \/ ApproveDelivered \/ approvePostPickupCancellation
  \/ confirmParcelReturned \/ inspectReturnedParcel

Next ==
  \/ PaymentStep \/ SellerStep \/ SearchStep \/ DeadlineStep
  \/ HandOverStep \/ SettlementStep \/ CompensationStep \/ CancellationStep
  \/ ApiCrash \/ WorkerCrash

Spec == Init /\ [][Next]_vars

\* Clocks run, the ten-second sweep keeps starting the timeout handlers, and a
\* process that has not crashed finishes what it began.  Nobody has to act:
\* sellers, riders, customers and admins are not fair.
Fairness ==
  /\ WF_vars(SellerDeadline) /\ WF_vars(SearchDeadline)
  /\ WF_vars(processSellerTimeoutJob)
  /\ \A w \in Workers :
       /\ WF_vars(ReadSearchTimeout(w))
       /\ WF_vars(WidenSearch(w) \/ GiveUpSearch(w) \/ MissedSearch(w))
  /\ \A c \in Cancellers :
       WF_vars(ClaimRelease(c) \/ RestockUnit(c) \/ recordExternalCancellation(c))
  /\ \A r \in Riders : WF_vars(FinishHandOver(r))
  /\ WF_vars(settleDeliveredOrder) /\ WF_vars(onOrderDelivered)

FairSpec == Spec /\ Fairness

-----------------------------------------------------------------------------
(* Properties *)

OrderType ==
  [mode : {"COD", "ONLINE", "WALLET"}, paid : BOOLEAN, captured : BOOLEAN,
   workflowStatus : WorkflowStatus, status : LegacyStatus,
   deliveryBoy : Riders \cup {NoRider}, skippedBy : SUBSET Riders,
   attempt : 0 .. MaxAttempts, ready : BOOLEAN, pickedUp : BOOLEAN,
   reservation : {"HELD", "RELEASED"}]

RecordType ==
  [status : RecordStatus,
   returnLeg : {"NOT_REQUIRED", "RETURN_TO_STORE", "RETURNED_TO_STORE", "INSPECTED"},
   inventory : {"PENDING", "RESTORED", "NOT_REQUIRED", "AWAITING_RETURN",
                "AWAITING_INSPECTION", "INSPECTED"}]

FollowUpSteps == {"none", "claim", "restock", "record"}

\* The shape of every variable; in particular a search never counts past
\* MaxAttempts and no more units come back than the order took.
TypeOK ==
  /\ order \in OrderType
  /\ record \in RecordType
  /\ unitsBack \in 0 .. Qty
  /\ due \in [seller : BOOLEAN, search : BOOLEAN]
  /\ otp \in {"none", "open", "dead"}
  /\ handOver \in SUBSET Riders
  /\ timeoutRead \in [Workers -> 0 .. MaxAttempts]
  /\ followUp \in [Cancellers -> FollowUpSteps]
  /\ afterDelivery \in {"none", "settle", "hook"}
  /\ settlement \in {"none", "begun", "queued", "applied"}
  /\ crashes \in 0 .. MaxCrashes

\* The two representations of the order's progress agree: the legacy status is
\* the one its workflow status maps to, or its "packed" refinement.  The seller's
\* "packed" label is written by an update of its own, after the ready flag.
StatusMirrorsWorkflow ==
  \/ order.status = legacyStatusFromWorkflow(order.workflowStatus)
  \/ order.status = "packed" /\ legacyStatusFromWorkflow(order.workflowStatus) = "confirmed"

\* No rider is searched for, and no parcel moves, for an online order whose
\* money was not captured, whichever way captures, failures, payment timeouts
\* and the seller's acceptance interleave.
PaidBeforeWork ==
  order.mode = "ONLINE"
    /\ order.workflowStatus \notin {"CREATED", "SELLER_PENDING", "CANCELLED"}
    => order.captured

\* A rider holds the order from assignment on and has every parcel that left the
\* store, and nobody holds it before: the accepts of two riders, skips, expiring
\* searches and an administrator's delivery never mix.  Only the latter leaves a
\* delivered order without a rider, and it was never picked up.
RiderMatchesProgress ==
  /\ order.workflowStatus \in {"DELIVERY_ASSIGNED", "PICKUP_READY", "OUT_FOR_DELIVERY"}
       \/ order.pickedUp
       => order.deliveryBoy # NoRider
  /\ order.workflowStatus \in {"CREATED", "SELLER_PENDING", "DELIVERY_SEARCH"}
       => order.deliveryBoy = NoRider

\* The canceller's compensation is still running.
Compensating == \E c \in Cancellers : followUp[c] \in {"claim", "restock"}

\* Stock comes back only for a cancelled order; and once an order cancelled
\* before pickup has been compensated, all of it has come back.  A crash in
\* the middle of compensateOrderCancellation is excluded: nothing resumes it.
StockAccountedFor ==
  /\ unitsBack > 0 => order.workflowStatus = "CANCELLED" /\ order.reservation = "RELEASED"
  /\ order.workflowStatus = "CANCELLED" /\ ~order.pickedUp /\ ~Compensating /\ crashes = 0
       => unitsBack = Qty

\* While the parcel of a cancelled order is out, none of its units is on sale:
\* neither the approval, nor its compensation, nor the rider's confirmation of
\* the return releases the reservation; the inspection does.
StockHeldUntilInspected ==
  order.workflowStatus = "CANCELLED" /\ order.pickedUp /\ record.inventory # "INSPECTED"
    => order.reservation = "HELD" /\ unitsBack = 0

\* The cancellation record and the order never contradict each other: a record
\* that cancelled says so of a cancelled order, an open or rejected request
\* belongs to a picked-up order that is not cancelled, and a cancelled order whose
\* follow-up is over has a record (crashes excluded, as above).
RecordMatchesOrder ==
  /\ record.status \in OrderCancelledStatuses => order.workflowStatus = "CANCELLED"
  /\ record.status \in OpenRequest \cup {"REJECTED", "WITHDRAWN", "TRANSFERRED"}
       => order.pickedUp /\ order.workflowStatus # "CANCELLED"
  /\ record.status = "TRANSFERRED" => order.workflowStatus = "DELIVERED"
  /\ order.workflowStatus = "CANCELLED" /\ crashes = 0 /\ (\A c \in Cancellers : followUp[c] = "none")
       => record.status \in OrderCancelledStatuses

\* The seller is never both paid for the goods and given them back: whichever way
\* settlements - an administrator's at any moment, or one long after the hand-over -
\* and cancellers interleave, an order whose settlement was applied is delivered, no
\* canceller is at its stock, none of it came back, and no record cancels it.
\* (Payouts merely queued by a settlement that failed are not: see "queued".)
SettledOrGivenBack ==
  settlement = "applied" =>
    /\ order.workflowStatus = "DELIVERED"
    /\ order.reservation = "HELD" /\ unitsBack = 0 /\ ~Compensating
    /\ record.status \notin OrderCancelledStatuses

\* Delivered and cancelled are final: none of the racing handlers, and no
\* handler resuming with what it read before, moves a finished order.
TerminalIsFinal ==
  [][order.workflowStatus \in {"DELIVERED", "CANCELLED"}
       => order'.workflowStatus = order.workflowStatus]_vars

\* "Give back everything the order took. Exactly once" (services/stockService.js:178):
\* once a reservation is released and nobody is at it any more, all of it has come
\* back.  compensateOrderCancellation claims the release first and restocks line by
\* line outside a transaction, so a crash in between loses the rest.
GivesBackEverything ==
  order.reservation = "RELEASED" /\ ~order.pickedUp /\ ~Compensating => unitsBack = Qty

\* The code keeps the abstract promise about an order (OrderPromise): seen from
\* outside it only moves forward, its courier and its stock only change as promised.
Phase ==
  IF order.workflowStatus \in {"CREATED", "SELLER_PENDING"} THEN "placed"
  ELSE IF order.workflowStatus = "DELIVERY_SEARCH" THEN "accepted"
  ELSE IF order.workflowStatus \in {"DELIVERY_ASSIGNED", "PICKUP_READY"} THEN "assigned"
  ELSE IF order.workflowStatus = "OUT_FOR_DELIVERY" THEN "carried"
  ELSE IF order.workflowStatus = "DELIVERED" THEN "delivered"
  ELSE IF ~order.pickedUp THEN "cancelled"
  ELSE IF record.inventory # "INSPECTED" THEN "recalled" ELSE "inspected"

Promise == INSTANCE OrderPromise
             WITH phase <- Phase, courier <- order.deliveryBoy, units <- unitsBack

KeepsPromise == Promise!Spec

\* An order waiting for its seller is accepted, rejected or timed out.
SellerWaitEnds ==
  order.workflowStatus = "SELLER_PENDING" ~> order.workflowStatus # "SELLER_PENDING"

\* A search ends, even when timeout handlers resume with an attempt read long
\* ago and set the search back: each does so once, and an attempt that was left
\* for good is never read again.
SearchEnds ==
  order.workflowStatus = "DELIVERY_SEARCH" ~> order.workflowStatus # "DELIVERY_SEARCH"

\* Without a crash, the units of an order cancelled before pickup come back.
StockComesBack ==
  (order.workflowStatus = "CANCELLED" /\ ~order.pickedUp) ~> (unitsBack = Qty \/ crashes > 0)
=============================================================================
