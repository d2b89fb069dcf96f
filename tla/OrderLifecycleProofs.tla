------------------------ MODULE OrderLifecycleProofs ------------------------
(***************************************************************************)
(* What OrderLifecycle promises for every number of riders, workers,       *)
(* search attempts, units and crashes.  The type invariant and the         *)
(* properties about stock and records are not inductive: each is proved    *)
(* through the conjuncts of Inductive below, which say where the parcel    *)
(* is, who holds the claim on the reservation, and what the record may say *)
(* at each point.                                                          *)
(***************************************************************************)
EXTENDS OrderLifecycle, TLAPS

-----------------------------------------------------------------------------
(* The inductive invariant *)

\* The parcel leaves the store at confirmPickup and nowhere else; an order may be
\* delivered without, by an administrator.
PickedUpInv ==
  /\ order.workflowStatus = "OUT_FOR_DELIVERY" => order.pickedUp
  /\ order.pickedUp => order.workflowStatus \in {"OUT_FOR_DELIVERY", "DELIVERED", "CANCELLED"}

\* Whoever restocks holds the claim on the reservation, alone, and is not done.
ClaimInv ==
  /\ order.reservation = "HELD" =>
       unitsBack = 0 /\ \A c \in Cancellers : followUp[c] # "restock"
  /\ \A c \in Cancellers : followUp[c] = "restock" => unitsBack < Qty
  /\ \A c, d \in Cancellers : followUp[c] = "restock" /\ followUp[d] = "restock" => c = d

\* Compensation belongs to an order cancelled before pickup; after pickup only
\* the inspection releases the reservation.
ReleaseInv ==
  /\ \A c \in Cancellers : followUp[c] \in {"claim", "restock"} =>
       order.workflowStatus = "CANCELLED" /\ ~order.pickedUp
  /\ order.reservation = "RELEASED" => order.workflowStatus = "CANCELLED"
  /\ order.pickedUp /\ order.reservation = "RELEASED" => record.inventory = "INSPECTED"
  /\ record.inventory \in {"AWAITING_RETURN", "AWAITING_INSPECTION", "INSPECTED"} =>
       order.workflowStatus = "CANCELLED" /\ order.pickedUp
  /\ record.returnLeg = "RETURN_TO_STORE" => record.inventory = "AWAITING_RETURN"

\* A delivery still being followed up, or already settled, is a delivery.
DeliveredInv ==
  afterDelivery # "none" \/ settlement = "applied" => order.workflowStatus = "DELIVERED"

\* Only captured money makes an online order paid.
MoneyInv == order.mode = "ONLINE" /\ order.paid => order.captured

\* What the record may say of the order, and when a parcel is on its way back:
\* RecordMatchesOrder without its last part, and what keeps it.
RecordInv ==
  /\ record.status \in OrderCancelledStatuses => order.workflowStatus = "CANCELLED"
  /\ record.status \in OpenRequest \cup {"REJECTED", "WITHDRAWN", "TRANSFERRED"}
       => order.pickedUp /\ order.workflowStatus # "CANCELLED"
  /\ record.status = "TRANSFERRED" => order.workflowStatus = "DELIVERED"
  /\ record.inventory \in {"AWAITING_RETURN", "AWAITING_INSPECTION", "INSPECTED"} =>
       record.status = "APPROVED"

\* These two only ever write the record: the payment handler restocks in its own
\* transaction, and a late capture finds an order that somebody else cancelled.
RecordersInv ==
  followUp["paymentFailed"] \in {"none", "record"} /\ followUp["lateCapture"] \in {"none", "record"}

\* Without crashes, a cancelled order that still holds its stock has somebody
\* about to claim it, and one that released it has it back or being given back.
GiveBackInv ==
  order.workflowStatus = "CANCELLED" /\ ~order.pickedUp /\ crashes = 0 =>
    /\ order.reservation = "HELD" => \E c \in Cancellers : followUp[c] = "claim"
    /\ order.reservation = "RELEASED" =>
         unitsBack = Qty \/ \E c \in Cancellers : followUp[c] = "restock"

\* Without crashes, a cancelled order has its record or somebody about to write it.
FollowedUpInv ==
  order.workflowStatus = "CANCELLED" /\ crashes = 0 =>
    \/ record.status \in OrderCancelledStatuses
    \/ \E c \in Cancellers : followUp[c] # "none"

-----------------------------------------------------------------------------
(* The stages of services/cancellation/cancellationEligibility.js *)

\* A stage before pickup excludes everything after it, in both representations
\* of the order's progress and in its pickedUpAt.
LEMMA StageBeforePickup ==
  ASSUME TypeOK, NotPickedUp(order)
  PROVE  /\ order.workflowStatus \notin {"OUT_FOR_DELIVERY", "DELIVERED", "CANCELLED"}
         /\ ~order.pickedUp
  BY DEF TypeOK, OrderType, WorkflowStatus, NotPickedUp, resolveCancellationStage, PrePickupStages

\* The stage PICKED_UP is an order on its way or, at least, picked up and not over.
LEMMA StagePickedUp ==
  ASSUME TypeOK, StatusMirrorsWorkflow, PickedUpInv, PickedUpOrder(order)
  PROVE  order.workflowStatus = "OUT_FOR_DELIVERY" /\ order.pickedUp
  BY DEF TypeOK, OrderType, WorkflowStatus, PickedUpOrder, resolveCancellationStage, PickedUpInv,
         StatusMirrorsWorkflow, legacyStatusFromWorkflow

\* The stage DELIVERED is the workflow status DELIVERED.
LEMMA StageDelivered ==
  ASSUME TypeOK, StatusMirrorsWorkflow, resolveCancellationStage(order) = "DELIVERED"
  PROVE  order.workflowStatus = "DELIVERED"
  BY DEF TypeOK, OrderType, WorkflowStatus, resolveCancellationStage, StatusMirrorsWorkflow,
         legacyStatusFromWorkflow

\* A cancellation that was refused or allowed by its stage: the handlers of the
\* cancellation service act on the stage alone.
LEMMA StageCancelled ==
  ASSUME TypeOK, StatusMirrorsWorkflow
  PROVE  order.status = "cancelled" <=> order.workflowStatus = "CANCELLED"
  BY DEF TypeOK, OrderType, WorkflowStatus, StatusMirrorsWorkflow, legacyStatusFromWorkflow

-----------------------------------------------------------------------------
(* Settlements *)

\* A settlement delivers the order and changes nothing else of it.
LEMMA SettleOrder ==
  ASSUME TypeOK, Settle
  PROVE  /\ order'.workflowStatus = "DELIVERED" /\ order'.status = "delivered"
         /\ order'.mode = order.mode /\ order'.paid = order.paid
         /\ order'.captured = order.captured /\ order'.pickedUp = order.pickedUp
         /\ order'.deliveryBoy = order.deliveryBoy
         /\ order'.reservation = order.reservation
         /\ order.workflowStatus # "CANCELLED"
         /\ order.mode = "ONLINE" => order.captured
  BY DEF TypeOK, OrderType, Settle, MaySettle, MovedTo, legacyStatusFromWorkflow

\* The steps around a settlement touch the order, its settlement and the request
\* it belongs to, and the order in two ways only.
LEMMA SettlementEffect ==
  ASSUME SettlementStep
  PROVE  /\ UNCHANGED <<record, unitsBack, due, otp, handOver, timeoutRead, followUp, crashes>>
         /\ UNCHANGED order \/ Settle \/ \E r \in Riders : handleCodOrderFinance(r)
  BY DEF SettlementStep, settleDeliveredOrder, markOrderDeliveredAndSettle, BeginSettlement,
         createPendingPayoutForOrder, handleCodOrderFinance

\* A rider named with the cash is all that changes of the order, once delivered.
LEMMA AttributedOrder ==
  ASSUME TypeOK, StatusMirrorsWorkflow, NEW r \in Riders, handleCodOrderFinance(r)
  PROVE  /\ order.workflowStatus = "DELIVERED" /\ order.deliveryBoy = NoRider
         /\ order'.workflowStatus = order.workflowStatus /\ order'.status = order.status
         /\ order'.mode = order.mode /\ order'.paid = order.paid
         /\ order'.captured = order.captured /\ order'.pickedUp = order.pickedUp
         /\ order'.deliveryBoy = r
         /\ order'.reservation = order.reservation
  BY DEF TypeOK, OrderType, handleCodOrderFinance, StatusMirrorsWorkflow,
         legacyStatusFromWorkflow, WorkflowStatus

-----------------------------------------------------------------------------
(* Type correctness *)

\* Every workflow status has a legacy status.
LEMMA LegacyStatusType ==
  ASSUME NEW ws \in WorkflowStatus
  PROVE  legacyStatusFromWorkflow(ws) \in LegacyStatus
  BY DEF legacyStatusFromWorkflow, WorkflowStatus, LegacyStatus

\* Moving an order and its legacy mirror keeps the order's shape.
LEMMA MovedToType ==
  ASSUME NEW o \in OrderType, NEW ws \in WorkflowStatus
  PROVE  MovedTo(o, ws) \in OrderType
  BY LegacyStatusType DEF OrderType, MovedTo

\* A canceller's commit keeps the shape of everything but the timeout handlers.
LEMMA CancelFirstType ==
  ASSUME TypeOK, NEW canceller \in Cancellers, CancelFirst(canceller),
         timeoutRead' \in [Workers -> 0 .. MaxAttempts]
  PROVE  TypeOK'
  BY MovedToType DEF TypeOK, CancelFirst, FollowUpSteps, WorkflowStatus

\* Every step keeps the shape of the variables; the bounds on the units and on
\* the attempts need to know who holds the claim and what a handler read.
LEMMA TypeStep ==
  ASSUME TypeOK, ClaimInv, [Next]_vars
  PROVE  TypeOK'
<1> USE AttemptsAssumption, QtyAssumption, CrashesAssumption DEF TypeOK
<1>1. CASE PaymentStep
  <2>1. CASE CapturePayment
    <3>1. order' \in OrderType
      BY <2>1 DEF CapturePayment, OrderType
    <3> QED
      BY <2>1, <3>1 DEF CapturePayment, Cancellers, FollowUpSteps
  <2>2. CASE OtherAttemptUpdate
    BY <2>2 DEF OtherAttemptUpdate, OrderType
  <2>3. CASE moveOrderToSellerPendingAfterPayment
    BY <2>3 DEF moveOrderToSellerPendingAfterPayment, OrderType, WorkflowStatus
  <2>4. CASE PaymentTimeout
    BY <2>4, CancelFirstType DEF PaymentTimeout, Cancellers
  <2>5. CASE PaymentFailed
    <3>1. order' \in OrderType
      <4>1. MovedTo(order, "CANCELLED") \in OrderType
        BY MovedToType DEF WorkflowStatus
      <4>2. [MovedTo(order, "CANCELLED") EXCEPT !.reservation = "RELEASED", !.paid = FALSE]
              \in OrderType
        BY <4>1 DEF OrderType
      <4> QED
        BY <2>5, <4>2 DEF PaymentFailed
    <3>2. unitsBack' \in 0 .. Qty
      BY <2>5 DEF PaymentFailed, ClaimInv, OrderType
    <3> QED
      BY <2>5, <3>1, <3>2 DEF PaymentFailed, Cancellers, FollowUpSteps
  <2> QED
    BY <1>1, <2>1, <2>2, <2>3, <2>4, <2>5 DEF PaymentStep
<1>2. CASE SellerStep
  <2>1. CASE sellerAccept
    <3>1. MovedTo(order, "DELIVERY_SEARCH") \in OrderType
      BY MovedToType DEF WorkflowStatus
    <3>2. order' \in OrderType
      BY <2>1, <3>1 DEF sellerAccept, OrderType
    <3> QED
      BY <2>1, <3>2 DEF sellerAccept
  <2>2. CASE sellerReject
    BY <2>2, CancelFirstType DEF sellerReject, Cancellers
  <2>3. CASE sellerMarkReady \/ LabelPacked
    BY ZenonT(60), <2>3 DEF sellerMarkReady, LabelPacked, OrderType, LegacyStatus
  <2> QED
    BY <1>2, <2>1, <2>2, <2>3 DEF SellerStep
<1>3. CASE SearchStep
  <2>1. ASSUME NEW r \in Riders, deliveryAccept(r)
        PROVE  TypeOK'
    BY <2>1, LegacyStatusType DEF deliveryAccept, MovedTo, OrderType, WorkflowStatus
  <2>2. ASSUME NEW r \in Riders, skipOrder(r)
        PROVE  TypeOK'
    <3>1. order.skippedBy \cup {r} \in SUBSET Riders
      BY DEF OrderType
    <3> QED
      BY <2>2, <3>1 DEF skipOrder, OrderType
  <2>3. ASSUME NEW w \in Workers, ReadSearchTimeout(w)
        PROVE  TypeOK'
    BY <2>3 DEF ReadSearchTimeout, OrderType
  <2>4. ASSUME NEW w \in Workers, WidenSearch(w)
        PROVE  TypeOK'
    <3> DEFINE attempt == timeoutRead[w] + 1
    <3>2. attempt \in 0 .. MaxAttempts
      BY <2>4 DEF WidenSearch
    <3>3. order.workflowStatus = "DELIVERY_SEARCH" => order' = [order EXCEPT !.attempt = attempt]
      BY <2>4 DEF WidenSearch
    <3>4. order.workflowStatus # "DELIVERY_SEARCH" => order' = order
      BY <2>4 DEF WidenSearch
    <3>5. order' \in OrderType
      <4> HIDE DEF attempt
      <4> QED
        BY <3>2, <3>3, <3>4 DEF OrderType
    <3>6. due' \in [seller : BOOLEAN, search : BOOLEAN]
      BY <2>4 DEF WidenSearch
    <3>7. timeoutRead' \in [Workers -> 0 .. MaxAttempts]
      BY <2>4 DEF WidenSearch
    <3> QED
      BY <2>4, <3>5, <3>6, <3>7 DEF WidenSearch
  <2>5. ASSUME NEW w \in Workers, GiveUpSearch(w)
        PROVE  TypeOK'
    BY <2>5, CancelFirstType DEF GiveUpSearch, Cancellers
  <2>6. ASSUME NEW w \in Workers, MissedSearch(w)
        PROVE  TypeOK'
    BY <2>6 DEF MissedSearch
  <2> QED
    BY <1>3, <2>1, <2>2, <2>3, <2>4, <2>5, <2>6 DEF SearchStep
<1>4. CASE DeadlineStep
  <2>1. CASE SellerDeadline \/ SearchDeadline
    BY <2>1 DEF SellerDeadline, SearchDeadline
  <2>2. CASE processSellerTimeoutJob
    BY <2>2, CancelFirstType DEF processSellerTimeoutJob, Cancellers
  <2> QED
    BY <1>4, <2>1, <2>2 DEF DeadlineStep
<1>5. CASE HandOverStep
  <2>1. CASE markArrivedAtStore
    BY <2>1, MovedToType DEF markArrivedAtStore, WorkflowStatus
  <2>2. CASE confirmPickup
    BY <2>2, LegacyStatusType DEF confirmPickup, MovedTo, OrderType, WorkflowStatus
  <2>3. CASE requestHandoffOtp \/ OtpDies
    BY <2>3 DEF requestHandoffOtp, OtpDies
  <2>4. ASSUME NEW r \in Riders, ConsumeOtp(r) \/ FinishHandOver(r)
        PROVE  TypeOK'
    BY <2>4, MovedToType DEF ConsumeOtp, FinishHandOver, WorkflowStatus
  <2>5. CASE onOrderDelivered
    BY <2>5 DEF onOrderDelivered, transferToDispute, Decide, RecordType, RecordStatus
  <2> QED
    BY <1>5, <2>1, <2>2, <2>3, <2>4, <2>5 DEF HandOverStep
<1>6. CASE CompensationStep
  <2>1. ASSUME NEW c \in Cancellers, ClaimRelease(c)
        PROVE  TypeOK'
    BY <2>1 DEF ClaimRelease, OrderType, FollowUpSteps
  <2>2. ASSUME NEW c \in Cancellers, RestockUnit(c)
        PROVE  TypeOK'
    BY <2>2 DEF RestockUnit, ClaimInv, FollowUpSteps
  <2>3. ASSUME NEW c \in Cancellers, recordExternalCancellation(c)
        PROVE  TypeOK'
    BY <2>3 DEF recordExternalCancellation, RecordType, RecordStatus, FollowUpSteps
  <2> QED
    BY <1>6, <2>1, <2>2, <2>3 DEF CompensationStep
<1>7. CASE CancellationStep
  <2>1. CASE CustomerCancel \/ AdminCancel
    <3>1. executeDirectCancellation
      BY <2>1 DEF CustomerCancel, AdminCancel
    <3>2. order' \in OrderType
      BY <3>1, LegacyStatusType DEF executeDirectCancellation, MovedTo, OrderType, WorkflowStatus
    <3>3. unitsBack' \in 0 .. Qty
      BY <3>1 DEF executeDirectCancellation, ClaimInv, OrderType
    <3> QED
      BY <3>1, <3>2, <3>3 DEF executeDirectCancellation, RecordType, RecordStatus
  <2>2. CASE createCancellationRequest
    BY <2>2 DEF createCancellationRequest, NoRecord, RecordType, RecordStatus
  <2>3. CASE withdrawCancellationRequest \/ markUnderReview \/ rejectCancellationRequest
    BY <2>3 DEF withdrawCancellationRequest, markUnderReview, rejectCancellationRequest,
                Decide, RecordType, RecordStatus
  <2>4. CASE ApproveDelivered
    BY <2>4 DEF ApproveDelivered, transferToDispute, Decide, RecordType, RecordStatus
  <2>5. CASE approvePostPickupCancellation
    BY <2>5, MovedToType DEF approvePostPickupCancellation, RecordType, RecordStatus, WorkflowStatus
  <2>6. CASE confirmParcelReturned
    BY <2>6 DEF confirmParcelReturned, RecordType
  <2>7. CASE inspectReturnedParcel
    <3>1. order' \in OrderType
      BY <2>7 DEF inspectReturnedParcel, OrderType
    <3>2. unitsBack' \in 0 .. Qty
      BY <2>7 DEF inspectReturnedParcel, ClaimInv, OrderType
    <3> QED
      BY <2>7, <3>1, <3>2 DEF inspectReturnedParcel, RecordType
  <2> QED
    BY <1>7, <2>1, <2>2, <2>3, <2>4, <2>5, <2>6, <2>7 DEF CancellationStep
<1>8. CASE ApiCrash \/ WorkerCrash
  BY <1>8 DEF ApiCrash, WorkerCrash, FollowUpSteps
<1>9. CASE UNCHANGED vars
  BY <1>9 DEF vars
<1>10. CASE SettlementStep
  <2>1. order' \in OrderType
    <3>1. CASE Settle
      BY <3>1, MovedToType DEF Settle, WorkflowStatus
    <3>2. ASSUME NEW r \in Riders, handleCodOrderFinance(r)
          PROVE  order' \in OrderType
      BY <3>2 DEF handleCodOrderFinance, OrderType
    <3> QED
      BY <1>10, <3>1, <3>2, SettlementEffect
  <2>2. /\ afterDelivery' \in {"none", "settle", "hook"}
        /\ settlement' \in {"none", "begun", "queued", "applied"}
    BY <1>10 DEF SettlementStep, settleDeliveredOrder, markOrderDeliveredAndSettle, Settle,
                 BeginSettlement, createPendingPayoutForOrder, handleCodOrderFinance
  <2> QED
    BY <1>10, <2>1, <2>2, SettlementEffect
<1> QED
  BY <1>1, <1>2, <1>3, <1>4, <1>5, <1>6, <1>7, <1>8, <1>9, <1>10 DEF Next

-----------------------------------------------------------------------------
(* The order's own fields: progress, rider, parcel and money *)

OrderInv ==
  /\ PickedUpInv
  /\ MoneyInv
  /\ PaidBeforeWork
  /\ RiderMatchesProgress
  /\ StatusMirrorsWorkflow

\* Every step keeps the five properties of the order document.
LEMMA OrderStep ==
  ASSUME TypeOK, OrderInv, [Next]_vars
  PROVE  OrderInv'
<1> USE DEF TypeOK, OrderType
<1> USE DEF OrderInv, PickedUpInv, MoneyInv, PaidBeforeWork, RiderMatchesProgress,
            StatusMirrorsWorkflow, MovedTo, legacyStatusFromWorkflow
<1>1. CASE PaymentStep
  <2>1. CASE CapturePayment
    BY <2>1 DEF CapturePayment
  <2>5. CASE OtherAttemptUpdate
    BY <2>5 DEF OtherAttemptUpdate
  <2>6. CASE moveOrderToSellerPendingAfterPayment
    BY <2>6 DEF moveOrderToSellerPendingAfterPayment
  <2>2. CASE PaymentTimeout
    BY <2>2 DEF PaymentTimeout, CancelFirst
  <2>3. CASE PaymentFailed /\ order.workflowStatus = "CREATED"
    <3>1. /\ order'.workflowStatus = "CANCELLED" /\ order'.status = "cancelled"
          /\ order'.pickedUp = order.pickedUp /\ ~order'.paid
      BY <2>3 DEF PaymentFailed
    <3> QED
      BY <2>3, <3>1
  <2>4. CASE PaymentFailed /\ order.workflowStatus # "CREATED"
    BY <2>4 DEF PaymentFailed
  <2> QED
    BY <1>1, <2>1, <2>2, <2>3, <2>4, <2>5, <2>6 DEF PaymentStep
<1>2. CASE SellerStep
  <2>1. CASE sellerAccept
    BY <2>1 DEF sellerAccept
  <2>2. CASE sellerReject
    BY <2>2 DEF sellerReject, CancelFirst
  <2>3. CASE sellerMarkReady
    BY <2>3 DEF sellerMarkReady
  <2>4. CASE LabelPacked
    BY <2>4 DEF LabelPacked
  <2> QED
    BY <1>2, <2>1, <2>2, <2>3, <2>4 DEF SellerStep
<1>3. CASE SearchStep
  <2>1. ASSUME NEW r \in Riders, deliveryAccept(r)
        PROVE  OrderInv'
    <3>1. /\ order'.workflowStatus = "DELIVERY_ASSIGNED" /\ order'.status = "confirmed"
          /\ order'.deliveryBoy = r /\ order'.pickedUp = order.pickedUp
          /\ order'.mode = order.mode /\ order'.paid = order.paid
          /\ order'.captured = order.captured
      BY <2>1 DEF deliveryAccept
    <3>2. order.workflowStatus = "DELIVERY_SEARCH"
      BY <2>1 DEF deliveryAccept
    <3> QED
      BY <3>1, <3>2, RidersAssumption
  <2>4. ASSUME NEW r \in Riders, skipOrder(r)
        PROVE  OrderInv'
    BY <2>4 DEF skipOrder
  <2>2. ASSUME NEW w \in Workers, ReadSearchTimeout(w) \/ MissedSearch(w) \/ WidenSearch(w)
        PROVE  OrderInv'
    BY <2>2 DEF ReadSearchTimeout, MissedSearch, WidenSearch
  <2>3. ASSUME NEW w \in Workers, GiveUpSearch(w)
        PROVE  OrderInv'
    BY <2>3 DEF GiveUpSearch, CancelFirst
  <2> QED
    BY <1>3, <2>1, <2>2, <2>3, <2>4 DEF SearchStep
<1>4. CASE DeadlineStep
  BY ZenonT(60), <1>4 DEF DeadlineStep, SellerDeadline, SearchDeadline, processSellerTimeoutJob, CancelFirst
<1>5. CASE HandOverStep
  <2>1. CASE markArrivedAtStore
    BY <2>1 DEF markArrivedAtStore
  <2>4. CASE confirmPickup
    <3>1. /\ order'.workflowStatus = "OUT_FOR_DELIVERY" /\ order'.status = "out_for_delivery"
          /\ order'.deliveryBoy = order.deliveryBoy /\ order'.pickedUp
          /\ order'.mode = order.mode /\ order'.paid = order.paid
          /\ order'.captured = order.captured
      BY <2>4 DEF confirmPickup
    <3> QED
      BY <2>4, <3>1 DEF confirmPickup
  <2>2. ASSUME NEW r \in Riders, FinishHandOver(r)
        PROVE  OrderInv'
    BY ZenonT(60), <2>2 DEF FinishHandOver
  <2>3. CASE UNCHANGED order
    BY <2>3
  <2> QED
    BY <1>5, <2>1, <2>2, <2>3, <2>4
       DEF HandOverStep, requestHandoffOtp, OtpDies, ConsumeOtp, onOrderDelivered,
           transferToDispute, Decide
<1>6. CASE CompensationStep
  BY ZenonT(60), <1>6 DEF CompensationStep, ClaimRelease, RestockUnit, recordExternalCancellation
<1>7. CASE CancellationStep
  <2>1. CASE executeDirectCancellation
    BY <2>1, StageBeforePickup DEF executeDirectCancellation
  <2>2. CASE approvePostPickupCancellation
    BY <2>2 DEF approvePostPickupCancellation
  <2>3. CASE inspectReturnedParcel
    BY <2>3 DEF inspectReturnedParcel
  <2>4. CASE UNCHANGED order
    BY <2>4
  <2> QED
    BY <1>7, <2>1, <2>2, <2>3, <2>4
       DEF CancellationStep, CustomerCancel, AdminCancel, createCancellationRequest,
           withdrawCancellationRequest, markUnderReview, rejectCancellationRequest,
           ApproveDelivered, transferToDispute, Decide, confirmParcelReturned
<1>8. CASE UNCHANGED order
  BY <1>8
<1>9. CASE SettlementStep
  <2>1. CASE Settle
    BY <2>1, SettleOrder
  <2>2. ASSUME NEW r \in Riders, handleCodOrderFinance(r)
        PROVE  OrderInv'
    BY <2>2, AttributedOrder, RidersAssumption
  <2> QED
    BY <1>8, <1>9, <2>1, <2>2, SettlementEffect
<1> QED
  BY <1>1, <1>2, <1>3, <1>4, <1>5, <1>6, <1>7, <1>8, <1>9 DEF Next, ApiCrash, WorkerCrash, vars

-----------------------------------------------------------------------------
(* The reservation *)

StockInv == ClaimInv /\ ReleaseInv

\* A canceller's commit, from a status before pickup, starts a compensation.
LEMMA CancelFirstStock ==
  ASSUME TypeOK, OrderInv, StockInv, NEW canceller \in Cancellers, CancelFirst(canceller),
         order.workflowStatus \in {"CREATED", "SELLER_PENDING", "DELIVERY_SEARCH"}
  PROVE  StockInv'
<1>1. /\ order'.workflowStatus = "CANCELLED" /\ order'.pickedUp = order.pickedUp
      /\ order'.reservation = order.reservation
  BY DEF TypeOK, OrderType, CancelFirst, MovedTo
<1>2. ~order.pickedUp
  BY DEF OrderInv, PickedUpInv
<1> QED
  BY <1>1, <1>2 DEF TypeOK, StockInv, ClaimInv, ReleaseInv, CancelFirst

\* Every step keeps the claim exclusive and the stock of a parcel that is out held.
LEMMA StockStep ==
  ASSUME TypeOK, OrderInv, StockInv, RecordInv, [Next]_vars
  PROVE  StockInv'
<1> USE QtyAssumption DEF TypeOK
<1>1. CASE PaymentStep
  <2>1. CASE CapturePayment
    <3>1. /\ order'.workflowStatus = order.workflowStatus /\ order'.pickedUp = order.pickedUp
          /\ order'.reservation = order.reservation
      BY <2>1 DEF CapturePayment, OrderType
    <3> QED
      BY <2>1, <3>1 DEF CapturePayment, StockInv, ClaimInv, ReleaseInv
  <2>5. CASE OtherAttemptUpdate \/ moveOrderToSellerPendingAfterPayment
    BY <2>5 DEF OtherAttemptUpdate, moveOrderToSellerPendingAfterPayment,
                OrderType, StockInv, ClaimInv, ReleaseInv
  <2>2. CASE PaymentTimeout
    BY <2>2, CancelFirstStock DEF PaymentTimeout, Cancellers
  <2>3. CASE PaymentFailed /\ order.workflowStatus = "CREATED"
    <3>1. ~order.pickedUp
      BY <2>3 DEF OrderInv, PickedUpInv
    <3>2. order' = [MovedTo(order, "CANCELLED") EXCEPT !.reservation = "RELEASED", !.paid = FALSE]
      BY <2>3 DEF PaymentFailed
    <3>3. /\ order'.workflowStatus = "CANCELLED" /\ order'.pickedUp = order.pickedUp
          /\ order'.reservation = "RELEASED"
      BY <3>2 DEF MovedTo, OrderType
    <3> QED
      BY <2>3, <3>1, <3>3 DEF PaymentFailed, StockInv, ClaimInv, ReleaseInv
  <2>4. CASE PaymentFailed /\ order.workflowStatus # "CREATED"
    BY <2>4 DEF PaymentFailed, StockInv, ClaimInv, ReleaseInv
  <2> QED
    BY <1>1, <2>1, <2>2, <2>3, <2>4, <2>5 DEF PaymentStep
<1>2. CASE SellerStep
  <2>1. CASE sellerAccept
    <3>1. /\ order.workflowStatus # "CANCELLED" /\ order'.pickedUp = order.pickedUp
          /\ order'.reservation = order.reservation
      BY <2>1 DEF sellerAccept, MovedTo, OrderType
    <3> QED
      BY <2>1, <3>1 DEF sellerAccept, OrderType, StockInv, ClaimInv, ReleaseInv
  <2>3. CASE sellerMarkReady \/ LabelPacked
    BY <2>3 DEF sellerMarkReady, LabelPacked, OrderType, StockInv, ClaimInv, ReleaseInv
  <2>2. CASE sellerReject
    BY <2>2, CancelFirstStock DEF sellerReject, Cancellers
  <2> QED
    BY <1>2, <2>1, <2>2, <2>3 DEF SellerStep
<1>3. CASE SearchStep
  <2>1. ASSUME NEW r \in Riders, deliveryAccept(r) \/ skipOrder(r)
        PROVE  StockInv'
    BY ZenonT(60), <2>1 DEF deliveryAccept, skipOrder, MovedTo, OrderType, StockInv, ClaimInv, ReleaseInv
  <2>2. ASSUME NEW w \in Workers, ReadSearchTimeout(w) \/ MissedSearch(w) \/ WidenSearch(w)
        PROVE  StockInv'
    BY <2>2 DEF ReadSearchTimeout, MissedSearch, WidenSearch, OrderType,
                StockInv, ClaimInv, ReleaseInv
  <2>3. ASSUME NEW w \in Workers, GiveUpSearch(w)
        PROVE  StockInv'
    BY <2>3, CancelFirstStock DEF GiveUpSearch, Cancellers
  <2> QED
    BY <1>3, <2>1, <2>2, <2>3 DEF SearchStep
<1>4. CASE DeadlineStep
  <2>1. CASE SellerDeadline \/ SearchDeadline
    BY <2>1 DEF SellerDeadline, SearchDeadline, StockInv, ClaimInv, ReleaseInv
  <2>2. CASE processSellerTimeoutJob
    BY <2>2, CancelFirstStock DEF processSellerTimeoutJob, Cancellers
  <2> QED
    BY <1>4, <2>1, <2>2 DEF DeadlineStep
<1>5. CASE HandOverStep
  <2>1. CASE markArrivedAtStore \/ confirmPickup
    BY ZenonT(60), <2>1 DEF markArrivedAtStore, confirmPickup, MovedTo, OrderType,
                StockInv, ClaimInv, ReleaseInv
  <2>2. ASSUME NEW r \in Riders, FinishHandOver(r)
        PROVE  StockInv'
    BY ZenonT(60), <2>2 DEF FinishHandOver, MovedTo, OrderType, StockInv, ClaimInv, ReleaseInv
  <2>3. CASE onOrderDelivered
    BY ZenonT(60), <2>3 DEF onOrderDelivered, transferToDispute, Decide, OpenRequest, RecordType,
                RecordInv, StockInv, ClaimInv, ReleaseInv
  <2>4. CASE UNCHANGED <<order, record, unitsBack, followUp>>
    BY <2>4 DEF StockInv, ClaimInv, ReleaseInv
  <2> QED
    BY <1>5, <2>1, <2>2, <2>3, <2>4
       DEF HandOverStep, requestHandoffOtp, OtpDies, ConsumeOtp
<1>6. CASE CompensationStep
  <2>1. ASSUME NEW c \in Cancellers, ClaimRelease(c)
        PROVE  StockInv'
    BY <2>1 DEF ClaimRelease, OrderType, StockInv, ClaimInv, ReleaseInv
  <2>2. ASSUME NEW c \in Cancellers, RestockUnit(c)
        PROVE  StockInv'
    BY <2>2 DEF RestockUnit, OrderType, StockInv, ClaimInv, ReleaseInv
  <2>3. ASSUME NEW c \in Cancellers, recordExternalCancellation(c)
        PROVE  StockInv'
    BY <2>3 DEF recordExternalCancellation, RecordType, RecordInv, StockInv, ClaimInv, ReleaseInv
  <2> QED
    BY <1>6, <2>1, <2>2, <2>3 DEF CompensationStep
<1>7. CASE CancellationStep
  <2>1. CASE executeDirectCancellation
    <3>1. /\ order'.workflowStatus = "CANCELLED" /\ order'.pickedUp = order.pickedUp
          /\ order'.reservation = "RELEASED" /\ ~order.pickedUp
      BY <2>1, StageBeforePickup DEF executeDirectCancellation, MovedTo, OrderType
    <3>2. order.reservation = "HELD"
      BY <2>1, StageBeforePickup DEF executeDirectCancellation, OrderType, StockInv, ReleaseInv
    <3> QED
      BY <2>1, <3>1, <3>2 DEF executeDirectCancellation, RecordType, StockInv, ClaimInv, ReleaseInv
  <2>2. CASE approvePostPickupCancellation
    <3>1. order.workflowStatus = "OUT_FOR_DELIVERY" /\ order.pickedUp
      BY <2>2, StagePickedUp DEF approvePostPickupCancellation, OrderInv
    <3>2. /\ order'.workflowStatus = "CANCELLED" /\ order'.pickedUp = order.pickedUp
          /\ order'.reservation = order.reservation
      BY <2>2 DEF approvePostPickupCancellation, MovedTo, OrderType
    <3> QED
      BY <2>2, <3>1, <3>2
         DEF approvePostPickupCancellation, RecordType, OrderType, StockInv, ClaimInv, ReleaseInv
  <2>3. CASE inspectReturnedParcel
    BY <2>3 DEF inspectReturnedParcel, OrderType, RecordType, StockInv, ClaimInv, ReleaseInv
  <2>4. CASE createCancellationRequest
    BY <2>4, StagePickedUp DEF createCancellationRequest, NoRecord, OrderInv,
                OrderType, StockInv, ClaimInv, ReleaseInv
  <2>5. CASE withdrawCancellationRequest \/ markUnderReview \/ rejectCancellationRequest
                \/ transferToDispute
    BY ZenonT(60), <2>5 DEF withdrawCancellationRequest, markUnderReview, rejectCancellationRequest,
                transferToDispute, Decide, OpenRequest, RecordType, RecordInv,
                StockInv, ClaimInv, ReleaseInv
  <2>6. CASE confirmParcelReturned
    BY <2>6 DEF confirmParcelReturned, RecordType, StockInv, ClaimInv, ReleaseInv
  <2> QED
    BY <1>7, <2>1, <2>2, <2>3, <2>4, <2>5, <2>6
       DEF CancellationStep, CustomerCancel, AdminCancel, ApproveDelivered
<1>8. CASE ApiCrash \/ WorkerCrash
  BY <1>8 DEF ApiCrash, WorkerCrash, StockInv, ClaimInv, ReleaseInv
<1>9. CASE UNCHANGED vars
  BY <1>9 DEF vars, StockInv, ClaimInv, ReleaseInv
<1>10. CASE SettlementStep
  <2>1. UNCHANGED <<record, unitsBack, followUp>>
    BY <1>10, SettlementEffect
  <2>2. CASE Settle
    <3>1. order.workflowStatus # "CANCELLED" /\ order'.reservation = order.reservation
      BY <2>2, SettleOrder
    <3>2. order.reservation = "HELD"
      BY <3>1 DEF OrderType, StockInv, ReleaseInv
    <3> QED
      BY <2>1, <3>1, <3>2 DEF StockInv, ClaimInv, ReleaseInv
  <2>3. ASSUME NEW r \in Riders, handleCodOrderFinance(r)
        PROVE  StockInv'
    <3>1. /\ order'.workflowStatus = order.workflowStatus /\ order'.pickedUp = order.pickedUp
          /\ order'.reservation = order.reservation
      BY <2>3, AttributedOrder DEF OrderInv
    <3> QED
      BY <2>1, <3>1 DEF StockInv, ClaimInv, ReleaseInv
  <2>4. CASE UNCHANGED order
    BY <2>1, <2>4 DEF StockInv, ClaimInv, ReleaseInv
  <2> QED
    BY <1>10, <2>2, <2>3, <2>4, SettlementEffect
<1> QED
  BY <1>1, <1>2, <1>3, <1>4, <1>5, <1>6, <1>7, <1>8, <1>9, <1>10 DEF Next

-----------------------------------------------------------------------------
(* Final statuses *)

\* No handler moves a delivered or a cancelled order, whatever it read before.
LEMMA FinalStep ==
  ASSUME TypeOK, OrderInv, [Next]_vars,
         order.workflowStatus \in {"DELIVERED", "CANCELLED"}
  PROVE  order'.workflowStatus = order.workflowStatus
<1> USE DEF TypeOK, OrderType
<1>1. CASE PaymentStep
  BY <1>1 DEF PaymentStep, CapturePayment, OtherAttemptUpdate, PaymentTimeout, PaymentFailed,
              moveOrderToSellerPendingAfterPayment
<1>2. CASE SellerStep
  BY <1>2 DEF SellerStep, sellerAccept, sellerReject, sellerMarkReady, LabelPacked
<1>3. CASE SearchStep
  BY <1>3 DEF SearchStep, deliveryAccept, skipOrder, ReadSearchTimeout, WidenSearch,
              GiveUpSearch, MissedSearch
<1>4. CASE DeadlineStep
  BY <1>4 DEF DeadlineStep, SellerDeadline, SearchDeadline, processSellerTimeoutJob
<1>5. CASE HandOverStep
  BY <1>5 DEF HandOverStep, markArrivedAtStore, confirmPickup, requestHandoffOtp, OtpDies,
              ConsumeOtp, FinishHandOver, onOrderDelivered, transferToDispute, Decide
<1>6. CASE CompensationStep
  BY <1>6 DEF CompensationStep, ClaimRelease, RestockUnit, recordExternalCancellation
<1>7. CASE CancellationStep
  <2>1. CASE executeDirectCancellation
    BY <2>1, StageBeforePickup DEF executeDirectCancellation
  <2>2. CASE approvePostPickupCancellation
    BY <2>2, StagePickedUp DEF approvePostPickupCancellation, OrderInv
  <2>3. CASE inspectReturnedParcel
    BY <2>3 DEF inspectReturnedParcel
  <2>4. CASE UNCHANGED order
    BY <2>4
  <2> QED
    BY <1>7, <2>1, <2>2, <2>3, <2>4
       DEF CancellationStep, CustomerCancel, AdminCancel, createCancellationRequest,
           withdrawCancellationRequest, markUnderReview, rejectCancellationRequest,
           ApproveDelivered, transferToDispute, Decide, confirmParcelReturned
<1>8. CASE UNCHANGED order
  BY <1>8
<1>9. CASE SettlementStep
  BY <1>8, <1>9, SettlementEffect, SettleOrder, AttributedOrder DEF OrderInv
<1> QED
  BY <1>1, <1>2, <1>3, <1>4, <1>5, <1>6, <1>7, <1>8, <1>9 DEF Next, ApiCrash, WorkerCrash, vars

\* A delivery is settled and followed up only once it happened, and it stays one.
LEMMA DeliveredStep ==
  ASSUME TypeOK, OrderInv, DeliveredInv, [Next]_vars
  PROVE  DeliveredInv'
<1>1. order.workflowStatus = "DELIVERED" => order'.workflowStatus = "DELIVERED"
  BY FinalStep
<1>2. CASE UNCHANGED <<afterDelivery, settlement>>
  BY <1>1, <1>2 DEF DeliveredInv
<1>3. CASE HandOverStep
  <2>1. ASSUME NEW r \in Riders, FinishHandOver(r)
        PROVE  DeliveredInv'
    BY <1>1, <2>1 DEF FinishHandOver, DeliveredInv, MovedTo, TypeOK, OrderType
  <2>2. CASE onOrderDelivered
    BY <1>1, <2>2 DEF onOrderDelivered, transferToDispute, Decide, DeliveredInv
  <2> QED
    BY <1>2, <1>3, <2>1, <2>2
       DEF HandOverStep, markArrivedAtStore, confirmPickup, requestHandoffOtp, OtpDies, ConsumeOtp
<1>4. CASE ApiCrash
  BY <1>1, <1>4 DEF ApiCrash, DeliveredInv
<1>5. ASSUME PaymentStep \/ SellerStep \/ SearchStep \/ DeadlineStep \/ CompensationStep
      PROVE  UNCHANGED <<afterDelivery, settlement>>
  BY <1>5 DEF PaymentStep, CapturePayment, OtherAttemptUpdate, PaymentTimeout, PaymentFailed,
              moveOrderToSellerPendingAfterPayment, CancelFirst,
              SellerStep, sellerAccept, sellerReject, sellerMarkReady, LabelPacked,
              SearchStep, deliveryAccept, skipOrder, ReadSearchTimeout, WidenSearch,
              GiveUpSearch, MissedSearch,
              DeadlineStep, SellerDeadline, SearchDeadline, processSellerTimeoutJob,
              CompensationStep, ClaimRelease, RestockUnit, recordExternalCancellation
<1>6. ASSUME CancellationStep
      PROVE  UNCHANGED <<afterDelivery, settlement>>
  BY <1>6 DEF CancellationStep, CustomerCancel, AdminCancel, executeDirectCancellation,
              createCancellationRequest, withdrawCancellationRequest, markUnderReview,
              rejectCancellationRequest, ApproveDelivered, transferToDispute, Decide,
              approvePostPickupCancellation, confirmParcelReturned, inspectReturnedParcel
<1>7. CASE SettlementStep
  <2>1. settlement' = "applied" => settlement = "applied" \/ Settle
    BY <1>7 DEF SettlementStep, settleDeliveredOrder, markOrderDeliveredAndSettle,
                BeginSettlement, createPendingPayoutForOrder, handleCodOrderFinance
  <2>2. afterDelivery' # "none" => afterDelivery # "none"
    BY <1>7 DEF SettlementStep, settleDeliveredOrder, markOrderDeliveredAndSettle,
                BeginSettlement, createPendingPayoutForOrder, handleCodOrderFinance
  <2> QED
    BY <1>1, <2>1, <2>2, SettleOrder DEF DeliveredInv
<1> QED
  BY <1>2, <1>3, <1>4, <1>5, <1>6, <1>7 DEF Next, WorkerCrash, vars

-----------------------------------------------------------------------------
(* The cancellation record *)

\* A parcel once picked up stays so, and only the approval of a post-pickup
\* cancellation stops its order.
LEMMA RecallStep ==
  ASSUME TypeOK, OrderInv, [Next]_vars, order.pickedUp
  PROVE  /\ order'.pickedUp
         /\ \/ order'.workflowStatus = "CANCELLED" <=> order.workflowStatus = "CANCELLED"
            \/ approvePostPickupCancellation
<1> USE DEF TypeOK, OrderType
<1>1. order.workflowStatus \in {"OUT_FOR_DELIVERY", "DELIVERED", "CANCELLED"}
  BY DEF OrderInv, PickedUpInv
<1>2. CASE PaymentStep
  BY <1>1, <1>2 DEF PaymentStep, CapturePayment, OtherAttemptUpdate, PaymentTimeout,
                    PaymentFailed, moveOrderToSellerPendingAfterPayment
<1>3. CASE SellerStep
  BY <1>1, <1>3 DEF SellerStep, sellerAccept, sellerReject, sellerMarkReady, LabelPacked
<1>4. CASE SearchStep
  BY <1>1, <1>4 DEF SearchStep, deliveryAccept, skipOrder, ReadSearchTimeout, WidenSearch,
                    GiveUpSearch, MissedSearch
<1>5. CASE DeadlineStep
  BY <1>1, <1>5 DEF DeadlineStep, SellerDeadline, SearchDeadline, processSellerTimeoutJob
<1>6. CASE HandOverStep
  BY <1>1, <1>6 DEF HandOverStep, markArrivedAtStore, confirmPickup, requestHandoffOtp, OtpDies,
                    ConsumeOtp, FinishHandOver, onOrderDelivered, transferToDispute, Decide,
                    MovedTo
<1>7. CASE CompensationStep
  BY <1>7 DEF CompensationStep, ClaimRelease, RestockUnit, recordExternalCancellation
<1>8. CASE CancellationStep
  <2>1. ~executeDirectCancellation
    BY StageBeforePickup DEF executeDirectCancellation
  <2>2. CASE approvePostPickupCancellation
    BY <2>2 DEF approvePostPickupCancellation, MovedTo
  <2>3. CASE inspectReturnedParcel
    BY <2>3 DEF inspectReturnedParcel
  <2>4. CASE UNCHANGED order
    BY <2>4
  <2> QED
    BY <1>8, <2>1, <2>2, <2>3, <2>4
       DEF CancellationStep, CustomerCancel, AdminCancel, createCancellationRequest,
           withdrawCancellationRequest, markUnderReview, rejectCancellationRequest,
           ApproveDelivered, transferToDispute, Decide, confirmParcelReturned
<1>9. CASE UNCHANGED order
  BY <1>9
<1>10. CASE SettlementStep
  BY <1>9, <1>10, SettlementEffect, SettleOrder, AttributedOrder DEF OrderInv
<1> QED
  BY <1>2, <1>3, <1>4, <1>5, <1>6, <1>7, <1>8, <1>9, <1>10 DEF Next, ApiCrash, WorkerCrash, vars

\* The handlers that write the record.
LEMMA RecordWriters ==
  ASSUME [Next]_vars
  PROVE  \/ UNCHANGED record
         \/ CompensationStep \/ CancellationStep \/ onOrderDelivered
<1>1. ASSUME PaymentStep \/ SellerStep \/ SearchStep \/ DeadlineStep
      PROVE  UNCHANGED record
  BY <1>1 DEF PaymentStep, CapturePayment, OtherAttemptUpdate, PaymentTimeout, PaymentFailed,
              moveOrderToSellerPendingAfterPayment, CancelFirst,
              SellerStep, sellerAccept, sellerReject, sellerMarkReady, LabelPacked,
              SearchStep, deliveryAccept, skipOrder, ReadSearchTimeout, WidenSearch,
              GiveUpSearch, MissedSearch,
              DeadlineStep, SellerDeadline, SearchDeadline, processSellerTimeoutJob
<1>2. ASSUME HandOverStep
      PROVE  UNCHANGED record \/ onOrderDelivered
  BY <1>2 DEF HandOverStep, markArrivedAtStore, confirmPickup, requestHandoffOtp, OtpDies,
              ConsumeOtp, FinishHandOver
<1> QED
  BY <1>1, <1>2, SettlementEffect DEF Next, ApiCrash, WorkerCrash, vars

\* Record and order never contradict each other after a step either.
LEMMA RecordStep ==
  ASSUME TypeOK, OrderInv, StockInv, RecordInv, DeliveredInv, [Next]_vars
  PROVE  RecordInv'
<1> USE DEF RecordInv, OrderCancelledStatuses, OpenRequest
<1>1. order.workflowStatus \in {"DELIVERED", "CANCELLED"} =>
        order'.workflowStatus = order.workflowStatus
  BY FinalStep
<1>2. CASE UNCHANGED record /\ ~approvePostPickupCancellation
  BY <1>1, <1>2, RecallStep
<1>3. CASE approvePostPickupCancellation
  BY <1>3 DEF approvePostPickupCancellation, MovedTo, TypeOK, OrderType
<1>4. CASE onOrderDelivered
  <2>1. order.workflowStatus = "DELIVERED"
    BY <1>4 DEF onOrderDelivered, DeliveredInv
  <2>2. CASE transferToDispute
    <3>1. UNCHANGED order
      BY <2>2 DEF transferToDispute, Decide
    <3> QED
      BY <2>1, <2>2, <3>1 DEF transferToDispute, Decide, TypeOK, RecordType
  <2> QED
    BY <1>2, <1>4, <2>1, <2>2 DEF onOrderDelivered
<1>5. CASE CompensationStep
  <2>1. ASSUME NEW c \in Cancellers, recordExternalCancellation(c)
        PROVE  RecordInv'
    BY <2>1, StageCancelled DEF recordExternalCancellation, OrderInv
  <2>2. ASSUME NEW c \in Cancellers, ClaimRelease(c) \/ RestockUnit(c)
        PROVE  UNCHANGED record /\ order'.workflowStatus = order.workflowStatus
                 /\ order'.pickedUp = order.pickedUp
    BY <2>2 DEF ClaimRelease, RestockUnit, TypeOK, OrderType
  <2> QED
    BY <1>5, <2>1, <2>2 DEF CompensationStep
<1>6. CASE CancellationStep
  <2>1. CASE executeDirectCancellation
    BY <2>1 DEF executeDirectCancellation, MovedTo, TypeOK, OrderType
  <2>2. CASE createCancellationRequest
    BY <2>2, StagePickedUp DEF createCancellationRequest, NoRecord, OrderInv
  <2>3. CASE withdrawCancellationRequest \/ markUnderReview \/ rejectCancellationRequest
    BY <2>3 DEF withdrawCancellationRequest, markUnderReview, rejectCancellationRequest,
                Decide, TypeOK, RecordType
  <2>4. CASE ApproveDelivered
    BY <2>4, StageDelivered DEF ApproveDelivered, transferToDispute, Decide, TypeOK,
                                RecordType, OrderInv
  <2>5. CASE confirmParcelReturned
    BY <2>5 DEF confirmParcelReturned, StockInv, ReleaseInv, TypeOK, RecordType
  <2>6. CASE inspectReturnedParcel
    BY <2>6 DEF inspectReturnedParcel, StockInv, ReleaseInv, TypeOK, OrderType, RecordType
  <2> QED
    BY <1>3, <1>6, <2>1, <2>2, <2>3, <2>4, <2>5, <2>6
       DEF CancellationStep, CustomerCancel, AdminCancel
<1> QED
  BY <1>2, <1>3, <1>4, <1>5, <1>6, RecordWriters

-----------------------------------------------------------------------------
(* Compensation *)

\* The payment handler and the late capture never start a compensation.
LEMMA RecordersStep ==
  ASSUME TypeOK, RecordersInv, [Next]_vars
  PROVE  RecordersInv'
<1> USE DEF TypeOK, RecordersInv, Cancellers
<1>1. CASE PaymentStep
  BY <1>1 DEF PaymentStep, CapturePayment, OtherAttemptUpdate, PaymentTimeout, PaymentFailed,
              moveOrderToSellerPendingAfterPayment, CancelFirst
<1>2. CASE SellerStep \/ DeadlineStep
  BY <1>2 DEF SellerStep, sellerAccept, sellerReject, sellerMarkReady, LabelPacked, CancelFirst,
              DeadlineStep, SellerDeadline, SearchDeadline, processSellerTimeoutJob
<1>3. CASE SearchStep
  BY <1>3 DEF SearchStep, deliveryAccept, skipOrder, ReadSearchTimeout, WidenSearch,
              GiveUpSearch, MissedSearch, CancelFirst
<1>4. CASE CompensationStep
  BY <1>4 DEF CompensationStep, ClaimRelease, RestockUnit, recordExternalCancellation
<1>5. CASE HandOverStep
  BY <1>5 DEF HandOverStep, markArrivedAtStore, confirmPickup, requestHandoffOtp, OtpDies,
              ConsumeOtp, FinishHandOver, onOrderDelivered, transferToDispute, Decide
<1>6. CASE CancellationStep
  BY <1>6 DEF CancellationStep, CustomerCancel, AdminCancel, executeDirectCancellation,
              createCancellationRequest, withdrawCancellationRequest, markUnderReview,
              rejectCancellationRequest, ApproveDelivered, transferToDispute, Decide,
              approvePostPickupCancellation, confirmParcelReturned, inspectReturnedParcel
<1>7. CASE ApiCrash \/ WorkerCrash \/ UNCHANGED vars
  BY <1>7 DEF ApiCrash, WorkerCrash, vars
<1>8. CASE SettlementStep
  BY <1>8, SettlementEffect
<1> QED
  BY <1>1, <1>2, <1>3, <1>4, <1>5, <1>6, <1>7, <1>8 DEF Next

CompensationInv == RecordersInv /\ GiveBackInv /\ FollowedUpInv

\* A canceller's commit leaves somebody about to claim, then to record.
LEMMA CancelFirstCompensation ==
  ASSUME TypeOK, StockInv, NEW canceller \in Cancellers, CancelFirst(canceller),
         order.workflowStatus # "CANCELLED"
  PROVE  GiveBackInv' /\ FollowedUpInv'
<1>1. order'.reservation = "HELD" /\ followUp'[canceller] = "claim"
  BY DEF TypeOK, OrderType, CancelFirst, MovedTo, StockInv, ReleaseInv
<1> QED
  BY <1>1 DEF GiveBackInv, FollowedUpInv

\* An order cancelled, restocked and recorded or about to be recorded is done.
LEMMA AllBack ==
  ASSUME order'.reservation = "RELEASED", unitsBack' = Qty,
         \/ record'.status \in OrderCancelledStatuses
         \/ \E c \in Cancellers : followUp'[c] # "none"
  PROVE  GiveBackInv' /\ FollowedUpInv'
  BY DEF GiveBackInv, FollowedUpInv

\* A step that leaves the stock and the follow-ups alone, and cancels nothing,
\* leaves the compensation where it was.
LEMMA CompensationUntouched ==
  ASSUME CompensationInv, UNCHANGED <<unitsBack, followUp, crashes>>,
         order'.workflowStatus = "CANCELLED" =>
           /\ order.workflowStatus = "CANCELLED"
           /\ order'.reservation = order.reservation
           /\ order'.pickedUp = order.pickedUp
           /\ record.status \in OrderCancelledStatuses => record'.status \in OrderCancelledStatuses
  PROVE  GiveBackInv' /\ FollowedUpInv'
  BY DEF CompensationInv, GiveBackInv, FollowedUpInv

\* Every step leaves somebody to compensate and to record what is cancelled.
LEMMA CompensationKept ==
  ASSUME TypeOK, OrderInv, StockInv, RecordInv, DeliveredInv, CompensationInv, [Next]_vars
  PROVE  GiveBackInv' /\ FollowedUpInv'
<1> USE QtyAssumption
<1>1. CASE PaymentStep
  <2>1. CASE CapturePayment
    <3>1. /\ order'.workflowStatus = order.workflowStatus /\ order'.pickedUp = order.pickedUp
          /\ order'.reservation = order.reservation
      BY <2>1 DEF CapturePayment, TypeOK, OrderType
    <3>2. \A c \in Cancellers :
            followUp'[c] = followUp[c] \/ (c = "lateCapture" /\ followUp'[c] = "record")
      BY <2>1 DEF CapturePayment, TypeOK, Cancellers
    <3> QED
      BY <2>1, <3>1, <3>2
         DEF CapturePayment, CompensationInv, RecordersInv, GiveBackInv, FollowedUpInv
  <2>2. CASE OtherAttemptUpdate \/ moveOrderToSellerPendingAfterPayment
    BY <2>2, CompensationUntouched
       DEF OtherAttemptUpdate, moveOrderToSellerPendingAfterPayment, TypeOK, OrderType
  <2>3. CASE PaymentTimeout
    BY <2>3, CancelFirstCompensation DEF PaymentTimeout, Cancellers
  <2>4. CASE PaymentFailed
    <3>1. /\ followUp'["paymentFailed"] = "record"
          /\ \A c \in Cancellers : c # "paymentFailed" => followUp'[c] = followUp[c]
      BY <2>4 DEF PaymentFailed, TypeOK, Cancellers
    <3>2. CASE order.workflowStatus = "CREATED"
      <4>1. order'.reservation = "RELEASED"
        BY <2>4, <3>2 DEF PaymentFailed, MovedTo, TypeOK, OrderType
      <4>2. unitsBack' = Qty
        BY <2>4, <3>2 DEF PaymentFailed, StockInv, ClaimInv, ReleaseInv, TypeOK, OrderType
      <4> QED
        BY <3>1, <4>1, <4>2, AllBack DEF Cancellers
    <3>3. CASE order.workflowStatus # "CREATED"
      BY <2>4, <3>1, <3>3
         DEF PaymentFailed, CompensationInv, RecordersInv, GiveBackInv, FollowedUpInv, Cancellers
    <3> QED
      BY <3>2, <3>3
  <2> QED
    BY <1>1, <2>1, <2>2, <2>3, <2>4 DEF PaymentStep
<1>2. CASE SellerStep
  <2>1. CASE sellerReject
    BY <2>1, CancelFirstCompensation DEF sellerReject, Cancellers
  <2>2. CASE sellerAccept
    BY <2>2, CompensationUntouched DEF sellerAccept, MovedTo, TypeOK, OrderType
  <2>3. CASE sellerMarkReady \/ LabelPacked
    BY <2>3, CompensationUntouched DEF sellerMarkReady, LabelPacked, TypeOK, OrderType
  <2> QED
    BY <1>2, <2>1, <2>2, <2>3 DEF SellerStep
<1>3. CASE SearchStep
  <2>1. ASSUME NEW r \in Riders, deliveryAccept(r) \/ skipOrder(r)
        PROVE  GiveBackInv' /\ FollowedUpInv'
    BY <2>1, CompensationUntouched DEF deliveryAccept, skipOrder, MovedTo, TypeOK, OrderType
  <2>2. ASSUME NEW w \in Workers, ReadSearchTimeout(w) \/ MissedSearch(w) \/ WidenSearch(w)
        PROVE  GiveBackInv' /\ FollowedUpInv'
    BY <2>2, CompensationUntouched DEF ReadSearchTimeout, MissedSearch, WidenSearch,
                                       TypeOK, OrderType
  <2>3. ASSUME NEW w \in Workers, GiveUpSearch(w)
        PROVE  GiveBackInv' /\ FollowedUpInv'
    BY <2>3, CancelFirstCompensation DEF GiveUpSearch, Cancellers
  <2> QED
    BY <1>3, <2>1, <2>2, <2>3 DEF SearchStep
<1>4. CASE DeadlineStep
  <2>1. CASE SellerDeadline \/ SearchDeadline
    BY <2>1, CompensationUntouched DEF SellerDeadline, SearchDeadline
  <2>2. CASE processSellerTimeoutJob
    BY <2>2, CancelFirstCompensation DEF processSellerTimeoutJob, Cancellers
  <2> QED
    BY <1>4, <2>1, <2>2 DEF DeadlineStep
<1>5. CASE HandOverStep
  <2>1. CASE markArrivedAtStore \/ confirmPickup
    BY <2>1, CompensationUntouched DEF markArrivedAtStore, confirmPickup, MovedTo, TypeOK, OrderType
  <2>2. ASSUME NEW r \in Riders, FinishHandOver(r)
        PROVE  GiveBackInv' /\ FollowedUpInv'
    BY <2>2, CompensationUntouched DEF FinishHandOver, MovedTo, TypeOK, OrderType
  <2>3. CASE onOrderDelivered
    <3>1. order.workflowStatus = "DELIVERED" /\ UNCHANGED <<order, unitsBack, followUp, crashes>>
      BY <2>3 DEF onOrderDelivered, DeliveredInv, transferToDispute, Decide
    <3> QED
      BY <3>1, CompensationUntouched
  <2>4. CASE UNCHANGED <<order, record, unitsBack, followUp, crashes>>
    BY <2>4, CompensationUntouched
  <2> QED
    BY <1>5, <2>1, <2>2, <2>3, <2>4
       DEF HandOverStep, requestHandoffOtp, OtpDies, ConsumeOtp
<1>6. CASE CompensationStep
  <2>1. ASSUME NEW c \in Cancellers, ClaimRelease(c)
        PROVE  GiveBackInv' /\ FollowedUpInv'
    BY <2>1 DEF ClaimRelease, CompensationInv, GiveBackInv, FollowedUpInv, TypeOK, OrderType
  <2>2. ASSUME NEW c \in Cancellers, RestockUnit(c)
        PROVE  GiveBackInv' /\ FollowedUpInv'
    BY <2>2 DEF RestockUnit, StockInv, ClaimInv, CompensationInv, GiveBackInv, FollowedUpInv, TypeOK, OrderType
  <2>3. ASSUME NEW c \in Cancellers, recordExternalCancellation(c)
        PROVE  GiveBackInv' /\ FollowedUpInv'
    <3>1. GiveBackInv'
      BY <2>3 DEF recordExternalCancellation, CompensationInv, GiveBackInv, TypeOK
    <3>2. order.workflowStatus = "CANCELLED" => record'.status \in OrderCancelledStatuses
      BY <2>3, StageCancelled
         DEF recordExternalCancellation, RecordInv, OrderInv, TypeOK, RecordType, RecordStatus,
             OpenRequest, OrderCancelledStatuses
    <3> QED
      BY <2>3, <3>1, <3>2 DEF recordExternalCancellation, FollowedUpInv
  <2> QED
    BY <1>6, <2>1, <2>2, <2>3 DEF CompensationStep
<1>7. CASE CancellationStep
  <2>1. CASE executeDirectCancellation
    <3>1. order.workflowStatus # "CANCELLED"
      BY <2>1, StageBeforePickup DEF executeDirectCancellation
    <3>2. order'.reservation = "RELEASED"
      BY <2>1 DEF executeDirectCancellation, MovedTo, TypeOK, OrderType
    <3>3. unitsBack' = Qty
      BY <2>1, <3>1 DEF executeDirectCancellation, StockInv, ClaimInv, ReleaseInv, TypeOK, OrderType
    <3> QED
      BY <2>1, <3>2, <3>3, AllBack DEF executeDirectCancellation, OrderCancelledStatuses
  <2>2. CASE approvePostPickupCancellation
    <3>1. order.pickedUp
      BY <2>2, StagePickedUp DEF approvePostPickupCancellation, OrderInv
    <3> QED
      BY <2>2, <3>1 DEF approvePostPickupCancellation, MovedTo, GiveBackInv, FollowedUpInv,
                        OrderCancelledStatuses, TypeOK, OrderType
  <2>3. CASE inspectReturnedParcel
    <3>1. /\ order'.pickedUp /\ record'.status = "APPROVED"
      BY <2>3 DEF inspectReturnedParcel, StockInv, ReleaseInv, RecordInv, TypeOK, OrderType,
                  RecordType
    <3> QED
      BY <3>1 DEF GiveBackInv, FollowedUpInv, OrderCancelledStatuses
  <2>4. CASE createCancellationRequest
    BY <2>4, StagePickedUp, CompensationUntouched DEF createCancellationRequest, OrderInv
  <2>5. CASE withdrawCancellationRequest \/ markUnderReview \/ rejectCancellationRequest
                \/ transferToDispute
    BY <2>5, CompensationUntouched
       DEF withdrawCancellationRequest, markUnderReview, rejectCancellationRequest,
           transferToDispute, Decide, OpenRequest, RecordInv
  <2>6. CASE confirmParcelReturned
    BY <2>6, CompensationUntouched DEF confirmParcelReturned, TypeOK, RecordType
  <2> QED
    BY <1>7, <2>1, <2>2, <2>3, <2>4, <2>5, <2>6
       DEF CancellationStep, CustomerCancel, AdminCancel, ApproveDelivered
<1>8. CASE ApiCrash \/ WorkerCrash
  <2>1. crashes' # 0
    BY <1>8, CrashesAssumption DEF ApiCrash, WorkerCrash, TypeOK
  <2> QED
    BY <2>1 DEF GiveBackInv, FollowedUpInv
<1>9. CASE UNCHANGED vars
  BY <1>9, CompensationUntouched DEF vars
<1>10. CASE SettlementStep
  <2>1. UNCHANGED <<record, unitsBack, followUp, crashes>>
    BY <1>10, SettlementEffect
  <2>2. order'.workflowStatus = "CANCELLED" => UNCHANGED order
    BY <1>10, SettlementEffect, SettleOrder, AttributedOrder DEF OrderInv
  <2> QED
    BY <2>1, <2>2, CompensationUntouched
<1> QED
  BY <1>1, <1>2, <1>3, <1>4, <1>5, <1>6, <1>7, <1>8, <1>9, <1>10 DEF Next

-----------------------------------------------------------------------------
(* The invariant and what follows from it *)

Inductive ==
  /\ TypeOK
  /\ OrderInv
  /\ StockInv
  /\ RecordInv
  /\ DeliveredInv
  /\ CompensationInv

\* An order is placed with its stock held, no rider, no record, and unpaid unless
\* its wallet covers it.
LEMMA Initially == Init => Inductive
<1> SUFFICES ASSUME Init
             PROVE  Inductive
  OBVIOUS
<1>1. TypeOK
  <2>1. ASSUME NEW mode \in {"COD", "ONLINE", "WALLET"}, NEW paid \in BOOLEAN,
               NEW ws \in {"CREATED", "SELLER_PENDING"}
        PROVE  Placed(mode, paid, ws) \in OrderType
    <3>1. ws \in WorkflowStatus /\ "pending" \in LegacyStatus
      BY DEF WorkflowStatus, LegacyStatus
    <3>2. 0 \in 0 .. MaxAttempts
      BY AttemptsAssumption
    <3> QED
      BY <3>1, <3>2 DEF Placed, OrderType
  <2>2. order \in OrderType
    BY <2>1 DEF Init, NewOrders
  <2>3. record \in RecordType
    BY DEF Init, NoRecord, RecordType, RecordStatus
  <2>4. /\ due \in [seller : BOOLEAN, search : BOOLEAN]
        /\ timeoutRead \in [Workers -> 0 .. MaxAttempts]
        /\ followUp \in [Cancellers -> FollowUpSteps]
    BY AttemptsAssumption DEF Init, FollowUpSteps
  <2>5. unitsBack \in 0 .. Qty /\ crashes \in 0 .. MaxCrashes
    BY QtyAssumption, CrashesAssumption DEF Init
  <2> QED
    BY <2>2, <2>3, <2>4, <2>5 DEF Init, TypeOK
<1> USE DEF Init, NewOrders, Placed
<1>2. OrderInv
  BY DEF OrderInv, PickedUpInv, MoneyInv, PaidBeforeWork, RiderMatchesProgress,
         StatusMirrorsWorkflow, legacyStatusFromWorkflow
<1>3. StockInv /\ RecordInv
  BY DEF StockInv, ClaimInv, ReleaseInv, RecordInv, NoRecord, OrderCancelledStatuses, OpenRequest
<1>4. DeliveredInv /\ CompensationInv
  BY DEF DeliveredInv, CompensationInv, RecordersInv, GiveBackInv, FollowedUpInv, Cancellers
<1> QED
  BY <1>1, <1>2, <1>3, <1>4 DEF Inductive

\* Every reachable state satisfies all the conjuncts at once.
THEOREM Invariance == Spec => []Inductive
<1>1. Inductive /\ [Next]_vars => Inductive'
  BY TypeStep, OrderStep, StockStep, RecordStep, DeliveredStep, RecordersStep, CompensationKept
     DEF Inductive, StockInv, CompensationInv
<1> QED
  BY <1>1, Initially, PTL DEF Spec

\* The documents keep their shape, a search never counts past MaxAttempts and no
\* more units come back than the order took.
THEOREM TypeCorrect == Spec => []TypeOK
<1>1. Inductive => TypeOK
  BY DEF Inductive
<1> QED
  BY <1>1, Invariance, PTL

\* status and workflowStatus agree after every handler.
THEOREM MirrorsAgree == Spec => []StatusMirrorsWorkflow
<1>1. Inductive => StatusMirrorsWorkflow
  BY DEF Inductive, OrderInv
<1> QED
  BY <1>1, Invariance, PTL

\* No work is done for an online order whose money was not captured.
THEOREM WorkIsPaid == Spec => []PaidBeforeWork
<1>1. Inductive => PaidBeforeWork
  BY DEF Inductive, OrderInv
<1> QED
  BY <1>1, Invariance, PTL

\* The order has a rider from its assignment on, and so has every parcel that left
\* the store; it has none before.
THEOREM RiderCorrect == Spec => []RiderMatchesProgress
<1>1. Inductive => RiderMatchesProgress
  BY DEF Inductive, OrderInv
<1> QED
  BY <1>1, Invariance, PTL

\* Stock comes back for cancelled orders only, and then all of it.
THEOREM StockCorrect == Spec => []StockAccountedFor
<1>1. Inductive => StockAccountedFor
  <2> SUFFICES ASSUME Inductive
               PROVE  StockAccountedFor
    OBVIOUS
  <2>1. order.reservation \in {"HELD", "RELEASED"}
    BY DEF Inductive, TypeOK, OrderType
  <2>2. unitsBack > 0 => order.workflowStatus = "CANCELLED" /\ order.reservation = "RELEASED"
    BY <2>1 DEF Inductive, StockInv, ClaimInv, ReleaseInv
  <2>3. order.workflowStatus = "CANCELLED" /\ ~order.pickedUp /\ ~Compensating /\ crashes = 0
          => unitsBack = Qty
    BY <2>1 DEF Inductive, CompensationInv, GiveBackInv, Compensating
  <2> QED
    BY <2>2, <2>3 DEF StockAccountedFor
<1> QED
  BY <1>1, Invariance, PTL

\* The stock of a parcel that is still out is not on sale.
THEOREM StockHeld == Spec => []StockHeldUntilInspected
<1>1. Inductive => StockHeldUntilInspected
  BY DEF Inductive, TypeOK, OrderType, StockInv, ClaimInv, ReleaseInv, StockHeldUntilInspected
<1> QED
  BY <1>1, Invariance, PTL

\* The cancellation record and its order tell the same story.
THEOREM RecordCorrect == Spec => []RecordMatchesOrder
<1>1. Inductive => RecordMatchesOrder
  BY DEF Inductive, RecordInv, CompensationInv, FollowedUpInv, RecordMatchesOrder
<1> QED
  BY <1>1, Invariance, PTL

\* An order that was settled keeps its goods out: nobody gives them back, before or
\* after, whoever settled it and when.
THEOREM SettlementCorrect == Spec => []SettledOrGivenBack
<1>1. Inductive => SettledOrGivenBack
  <2> SUFFICES ASSUME Inductive, settlement = "applied"
               PROVE  SettledOrGivenBack
    BY DEF SettledOrGivenBack
  <2>1. order.workflowStatus = "DELIVERED"
    BY DEF Inductive, DeliveredInv
  <2>2. order.reservation = "HELD"
    BY <2>1 DEF Inductive, TypeOK, OrderType, StockInv, ReleaseInv
  <2>3. unitsBack = 0 /\ ~Compensating
    BY <2>1, <2>2 DEF Inductive, StockInv, ClaimInv, ReleaseInv, Compensating
  <2>4. record.status \notin OrderCancelledStatuses
    BY <2>1 DEF Inductive, RecordInv
  <2> QED
    BY <2>1, <2>2, <2>3, <2>4 DEF SettledOrGivenBack
<1> QED
  BY <1>1, Invariance, PTL

\* Delivered and cancelled orders stay what they are.
THEOREM FinalityCorrect == Spec => TerminalIsFinal
<1>1. Inductive /\ [Next]_vars =>
        [order.workflowStatus \in {"DELIVERED", "CANCELLED"}
           => order'.workflowStatus = order.workflowStatus]_vars
  BY FinalStep DEF Inductive
<1> QED
  BY <1>1, Invariance, PTL DEF Spec, TerminalIsFinal
=============================================================================
