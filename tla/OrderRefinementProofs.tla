----------------------- MODULE OrderRefinementProofs -----------------------
(***************************************************************************)
(* OrderLifecycle implements OrderPromise: every handler is one of the     *)
(* promised moves of the order, or changes nothing that can be seen from   *)
(* outside.  The inductive invariant of OrderLifecycleProofs says which.   *)
(***************************************************************************)
EXTENDS OrderLifecycleProofs

\* What is seen of an order does not change.
Unseen == UNCHANGED <<Phase, order.deliveryBoy, unitsBack>>

\* A placed order is one of OrderPromise.
LEMMA PromiseInitially == Init => Promise!Init
  BY DEF Init, NewOrders, Placed, Promise!Init, Phase

\* While an order is not over, it has given nothing back.
LEMMA NothingBackYet ==
  ASSUME Inductive, order.workflowStatus # "CANCELLED"
  PROVE  unitsBack = 0
  BY DEF Inductive, TypeOK, OrderType, StockInv, ClaimInv, ReleaseInv

\* A canceller's commit is the promised Cancel, its units still to come back.
LEMMA CancelFirstPromise ==
  ASSUME Inductive, NEW canceller \in Cancellers, CancelFirst(canceller),
         order.workflowStatus \in {"CREATED", "SELLER_PENDING", "DELIVERY_SEARCH"}
  PROVE  Promise!Cancel
<1>1. /\ order'.workflowStatus = "CANCELLED" /\ ~order'.pickedUp
      /\ order'.deliveryBoy = order.deliveryBoy
  BY DEF Inductive, TypeOK, OrderType, OrderInv, PickedUpInv, CancelFirst, MovedTo
<1>2. Phase \in {"placed", "accepted"} /\ Phase' = "cancelled"
  BY <1>1 DEF Phase
<1>3. unitsBack' = 0
  BY NothingBackYet DEF CancelFirst
<1> QED
  BY <1>1, <1>2, <1>3 DEF Promise!Cancel, Promise!Move

\* A cancellation that restocks in its own transaction is the promised Cancel too.
LEMMA CancelAtOncePromise ==
  ASSUME Inductive, order.workflowStatus \notin {"OUT_FOR_DELIVERY", "DELIVERED", "CANCELLED"},
         order'.workflowStatus = "CANCELLED", ~order'.pickedUp,
         order'.deliveryBoy = order.deliveryBoy, unitsBack' = Qty
  PROVE  Promise!Cancel
<1>1. Phase \in {"placed", "accepted", "assigned"} /\ Phase' = "cancelled"
  BY DEF Phase, Inductive, TypeOK, OrderType, WorkflowStatus
<1> QED
  BY <1>1 DEF Promise!Cancel, Promise!Move

\* Every step of the code is a promised move or is not seen.
LEMMA PromiseStep ==
  ASSUME Inductive, [Next]_vars
  PROVE  Promise!Next \/ Unseen
<1> USE QtyAssumption
<1> USE DEF Promise!Move
<1>0. order \in OrderType /\ TypeOK
  BY DEF Inductive, TypeOK
<1>1. CASE PaymentStep
  <2>1. CASE CapturePayment
    BY <2>1, <1>0 DEF CapturePayment, OrderType, Unseen, Phase
  <2>2. CASE OtherAttemptUpdate \/ moveOrderToSellerPendingAfterPayment
    BY <2>2, <1>0 DEF OtherAttemptUpdate, moveOrderToSellerPendingAfterPayment,
                      OrderType, Unseen, Phase
  <2>3. CASE PaymentTimeout
    BY <2>3, CancelFirstPromise DEF PaymentTimeout, Cancellers, Promise!Next
  <2>4. CASE PaymentFailed /\ order.workflowStatus = "CREATED"
    <3>1. /\ order'.workflowStatus = "CANCELLED" /\ ~order'.pickedUp
          /\ order'.deliveryBoy = order.deliveryBoy
      BY <2>4, <1>0 DEF PaymentFailed, MovedTo, OrderType, Inductive, OrderInv, PickedUpInv
    <3>2. unitsBack' = Qty
      BY <2>4, NothingBackYet, <1>0
         DEF PaymentFailed, OrderType, Inductive, StockInv, ReleaseInv
    <3> QED
      BY <2>4, <3>1, <3>2, CancelAtOncePromise DEF Promise!Next
  <2>5. CASE PaymentFailed /\ order.workflowStatus # "CREATED"
    BY <2>5 DEF PaymentFailed, Unseen, Phase
  <2> QED
    BY <1>1, <2>1, <2>2, <2>3, <2>4, <2>5 DEF PaymentStep
<1>2. CASE SellerStep
  <2>1. CASE sellerReject
    BY <2>1, CancelFirstPromise DEF sellerReject, Cancellers, Promise!Next
  <2>2. CASE sellerAccept
    <3>1. /\ order'.workflowStatus = "DELIVERY_SEARCH"
          /\ order'.deliveryBoy = order.deliveryBoy
      BY <2>2, <1>0 DEF sellerAccept, MovedTo, OrderType
    <3> QED
      BY <2>2, <3>1 DEF sellerAccept, Phase, Promise!Accept, Promise!Next
  <2>3. CASE sellerMarkReady \/ LabelPacked
    BY <2>3, <1>0 DEF sellerMarkReady, LabelPacked, OrderType, Unseen, Phase
  <2> QED
    BY <1>2, <2>1, <2>2, <2>3 DEF SellerStep
<1>3. CASE SearchStep
  <2>1. ASSUME NEW r \in Riders, deliveryAccept(r)
        PROVE  Promise!Assign(r)
    <3>1. order'.workflowStatus = "DELIVERY_ASSIGNED" /\ order'.deliveryBoy = r
      BY <2>1, <1>0 DEF deliveryAccept, MovedTo, OrderType
    <3> QED
      BY <2>1, <3>1 DEF deliveryAccept, Phase, Promise!Assign
  <2>2. ASSUME NEW r \in Riders, skipOrder(r)
        PROVE  Unseen
    BY <2>2, <1>0 DEF skipOrder, OrderType, Unseen, Phase
  <2>3. ASSUME NEW w \in Workers, ReadSearchTimeout(w) \/ MissedSearch(w) \/ WidenSearch(w)
        PROVE  Unseen
    BY <2>3, <1>0 DEF ReadSearchTimeout, MissedSearch, WidenSearch, OrderType, Unseen, Phase
  <2>4. ASSUME NEW w \in Workers, GiveUpSearch(w)
        PROVE  Promise!Cancel
    BY <2>4, CancelFirstPromise DEF GiveUpSearch, Cancellers
  <2> QED
    BY <1>3, <2>1, <2>2, <2>3, <2>4 DEF SearchStep, Promise!Next
<1>4. CASE DeadlineStep
  <2>1. CASE SellerDeadline \/ SearchDeadline
    BY <2>1 DEF SellerDeadline, SearchDeadline, Unseen, Phase
  <2>2. CASE processSellerTimeoutJob
    BY <2>2, CancelFirstPromise DEF processSellerTimeoutJob, Cancellers, Promise!Next
  <2> QED
    BY <1>4, <2>1, <2>2 DEF DeadlineStep
<1>5. CASE HandOverStep
  <2>1. CASE markArrivedAtStore
    BY <2>1, <1>0 DEF markArrivedAtStore, MovedTo, OrderType, Unseen, Phase
  <2>2. CASE confirmPickup
    <3>1. /\ order'.workflowStatus = "OUT_FOR_DELIVERY"
          /\ order'.deliveryBoy = order.deliveryBoy
      BY <2>2, <1>0 DEF confirmPickup, MovedTo, OrderType
    <3> QED
      BY <2>2, <3>1 DEF confirmPickup, Phase, Promise!Collect, Promise!Next
  <2>3. ASSUME NEW r \in Riders, FinishHandOver(r)
        PROVE  Promise!Deliver \/ Unseen
    <3>1. CASE order.workflowStatus = "OUT_FOR_DELIVERY" /\ order.deliveryBoy = r
      <4>1. order'.workflowStatus = "DELIVERED" /\ order'.deliveryBoy = order.deliveryBoy
        BY <2>3, <3>1, <1>0 DEF FinishHandOver, MovedTo, OrderType
      <4> QED
        BY <2>3, <3>1, <4>1 DEF FinishHandOver, Phase, Promise!Deliver
    <3>2. CASE ~(order.workflowStatus = "OUT_FOR_DELIVERY" /\ order.deliveryBoy = r)
      BY <2>3, <3>2 DEF FinishHandOver, Unseen, Phase
    <3> QED
      BY <3>1, <3>2
  <2>4. CASE onOrderDelivered
    <3>1. order.workflowStatus = "DELIVERED" /\ UNCHANGED <<order, unitsBack>>
      BY <2>4 DEF onOrderDelivered, transferToDispute, Decide, Inductive, DeliveredInv
    <3> QED
      BY <3>1 DEF Unseen, Phase
  <2>5. CASE UNCHANGED <<order, record, unitsBack>>
    BY <2>5 DEF Unseen, Phase
  <2> QED
    BY <1>5, <2>1, <2>2, <2>3, <2>4, <2>5
       DEF HandOverStep, requestHandoffOtp, OtpDies, ConsumeOtp, Promise!Next
<1>6. CASE CompensationStep
  <2>1. ASSUME NEW c \in Cancellers, ClaimRelease(c)
        PROVE  Unseen
    BY <2>1, <1>0 DEF ClaimRelease, OrderType, Unseen, Phase
  <2>2. ASSUME NEW c \in Cancellers, RestockUnit(c)
        PROVE  Promise!GiveBack
    <3>1. order.workflowStatus = "CANCELLED" /\ ~order.pickedUp
      BY <2>2 DEF RestockUnit, Inductive, StockInv, ReleaseInv
    <3>2. Phase = "cancelled" /\ UNCHANGED <<Phase, order>>
      BY <2>2, <3>1 DEF RestockUnit, Phase
    <3>3. unitsBack' \in (unitsBack + 1) .. Qty
      BY <2>2, <1>0 DEF RestockUnit, TypeOK, Inductive, StockInv, ClaimInv
    <3> QED
      BY <3>2, <3>3 DEF Promise!GiveBack
  <2>3. ASSUME NEW c \in Cancellers, recordExternalCancellation(c)
        PROVE  Unseen
    BY <2>3 DEF recordExternalCancellation, Inductive, RecordInv, Unseen, Phase
  <2> QED
    BY <1>6, <2>1, <2>2, <2>3 DEF CompensationStep, Promise!Next
<1>7. CASE CancellationStep
  <2>1. CASE executeDirectCancellation
    <3>1. /\ order.workflowStatus \notin {"OUT_FOR_DELIVERY", "DELIVERED", "CANCELLED"}
          /\ ~order.pickedUp
      BY <2>1, <1>0, StageBeforePickup DEF executeDirectCancellation
    <3>2. /\ order'.workflowStatus = "CANCELLED" /\ ~order'.pickedUp
          /\ order'.deliveryBoy = order.deliveryBoy
      BY <2>1, <3>1, <1>0 DEF executeDirectCancellation, MovedTo, OrderType
    <3>3. unitsBack' = Qty
      BY <2>1, <3>1, <1>0, NothingBackYet
         DEF executeDirectCancellation, OrderType, Inductive, StockInv, ReleaseInv
    <3> QED
      BY <3>1, <3>2, <3>3, CancelAtOncePromise DEF Promise!Next
  <2>2. CASE approvePostPickupCancellation
    <3>1. order.workflowStatus = "OUT_FOR_DELIVERY" /\ order.pickedUp
      BY <2>2, <1>0, StagePickedUp DEF approvePostPickupCancellation, Inductive, OrderInv
    <3>2. /\ order'.workflowStatus = "CANCELLED" /\ order'.pickedUp
          /\ order'.deliveryBoy = order.deliveryBoy
      BY <2>2, <3>1, <1>0 DEF approvePostPickupCancellation, MovedTo, OrderType
    <3>3. record'.inventory # "INSPECTED" /\ unitsBack' = unitsBack
      BY <2>2 DEF approvePostPickupCancellation
    <3> QED
      BY <3>1, <3>2, <3>3 DEF Phase, Promise!Recall, Promise!Next
  <2>3. CASE inspectReturnedParcel
    <3>1. /\ order.workflowStatus = "CANCELLED" /\ order.pickedUp
          /\ order.reservation = "HELD" /\ unitsBack = 0
      BY <2>3, <1>0 DEF inspectReturnedParcel, OrderType, Inductive, StockInv, ClaimInv, ReleaseInv
    <3>2. /\ order'.workflowStatus = "CANCELLED" /\ order'.pickedUp
          /\ order'.deliveryBoy = order.deliveryBoy
      BY <2>3, <3>1, <1>0 DEF inspectReturnedParcel, OrderType
    <3>3. record.inventory # "INSPECTED" /\ record'.inventory = "INSPECTED"
      BY <2>3, <1>0 DEF inspectReturnedParcel, TypeOK, RecordType
    <3>4. unitsBack' \in 0 .. Qty
      BY <2>3, <3>1 DEF inspectReturnedParcel
    <3>5. Phase = "recalled" /\ Phase' = "inspected"
      BY <3>1, <3>2, <3>3 DEF Phase
    <3> QED
      BY <3>2, <3>4, <3>5 DEF Promise!Inspect, Promise!Next
  <2>4. CASE createCancellationRequest
    BY <2>4, <1>0, StagePickedUp DEF createCancellationRequest, Inductive, OrderInv, Unseen, Phase
  <2>5. CASE withdrawCancellationRequest \/ markUnderReview \/ rejectCancellationRequest
                \/ transferToDispute
    <3>1. /\ record.status \in OpenRequest
          /\ UNCHANGED <<order, unitsBack>>
      BY <2>5 DEF withdrawCancellationRequest, markUnderReview, rejectCancellationRequest,
                  transferToDispute, Decide, OpenRequest
    <3>2. order.pickedUp /\ order.workflowStatus # "CANCELLED"
      BY <3>1 DEF Inductive, RecordInv
    <3>3. order.workflowStatus \in {"OUT_FOR_DELIVERY", "DELIVERED"}
      BY <3>2 DEF Inductive, OrderInv, PickedUpInv
    <3> QED
      BY <3>1, <3>3 DEF Unseen, Phase
  <2>6. CASE confirmParcelReturned
    BY <2>6, <1>0 DEF confirmParcelReturned, TypeOK, RecordType, Inductive, StockInv, ReleaseInv,
                      Unseen, Phase
  <2> QED
    BY <1>7, <2>1, <2>2, <2>3, <2>4, <2>5, <2>6
       DEF CancellationStep, CustomerCancel, AdminCancel, ApproveDelivered
<1>8. CASE ApiCrash \/ WorkerCrash \/ UNCHANGED vars
  BY <1>8 DEF ApiCrash, WorkerCrash, vars, Unseen, Phase
<1>9. CASE SettlementStep
  <2>1. UNCHANGED <<record, unitsBack>>
    BY <1>9, SettlementEffect
  <2>2. CASE Settle
    <3>1. /\ order'.workflowStatus = "DELIVERED" /\ order'.deliveryBoy = order.deliveryBoy
          /\ order.workflowStatus # "CANCELLED"
      BY <2>2, <1>0, SettleOrder
    <3>2. Phase \in {"placed", "accepted", "assigned", "carried", "delivered"}
      BY <3>1, <1>0 DEF Phase, OrderType, WorkflowStatus
    <3>3. Phase' = "delivered"
      BY <3>1 DEF Phase
    <3> QED
      BY <2>1, <3>1, <3>2, <3>3 DEF Promise!Deliver, Promise!Declare, Promise!Next, Unseen
  <2>3. ASSUME NEW r \in Riders, handleCodOrderFinance(r)
        PROVE  Promise!Attribute(r)
    <3>1. /\ order.workflowStatus = "DELIVERED" /\ order'.workflowStatus = "DELIVERED"
          /\ order.deliveryBoy = NoRider /\ order'.deliveryBoy = r
      BY <2>3, <1>0, AttributedOrder DEF Inductive, OrderInv
    <3>2. Phase = "delivered" /\ Phase' = "delivered"
      BY <3>1 DEF Phase
    <3> QED
      BY <2>1, <3>1, <3>2 DEF Promise!Attribute
  <2>4. CASE UNCHANGED order
    BY <2>1, <2>4 DEF Unseen, Phase
  <2> QED
    BY <1>9, <2>2, <2>3, <2>4, SettlementEffect DEF Promise!Next
<1> QED
  BY <1>1, <1>2, <1>3, <1>4, <1>5, <1>6, <1>7, <1>8, <1>9 DEF Next

\* The backend's handling of an order implements the abstract promise.
THEOREM PromiseKept == Spec => KeepsPromise
<1>1. Inductive /\ [Next]_vars => [Promise!Next]_(Promise!vars)
  BY PromiseStep DEF Unseen, Promise!vars
<1> QED
  BY <1>1, PromiseInitially, Invariance, PTL DEF Spec, KeepsPromise, Promise!Spec
=============================================================================
