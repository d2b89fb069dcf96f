------------------------ MODULE OrderOverrideProofs -------------------------
(***************************************************************************)
(* What is left of OrderLifecycle's promises when updateOrderStatus may    *)
(* save an old copy of the order, for any number of overrides: the shapes, *)
(* and the claim on the reservation, which no override writes.  The stages *)
(* and the parcel, which OrderLifecycleProofs builds on, are no longer     *)
(* what they seem, so the claim is proved here from the reservation alone. *)
(***************************************************************************)
EXTENDS OrderOverride, OrderLifecycleProofs

\* What a request in progress has read.
Loads == [role : {"admin", "seller"}, status : LegacyStatus,
          workflowStatus : WorkflowStatus, deliveryBoy : Riders \cup {NoRider}]

LoadedType == loaded \in Loads \cup {NoRequest}

OverrideInductive == TypeOK /\ LoadedType /\ ClaimInv

-----------------------------------------------------------------------------
(* The steps of OrderLifecycle *)

\* A step that changes neither the units nor who restocks.
LEMMA ClaimUntouched ==
  ASSUME ClaimInv, order'.reservation = order.reservation, unitsBack' = unitsBack,
         \A c \in Cancellers : followUp'[c] = "restock" => followUp[c] = "restock"
  PROVE  ClaimInv'
  BY DEF ClaimInv

\* A canceller's commit claims nothing yet.
LEMMA CancelFirstClaim ==
  ASSUME TypeOK, ClaimInv, NEW canceller \in Cancellers, CancelFirst(canceller)
  PROVE  ClaimInv'
<1>1. order'.reservation = order.reservation
  BY DEF TypeOK, OrderType, CancelFirst, MovedTo
<1>2. \A c \in Cancellers : followUp'[c] = "restock" => followUp[c] = "restock"
  BY DEF TypeOK, CancelFirst
<1> QED
  BY <1>1, <1>2, ClaimUntouched DEF CancelFirst

\* Whoever finds the reservation held gives back what it took, at most, and leaves
\* it released.
LEMMA ReleaseClaim ==
  ASSUME TypeOK, ClaimInv, order'.reservation = "RELEASED", UNCHANGED followUp,
         unitsBack' = unitsBack \/ order.reservation = "HELD"
  PROVE  ClaimInv'
  BY DEF TypeOK, ClaimInv

\* The claim stays exclusive, whatever an override made of the order's stage.
LEMMA ClaimStep ==
  ASSUME TypeOK, ClaimInv, [Next]_vars
  PROVE  ClaimInv'
<1>0. order \in OrderType /\ followUp \in [Cancellers -> FollowUpSteps]
  BY DEF TypeOK
<1>1. CASE PaymentStep
  <2>1. CASE CapturePayment
    <3>1. order'.reservation = order.reservation
      BY <1>0, <2>1 DEF CapturePayment, OrderType
    <3>2. \A c \in Cancellers : followUp'[c] = "restock" => followUp[c] = "restock"
      BY <1>0, <2>1 DEF CapturePayment
    <3> QED
      BY <2>1, <3>1, <3>2, ClaimUntouched DEF CapturePayment
  <2>2. CASE OtherAttemptUpdate \/ moveOrderToSellerPendingAfterPayment
    BY <1>0, <2>2, ClaimUntouched
       DEF OtherAttemptUpdate, moveOrderToSellerPendingAfterPayment, OrderType
  <2>3. CASE PaymentTimeout
    BY <2>3, CancelFirstClaim DEF PaymentTimeout, Cancellers
  <2>4. CASE PaymentFailed
    <3>1. \A c \in Cancellers : followUp'[c] = "restock" => followUp[c] = "restock"
      BY <1>0, <2>4 DEF PaymentFailed
    <3>2. CASE order.workflowStatus = "CREATED"
      <4>1. order'.reservation = "RELEASED"
        BY <1>0, <2>4, <3>2 DEF PaymentFailed, OrderType, MovedTo
      <4>2. unitsBack' = IF order.reservation = "RELEASED" THEN unitsBack ELSE unitsBack + Qty
        BY <2>4, <3>2 DEF PaymentFailed
      <4>3. order.reservation \in {"HELD", "RELEASED"}
        BY <1>0 DEF OrderType
      <4> QED
        BY <3>1, <4>1, <4>2, <4>3 DEF ClaimInv
    <3>3. CASE order.workflowStatus # "CREATED"
      BY <2>4, <3>1, <3>3, ClaimUntouched DEF PaymentFailed
    <3> QED
      BY <3>2, <3>3
  <2> QED
    BY <1>1, <2>1, <2>2, <2>3, <2>4 DEF PaymentStep
<1>2. CASE SellerStep
  <2>1. CASE sellerReject
    BY <2>1, CancelFirstClaim DEF sellerReject, Cancellers
  <2>2. CASE sellerAccept \/ sellerMarkReady \/ LabelPacked
    BY <1>0, <2>2, ClaimUntouched DEF sellerAccept, sellerMarkReady, LabelPacked, OrderType, MovedTo
  <2> QED
    BY <1>2, <2>1, <2>2 DEF SellerStep
<1>3. CASE SearchStep
  <2>1. CASE \E r \in Riders : deliveryAccept(r) \/ skipOrder(r)
    BY <1>0, <2>1, ClaimUntouched DEF deliveryAccept, skipOrder, OrderType, MovedTo
  <2>2. CASE \E w \in Workers : ReadSearchTimeout(w) \/ WidenSearch(w) \/ MissedSearch(w)
    BY <1>0, <2>2, ClaimUntouched DEF ReadSearchTimeout, WidenSearch, MissedSearch, OrderType
  <2>3. CASE \E w \in Workers : GiveUpSearch(w)
    BY <2>3, CancelFirstClaim DEF GiveUpSearch, Cancellers
  <2> QED
    BY <1>3, <2>1, <2>2, <2>3 DEF SearchStep
<1>4. CASE DeadlineStep
  <2>1. CASE processSellerTimeoutJob
    BY <2>1, CancelFirstClaim DEF processSellerTimeoutJob, Cancellers
  <2>2. CASE SellerDeadline \/ SearchDeadline
    BY <2>2, ClaimUntouched DEF SellerDeadline, SearchDeadline
  <2> QED
    BY <1>4, <2>1, <2>2 DEF DeadlineStep
<1>5. CASE HandOverStep
  <2>1. CASE markArrivedAtStore \/ confirmPickup \/ \E r \in Riders : FinishHandOver(r)
    BY <1>0, <2>1, ClaimUntouched
       DEF markArrivedAtStore, confirmPickup, FinishHandOver, OrderType, MovedTo
  <2>2. CASE requestHandoffOtp \/ OtpDies \/ \E r \in Riders : ConsumeOtp(r)
    BY <2>2, ClaimUntouched DEF requestHandoffOtp, OtpDies, ConsumeOtp
  <2>3. CASE onOrderDelivered
    BY <2>3, ClaimUntouched DEF onOrderDelivered, transferToDispute, Decide
  <2> QED
    BY <1>5, <2>1, <2>2, <2>3 DEF HandOverStep
<1>6. CASE CompensationStep
  <2>1. ASSUME NEW c \in Cancellers, ClaimRelease(c)
        PROVE  ClaimInv'
    <3>1. order'.reservation = "RELEASED" /\ unitsBack' = unitsBack
      BY <1>0, <2>1 DEF ClaimRelease, OrderType
    <3>2. CASE order.reservation = "RELEASED"
      <4>1. \A d \in Cancellers : followUp'[d] = "restock" => followUp[d] = "restock"
        BY <1>0, <2>1, <3>2 DEF ClaimRelease
      <4> QED
        BY <3>1, <3>2, <4>1, ClaimUntouched
    <3>3. CASE order.reservation # "RELEASED"
      <4>1. order.reservation = "HELD"
        BY <1>0, <3>3 DEF OrderType
      <4>2. \A d \in Cancellers : followUp'[d] = "restock" => d = c
        BY <1>0, <2>1, <4>1 DEF ClaimRelease, ClaimInv
      <4>3. unitsBack' < Qty
        BY <3>1, <4>1, QtyAssumption DEF ClaimInv
      <4> QED
        BY <3>1, <4>2, <4>3 DEF ClaimInv
    <3> QED
      BY <3>2, <3>3
  <2>2. ASSUME NEW c \in Cancellers, RestockUnit(c)
        PROVE  ClaimInv'
    <3>1. order.reservation # "HELD" /\ order' = order /\ unitsBack' = unitsBack + 1
      BY <2>2 DEF RestockUnit, ClaimInv
    <3>2. \A d \in Cancellers : followUp'[d] = "restock" => d = c /\ unitsBack' < Qty
      BY <1>0, <2>2 DEF RestockUnit, ClaimInv
    <3> QED
      BY <3>1, <3>2 DEF ClaimInv
  <2>3. ASSUME NEW c \in Cancellers, recordExternalCancellation(c)
        PROVE  ClaimInv'
    <3>1. \A d \in Cancellers : followUp'[d] = "restock" => followUp[d] = "restock"
      BY <1>0, <2>3 DEF recordExternalCancellation
    <3> QED
      BY <2>3, <3>1, ClaimUntouched DEF recordExternalCancellation
  <2> QED
    BY <1>6, <2>1, <2>2, <2>3 DEF CompensationStep
<1>7. CASE CancellationStep
  <2>1. CASE CustomerCancel \/ AdminCancel
    <3>1. executeDirectCancellation
      BY <2>1 DEF CustomerCancel, AdminCancel
    <3>2. order'.reservation = "RELEASED"
      BY <1>0, <3>1 DEF executeDirectCancellation, OrderType, MovedTo
    <3>3. order.reservation \in {"HELD", "RELEASED"}
      BY <1>0 DEF OrderType
    <3>4. unitsBack' = unitsBack \/ order.reservation = "HELD"
      BY <3>1, <3>3 DEF executeDirectCancellation
    <3> QED
      BY <3>1, <3>2, <3>4, ReleaseClaim DEF executeDirectCancellation
  <2>2. CASE createCancellationRequest \/ withdrawCancellationRequest \/ markUnderReview
             \/ rejectCancellationRequest \/ ApproveDelivered \/ confirmParcelReturned
    BY <2>2, ClaimUntouched
       DEF createCancellationRequest, withdrawCancellationRequest, markUnderReview,
           rejectCancellationRequest, ApproveDelivered, transferToDispute, Decide,
           confirmParcelReturned
  <2>3. CASE approvePostPickupCancellation
    BY <1>0, <2>3, ClaimUntouched DEF approvePostPickupCancellation, OrderType, MovedTo
  <2>4. CASE inspectReturnedParcel
    <3>1. order'.reservation = "RELEASED" /\ order.reservation = "HELD"
      BY <1>0, <2>4 DEF inspectReturnedParcel, OrderType
    <3> QED
      BY <2>4, <3>1, ReleaseClaim DEF inspectReturnedParcel
  <2> QED
    BY <1>7, <2>1, <2>2, <2>3, <2>4 DEF CancellationStep
<1>8. CASE ApiCrash \/ WorkerCrash
  <2>1. \A c \in Cancellers : followUp'[c] = "restock" => followUp[c] = "restock"
    BY <1>0, <1>8 DEF ApiCrash, WorkerCrash
  <2> QED
    BY <1>8, <2>1, ClaimUntouched DEF ApiCrash, WorkerCrash
<1>9. CASE UNCHANGED vars
  BY <1>9, ClaimUntouched DEF vars
<1>10. CASE SettlementStep
  <2>1. order'.reservation = order.reservation
    BY <1>0, <1>10, SettlementEffect, SettleOrder DEF handleCodOrderFinance, OrderType
  <2> QED
    BY <1>10, <2>1, SettlementEffect, ClaimUntouched
<1> QED
  BY <1>1, <1>2, <1>3, <1>4, <1>5, <1>6, <1>7, <1>8, <1>9, <1>10 DEF Next

-----------------------------------------------------------------------------
(* The steps of an override *)

\* Every legacy status stands for a workflow status.
LEMMA WorkflowStatusType ==
  ASSUME NEW s \in LegacyStatus
  PROVE  workflowFromLegacyStatus(s) \in WorkflowStatus
  BY DEF workflowFromLegacyStatus, WorkflowStatus, LegacyStatus

\* A saved copy leaves the reservation, the units and the cancellers alone.
LEMMA SavedClaim ==
  ASSUME TypeOK, ClaimInv, NEW status \in LegacyStatus, NEW ws \in WorkflowStatus,
         NEW rider \in Riders \cup {NoRider},
         order' = [order EXCEPT !.status = status, !.workflowStatus = ws, !.deliveryBoy = rider],
         UNCHANGED <<unitsBack, followUp>>
  PROVE  order' \in OrderType /\ ClaimInv'
<1>1. order' \in OrderType /\ order'.reservation = order.reservation
  BY DEF TypeOK, OrderType
<1> QED
  BY <1>1, ClaimUntouched

LEMMA OverrideStep ==
  ASSUME OverrideInductive, [OverrideNext]_overrideVars
  PROVE  OverrideInductive'
<1>0. TypeOK /\ LoadedType /\ ClaimInv
  BY DEF OverrideInductive
<1>1. ASSUME NEW role \in {"admin", "seller"}, LoadForUpdate(role)
      PROVE  OverrideInductive'
  <2>1. TypeOK' /\ ClaimInv'
    BY <1>0, <1>1 DEF LoadForUpdate, vars, TypeOK, ClaimInv
  <2>2. LoadedType'
    BY <1>0, <1>1 DEF LoadForUpdate, LoadedType, Loads, TypeOK, OrderType
  <2> QED
    BY <2>1, <2>2 DEF OverrideInductive
<1>2. ASSUME NEW status \in LegacyStatus \ {"cancelled"}, SaveStatus(status)
      PROVE  OverrideInductive'
  <2>1. loaded \in Loads
    BY <1>0, <1>2 DEF SaveStatus, LoadedType
  <2>2. PICK rider \in {loaded.deliveryBoy} \cup (IF loaded.role = "admin" THEN Riders ELSE {}) :
          order' = [order EXCEPT
                      !.status = Overwrite(@, loaded.status, status),
                      !.workflowStatus =
                         Overwrite(@, loaded.workflowStatus, workflowFromLegacyStatus(status)),
                      !.deliveryBoy = Overwrite(@, loaded.deliveryBoy, rider)]
    BY <1>2 DEF SaveStatus
  <2>3. /\ Overwrite(order.status, loaded.status, status) \in LegacyStatus
        /\ Overwrite(order.workflowStatus, loaded.workflowStatus, workflowFromLegacyStatus(status))
             \in WorkflowStatus
        /\ Overwrite(order.deliveryBoy, loaded.deliveryBoy, rider) \in Riders \cup {NoRider}
    BY <1>0, <2>1, WorkflowStatusType DEF Overwrite, Loads, TypeOK, OrderType
  <2>4. order' \in OrderType /\ ClaimInv'
    BY <1>0, <1>2, <2>2, <2>3, SavedClaim DEF SaveStatus
  <2>5. TypeOK'
    BY <1>0, <1>2, <2>4 DEF SaveStatus, TypeOK
  <2> QED
    BY <1>2, <2>4, <2>5 DEF SaveStatus, OverrideInductive, LoadedType
<1>3. ASSUME NEW rider \in Riders, SaveRider(rider)
      PROVE  OverrideInductive'
  <2>1. loaded \in Loads
    BY <1>0, <1>3 DEF SaveRider, LoadedType
  <2>2. Overwrite(order.deliveryBoy, loaded.deliveryBoy, rider) \in Riders \cup {NoRider}
    BY <1>0, <2>1 DEF Overwrite, Loads, TypeOK, OrderType
  <2>3. order' \in OrderType /\ order'.reservation = order.reservation
    BY <1>0, <1>3, <2>2 DEF SaveRider, TypeOK, OrderType
  <2>4. TypeOK'
    BY <1>0, <1>3, <2>3 DEF SaveRider, TypeOK
  <2>5. ClaimInv'
    BY <1>0, <1>3, <2>3, ClaimUntouched DEF SaveRider
  <2> QED
    BY <1>3, <2>4, <2>5 DEF SaveRider, OverrideInductive, LoadedType
<1>4. CASE Next /\ UNCHANGED <<loaded, overrides>>
  BY <1>0, <1>4, TypeStep, ClaimStep DEF OverrideInductive, LoadedType
<1>5. CASE UNCHANGED overrideVars
  BY <1>0, <1>5 DEF overrideVars, vars, OverrideInductive, LoadedType, TypeOK, ClaimInv
<1> QED
  BY <1>1, <1>2, <1>3, <1>4, <1>5 DEF OverrideNext

LEMMA OverrideInitially == OverrideInit => OverrideInductive
<1> SUFFICES ASSUME OverrideInit PROVE OverrideInductive
  OBVIOUS
<1>1. TypeOK /\ ClaimInv
  BY Initially DEF OverrideInit, Inductive, StockInv
<1> QED
  BY <1>1 DEF OverrideInit, OverrideInductive, LoadedType

\* compensateOrderCancellation, executeDirectCancellation, the failed payment and
\* the inspection: however often overrides bring the order back to life, the units
\* of its reservation come back at most once (UnitsComeBackOnce).
THEOREM OverrideUnits == OverrideSpec => []UnitsComeBackOnce
<1>1. OverrideInductive => UnitsComeBackOnce
  BY DEF OverrideInductive, UnitsComeBackOnce, ClaimInv, TypeOK
<1> QED
  BY <1>1, OverrideInitially, OverrideStep, PTL DEF OverrideSpec
=============================================================================
