---------------------------- MODULE OrderOverride ----------------------------
(***************************************************************************)
(* OrderLifecycle together with PUT /orders/status/:orderId, the one       *)
(* handler that does not repeat what it read: updateOrderStatus loads the  *)
(* order, checks it, and saves the fields that it changed on the loaded    *)
(* copy.  Whatever committed in between is overwritten.                    *)
(***************************************************************************)
EXTENDS OrderLifecycle

CONSTANT MaxOverrides   \* bound on the requests made

ASSUME OverridesAssumption == MaxOverrides \in Nat

VARIABLES
  loaded,      \* what the request in progress read of the order
  overrides    \* requests made so far

overrideVars == <<vars, loaded, overrides>>

NoRequest == [role |-> "none"]

workflowFromLegacyStatus(s) ==
  CASE s = "pending" -> "SELLER_PENDING"
    [] s = "confirmed" -> "DELIVERY_SEARCH"
    [] s = "packed" -> "DELIVERY_ASSIGNED"
    [] s = "out_for_delivery" -> "OUT_FOR_DELIVERY"
    [] s = "delivered" -> "DELIVERED"
    [] s = "cancelled" -> "CANCELLED"

\* Requests that name a rider but no status leave these fields alone.
LoadForUpdate(role) ==
  /\ loaded = NoRequest
  /\ overrides < MaxOverrides
  /\ overrides' = overrides + 1
  /\ loaded' = [role |-> role, status |-> order.status,
                workflowStatus |-> order.workflowStatus, deliveryBoy |-> order.deliveryBoy]
  /\ UNCHANGED vars

\* Saving writes only what differs from the copy that was loaded.
Overwrite(field, was, is) == IF is = was THEN field ELSE is

\* A status that is asked for is refused if the copy is cancelled.  What is left
\* of a seller's choices here is "pending", for an order still pending; "cancelled"
\* goes elsewhere.  A new "delivered" goes on to settlement and to the hook.
SaveStatus(status) ==
  /\ loaded # NoRequest
  /\ loaded.status # "cancelled" /\ loaded.workflowStatus # "CANCELLED"
  /\ loaded.role = "seller" => status = "pending" /\ loaded.status = "pending"
  /\ \E rider \in {loaded.deliveryBoy} \cup (IF loaded.role = "admin" THEN Riders ELSE {}) :
       order' = [order EXCEPT
                   !.status = Overwrite(@, loaded.status, status),
                   !.workflowStatus =
                      Overwrite(@, loaded.workflowStatus, workflowFromLegacyStatus(status)),
                   !.deliveryBoy = Overwrite(@, loaded.deliveryBoy, rider)]
  /\ afterDelivery' = IF status = "delivered" /\ loaded.status # "delivered"
                        THEN "settle" ELSE afterDelivery
  /\ loaded' = NoRequest
  /\ UNCHANGED <<record, unitsBack, due, otp, handOver, timeoutRead, followUp, settlement,
                 crashes, overrides>>

\* deliveryBoyId without a status: operations name another rider, of any order.
SaveRider(rider) ==
  /\ loaded # NoRequest /\ loaded.role = "admin"
  /\ order' = [order EXCEPT !.deliveryBoy = Overwrite(@, loaded.deliveryBoy, rider)]
  /\ loaded' = NoRequest
  /\ UNCHANGED <<record, unitsBack, due, otp, handOver, timeoutRead, followUp,
                 afterDelivery, settlement, crashes, overrides>>

OverrideInit == Init /\ loaded = NoRequest /\ overrides = 0

OverrideNext ==
  \/ \E role \in {"admin", "seller"} : LoadForUpdate(role)
  \/ \E status \in LegacyStatus \ {"cancelled"} : SaveStatus(status)
  \/ \E rider \in Riders : SaveRider(rider)
  \/ Next /\ UNCHANGED <<loaded, overrides>>

OverrideSpec == OverrideInit /\ [][OverrideNext]_overrideVars

-----------------------------------------------------------------------------
(* Properties *)

\* Even when an override brings a cancelled order back to life, to be cancelled,
\* inspected or rejected once more, its units come back at most once: the
\* reservation is claimed before anything is restocked, and never held again.
UnitsComeBackOnce ==
  /\ unitsBack <= Qty
  /\ order.reservation = "HELD" => unitsBack = 0
  /\ \A c, d \in Cancellers : followUp[c] = "restock" /\ followUp[d] = "restock" => c = d

\* "A cancelled order is final: no status change may reactivate it"
\* (controller/orderController.js:389).  The check is made on the loaded copy only.
CancelledIsFinal ==
  [][order.workflowStatus = "CANCELLED" => order'.workflowStatus = "CANCELLED"]_overrideVars
=============================================================================
