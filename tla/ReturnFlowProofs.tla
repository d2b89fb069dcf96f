-------------------------- MODULE ReturnFlowProofs --------------------------
(***************************************************************************)
(* Theorems of ReturnFlow, for any order, any number of riders and any     *)
(* number of handlers in flight.  Type correctness is proved first; the    *)
(* money invariant then needs only the few actions that move money.        *)
(***************************************************************************)
EXTENDS ReturnFlow, FiniteSetTheorems, TLAPS

\* What a handler keeps after a read has the fields of Copies.
LEMMA CopyType ==
  /\ Idle \in Copies
  /\ \A op \in Ops : Copy(op) \in Copies
  /\ TypeOK => \A op \in Ops, s \in Statuses : ToStatus(op, s) \in Copies
<1>1. Idle \in Copies
  BY ReturnAssumption DEF Idle, Copies, Ops, Statuses
<1>2. \A op \in Ops : Copy(op) \in Copies
  BY <1>1 DEF Copy, Copies
<1>3. ASSUME TypeOK, NEW op \in Ops, NEW s \in Statuses
      PROVE  ToStatus(op, s) \in Copies
  <2>1. NewStatus(s) \in Statuses
    BY DEF NewStatus, Statuses
  <2> QED BY <2>1, <1>2 DEF ToStatus, Copies
<1> QED BY <1>1, <1>2, <1>3

\* Filling in a field of a copy keeps its type.
LEMMA CopyExcept ==
  ASSUME NEW c \in Copies
  PROVE  /\ \A S \in SUBSET Items : [c EXCEPT !.items = S] \in Copies
         /\ \A r \in Riders \cup {NoRider, Same} : [c EXCEPT !.who = r] \in Copies
         /\ \A n \in 0..MaxSearches : [c EXCEPT !.attempt = n] \in Copies
BY DEF Copies

\* Setting one handler's copy, or outdating the others, keeps the type of h.
LEMMA HandlersType ==
  ASSUME TypeOK, NEW p \in Handlers
  PROVE  /\ \A c \in Copies : [h EXCEPT ![p] = c] \in [Handlers -> Copies]
         /\ Finish(p) => h' \in [Handlers -> Copies]
         /\ \A op \in Ops : GoOn(p, op) => h' \in [Handlers -> Copies]
         /\ Outdate(p) => h' \in [Handlers -> Copies]
<1> USE DEF TypeOK
<1>1. \A c \in Copies : [h EXCEPT ![p] = c] \in [Handlers -> Copies]
  OBVIOUS
<1>2. ASSUME NEW q \in Handlers
      PROVE  [h[q] EXCEPT !.fresh = @ /\ h[q].op \notin {"request", "approve"}] \in Copies
  BY DEF Copies
<1>3. Outdate(p) => h' \in [Handlers -> Copies]
  BY <1>2, CopyType DEF Outdate
<1> QED BY <1>1, <1>3, CopyType DEF Finish, GoOn

\* A read changes nothing but the copy of its handler.
LEMMA ReadType ==
  ASSUME TypeOK, NEW p \in Handlers, NEW c \in Copies, Read(p, c)
  PROVE  TypeOK' /\ UNCHANGED <<order, money>>
<1>1. h' \in [Handlers -> Copies]
  BY HandlersType DEF Read
<1>2. UNCHANGED <<order, autoRelease, otps, money>>
  BY DEF Read
<1> QED BY <1>1, <1>2 DEF TypeOK, order, money

\* A save leaves a status and a rider of the right type.
LEMMA SaveType ==
  ASSUME TypeOK, NEW p \in Handlers
  PROVE  /\ SaveStatus(p) => ret' \in Statuses
         /\ SaveRider(p) => rider' \in Riders \cup {NoRider}
         /\ h[p].items \subseteq Items /\ h[p].attempt \in 0..MaxSearches
BY DEF TypeOK, Copies, SaveStatus, SaveRider





\* A handler that is idle can only read.
LEMMA IdleReads ==
  ASSUME TypeOK, NEW p \in Handlers, h[p] = Idle, Handle(p)
  PROVE  \E c \in Copies : Read(p, c)
<1> USE CopyType
<1>0. \A op : At(p, op) => op = "idle"
  BY DEF At, Idle
<1>1. ASSUME createReturnRequest(p) PROVE \E c \in Copies : Read(p, c)
  <2>1. PICK S \in SUBSET (Items \ asked) : Read(p, [ToStatus("request", "return_requested") EXCEPT !.items = S])
    BY <1>1, <1>0 DEF createReturnRequest
  <2>2. ToStatus("request", "return_requested") \in Copies
    BY DEF Ops, Statuses
  <2>3. [ToStatus("request", "return_requested") EXCEPT !.items = S] \in Copies
    BY <2>2, CopyExcept DEF TypeOK, NewRider
  <2> QED BY <2>1, <2>3
<1>2. ASSUME approveReturn(p) PROVE \E c \in Copies : Read(p, c)
  <2>1. Read(p, [ToStatus("approve", "return_approved") EXCEPT !.who = NewRider(NoRider)])
    BY <1>2, <1>0 DEF approveReturn
  <2>2. ToStatus("approve", "return_approved") \in Copies
    BY DEF Ops, Statuses
  <2>3. [ToStatus("approve", "return_approved") EXCEPT !.who = NewRider(NoRider)] \in Copies
    BY <2>2, CopyExcept DEF TypeOK, NewRider
  <2> QED BY <2>1, <2>3
<1>3. ASSUME rejectReturn(p) PROVE \E c \in Copies : Read(p, c)
  <2>1. Read(p, ToStatus("reject", "return_rejected"))
    BY <1>3, <1>0 DEF rejectReturn
  <2>2. ToStatus("reject", "return_rejected") \in Copies
    BY DEF Ops, Statuses
  <2> QED BY <2>1, <2>2
<1>4. ASSUME assignReturnDelivery(p) PROVE \E c \in Copies : Read(p, c)
  <2>1. PICK r \in Riders \cup {NoRider} : Read(p, [ToStatus(IF r = NoRider THEN "offer" ELSE "assign", "return_pickup_assigned")
              EXCEPT !.who = NewRider(r)])
    BY <1>4, <1>0 DEF assignReturnDelivery
  <2>2. ToStatus(IF r = NoRider THEN "offer" ELSE "assign", "return_pickup_assigned") \in Copies
    BY DEF Ops, Statuses
  <2>3. [ToStatus(IF r = NoRider THEN "offer" ELSE "assign", "return_pickup_assigned")
              EXCEPT !.who = NewRider(r)] \in Copies
    BY <2>2, CopyExcept DEF TypeOK, NewRider
  <2> QED BY <2>1, <2>3
<1>5. ASSUME processReturnPickupTimeout(p) PROVE \E c \in Copies : Read(p, c)
  <2>1. Read(p, [Copy("timeout") EXCEPT !.attempt = search])
    BY <1>5, <1>0 DEF processReturnPickupTimeout
  <2>2. Copy("timeout") \in Copies
    BY DEF Ops, Statuses
  <2>3. [Copy("timeout") EXCEPT !.attempt = search] \in Copies
    BY <2>2, CopyExcept DEF TypeOK, NewRider
  <2> QED BY <2>1, <2>3
<1>6. ASSUME acceptReturnPickup(p) PROVE \E c \in Copies : Read(p, c)
  <2>1. PICK r \in Riders : Read(p, [ToStatus("accept", "return_pickup_assigned") EXCEPT !.who = r])
    BY <1>6, <1>0 DEF acceptReturnPickup
  <2>2. ToStatus("accept", "return_pickup_assigned") \in Copies
    BY DEF Ops, Statuses
  <2>3. [ToStatus("accept", "return_pickup_assigned") EXCEPT !.who = r] \in Copies
    BY <2>2, CopyExcept DEF TypeOK, NewRider
  <2> QED BY <2>1, <2>3
<1>7. ASSUME rejectReturnPickup(p) PROVE \E c \in Copies : Read(p, c)
  <2>1. Read(p, [ToStatus("hand back", "return_approved") EXCEPT !.who = NoRider])
    BY <1>7, <1>0 DEF rejectReturnPickup
  <2>2. ToStatus("hand back", "return_approved") \in Copies
    BY DEF Ops, Statuses
  <2>3. [ToStatus("hand back", "return_approved") EXCEPT !.who = NoRider] \in Copies
    BY <2>2, CopyExcept DEF TypeOK, NewRider
  <2> QED BY <2>1, <2>3
<1>8. ASSUME updateReturnStatus(p) PROVE \E c \in Copies : Read(p, c)
  <2>1. PICK s \in {"return_pickup_assigned", "return_in_transit", "returned"} : Read(p, ToStatus("update", s))
    BY <1>8, <1>0 DEF updateReturnStatus
  <2>2. ToStatus("update", s) \in Copies
    BY DEF Ops, Statuses
  <2> QED BY <2>1, <2>2
<1>9. ASSUME verifyReturnPickupOtp(p) PROVE \E c \in Copies : Read(p, c)
  <2>1. Read(p, ToStatus("pickup", "return_in_transit"))
    BY <1>9, <1>0 DEF verifyReturnPickupOtp
  <2>2. ToStatus("pickup", "return_in_transit") \in Copies
    BY DEF Ops, Statuses
  <2> QED BY <2>1, <2>2
<1>10. ASSUME requestReturnDropOtp(p) PROVE \E c \in Copies : Read(p, c)
  <2>1. Read(p, Copy("arrive"))
    BY <1>10, <1>0 DEF requestReturnDropOtp
  <2>2. Copy("arrive") \in Copies
    BY DEF Ops, Statuses
  <2> QED BY <2>1, <2>2
<1>11. ASSUME verifyReturnDropOtp(p) PROVE \E c \in Copies : Read(p, c)
  <2>1. Read(p, ToStatus("drop", "returned"))
    BY <1>11, <1>0 DEF verifyReturnDropOtp
  <2>2. ToStatus("drop", "returned") \in Copies
    BY DEF Ops, Statuses
  <2> QED BY <2>1, <2>2
<1>12. ASSUME updateReturnQcStatus(p) PROVE \E c \in Copies : Read(p, c)
  <2>1. PICK s \in {"qc_passed", "qc_failed"} : Read(p, ToStatus("qc", s))
    BY <1>12, <1>0 DEF updateReturnQcStatus
  <2>2. ToStatus("qc", s) \in Copies
    BY DEF Ops, Statuses
  <2> QED BY <2>1, <2>2
<1>13. ASSUME releaseExpiredSellerHolds(p) PROVE \E c \in Copies : Read(p, c)
  <2>1. Read(p, Copy("candidate"))
    BY <1>13, <1>0 DEF releaseExpiredSellerHolds
  <2>2. Copy("candidate") \in Copies
    BY DEF Ops, Statuses
  <2> QED BY <2>1, <2>2
<1>14. ASSUME bulkProcessPayouts(p) PROVE \E c \in Copies : Read(p, c)
  <2>1. Read(p, Copy("process"))
    BY <1>14, <1>0 DEF bulkProcessPayouts
  <2>2. Copy("process") \in Copies
    BY DEF Ops, Statuses
  <2> QED BY <2>1, <2>2
<1>15. ~(startReturnPickupBroadcast(p) \/ completeReturnAndRefund(p) \/ ReleaseAfterQc(p) \/ processPayout(p) \/ Abandon(p))
  BY <1>0 DEF startReturnPickupBroadcast, completeReturnAndRefund, ReleaseAfterQc, processPayout, Abandon
<1> QED BY <1>1, <1>2, <1>3, <1>4, <1>5, <1>6, <1>7, <1>8, <1>9, <1>10, <1>11, <1>12, <1>13, <1>14, <1>15 DEF Handle

\* What a handler does after its read keeps the types.
LEMMA SavesKeepTypes ==
  ASSUME TypeOK, NEW p \in Handlers, h[p] # Idle, Handle(p)
  PROVE  TypeOK'
<1> USE SaveType, HandlersType, CopyType
<1>0. \A c : ~Read(p, c)
  BY DEF Read
<1>1. ASSUME createReturnRequest(p) PROVE TypeOK'
  <2>h. h' \in [Handlers -> Copies]
    BY <1>1, <1>0 DEF createReturnRequest, Ops
  <2>1. asked' \subseteq Items /\ returning' \subseteq Items
    BY <1>1, <1>0, ReturnAssumption DEF createReturnRequest, TypeOK, order, money, Statuses
  <2> QED BY <1>1, <1>0, <2>h, <2>1 DEF createReturnRequest, TypeOK, order, money
<1>2. ASSUME approveReturn(p) PROVE TypeOK'
  <2>h. h' \in [Handlers -> Copies]
    BY <1>2, <1>0 DEF approveReturn, Ops
  <2>1. due' \in Nat
    BY <1>2, <1>0, ReturnAssumption, FS_Subset, FS_CardinalityType DEF approveReturn, TypeOK, order, money, Statuses
  <2> QED BY <1>2, <1>0, <2>h, <2>1 DEF approveReturn, TypeOK, order, money
<1>3. ASSUME rejectReturn(p) PROVE TypeOK'
  BY <1>3, <1>0, ReturnAssumption DEF rejectReturn, TypeOK, order, money, Statuses, Ops
<1>4. ASSUME assignReturnDelivery(p) PROVE TypeOK'
  BY <1>4, <1>0, ReturnAssumption DEF assignReturnDelivery, TypeOK, order, money, Statuses, Ops
<1>5. ASSUME startReturnPickupBroadcast(p) PROVE TypeOK'
  <2>h. h' \in [Handlers -> Copies]
    BY <1>5, <1>0 DEF startReturnPickupBroadcast, Ops
  <2>1. search' \in 0..MaxSearches
    BY <1>5, <1>0, ReturnAssumption DEF startReturnPickupBroadcast, TypeOK, order, money, Statuses
  <2> QED BY <1>5, <1>0, <2>h, <2>1 DEF startReturnPickupBroadcast, TypeOK, order, money
<1>6. ASSUME processReturnPickupTimeout(p) PROVE TypeOK'
  <2>h. h' \in [Handlers -> Copies]
    BY <1>6, <1>0 DEF processReturnPickupTimeout, Ops
  <2>1. search' \in 0..MaxSearches /\ ret' \in Statuses
    BY <1>6, <1>0, ReturnAssumption DEF processReturnPickupTimeout, TypeOK, order, money, Statuses
  <2> QED BY <1>6, <1>0, <2>h, <2>1 DEF processReturnPickupTimeout, TypeOK, order, money
<1>7. ASSUME acceptReturnPickup(p) PROVE TypeOK'
  <2>h. h' \in [Handlers -> Copies]
    BY <1>7, <1>0 DEF acceptReturnPickup, Ops
  <2>1. search' = 0
    BY <1>7, <1>0 DEF acceptReturnPickup
  <2>2. search' \in 0..MaxSearches
    BY <2>1, ReturnAssumption
  <2> QED BY <1>7, <1>0, <2>h, <2>1, <2>2 DEF acceptReturnPickup, TypeOK, order, money
<1>8. ASSUME rejectReturnPickup(p) PROVE TypeOK'
  <2>h. h' \in [Handlers -> Copies]
    BY <1>8, <1>0 DEF rejectReturnPickup, Ops
  <2>1. search' = 0
    BY <1>8, <1>0 DEF rejectReturnPickup
  <2>2. search' \in 0..MaxSearches
    BY <2>1, ReturnAssumption
  <2> QED BY <1>8, <1>0, <2>h, <2>1, <2>2 DEF rejectReturnPickup, TypeOK, order, money
<1>9. ASSUME updateReturnStatus(p) PROVE TypeOK'
  BY <1>9, <1>0, ReturnAssumption DEF updateReturnStatus, TypeOK, order, money, Statuses, Ops
<1>10. ASSUME verifyReturnPickupOtp(p) PROVE TypeOK'
  BY <1>10, <1>0, ReturnAssumption DEF verifyReturnPickupOtp, TypeOK, order, money, Statuses, Ops
<1>11. ASSUME requestReturnDropOtp(p) PROVE TypeOK'
  <2>h. h' \in [Handlers -> Copies]
    BY <1>11, <1>0 DEF requestReturnDropOtp, Ops
  <2>1. otps' \subseteq {"pickup", "drop"} /\ ret' \in Statuses
    BY <1>11, <1>0, ReturnAssumption DEF requestReturnDropOtp, TypeOK, order, money, Statuses, generateReturnDropOtp
  <2> QED BY <1>11, <1>0, <2>h, <2>1 DEF requestReturnDropOtp, TypeOK, order, money, generateReturnDropOtp
<1>12. ASSUME verifyReturnDropOtp(p) PROVE TypeOK'
  BY <1>12, <1>0, ReturnAssumption DEF verifyReturnDropOtp, TypeOK, order, money, Statuses, Ops
<1>13. ASSUME updateReturnQcStatus(p) PROVE TypeOK'
  BY <1>13, <1>0, ReturnAssumption DEF updateReturnQcStatus, TypeOK, order, money, Statuses, Ops
<1>14. ASSUME completeReturnAndRefund(p) PROVE TypeOK'
  <2>h. h' \in [Handlers -> Copies]
    BY <1>14, <1>0 DEF completeReturnAndRefund, Ops
  <2>1. Amount \in Nat
    BY <1>14, <1>0, ReturnAssumption, FS_Subset, FS_CardinalityType DEF completeReturnAndRefund, TypeOK, order, money, Statuses, Refund,
      AdjustSeller, CancelPayout, Amount
  <2>2. credited' \in Nat /\ debited' \in Nat
    BY <1>14, <1>0, ReturnAssumption, <2>1 DEF completeReturnAndRefund, TypeOK, order, money, Statuses, Refund,
      AdjustSeller, CancelPayout, Amount
  <2>3. payout' \in {"PENDING", "COMPLETED", "CANCELLED"}
    BY <1>14, <1>0, ReturnAssumption DEF completeReturnAndRefund, TypeOK, order, money, Statuses, Refund,
      AdjustSeller, CancelPayout, Amount
  <2>4. hold' \in {"HOLD", "PENDING", "COMPLETED", "CANCELLED"}
    BY <1>14, <1>0, ReturnAssumption DEF completeReturnAndRefund, TypeOK, order, money, Statuses, Refund,
      AdjustSeller, CancelPayout, Amount
  <2>5. held' \in BOOLEAN
    BY <1>14, <1>0, ReturnAssumption DEF completeReturnAndRefund, TypeOK, order, money, Statuses, Refund,
      AdjustSeller, CancelPayout, Amount
  <2>6. ret' \in Statuses
    BY <1>14, <1>0, ReturnAssumption DEF completeReturnAndRefund, TypeOK, order, money, Statuses, Refund,
      AdjustSeller, CancelPayout, Amount
  <2>7. UNCHANGED <<rider, search, asked, returning, due, window, autoRelease, otps>>
    BY <1>14, <1>0 DEF completeReturnAndRefund
  <2> QED BY <2>h, <2>1, <2>2, <2>3, <2>4, <2>5, <2>6, <2>7 DEF TypeOK
<1>15. ASSUME ReleaseAfterQc(p) PROVE TypeOK'
  <2>h. h' \in [Handlers -> Copies]
    BY <1>15, <1>0 DEF ReleaseAfterQc, Ops
  <2>1. UNCHANGED <<order, autoRelease, otps, payout, credited, debited>>
    BY <1>15, <1>0 DEF ReleaseAfterQc, money
  <2>2. \/ UNCHANGED <<hold, held>>
        \/ hold' = "PENDING" /\ held' = FALSE
    BY <1>15, <1>0 DEF ReleaseAfterQc, Unhold, money
  <2> QED BY <2>h, <2>1, <2>2 DEF TypeOK, order
<1>16. ASSUME releaseExpiredSellerHolds(p) PROVE TypeOK'
  <2>h. h' \in [Handlers -> Copies]
    BY <1>16, <1>0 DEF releaseExpiredSellerHolds, Ops
  <2>1. UNCHANGED <<order, autoRelease, otps, payout, credited, debited>>
    BY <1>16, <1>0 DEF releaseExpiredSellerHolds, money
  <2>2. \/ UNCHANGED <<hold, held>>
        \/ hold' = "PENDING" /\ held' = FALSE
    BY <1>16, <1>0 DEF releaseExpiredSellerHolds, Unhold, money
  <2> QED BY <2>h, <2>1, <2>2 DEF TypeOK, order
<1>17. ASSUME processPayout(p) PROVE TypeOK'
  <2>h. h' \in [Handlers -> Copies]
    BY <1>17 DEF processPayout
  <2>1. UNCHANGED <<order, autoRelease, otps, held, credited, debited>>
    BY <1>17 DEF processPayout
  <2>2. \/ UNCHANGED <<payout, hold>>
        \/ payout' = "COMPLETED" /\ hold' = "COMPLETED"
    BY <1>17 DEF processPayout
  <2> QED BY <2>h, <2>1, <2>2 DEF TypeOK, order
<1>18. ASSUME Abandon(p) PROVE TypeOK'
  <2>h. h' \in [Handlers -> Copies]
    BY <1>18, <1>0 DEF Abandon
  <2>1. UNCHANGED <<order, autoRelease, money>>
    BY <1>18 DEF Abandon
  <2>2. otps' \subseteq otps
    BY <1>18 DEF Abandon
  <2> QED BY <2>h, <2>1, <2>2 DEF TypeOK, order, money
<1>19. ~bulkProcessPayouts(p)
  BY <1>0 DEF bulkProcessPayouts
<1> QED BY <1>1, <1>2, <1>3, <1>4, <1>5, <1>6, <1>7, <1>8, <1>9, <1>10,
  <1>11, <1>12, <1>13, <1>14, <1>15, <1>16, <1>17, <1>18, <1>19 DEF Handle

\* Every step keeps the types.
LEMMA TypeStep ==
  ASSUME TypeOK, [Next]_vars
  PROVE  TypeOK'
<1>1. ASSUME NEW p \in Handlers, Handle(p) PROVE TypeOK'
  <2>1. CASE h[p] = Idle
    BY <1>1, <2>1, IdleReads, ReadType
  <2>2. CASE h[p] # Idle
    BY <1>1, <2>2, SavesKeepTypes
  <2> QED BY <2>1, <2>2
<1>2. ASSUME requestReturnPickupOtp \/ getReturnDetails \/ WindowCloses PROVE TypeOK'
  BY <1>2 DEF requestReturnPickupOtp, getReturnDetails, generateReturnDropOtp, WindowCloses,
    TypeOK, order, money
<1>3. CASE UNCHANGED vars
  BY <1>3 DEF vars, TypeOK, order, money
<1> QED BY <1>1, <1>2, <1>3 DEF Next

\* The order, the payout and every handler keep their types.
THEOREM TypeCorrect == Spec => []TypeOK
<1>1. Init => TypeOK
  BY ReturnAssumption, CopyType DEF Init, TypeOK, Statuses
<1> QED BY <1>1, TypeStep, PTL DEF Spec

-----------------------------------------------------------------------------

\* What the refund and the payout keep of each other.
MoneyInv ==
  /\ returning \subseteq asked /\ due <= Cardinality(asked)
  /\ RefundWithinAsked
  /\ LostPayoutWasRefunded /\ SellerChargedOnce /\ RefundSettlesSeller

\* Of all the steps, four kinds touch what was asked or what was paid: a saved
\* request, a saved approval, a refund that commits and a payout that is paid.
LEMMA MoneySteps ==
  ASSUME TypeOK, [Next]_vars
  PROVE  \/ /\ \E S \in SUBSET Items : asked' = asked \cup S /\ returning' = S
            /\ UNCHANGED <<due, payout, credited, debited>>
         \/ due' = Cardinality(returning) /\ UNCHANGED <<asked, returning, payout, credited, debited>>
         \/ /\ Refund /\ (Amount > 0 => credited = 0)
            /\ UNCHANGED <<asked, returning, due>>
         \/ /\ payout = "PENDING" /\ payout' = "COMPLETED"
            /\ UNCHANGED <<asked, returning, due, credited, debited>>
         \/ UNCHANGED <<asked, returning, due, payout, credited, debited>>
<1> DEFINE Quiet == UNCHANGED <<asked, returning, due, payout, credited, debited>>
<1>1. CASE UNCHANGED vars
  BY <1>1 DEF vars, order, money
<1>2. CASE requestReturnPickupOtp \/ getReturnDetails \/ WindowCloses
  BY <1>2 DEF requestReturnPickupOtp, getReturnDetails, WindowCloses, order, money
<1>3. ASSUME NEW p \in Handlers, Handle(p), h[p] = Idle
      PROVE  Quiet
  BY <1>3, IdleReads DEF Read, order, money
<1> SUFFICES ASSUME NEW p \in Handlers, Handle(p), h[p] # Idle
             PROVE  \/ /\ \E S \in SUBSET Items : asked' = asked \cup S /\ returning' = S
                       /\ UNCHANGED <<due, payout, credited, debited>>
                    \/ /\ due' = Cardinality(returning)
                       /\ UNCHANGED <<asked, returning, payout, credited, debited>>
                    \/ /\ Refund /\ (Amount > 0 => credited = 0)
                       /\ UNCHANGED <<asked, returning, due>>
                    \/ /\ payout = "PENDING" /\ payout' = "COMPLETED"
                       /\ UNCHANGED <<asked, returning, due, credited, debited>>
                    \/ Quiet
  BY <1>1, <1>2, <1>3 DEF Next
<1>4. \A c : ~Read(p, c)
  BY DEF Read
<1>5. CASE createReturnRequest(p)
  BY <1>4, <1>5, SaveType DEF createReturnRequest, money
<1>6. CASE approveReturn(p)
  BY <1>4, <1>6 DEF approveReturn, money
<1>7. CASE rejectReturn(p) \/ assignReturnDelivery(p) \/ startReturnPickupBroadcast(p)
           \/ processReturnPickupTimeout(p) \/ acceptReturnPickup(p) \/ rejectReturnPickup(p)
  BY <1>4, <1>7 DEF rejectReturn, assignReturnDelivery, startReturnPickupBroadcast,
    processReturnPickupTimeout, acceptReturnPickup, rejectReturnPickup, money
<1>8. CASE updateReturnStatus(p) \/ verifyReturnPickupOtp(p) \/ requestReturnDropOtp(p)
           \/ verifyReturnDropOtp(p) \/ updateReturnQcStatus(p) \/ Abandon(p)
  BY <1>4, <1>8 DEF updateReturnStatus, verifyReturnPickupOtp, requestReturnDropOtp,
    verifyReturnDropOtp, updateReturnQcStatus, Abandon, order, money
<1>9. CASE completeReturnAndRefund(p)
  BY <1>9 DEF completeReturnAndRefund
<1>10. CASE ReleaseAfterQc(p) \/ releaseExpiredSellerHolds(p) \/ bulkProcessPayouts(p)
  BY <1>4, <1>10 DEF ReleaseAfterQc, releaseExpiredSellerHolds, bulkProcessPayouts, order, money
<1>11. CASE processPayout(p)
  BY <1>11 DEF processPayout, order
<1> QED BY <1>5, <1>6, <1>7, <1>8, <1>9, <1>10, <1>11 DEF Handle

\* The items of the order can be counted, and asking for more never counts less.
LEMMA AskedCounts ==
  ASSUME TypeOK, MoneyInv, NEW S \in SUBSET Items
  PROVE  /\ Cardinality(asked) \in Nat /\ Cardinality(returning) \in Nat
         /\ Cardinality(returning) <= Cardinality(asked)
         /\ Cardinality(asked \cup S) \in Nat
         /\ Cardinality(asked) <= Cardinality(asked \cup S)
BY ReturnAssumption, FS_Subset, FS_CardinalityType DEF TypeOK, MoneyInv

\* A refund that commits is the first, and settles the seller at once.
LEMMA RefundKeepsMoney ==
  ASSUME TypeOK, MoneyInv, Refund, Amount > 0 => credited = 0,
         UNCHANGED <<asked, returning, due>>
  PROVE  MoneyInv'
<1> USE DEF MoneyInv, RefundWithinAsked, LostPayoutWasRefunded, SellerChargedOnce,
      RefundSettlesSeller
<1>1. Amount \in Nat /\ Amount <= Cardinality(asked) /\ Cardinality(asked) \in Nat
  BY AskedCounts DEF Amount, TypeOK
<1>2. CASE Amount > 0
  <2>1. credited = 0 /\ debited = 0 /\ credited' = Amount /\ payout # "CANCELLED"
    BY <1>1, <1>2 DEF Refund, TypeOK
  <2>2. CASE IsHeld
    <3>1. debited' = 0 /\ payout' # "PENDING"
      BY <1>2, <2>1, <2>2 DEF Refund, AdjustSeller, CancelPayout
    <3> QED BY <1>1, <1>2, <2>1, <3>1
  <2>3. CASE ~IsHeld
    <3>1. debited' = Amount /\ payout' = payout
      BY <1>1, <1>2, <2>1, <2>3 DEF Refund, AdjustSeller
    <3> QED BY <1>1, <1>2, <2>1, <3>1
  <2> QED BY <2>2, <2>3
<1>3. CASE ~(Amount > 0)
  BY <1>3 DEF Refund
<1> QED BY <1>2, <1>3

\* Every step keeps the invariant of the money.
LEMMA MoneyStep ==
  ASSUME TypeOK, MoneyInv, [Next]_vars
  PROVE  MoneyInv'
<1> USE DEF MoneyInv, RefundWithinAsked, LostPayoutWasRefunded, SellerChargedOnce,
      RefundSettlesSeller
<1>1. ASSUME NEW S \in SUBSET Items, asked' = asked \cup S, returning' = S,
             UNCHANGED <<due, payout, credited, debited>>
      PROVE  MoneyInv'
  BY <1>1, AskedCounts DEF TypeOK
<1>2. CASE due' = Cardinality(returning) /\ UNCHANGED <<asked, returning, payout, credited, debited>>
  BY <1>2, AskedCounts
<1>3. CASE /\ Refund /\ (Amount > 0 => credited = 0)
           /\ UNCHANGED <<asked, returning, due>>
  BY <1>3, RefundKeepsMoney
<1>4. CASE /\ payout = "PENDING" /\ payout' = "COMPLETED"
           /\ UNCHANGED <<asked, returning, due, credited, debited>>
  BY <1>4
<1>5. CASE UNCHANGED <<asked, returning, due, payout, credited, debited>>
  BY <1>5
<1> QED BY <1>1, <1>2, <1>3, <1>4, <1>5, MoneySteps

\* The invariant holds from the settlement of the order on.
LEMMA MoneyAlways == Spec => [](TypeOK /\ MoneyInv)
<1>1. Init => TypeOK /\ MoneyInv
  <2>1. Init => TypeOK
    BY ReturnAssumption, CopyType DEF Init, TypeOK, Statuses
  <2> QED BY <2>1, FS_EmptySet DEF Init, MoneyInv, RefundWithinAsked, LostPayoutWasRefunded,
        SellerChargedOnce, RefundSettlesSeller
<1>2. TypeOK /\ MoneyInv /\ [Next]_vars => (TypeOK /\ MoneyInv)'
  BY TypeStep, MoneyStep
<1> QED BY <1>1, <1>2, PTL DEF Spec

\* A refund stays within what the customer asked to return, whichever approval
\* its amount came from.
THEOREM RefundIsBounded == Spec => []RefundWithinAsked
BY MoneyAlways, PTL DEF MoneyInv

\* A cancelled payout went to a customer.
THEOREM NoPayoutIsLost == Spec => []LostPayoutWasRefunded
BY MoneyAlways, PTL DEF MoneyInv

\* The seller pays once for a return.
THEOREM SellerPaysOnce == Spec => []SellerChargedOnce
BY MoneyAlways, PTL DEF MoneyInv

\* No payout waits for a seller whose refund was never recovered.
THEOREM NoPayoutWaits == Spec => []RefundSettlesSeller
BY MoneyAlways, PTL DEF MoneyInv

\* No step credits the customer a second time.
THEOREM NoSecondRefund == Spec => RefundedOnce
<1>1. TypeOK /\ MoneyInv /\ [Next]_vars => [credited > 0 => UNCHANGED credited]_vars
  <2> SUFFICES ASSUME TypeOK, MoneyInv, [Next]_vars, credited > 0
               PROVE  credited' = credited
    OBVIOUS
  <2>1. CASE Refund /\ (Amount > 0 => credited = 0)
    BY <2>1 DEF Refund, TypeOK
  <2> QED BY <2>1, MoneySteps
<1> QED BY <1>1, MoneyAlways, PTL DEF RefundedOnce, Spec

\* No step moves a payout that was paid or cancelled.
THEOREM PayoutsAreFinal == Spec => PayoutFinal
<1>1. TypeOK /\ MoneyInv /\ [Next]_vars => [payout # "PENDING" => UNCHANGED payout]_vars
  <2> SUFFICES ASSUME TypeOK, MoneyInv, [Next]_vars, payout # "PENDING"
               PROVE  payout' = payout
    OBVIOUS
  <2>1. CASE Refund /\ (Amount > 0 => credited = 0)
    BY <2>1 DEF Refund, AdjustSeller, CancelPayout
  <2> QED BY <2>1, MoneySteps
<1> QED BY <1>1, MoneyAlways, PTL DEF PayoutFinal, Spec

=============================================================================
