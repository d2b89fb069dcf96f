----------------------------- MODULE ReturnFlow -----------------------------
(***************************************************************************)
(* The return of a delivered order and the seller's payout for it.  Every  *)
(* handler reads the order, checks its copy and saves the fields it        *)
(* changed: a handler is a load, a save and, for some, steps after the     *)
(* save; any other step may come between them, and a handler may die       *)
(* there.  The price of an item is one unit.  Deadlines that only make a   *)
(* handler refuse (of the return policy, of a code) are left out: a        *)
(* request that never comes does the same.                                 *)
(***************************************************************************)
EXTENDS Naturals, FiniteSets

CONSTANTS Items,        \* items of the order
          Riders,       \* delivery partners
          NoRider,
          Same,         \* a handler's save leaves the rider alone
          Handlers,     \* requests and job runs in flight
          MaxSearches   \* broadcasts of a return pickup before it is handed back

ASSUME ReturnAssumption ==
  /\ IsFiniteSet(Items)
  /\ NoRider \notin Riders
  /\ Same \notin Riders \cup {NoRider}
  /\ MaxSearches \in Nat \ {0}

VARIABLES
  ret,          \* order.returnStatus
  rider,        \* order.returnDeliveryBoy
  search,       \* attempt of the running pickup broadcast, 0 when it has no expiry
  asked,        \* items with a returnStatus of their own
  returning,    \* order.returnItems
  due,          \* order.returnRefundAmount
  window,       \* order.returnWindowExpiresAt: "open", "over" or "cleared"
  otps,         \* codes sent and not used yet, of "pickup" and "drop"
  payout,       \* status of the seller's payout
  hold,         \* settlementStatus.sellerPayout
  held,         \* financeFlags.sellerPayoutHeld
  credited,     \* units the customer's wallet received for the return
  debited,      \* units taken back from the seller's wallet
  autoRelease,  \* AUTO_RELEASE_SELLER_PAYOUT, fixed by the environment
  h             \* what each handler will save or do next

order == <<ret, rider, search, asked, returning, due, window>>
money == <<payout, hold, held, credited, debited>>
vars == <<order, autoRelease, otps, money, h>>

Statuses == {"none", "return_requested", "return_approved", "return_rejected",
             "return_pickup_assigned", "return_in_transit", "return_drop_pending",
             "returned", "qc_passed", "qc_failed", "refund_completed"}
Ops == {"idle", "request", "approve", "reject", "assign", "offer", "broadcast", "accept",
        "hand back", "timeout", "update", "pickup", "arrive", "arrived", "drop", "qc", "complete", "release", "candidate", "unhold", "process"}
Copies == [op : Ops, to : Statuses, who : Riders \cup {NoRider, Same},
           items : SUBSET Items, attempt : 0..MaxSearches, fresh : BOOLEAN]

Idle == [op |-> "idle", to |-> "none", who |-> Same,
         items |-> {}, attempt |-> 0, fresh |-> TRUE]

\* The order was delivered and settled: its payout is queued, and held when
\* there is a return window.
Init ==
  /\ ret = "none" /\ rider = NoRider /\ search = 0
  /\ asked = {} /\ returning = {} /\ due = 0
  /\ otps = {}
  /\ autoRelease \in BOOLEAN
  /\ payout = "PENDING"
  /\ held \in BOOLEAN
  /\ window = IF held THEN "open" ELSE "over"
  /\ hold = IF held THEN "HOLD" ELSE "PENDING"
  /\ credited = 0 /\ debited = 0
  /\ h = [p \in Handlers |-> Idle]

-----------------------------------------------------------------------------
(* How a handler reads and saves                                           *)

\* A save writes a field only when its value differs from the one that was read.
NewStatus(s) == IF s = ret THEN "none" ELSE s
NewRider(r) == IF r = rider THEN Same ELSE r

\* The handler has read the order, and its checks passed.
Read(p, copy) ==
  /\ h[p] = Idle
  /\ h' = [h EXCEPT ![p] = copy]
  /\ UNCHANGED <<order, autoRelease, otps, money>>

Copy(op) == [Idle EXCEPT !.op = op]
ToStatus(op, s) == [Copy(op) EXCEPT !.to = NewStatus(s)]

At(p, op) == h[p].op = op
GoOn(p, op) == h' = [h EXCEPT ![p] = Copy(op)]
Finish(p) == h' = [h EXCEPT ![p] = Idle]

SaveStatus(p) == ret' = IF h[p].to = "none" THEN ret ELSE h[p].to
SaveRider(p) == rider' = IF h[p].who = Same THEN rider ELSE h[p].who

\* A save that sets a whole array moves the version of the document; one that
\* finds the version moved since its read is refused.
Outdate(p) ==
  h' = [q \in Handlers |->
          IF q = p THEN Idle
          ELSE [h[q] EXCEPT !.fresh = @ /\ h[q].op \notin {"request", "approve"}]]

-----------------------------------------------------------------------------
(* Request, approval and pickup                                            *)

\* No status of an earlier return stops a request: only the items' own do.
createReturnRequest(p) ==
  \/ \E S \in SUBSET (Items \ asked) :
       S # {} /\ Read(p, [ToStatus("request", "return_requested") EXCEPT !.items = S])
  \/ /\ At(p, "request") /\ h[p].fresh
     /\ SaveStatus(p)
     /\ asked' = asked \cup h[p].items
     /\ returning' = h[p].items
     /\ window' = "cleared"
     /\ Outdate(p)
     /\ UNCHANGED <<rider, search, due, autoRelease, otps, money>>

approveReturn(p) ==
  \/ /\ ret = "return_requested" /\ returning # {}
     /\ Read(p, [ToStatus("approve", "return_approved") EXCEPT !.who = NewRider(NoRider)])
  \/ /\ At(p, "approve") /\ h[p].fresh
     /\ SaveStatus(p) /\ SaveRider(p)
     /\ due' = Cardinality(returning)
     /\ Outdate(p)
     /\ UNCHANGED <<search, asked, returning, window, autoRelease, otps, money>>

rejectReturn(p) ==
  \/ ret = "return_requested" /\ Read(p, ToStatus("reject", "return_rejected"))
  \/ /\ At(p, "reject")
     /\ SaveStatus(p)
     /\ Finish(p)
     /\ UNCHANGED <<rider, search, asked, returning, due, window, autoRelease, otps, money>>

assignReturnDelivery(p) ==
  \/ /\ ret \in {"return_requested", "return_approved"}
     /\ \E r \in Riders \cup {NoRider} :
          Read(p, [ToStatus(IF r = NoRider THEN "offer" ELSE "assign", "return_pickup_assigned")
                     EXCEPT !.who = NewRider(r)])
  \/ /\ At(p, "assign") \/ At(p, "offer")
     /\ SaveStatus(p) /\ SaveRider(p)
     /\ IF At(p, "offer") THEN GoOn(p, "broadcast") ELSE Finish(p)
     /\ UNCHANGED <<search, asked, returning, due, window, autoRelease, otps, money>>

Unclaimed == ret = "return_pickup_assigned" /\ rider = NoRider

startReturnPickupBroadcast(p) ==
  /\ At(p, "broadcast")
  /\ search' = IF Unclaimed THEN 1 ELSE search
  /\ Finish(p)
  /\ UNCHANGED <<ret, rider, asked, returning, due, window, autoRelease, otps, money>>

processReturnPickupTimeoutEndless(p) ==
  \/ /\ Unclaimed /\ search > 0
     /\ Read(p, [Copy("timeout") EXCEPT !.attempt = search])
  \/ /\ At(p, "timeout")
     /\ search' = IF Unclaimed THEN h[p].attempt + 1 ELSE search
     /\ Finish(p)
     /\ UNCHANGED <<ret, rider, asked, returning, due, window, autoRelease, otps, money>>

\* The timeout job and the sweep behind it: the next broadcast, or back to the
\* seller after the last.
processReturnPickupTimeout(p) ==
  \/ /\ Unclaimed /\ search > 0
     /\ Read(p, [Copy("timeout") EXCEPT !.attempt = search])
  \/ /\ At(p, "timeout")
     /\ IF ~Unclaimed THEN UNCHANGED <<ret, search>>
        ELSE IF h[p].attempt < MaxSearches
          THEN search' = h[p].attempt + 1 /\ UNCHANGED ret
          ELSE ret' = "return_approved" /\ search' = 0
     /\ Finish(p)
     /\ UNCHANGED <<rider, asked, returning, due, window, autoRelease, otps, money>>

\* Whatever the status of the return, an order without a rider can be accepted.
acceptReturnPickup(p) ==
  \/ /\ rider = NoRider
     /\ \E r \in Riders :
          Read(p, [ToStatus("accept", "return_pickup_assigned") EXCEPT !.who = r])
  \/ /\ At(p, "accept")
     /\ SaveStatus(p) /\ SaveRider(p)
     /\ search' = 0
     /\ Finish(p)
     /\ UNCHANGED <<asked, returning, due, window, autoRelease, otps, money>>

\* The version moves unless the rider had skipped the order before.
rejectReturnPickup(p) ==
  \/ /\ rider # NoRider /\ ret = "return_pickup_assigned"
     /\ Read(p, [ToStatus("hand back", "return_approved") EXCEPT !.who = NoRider])
  \/ /\ At(p, "hand back")
     /\ SaveStatus(p) /\ SaveRider(p)
     /\ search' = 0
     /\ Outdate(p) \/ Finish(p)
     /\ UNCHANGED <<asked, returning, due, window, autoRelease, otps, money>>

-----------------------------------------------------------------------------
(* The way back to the store                                               *)

Rank(s) == IF s = "return_pickup_assigned" THEN 1
           ELSE IF s = "return_in_transit" THEN 2
           ELSE IF s = "returned" THEN 3 ELSE 0

\* An admin or the rider; every status the ranking does not name counts as the
\* earliest, so a return that ended can be moved again.
updateReturnStatus(p) ==
  \/ \E s \in {"return_pickup_assigned", "return_in_transit", "returned"} :
       Rank(s) >= Rank(ret) /\ Read(p, ToStatus("update", s))
  \/ /\ At(p, "update")
     /\ SaveStatus(p)
     /\ Finish(p)
     /\ UNCHANGED <<rider, search, asked, returning, due, window, autoRelease, otps, money>>

requestReturnPickupOtp ==
  /\ ret = "return_pickup_assigned"
  /\ otps' = otps \cup {"pickup"}
  /\ UNCHANGED <<order, autoRelease, money, h>>

verifyReturnPickupOtp(p) ==
  \/ "pickup" \in otps /\ Read(p, ToStatus("pickup", "return_in_transit"))
  \/ /\ At(p, "pickup")
     /\ otps' = otps \ {"pickup"}
     /\ SaveStatus(p)
     /\ Finish(p)
     /\ UNCHANGED <<rider, search, asked, returning, due, window, autoRelease, money>>

OnTheWayBack == ret \in {"return_in_transit", "return_drop_pending"}

generateReturnDropOtp == OnTheWayBack /\ otps' = otps \cup {"drop"}

\* Looking at the return makes the code when there is none.
getReturnDetails == generateReturnDropOtp /\ UNCHANGED <<order, autoRelease, money, h>>

\* The rider is at the store: the code is made for the status of a second read,
\* and the status is set whatever happened since.
requestReturnDropOtp(p) ==
  \/ rider # NoRider /\ OnTheWayBack /\ Read(p, Copy("arrive"))
  \/ /\ At(p, "arrive") /\ generateReturnDropOtp
     /\ GoOn(p, "arrived")
     /\ UNCHANGED <<order, autoRelease, money>>
  \/ /\ At(p, "arrived")
     /\ ret' = "return_drop_pending"
     /\ Finish(p)
     /\ UNCHANGED <<rider, search, asked, returning, due, window, autoRelease, otps, money>>

verifyReturnDropOtp(p) ==
  \/ /\ rider # NoRider /\ "drop" \in otps
     /\ Read(p, ToStatus("drop", "returned"))
  \/ /\ At(p, "drop")
     /\ otps' = otps \ {"drop"}
     /\ SaveStatus(p)
     /\ Finish(p)
     /\ UNCHANGED <<rider, search, asked, returning, due, window, autoRelease, money>>

-----------------------------------------------------------------------------
(* Inspection, refund and the seller's money                               *)

updateReturnQcStatus(p) ==
  \/ /\ ret = "returned"
     /\ \E s \in {"qc_passed", "qc_failed"} : Read(p, ToStatus("qc", s))
  \/ /\ At(p, "qc")
     /\ SaveStatus(p)
     /\ GoOn(p, IF h[p].to = "qc_passed" THEN "complete" ELSE "release")
     /\ UNCHANGED <<rider, search, asked, returning, due, window, autoRelease, otps, money>>

Amount == IF due > 0 THEN due ELSE Cardinality(returning)
IsHeld == hold = "HOLD" \/ held

\* What the refund does to the seller: a held payout is cancelled if it is still
\* queued, otherwise the wallet is debited.
CancelPayout ==
  IF payout = "PENDING"
    THEN payout' = "CANCELLED" /\ hold' = "CANCELLED" /\ held' = FALSE
    ELSE UNCHANGED <<payout, hold, held>>

AdjustSellerTwice(amount) ==
  /\ IF IsHeld THEN CancelPayout ELSE UNCHANGED <<payout, hold, held>>
  /\ debited' = IF IsHeld /\ payout = "COMPLETED" THEN debited ELSE debited + amount

AdjustSellerByStatus(amount) ==
  IF hold = "HOLD"
    THEN CancelPayout /\ UNCHANGED debited
    ELSE UNCHANGED <<payout, hold, held, debited>>

AdjustSeller(amount) ==
  IF IsHeld
    THEN CancelPayout /\ UNCHANGED debited
    ELSE debited' = debited + amount /\ UNCHANGED <<payout, hold, held>>

RefundEverythingDue ==
  /\ ret = "qc_passed"
  /\ ret' = "refund_completed"
  /\ credited' = credited + due + Cardinality(returning)
  /\ AdjustSeller(due + Cardinality(returning))

Refund ==
  /\ ret = "qc_passed"
  /\ ret' = "refund_completed"
  /\ IF Amount > 0
       THEN credited' = credited + Amount /\ AdjustSeller(Amount)
       ELSE UNCHANGED <<payout, hold, held, credited, debited>>

RefundAgain(p) ==
  /\ At(p, "complete")
  /\ \/ Refund
     \/ UNCHANGED <<ret, payout, hold, held, credited, debited>>
  /\ Finish(p)
  /\ UNCHANGED <<rider, search, asked, returning, due, window, autoRelease, otps>>

RefundInPieces(p) ==
  /\ At(p, "complete")
  /\ \/ credited = 0 /\ Refund
     \/ CancelPayout /\ UNCHANGED <<ret, credited, debited>>
  /\ Finish(p)
  /\ UNCHANGED <<rider, search, asked, returning, due, window, autoRelease, otps>>

\* One transaction: it commits whole, or not at all, as when the seller's
\* balance is too low.  The customer's ledger row carries a key made of the
\* order's id, so no second refund of the order commits.
completeReturnAndRefund(p) ==
  /\ At(p, "complete")
  /\ \/ Refund /\ (Amount > 0 => credited = 0)
     \/ UNCHANGED <<ret, payout, hold, held, credited, debited>>
  /\ Finish(p)
  /\ UNCHANGED <<rider, search, asked, returning, due, window, autoRelease, otps>>

Unhold == hold' = "PENDING" /\ held' = FALSE

\* The inspection failed: the payout is looked up to be processed.
ReleaseAfterQc(p) ==
  /\ At(p, "release")
  /\ IF autoRelease
       THEN /\ IF payout = "PENDING" THEN GoOn(p, "process") ELSE Finish(p)
            /\ UNCHANGED <<hold, held>>
       ELSE Unhold /\ Finish(p)
  /\ UNCHANGED <<order, autoRelease, otps, payout, credited, debited>>

\* returnWindowReleaseJob: the orders are listed first and released one by one,
\* on what the list said.
releaseExpiredSellerHolds(p) ==
  \/ /\ ret = "none" /\ window = "over" /\ hold = "HOLD"
     /\ Read(p, Copy("candidate"))
  \/ /\ At(p, "candidate")
     /\ IF payout # "PENDING" THEN Finish(p)
        ELSE GoOn(p, IF autoRelease THEN "process" ELSE "unhold")
     /\ UNCHANGED <<order, autoRelease, otps, money>>
  \/ /\ At(p, "unhold")
     /\ Unhold /\ Finish(p)
     /\ UNCHANGED <<order, autoRelease, otps, payout, credited, debited>>

\* The finance page and the payout batch take every queued payout, held or not.
bulkProcessPayouts(p) == payout = "PENDING" /\ Read(p, Copy("process"))

processPayoutBlindly(p) ==
  /\ At(p, "process")
  /\ payout' = "COMPLETED" /\ hold' = "COMPLETED"
  /\ Finish(p)
  /\ UNCHANGED <<order, autoRelease, otps, held, credited, debited>>

\* One transaction that reads the payout again.  The flag of the hold stays.
processPayout(p) ==
  /\ At(p, "process")
  /\ IF payout = "PENDING" THEN payout' = "COMPLETED" /\ hold' = "COMPLETED"
                           ELSE UNCHANGED <<payout, hold>>
  /\ Finish(p)
  /\ UNCHANGED <<order, autoRelease, otps, held, credited, debited>>

-----------------------------------------------------------------------------
(* Time and failures                                                       *)

WindowCloses ==
  /\ window = "open" /\ window' = "over"
  /\ UNCHANGED <<ret, rider, search, asked, returning, due, autoRelease, otps, money, h>>

\* A handler dies or its next write fails, as an outdated save does.  The code of
\* a "pickup" or a "drop" may be used up by then.
Abandon(p) ==
  /\ h[p] # Idle
  /\ otps' \in {otps, otps \ {h[p].op}}
  /\ Finish(p)
  /\ UNCHANGED <<order, autoRelease, money>>

Handle(p) ==
  \/ createReturnRequest(p) \/ approveReturn(p) \/ rejectReturn(p)
  \/ assignReturnDelivery(p) \/ startReturnPickupBroadcast(p)
  \/ processReturnPickupTimeout(p)
  \/ acceptReturnPickup(p) \/ rejectReturnPickup(p)
  \/ updateReturnStatus(p) \/ verifyReturnPickupOtp(p)
  \/ requestReturnDropOtp(p) \/ verifyReturnDropOtp(p)
  \/ updateReturnQcStatus(p) \/ completeReturnAndRefund(p) \/ ReleaseAfterQc(p)
  \/ releaseExpiredSellerHolds(p) \/ bulkProcessPayouts(p) \/ processPayout(p)
  \/ Abandon(p)

Next ==
  \/ \E p \in Handlers : Handle(p)
  \/ requestReturnPickupOtp \/ getReturnDetails \/ WindowCloses

Spec == Init /\ [][Next]_vars

-----------------------------------------------------------------------------
(* Properties                                                              *)

\* The ranges the order model, the payout model and the amounts keep
\* (order.js, payout.js).
TypeOK ==
  /\ ret \in Statuses /\ rider \in Riders \cup {NoRider} /\ search \in 0..MaxSearches
  /\ asked \subseteq Items /\ returning \subseteq Items /\ due \in Nat
  /\ window \in {"open", "over", "cleared"} /\ otps \subseteq {"pickup", "drop"}
  /\ payout \in {"PENDING", "COMPLETED", "CANCELLED"}
  /\ hold \in {"HOLD", "PENDING", "COMPLETED", "CANCELLED"} /\ held \in BOOLEAN
  /\ credited \in Nat /\ debited \in Nat /\ autoRelease \in BOOLEAN
  /\ h \in [Handlers -> Copies]

\* completeReturnAndRefund: however often a return is reopened, requested again
\* or inspected again, the customer is credited by at most one refund.
RefundedOnce == [][credited > 0 => UNCHANGED credited]_vars

\* completeReturnAndRefund: a refund never exceeds the items the customer asked
\* to return, although the amount may be that of an earlier approval.
RefundWithinAsked == credited <= Cardinality(asked)

\* processPayout and cancelPendingPayoutForOrder: a payout that was paid or
\* cancelled stays so, whichever handlers looked it up before.
PayoutFinal == [][payout # "PENDING" => UNCHANGED payout]_vars

\* cancelPendingPayoutForOrder runs only inside a refund that commits: a seller
\* who lost the payout lost it to a customer who was credited.
LostPayoutWasRefunded == payout = "CANCELLED" => credited > 0

\* completeReturnAndRefund: the seller pays for a return from the payout or from
\* the wallet, never from both, and the wallet pays what the customer got.
SellerChargedOnce == debited > 0 => debited = credited /\ payout # "CANCELLED"

\* completeReturnAndRefund: after a refund no payout of the order is still queued
\* for a seller whose wallet was not debited.
RefundSettlesSeller == credited > 0 => payout # "PENDING" \/ debited > 0

\* What the comment on completeReturnAndRefund promises of the refund: no customer
\* is credited while the seller keeps the money.
SellerBearsRefund == credited > 0 => payout = "CANCELLED" \/ debited > 0
=============================================================================
