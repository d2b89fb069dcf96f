# Discount Bazar: specifications of the order backend

Discount Bazar is a quick-commerce marketplace. One Node.js/Express backend
(`src/backend`) serves customer, seller, rider and admin clients; the same code
runs in three roles, *api*, *worker* (Bull queues) and *scheduler*, several
processes of each, over MongoDB (replica set, transactions) and an optional Redis.
Nothing is shared in memory between processes: every conflict is settled by a
conditional MongoDB update, a transaction, a unique index or a Redis key.
That is what these modules model: which commit points there are, what each one
checks, and what may happen between two of them.

Contents: [inventory](#the-system), [modules](#modules), [runs](#runs),
[proofs](#proofs), [findings](#what-was-found), [limits](#limits),
[plan](#plan).

## The system

| Component | State it keeps | Operations | Talks to |
|---|---|---|---|
| Order workflow and dispatch (`orderWorkflowService`, `orderController`, `orderQueueProcessors`) | the order document: `workflowStatus` and its legacy mirror, `deliveryBoy`, `skippedBy`, deadlines, search attempt | seller accept/reject/ready, rider accept/skip/arrive/pick up, hand-over code, seller and search timeouts, status override | queue jobs and a 10 s sweep start timeouts; every cancellation calls compensation |
| Cancellation service | `OrderCancellation` document (request, return leg, inventory, refund), summary on the order | direct cancel, request/withdraw/review/decide, approval after pickup, dispute, parcel return and inspection | order, stock, refunds, settlement |
| Compensation and stock | `stockReservation` on the order, seller stock, coupon use | claim the release, restock line by line | called after a cancellation commits, outside its transaction |
| Order placement | checkout group, orders, reservation, wallet debit | `placeOrderAtomic`, one transaction | idempotency keys; starts the seller workflow afterwards |
| Idempotency keys | Redis lock, result and error entry per key | check, lock, store, release, expiry | placement, point of sale |
| Point of sale | bills (delivered orders), customer credit | `createPosSale`, edits, returns | idempotency keys, stock |
| Payments and webhooks | payment attempts, stored webhook events | create, webhook, verification, reconciliation with the gateway | moves the order out of `CREATED`, finance, cancellation records, refund plans |
| Finance and settlement | finance flags, ledger, wallets, payouts | online capture, settlement at delivery, payouts, holds | order, return window |
| Cancellation refunds | plan and allocations of a refund, processing lease | plan, claim, wallet credit, gateway refund, poll, refund webhook, retry, manual resolution, late capture | gateway, wallets, payments |
| Returns | return status, return rider, pickup search, codes, amount due | request, approve, assign or broadcast, pick up, inspect, refund | wallets, payouts, release job |
| Scheduled jobs | Redis lock per job | run a handler under the lock | all of the above |

The remaining parts (catalogue, cart, tickets, media, notifications, login codes,
reports, clients, deployment) carry no protocol of their own; `PROJECT.json` lists
each with the reason it is left out.

What is hard here, and what makes each part correct:

* **Interleaving.** Two riders accept at once; a seller accepts while the timeout,
  a customer and the payment sweep cancel. Correct: one winner, a finished order
  stays finished.
* **Read, pause, write.** The search timeout, the hand-over code, the status
  override and the lookup of a sale decide on what they read earlier. Correct:
  the late write is refused, or does no harm.
* **Follow-ups outside the transaction.** A cancellation commits, then restocks,
  then writes its record; a delivery commits, then settles. Correct: all stock
  comes back, once, and the record never contradicts the order.
* **Goods in the rider's hands.** After pickup a cancellation must not put units
  on sale before they are inspected.
* **Money that moves on somebody's word.** A gateway answers late, twice, to
  several processes at once, or not at all; a refund is asked for by a process that
  dies before it writes down that it asked. Correct: nothing moves twice, nothing
  that was taken for a cancelled order is forgotten, and what the books call paid
  was paid.
* **Retries.** The client retries with the same key; locks expire under their
  holder; Redis may be off (it is in `render.yaml`). Correct: one placement per
  key, told to everybody.
* **Something must happen.** A waiting order is decided, a search ends, stock
  comes back.
* **Crashes** between two commit points.

`PROJECT.json` lists every hazard at its line, with the properties that would
notice it, or the note why none does yet.

## Modules

| Module | Models | Uses |
|---|---|---|
| `OrderPromise` | the abstract order: forward only, one courier unless an administrator declares it delivered, units back at most once and never from the road | |
| `OrderLifecycle` | one order and its cancellation record, all handlers, timeouts and compensation | `OrderPromise` (refinement) |
| `OrderOverride` | `OrderLifecycle` plus `PUT /orders/status/:orderId` | extends `OrderLifecycle` |
| `AtMostOnce` | the abstract promise of a key: one placement, told alike to all | |
| `IdempotencyKey` | the Redis entries of a key, the requests that carry it, and the operations on both | |
| `KeyedCheckout` | `placeOrderAtomic` as a protocol over a key | extends `IdempotencyKey`; `AtMostOnce` (refinement) |
| `PosSale` | `createPosSale` as a protocol over a key | extends `IdempotencyKey` |
| `PaymentPromise` | the abstract money of an online order: booked once and of a real capture, given back only when booked and cancelled, on one way | |
| `PaymentCapture` | the online payment of one order: attempts, webhooks, verification, reconciliation, the order's way to the seller or into cancellation, the record and the refund's plan | `PaymentPromise` (refinement) |
| `CancellationRefund` | the refund of one cancelled order: plan, wallet and gateway allocation, lease, administrators, late capture | |
| `ReturnFlow` | the return of a delivered order and the seller's payout | |
| `MC...` | instances for TLC | |
| `...Proofs` | theorems about the module they are named after; `OrderRefinementProofs` about `OrderPromise` | extend that module |

### OrderLifecycle

`order` is the order document cut down to the fields that a guard reads. It keeps
both statuses, because handlers guard on either one, and the reservation.
`record` is the `OrderCancellation` document. Amounts, addresses and items are
left out; the stock an order took is `Qty` units, each its own line, because
lines are restocked one by one.

One action is one commit point. `sellerAccept`, `deliveryAccept`, `confirmPickup`
and most others are conditional updates that repeat every condition they read, so
a single action is exact. Handlers whose reads can go stale are split:

* `processDeliveryTimeoutJob`: `ReadSearchTimeout`, then `WidenSearch`,
  `GiveUpSearch` or `MissedSearch`, by worker, with the attempt that was read;
* `verifyHandoffOtpAndDeliver`: `ConsumeOtp`, then `FinishHandOver`;
* a cancellation by the seller, a timeout or a payment: the status change
  (`CancelFirst`), then `ClaimRelease`, `RestockUnit` per unit and
  `recordExternalCancellation`; cancellations by the cancellation service restock
  in their transaction (`executeDirectCancellation`);
* a delivery: `settleDeliveredOrder`, then `onOrderDelivered`.

Settlement has three entries. The request that delivered settles
(`settleDeliveredOrder`, failure is only a warning); `POST /:id/delivered` settles
(`markOrderDeliveredAndSettle`), for a rider what was delivered with the customer's
code, for an administrator any order that is not cancelled. Since
`orderFinanceService` 546-551 marks what it settles delivered, an administrator takes
an order from any stage straight to `DELIVERED`, without rider, pickup or code
(`Settle`). Seller and rider then have their payouts queued in transactions of their
own (`payoutService` 30-103): a settlement may have queued them (`BeginSettlement`,
`createPendingPayoutForOrder`) and fail, while the order goes on or is cancelled. So
`settlement` is `"none"`, `"begun"`, `"queued"` (payouts without a settlement) or
`"applied"` (`deliveredSettlementApplied`). The cash of an order delivered without a
rider may be booked to one an administrator names, who becomes its rider
(`handleCodOrderFinance`).

Jobs may be late, early, lost or run twice, so timeout handlers may start at any
time. `ApiCrash` and `WorkerCrash` drop the steps a process still had to do.

### OrderOverride

`updateOrderStatus` loads the order, validates the copy and saves the fields that
changed on it (Mongoose sends only those). `loaded` is the copy. Other handlers
run between load and save. `deliveredAt` is not a field of its own here, so what
an override does to the return window is not seen.

### IdempotencyKey, KeyedCheckout, PosSale

A request goes from `pc = "idle"` to `"done"`. Every label is a point where the
process waits for Redis or MongoDB. `checkIdempotency` reads three entries at
once; the result may be older than the other two, which is why it is read by an
action of its own. `redis` is chosen once: `"off"` (no entries, every lock
succeeds), `"timely"` (a lock outlives its holder) or `"late"` (a lock may expire
under its holder). Result and error entries may expire at any time. `payload`
stands for the checksum of a body. A placement is named by the request that made
it.

The transaction of a checkout or a sale is one action, `Commit` or `Abort`. In
`KeyedCheckout`, `Commit` has the guard that the unique index on
(`customer`, `placement.idempotencyKey`) of checkout groups enforces. There is no
such index for the key of a sale, so `PosSale!Commit` has no guard.
`assertPaymentModeEnabled` leaves the lock behind, as the code does.

### PaymentCapture

`pay` is the status of each payment attempt in the database, `gate` what became of
it at the gateway (Razorpay may decline a payment and capture a second try of the
same attempt, so `gate[a]` is a set), `seen` the stored webhook events. `order` has
the workflow status as far as a payment moves it, `paymentStatus` and three
`financeFlags`; `record` says whether a cancellation record exists and which money
its frozen plan contains. `credited` counts the platform's wallet credits.

A handler is a process `p` whose copy `h[p]` has its next step (`pc`) and what it
has read: the attempt (`a`, `saw`), the status it brings (`next`), whether the order
was cancelled when it was read (`cancelled`), the plan or record it is about to
write. The entries are `Webhook`, `VerifyPayment`/`AskForCustomer`, and `reconcileOrderPaymentStatus` as
`LoadAttempts` and `AskToReconcile`, called by the payment sweep (`loop = "sweep"`)
and by a round of the refund (`loop = "round"`). All of them share
`transitionPaymentState` and then the side effects: `ReadOrders`,
`handleOnlineOrderFinance` (one transaction), `moveOrderToSellerPendingAfterPayment`
or, for an order whose copy was cancelled, `onLatePaymentCapture`;
`PaymentFails`; `PaymentStillOpen`. Cancellations come from
`executeDirectCancellation`, the seller (`SellerTurnsDown`) or the sweep
(`ExpireOrder`); the last two go on to `reverseOrderFinanceOnCancellation` and
`recordExternalCancellation`. `planRefund` is split where it reads and writes.

`Webhook` stands for `processRazorpayWebhook` and `processPhonePeWebhook`, which do
the same with another identity of the event: it is stored first, and what was stored is
a duplicate (`IsDuplicate`). Razorpay's is known by its type and payment, PhonePe's by
`transactionId` alone (`phonepe.adapter` 140-147), so a callback that reports the
capture of a transaction whose pending callback was stored is dropped. An early callback
of PhonePe without a transaction is known by a hash of its content, which the model
leaves out: one may be new at any time (`HasNoTransaction`). That Razorpay signs only
what it captured is an assumption about Razorpay (`VerifyPayment`); the code checks the
signature and asks nothing.

With `case.faults`, a process may die before any step (`Die`) or go on from a failed
call where the code catches the error (`Stumble`).

`missed` is a history variable. It becomes true in the five situations in which the
code decides on a copy that another process has made stale, or dies while it owes a
cancelled order something; the two properties that mention it say that there are no
others.

`PaymentPromise` is what all of this amounts to for the customer's money, without
processes, copies or records. `KeepsPromise` maps the gateway's captures to `captured`,
`credited` to `booked`, the workflow status to `flow`, `missed` to `crossed`, and to
`back` the ways on which money goes back (`Back`): the wallet when the compensation
returned it, the source when the plan contains the gateway's money. Asking, reading and
saving a copy are not seen.

### CancellationRefund

It begins where `PaymentCapture` ends: `owed` is the money to be returned, from the
customer's wallet (`"wallet"`) and through the gateway (`"source"`); each has an
allocation `alloc`. A round takes the lease (`TakeLease`), plans
(`planRefund`), credits the wallet (`processWalletDestination`, whose transaction may
commit although its reply is lost), and for the gateway polls a known refund or
claims the allocation, looks for a refund it may have created before
(`findRefunds`), asks for one, and completes. The summary and the release of the
lease follow. Refund webhooks, an administrator's retry and resolution and the
follow-up of a late capture work on the same record without the lease. The claim
becomes stale after five minutes (`Claimable`): any process may then take it over,
while its holder may still live. `past` is a history variable like `missed`:
`"overwritten"` when a write replaced what its writer had not seen or a claim,
`"unmarked"` when the plan or the processing state lost track of work.

### ReturnFlow

`updateOrderStatus`, the return endpoints, the rider's handlers, the pickup
broadcast with its timeout, the inspection and `completeReturnAndRefund` on the one
side, `releaseExpiredSellerHolds` and `processPayout` on the other. Every
handler is a load and a save, and Mongoose saves only the fields that changed on the
copy; between the two any other handler may run, and a handler may die before its
follow-ups. The price of an item is one unit, so `due`, `credited` and `debited`
are numbers of items.

## Runs

| Run | Question | Bounds |
|---|---|---|
| `order_safety` | Do order, record and stock stay consistent in every interleaving, and does `OrderLifecycle` implement `OrderPromise`? | 2 riders, 2 concurrent timeout handlers, 3 search attempts, 2 units, 1 crash, settlements may fail |
| `order_liveness` | Do waiting, search and compensation end? | 1 rider, 2 timeout handlers, 3 attempts, 1 unit, 1 crash, no settlement fails |
| `order_override` | Does a stale override ever make units come back twice? | 1 rider, 1 handler, 2 units, 1 override |
| `order_override_final` | violation: a cancelled order is final | as above |
| `order_crash_restock` | violation: everything comes back exactly once | as `order_safety` |
| `checkout_key` | Is one checkout placed per key, and do all answers name it? | 3 requests, 2 bodies, 1 transaction and 1 collision retry per request, Redis off or late |
| `pos_key` | Does a retry after a sale bill nothing, and does the lock exclude? | 3 requests, 2 bodies, 2 transactions each, all three Redis modes |
| `pos_key_twice` | violation: one key bills once | as above |
| `payment` | Is a capture booked once, before the seller sees the order; does the money of a cancelled order come back, once; is a cancelled order never revived; is every step a move of `PaymentPromise`? | 2 handlers; one attempt at either gateway with crashes and failed calls, one at Razorpay or two at PhonePe without |
| `refund` | Does money move once, does "successful" mean paid, is there one live refund at the gateway, and is a finished record settled? | 2 processes, 2 gateway refunds, 2 attempts; money owed from the wallet with one visit of an administrator, from the source with none, from nothing with a late capture |
| `returns` | Is a return refunded once and within what was asked back, and do payout and seller's wallet agree with it? | 1 item, 1 rider, 2 handlers, 2 broadcasts |
| `returns_seller_kept` | violation: the seller bears the refund | 2 items, 1 rider, 1 handler, 2 broadcasts |

Why the bounds are enough: two riders and two handlers are the fewest that race,
three attempts let a stale handler set a search back by more than one stage, two
units let a crash or a second claimant come between two lines. Three requests let
one hold the lock, one have lost it and one retry; two bodies are the fewest that
differ; `order_liveness` leaves out settlements that fail with their payouts queued,
since nothing but a later settlement reads what they leave; the code's three transactions and two collision retries per request only
repeat a loop that `pos_key` closes with two transactions and `checkout_key` with one
retry. `late` includes every behaviour of
`timely`, so `checkout_key` leaves the latter out. The proofs below remove the
bounds for safety. Riders and workers, requests and bodies are interchangeable in
every safety run (symmetry); the liveness run uses none.

In `payment`, `refund` and `returns` two processes are the fewest that can hold
stale copies of each other's work; each may start over any number of times, so
longer chains of handlers than two are covered as far as no three must overlap.
Two attempts let a second one fail after the first was captured; two refunds at the
gateway are one more than there should be. The cases are the smallest that show each
step of the code once: money owed to both destinations, more items, two attempts at
Razorpay and two retries of a checkout multiply the states and add no step. The
invariants hold for all of them, without these bounds: see [proofs](#proofs).

Deadlock is not checked: an order that is over and requests that were all answered
stop by design.

**Fairness** (`order_liveness` only). Deadlines pass; the ten-second sweep keeps
starting the timeout handlers, so a lost Bull job only delays them; a process that
has not crashed finishes the steps of its request. Nothing is assumed of people:
no seller, rider, customer or admin has to act. Weak fairness suffices, since a
handler that may run may still run until someone else moves the order.

## Proofs

TLAPS checks the following for every value of the constants that satisfies the
named assumptions (`Qty` and `MaxAttempts` positive, the absence values outside
their sets, and so on).

**OrderLifecycleProofs.** `Invariance` proves an inductive invariant from which
every invariant of `order_safety` follows, and `FinalityCorrect` the action
property. The properties are not inductive alone. What they need in addition:

* `PickedUpInv`: where the parcel is, by status. Without it a cancellation guard
  on the legacy status could not be tied to the workflow status.
* `ClaimInv`, `ReleaseInv`: a held reservation has given nothing back; at most one
  canceller restocks, it holds the claim, and after pickup a reservation is
  released only by the inspection.
* `MoneyInv`: an online order is paid only when its money was captured.
* `DeliveredInv`: what a delivering request still has to do, and a settlement that was
  applied, belong to a delivered order; since no step leaves a finished status
  (`FinalStep`), that lasts. A settlement makes it true itself (`SettleOrder`), in the
  transaction that refuses a cancelled order; with `ClaimInv` and `RecordInv` it follows
  that what was settled is never given back (`SettledOrGivenBack`).
* `RecordInv`, `RecordersInv`: what each record status says about the order, and
  which cancellers only write a record.
* `GiveBackInv`, `FollowedUpInv`: without crashes a cancelled order that still
  holds stock has somebody about to claim it, and one without a record has
  somebody about to write it. They are what makes `StockAccountedFor` and the last
  part of `RecordMatchesOrder` inductive.

Each step lemma has one case per group of actions and, below it, one per action
that can disturb the conjunct.

**OrderRefinementProofs.** `PromiseKept`: every handler is one of the moves of
`OrderPromise` or changes nothing visible, under the mapping `Phase`. An
administrator's settlement is the move `Declare` before the pickup and `Deliver` after it,
naming who collected the cash is `Attribute`.

**KeyedCheckoutProofs.** Type correctness, `OneCheckout` and `PromiseKept`
(refinement of `AtMostOnce`), for any number of requests, bodies and retries. The
invariant says that there is at most one checkout and that every answer, every
cached entry and every copy of an entry names it or nothing. The argument does not
mention the lock: uniqueness comes from the index alone. One consequence: no
expiry or deletion of the lock can break it.

**OrderOverrideProofs.** `OverrideUnits`, for any number of overrides. An override
may save a stage that the order has left, so the stages and the parcel, which
`OrderLifecycleProofs` builds on, are no longer what they seem. The units are: no
override writes the reservation, and whoever finds it held claims it before
restocking. So the claim alone, with the shapes, is the invariant
(`OverrideInductive`).

**PosSaleProofs.** `TypeCorrect`, `RetryCorrect` (a request that begins after a sale never bills)
from the durable check, and `LockCorrect` (one request at a time between taking
and deleting the lock) from the lock. The invariant ties every label to what the
request may have done (`SoldRequestsEnd`, `RetriesStop`) and to the lock
(`LockHeld`).

**ReturnFlowProofs.** `TypeCorrect`, and from `MoneyInv` all five properties of the
money: `RefundIsBounded`, `NoPayoutIsLost`, `SellerPaysOnce`, `NoPayoutWaits`,
`NoSecondRefund`, and `PayoutsAreFinal`. The argument: of all the steps only four
kinds touch what was asked or paid (`MoneySteps`), and a refund settles the seller
in the transaction that credits the customer.

**CancellationRefundProofs.** `TypeCorrect`; `MoneyCorrect` and `SuccessCorrect` from
`PaidInv` (a process that is about to confirm a refund knows that the gateway paid);
`OneRefundCorrect` from `ClaimInv` (as long as no write replaced a claim, one process
works with the gateway, its claim stands, and it asks for a refund only when no live
one exists); `SettledCorrect` from `CopyInv` and `SettledInv`. `DoneMeansSettled` needs
both because `DONE` is written by a process that looks at its own flag only: `RoundFits`
says what a round without errors has made true by each step (the wallet's part settled
before the gateway is asked, everything settled when the summary it writes is final),
`Covered` that every part that is owed has an allocation, or that the handler of a late
payment still has to add it, and `CopyInv` that whoever writes to an allocation saw it
open. A write that replaces nothing unseen then never reopens what a round relies on
(`Calm`); the two that do reopen, an administrator's reset and a late payment, set
`processing.state` back and find no round at work, or are counted in `past`.

**PaymentCaptureProofs.** All eight properties of the run, for any number of
handlers and attempts. `Inv` gives six of them: `CopiesFit` says what a copy may rely
on however old it is (a capture is real, an order that is compensated or recorded is
cancelled, a record that is planned exists), `Agree` ties the order to its record and
the books, and `Owed` names who still brings a cancelled order its refund (`Helps`)
as long as nothing was missed. `CopiesFit` survives the steps of the others because
what it refers to only grows (`Grows`); so each lemma of a step looks at one copy.
`BookInv` gives `CaptureIsBooked`: a process that found an attempt closed found it
closed for good, so while nothing fails a capture whose webhook was stored, or that was
saved, is booked or being booked unless the attempt's failure was saved before it. Of a
capture that never got so far, PhonePe's duplicate, it says nothing. `PromiseKept` is the refinement of `PaymentPromise`: each handler is a
promised move or not seen. It needs one fact more, `BackInv`: whoever is about to put
the gateway's money into a plan decided on an order that was booked, and a booking is
never undone (`BooksKept`), so the age of the copy does no harm.

**Only model-checked:** all liveness (TLAPS proves no liveness under fairness and
no ENABLED). Every invariant and every action property of a passing run is also a
theorem. Not attempted anywhere: facts by induction over data and RECURSIVE
operators, which the installed provers cannot do; no module has a RECURSIVE operator.

## What was found

The first four are violation runs with a trace.

1. `order_override_final` - a status override that loaded the order before a
   cancellation committed saves its stale fields afterwards: the order is active
   again while its stock and money go back.
2. `order_crash_restock` - a crash between claiming the release and the last line
   loses the remaining units: later attempts see the reservation released.
3. `pos_key_twice` - `createPosSale` looks for a sale before it locks and not
   again, so a concurrent duplicate bills twice, with Redis on and no expired lock.
4. `returns_seller_kept` - a payout that was held and then paid leaves
   `sellerPayoutHeld` set, and the refund of a later return takes nothing from the
   seller.

The following were met while modelling and are steps of the models; no run is spent
on them.

*Placement.* A cached error is consulted before the result and never deleted, so
after a later attempt succeeds, retries keep getting the error (`idempotencyService`
103). The lookup by key ignores the body: another cart under a used key gets the
earlier checkout (`orderPlacementService` 381).

*Payments.* These are the situations behind `missed` and the exceptions in
`CaptureIsBooked`:

* A PhonePe capture whose transaction had a pending callback before is dropped as its
  duplicate (`paymentService` 727-736), although `phonepe.adapter` 132-134 speaks of
  identical redeliveries. The customer's page, the payment sweep or a refund's round may
  still ask PhonePe. But when the customer cancels and the plan, after its wait, is made while PhonePe
  answers "pending", the capture is neither booked nor returned.
* An attempt that Razorpay first declined and then captured: `FAILED` is final, the
  capture is refused with 409, its event is stored and the customer's money is
  neither booked nor returned (`paymentService` 240, 919), although
  `cancellationRefundService` 106 counts on a late success to arrive.
* An order cancelled between the capture handler's read and its finance: the handler
  goes by its copy, and no late-capture allocation is added (363).
* A refund plan frozen from an order read before the capture, with the capture's
  handler trusting "the plan will include it" (`cancellationRefundService` 758).
* A compensation that reverses an order's finance after another handler wrote its
  record, or a record made from an order read before the reversal: `planRefund` does
  not look at `onlineRefundApplied`, and the money is returned twice, although
  `orderCompensation` 26 says "never double-refund".
* A process that dies after storing a capture and before booking it: every
  reconciliation then reports `CAPTURED` and applies nothing (1003).
* A poll or an event that answers "pending" sets `paymentStatus` back from `PAID` to
  `CREATED` (504).
* Two attempts of one order may both be captured; one is booked.

*Settlement.* A settlement that fails after it queued the payouts leaves them queued. If
it fails after a cancellation has been settled, which cancels pending payouts once
(`cancellationSettlementService`), nobody cancels them: the seller of a cancelled order
has a pending payout. The comment at `orderFinanceService` 542 wants no payouts "for
goods that never arrived"; its check and the payouts are in different transactions.
`OrderLifecycle` has the steps; `SettledOrGivenBack` is about settlements that were
applied. An administrator's settlement delivers an order that never left the store,
which is how the route is meant, so `RiderMatchesProgress` and `OrderPromise` allow it.

*Refunds.* These are the situations behind `past`:

* The loser of `finalizeRefundStatus` works on with its older copy, so a round may
  end `DONE` with a `FAILED` allocation.
* `GiveUp` overwrites a claim whose holder is still asking; after an administrator's
  reset two live refunds exist. An administrator's save over a claim does the same.
* The release at the end of `processCancellation` overwrites a processing state that
  was set to `PENDING` meanwhile.

## Limits

* One order, one key, one payout: conflicts between orders (seller stock across
  orders, several orders of one checkout group and payment, rider capacity, coupon
  limits) are not modelled.
* Redis is on or off and may lose entries, but a call never fails midway.
* Money is counted in movements or items; amounts, deductions and rounding are not
  modelled.
* `createPosSale` and `placeOrderAtomic` are modelled up to their transaction's
  outcome, not inside it.
* `OrderLifecycle` takes a capture and what it does to the order as one step;
  `PaymentCapture` has the steps between, and reduces the rest of the order's life to
  "the seller has it".
* Refunds: gateways without refunds, the wait for a store inspection, gateway money
  refunded to the wallet and a missing captured payment are left out; a call to the
  gateway is assumed shorter than the five minutes after which a claim is taken over
  unless its process dies; one administrator is at work at a time.
* Returns: the rider's commission for a return and liveness of the pickup search are
  left out.

### Not modelled

Coupons, prices, reports, stock purchases, catalogue, carts, ratings, tickets, media,
notifications and login codes are single-document operations, arithmetic or
best-effort messages without a protocol between processes. The clients
(`src/frontend`, most of the repository's lines) keep no shared state of their own:
every rule they show is enforced by a handler that is modelled or listed. They are
why the modelled code is a small share of all lines.

## Plan

What remains, in order of importance.

1. `DistributedScheduler`: the job lock (compare, then delete), failure of a handler,
   expiry. To be proved: exclusion while no job outlives its lock.
2. Several orders of one checkout group in `PaymentCapture`, whose side effects are
   applied one order after another.
3. `HandoffOtp`: attempts, expiry and reissue of delivery and return codes.
4. Pure algorithms: the refund plan and the split of a partial cancellation as
   operators, checked against a reference over small amounts.
5. Liveness of the refund: under fair rounds every record ends `DONE` or on an
   administrator's list.
