------------------------- MODULE CancellationRefund -------------------------
(***************************************************************************)
(* The refund of one cancelled order and the processing lease around it.   *)
(* The record has at most two allocations: "wallet" money that goes back   *)
(* to the customer's wallet, and "source" money that the gateway pays back *)
(* to the card.  Workers (the reconcile job and requests), an              *)
(* administrator and refund webhooks work on the record at once; each      *)
(* reads it, decides on its copy and writes, and may die between two       *)
(* writes.  Amounts are left out: a source whose whole amount is withheld  *)
(* counts as one that was not paid.                                        *)
(***************************************************************************)
EXTENDS Naturals, FiniteSets

CONSTANTS Workers,      \* processes at work on the record
          Cases,        \* what was paid, and how often an administrator may step in
          MaxAttempts,  \* CANCELLATION_REFUND_MAX_ATTEMPTS
          MaxRefunds    \* bound: refunds the gateway ever creates

ASSUME RefundAssumption ==
  /\ Cases \subseteq [owed : SUBSET {"wallet", "source"}, late : {"none", "over"}, visits : Nat]
  /\ MaxAttempts \in Nat \ {0} /\ MaxRefunds \in Nat

VARIABLES
  owed,         \* parts of the payment the customer is due back
  late,         \* how far the capture of a late payment has come
  planned,      \* refund.initiatedAt is set
  awaiting,     \* refund.awaitingPaymentConfirmation
  alloc,        \* status of each allocation, "none" when it was not planned
  rid,          \* gatewayRefundId of the source allocation, 0 for null
  attempts,     \* attempts at the source allocation
  summary,      \* refund.status
  proc,         \* processing.state
  lock,         \* processing.lockedUntil lies ahead
  gw,           \* the gateway's refunds for this allocation
  credited,     \* times the customer's wallet was credited
  debited,      \* times the platform's wallet was debited
  visits,       \* times an administrator may still step in
  manual,       \* an administrator closed the refund by hand
  w,            \* what each process has read and is about to do
  past          \* history: the worst interference of two processes so far

plan == <<planned, awaiting>>
parts == <<alloc, rid, attempts>>
money == <<gw, credited, debited>>
lease == <<proc, lock>>
rest == <<owed, late, visits, manual>>
vars == <<rest, plan, parts, summary, lease, money, w, past>>

Parts == {"wallet", "source"}
Settled == {"none", "SUCCESSFUL", "MANUAL_REVIEW"}
Statuses == Settled \cup {"PENDING", "PROCESSING", "FAILED"}
Summaries == (Statuses \ {"none"}) \cup {"NOT_REQUIRED"}
Unfinished == {"PENDING", "PROCESSING", "FAILED"}
Refunds == 1..MaxRefunds
Live(r) == gw[r] \in {"PENDING", "SUCCESSFUL"}

\* A round holds the lease; an administrator's retry and a webhook do not.
Jobs == {"round", "retry", "webhook"}
Steps == {"idle", "read", "await", "freeze", "wallet", "wallet failed", "poll", "claim", "look up", "ask",
          "accept", "accept paid", "complete", "failed", "confirm", "refuse", "give up",
          "sum up", "report", "release", "reset", "resolve"}
Copies == [pc : Steps, job : Jobs, retry : BOOLEAN, saw : [Parts -> Statuses], rid : 0..MaxRefunds,
           worn : BOOLEAN, ref : 0..MaxRefunds, prev : Summaries, next : Summaries]

\* "unmarked": the plan or processing.state need not show the work that is left.
\* "overwritten": a write replaced what its writer had not seen, or a claim.
Past == {"clean", "unmarked", "overwritten"}
Unmark(here) == past' = IF past = "clean" /\ here THEN "unmarked" ELSE past
Overwrite(here) == past' = IF here THEN "overwritten" ELSE past

Nothing == [a \in Parts |-> "none"]
Plan == [a \in Parts |-> IF a \in owed THEN "PENDING" ELSE "none"]
Idle == [pc |-> "idle", job |-> "round", retry |-> FALSE, saw |-> Nothing, rid |-> 0,
         worn |-> FALSE, ref |-> 0, prev |-> "PENDING", next |-> "PENDING"]

\* The order was cancelled; its payment was captured, was none, or is not
\* confirmed yet and may still be captured.
Init ==
  /\ \E case \in Cases : owed = case.owed /\ late = case.late /\ visits = case.visits
  /\ planned = FALSE /\ awaiting = FALSE
  /\ alloc = Nothing /\ rid = 0 /\ attempts = 0
  /\ summary = "PENDING"
  /\ proc = "PENDING" /\ lock = FALSE
  /\ gw = [r \in Refunds |-> "none"] /\ credited = 0 /\ debited = 0
  /\ manual = FALSE
  /\ w = [p \in Workers |-> Idle]
  /\ past = "clean"

-----------------------------------------------------------------------------
(* How a process works on the record                                       *)

At(p, pc) == w[p].pc = pc
Become(p, copy) == w' = [w EXCEPT ![p] = copy]
GoTo(p, pc) == w' = [w EXCEPT ![p].pc = pc]
Leased == \E p \in Workers : w[p] # Idle /\ w[p].job = "round"

\* A copy of the record, or of its source allocation.
Copied(job, pc) == [Idle EXCEPT !.job = job, !.pc = pc, !.saw = alloc, !.rid = rid]

SeenSource(pc) == [Copied("webhook", pc) EXCEPT !.saw["wallet"] = "none"]

\* A round that met an error will be repeated.
Again(p, failed) == w[p].retry \/ (failed /\ w[p].job = "round")
SumUp(p, failed) ==
  Become(p, [Idle EXCEPT !.pc = "sum up", !.job = w[p].job, !.retry = Again(p, failed)])

\* What processCancellationRefund does about the source allocation it read.
ToSource(p, copy, failed) ==
  IF copy.saw["source"] \in Settled
    THEN SumUp(p, failed)
    ELSE Become(p, [copy EXCEPT
           !.pc = IF copy.rid # 0 THEN "poll" ELSE IF copy.worn THEN "give up" ELSE "claim",
           !.saw["wallet"] = "none", !.worn = FALSE, !.retry = Again(p, failed)])
ReleaseAgain(p) == Become(p, [Idle EXCEPT !.pc = "release", !.retry = TRUE])

\* A process between its claim of the source allocation and its last write.
AtGateway(q) == w[q].pc \in {"look up", "ask", "accept", "accept paid", "complete", "failed"}

\* The allocation is not what the process read or wrote last, or another process
\* has claimed it.
Changed(p, a) ==
  \/ alloc[a] # w[p].saw[a]
  \/ a = "source" /\ (rid # w[p].rid \/ \E q \in Workers \ {p} : AtGateway(q))

\* An update that sets an allocation's fields whatever they have become.
setAllocation(p, a, status, refundId) ==
  /\ alloc' = [alloc EXCEPT ![a] = status]
  /\ rid' = refundId
  /\ Overwrite(Changed(p, a))
  /\ UNCHANGED attempts

-----------------------------------------------------------------------------
(* A round: lease, plan, allocations, summary, release                     *)

TakeLease(p) ==
  /\ w[p] = Idle /\ ~lock
  /\ lock' = TRUE
  /\ Become(p, [Idle EXCEPT !.pc = "read"])
  /\ UNCHANGED <<rest, plan, parts, summary, proc, money, past>>

\* The record when it is planned, else the order to plan by.  An unconfirmed
\* payment is waited for, until the gateway denies it or the window is over.
ReadRecord(p) ==
  /\ At(p, "read")
  /\ \/ /\ planned
        /\ LET copy == [w[p] EXCEPT !.saw = alloc, !.rid = rid, !.worn = attempts >= MaxAttempts]
           IN  IF alloc["wallet"] \in {"PENDING", "FAILED"}
                 THEN Become(p, [copy EXCEPT !.pc = "wallet"])
                 ELSE ToSource(p, copy, FALSE)
     \/ /\ ~planned
        /\ Become(p, [w[p] EXCEPT !.pc = "freeze", !.saw = Plan])
     \/ ~planned /\ late = "none" /\ GoTo(p, "await")
  /\ UNCHANGED <<rest, plan, parts, summary, lease, money, past>>

AwaitConfirmation(p) ==
  /\ At(p, "await")
  /\ awaiting' = TRUE /\ summary' = "PENDING"
  /\ IF w[p].job = "round" THEN ReleaseAgain(p) ELSE Become(p, Idle)
  /\ UNCHANGED <<rest, planned, parts, lease, money, past>>

\* The plan is frozen once; the loser of a race goes on with the winner's.
planRefund(p) ==
  /\ At(p, "freeze")
  /\ IF planned
       THEN UNCHANGED <<plan, alloc, summary>>
       ELSE /\ planned' = TRUE /\ awaiting' = FALSE
            /\ alloc' = w[p].saw
            /\ summary' = IF w[p].saw = Nothing THEN "NOT_REQUIRED" ELSE "PENDING"
  /\ Unmark(~planned /\ w[p].saw # Plan)
  /\ Become(p, [w[p] EXCEPT !.pc = "read", !.saw = Nothing])
  /\ UNCHANGED <<rest, rid, attempts, lease, money>>

\* One transaction with a ledger key; its failure, or a reply that is lost
\* after it committed, is noted by a write of its own.
processWalletDestination(p) ==
  /\ At(p, "wallet")
  /\ \/ /\ alloc["wallet"] \in {"PENDING", "FAILED"}
        /\ alloc' = [alloc EXCEPT !["wallet"] = "SUCCESSFUL"]
        /\ credited' = IF credited = 0 THEN credited + 1 ELSE credited
        /\ ToSource(p, w[p], FALSE) \/ GoTo(p, "wallet failed")
     \/ /\ alloc["wallet"] \notin {"PENDING", "FAILED"}
        /\ ToSource(p, w[p], FALSE) /\ UNCHANGED <<alloc, credited>>
     \/ GoTo(p, "wallet failed") /\ UNCHANGED <<alloc, credited>>
  /\ UNCHANGED <<rest, plan, rid, attempts, summary, lease, gw, debited, past>>

WalletFailed(p) ==
  /\ At(p, "wallet failed")
  /\ setAllocation(p, "wallet", "FAILED", rid)
  /\ ToSource(p, w[p], TRUE)
  /\ UNCHANGED <<rest, plan, summary, lease, money>>

\* The claim of another is taken over five minutes after it was made.
Claimable ==
  \/ alloc["source"] \in {"PENDING", "FAILED"}
  \/ alloc["source"] = "PROCESSING" /\ rid = 0 /\ \A q \in Workers : ~AtGateway(q)

claimAllocation(p) ==
  /\ At(p, "claim")
  /\ IF Claimable
       THEN /\ alloc' = [alloc EXCEPT !["source"] = "PROCESSING"]
            /\ attempts' = IF attempts < MaxAttempts THEN attempts + 1 ELSE attempts
            /\ Become(p, [w[p] EXCEPT !.pc = "look up", !.saw["source"] = "PROCESSING"])
       ELSE SumUp(p, FALSE) /\ UNCHANGED <<alloc, attempts>>
  /\ UNCHANGED <<rest, plan, rid, summary, lease, money, past>>

\* With a fault: a refund the gateway has only accepted is confirmed.
PollRefundHastily(p) ==
  /\ At(p, "poll") /\ w[p].rid # 0
  /\ \/ gw[w[p].rid] \in {"PENDING", "SUCCESSFUL"} /\ GoTo(p, "confirm")
     \/ gw[w[p].rid] = "FAILED" /\ GoTo(p, "refuse")
     \/ SumUp(p, TRUE)
  /\ UNCHANGED <<rest, plan, parts, summary, lease, money, past>>

\* A refund the gateway accepted is asked after.
PollRefund(p) ==
  /\ At(p, "poll") /\ w[p].rid # 0
  /\ \/ gw[w[p].rid] = "SUCCESSFUL" /\ GoTo(p, "confirm")
     \/ gw[w[p].rid] = "FAILED" /\ GoTo(p, "refuse")
     \/ gw[w[p].rid] = "PENDING" /\ SumUp(p, FALSE)
     \/ SumUp(p, TRUE)
  /\ UNCHANGED <<rest, plan, parts, summary, lease, money, past>>

\* With a fault: the gateway is not asked for an earlier refund.
findRefundsNever(p) ==
  /\ At(p, "look up") /\ GoTo(p, "ask")
  /\ UNCHANGED <<rest, plan, parts, summary, lease, money, past>>

\* An earlier attempt may have reached the gateway before its reply was lost.
findRefunds(p) ==
  /\ At(p, "look up")
  /\ \/ GoTo(p, "failed")
     \/ (\A r \in Refunds : ~Live(r)) /\ GoTo(p, "ask")
     \/ \E r \in Refunds :
          /\ Live(r)
          /\ Become(p, [w[p] EXCEPT !.ref = r,
                          !.pc = IF gw[r] = "SUCCESSFUL" THEN "accept paid" ELSE "accept"])
  /\ UNCHANGED <<rest, plan, parts, summary, lease, money, past>>

refundPayment(p) ==
  /\ At(p, "ask")
  /\ \/ GoTo(p, "failed") /\ UNCHANGED gw
     \/ \E r \in Refunds, answer \in {"PENDING", "SUCCESSFUL"} :
          /\ gw[r] = "none" /\ \A s \in Refunds : s < r => gw[s] # "none"
          /\ gw' = [gw EXCEPT ![r] = answer]
          /\ \/ GoTo(p, "failed")
             \/ Become(p, [w[p] EXCEPT !.ref = r,
                             !.pc = IF answer = "SUCCESSFUL" THEN "accept paid" ELSE "accept"])
  /\ UNCHANGED <<rest, plan, parts, summary, lease, credited, debited, past>>

AcceptRefund(p) ==
  /\ At(p, "accept") \/ At(p, "accept paid")
  /\ setAllocation(p, "source", "PROCESSING", w[p].ref)
  /\ IF At(p, "accept")
       THEN SumUp(p, FALSE)
       ELSE Become(p, [w[p] EXCEPT !.pc = "complete", !.rid = w[p].ref, !.ref = 0])
  /\ UNCHANGED <<rest, plan, summary, lease, money>>

\* With a fault: the ledger does not know the key of the first debit.
completeGatewayAllocationNoKey(p) ==
  /\ At(p, "complete") \/ At(p, "confirm")
  /\ alloc' = [alloc EXCEPT !["source"] = "SUCCESSFUL"]
  /\ debited' = IF alloc["source"] # "SUCCESSFUL" THEN debited + 1 ELSE debited
  /\ SumUp(p, FALSE)
  /\ UNCHANGED <<rest, plan, rid, attempts, summary, lease, gw, credited, past>>

\* One transaction with a ledger key, unless the allocation is done already.
completeGatewayAllocation(p) ==
  /\ At(p, "complete") \/ At(p, "confirm")
  /\ alloc' = [alloc EXCEPT !["source"] = "SUCCESSFUL"]
  /\ debited' = IF alloc["source"] # "SUCCESSFUL" /\ debited = 0 THEN debited + 1 ELSE debited
  /\ SumUp(p, FALSE)
  /\ UNCHANGED <<rest, plan, rid, attempts, summary, lease, gw, credited, past>>

RefundFailed(p) ==
  /\ At(p, "failed")
  /\ setAllocation(p, "source", "FAILED", rid)
  /\ SumUp(p, TRUE)
  /\ UNCHANGED <<rest, plan, summary, lease, money>>

RefundRefused(p) ==
  /\ At(p, "refuse")
  /\ setAllocation(p, "source", "FAILED", 0)
  /\ SumUp(p, FALSE)
  /\ UNCHANGED <<rest, plan, summary, lease, money>>

GiveUp(p) ==
  /\ At(p, "give up")
  /\ setAllocation(p, "source", "MANUAL_REVIEW", rid)
  /\ SumUp(p, FALSE)
  /\ UNCHANGED <<rest, plan, summary, lease, money>>

\* With a fault: a record without allocations has no status.
aggregateStatusEmpty ==
  LET found == {alloc[a] : a \in Parts} \ {"none"}
  IN  IF found = {} THEN "none"
      ELSE IF found = {"SUCCESSFUL"} THEN "SUCCESSFUL"
      ELSE IF "MANUAL_REVIEW" \in found THEN "MANUAL_REVIEW"
      ELSE IF "FAILED" \in found THEN "FAILED"
      ELSE "PENDING"

aggregateStatus ==
  LET found == {alloc[a] : a \in Parts} \ {"none"}
  IN  IF found = {} THEN "NOT_REQUIRED"
      ELSE IF found = {"SUCCESSFUL"} THEN "SUCCESSFUL"
      ELSE IF "MANUAL_REVIEW" \in found THEN "MANUAL_REVIEW"
      ELSE IF "FAILED" \in found THEN "FAILED"
      ELSE IF "PROCESSING" \in found THEN "PROCESSING"
      ELSE "PENDING"

\* With a fault: a refund the gateway refused is not tried again.
ConcludeFailed(p, status) ==
  IF w[p].job = "round"
    THEN Become(p, [Idle EXCEPT !.pc = "release",
           !.retry = w[p].retry \/ status \in {"PENDING", "PROCESSING"}])
    ELSE Become(p, Idle)

\* What the round makes of the status it ended with.
Conclude(p, status) ==
  IF w[p].job = "round"
    THEN Become(p, [Idle EXCEPT !.pc = "release", !.retry = w[p].retry \/ status \in Unfinished])
    ELSE Become(p, Idle)

finalizeRefundStatus(p) ==
  \/ /\ At(p, "sum up")
     /\ IF summary = aggregateStatus
          THEN Conclude(p, summary)
          ELSE Become(p, [Idle EXCEPT !.pc = "report", !.job = w[p].job, !.retry = w[p].retry,
                                      !.prev = summary, !.next = aggregateStatus])
     /\ UNCHANGED <<rest, plan, parts, summary, lease, money, past>>
  \/ /\ At(p, "report")
     /\ IF summary = w[p].prev
          THEN /\ summary' = w[p].next /\ Conclude(p, w[p].next)
          ELSE UNCHANGED summary /\ Conclude(p, w[p].prev)
     /\ Unmark(summary # w[p].prev)
     /\ UNCHANGED <<rest, plan, parts, lease, money>>

\* The settlement and the notifications of the round may have failed too, and the
\* round may be the last that RECONCILE_MAX_ATTEMPTS allows.  The write does not
\* ask who holds the lease by now, or what was added to the record meanwhile.
Release(p) ==
  /\ At(p, "release")
  /\ \E pending \in {w[p].retry, TRUE}, exhausted \in BOOLEAN :
       LET waitingExternally == summary = "PROCESSING" \/ awaiting
       IN  proc' = IF ~pending THEN "DONE"
                   ELSE IF exhausted /\ ~waitingExternally THEN "FAILED" ELSE "PENDING"
  /\ lock' = FALSE
  /\ Become(p, Idle)
  /\ UNCHANGED <<rest, plan, parts, summary, money, past>>

-----------------------------------------------------------------------------
(* Webhooks, administrators and late payments                              *)

handleGatewayRefundUpdate(p) ==
  /\ w[p] = Idle
  /\ rid # 0 /\ alloc["source"] # "SUCCESSFUL"
  /\ \/ gw[rid] = "SUCCESSFUL" /\ Become(p, SeenSource("confirm"))
     \/ gw[rid] = "FAILED" /\ Become(p, SeenSource("refuse"))
  /\ UNCHANGED <<rest, plan, parts, summary, lease, money, past>>

\* One administrator at a time; the copy remembers whether a round is due, too.
Administer(p) ==
  /\ w[p] = Idle
  /\ summary \in {"FAILED", "MANUAL_REVIEW"}
  /\ visits > 0 /\ visits' = visits - 1
  /\ \A q \in Workers : w[q].pc \notin {"reset", "resolve"}
  /\ \/ Become(p, [Copied("retry", "reset") EXCEPT !.retry = proc = "PENDING"])
     \/ Become(p, Copied("retry", "resolve"))
  /\ UNCHANGED <<owed, late, manual, plan, parts, summary, lease, money, past>>

\* A save sends the fields that differ from what was loaded.
SaveParts(modified, value) ==
  alloc' = [a \in Parts |-> IF a \in modified THEN value[a] ELSE alloc[a]]

resetFailedRefund(p) ==
  /\ At(p, "reset")
  /\ LET failed == {a \in Parts : w[p].saw[a] \in {"FAILED", "MANUAL_REVIEW"}}
     IN  /\ SaveParts(failed, [a \in Parts |-> IF a = "source" /\ w[p].rid # 0 THEN "PROCESSING" ELSE "PENDING"])
         /\ attempts' = IF "source" \in failed THEN 0 ELSE attempts
         /\ proc' = IF w[p].retry THEN proc ELSE "PENDING"
         /\ IF \E a \in failed : Changed(p, a) THEN Overwrite(TRUE) ELSE Unmark(Leased \/ proc' # "PENDING")
  /\ summary' = "PENDING"
  /\ Become(p, [Idle EXCEPT !.job = "retry", !.pc = "read"])
  /\ UNCHANGED <<rest, plan, rid, lock, money>>

resolveRefundManually(p) ==
  /\ At(p, "resolve")
  /\ LET open == {a \in Parts : w[p].saw[a] \notin {"none", "SUCCESSFUL"}}
     IN  /\ SaveParts(open, [a \in Parts |-> "SUCCESSFUL"])
         /\ Overwrite(\E a \in open : Changed(p, a))
  /\ summary' = "SUCCESSFUL" /\ manual' = TRUE
  /\ Become(p, Idle)
  /\ UNCHANGED <<owed, late, visits, plan, rid, attempts, lease, money>>

\* The gateway captures the payment of the cancelled order; the handler then
\* adds an allocation, unless the plan is still to be made, and wakes the record.
LateCapture ==
  /\ late = "none" /\ late' = "captured"
  /\ owed' = owed \cup {"source"}
  /\ UNCHANGED <<visits, manual, plan, parts, summary, lease, money, w, past>>

addLateCaptureAllocation ==
  \/ /\ late = "captured"
     /\ late' = IF planned /\ alloc["source"] = "none" THEN "push" ELSE "wake"
     /\ UNCHANGED <<alloc, summary, proc, past>>
  \/ /\ late = "push" /\ late' = "wake"
     /\ IF alloc["source"] = "none"
          THEN /\ alloc' = [alloc EXCEPT !["source"] = "PENDING"]
               /\ summary' = "PENDING" /\ proc' = "PENDING"
               /\ Unmark(Leased)
          ELSE UNCHANGED <<alloc, summary, proc, past>>

onLatePaymentCapture ==
  /\ \/ addLateCaptureAllocation
     \/ /\ late = "wake" /\ late' = "over" /\ proc' = "PENDING"
        /\ UNCHANGED <<alloc, summary, past>>
  /\ UNCHANGED <<owed, visits, manual, plan, rid, attempts, lock, money, w>>

-----------------------------------------------------------------------------
(* Time, the gateway and failures                                          *)

LeaseExpires ==
  /\ lock /\ lock' = FALSE
  /\ UNCHANGED <<rest, plan, parts, summary, proc, money, w, past>>

GatewaySettles ==
  /\ \E r \in Refunds, outcome \in {"SUCCESSFUL", "FAILED"} :
       gw[r] = "PENDING" /\ gw' = [gw EXCEPT ![r] = outcome]
  /\ UNCHANGED <<rest, plan, parts, summary, lease, credited, debited, w, past>>

\* A call to the database fails: the handler's catch decides what comes next.
Stumble(p) ==
  /\ w[p].job # "webhook"
  /\ \/ w[p].pc \in {"accept", "accept paid", "complete"} /\ GoTo(p, "failed")
     \/ At(p, "wallet failed") /\ ToSource(p, w[p], TRUE)
     \/ w[p].pc \in {"confirm", "refuse", "give up", "failed"} /\ SumUp(p, TRUE)
     \/ /\ w[p].job = "round"
        /\ w[p].pc \in {"read", "await", "freeze", "sum up", "report"}
        /\ ReleaseAgain(p)
  /\ UNCHANGED <<rest, plan, parts, summary, lease, money, past>>

\* A process dies, or a webhook's or a retry's call fails.
Die(p) ==
  /\ w[p] # Idle /\ Become(p, Idle)
  /\ UNCHANGED <<rest, plan, parts, summary, lease, money, past>>

LateHandlerDies ==
  /\ late \in {"captured", "push", "wake"} /\ late' = "over"
  /\ Unmark(planned /\ alloc["source"] = "none")
  /\ UNCHANGED <<owed, visits, manual, plan, parts, summary, lease, money, w>>

Work(p) ==
  \/ TakeLease(p) \/ ReadRecord(p) \/ AwaitConfirmation(p) \/ planRefund(p)
  \/ processWalletDestination(p) \/ WalletFailed(p)
  \/ claimAllocation(p) \/ PollRefund(p) \/ findRefunds(p) \/ refundPayment(p) \/ AcceptRefund(p)
  \/ completeGatewayAllocation(p) \/ RefundFailed(p) \/ RefundRefused(p) \/ GiveUp(p)
  \/ finalizeRefundStatus(p) \/ Release(p)
  \/ handleGatewayRefundUpdate(p)
  \/ Administer(p) \/ resetFailedRefund(p) \/ resolveRefundManually(p)
  \/ Stumble(p) \/ Die(p)

Next ==
  \/ \E p \in Workers : Work(p)
  \/ LateCapture \/ onLatePaymentCapture \/ LateHandlerDies
  \/ LeaseExpires \/ GatewaySettles

Spec == Init /\ [][Next]_vars

-----------------------------------------------------------------------------
(* Properties                                                              *)

\* The ranges the record's schema and the wallets' ledger keep
\* (orderCancellation.js).
TypeOK ==
  /\ owed \subseteq Parts /\ late \in {"none", "captured", "push", "wake", "over"}
  /\ planned \in BOOLEAN /\ awaiting \in BOOLEAN
  /\ alloc \in [Parts -> Statuses] /\ rid \in 0..MaxRefunds /\ attempts \in 0..MaxAttempts
  /\ summary \in Summaries
  /\ proc \in {"PENDING", "DONE", "FAILED"} /\ lock \in BOOLEAN
  /\ gw \in [Refunds -> {"none", "PENDING", "SUCCESSFUL", "FAILED"}]
  /\ credited \in Nat /\ debited \in Nat
  /\ visits \in Nat /\ manual \in BOOLEAN
  /\ w \in [Workers -> Copies]
  /\ past \in Past

\* creditCustomerWallet and debitPlatformForGatewayRefund: however often an
\* allocation falls back to FAILED after its money moved, it moves once.
MoneyMovesOnce == credited <= 1 /\ debited <= 1

\* processOriginalSource: attempts that timed out, died or were refused never
\* leave two refunds at the gateway, unless a write replaced another's claim.
OneLiveRefund ==
  past # "overwritten" => \A r, s \in Refunds : Live(r) /\ Live(s) => r = s

\* An allocation marked successful was paid, unless it was closed by hand: the
\* wallet was credited, or the gateway paid and the platform's wallet says so.
SuccessMeansPaid ==
  ~manual =>
    /\ alloc["wallet"] = "SUCCESSFUL" => credited > 0
    /\ alloc["source"] = "SUCCESSFUL" => debited > 0 /\ \E r \in Refunds : gw[r] = "SUCCESSFUL"

\* processCancellation: a record that is no longer looked at has a plan, and all
\* the customer is owed, a late payment included, is paid back or on an
\* administrator's list, unless two processes got in each other's way (past).
DoneMeansSettled ==
  proc = "DONE" /\ past = "clean" /\ late \notin {"captured", "push"} =>
    planned /\ \A a \in owed : alloc[a] \in Settled \ {"none"}
=============================================================================
