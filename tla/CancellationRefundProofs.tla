---------------------- MODULE CancellationRefundProofs ----------------------
(***************************************************************************)
(* Theorems of CancellationRefund, for any number of processes at work on  *)
(* the record, refunds, attempts and administrators.                       *)
(***************************************************************************)
EXTENDS CancellationRefund, TLAPS

-----------------------------------------------------------------------------
(* Types                                                                   *)

\* Filling in fields of a copy keeps its type.
LEMMA CopyType ==
  /\ Idle \in Copies
  /\ \A c \in Copies, pc \in Steps : [c EXCEPT !.pc = pc] \in Copies
<1>1. Idle \in Copies
  <2>1. 0 \in 0..MaxRefunds
    BY RefundAssumption
  <2> QED BY <2>1 DEF Idle, Copies, Steps, Jobs, Nothing, Parts, Statuses, Settled, Summaries
<1>2. \A c \in Copies, pc \in Steps : [c EXCEPT !.pc = pc] \in Copies
  BY DEF Copies
<1> QED BY <1>1, <1>2

\* One process takes on a copy, and the others keep theirs.
LEMMA BecomeType ==
  ASSUME TypeOK, NEW p \in Workers, NEW c \in Copies, Become(p, c)
  PROVE  w' \in [Workers -> Copies] /\ w'[p] = c /\ \A q \in Workers \ {p} : w'[q] = w[q]
BY DEF TypeOK, Become

LEMMA GoToType ==
  ASSUME TypeOK, NEW p \in Workers, NEW pc \in Steps, GoTo(p, pc)
  PROVE  /\ w' \in [Workers -> Copies] /\ w'[p] = [w[p] EXCEPT !.pc = pc]
         /\ \A q \in Workers \ {p} : w'[q] = w[q]
<1>1. w[p] \in Copies
  BY DEF TypeOK
<1>2. Become(p, [w[p] EXCEPT !.pc = pc])
  BY <1>1 DEF TypeOK, GoTo, Become, Copies
<1> QED BY <1>1, <1>2, BecomeType, CopyType DEF Jobs

LEMMA SumUpType ==
  ASSUME TypeOK, NEW p \in Workers, NEW failed \in BOOLEAN, SumUp(p, failed)
  PROVE  /\ w' \in [Workers -> Copies] /\ w'[p].pc = "sum up"
         /\ \A q \in Workers \ {p} : w'[q] = w[q]
<1> DEFINE copy == [Idle EXCEPT !.pc = "sum up", !.job = w[p].job, !.retry = Again(p, failed)]
<1>1. w[p].job \in Jobs /\ Again(p, failed) \in BOOLEAN
  BY DEF TypeOK, Copies, Again
<1>2. copy \in Copies /\ copy.pc = "sum up"
  <2>1. PICK c \in Copies : c = Idle
    BY CopyType
  <2>2. [c EXCEPT !.pc = "sum up", !.job = w[p].job, !.retry = Again(p, failed)] \in Copies
    BY <1>1 DEF Copies, Steps
  <2>3. [c EXCEPT !.pc = "sum up", !.job = w[p].job, !.retry = Again(p, failed)].pc = "sum up"
    BY DEF Copies
  <2> QED BY <2>1, <2>2, <2>3
<1> QED BY <1>2, BecomeType DEF SumUp

LEMMA ReleaseAgainType ==
  ASSUME TypeOK, NEW p \in Workers, ReleaseAgain(p)
  PROVE  /\ w' \in [Workers -> Copies] /\ w'[p].pc = "release"
         /\ \A q \in Workers \ {p} : w'[q] = w[q]
<1> DEFINE copy == [Idle EXCEPT !.pc = "release", !.retry = TRUE]
<1>2. copy \in Copies /\ copy.pc = "release"
  <2>1. PICK c \in Copies : c = Idle
    BY CopyType
  <2>2. [c EXCEPT !.pc = "release", !.retry = TRUE] \in Copies
    BY DEF Copies, Steps
  <2>3. [c EXCEPT !.pc = "release", !.retry = TRUE].pc = "release"
    BY DEF Copies
  <2> QED BY <2>1, <2>2, <2>3
<1> QED BY <1>2, BecomeType DEF ReleaseAgain

LEMMA ConcludeType ==
  ASSUME TypeOK, NEW p \in Workers, NEW status \in Summaries, Conclude(p, status)
  PROVE  /\ w' \in [Workers -> Copies] /\ w'[p].pc \in {"release", "idle"}
         /\ \A q \in Workers \ {p} : w'[q] = w[q]
<1> DEFINE copy == [Idle EXCEPT !.pc = "release", !.retry = w[p].retry \/ status \in Unfinished]
<1>1. w[p].retry \in BOOLEAN
  BY DEF TypeOK, Copies
<1>4. copy \in Copies /\ copy.pc = "release"
  <2>1. PICK c \in Copies : c = Idle
    BY CopyType
  <2>2. [c EXCEPT !.pc = "release", !.retry = w[p].retry \/ status \in Unfinished] \in Copies
    BY <1>1 DEF Copies, Steps
  <2>3. [c EXCEPT !.pc = "release", !.retry = w[p].retry \/ status \in Unfinished].pc = "release"
    BY DEF Copies
  <2> QED BY <2>1, <2>2, <2>3
<1>3. Idle \in Copies /\ Idle.pc = "idle"
  BY CopyType DEF Idle
<1> QED BY <1>3, <1>4, BecomeType DEF Conclude

\* From the wallet to the source allocation, or past it.
LEMMA ToSourceType ==
  ASSUME TypeOK, NEW p \in Workers, NEW copy \in Copies, NEW failed \in BOOLEAN,
         ToSource(p, copy, failed)
  PROVE  /\ w' \in [Workers -> Copies] /\ w'[p].pc \in {"sum up", "poll", "claim", "give up"}
         /\ \A q \in Workers \ {p} : w'[q] = w[q]
<1> DEFINE pc == IF copy.rid # 0 THEN "poll" ELSE IF copy.worn THEN "give up" ELSE "claim"
           next == [copy EXCEPT !.pc = pc, !.saw["wallet"] = "none", !.worn = FALSE,
                                !.retry = Again(p, failed)]
<1>1. CASE copy.saw["source"] \in Settled
  <2>1. SumUp(p, failed)
    BY <1>1 DEF ToSource
  <2> QED BY <2>1, SumUpType
<1>2. CASE copy.saw["source"] \notin Settled
  <2>1. Again(p, failed) \in BOOLEAN
    BY DEF TypeOK, Copies, Again
  <2>2. pc \in {"poll", "claim", "give up"}
    OBVIOUS
  <2>3. next \in Copies /\ next.pc = pc
    BY <2>1, <2>2 DEF Copies, Steps, Statuses, Settled, Parts
  <2>4. Become(p, next)
    BY <1>2 DEF ToSource
  <2> HIDE DEF pc, next
  <2> QED BY <2>2, <2>3, <2>4, BecomeType
<1> QED BY <1>1, <1>2

\* A process that reaches one of the steps pcs; the state keeps its types.
Typed(p, pcs) ==
  /\ TypeOK' /\ w'[p].pc \in pcs
  /\ \A q \in Workers \ {p} : w'[q] = w[q]

AfterWallet == {"sum up", "poll", "claim", "give up"}

\* What has no type but its own: everything but the processes' copies.
RecordTypes ==
  /\ owed \subseteq Parts /\ late \in {"none", "captured", "push", "wake", "over"}
  /\ planned \in BOOLEAN /\ awaiting \in BOOLEAN
  /\ alloc \in [Parts -> Statuses] /\ rid \in 0..MaxRefunds /\ attempts \in 0..MaxAttempts
  /\ summary \in Summaries
  /\ proc \in {"PENDING", "DONE", "FAILED"} /\ lock \in BOOLEAN
  /\ gw \in [Refunds -> {"none", "PENDING", "SUCCESSFUL", "FAILED"}]
  /\ credited \in Nat /\ debited \in Nat
  /\ visits \in Nat /\ manual \in BOOLEAN
  /\ past \in Past

LEMMA TypeParts == /\ TypeOK <=> RecordTypes /\ w \in [Workers -> Copies]
                   /\ TypeOK' <=> RecordTypes' /\ w' \in [Workers -> Copies]
BY DEF TypeOK, RecordTypes

\* The history keeps its type.
LEMMA PastType ==
  ASSUME RecordTypes, NEW here \in BOOLEAN
  PROVE  (Unmark(here) => past' \in Past) /\ (Overwrite(here) => past' \in Past)
BY DEF RecordTypes, Unmark, Overwrite, Past

\* Setting an allocation keeps its type.
LEMMA SetType ==
  ASSUME RecordTypes, NEW p \in Workers, NEW a \in Parts, NEW status \in Statuses,
         NEW refundId \in 0..MaxRefunds, setAllocation(p, a, status, refundId)
  PROVE  /\ alloc' \in [Parts -> Statuses] /\ rid' \in 0..MaxRefunds
         /\ attempts' = attempts /\ past' \in Past
<1>1. Changed(p, a) \in BOOLEAN
  BY DEF Changed
<1>2. past' \in Past
  BY <1>1, PastType DEF setAllocation
<1> QED BY <1>2 DEF setAllocation, RecordTypes

LEMMA AggregateType ==
  ASSUME RecordTypes
  PROVE  aggregateStatus \in Summaries
BY DEF RecordTypes, aggregateStatus, Summaries, Statuses, Settled

\* Steps of a round before the source allocation.
LEMMA EarlySteps ==
  ASSUME TypeOK, NEW p \in Workers
  PROVE  /\ TakeLease(p) => Typed(p, {"read"})
         /\ ReadRecord(p) => Typed(p, AfterWallet \cup {"wallet", "freeze", "await"})
         /\ AwaitConfirmation(p) => Typed(p, {"release", "idle"})
         /\ planRefund(p) => Typed(p, {"read"})
         /\ processWalletDestination(p) => Typed(p, AfterWallet \cup {"wallet failed"})
         /\ WalletFailed(p) => Typed(p, AfterWallet)
<1> USE DEF rest, plan, parts, lease, money
<1>0. w[p] \in Copies /\ RecordTypes /\ "wallet" \in Parts /\ "source" \in Parts
  BY TypeParts DEF TypeOK, Parts
<1>1. ASSUME TakeLease(p) PROVE Typed(p, {"read"})
  <2>1. [Idle EXCEPT !.pc = "read"] \in Copies /\ [Idle EXCEPT !.pc = "read"].pc = "read"
    BY CopyType DEF Steps, Idle
  <2>2. w' \in [Workers -> Copies] /\ w'[p].pc = "read" /\ \A q \in Workers \ {p} : w'[q] = w[q]
    BY <1>1, <2>1, BecomeType DEF TakeLease
  <2>3. RecordTypes'
    BY <1>0, <1>1 DEF TakeLease, RecordTypes
  <2> QED BY <2>2, <2>3, TypeParts DEF Typed
<1>2. ASSUME ReadRecord(p) PROVE Typed(p, AfterWallet \cup {"wallet", "freeze", "await"})
  <2>1. RecordTypes'
    BY <1>0, <1>2 DEF ReadRecord, RecordTypes
  <2> DEFINE copy == [w[p] EXCEPT !.saw = alloc, !.rid = rid, !.worn = attempts >= MaxAttempts]
             copyW == [copy EXCEPT !.pc = "wallet"]
             copyF == [w[p] EXCEPT !.pc = "freeze", !.saw = Plan]
  <2>2. copy \in Copies
    <3>1. PICK c \in Copies : c = w[p]
      BY <1>0
    <3>2. (attempts >= MaxAttempts) \in BOOLEAN
      OBVIOUS
    <3>3. [c EXCEPT !.saw = alloc, !.rid = rid, !.worn = attempts >= MaxAttempts] \in Copies
      BY <1>0, <3>2 DEF Copies, RecordTypes
    <3> QED BY <3>1, <3>3
  <2>3. copyW \in Copies /\ copyW.pc = "wallet"
    <3>1. PICK c \in Copies : c = copy
      BY <2>2
    <3>2. [c EXCEPT !.pc = "wallet"] \in Copies /\ [c EXCEPT !.pc = "wallet"].pc = "wallet"
      BY DEF Copies, Steps
    <3> QED BY <3>1, <3>2
  <2>4. copyF \in Copies /\ copyF.pc = "freeze"
    <3>1. PICK c \in Copies : c = w[p]
      BY <1>0
    <3>2. Plan \in [Parts -> Statuses]
      BY DEF Plan, Statuses, Settled
    <3>3. [c EXCEPT !.pc = "freeze", !.saw = Plan] \in Copies
      BY <3>2 DEF Copies, Steps
    <3>4. [c EXCEPT !.pc = "freeze", !.saw = Plan].pc = "freeze"
      BY DEF Copies
    <3> QED BY <3>1, <3>3, <3>4
  <2>5. Become(p, copyW) \/ ToSource(p, copy, FALSE) \/ Become(p, copyF) \/ GoTo(p, "await")
    BY <1>2 DEF ReadRecord
  <2> HIDE DEF copy, copyW, copyF
  <2>6. CASE Become(p, copyW)
    BY <2>1, <2>3, <2>6, BecomeType, TypeParts DEF Typed
  <2>7. CASE ToSource(p, copy, FALSE)
    BY <2>1, <2>2, <2>7, ToSourceType, TypeParts DEF Typed, AfterWallet
  <2>8. CASE Become(p, copyF)
    BY <2>1, <2>4, <2>8, BecomeType, TypeParts DEF Typed
  <2>9. CASE GoTo(p, "await")
    <3>1. "await" \in Steps /\ [w[p] EXCEPT !.pc = "await"].pc = "await"
      BY <1>0 DEF Steps, Copies
    <3> QED BY <2>1, <2>9, <3>1, GoToType, TypeParts DEF Typed
  <2> QED BY <2>5, <2>6, <2>7, <2>8, <2>9
<1>3. ASSUME AwaitConfirmation(p) PROVE Typed(p, {"release", "idle"})
  <2>1. RecordTypes'
    BY <1>0, <1>3 DEF AwaitConfirmation, RecordTypes, Summaries, Statuses, Settled
  <2>2. ReleaseAgain(p) \/ Become(p, Idle)
    BY <1>3 DEF AwaitConfirmation
  <2>3. Idle \in Copies /\ Idle.pc = "idle"
    BY CopyType DEF Idle
  <2> QED BY <2>1, <2>2, <2>3, ReleaseAgainType, BecomeType, TypeParts DEF Typed
<1>4. ASSUME planRefund(p) PROVE Typed(p, {"read"})
  <2> DEFINE copy == [w[p] EXCEPT !.pc = "read", !.saw = Nothing]
  <2>1. w[p].saw \in [Parts -> Statuses]
    BY <1>0 DEF Copies
  <2>2. past' \in Past
    <3>1. (~planned /\ w[p].saw # Plan) \in BOOLEAN
      OBVIOUS
    <3> QED BY <1>0, <1>4, <3>1, PastType DEF planRefund
  <2>3. RecordTypes'
    BY <1>0, <1>4, <2>1, <2>2 DEF planRefund, RecordTypes, Summaries, Statuses, Settled
  <2>4. copy \in Copies /\ copy.pc = "read"
    BY <1>0 DEF Copies, Steps, Nothing, Statuses, Settled
  <2>5. Become(p, copy)
    BY <1>4 DEF planRefund
  <2> HIDE DEF copy
  <2> QED BY <2>3, <2>4, <2>5, BecomeType, TypeParts DEF Typed
<1>5. ASSUME NEW failed \in BOOLEAN, ToSource(p, w[p], failed), RecordTypes'
      PROVE  Typed(p, AfterWallet)
  BY <1>0, <1>5, ToSourceType, TypeParts DEF Typed, AfterWallet
<1>6. ASSUME processWalletDestination(p) PROVE Typed(p, AfterWallet \cup {"wallet failed"})
  <2>0. /\ alloc' \in {alloc, [alloc EXCEPT !["wallet"] = "SUCCESSFUL"]}
        /\ credited' \in {credited, credited + 1}
        /\ UNCHANGED <<rest, plan, rid, attempts, summary, lease, gw, debited, past>>
    BY <1>6 DEF processWalletDestination
  <2>1. RecordTypes'
    BY <1>0, <2>0 DEF RecordTypes, Statuses, Settled
  <2>2. ToSource(p, w[p], FALSE) \/ GoTo(p, "wallet failed")
    BY <1>6 DEF processWalletDestination
  <2>3. "wallet failed" \in Steps /\ [w[p] EXCEPT !.pc = "wallet failed"].pc = "wallet failed"
    BY <1>0 DEF Steps, Copies
  <2>4. CASE GoTo(p, "wallet failed")
    BY <2>1, <2>3, <2>4, GoToType, TypeParts DEF Typed
  <2>5. CASE ToSource(p, w[p], FALSE)
    <3>1. Typed(p, AfterWallet)
      BY <1>5, <2>1, <2>5
    <3> QED BY <3>1 DEF Typed
  <2> QED BY <2>2, <2>4, <2>5
<1>7. ASSUME WalletFailed(p) PROVE Typed(p, AfterWallet)
  <2>1. setAllocation(p, "wallet", "FAILED", rid) /\ ToSource(p, w[p], TRUE)
    BY <1>7 DEF WalletFailed
  <2>2. RecordTypes'
    BY <1>0, <1>7, <2>1, SetType DEF WalletFailed, RecordTypes, Statuses
  <2> QED BY <1>5, <2>1, <2>2
<1> QED BY <1>1, <1>2, <1>3, <1>4, <1>6, <1>7

LEMMA RefundNumbers == /\ \A r \in Refunds : r \in 0..MaxRefunds
                       /\ \A r \in 0..MaxRefunds : r # 0 => r \in Refunds
<1>1. MaxRefunds \in Nat
  BY RefundAssumption
<1>2. /\ \A r \in 1..MaxRefunds : r \in 0..MaxRefunds
      /\ \A r \in 0..MaxRefunds : r # 0 => r \in 1..MaxRefunds
  BY <1>1, SMTT(30)
<1> QED BY <1>2 DEF Refunds

\* Steps of the source allocation.
LEMMA SourceSteps ==
  ASSUME TypeOK, NEW p \in Workers
  PROVE  /\ claimAllocation(p) => Typed(p, {"look up", "sum up"})
         /\ PollRefund(p) => Typed(p, {"confirm", "refuse", "sum up"})
         /\ findRefunds(p) => Typed(p, {"failed", "ask", "accept", "accept paid"})
         /\ refundPayment(p) => Typed(p, {"failed", "accept", "accept paid"})
         /\ AcceptRefund(p) => Typed(p, {"sum up", "complete"})
         /\ completeGatewayAllocation(p) => Typed(p, {"sum up"})
         /\ RefundFailed(p) => Typed(p, {"sum up"})
         /\ RefundRefused(p) => Typed(p, {"sum up"})
         /\ GiveUp(p) => Typed(p, {"sum up"})
<1> USE DEF rest, plan, parts, lease, money
<1>0. w[p] \in Copies /\ RecordTypes /\ "wallet" \in Parts /\ "source" \in Parts
  BY TypeParts DEF TypeOK, Parts
<1>a. ASSUME NEW failed \in BOOLEAN, SumUp(p, failed), RecordTypes'
      PROVE  Typed(p, {"sum up"})
  BY <1>0, <1>a, SumUpType, TypeParts DEF Typed
<1>b. ASSUME NEW pc \in Steps, GoTo(p, pc), RecordTypes'
      PROVE  Typed(p, {pc})
  <2>1. [w[p] EXCEPT !.pc = pc].pc = pc
    BY <1>0 DEF Copies
  <2> QED BY <1>b, <2>1, GoToType, TypeParts DEF Typed
<1>c. ASSUME NEW c \in Copies, Become(p, c), RecordTypes'
      PROVE  Typed(p, {c.pc})
  BY <1>c, BecomeType, TypeParts DEF Typed
<1>d. ASSUME NEW r \in Refunds, NEW pc \in {"accept", "accept paid"}
      PROVE  /\ [w[p] EXCEPT !.ref = r, !.pc = pc] \in Copies
             /\ [w[p] EXCEPT !.ref = r, !.pc = pc].pc = pc
  <2>1. PICK c \in Copies : c = w[p]
    BY <1>0
  <2>2. r \in 0..MaxRefunds
    BY RefundNumbers
  <2>3. [c EXCEPT !.ref = r, !.pc = pc] \in Copies /\ [c EXCEPT !.ref = r, !.pc = pc].pc = pc
    BY <2>2 DEF Copies, Steps
  <2> QED BY <2>1, <2>3
<1>1. ASSUME claimAllocation(p) PROVE Typed(p, {"look up", "sum up"})
  <2> DEFINE copy == [w[p] EXCEPT !.pc = "look up", !.saw["source"] = "PROCESSING"]
  <2>1. /\ alloc' \in {alloc, [alloc EXCEPT !["source"] = "PROCESSING"]}
        /\ attempts' \in {attempts, IF attempts < MaxAttempts THEN attempts + 1 ELSE attempts}
        /\ UNCHANGED <<rest, plan, rid, summary, lease, money, past>>
    BY <1>1 DEF claimAllocation
  <2>2. attempts' \in 0..MaxAttempts
    BY <1>0, <2>1, RefundAssumption DEF RecordTypes
  <2>3. RecordTypes'
    BY <1>0, <2>1, <2>2 DEF RecordTypes, Statuses
  <2>4. copy \in Copies /\ copy.pc = "look up"
    <3>1. PICK c \in Copies : c = w[p]
      BY <1>0
    <3>2. [c EXCEPT !.pc = "look up", !.saw["source"] = "PROCESSING"] \in Copies
      BY DEF Copies, Steps, Statuses
    <3>3. [c EXCEPT !.pc = "look up", !.saw["source"] = "PROCESSING"].pc = "look up"
      BY DEF Copies
    <3> QED BY <3>1, <3>2, <3>3
  <2>5. Become(p, copy) \/ SumUp(p, FALSE)
    BY <1>1 DEF claimAllocation
  <2> HIDE DEF copy
  <2> QED BY <1>a, <1>c, <2>3, <2>4, <2>5 DEF Typed
<1>2. ASSUME PollRefund(p) PROVE Typed(p, {"confirm", "refuse", "sum up"})
  <2>1. RecordTypes'
    BY <1>0, <1>2 DEF PollRefund, RecordTypes
  <2>2. GoTo(p, "confirm") \/ GoTo(p, "refuse") \/ SumUp(p, FALSE) \/ SumUp(p, TRUE)
    BY <1>2 DEF PollRefund
  <2>3. "confirm" \in Steps /\ "refuse" \in Steps
    BY DEF Steps
  <2> QED BY <1>a, <1>b, <2>1, <2>2, <2>3 DEF Typed
<1>3. ASSUME findRefunds(p) PROVE Typed(p, {"failed", "ask", "accept", "accept paid"})
  <2>1. RecordTypes'
    BY <1>0, <1>3 DEF findRefunds, RecordTypes
  <2>2. \/ GoTo(p, "failed") \/ GoTo(p, "ask")
        \/ \E r \in Refunds, pc \in {"accept", "accept paid"} : Become(p, [w[p] EXCEPT !.ref = r, !.pc = pc])
    BY <1>3 DEF findRefunds
  <2>3. "failed" \in Steps /\ "ask" \in Steps
    BY DEF Steps
  <2>4. ASSUME NEW r \in Refunds, NEW pc \in {"accept", "accept paid"},
               Become(p, [w[p] EXCEPT !.ref = r, !.pc = pc])
        PROVE  Typed(p, {"failed", "ask", "accept", "accept paid"})
    <3>1. Typed(p, {pc})
      BY <1>c, <1>d, <2>1, <2>4
    <3> QED BY <3>1 DEF Typed
  <2> QED BY <1>b, <2>1, <2>2, <2>3, <2>4 DEF Typed
<1>4. ASSUME refundPayment(p) PROVE Typed(p, {"failed", "accept", "accept paid"})
  <2>1. RecordTypes'
    BY <1>0, <1>4 DEF refundPayment, RecordTypes
  <2>2. \/ GoTo(p, "failed")
        \/ \E r \in Refunds, pc \in {"accept", "accept paid"} : Become(p, [w[p] EXCEPT !.ref = r, !.pc = pc])
    BY <1>4 DEF refundPayment
  <2>3. "failed" \in Steps
    BY DEF Steps
  <2>4. ASSUME NEW r \in Refunds, NEW pc \in {"accept", "accept paid"},
               Become(p, [w[p] EXCEPT !.ref = r, !.pc = pc])
        PROVE  Typed(p, {"failed", "accept", "accept paid"})
    <3>1. Typed(p, {pc})
      BY <1>c, <1>d, <2>1, <2>4
    <3> QED BY <3>1 DEF Typed
  <2> QED BY <1>b, <2>1, <2>2, <2>3, <2>4 DEF Typed
<1>5. ASSUME NEW status \in Statuses, NEW id \in 0..MaxRefunds,
             setAllocation(p, "source", status, id),
             UNCHANGED <<rest, plan, summary, lease, money>>
      PROVE  RecordTypes'
  BY <1>0, <1>5, SetType DEF RecordTypes
<1>6. rid \in 0..MaxRefunds /\ 0 \in 0..MaxRefunds /\ w[p].ref \in 0..MaxRefunds
      /\ {"FAILED", "PROCESSING", "MANUAL_REVIEW"} \subseteq Statuses
  BY <1>0, RefundAssumption DEF RecordTypes, Copies, Statuses, Settled
<1>7. ASSUME AcceptRefund(p) PROVE Typed(p, {"sum up", "complete"})
  <2> DEFINE copy == [w[p] EXCEPT !.pc = "complete", !.rid = w[p].ref, !.ref = 0]
  <2>1. RecordTypes'
    BY <1>5, <1>6, <1>7 DEF AcceptRefund
  <2>2. copy \in Copies /\ copy.pc = "complete"
    <3>1. PICK c \in Copies : c = w[p]
      BY <1>0
    <3>2. [c EXCEPT !.pc = "complete", !.rid = w[p].ref, !.ref = 0] \in Copies
      BY <1>6 DEF Copies, Steps
    <3>3. [c EXCEPT !.pc = "complete", !.rid = w[p].ref, !.ref = 0].pc = "complete"
      BY DEF Copies
    <3> QED BY <3>1, <3>2, <3>3
  <2>3. SumUp(p, FALSE) \/ Become(p, copy)
    BY <1>7 DEF AcceptRefund
  <2> HIDE DEF copy
  <2> QED BY <1>a, <1>c, <2>1, <2>2, <2>3 DEF Typed
<1>8. ASSUME completeGatewayAllocation(p) PROVE Typed(p, {"sum up"})
  <2>1. RecordTypes'
    BY <1>0, <1>8 DEF completeGatewayAllocation, RecordTypes, Statuses, Settled
  <2> QED BY <1>a, <1>8, <2>1 DEF completeGatewayAllocation
<1>9. ASSUME RefundFailed(p) PROVE Typed(p, {"sum up"})
  <2>1. RecordTypes'
    BY <1>5, <1>6, <1>9 DEF RefundFailed
  <2> QED BY <1>a, <1>9, <2>1 DEF RefundFailed
<1>10. ASSUME RefundRefused(p) PROVE Typed(p, {"sum up"})
  <2>1. RecordTypes'
    BY <1>5, <1>6, <1>10 DEF RefundRefused
  <2> QED BY <1>a, <1>10, <2>1 DEF RefundRefused
<1>11. ASSUME GiveUp(p) PROVE Typed(p, {"sum up"})
  <2>1. RecordTypes'
    BY <1>5, <1>6, <1>11 DEF GiveUp
  <2> QED BY <1>a, <1>11, <2>1 DEF GiveUp
<1> QED BY <1>1, <1>2, <1>3, <1>4, <1>7, <1>8, <1>9, <1>10, <1>11

\* Steps at the end of a round, webhooks, administrators and failures.
LEMMA OtherSteps ==
  ASSUME TypeOK, NEW p \in Workers
  PROVE  /\ finalizeRefundStatus(p) => Typed(p, {"report", "release", "idle"})
         /\ Release(p) => Typed(p, {"idle"})
         /\ handleGatewayRefundUpdate(p) => Typed(p, {"confirm", "refuse"})
         /\ Administer(p) => Typed(p, {"reset", "resolve"})
         /\ resetFailedRefund(p) => Typed(p, {"read"})
         /\ resolveRefundManually(p) => Typed(p, {"idle"})
         /\ Stumble(p) => Typed(p, AfterWallet \cup {"failed", "release"})
         /\ Die(p) => Typed(p, {"idle"})
<1> USE DEF rest, plan, parts, lease, money
<1>0. w[p] \in Copies /\ RecordTypes /\ "wallet" \in Parts /\ "source" \in Parts
  BY TypeParts DEF TypeOK, Parts
<1>c. ASSUME NEW c \in Copies, Become(p, c), RecordTypes'
      PROVE  Typed(p, {c.pc})
  BY <1>c, BecomeType, TypeParts DEF Typed
<1>d. Idle \in Copies /\ Idle.pc = "idle"
  BY CopyType DEF Idle
<1>e. ASSUME Become(p, Idle), RecordTypes' PROVE Typed(p, {"idle"})
  BY <1>c, <1>d, <1>e
<1>1. ASSUME finalizeRefundStatus(p) PROVE Typed(p, {"report", "release", "idle"})
  <2> DEFINE copy == [Idle EXCEPT !.pc = "report", !.job = w[p].job, !.retry = w[p].retry,
                                  !.prev = summary, !.next = aggregateStatus]
  <2>1. aggregateStatus \in Summaries /\ summary \in Summaries /\ w[p].prev \in Summaries
        /\ w[p].next \in Summaries
    BY <1>0, AggregateType DEF RecordTypes, Copies
  <2>2. past' \in Past
    <3>1. (summary # w[p].prev) \in BOOLEAN
      OBVIOUS
    <3>2. UNCHANGED past \/ Unmark(summary # w[p].prev)
      BY <1>1 DEF finalizeRefundStatus
    <3> QED BY <1>0, <3>1, <3>2, PastType DEF RecordTypes
  <2>3. RecordTypes'
    <3>1. summary' \in {summary, w[p].next} /\ UNCHANGED <<rest, plan, parts, lease, money>>
      BY <1>1 DEF finalizeRefundStatus
    <3> QED BY <1>0, <2>1, <2>2, <3>1 DEF RecordTypes
  <2>4. copy \in Copies /\ copy.pc = "report"
    <3>1. PICK c \in Copies : c = Idle
      BY <1>d
    <3>2. w[p].job \in Jobs /\ w[p].retry \in BOOLEAN
      BY <1>0 DEF Copies
    <3>3. [c EXCEPT !.pc = "report", !.job = w[p].job, !.retry = w[p].retry,
                    !.prev = summary, !.next = aggregateStatus] \in Copies
      BY <2>1, <3>2 DEF Copies, Steps
    <3>4. [c EXCEPT !.pc = "report", !.job = w[p].job, !.retry = w[p].retry,
                    !.prev = summary, !.next = aggregateStatus].pc = "report"
      BY DEF Copies
    <3> QED BY <3>1, <3>3, <3>4
  <2>5. \/ Become(p, copy) \/ Conclude(p, summary)
        \/ Conclude(p, w[p].next) \/ Conclude(p, w[p].prev)
    BY <1>1 DEF finalizeRefundStatus
  <2> HIDE DEF copy
  <2>6. ASSUME NEW status \in Summaries, Conclude(p, status)
        PROVE  Typed(p, {"report", "release", "idle"})
    BY <2>3, <2>6, ConcludeType, TypeParts DEF Typed
  <2>7. CASE Become(p, copy)
    BY <1>c, <2>3, <2>4, <2>7 DEF Typed
  <2> QED BY <2>1, <2>5, <2>6, <2>7
<1>2. ASSUME Release(p) PROVE Typed(p, {"idle"})
  <2>1. proc' \in {"DONE", "FAILED", "PENDING"} /\ lock' = FALSE
        /\ UNCHANGED <<rest, plan, parts, summary, money, past>>
    BY <1>2 DEF Release
  <2>2. RecordTypes'
    BY <1>0, <2>1 DEF RecordTypes
  <2> QED BY <1>2, <1>e, <2>2 DEF Release
<1>3. ASSUME NEW job \in Jobs, NEW pc \in Steps
      PROVE  /\ Copied(job, pc) \in Copies /\ Copied(job, pc).pc = pc
             /\ [Copied(job, pc) EXCEPT !.saw["wallet"] = "none"] \in Copies
             /\ [Copied(job, pc) EXCEPT !.saw["wallet"] = "none"].pc = pc
             /\ \A b \in BOOLEAN : /\ [Copied(job, pc) EXCEPT !.retry = b] \in Copies
                                  /\ [Copied(job, pc) EXCEPT !.retry = b].pc = pc
  <2>1. PICK c \in Copies : c = Idle
    BY <1>d
  <2>2. alloc \in [Parts -> Statuses] /\ rid \in 0..MaxRefunds
    BY <1>0 DEF RecordTypes
  <2>3. PICK d \in Copies : d = [c EXCEPT !.job = job, !.pc = pc, !.saw = alloc, !.rid = rid]
    BY <2>2 DEF Copies
  <2>4. d = Copied(job, pc)
    BY <2>1, <2>3 DEF Copied
  <2>5. d.pc = pc
    BY <2>3 DEF Copies
  <2>6. [d EXCEPT !.saw["wallet"] = "none"] \in Copies /\ [d EXCEPT !.saw["wallet"] = "none"].pc = pc
    BY <2>5 DEF Copies, Statuses, Settled
  <2>7. ASSUME NEW b \in BOOLEAN
        PROVE  [d EXCEPT !.retry = b] \in Copies /\ [d EXCEPT !.retry = b].pc = pc
    BY <2>5 DEF Copies
  <2> QED BY <2>4, <2>5, <2>6, <2>7
<1>4. ASSUME handleGatewayRefundUpdate(p) PROVE Typed(p, {"confirm", "refuse"})
  <2>1. RecordTypes'
    BY <1>0, <1>4 DEF handleGatewayRefundUpdate, RecordTypes
  <2>2. PICK pc \in {"confirm", "refuse"} : Become(p, SeenSource(pc))
    BY <1>4 DEF handleGatewayRefundUpdate
  <2>3. "webhook" \in Jobs /\ pc \in Steps
    BY DEF Jobs, Steps
  <2>4. SeenSource(pc) \in Copies /\ SeenSource(pc).pc = pc
    BY <1>3, <2>3 DEF SeenSource
  <2> QED BY <1>c, <2>1, <2>2, <2>4 DEF Typed
<1>5. ASSUME Administer(p) PROVE Typed(p, {"reset", "resolve"})
  <2>1. RecordTypes'
    BY <1>0, <1>5 DEF Administer, RecordTypes
  <2>2. (proc = "PENDING") \in BOOLEAN /\ "retry" \in Jobs /\ "reset" \in Steps /\ "resolve" \in Steps
    BY DEF Jobs, Steps
  <2>3. \/ Become(p, [Copied("retry", "reset") EXCEPT !.retry = (proc = "PENDING")])
        \/ Become(p, Copied("retry", "resolve"))
    BY <1>5 DEF Administer
  <2>4. CASE Become(p, [Copied("retry", "reset") EXCEPT !.retry = (proc = "PENDING")])
    <3>1. PICK b \in BOOLEAN : b = (proc = "PENDING")
      OBVIOUS
    <3>2. Become(p, [Copied("retry", "reset") EXCEPT !.retry = b])
      BY <2>4, <3>1
    <3>3. /\ [Copied("retry", "reset") EXCEPT !.retry = b] \in Copies
          /\ [Copied("retry", "reset") EXCEPT !.retry = b].pc = "reset"
      BY <1>3, <2>2
    <3> QED BY <1>c, <2>1, <3>2, <3>3 DEF Typed
  <2>5. CASE Become(p, Copied("retry", "resolve"))
    <3>1. Copied("retry", "resolve") \in Copies /\ Copied("retry", "resolve").pc = "resolve"
      BY <1>3, <2>2
    <3> QED BY <1>c, <2>1, <2>5, <3>1 DEF Typed
  <2> QED BY <2>3, <2>4, <2>5
<1>6. ASSUME resetFailedRefund(p) PROVE Typed(p, {"read"})
  <2> DEFINE failed == {a \in Parts : w[p].saw[a] \in {"FAILED", "MANUAL_REVIEW"}}
             value == [a \in Parts |-> IF a = "source" /\ w[p].rid # 0 THEN "PROCESSING" ELSE "PENDING"]
             copy == [Idle EXCEPT !.job = "retry", !.pc = "read"]
  <2>1. /\ SaveParts(failed, value)
        /\ attempts' \in {0, attempts} /\ proc' \in {proc, "PENDING"}
        /\ past' = past \/ past' = "overwritten" \/ past' = "unmarked"
        /\ summary' = "PENDING" /\ Become(p, copy)
        /\ UNCHANGED <<rest, plan, rid, lock, money>>
    BY <1>6 DEF resetFailedRefund, Overwrite, Unmark
  <2>2. alloc' \in [Parts -> Statuses]
    BY <1>0, <2>1 DEF SaveParts, RecordTypes, Statuses
  <2>3. 0 \in 0..MaxAttempts
    BY RefundAssumption
  <2>4. RecordTypes'
    BY <1>0, <2>1, <2>2, <2>3 DEF RecordTypes, Summaries, Statuses, Past
  <2>5. copy \in Copies /\ copy.pc = "read"
    <3>1. PICK c \in Copies : c = Idle
      BY <1>d
    <3>2. [c EXCEPT !.job = "retry", !.pc = "read"] \in Copies
          /\ [c EXCEPT !.job = "retry", !.pc = "read"].pc = "read"
      BY DEF Copies, Steps, Jobs
    <3> QED BY <3>1, <3>2
  <2> HIDE DEF copy, failed, value
  <2> QED BY <1>c, <2>1, <2>4, <2>5
<1>7. ASSUME resolveRefundManually(p) PROVE Typed(p, {"idle"})
  <2> DEFINE open == {a \in Parts : w[p].saw[a] \notin {"none", "SUCCESSFUL"}}
  <2>1. /\ SaveParts(open, [a \in Parts |-> "SUCCESSFUL"])
        /\ past' = past \/ past' = "overwritten"
        /\ summary' = "SUCCESSFUL" /\ manual' = TRUE /\ Become(p, Idle)
        /\ UNCHANGED <<owed, late, visits, plan, rid, attempts, lease, money>>
    BY <1>7 DEF resolveRefundManually, Overwrite
  <2>2. alloc' \in [Parts -> Statuses]
    BY <1>0, <2>1 DEF SaveParts, RecordTypes, Statuses, Settled
  <2>3. RecordTypes'
    BY <1>0, <2>1, <2>2 DEF RecordTypes, Summaries, Statuses, Settled, Past
  <2> QED BY <1>e, <2>1, <2>3
<1>8. ASSUME Stumble(p) PROVE Typed(p, AfterWallet \cup {"failed", "release"})
  <2>1. RecordTypes'
    BY <1>0, <1>8 DEF Stumble, RecordTypes
  <2>2. \/ GoTo(p, "failed") \/ ToSource(p, w[p], TRUE) \/ SumUp(p, TRUE) \/ ReleaseAgain(p)
    BY <1>8 DEF Stumble
  <2>3. "failed" \in Steps /\ [w[p] EXCEPT !.pc = "failed"].pc = "failed"
    BY <1>0 DEF Steps, Copies
  <2>4. CASE GoTo(p, "failed")
    BY <2>1, <2>3, <2>4, GoToType, TypeParts DEF Typed
  <2>5. CASE ToSource(p, w[p], TRUE)
    BY <1>0, <2>1, <2>5, ToSourceType, TypeParts DEF Typed, AfterWallet
  <2>6. CASE SumUp(p, TRUE)
    BY <2>1, <2>6, SumUpType, TypeParts DEF Typed, AfterWallet
  <2>7. CASE ReleaseAgain(p)
    BY <2>1, <2>7, ReleaseAgainType, TypeParts DEF Typed
  <2> QED BY <2>2, <2>4, <2>5, <2>6, <2>7
<1>9. ASSUME Die(p) PROVE Typed(p, {"idle"})
  <2>1. RecordTypes'
    BY <1>0, <1>9 DEF Die, RecordTypes
  <2> QED BY <1>9, <1>e, <2>1 DEF Die
<1> QED BY <1>1, <1>2, <1>4, <1>5, <1>6, <1>7, <1>8, <1>9

\* Steps of the environment leave the processes alone.
Outside == LateCapture \/ onLatePaymentCapture \/ LateHandlerDies \/ LeaseExpires \/ GatewaySettles

LEMMA OutsideSteps ==
  ASSUME TypeOK, Outside
  PROVE  TypeOK' /\ UNCHANGED w
<1> USE DEF rest, plan, parts, lease, money
<1>0. RecordTypes
  BY TypeParts
<1>1. UNCHANGED w
  BY DEF Outside, LateCapture, onLatePaymentCapture, LateHandlerDies, LeaseExpires, GatewaySettles
<1>2. RecordTypes'
  <2>1. CASE LateCapture
    BY <1>0, <2>1 DEF LateCapture, RecordTypes, Parts
  <2>2. CASE onLatePaymentCapture
    <3>1. past' \in Past
      <4>1. Leased \in BOOLEAN
        BY DEF Leased
      <4>2. UNCHANGED past \/ Unmark(Leased)
        BY <2>2 DEF onLatePaymentCapture, addLateCaptureAllocation
      <4> QED BY <1>0, <4>1, <4>2, PastType DEF RecordTypes
    <3>2. /\ late' \in {"push", "wake", "over"}
          /\ alloc' = alloc \/ alloc' = [alloc EXCEPT !["source"] = "PENDING"]
          /\ summary' \in {summary, "PENDING"} /\ proc' \in {proc, "PENDING"}
          /\ UNCHANGED <<owed, visits, manual, plan, rid, attempts, lock, money>>
      BY <2>2 DEF onLatePaymentCapture, addLateCaptureAllocation
    <3> QED BY <1>0, <3>1, <3>2 DEF RecordTypes, Summaries, Statuses, Settled
  <2>3. CASE LateHandlerDies
    <3>1. (planned /\ alloc["source"] = "none") \in BOOLEAN
      BY <1>0 DEF RecordTypes
    <3>2. past' \in Past
      BY <1>0, <2>3, <3>1, PastType DEF LateHandlerDies
    <3> QED BY <1>0, <2>3, <3>2 DEF LateHandlerDies, RecordTypes
  <2>4. CASE LeaseExpires
    BY <1>0, <2>4 DEF LeaseExpires, RecordTypes
  <2>5. CASE GatewaySettles
    BY <1>0, <2>5 DEF GatewaySettles, RecordTypes
  <2> QED BY <2>1, <2>2, <2>3, <2>4, <2>5 DEF Outside
<1> QED BY <1>1, <1>2, TypeParts DEF TypeOK

LEMMA TypeStep ==
  ASSUME TypeOK, [Next]_vars
  PROVE  TypeOK'
<1>1. ASSUME NEW p \in Workers, Work(p) PROVE TypeOK'
  BY <1>1, EarlySteps, SourceSteps, OtherSteps DEF Work, Typed
<1>2. CASE Outside
  BY <1>2, OutsideSteps
<1>3. CASE UNCHANGED vars
  BY <1>3 DEF TypeOK, vars, rest, plan, parts, lease, money
<1> QED BY <1>1, <1>2, <1>3 DEF Next, Outside

LEMMA TypeInit ==
  ASSUME Init
  PROVE  TypeOK
<1>1. Idle \in Copies
  BY CopyType
<1>2. PICK case \in Cases : owed = case.owed /\ late = case.late /\ visits = case.visits
  BY DEF Init
<1>3. owed \subseteq Parts /\ late \in {"none", "over"} /\ visits \in Nat
  BY <1>2, RefundAssumption DEF Parts
<1>4. 0 \in 0..MaxRefunds /\ 0 \in 0..MaxAttempts
  BY RefundAssumption
<1> QED BY <1>1, <1>3, <1>4 DEF Init, TypeOK, Nothing, Statuses, Settled, Summaries, Past

\* The record, the wallets, the gateway and every process keep their shapes.
THEOREM TypeCorrect == Spec => []TypeOK
BY TypeInit, TypeStep, PTL DEF Spec

-----------------------------------------------------------------------------
(* Money                                                                   *)

GatewayPaid == \E r \in Refunds : gw[r] = "SUCCESSFUL"
Confirming == {"accept paid", "complete", "confirm"}

\* A process that is about to confirm a refund knows that the gateway paid it,
\* and a plan to be frozen marks nothing as paid.
PaidInv ==
  /\ MoneyMovesOnce /\ SuccessMeansPaid
  /\ \A p \in Workers : w[p].pc \in Confirming => GatewayPaid
  /\ \A p \in Workers : w[p].pc = "freeze" => \A a \in Parts : w[p].saw[a] # "SUCCESSFUL"

\* A step that moves no money and reaches no step that does.
Quiet(p) ==
  /\ UNCHANGED <<gw, credited, debited, manual>>
  /\ \A a \in Parts : alloc'[a] = "SUCCESSFUL" => alloc[a] = "SUCCESSFUL"
  /\ w'[p].pc \notin Confirming \cup {"freeze"}
  /\ \A q \in Workers \ {p} : w'[q] = w[q]

LEMMA QuietKeepsPaid ==
  ASSUME PaidInv, NEW p \in Workers, Quiet(p)
  PROVE  PaidInv'
<1>1. MoneyMovesOnce' /\ (GatewayPaid => GatewayPaid')
  BY DEF PaidInv, Quiet, MoneyMovesOnce, GatewayPaid
<1>2. SuccessMeansPaid'
  BY DEF PaidInv, Quiet, SuccessMeansPaid, Parts
<1>3. ASSUME NEW q \in Workers
      PROVE  /\ w'[q].pc \in Confirming => GatewayPaid'
             /\ w'[q].pc = "freeze" => \A a \in Parts : w'[q].saw[a] # "SUCCESSFUL"
  BY <1>1 DEF PaidInv, Quiet
<1> QED BY <1>1, <1>2, <1>3 DEF PaidInv

\* The steps that move no money.
LEMMA QuietSteps ==
  ASSUME TypeOK, PaidInv, NEW p \in Workers
  PROVE  /\ TakeLease(p) => Quiet(p)
         /\ AwaitConfirmation(p) => Quiet(p)
         /\ planRefund(p) => Quiet(p)
         /\ WalletFailed(p) => Quiet(p)
         /\ claimAllocation(p) => Quiet(p)
         /\ RefundFailed(p) => Quiet(p)
         /\ RefundRefused(p) => Quiet(p)
         /\ GiveUp(p) => Quiet(p)
         /\ finalizeRefundStatus(p) => Quiet(p)
         /\ Release(p) => Quiet(p)
         /\ Administer(p) => Quiet(p)
         /\ resetFailedRefund(p) => Quiet(p)
         /\ Stumble(p) => Quiet(p)
         /\ Die(p) => Quiet(p)
<1> USE DEF rest, plan, parts, lease, money
<1>0. alloc \in [Parts -> Statuses] /\ "wallet" \in Parts /\ "source" \in Parts
  BY DEF TypeOK, Parts
<1>1. ASSUME NEW pcs, Typed(p, pcs), pcs \cap (Confirming \cup {"freeze"}) = {},
             UNCHANGED <<gw, credited, debited, manual>>,
             \A a \in Parts : alloc'[a] = "SUCCESSFUL" => alloc[a] = "SUCCESSFUL"
      PROVE  Quiet(p)
  BY <1>1 DEF Typed, Quiet
<1>2. ASSUME NEW a \in Parts, NEW status \in {"FAILED", "MANUAL_REVIEW"}, NEW id,
             setAllocation(p, a, status, id)
      PROVE  \A b \in Parts : alloc'[b] = "SUCCESSFUL" => alloc[b] = "SUCCESSFUL"
  BY <1>0, <1>2 DEF setAllocation
<1> USE DEF Confirming, AfterWallet
<1>3. TakeLease(p) => Quiet(p)
  BY <1>1, EarlySteps DEF TakeLease
<1>4. AwaitConfirmation(p) => Quiet(p)
  BY <1>1, EarlySteps DEF AwaitConfirmation
<1>5. ASSUME planRefund(p) PROVE Quiet(p)
  <2>1. At(p, "freeze") /\ alloc' \in {alloc, w[p].saw} /\ UNCHANGED <<gw, credited, debited, manual>>
    BY <1>5 DEF planRefund
  <2>2. \A a \in Parts : alloc'[a] = "SUCCESSFUL" => alloc[a] = "SUCCESSFUL"
    BY <2>1 DEF PaidInv, At
  <2> QED BY <1>1, <1>5, <2>1, <2>2, EarlySteps
<1>6. WalletFailed(p) => Quiet(p)
  BY <1>0, <1>1, <1>2, EarlySteps DEF WalletFailed
<1>7. ASSUME claimAllocation(p) PROVE Quiet(p)
  <2>1. alloc' \in {alloc, [alloc EXCEPT !["source"] = "PROCESSING"]}
        /\ UNCHANGED <<gw, credited, debited, manual>>
    BY <1>7 DEF claimAllocation
  <2> QED BY <1>0, <1>1, <1>7, <2>1, SourceSteps
<1>8. RefundFailed(p) => Quiet(p)
  BY <1>0, <1>1, <1>2, SourceSteps DEF RefundFailed
<1>9. RefundRefused(p) => Quiet(p)
  BY <1>0, <1>1, <1>2, SourceSteps DEF RefundRefused
<1>10. GiveUp(p) => Quiet(p)
  BY <1>0, <1>1, <1>2, SourceSteps DEF GiveUp
<1>11. finalizeRefundStatus(p) => Quiet(p)
  BY <1>1, OtherSteps DEF finalizeRefundStatus
<1>12. Release(p) => Quiet(p)
  BY <1>1, OtherSteps DEF Release
<1>13. Administer(p) => Quiet(p)
  BY <1>1, OtherSteps DEF Administer
<1>14. ASSUME resetFailedRefund(p) PROVE Quiet(p)
  <2>1. /\ \A a \in Parts : alloc'[a] \in {alloc[a], "PROCESSING", "PENDING"}
        /\ UNCHANGED <<gw, credited, debited, manual>>
    BY <1>14 DEF resetFailedRefund, SaveParts
  <2>2. \A a \in Parts : alloc'[a] = "SUCCESSFUL" => alloc[a] = "SUCCESSFUL"
    BY <2>1
  <2> QED BY <1>1, <1>14, <2>1, <2>2, OtherSteps
<1>15. Stumble(p) => Quiet(p)
  BY <1>1, OtherSteps DEF Stumble
<1>16. Die(p) => Quiet(p)
  BY <1>1, OtherSteps DEF Die
<1> QED BY <1>3, <1>4, <1>5, <1>6, <1>7, <1>8, <1>9, <1>10, <1>11, <1>12, <1>13, <1>14, <1>15, <1>16

\* The steps of a process that reach a refund at the gateway, a wallet or a plan.
LEMMA PaidWork ==
  ASSUME TypeOK, PaidInv, NEW p \in Workers, Work(p)
  PROVE  PaidInv'
<1> USE DEF rest, plan, parts, lease, money
<1>0. /\ alloc \in [Parts -> Statuses] /\ "wallet" \in Parts /\ "source" \in Parts
      /\ gw \in [Refunds -> {"none", "PENDING", "SUCCESSFUL", "FAILED"}]
      /\ credited \in Nat /\ debited \in Nat /\ w[p] \in Copies
  BY DEF TypeOK, Parts
<1>1. ASSUME NEW pcs, Typed(p, pcs), pcs \cap {"freeze"} = {},
             w'[p].pc \in Confirming => GatewayPaid', GatewayPaid => GatewayPaid'
      PROVE  /\ \A q \in Workers : w'[q].pc \in Confirming => GatewayPaid'
             /\ \A q \in Workers : w'[q].pc = "freeze" => \A a \in Parts : w'[q].saw[a] # "SUCCESSFUL"
  <2>1. ASSUME NEW q \in Workers
        PROVE  /\ w'[q].pc \in Confirming => GatewayPaid'
               /\ w'[q].pc = "freeze" => \A a \in Parts : w'[q].saw[a] # "SUCCESSFUL"
    BY <1>1 DEF PaidInv, Typed
  <2> QED BY <2>1
<1>2. ASSUME UNCHANGED <<gw, credited, debited, manual>>,
             \A a \in Parts : alloc'[a] = "SUCCESSFUL" => alloc[a] = "SUCCESSFUL"
      PROVE  MoneyMovesOnce' /\ SuccessMeansPaid' /\ (GatewayPaid' <=> GatewayPaid)
  BY <1>0, <1>2 DEF PaidInv, MoneyMovesOnce, SuccessMeansPaid, GatewayPaid
<1>3. CASE ReadRecord(p)
  <2>1. UNCHANGED <<gw, credited, debited, manual, alloc>>
    BY <1>3 DEF ReadRecord
  <2>2. Typed(p, AfterWallet \cup {"wallet", "freeze", "await"})
    BY <1>3, EarlySteps
  <2>3. w'[p].pc = "freeze" => \A a \in Parts : w'[p].saw[a] # "SUCCESSFUL"
    <3>1. ASSUME w'[p].pc = "freeze" PROVE w'[p].saw = Plan
      <4>1. \/ Become(p, [[w[p] EXCEPT !.saw = alloc, !.rid = rid, !.worn = attempts >= MaxAttempts]
                                 EXCEPT !.pc = "wallet"])
            \/ ToSource(p, [w[p] EXCEPT !.saw = alloc, !.rid = rid, !.worn = attempts >= MaxAttempts], FALSE)
            \/ Become(p, [w[p] EXCEPT !.pc = "freeze", !.saw = Plan])
            \/ GoTo(p, "await")
        BY <1>3 DEF ReadRecord
      <4>2. ASSUME NEW c, Become(p, c) PROVE w'[p] = c
        BY <4>2 DEF Become, TypeOK
      <4>3. PICK c \in Copies : c = w[p]
        BY <1>0
      <4>4. [[c EXCEPT !.saw = alloc, !.rid = rid, !.worn = attempts >= MaxAttempts]
                EXCEPT !.pc = "wallet"].pc = "wallet"
        BY DEF Copies
      <4>5. CASE Become(p, [[w[p] EXCEPT !.saw = alloc, !.rid = rid, !.worn = attempts >= MaxAttempts]
                                 EXCEPT !.pc = "wallet"])
        BY <3>1, <4>2, <4>3, <4>4, <4>5
      <4>6. CASE ToSource(p, [w[p] EXCEPT !.saw = alloc, !.rid = rid, !.worn = attempts >= MaxAttempts], FALSE)
        <5>1. (attempts >= MaxAttempts) \in BOOLEAN /\ rid \in 0..MaxRefunds
          BY DEF TypeOK
        <5>2. [c EXCEPT !.saw = alloc, !.rid = rid, !.worn = attempts >= MaxAttempts] \in Copies
          BY <1>0, <5>1 DEF Copies
        <5>3. w'[p].pc \in {"sum up", "poll", "claim", "give up"}
          BY <4>3, <4>6, <5>2, ToSourceType
        <5> QED BY <3>1, <5>3
      <4>7. CASE Become(p, [w[p] EXCEPT !.pc = "freeze", !.saw = Plan])
        <5>1. [c EXCEPT !.pc = "freeze", !.saw = Plan].saw = Plan
          BY DEF Copies
        <5> QED BY <4>2, <4>3, <4>7, <5>1
      <4>8. CASE GoTo(p, "await")
        <5>1. [c EXCEPT !.pc = "await"].pc = "await" /\ "await" \in Steps
          BY DEF Copies, Steps
        <5> QED BY <3>1, <4>3, <4>8, <5>1, GoToType
      <4> QED BY <4>1, <4>5, <4>6, <4>7, <4>8
    <3> QED BY <3>1 DEF Plan
  <2>4. MoneyMovesOnce' /\ SuccessMeansPaid' /\ (GatewayPaid' <=> GatewayPaid)
    BY <1>2, <2>1
  <2>5. ASSUME NEW q \in Workers
        PROVE  /\ w'[q].pc \in Confirming => GatewayPaid'
               /\ w'[q].pc = "freeze" => \A a \in Parts : w'[q].saw[a] # "SUCCESSFUL"
    BY <2>2, <2>3, <2>4 DEF PaidInv, Typed, Confirming, AfterWallet
  <2> QED BY <2>4, <2>5 DEF PaidInv
<1>4. CASE processWalletDestination(p)
  <2>1. Typed(p, AfterWallet \cup {"wallet failed"})
    BY <1>4, EarlySteps
  <2>2. /\ UNCHANGED <<gw, debited, manual>> /\ alloc'["source"] = alloc["source"]
        /\ \/ UNCHANGED <<alloc, credited>>
           \/ credited' = (IF credited = 0 THEN credited + 1 ELSE credited)
    BY <1>0, <1>4 DEF processWalletDestination
  <2>3. MoneyMovesOnce' /\ SuccessMeansPaid' /\ (GatewayPaid' <=> GatewayPaid)
    BY <1>0, <2>2 DEF PaidInv, MoneyMovesOnce, SuccessMeansPaid, GatewayPaid
  <2> QED BY <1>1, <2>1, <2>3 DEF PaidInv, Typed, Confirming, AfterWallet
<1>5. CASE PollRefund(p)
  <2>1. Typed(p, {"confirm", "refuse", "sum up"})
    BY <1>5, SourceSteps
  <2>2. UNCHANGED <<gw, credited, debited, manual, alloc>>
    BY <1>5 DEF PollRefund
  <2>3. w'[p].pc \in Confirming => GatewayPaid
    <3>1. GatewayPaid \/ GoTo(p, "refuse") \/ SumUp(p, FALSE) \/ SumUp(p, TRUE)
      <4>1. \/ gw[w[p].rid] = "SUCCESSFUL"
            \/ GoTo(p, "refuse") \/ SumUp(p, FALSE) \/ SumUp(p, TRUE)
        BY <1>5 DEF PollRefund
      <4>2. w[p].rid \in 0..MaxRefunds
        BY <1>0 DEF Copies
      <4>3. w[p].rid # 0
        BY <1>5 DEF PollRefund
      <4>4. w[p].rid \in Refunds
        BY <4>2, <4>3, RefundNumbers
      <4> QED BY <4>1, <4>4 DEF GatewayPaid
    <3>2. "refuse" \in Steps /\ [w[p] EXCEPT !.pc = "refuse"].pc = "refuse"
      BY <1>0 DEF Steps, Copies
    <3> QED BY <3>1, <3>2, GoToType, SumUpType DEF Confirming
  <2>4. MoneyMovesOnce' /\ SuccessMeansPaid' /\ (GatewayPaid' <=> GatewayPaid)
    BY <1>2, <2>2
  <2> QED BY <1>1, <2>1, <2>3, <2>4 DEF PaidInv
<1>6. ASSUME NEW r \in Refunds, NEW pc \in {"accept", "accept paid"}, GoTo(p, pc) \/
                Become(p, [w[p] EXCEPT !.ref = r, !.pc = pc])
      PROVE  w'[p].pc = pc
  <2>1. PICK c \in Copies : c = w[p]
    BY <1>0
  <2>2. [c EXCEPT !.ref = r, !.pc = pc].pc = pc /\ [c EXCEPT !.pc = pc].pc = pc
    BY DEF Copies
  <2>3. w'[p] = [w[p] EXCEPT !.ref = r, !.pc = pc] \/ w'[p] = [w[p] EXCEPT !.pc = pc]
    BY <1>0, <1>6 DEF Become, GoTo, TypeOK, Copies
  <2> QED BY <2>1, <2>2, <2>3
<1>7. ASSUME NEW pc \in Steps, GoTo(p, pc) PROVE w'[p].pc = pc
  <2>1. [w[p] EXCEPT !.pc = pc].pc = pc
    BY <1>0 DEF Copies
  <2> QED BY <1>7, <2>1, GoToType
<1>8. CASE findRefunds(p)
  <2>1. Typed(p, {"failed", "ask", "accept", "accept paid"})
    BY <1>8, SourceSteps
  <2>2. UNCHANGED <<gw, credited, debited, manual, alloc>>
    BY <1>8 DEF findRefunds
  <2>3. w'[p].pc \in Confirming => GatewayPaid
    <3>1. \/ GoTo(p, "failed") \/ GoTo(p, "ask")
          \/ \E r \in Refunds : Become(p, [w[p] EXCEPT !.ref = r, !.pc = "accept"])
          \/ GatewayPaid
      BY <1>8 DEF findRefunds, GatewayPaid
    <3>2. "failed" \in Steps /\ "ask" \in Steps
      BY DEF Steps
    <3> QED BY <1>6, <1>7, <3>1, <3>2 DEF Confirming
  <2>4. MoneyMovesOnce' /\ SuccessMeansPaid' /\ (GatewayPaid' <=> GatewayPaid)
    BY <1>2, <2>2
  <2> QED BY <1>1, <2>1, <2>3, <2>4 DEF PaidInv
<1>9. CASE refundPayment(p)
  <2>1. Typed(p, {"failed", "accept", "accept paid"})
    BY <1>9, SourceSteps
  <2>2. UNCHANGED <<credited, debited, manual, alloc>>
    BY <1>9 DEF refundPayment
  <2>3. \/ GoTo(p, "failed") /\ UNCHANGED gw
        \/ \E r \in Refunds, answer \in {"PENDING", "SUCCESSFUL"} :
             /\ gw[r] = "none" /\ gw' = [gw EXCEPT ![r] = answer]
             /\ \/ GoTo(p, "failed")
                \/ Become(p, [w[p] EXCEPT !.ref = r,
                             !.pc = IF answer = "SUCCESSFUL" THEN "accept paid" ELSE "accept"])
    BY <1>9 DEF refundPayment
  <2>4. GatewayPaid => GatewayPaid'
    BY <1>0, <2>3 DEF GatewayPaid
  <2>5. w'[p].pc \in Confirming => GatewayPaid'
    <3>1. "failed" \in Steps
      BY DEF Steps
    <3>2. CASE GoTo(p, "failed")
      BY <1>7, <3>1, <3>2 DEF Confirming
    <3>3. ASSUME NEW r \in Refunds, gw' = [gw EXCEPT ![r] = "SUCCESSFUL"]
          PROVE  GatewayPaid'
      BY <1>0, <3>3 DEF GatewayPaid
    <3>4. ASSUME NEW r \in Refunds, Become(p, [w[p] EXCEPT !.ref = r, !.pc = "accept"])
          PROVE  w'[p].pc \notin Confirming
      BY <1>6, <3>4 DEF Confirming
    <3>5. \/ GoTo(p, "failed")
          \/ \E r \in Refunds : gw' = [gw EXCEPT ![r] = "SUCCESSFUL"]
          \/ \E r \in Refunds : Become(p, [w[p] EXCEPT !.ref = r, !.pc = "accept"])
      BY <2>3
    <3> QED BY <3>2, <3>3, <3>4, <3>5
  <2>6. MoneyMovesOnce' /\ SuccessMeansPaid'
    BY <2>2, <2>4 DEF PaidInv, MoneyMovesOnce, SuccessMeansPaid, GatewayPaid
  <2> QED BY <1>1, <2>1, <2>4, <2>5, <2>6 DEF PaidInv
<1>10. CASE AcceptRefund(p)
  <2>1. Typed(p, {"sum up", "complete"})
    BY <1>10, SourceSteps
  <2>2. /\ UNCHANGED <<gw, credited, debited, manual>>
        /\ \A a \in Parts : alloc'[a] = "SUCCESSFUL" => alloc[a] = "SUCCESSFUL"
    BY <1>0, <1>10 DEF AcceptRefund, setAllocation
  <2>3. w'[p].pc \in Confirming => GatewayPaid
    <3>1. CASE At(p, "accept")
      <4>1. SumUp(p, FALSE)
        BY <1>10, <3>1 DEF AcceptRefund
      <4> QED BY <4>1, SumUpType DEF Confirming
    <3>2. CASE At(p, "accept paid")
      BY <3>2 DEF PaidInv, Confirming, At
    <3> QED BY <1>10, <3>1, <3>2 DEF AcceptRefund
  <2>4. MoneyMovesOnce' /\ SuccessMeansPaid' /\ (GatewayPaid' <=> GatewayPaid)
    BY <1>2, <2>2
  <2> QED BY <1>1, <2>1, <2>3, <2>4 DEF PaidInv
<1>11. CASE completeGatewayAllocation(p)
  <2>1. Typed(p, {"sum up"})
    BY <1>11, SourceSteps
  <2>2. GatewayPaid
    BY <1>11 DEF completeGatewayAllocation, PaidInv, Confirming, At
  <2>3. /\ UNCHANGED <<gw, credited, manual>>
        /\ alloc' = [alloc EXCEPT !["source"] = "SUCCESSFUL"]
        /\ debited' = IF alloc["source"] # "SUCCESSFUL" /\ debited = 0 THEN debited + 1 ELSE debited
    BY <1>11 DEF completeGatewayAllocation
  <2>4. MoneyMovesOnce' /\ SuccessMeansPaid' /\ (GatewayPaid' <=> GatewayPaid)
    BY <1>0, <2>2, <2>3 DEF PaidInv, MoneyMovesOnce, SuccessMeansPaid, GatewayPaid
  <2> QED BY <1>1, <2>1, <2>4 DEF PaidInv, Typed, Confirming
<1>12. CASE handleGatewayRefundUpdate(p)
  <2>1. Typed(p, {"confirm", "refuse"})
    BY <1>12, OtherSteps
  <2>2. UNCHANGED <<gw, credited, debited, manual, alloc>>
    BY <1>12 DEF handleGatewayRefundUpdate
  <2>3. w'[p].pc \in Confirming => GatewayPaid
    <3>1. rid \in Refunds
      BY <1>12, RefundNumbers DEF handleGatewayRefundUpdate, TypeOK
    <3>2. GatewayPaid \/ Become(p, SeenSource("refuse"))
      BY <1>12, <3>1 DEF handleGatewayRefundUpdate, GatewayPaid
    <3>3. SeenSource("refuse").pc = "refuse"
      BY DEF SeenSource, Copied, Idle
    <3>4. Become(p, SeenSource("refuse")) => w'[p] = SeenSource("refuse")
      BY DEF Become, TypeOK
    <3> QED BY <3>2, <3>3, <3>4 DEF Confirming
  <2>4. MoneyMovesOnce' /\ SuccessMeansPaid' /\ (GatewayPaid' <=> GatewayPaid)
    BY <1>2, <2>2
  <2> QED BY <1>1, <2>1, <2>3, <2>4 DEF PaidInv
<1>13. CASE resolveRefundManually(p)
  <2>1. Typed(p, {"idle"})
    BY <1>13, OtherSteps
  <2>2. UNCHANGED <<gw, credited, debited>> /\ manual' = TRUE
    BY <1>13 DEF resolveRefundManually
  <2>3. MoneyMovesOnce' /\ SuccessMeansPaid' /\ (GatewayPaid' <=> GatewayPaid)
    BY <2>2 DEF PaidInv, MoneyMovesOnce, SuccessMeansPaid, GatewayPaid
  <2> QED BY <1>1, <2>1, <2>3 DEF PaidInv, Typed, Confirming
<1> QED BY <1>3, <1>4, <1>5, <1>8, <1>9, <1>10, <1>11, <1>12, <1>13, QuietSteps, QuietKeepsPaid DEF Work

LEMMA PaidStep ==
  ASSUME TypeOK, PaidInv, [Next]_vars
  PROVE  PaidInv'
<1> USE DEF rest, plan, parts, lease, money
<1>0. alloc \in [Parts -> Statuses] /\ gw \in [Refunds -> {"none", "PENDING", "SUCCESSFUL", "FAILED"}]
  BY DEF TypeOK
<1>1. ASSUME UNCHANGED <<w, credited, debited, manual>>, GatewayPaid => GatewayPaid',
             \A a \in Parts : alloc'[a] = "SUCCESSFUL" => alloc[a] = "SUCCESSFUL"
      PROVE  PaidInv'
  <2>1. MoneyMovesOnce' /\ SuccessMeansPaid'
    BY <1>1 DEF PaidInv, MoneyMovesOnce, SuccessMeansPaid, GatewayPaid, Parts
  <2> QED BY <1>1, <2>1 DEF PaidInv
<1>2. CASE Outside
  <2>1. UNCHANGED <<w, credited, debited, manual>>
    BY <1>2, OutsideSteps DEF Outside, LateCapture, onLatePaymentCapture, LateHandlerDies,
       LeaseExpires, GatewaySettles
  <2>2. GatewayPaid => GatewayPaid'
    BY <1>0, <1>2 DEF GatewayPaid, Outside, LateCapture, onLatePaymentCapture, LateHandlerDies,
       LeaseExpires, GatewaySettles
  <2>3. \A a \in Parts : alloc'[a] = "SUCCESSFUL" => alloc[a] = "SUCCESSFUL"
    <3>1. alloc' \in {alloc, [alloc EXCEPT !["source"] = "PENDING"]}
      BY <1>2 DEF Outside, LateCapture, onLatePaymentCapture, addLateCaptureAllocation,
         LateHandlerDies, LeaseExpires, GatewaySettles
    <3> QED BY <1>0, <3>1
  <2> QED BY <1>1, <2>1, <2>2, <2>3
<1>3. CASE UNCHANGED vars
  <2>1. UNCHANGED <<w, credited, debited, manual, gw, alloc>>
    BY <1>3 DEF vars
  <2> QED BY <1>1, <2>1 DEF GatewayPaid
<1> QED BY <1>2, <1>3, PaidWork DEF Next, Outside

LEMMA PaidInit ==
  ASSUME Init
  PROVE  PaidInv
<1>1. credited = 0 /\ debited = 0
  BY DEF Init
<1>2. alloc["wallet"] = "none" /\ alloc["source"] = "none"
  BY DEF Init, Nothing, Parts
<1>3. \A p \in Workers : w[p].pc = "idle"
  <2>1. Idle.pc = "idle"
    BY DEF Idle
  <2> QED BY <2>1 DEF Init
<1>4. MoneyMovesOnce /\ SuccessMeansPaid
  BY <1>1, <1>2 DEF MoneyMovesOnce, SuccessMeansPaid
<1> QED BY <1>1, <1>3, <1>4 DEF PaidInv, Confirming

\* However often an allocation falls back to FAILED after its money moved, the
\* customer's wallet and the platform's move once.
THEOREM MoneyCorrect == Spec => []MoneyMovesOnce
<1>1. PaidInv => MoneyMovesOnce
  BY DEF PaidInv
<1> QED BY <1>1, TypeInit, TypeStep, PaidInit, PaidStep, PTL DEF Spec

\* An allocation that says SUCCESSFUL was paid, or closed by an administrator.
THEOREM SuccessCorrect == Spec => []SuccessMeansPaid
<1>1. PaidInv => SuccessMeansPaid
  BY DEF PaidInv
<1> QED BY <1>1, TypeInit, TypeStep, PaidInit, PaidStep, PTL DEF Spec

-----------------------------------------------------------------------------
(* One refund at the gateway                                               *)

GatewaySteps == {"look up", "ask", "accept", "accept paid", "complete", "failed"}
Chain == GatewaySteps \cup {"wallet", "wallet failed", "claim"}
Unclaimed == {"none", "PENDING", "FAILED"}
Alone(p) == \A q \in Workers \ {p} : w[q].pc \notin GatewaySteps

\* As long as no write replaced a claim, one process works with the gateway,
\* its claim stands, and it asks for a refund only when there is none.
ClaimInv ==
  /\ \A p \in Workers : w[p].pc \in Chain => planned
  /\ past # "overwritten" =>
       /\ \A p \in Workers : w[p].pc \in GatewaySteps => alloc["source"] \notin Unclaimed /\ Alone(p)
       /\ \A p \in Workers : w[p].pc = "ask" => \A r \in Refunds : ~Live(r)
       /\ \A r, s \in Refunds : Live(r) /\ Live(s) => r = s

\* A step that asks the gateway for nothing and claims nothing.
Tame(p) ==
  /\ gw' = gw
  /\ past' # "overwritten" => past # "overwritten"
  /\ planned => planned'
  /\ w'[p].pc \in Chain => planned
  /\ w'[p].pc \in GatewaySteps => w[p].pc \in GatewaySteps
  /\ w'[p].pc # "ask"
  /\ \/ alloc'["source"] = alloc["source"]
     \/ alloc'["source"] \notin Unclaimed
     \/ past' # "overwritten" => w'[p].pc \notin GatewaySteps /\ Alone(p)
  /\ \A q \in Workers \ {p} : w'[q] = w[q]

LEMMA TameKeepsClaims ==
  ASSUME TypeOK, ClaimInv, NEW p \in Workers, Tame(p)
  PROVE  ClaimInv'
<1>1. \A q \in Workers : w'[q].pc \in Chain => planned'
  BY DEF Tame, ClaimInv
<1>2. ASSUME past' # "overwritten"
      PROVE  /\ \A q \in Workers : w'[q].pc \in GatewaySteps => alloc'["source"] \notin Unclaimed /\ Alone(q)'
             /\ \A q \in Workers : w'[q].pc = "ask" => \A r \in Refunds : ~Live(r)'
             /\ \A r, s \in Refunds : Live(r)' /\ Live(s)' => r = s
  <2>1. past # "overwritten"
    BY <1>2 DEF Tame
  <2>2. \A q \in Workers : w'[q].pc \in GatewaySteps => w[q].pc \in GatewaySteps
    BY DEF Tame
  <2>3. \A q \in Workers : w'[q].pc \in GatewaySteps => Alone(q)'
    BY <2>1, <2>2 DEF ClaimInv, Alone
  <2>4. \A q \in Workers : w'[q].pc \in GatewaySteps => alloc'["source"] \notin Unclaimed
    BY <1>2, <2>1, <2>2 DEF ClaimInv, Alone, Tame
  <2>5. \A q \in Workers : w'[q].pc = "ask" => w[q].pc = "ask"
    BY DEF Tame
  <2>6. gw' = gw
    BY DEF Tame
  <2> QED BY <2>1, <2>3, <2>4, <2>5, <2>6 DEF ClaimInv, Live
<1> QED BY <1>1, <1>2 DEF ClaimInv

LEMMA PastMoves == /\ \A b \in BOOLEAN : Unmark(b) /\ past' # "overwritten" => past # "overwritten"
                   /\ \A b \in BOOLEAN : Overwrite(b) /\ past' # "overwritten" => past # "overwritten" /\ ~b
BY DEF Unmark, Overwrite


\* A write to an allocation that replaces no claim leaves no other claimant.
LEMMA SetLeavesAlone ==
  ASSUME TypeOK, NEW p \in Workers, NEW a \in Parts, NEW status, NEW id,
         setAllocation(p, a, status, id), past' # "overwritten"
  PROVE  /\ past # "overwritten"
         /\ a = "source" => Alone(p)
         /\ a # "source" => alloc'["source"] = alloc["source"]
<1>1. Changed(p, a) \in BOOLEAN
  BY DEF Changed
<1>2. past # "overwritten" /\ ~Changed(p, a)
  BY <1>1, PastMoves DEF setAllocation
<1> QED BY <1>2 DEF setAllocation, TypeOK, Parts, Changed, AtGateway, Alone, GatewaySteps

LEMMA TameSteps ==
  ASSUME TypeOK, ClaimInv, NEW p \in Workers, Work(p),
         ~claimAllocation(p), ~findRefunds(p), ~refundPayment(p)
  PROVE  Tame(p)
<1> USE DEF rest, plan, parts, lease, money
<1>0. alloc \in [Parts -> Statuses] /\ "wallet" \in Parts /\ "source" \in Parts /\ planned \in BOOLEAN
  BY DEF TypeOK, Parts
<1>1. ASSUME NEW pcs, Typed(p, pcs), pcs \cap Chain = {}, gw' = gw, planned => planned',
             past' # "overwritten" => past # "overwritten",
             \/ alloc'["source"] = alloc["source"]
             \/ alloc'["source"] \notin Unclaimed
             \/ past' # "overwritten" => Alone(p)
      PROVE  Tame(p)
  BY <1>1 DEF Typed, Tame, Chain, GatewaySteps
<1>2. ASSUME NEW pcs, Typed(p, pcs), pcs \cap GatewaySteps = {}, gw' = gw, planned, planned',
             past' # "overwritten" => past # "overwritten",
             alloc'["source"] = alloc["source"]
      PROVE  Tame(p)
  BY <1>2 DEF Typed, Tame, GatewaySteps
<1>3. w[p].pc \in Chain => planned
  BY DEF ClaimInv
<1> USE DEF Chain, GatewaySteps, AfterWallet
<1>4. CASE TakeLease(p)
  BY <1>1, <1>4, EarlySteps DEF TakeLease
<1>5. CASE ReadRecord(p)
  <2>1. CASE planned
    BY <1>2, <1>5, <2>1, EarlySteps DEF ReadRecord
  <2>2. CASE ~planned
    <3>1. w'[p].pc \in {"freeze", "await"}
      <4>1. w[p] \in Copies
        BY DEF TypeOK
      <4>2. [w[p] EXCEPT !.pc = "freeze", !.saw = Plan].pc = "freeze" /\ [w[p] EXCEPT !.pc = "await"].pc = "await"
        BY <4>1 DEF Copies
      <4>3. w' \in {[w EXCEPT ![p] = [w[p] EXCEPT !.pc = "freeze", !.saw = Plan]], [w EXCEPT ![p].pc = "await"]}
        BY <1>5, <2>2 DEF ReadRecord, Become, GoTo
      <4> QED BY <4>1, <4>2, <4>3 DEF TypeOK
    <3>2. Typed(p, {"freeze", "await"})
      BY <1>5, <3>1, EarlySteps DEF Typed
    <3> QED BY <1>1, <1>5, <3>2 DEF ReadRecord
  <2> QED BY <1>0, <2>1, <2>2
<1>6. CASE AwaitConfirmation(p)
  BY <1>1, <1>6, EarlySteps DEF AwaitConfirmation
<1>7. CASE planRefund(p)
  <2>1. past' # "overwritten" => past # "overwritten"
    BY <1>7, PastMoves DEF planRefund
  <2>2. alloc' = alloc \/ Alone(p)
    BY <1>7 DEF planRefund, ClaimInv, Alone
  <2>3. gw' = gw /\ (planned => planned')
    BY <1>7 DEF planRefund
  <2> QED BY <1>1, <1>7, <2>1, <2>2, <2>3, EarlySteps
<1>8. CASE processWalletDestination(p)
  <2>1. planned /\ planned' /\ gw' = gw /\ past' = past
    BY <1>3, <1>8 DEF processWalletDestination, At
  <2>2. alloc'["source"] = alloc["source"]
    BY <1>0, <1>8 DEF processWalletDestination
  <2> QED BY <1>2, <1>8, <2>1, <2>2, EarlySteps
<1>9. CASE WalletFailed(p)
  <2>1. planned /\ planned' /\ gw' = gw
    BY <1>3, <1>9 DEF WalletFailed, At
  <2>2. alloc'["source"] = alloc["source"] /\ (past' # "overwritten" => past # "overwritten")
    <3>1. setAllocation(p, "wallet", "FAILED", rid)
      BY <1>9 DEF WalletFailed
    <3> QED BY <1>0, <3>1, SetLeavesAlone DEF setAllocation
  <2> QED BY <1>2, <1>9, <2>1, <2>2, EarlySteps
<1>10. CASE PollRefund(p)
  BY <1>1, <1>10, SourceSteps DEF PollRefund
<1>11. CASE AcceptRefund(p)
  <2>1. Typed(p, {"sum up", "complete"}) /\ w[p].pc \in GatewaySteps
    BY <1>11, SourceSteps DEF AcceptRefund, At
  <2>2. gw' = gw /\ planned' = planned /\ setAllocation(p, "source", "PROCESSING", w[p].ref)
    BY <1>11 DEF AcceptRefund
  <2>3. past' # "overwritten" => past # "overwritten"
    BY <1>0, <2>2, SetLeavesAlone
  <2>4. alloc'["source"] = "PROCESSING"
    BY <1>0, <2>2 DEF setAllocation
  <2> QED BY <1>3, <2>1, <2>2, <2>3, <2>4 DEF Tame, Typed, Unclaimed
<1>12. CASE completeGatewayAllocation(p)
  <2>1. alloc'["source"] = "SUCCESSFUL"
    BY <1>0, <1>12 DEF completeGatewayAllocation
  <2> QED BY <1>1, <1>12, <2>1, SourceSteps DEF completeGatewayAllocation, Unclaimed
<1>13. ASSUME NEW status, NEW id, setAllocation(p, "source", status, id), Typed(p, {"sum up"}),
              gw' = gw, planned' = planned
       PROVE  Tame(p)
  <2>1. past' # "overwritten" => past # "overwritten" /\ Alone(p)
    BY <1>0, <1>13, SetLeavesAlone
  <2> QED BY <1>1, <1>13, <2>1
<1>14. CASE RefundFailed(p)
  BY <1>13, <1>14, SourceSteps DEF RefundFailed
<1>15. CASE RefundRefused(p)
  BY <1>13, <1>15, SourceSteps DEF RefundRefused
<1>16. CASE GiveUp(p)
  BY <1>13, <1>16, SourceSteps DEF GiveUp
<1>17. CASE finalizeRefundStatus(p)
  <2>1. past' # "overwritten" => past # "overwritten"
    <3>1. past' = past \/ Unmark(summary # w[p].prev)
      BY <1>17 DEF finalizeRefundStatus
    <3> QED BY <3>1, PastMoves
  <2>2. UNCHANGED <<gw, alloc, planned>>
    BY <1>17 DEF finalizeRefundStatus
  <2>3. Typed(p, {"report", "release", "idle"})
    BY <1>17, OtherSteps
  <2> QED BY <1>1, <2>1, <2>2, <2>3
<1>18. CASE Release(p)
  BY <1>1, <1>18, OtherSteps DEF Release
<1>19. CASE handleGatewayRefundUpdate(p)
  BY <1>1, <1>19, OtherSteps DEF handleGatewayRefundUpdate
<1>20. CASE Administer(p)
  BY <1>1, <1>20, OtherSteps DEF Administer
<1>21. CASE resetFailedRefund(p)
  <2> DEFINE failed == {a \in Parts : w[p].saw[a] \in {"FAILED", "MANUAL_REVIEW"}}
             clash == \E a \in failed : Changed(p, a)
             hidden == Leased \/ proc' # "PENDING"
  <2>1. IF clash THEN Overwrite(TRUE) ELSE Unmark(hidden)
    BY <1>21 DEF resetFailedRefund
  <2>2. past' # "overwritten" => past # "overwritten" /\ ~clash
    BY <2>1 DEF Overwrite, Unmark
  <2>3. "source" \notin failed => alloc'["source"] = alloc["source"]
    BY <1>0, <1>21 DEF resetFailedRefund, SaveParts
  <2>4. "source" \in failed /\ ~clash => Alone(p)
    BY DEF Changed, AtGateway, Alone
  <2>5. gw' = gw /\ planned' = planned
    BY <1>21 DEF resetFailedRefund
  <2> HIDE DEF failed, clash, hidden
  <2>6. Typed(p, {"read"})
    BY <1>21, OtherSteps
  <2> QED BY <1>1, <2>2, <2>3, <2>4, <2>5, <2>6
<1>22. CASE resolveRefundManually(p)
  <2> DEFINE open == {a \in Parts : w[p].saw[a] \notin {"none", "SUCCESSFUL"}}
  <2>1. alloc'["source"] \in {alloc["source"], "SUCCESSFUL"}
    BY <1>0, <1>22 DEF resolveRefundManually, SaveParts
  <2>2. past' # "overwritten" => past # "overwritten"
    BY <1>22 DEF resolveRefundManually, Overwrite
  <2>3. gw' = gw /\ planned' = planned
    BY <1>22 DEF resolveRefundManually
  <2>4. Typed(p, {"idle"})
    BY <1>22, OtherSteps
  <2> QED BY <1>1, <2>1, <2>2, <2>3, <2>4 DEF Unclaimed
<1>23. CASE Stumble(p)
  <2>1. UNCHANGED <<alloc, gw, planned, past>>
    BY <1>23 DEF Stumble
  <2>2. CASE w[p].pc \in {"accept", "accept paid", "complete"} /\ GoTo(p, "failed")
    <3>1. Typed(p, {"failed"})
      <4>1. w' = [w EXCEPT ![p].pc = "failed"] /\ w[p] \in Copies
        BY <2>2 DEF GoTo, TypeOK
      <4>2. w'[p].pc = "failed"
        BY <4>1 DEF TypeOK, Copies
      <4> QED BY <1>23, <4>2, OtherSteps DEF Typed
    <3> QED BY <1>3, <2>1, <2>2, <3>1 DEF Tame, Typed
  <2>3. CASE At(p, "wallet failed") /\ ToSource(p, w[p], TRUE)
    <3>1. Typed(p, AfterWallet)
      BY <1>23, <2>3, OtherSteps, ToSourceType DEF Typed, TypeOK
    <3> QED BY <1>2, <1>3, <2>1, <2>3, <3>1 DEF At
  <2>4. CASE SumUp(p, TRUE)
    <3>1. Typed(p, {"sum up"})
      BY <1>23, <2>4, OtherSteps, SumUpType DEF Typed, TypeOK
    <3> QED BY <1>1, <2>1, <3>1
  <2>5. CASE ReleaseAgain(p)
    <3>1. Typed(p, {"release"})
      BY <1>23, <2>5, OtherSteps, ReleaseAgainType DEF Typed, TypeOK
    <3> QED BY <1>1, <2>1, <3>1
  <2> QED BY <1>23, <2>2, <2>3, <2>4, <2>5 DEF Stumble
<1>24. CASE Die(p)
  BY <1>1, <1>24, OtherSteps DEF Die
<1> QED BY <1>4, <1>5, <1>6, <1>7, <1>8, <1>9, <1>10, <1>11, <1>12, <1>14, <1>15, <1>16, <1>17,
           <1>18, <1>19, <1>20, <1>21, <1>22, <1>23, <1>24 DEF Work

LEMMA ClaimWork ==
  ASSUME TypeOK, ClaimInv, NEW p \in Workers, Work(p)
  PROVE  ClaimInv'
<1> USE DEF rest, plan, parts, lease, money
<1>0. /\ alloc \in [Parts -> Statuses] /\ "source" \in Parts
      /\ gw \in [Refunds -> {"none", "PENDING", "SUCCESSFUL", "FAILED"}]
  BY DEF TypeOK, Parts
<1>1. w[p].pc \in Chain => planned
  BY DEF ClaimInv
<1>2. CASE claimAllocation(p)
  <2>1. Typed(p, {"look up", "sum up"}) /\ w[p].pc = "claim"
    BY <1>2, SourceSteps DEF claimAllocation, At
  <2>2. UNCHANGED <<gw, planned, past>>
    BY <1>2 DEF claimAllocation
  <2>3. CASE ~Claimable
    <3>1. UNCHANGED alloc /\ SumUp(p, FALSE)
      BY <1>2, <2>3 DEF claimAllocation
    <3>2. w'[p].pc = "sum up"
      BY <3>1, SumUpType DEF TypeOK
    <3> QED BY <2>1, <2>2, <3>1, <3>2, TameKeepsClaims DEF Tame, Typed, Chain, GatewaySteps
  <2>4. CASE Claimable
    <3>1. alloc'["source"] = "PROCESSING"
      BY <1>0, <1>2, <2>4 DEF claimAllocation
    <3>2. past # "overwritten" => \A q \in Workers : w[q].pc \notin GatewaySteps
      BY <2>4 DEF Claimable, ClaimInv, Unclaimed, AtGateway, GatewaySteps
    <3>3. \A q \in Workers \ {p} : w'[q] = w[q]
      BY <2>1 DEF Typed
    <3>4. w'[p].pc \in {"look up", "sum up"}
      BY <2>1 DEF Typed
    <3>5. planned'
      BY <1>1, <2>1, <2>2 DEF Chain
    <3>6. past' # "overwritten" =>
            /\ \A q \in Workers : w'[q].pc \in GatewaySteps => q = p
            /\ \A q \in Workers : w'[q].pc # "ask"
      BY <2>2, <3>2, <3>3, <3>4 DEF GatewaySteps
    <3>7. past' # "overwritten" =>
            \A q \in Workers : w'[q].pc \in GatewaySteps => alloc'["source"] \notin Unclaimed /\ Alone(q)'
      BY <3>1, <3>6 DEF Alone, Unclaimed
    <3> QED BY <2>2, <3>5, <3>6, <3>7 DEF ClaimInv, Live
  <2> QED BY <2>3, <2>4
<1>3. CASE findRefunds(p)
  <2>1. Typed(p, {"failed", "ask", "accept", "accept paid"}) /\ w[p].pc = "look up"
    BY <1>3, SourceSteps DEF findRefunds, At
  <2>2. UNCHANGED <<gw, planned, past, alloc>>
    BY <1>3 DEF findRefunds
  <2>3. CASE w'[p].pc # "ask"
    BY <1>1, <2>1, <2>2, <2>3, TameKeepsClaims DEF Tame, Typed, Chain, GatewaySteps
  <2>4. CASE w'[p].pc = "ask"
    <3>1. \A r \in Refunds : ~Live(r)
      <4>1. SUFFICES ASSUME NEW r \in Refunds, Live(r),
                            Become(p, [w[p] EXCEPT !.ref = r,
                              !.pc = IF gw[r] = "SUCCESSFUL" THEN "accept paid" ELSE "accept"])
                     PROVE  FALSE
        <5>1. GoTo(p, "failed") => w'[p].pc = "failed"
          <6>1. w[p] \in Copies
            BY DEF TypeOK
          <6>2. [w[p] EXCEPT !.pc = "failed"].pc = "failed"
            BY <6>1 DEF Copies
          <6> QED BY <6>2 DEF GoTo, TypeOK
        <5> QED BY <1>3, <2>4, <5>1 DEF findRefunds
      <4> DEFINE pc == IF gw[r] = "SUCCESSFUL" THEN "accept paid" ELSE "accept"
      <4>2. w[p] \in Copies /\ pc # "ask"
        BY DEF TypeOK
      <4> HIDE DEF pc
      <4>3. w'[p] = [w[p] EXCEPT !.ref = r, !.pc = pc]
        BY <4>1 DEF Become, TypeOK, pc
      <4>4. w'[p].pc = pc
        BY <4>2, <4>3 DEF Copies
      <4> QED BY <2>4, <4>2, <4>4
    <3>2. \A q \in Workers \ {p} : w'[q] = w[q]
      BY <2>1 DEF Typed
    <3>3. \A q \in Workers : w'[q].pc \in GatewaySteps => w[q].pc \in GatewaySteps
      BY <2>1, <3>2 DEF GatewaySteps
    <3>4. past' # "overwritten" =>
            \A q \in Workers : w'[q].pc \in GatewaySteps => alloc'["source"] \notin Unclaimed /\ Alone(q)'
      BY <2>2, <3>3 DEF ClaimInv, Alone
    <3>5. \A q \in Workers : w'[q].pc \in Chain => planned'
      BY <1>1, <2>1, <2>2, <3>2 DEF ClaimInv, Chain, GatewaySteps
    <3> QED BY <2>2, <3>1, <3>4, <3>5 DEF ClaimInv, Live
  <2> QED BY <2>3, <2>4
<1>4. CASE refundPayment(p)
  <2>1. Typed(p, {"failed", "accept", "accept paid"}) /\ w[p].pc = "ask"
    BY <1>4, SourceSteps DEF refundPayment, At
  <2>2. UNCHANGED <<planned, past, alloc>>
    BY <1>4 DEF refundPayment
  <2>3. gw' = gw \/ \E r \in Refunds, answer \in {"PENDING", "SUCCESSFUL"} : gw' = [gw EXCEPT ![r] = answer]
    BY <1>4 DEF refundPayment
  <2>4. \A q \in Workers \ {p} : w'[q] = w[q]
    BY <2>1 DEF Typed
  <2>5. w'[p].pc \in {"failed", "accept", "accept paid"}
    BY <2>1 DEF Typed
  <2>6. \A q \in Workers : w'[q].pc \in GatewaySteps => w[q].pc \in GatewaySteps
    BY <2>1, <2>4 DEF GatewaySteps
  <2>7. past' # "overwritten" =>
          \A q \in Workers : w'[q].pc \in GatewaySteps => alloc'["source"] \notin Unclaimed /\ Alone(q)'
    BY <2>2, <2>6 DEF ClaimInv, Alone
  <2>8. past' # "overwritten" => \A q \in Workers : w'[q].pc # "ask"
    BY <2>1, <2>2, <2>4, <2>5 DEF ClaimInv, Alone, GatewaySteps
  <2>9. past' # "overwritten" => \A r, s \in Refunds : Live(r)' /\ Live(s)' => r = s
    <3>1. past # "overwritten" => \A r \in Refunds : ~Live(r)
      BY <2>1 DEF ClaimInv
    <3> QED BY <1>0, <2>2, <2>3, <3>1 DEF Live
  <2>10. \A q \in Workers : w'[q].pc \in Chain => planned'
    BY <1>1, <2>1, <2>2, <2>4 DEF ClaimInv, Chain, GatewaySteps
  <2> QED BY <2>7, <2>8, <2>9, <2>10 DEF ClaimInv
<1> QED BY <1>2, <1>3, <1>4, TameSteps, TameKeepsClaims

LEMMA ClaimStep ==
  ASSUME TypeOK, ClaimInv, [Next]_vars
  PROVE  ClaimInv'
<1> USE DEF rest, plan, parts, lease, money
<1>1. ASSUME UNCHANGED <<w, planned>>, \A r \in Refunds : Live(r)' => Live(r),
             past' # "overwritten" => past # "overwritten",
             alloc'["source"] = alloc["source"] \/ alloc["source"] \in Unclaimed
      PROVE  ClaimInv'
  BY <1>1 DEF ClaimInv, Alone
<1>2. CASE Outside
  <2>1. UNCHANGED <<w, planned>>
    BY <1>2, OutsideSteps DEF Outside, LateCapture, onLatePaymentCapture, LateHandlerDies,
       LeaseExpires, GatewaySettles
  <2>2. \A r \in Refunds : Live(r)' => Live(r)
    <3>1. gw \in [Refunds -> {"none", "PENDING", "SUCCESSFUL", "FAILED"}]
      BY DEF TypeOK
    <3> QED BY <1>2, <3>1 DEF Live, Outside, LateCapture, onLatePaymentCapture, LateHandlerDies,
               LeaseExpires, GatewaySettles
  <2>3. past' # "overwritten" => past # "overwritten"
    <3>1. past' = past \/ Unmark(Leased) \/ Unmark(planned /\ alloc["source"] = "none")
      BY <1>2 DEF Outside, LateCapture, onLatePaymentCapture, addLateCaptureAllocation,
         LateHandlerDies, LeaseExpires, GatewaySettles
    <3> QED BY <3>1 DEF Unmark
  <2>4. alloc' = alloc \/ alloc["source"] = "none"
    BY <1>2 DEF Outside, LateCapture, onLatePaymentCapture, addLateCaptureAllocation,
       LateHandlerDies, LeaseExpires, GatewaySettles
  <2> QED BY <1>1, <2>1, <2>2, <2>3, <2>4 DEF Unclaimed
<1>3. CASE UNCHANGED vars
  BY <1>1, <1>3 DEF vars, Live
<1> QED BY <1>2, <1>3, ClaimWork DEF Next, Outside

LEMMA ClaimInit ==
  ASSUME Init
  PROVE  ClaimInv
<1>1. \A p \in Workers : w[p].pc = "idle"
  <2>1. Idle.pc = "idle"
    BY DEF Idle
  <2> QED BY <2>1 DEF Init
<1>2. \A r \in Refunds : ~Live(r)
  BY DEF Init, Live
<1> QED BY <1>1, <1>2 DEF ClaimInv, Chain, GatewaySteps

\* Attempts that die, time out or are refused leave one live refund at the
\* gateway, as long as no write replaced a claim it had not seen.
THEOREM OneRefundCorrect == Spec => []OneLiveRefund
<1>1. ClaimInv => OneLiveRefund
  BY DEF ClaimInv, OneLiveRefund
<1> QED BY <1>1, TypeInit, TypeStep, ClaimInit, ClaimStep, PTL DEF Spec

-----------------------------------------------------------------------------
(* A finished record is settled                                            *)

PastPlan == Chain \cup {"poll", "give up", "confirm", "refuse", "sum up", "report"}
PastWallet == GatewaySteps \cup {"claim", "poll", "give up", "confirm", "refuse", "sum up"}
Writing == {"poll", "claim", "give up", "confirm", "refuse"}
AllSettled == \A a \in Parts : alloc[a] \in Settled

\* What a copy of the record says at the steps that rely on it.
Fits(c) ==
  /\ c.pc = "freeze" => \A a \in Parts : c.saw[a] \in {"none", "PENDING"}
  /\ c.pc \in {"wallet", "wallet failed"} => c.saw["wallet"] \in {"PENDING", "FAILED"}
  /\ c.pc \in GatewaySteps => c.saw["source"] = "PROCESSING"
  /\ c.pc = "give up" => c.rid = 0
  /\ c.pc = "release" => c.job = "round"

\* A process that writes to the source allocation saw it open.
SawOpen(c) == c.pc \in Writing => c.saw["source"] \notin Settled

CopyInv ==
  /\ \A p \in Workers : Fits(w[p]) /\ (w[p].pc \in PastPlan => planned)
  /\ rid # 0 => planned /\ alloc["source"] # "none"
  /\ alloc["wallet"] \notin {"PROCESSING", "MANUAL_REVIEW"}
  /\ past # "overwritten" =>
       /\ alloc["source"] = "MANUAL_REVIEW" => rid = 0
       /\ \A p \in Workers : SawOpen(w[p])

\* All that is owed has an allocation; only the handler of a late payment may
\* still have to add one.
Covered == \A a \in owed : alloc[a] # "none" \/ (a = "source" /\ late \in {"captured", "push"})

\* A round that has met no error has settled the wallet's part by now, and all of
\* the refund when it is about to say so.
RoundFits(c) ==
  c.job = "round" /\ ~c.retry =>
    /\ c.pc = "release" => planned /\ AllSettled
    /\ c.pc = "report" /\ c.next \notin Unfinished => AllSettled
    /\ c.pc \in PastWallet => alloc["wallet"] \in Settled

SettledInv ==
  past = "clean" =>
    /\ planned => Covered
    /\ proc = "DONE" => planned /\ AllSettled
    /\ \A p \in Workers : RoundFits(w[p])

-----------------------------------------------------------------------------
(* What the helpers do to the fields of a copy                             *)

LEMMA CopyFields ==
  ASSUME NEW c \in Copies, NEW pc
  PROVE  LET d == [c EXCEPT !.pc = pc]
         IN  /\ d.pc = pc /\ d.job = c.job /\ d.retry = c.retry /\ d.saw = c.saw
             /\ d.rid = c.rid /\ d.worn = c.worn /\ d.ref = c.ref
             /\ d.prev = c.prev /\ d.next = c.next
  BY DEF Copies

LEMMA BecomeFields ==
  ASSUME TypeOK, NEW p \in Workers, NEW c, Become(p, c)
  PROVE  w'[p] = c /\ \A q \in Workers \ {p} : w'[q] = w[q]
  BY DEF TypeOK, Become

LEMMA GoToFields ==
  ASSUME TypeOK, NEW p \in Workers, NEW pc, GoTo(p, pc)
  PROVE  /\ w'[p].pc = pc /\ w'[p].job = w[p].job /\ w'[p].retry = w[p].retry
         /\ w'[p].saw = w[p].saw /\ w'[p].rid = w[p].rid
         /\ \A q \in Workers \ {p} : w'[q] = w[q]
<1>1. w[p] \in Copies
  BY DEF TypeOK
<1>2. w'[p] = [w[p] EXCEPT !.pc = pc] /\ \A q \in Workers \ {p} : w'[q] = w[q]
  BY DEF TypeOK, GoTo
<1> QED BY <1>1, <1>2, CopyFields

LEMMA IdleFields ==
  /\ Idle \in Copies /\ Idle.pc = "idle" /\ Idle.job = "round" /\ Idle.retry = FALSE
  BY CopyType DEF Idle

LEMMA SumUpFields ==
  ASSUME TypeOK, NEW p \in Workers, NEW failed \in BOOLEAN, SumUp(p, failed)
  PROVE  /\ w'[p].pc = "sum up" /\ w'[p].job = w[p].job /\ w'[p].retry = Again(p, failed)
         /\ \A q \in Workers \ {p} : w'[q] = w[q]
<1>1. [Idle EXCEPT !.pc = "sum up", !.job = w[p].job, !.retry = Again(p, failed)].pc = "sum up"
  BY DEF Idle
<1>2. [Idle EXCEPT !.pc = "sum up", !.job = w[p].job, !.retry = Again(p, failed)].job = w[p].job
  BY DEF Idle
<1>3. [Idle EXCEPT !.pc = "sum up", !.job = w[p].job, !.retry = Again(p, failed)].retry = Again(p, failed)
  BY DEF Idle
<1> QED BY <1>1, <1>2, <1>3, BecomeFields DEF SumUp

LEMMA ReleaseAgainFields ==
  ASSUME TypeOK, NEW p \in Workers, ReleaseAgain(p)
  PROVE  /\ w'[p].pc = "release" /\ w'[p].job = "round" /\ w'[p].retry
         /\ \A q \in Workers \ {p} : w'[q] = w[q]
<1>1. [Idle EXCEPT !.pc = "release", !.retry = TRUE].pc = "release"
  BY DEF Idle
<1>2. [Idle EXCEPT !.pc = "release", !.retry = TRUE].job = "round"
  BY DEF Idle
<1>3. [Idle EXCEPT !.pc = "release", !.retry = TRUE].retry
  BY DEF Idle
<1> QED BY <1>1, <1>2, <1>3, BecomeFields DEF ReleaseAgain

LEMMA ConcludeFields ==
  ASSUME TypeOK, NEW p \in Workers, NEW status, Conclude(p, status)
  PROVE  /\ \A q \in Workers \ {p} : w'[q] = w[q]
         /\ \/ /\ w[p].job = "round" /\ w'[p].pc = "release" /\ w'[p].job = "round"
               /\ w'[p].retry = (w[p].retry \/ status \in Unfinished)
            \/ w'[p] = Idle
<1>1. [Idle EXCEPT !.pc = "release", !.retry = w[p].retry \/ status \in Unfinished].pc = "release"
  BY DEF Idle
<1>2. [Idle EXCEPT !.pc = "release", !.retry = w[p].retry \/ status \in Unfinished].job = "round"
  BY DEF Idle
<1>3. [Idle EXCEPT !.pc = "release", !.retry = w[p].retry \/ status \in Unfinished].retry
        = (w[p].retry \/ status \in Unfinished)
  BY DEF Idle
<1> QED BY <1>1, <1>2, <1>3, BecomeFields DEF Conclude

\* From the wallet to an open source allocation, or past it.
LEMMA ToSourceFields ==
  ASSUME TypeOK, NEW p \in Workers, NEW copy \in Copies, NEW failed \in BOOLEAN,
         ToSource(p, copy, failed)
  PROVE  /\ \A q \in Workers \ {p} : w'[q] = w[q]
         /\ \/ /\ w'[p].pc = "sum up" /\ w'[p].job = w[p].job /\ w'[p].retry = Again(p, failed)
               /\ copy.saw["source"] \in Settled
            \/ /\ w'[p].pc \in {"poll", "claim", "give up"} /\ w'[p].job = copy.job
               /\ w'[p].retry = Again(p, failed)
               /\ w'[p].saw["source"] = copy.saw["source"] /\ copy.saw["source"] \notin Settled
               /\ w'[p].rid = copy.rid /\ (w'[p].pc = "give up" => copy.rid = 0)
<1> DEFINE pc == IF copy.rid # 0 THEN "poll" ELSE IF copy.worn THEN "give up" ELSE "claim"
           next == [copy EXCEPT !.pc = pc, !.saw["wallet"] = "none", !.worn = FALSE,
                                !.retry = Again(p, failed)]
<1>1. CASE copy.saw["source"] \in Settled
  BY <1>1, SumUpFields DEF ToSource
<1>2. CASE copy.saw["source"] \notin Settled
  <2>1. pc \in {"poll", "claim", "give up"} /\ (pc = "give up" => copy.rid = 0)
    OBVIOUS
  <2>2. Become(p, next)
    BY <1>2 DEF ToSource
  <2> HIDE DEF pc
  <2>3. /\ next.pc = pc /\ next.job = copy.job /\ next.retry = Again(p, failed)
        /\ next.saw["source"] = copy.saw["source"] /\ next.rid = copy.rid
    BY DEF Copies, Parts
  <2> HIDE DEF next
  <2> QED BY <1>2, <2>1, <2>2, <2>3, BecomeFields
<1> QED BY <1>1, <1>2

-----------------------------------------------------------------------------
(* Copies fit the record                                                   *)

\* A step of p after which its copy and the record fit each other.
Steady(p) ==
  /\ planned => planned'
  /\ \A q \in Workers \ {p} : w'[q] = w[q]
  /\ Fits(w'[p]) /\ (w'[p].pc \in PastPlan => planned')
  /\ rid' # 0 => planned' /\ alloc'["source"] # "none"
  /\ alloc'["wallet"] \notin {"PROCESSING", "MANUAL_REVIEW"}
  /\ past' # "overwritten" =>
       past # "overwritten" /\ (alloc'["source"] = "MANUAL_REVIEW" => rid' = 0) /\ SawOpen(w'[p])

LEMMA SteadyKeepsCopies ==
  ASSUME CopyInv, NEW p \in Workers, Steady(p)
  PROVE  CopyInv'
<1>1. \A q \in Workers : Fits(w'[q]) /\ (w'[q].pc \in PastPlan => planned')
  BY DEF CopyInv, Steady
<1>2. past' # "overwritten" => \A q \in Workers : SawOpen(w'[q])
  BY DEF CopyInv, Steady
<1>3. \A q \in Workers : Fits(w[q])' <=> Fits(w'[q])
  OBVIOUS
<1>4. \A q \in Workers : SawOpen(w[q])' <=> SawOpen(w'[q])
  OBVIOUS
<1> QED BY <1>1, <1>2, <1>3, <1>4 DEF CopyInv, Steady

\* Steps at which a copy must fit nothing.
Free == {"idle", "read", "await", "sum up", "report", "reset", "resolve"}

LEMMA SumUpIsSteady ==
  ASSUME TypeOK, NEW p \in Workers, NEW failed \in BOOLEAN, SumUp(p, failed)
  PROVE  Fits(w'[p]) /\ SawOpen(w'[p]) /\ w'[p].pc = "sum up"
  BY SumUpFields DEF Fits, SawOpen, GatewaySteps, Writing

LEMMA ToSourceFits ==
  ASSUME TypeOK, NEW p \in Workers, NEW copy \in Copies, NEW failed \in BOOLEAN,
         ToSource(p, copy, failed)
  PROVE  Fits(w'[p]) /\ SawOpen(w'[p])
<1>1. CASE w'[p].pc = "sum up"
  BY <1>1 DEF Fits, SawOpen, GatewaySteps, Writing
<1>2. CASE w'[p].pc # "sum up"
  <2>1. /\ w'[p].pc \in {"poll", "claim", "give up"}
        /\ w'[p].saw["source"] \notin Settled
        /\ w'[p].pc = "give up" => w'[p].rid = 0
    BY <1>2, ToSourceFields
  <2> QED BY <2>1 DEF Fits, SawOpen, GatewaySteps
<1> QED BY <1>1, <1>2

\* A step that leaves the allocations and the plan alone.
LEMMA UntouchedIsSteady ==
  ASSUME CopyInv, NEW p \in Workers,
         UNCHANGED <<planned, alloc, rid>>, past' # "overwritten" => past # "overwritten",
         \A q \in Workers \ {p} : w'[q] = w[q],
         Fits(w'[p]), w'[p].pc \in PastPlan => planned,
         past' # "overwritten" => SawOpen(w'[p])
  PROVE  Steady(p)
  BY DEF CopyInv, Steady

\* A step that has set one allocation after the plan.
LEMMA SetIsSteady ==
  ASSUME TypeOK, CopyInv, NEW p \in Workers, NEW a \in Parts, NEW status, NEW id,
         setAllocation(p, a, status, id), planned, planned' = planned,
         status # "none", a = "wallet" => status \in {"FAILED"} /\ id = rid,
         status = "MANUAL_REVIEW" /\ ~Changed(p, a) => id = 0,
         \A q \in Workers \ {p} : w'[q] = w[q],
         Fits(w'[p]), SawOpen(w'[p])
  PROVE  Steady(p)
<1>1. /\ alloc \in [Parts -> Statuses] /\ alloc' = [alloc EXCEPT ![a] = status] /\ rid' = id
      /\ Overwrite(Changed(p, a))
  BY DEF TypeOK, setAllocation
<1>2. past' # "overwritten" => past # "overwritten" /\ ~Changed(p, a)
  BY <1>1, PastMoves DEF Changed
<1>3. alloc'["wallet"] \notin {"PROCESSING", "MANUAL_REVIEW"}
  BY <1>1 DEF CopyInv, Parts
<1>4. rid' # 0 => alloc'["source"] # "none"
  BY <1>1 DEF CopyInv, Parts
<1>5. past' # "overwritten" /\ alloc'["source"] = "MANUAL_REVIEW" => rid' = 0
  <2>1. CASE a = "source"
    BY <1>1, <1>2, <2>1 DEF Parts
  <2>2. CASE a = "wallet"
    BY <1>1, <1>2, <2>2 DEF CopyInv, Parts
  <2> QED BY <2>1, <2>2 DEF Parts
<1> QED BY <1>2, <1>3, <1>4, <1>5 DEF Steady

LEMMA CopySteps ==
  ASSUME TypeOK, CopyInv, NEW p \in Workers, Work(p)
  PROVE  Steady(p)
<1> USE DEF rest, plan, parts, lease, money
<1>0. /\ alloc \in [Parts -> Statuses] /\ "wallet" \in Parts /\ "source" \in Parts
      /\ w[p] \in Copies /\ planned \in BOOLEAN
  BY DEF TypeOK, Parts
<1>1. Fits(w[p]) /\ (w[p].pc \in PastPlan => planned)
      /\ (past # "overwritten" => SawOpen(w[p]))
  BY DEF CopyInv
<1>2. ASSUME NEW pcs, Typed(p, pcs), pcs \subseteq Free, UNCHANGED <<planned, alloc, rid>>,
             past' # "overwritten" => past # "overwritten", pcs \cap PastPlan # {} => planned
      PROVE  Steady(p)
  <2>1. w'[p].pc \in Free /\ (w'[p].pc \in PastPlan => planned)
        /\ \A q \in Workers \ {p} : w'[q] = w[q]
    BY <1>2 DEF Typed
  <2>2. Fits(w'[p]) /\ SawOpen(w'[p])
    BY <2>1 DEF Free, Fits, SawOpen, GatewaySteps, Writing
  <2> QED BY <1>2, <2>1, <2>2, UntouchedIsSteady
<1>3. ASSUME UNCHANGED <<planned, alloc, rid>>, past' # "overwritten" => past # "overwritten",
             ReleaseAgain(p)
      PROVE  Steady(p)
  <2>1. Fits(w'[p]) /\ SawOpen(w'[p]) /\ w'[p].pc \notin PastPlan
    BY <1>3, ReleaseAgainFields DEF Fits, SawOpen, GatewaySteps, Writing, PastPlan, Chain
  <2> QED BY <1>3, <2>1, ReleaseAgainFields, UntouchedIsSteady
<1>4. ASSUME UNCHANGED <<planned, alloc, rid>>, past' # "overwritten" => past # "overwritten",
             Become(p, Idle)
      PROVE  Steady(p)
  <2>1. w'[p].pc = "idle"
    BY <1>4, BecomeFields, IdleFields
  <2>2. Fits(w'[p]) /\ SawOpen(w'[p]) /\ w'[p].pc \notin PastPlan
    BY <2>1 DEF Fits, SawOpen, GatewaySteps, Writing, PastPlan, Chain
  <2> QED BY <1>4, <2>2, BecomeFields, UntouchedIsSteady
<1>5. ASSUME UNCHANGED <<planned, alloc, rid>>, past' # "overwritten" => past # "overwritten",
             NEW failed \in BOOLEAN, SumUp(p, failed), planned
      PROVE  Steady(p)
  BY <1>5, SumUpIsSteady, SumUpFields, UntouchedIsSteady
<1>6. ASSUME UNCHANGED <<planned, alloc, rid>>, past' # "overwritten" => past # "overwritten",
             NEW pc, GoTo(p, pc), w[p].pc \in GatewaySteps, pc \in GatewaySteps
      PROVE  Steady(p)
  <2>1. w'[p].pc = pc /\ w'[p].saw = w[p].saw /\ \A q \in Workers \ {p} : w'[q] = w[q]
    BY <1>6, GoToFields
  <2>2. Fits(w'[p]) /\ SawOpen(w'[p])
    BY <1>1, <1>6, <2>1 DEF Fits, SawOpen, GatewaySteps, Writing
  <2>3. planned
    BY <1>1, <1>6 DEF PastPlan, Chain
  <2> QED BY <1>6, <2>1, <2>2, <2>3, UntouchedIsSteady
<1>7. CASE TakeLease(p)
  BY <1>2, <1>7, EarlySteps DEF TakeLease, Free, PastPlan, Chain, GatewaySteps
<1>8. CASE ReadRecord(p)
  <2> DEFINE copy == [w[p] EXCEPT !.saw = alloc, !.rid = rid, !.worn = attempts >= MaxAttempts]
             copyW == [copy EXCEPT !.pc = "wallet"]
             copyF == [w[p] EXCEPT !.pc = "freeze", !.saw = Plan]
  <2>1. UNCHANGED <<planned, alloc, rid, past>>
    BY <1>8 DEF ReadRecord
  <2>2. copy \in Copies /\ copy.saw = alloc /\ copy.rid = rid
    <3>1. (attempts >= MaxAttempts) \in BOOLEAN /\ rid \in 0..MaxRefunds
      BY DEF TypeOK
    <3> QED BY <1>0, <3>1 DEF Copies
  <2>3. copyW.pc = "wallet" /\ copyW.saw = alloc
    <3>1. PICK c \in Copies : c = copy
      BY <2>2
    <3> QED BY <2>2, <3>1, CopyFields
  <2>4. copyF.pc = "freeze" /\ copyF.saw = Plan
    BY <1>0 DEF Copies
  <2>5. \/ planned /\ alloc["wallet"] \in {"PENDING", "FAILED"} /\ Become(p, copyW)
        \/ planned /\ ToSource(p, copy, FALSE)
        \/ Become(p, copyF)
        \/ GoTo(p, "await")
    BY <1>8 DEF ReadRecord
  <2> HIDE DEF copy, copyW, copyF
  <2>6. CASE planned /\ alloc["wallet"] \in {"PENDING", "FAILED"} /\ Become(p, copyW)
    <3>1. w'[p] = copyW /\ \A q \in Workers \ {p} : w'[q] = w[q]
      BY <2>6, BecomeFields
    <3>2. Fits(w'[p]) /\ SawOpen(w'[p])
      BY <2>3, <2>6, <3>1 DEF Fits, SawOpen, GatewaySteps, Writing
    <3> QED BY <2>1, <2>6, <3>1, <3>2, UntouchedIsSteady
  <2>7. CASE planned /\ ToSource(p, copy, FALSE)
    BY <2>1, <2>2, <2>7, ToSourceFields, ToSourceFits, UntouchedIsSteady
  <2>8. CASE Become(p, copyF)
    <3>1. w'[p] = copyF /\ \A q \in Workers \ {p} : w'[q] = w[q]
      BY <2>8, BecomeFields
    <3>2. Fits(w'[p]) /\ SawOpen(w'[p]) /\ w'[p].pc \notin PastPlan
      BY <2>4, <3>1 DEF Fits, SawOpen, GatewaySteps, Writing, PastPlan, Chain, Plan
    <3> QED BY <2>1, <3>1, <3>2, UntouchedIsSteady
  <2>9. CASE GoTo(p, "await")
    <3>1. w'[p].pc = "await" /\ \A q \in Workers \ {p} : w'[q] = w[q]
      BY <2>9, GoToFields
    <3>2. Fits(w'[p]) /\ SawOpen(w'[p]) /\ w'[p].pc \notin PastPlan
      BY <3>1 DEF Fits, SawOpen, GatewaySteps, Writing, PastPlan, Chain
    <3> QED BY <2>1, <3>1, <3>2, UntouchedIsSteady
  <2> QED BY <2>5, <2>6, <2>7, <2>8, <2>9
<1>9. CASE AwaitConfirmation(p)
  BY <1>3, <1>4, <1>9 DEF AwaitConfirmation
<1>10. CASE planRefund(p)
  <2>1. past' # "overwritten" => past # "overwritten"
    BY <1>10, PastMoves DEF planRefund
  <2>2. /\ planned' /\ rid' = rid /\ w[p].pc = "freeze"
        /\ planned => alloc' = alloc
        /\ ~planned => alloc' = w[p].saw
    BY <1>10 DEF planRefund, At
  <2>3. \A a \in Parts : w[p].saw[a] \in {"none", "PENDING"}
    BY <1>1, <2>2 DEF Fits
  <2>4. rid' # 0 => alloc'["source"] # "none"
    BY <2>2 DEF CopyInv
  <2>5. alloc'["wallet"] \notin {"PROCESSING", "MANUAL_REVIEW"}
    BY <1>0, <2>2, <2>3 DEF CopyInv
  <2>6. past' # "overwritten" /\ alloc'["source"] = "MANUAL_REVIEW" => rid' = 0
    BY <1>0, <2>1, <2>2, <2>3 DEF CopyInv
  <2>7. Typed(p, {"read"})
    BY <1>10, EarlySteps
  <2>8. Fits(w'[p]) /\ SawOpen(w'[p])
    BY <2>7 DEF Typed, Fits, SawOpen, GatewaySteps, Writing
  <2> QED BY <2>1, <2>2, <2>4, <2>5, <2>6, <2>7, <2>8 DEF Typed, Steady
<1>a. ASSUME NEW r \in Refunds, NEW pc \in {"accept", "accept paid"},
             Become(p, [w[p] EXCEPT !.ref = r, !.pc = pc]), w[p].pc \in GatewaySteps,
             UNCHANGED <<planned, alloc, rid, past>>
      PROVE  Steady(p)
  <2> DEFINE copy == [w[p] EXCEPT !.ref = r, !.pc = pc]
  <2>1. copy.pc = pc /\ copy.saw = w[p].saw
    BY <1>0 DEF Copies
  <2>2. w'[p] = copy /\ \A q \in Workers \ {p} : w'[q] = w[q]
    BY <1>a, BecomeFields
  <2> HIDE DEF copy
  <2>3. Fits(w'[p]) /\ SawOpen(w'[p])
    BY <1>1, <1>a, <2>1, <2>2 DEF Fits, SawOpen, GatewaySteps, Writing
  <2>4. planned
    BY <1>1, <1>a DEF PastPlan, Chain
  <2> QED BY <1>a, <2>2, <2>3, <2>4, UntouchedIsSteady
<1>11. CASE processWalletDestination(p)
  <2>1. /\ w[p].pc = "wallet" /\ UNCHANGED <<planned, rid, past>>
        /\ alloc' = alloc \/ alloc' = [alloc EXCEPT !["wallet"] = "SUCCESSFUL"]
        /\ ToSource(p, w[p], FALSE) \/ GoTo(p, "wallet failed")
    BY <1>11 DEF processWalletDestination, At
  <2>2. planned
    BY <1>1, <2>1 DEF PastPlan, Chain
  <2>3. Fits(w'[p]) /\ SawOpen(w'[p]) /\ \A q \in Workers \ {p} : w'[q] = w[q]
    <3>1. CASE ToSource(p, w[p], FALSE)
      BY <1>0, <3>1, ToSourceFields, ToSourceFits
    <3>2. CASE GoTo(p, "wallet failed")
      BY <1>1, <2>1, <3>2, GoToFields DEF Fits, SawOpen, GatewaySteps, Writing
    <3> QED BY <2>1, <3>1, <3>2
  <2>4. alloc'["source"] = alloc["source"]
        /\ (alloc'["wallet"] = alloc["wallet"] \/ alloc'["wallet"] = "SUCCESSFUL")
    BY <1>0, <2>1
  <2> QED BY <2>1, <2>2, <2>3, <2>4 DEF CopyInv, Steady
<1>12. CASE WalletFailed(p)
  <2>1. /\ w[p].pc = "wallet failed" /\ planned' = planned
        /\ setAllocation(p, "wallet", "FAILED", rid) /\ ToSource(p, w[p], TRUE)
    BY <1>12 DEF WalletFailed, At
  <2>2. planned
    BY <1>1, <2>1 DEF PastPlan, Chain
  <2>3. Fits(w'[p]) /\ SawOpen(w'[p]) /\ \A q \in Workers \ {p} : w'[q] = w[q]
    BY <1>0, <2>1, ToSourceFields, ToSourceFits
  <2> QED BY <1>0, <2>1, <2>2, <2>3, SetIsSteady
<1>13. CASE claimAllocation(p)
  <2>1. w[p].pc = "claim" /\ UNCHANGED <<planned, rid, past>>
    BY <1>13 DEF claimAllocation, At
  <2>2. planned
    BY <1>1, <2>1 DEF PastPlan, Chain
  <2>3. CASE ~Claimable
    BY <1>5, <1>13, <2>1, <2>2, <2>3 DEF claimAllocation
  <2>4. CASE Claimable
    <3> DEFINE copy == [w[p] EXCEPT !.pc = "look up", !.saw["source"] = "PROCESSING"]
    <3>1. alloc' = [alloc EXCEPT !["source"] = "PROCESSING"] /\ Become(p, copy)
      BY <1>13, <2>4 DEF claimAllocation
    <3>2. copy.pc = "look up" /\ copy.saw["source"] = "PROCESSING"
      BY <1>0 DEF Copies
    <3> HIDE DEF copy
    <3>3. w'[p] = copy /\ \A q \in Workers \ {p} : w'[q] = w[q]
      BY <3>1, BecomeFields
    <3>4. Fits(w'[p]) /\ SawOpen(w'[p])
      BY <3>2, <3>3 DEF Fits, SawOpen, GatewaySteps, Writing
    <3>5. alloc'["source"] = "PROCESSING" /\ alloc'["wallet"] = alloc["wallet"]
      BY <1>0, <3>1
    <3> QED BY <2>1, <2>2, <3>3, <3>4, <3>5 DEF CopyInv, Steady
  <2> QED BY <2>3, <2>4
<1>14. CASE PollRefund(p)
  <2>1. w[p].pc = "poll" /\ UNCHANGED <<planned, alloc, rid, past>>
    BY <1>14 DEF PollRefund, At
  <2>2. planned
    BY <1>1, <2>1 DEF PastPlan
  <2>3. ASSUME NEW pc \in {"confirm", "refuse"}, GoTo(p, pc) PROVE Steady(p)
    <3>1. w'[p].pc = pc /\ w'[p].saw = w[p].saw /\ \A q \in Workers \ {p} : w'[q] = w[q]
      BY <2>3, GoToFields
    <3>2. Fits(w'[p]) /\ (past # "overwritten" => SawOpen(w'[p]))
      BY <1>1, <2>1, <3>1 DEF Fits, SawOpen, GatewaySteps, Writing
    <3> QED BY <2>1, <2>2, <3>1, <3>2, UntouchedIsSteady
  <2>4. GoTo(p, "confirm") \/ GoTo(p, "refuse") \/ SumUp(p, FALSE) \/ SumUp(p, TRUE)
    BY <1>14 DEF PollRefund
  <2> QED BY <1>5, <2>1, <2>2, <2>3, <2>4
<1>15. CASE findRefunds(p)
  <2>1. w[p].pc = "look up" /\ UNCHANGED <<planned, alloc, rid, past>>
    BY <1>15 DEF findRefunds, At
  <2>2. \/ GoTo(p, "failed") \/ GoTo(p, "ask")
        \/ \E r \in Refunds, pc \in {"accept", "accept paid"} : Become(p, [w[p] EXCEPT !.ref = r, !.pc = pc])
    BY <1>15 DEF findRefunds
  <2> QED BY <1>6, <1>a, <2>1, <2>2 DEF GatewaySteps
<1>16. CASE refundPayment(p)
  <2>1. w[p].pc = "ask" /\ UNCHANGED <<planned, alloc, rid, past>>
    BY <1>16 DEF refundPayment, At
  <2>2. \/ GoTo(p, "failed")
        \/ \E r \in Refunds, pc \in {"accept", "accept paid"} : Become(p, [w[p] EXCEPT !.ref = r, !.pc = pc])
    BY <1>16 DEF refundPayment
  <2> QED BY <1>6, <1>a, <2>1, <2>2 DEF GatewaySteps
<1>17. CASE AcceptRefund(p)
  <2> DEFINE copy == [w[p] EXCEPT !.pc = "complete", !.rid = w[p].ref, !.ref = 0]
  <2>1. /\ w[p].pc \in {"accept", "accept paid"} /\ planned' = planned
        /\ setAllocation(p, "source", "PROCESSING", w[p].ref)
        /\ SumUp(p, FALSE) \/ Become(p, copy)
    BY <1>17 DEF AcceptRefund, At
  <2>2. planned
    BY <1>1, <2>1 DEF PastPlan, Chain, GatewaySteps
  <2>3. copy.pc = "complete" /\ copy.saw = w[p].saw
    BY <1>0 DEF Copies
  <2> HIDE DEF copy
  <2>4. Fits(w'[p]) /\ SawOpen(w'[p]) /\ \A q \in Workers \ {p} : w'[q] = w[q]
    <3>1. CASE SumUp(p, FALSE)
      BY <3>1, SumUpFields, SumUpIsSteady
    <3>2. CASE Become(p, copy)
      <4>1. w'[p] = copy /\ \A q \in Workers \ {p} : w'[q] = w[q]
        BY <3>2, BecomeFields
      <4> QED BY <1>1, <2>1, <2>3, <4>1 DEF Fits, SawOpen, GatewaySteps, Writing
    <3> QED BY <2>1, <3>1, <3>2
  <2> QED BY <1>0, <2>1, <2>2, <2>4, SetIsSteady
<1>18. CASE completeGatewayAllocation(p)
  <2>1. /\ w[p].pc \in {"complete", "confirm"} /\ UNCHANGED <<planned, rid, past>>
        /\ alloc' = [alloc EXCEPT !["source"] = "SUCCESSFUL"] /\ SumUp(p, FALSE)
    BY <1>18 DEF completeGatewayAllocation, At
  <2>2. planned
    BY <1>1, <2>1 DEF PastPlan, Chain, GatewaySteps
  <2>3. alloc'["source"] = "SUCCESSFUL" /\ alloc'["wallet"] = alloc["wallet"]
    BY <1>0, <2>1
  <2> QED BY <2>1, <2>2, <2>3, SumUpFields, SumUpIsSteady DEF CopyInv, Steady
<1>b. ASSUME NEW status \in {"FAILED", "MANUAL_REVIEW"}, NEW id, NEW failed \in BOOLEAN,
             setAllocation(p, "source", status, id), SumUp(p, failed), planned, planned' = planned,
             status = "MANUAL_REVIEW" /\ ~Changed(p, "source") => id = 0
      PROVE  Steady(p)
  <2>1. Fits(w'[p]) /\ SawOpen(w'[p]) /\ \A q \in Workers \ {p} : w'[q] = w[q]
    BY <1>b, SumUpFields, SumUpIsSteady
  <2> QED BY <1>0, <1>b, <2>1, SetIsSteady
<1>19. CASE RefundFailed(p)
  <2>1. w[p].pc = "failed" /\ planned' = planned
    BY <1>19 DEF RefundFailed, At
  <2>2. planned
    BY <1>1, <2>1 DEF PastPlan, Chain, GatewaySteps
  <2> QED BY <1>19, <1>b, <2>1, <2>2 DEF RefundFailed
<1>20. CASE RefundRefused(p)
  <2>1. w[p].pc = "refuse" /\ planned' = planned
    BY <1>20 DEF RefundRefused, At
  <2>2. planned
    BY <1>1, <2>1 DEF PastPlan
  <2> QED BY <1>20, <1>b, <2>1, <2>2 DEF RefundRefused
<1>21. CASE GiveUp(p)
  <2>1. w[p].pc = "give up" /\ planned' = planned
    BY <1>21 DEF GiveUp, At
  <2>2. planned
    BY <1>1, <2>1 DEF PastPlan
  <2>3. ~Changed(p, "source") => rid = 0
    BY <1>1, <2>1 DEF Changed, Fits
  <2> QED BY <1>21, <1>b, <2>1, <2>2, <2>3 DEF GiveUp
<1>22. CASE finalizeRefundStatus(p)
  <2> DEFINE copy == [Idle EXCEPT !.pc = "report", !.job = w[p].job, !.retry = w[p].retry,
                                  !.prev = summary, !.next = aggregateStatus]
  <2>1. w[p].pc \in {"sum up", "report"} /\ UNCHANGED <<planned, alloc, rid>>
    BY <1>22 DEF finalizeRefundStatus, At
  <2>2. planned
    BY <1>1, <2>1 DEF PastPlan
  <2>3. past' # "overwritten" => past # "overwritten"
    <3>1. past' = past \/ Unmark(summary # w[p].prev)
      BY <1>22 DEF finalizeRefundStatus
    <3> QED BY <3>1, PastMoves
  <2>4. Become(p, copy) \/ Conclude(p, summary) \/ Conclude(p, w[p].next) \/ Conclude(p, w[p].prev)
    BY <1>22 DEF finalizeRefundStatus
  <2>5. copy.pc = "report"
    BY DEF Idle
  <2> HIDE DEF copy
  <2>6. ASSUME NEW status, Conclude(p, status) PROVE Steady(p)
    <3>1. /\ \A q \in Workers \ {p} : w'[q] = w[q]
          /\ (w'[p].pc = "release" /\ w'[p].job = "round") \/ w'[p].pc = "idle"
      BY <2>6, ConcludeFields, IdleFields
    <3>2. Fits(w'[p]) /\ SawOpen(w'[p])
      BY <3>1 DEF Fits, SawOpen, GatewaySteps, Writing
    <3> QED BY <2>1, <2>2, <2>3, <3>1, <3>2, UntouchedIsSteady
  <2>7. CASE Become(p, copy)
    <3>1. w'[p] = copy /\ \A q \in Workers \ {p} : w'[q] = w[q]
      BY <2>7, BecomeFields
    <3>2. Fits(w'[p]) /\ SawOpen(w'[p])
      BY <2>5, <3>1 DEF Fits, SawOpen, GatewaySteps, Writing
    <3> QED BY <2>1, <2>2, <2>3, <3>1, <3>2, UntouchedIsSteady
  <2> QED BY <2>4, <2>6, <2>7
<1>23. CASE Release(p)
  BY <1>4, <1>23 DEF Release
<1>24. CASE handleGatewayRefundUpdate(p)
  <2>1. /\ rid # 0 /\ alloc["source"] # "SUCCESSFUL" /\ UNCHANGED <<planned, alloc, rid, past>>
        /\ \E pc \in {"confirm", "refuse"} : Become(p, SeenSource(pc))
    BY <1>24 DEF handleGatewayRefundUpdate
  <2>2. PICK pc \in {"confirm", "refuse"} : Become(p, SeenSource(pc))
    BY <2>1
  <2>3. SeenSource(pc).pc = pc /\ SeenSource(pc).saw["source"] = alloc["source"]
    <3>1. PICK d : d = Copied("webhook", pc)
      OBVIOUS
    <3>2. d \in Copies /\ d.pc = pc /\ d.saw = alloc
      <4>1. pc \in Steps /\ "webhook" \in Jobs /\ rid \in 0..MaxRefunds
        BY DEF Steps, Jobs, TypeOK
      <4>2. PICK c \in Copies : c = Idle
        BY CopyType
      <4>3. /\ [c EXCEPT !.job = "webhook", !.pc = pc, !.saw = alloc, !.rid = rid] \in Copies
            /\ [c EXCEPT !.job = "webhook", !.pc = pc, !.saw = alloc, !.rid = rid].pc = pc
            /\ [c EXCEPT !.job = "webhook", !.pc = pc, !.saw = alloc, !.rid = rid].saw = alloc
        BY <1>0, <4>1 DEF Copies
      <4> QED BY <3>1, <4>2, <4>3 DEF Copied
    <3>3. /\ [d EXCEPT !.saw["wallet"] = "none"].pc = pc
          /\ [d EXCEPT !.saw["wallet"] = "none"].saw["source"] = alloc["source"]
      BY <3>2 DEF Copies, Parts
    <3> QED BY <3>1, <3>3 DEF SeenSource
  <2>4. w'[p] = SeenSource(pc) /\ \A q \in Workers \ {p} : w'[q] = w[q]
    BY <2>2, BecomeFields
  <2>5. planned /\ alloc["source"] # "none"
        /\ (past # "overwritten" => alloc["source"] # "MANUAL_REVIEW")
    BY <2>1 DEF CopyInv
  <2>6. w'[p].pc = pc /\ w'[p].saw["source"] = alloc["source"]
    BY <2>3, <2>4
  <2>7. Fits(w'[p])
    BY <2>6 DEF Fits, GatewaySteps
  <2>8. past # "overwritten" => SawOpen(w'[p])
    BY <2>1, <2>5, <2>6 DEF SawOpen, Settled
  <2> QED BY <2>1, <2>4, <2>5, <2>7, <2>8, UntouchedIsSteady
<1>25. CASE Administer(p)
  BY <1>2, <1>25, OtherSteps DEF Administer, Free, PastPlan, Chain, GatewaySteps
<1>26. CASE resetFailedRefund(p)
  <2>1. /\ UNCHANGED <<planned, rid>>
        /\ \A a \in Parts : alloc'[a] \in {alloc[a], "PENDING", IF a = "source" THEN "PROCESSING" ELSE "PENDING"}
        /\ past' # "overwritten" => past # "overwritten"
    BY <1>26, PastMoves DEF resetFailedRefund, SaveParts, Overwrite
  <2>2. Typed(p, {"read"})
    BY <1>26, OtherSteps
  <2>3. Fits(w'[p]) /\ SawOpen(w'[p]) /\ w'[p].pc \notin PastPlan
    BY <2>2 DEF Typed, Fits, SawOpen, GatewaySteps, Writing, PastPlan, Chain
  <2>4. alloc'["wallet"] \in {alloc["wallet"], "PENDING"}
        /\ alloc'["source"] \in {alloc["source"], "PENDING", "PROCESSING"}
    BY <1>0, <2>1
  <2> QED BY <2>1, <2>2, <2>3, <2>4 DEF CopyInv, Steady, Typed
<1>27. CASE resolveRefundManually(p)
  <2>1. /\ UNCHANGED <<planned, rid>>
        /\ \A a \in Parts : alloc'[a] \in {alloc[a], "SUCCESSFUL"}
        /\ past' # "overwritten" => past # "overwritten"
    BY <1>27 DEF resolveRefundManually, SaveParts, Overwrite
  <2>2. Typed(p, {"idle"})
    BY <1>27, OtherSteps
  <2>3. Fits(w'[p]) /\ SawOpen(w'[p]) /\ w'[p].pc \notin PastPlan
    BY <2>2 DEF Typed, Fits, SawOpen, GatewaySteps, Writing, PastPlan, Chain
  <2>4. alloc'["wallet"] \in {alloc["wallet"], "SUCCESSFUL"}
        /\ alloc'["source"] \in {alloc["source"], "SUCCESSFUL"}
    BY <1>0, <2>1
  <2> QED BY <2>1, <2>2, <2>3, <2>4 DEF CopyInv, Steady, Typed
<1>28. CASE Stumble(p)
  <2>1. UNCHANGED <<planned, alloc, rid, past>>
    BY <1>28 DEF Stumble
  <2>2. \/ w[p].pc \in {"accept", "accept paid", "complete"} /\ GoTo(p, "failed")
        \/ w[p].pc = "wallet failed" /\ ToSource(p, w[p], TRUE)
        \/ w[p].pc \in {"confirm", "refuse", "give up", "failed"} /\ SumUp(p, TRUE)
        \/ ReleaseAgain(p)
    BY <1>28 DEF Stumble, At
  <2>3. CASE w[p].pc \in {"accept", "accept paid", "complete"} /\ GoTo(p, "failed")
    BY <1>6, <2>1, <2>3 DEF GatewaySteps
  <2>4. CASE w[p].pc = "wallet failed" /\ ToSource(p, w[p], TRUE)
    <3>1. planned
      BY <1>1, <2>4 DEF PastPlan, Chain
    <3> QED BY <1>0, <2>1, <2>4, <3>1, ToSourceFields, ToSourceFits, UntouchedIsSteady
  <2>5. CASE w[p].pc \in {"confirm", "refuse", "give up", "failed"} /\ SumUp(p, TRUE)
    <3>1. planned
      BY <1>1, <2>5 DEF PastPlan, Chain, GatewaySteps
    <3> QED BY <1>5, <2>1, <2>5, <3>1
  <2>6. CASE ReleaseAgain(p)
    BY <1>3, <2>1, <2>6
  <2> QED BY <2>2, <2>3, <2>4, <2>5, <2>6
<1>29. CASE Die(p)
  BY <1>4, <1>29 DEF Die
<1> QED BY <1>7, <1>8, <1>9, <1>10, <1>11, <1>12, <1>13, <1>14, <1>15, <1>16, <1>17, <1>18,
           <1>19, <1>20, <1>21, <1>22, <1>23, <1>24, <1>25, <1>26, <1>27, <1>28, <1>29 DEF Work

LEMMA CopyStep ==
  ASSUME TypeOK, CopyInv, [Next]_vars
  PROVE  CopyInv'
<1> USE DEF rest, plan, parts, lease, money
<1>1. ASSUME NEW p \in Workers, Work(p) PROVE CopyInv'
  BY <1>1, CopySteps, SteadyKeepsCopies
<1>2. CASE Outside
  <2>1. /\ UNCHANGED <<planned, rid, w>>
        /\ past' # "overwritten" => past # "overwritten"
        /\ alloc' = alloc \/ alloc' = [alloc EXCEPT !["source"] = "PENDING"]
    <3> USE DEF Unmark
    <3>1. CASE LateCapture
      BY <3>1 DEF LateCapture
    <3>2. CASE onLatePaymentCapture
      BY <3>2 DEF onLatePaymentCapture, addLateCaptureAllocation
    <3>3. CASE LateHandlerDies
      BY <3>3 DEF LateHandlerDies
    <3>4. CASE LeaseExpires \/ GatewaySettles
      BY <3>4 DEF LeaseExpires, GatewaySettles
    <3> QED BY <1>2, <3>1, <3>2, <3>3, <3>4 DEF Outside
  <2>2. alloc'["wallet"] = alloc["wallet"] /\ alloc'["source"] \in {alloc["source"], "PENDING"}
    BY <2>1 DEF TypeOK, Parts
  <2>3. \A q \in Workers : (Fits(w[q])' <=> Fits(w[q])) /\ (SawOpen(w[q])' <=> SawOpen(w[q]))
    BY <2>1 DEF Fits, SawOpen
  <2> QED BY <2>1, <2>2, <2>3 DEF CopyInv
<1>3. CASE UNCHANGED vars
  <2>1. UNCHANGED <<planned, rid, w, past, alloc>>
    BY <1>3 DEF vars
  <2>2. \A q \in Workers : (Fits(w[q])' <=> Fits(w[q])) /\ (SawOpen(w[q])' <=> SawOpen(w[q]))
    BY <2>1 DEF Fits, SawOpen
  <2> QED BY <2>1, <2>2 DEF CopyInv
<1> QED BY <1>1, <1>2, <1>3 DEF Next, Outside

LEMMA CopyInit ==
  ASSUME Init
  PROVE  CopyInv
<1>1. ASSUME NEW p \in Workers
      PROVE  Fits(w[p]) /\ SawOpen(w[p]) /\ w[p].pc \notin PastPlan
  <2>1. w[p].pc = "idle"
    BY IdleFields DEF Init
  <2> QED BY <2>1 DEF Fits, SawOpen, GatewaySteps, Writing, PastPlan, Chain
<1>2. alloc["wallet"] = "none" /\ alloc["source"] = "none" /\ rid = 0
  BY DEF Init, Nothing, Parts
<1> QED BY <1>1, <1>2 DEF CopyInv

-----------------------------------------------------------------------------
(* A finished record stays settled                                         *)

\* A step of p that undoes nothing a round or a finished record relies on.
Kept == /\ AllSettled => AllSettled'
        /\ alloc["wallet"] \in Settled => alloc'["wallet"] \in Settled

Calm(p) ==
  past' = "clean" =>
    /\ past = "clean"
    /\ \A q \in Workers \ {p} : w'[q] = w[q]
    /\ planned => planned'
    /\ planned' => Covered'
    /\ proc' = "DONE" => proc = "DONE" \/ (planned' /\ AllSettled')
    /\ RoundFits(w[p])'
    /\ Kept \/ ~planned \/ (~Leased /\ proc' # "DONE")

LEMMA CalmKeepsSettled ==
  ASSUME CopyInv, SettledInv, NEW p \in Workers, Calm(p)
  PROVE  SettledInv'
<1> SUFFICES ASSUME past' = "clean" PROVE SettledInv'
  BY DEF SettledInv
<1>1. /\ past = "clean" /\ (planned => planned') /\ (planned' => Covered')
      /\ proc' = "DONE" => proc = "DONE" \/ (planned' /\ AllSettled')
      /\ Kept \/ ~planned \/ (~Leased /\ proc' # "DONE")
  BY DEF Calm
<1>2. (proc = "DONE" => planned /\ AllSettled) /\ \A q \in Workers : RoundFits(w[q])
  BY <1>1 DEF SettledInv
<1>3. proc' = "DONE" => planned' /\ AllSettled'
  BY <1>1, <1>2 DEF Kept
<1>4. ASSUME NEW q \in Workers PROVE RoundFits(w[q])'
  <2>1. CASE q = p
    BY <2>1 DEF Calm
  <2>2. CASE q # p
    <3>1. w'[q] = w[q]
      BY <2>2 DEF Calm
    <3>2. CASE Kept
      BY <1>1, <1>2, <3>1, <3>2 DEF Kept, RoundFits
    <3>3. CASE ~planned
      <4>1. w[q].pc \notin PastPlan
        BY <3>3 DEF CopyInv
      <4> QED BY <1>2, <3>1, <3>3, <4>1 DEF RoundFits, PastPlan, PastWallet, Chain
    <3>4. CASE ~Leased
      <4>1. w[q] = Idle \/ w[q].job # "round"
        BY <3>4 DEF Leased
      <4>2. w[q].job # "round" \/ w[q].pc = "idle"
        BY <4>1, IdleFields
      <4> QED BY <3>1, <4>2 DEF RoundFits, PastWallet, GatewaySteps
    <3> QED BY <1>1, <3>2, <3>3, <3>4
  <2> QED BY <2>1, <2>2
<1> QED BY <1>1, <1>3, <1>4 DEF SettledInv

\* A step that leaves the record, but not its summary, alone.
LEMMA UntouchedIsCalm ==
  ASSUME SettledInv, NEW p \in Workers,
         UNCHANGED <<planned, owed, late, alloc, proc>>, past' = "clean" => past = "clean",
         \A q \in Workers \ {p} : w'[q] = w[q],
         past' = "clean" => RoundFits(w[p])'
  PROVE  Calm(p)
BY DEF SettledInv, Calm, Kept, Covered, AllSettled

\* A step that writes to the allocations after the plan.
LEMMA WriteIsCalm ==
  ASSUME SettledInv, NEW p \in Workers,
         UNCHANGED <<planned, owed, late, proc>>, past' = "clean" => past = "clean",
         \A a \in Parts : alloc[a] # "none" => alloc'[a] # "none",
         past' = "clean" => Kept,
         owed \subseteq Parts,
         \A q \in Workers \ {p} : w'[q] = w[q],
         past' = "clean" => RoundFits(w[p])'
  PROVE  Calm(p)
BY DEF SettledInv, Calm, Covered

\* No step of a round, or none it relies on, or an error that it reports.
LEMMA FreeRound ==
  ASSUME NEW p \in Workers,
         \/ w'[p].pc \notin PastWallet \cup {"report", "release"}
         \/ w'[p].job # "round" \/ w'[p].retry
  PROVE  RoundFits(w[p])'
BY DEF RoundFits, PastWallet

\* The same round is still at the source allocation.
LEMMA SameRound ==
  ASSUME NEW p \in Workers, RoundFits(w[p]), w[p].pc \in PastWallet,
         w'[p].pc \in PastWallet, w'[p].job = w[p].job, w[p].retry => w'[p].retry,
         w[p].retry \in BOOLEAN, w'[p].retry \in BOOLEAN,
         alloc["wallet"] \in Settled => alloc'["wallet"] \in Settled
  PROVE  RoundFits(w[p])'
BY DEF RoundFits, PastWallet, GatewaySteps

\* A round without errors ends with a status that is final only when all is settled.
LEMMA AggregateSettled ==
  ASSUME TypeOK, CopyInv, alloc["wallet"] \in Settled, aggregateStatus \notin Unfinished
  PROVE  AllSettled
<1>1. alloc["source"] \in Statuses /\ alloc["wallet"] \in {"none", "SUCCESSFUL"}
  BY DEF TypeOK, CopyInv, Settled, Parts
<1>2. ASSUME alloc["source"] \in Unfinished PROVE aggregateStatus \in Unfinished
  <2> DEFINE found == {alloc[a] : a \in Parts} \ {"none"}
  <2>1. /\ alloc["source"] \in found /\ "MANUAL_REVIEW" \notin found
        /\ found # {} /\ found # {"SUCCESSFUL"}
    BY <1>1, <1>2 DEF Parts, Unfinished
  <2>2. aggregateStatus = IF "FAILED" \in found THEN "FAILED"
                          ELSE IF "PROCESSING" \in found THEN "PROCESSING" ELSE "PENDING"
    BY <2>1 DEF aggregateStatus
  <2> QED BY <2>2 DEF Unfinished
<1> QED BY <1>1, <1>2 DEF AllSettled, Parts, Statuses, Settled, Unfinished

\* The steps that leave the allocations alone.
LEMMA CalmSteps ==
  ASSUME TypeOK, CopyInv, SettledInv, NEW p \in Workers
  PROVE  /\ TakeLease(p) => Calm(p)
         /\ ReadRecord(p) => Calm(p)
         /\ AwaitConfirmation(p) => Calm(p)
         /\ PollRefund(p) => Calm(p)
         /\ findRefunds(p) => Calm(p)
         /\ refundPayment(p) => Calm(p)
         /\ finalizeRefundStatus(p) => Calm(p)
         /\ Release(p) => Calm(p)
         /\ handleGatewayRefundUpdate(p) => Calm(p)
         /\ Administer(p) => Calm(p)
         /\ Stumble(p) => Calm(p)
         /\ Die(p) => Calm(p)
<1> USE DEF rest, plan, parts, lease, money
<1>0. /\ alloc \in [Parts -> Statuses] /\ "wallet" \in Parts /\ "source" \in Parts
      /\ w[p] \in Copies /\ w[p].retry \in BOOLEAN /\ TRUE \in BOOLEAN /\ FALSE \in BOOLEAN
  BY DEF TypeOK, Parts, Copies
<1>1. past = "clean" => RoundFits(w[p])
  BY DEF SettledInv
<1>2. Fits(w[p]) /\ (w[p].pc \in PastPlan => planned)
  BY DEF CopyInv
<1>a. ASSUME NEW pcs, Typed(p, pcs), pcs \cap (PastWallet \cup {"report", "release"}) = {},
             UNCHANGED <<planned, owed, late, alloc, proc, past>>
      PROVE  Calm(p)
  BY <1>a, FreeRound, UntouchedIsCalm DEF Typed
<1>b. ASSUME UNCHANGED <<planned, owed, late, alloc, proc, past>>, Become(p, Idle)
      PROVE  Calm(p)
  <2>1. w'[p].pc = "idle"
    BY <1>b, BecomeFields, IdleFields
  <2>2. RoundFits(w[p])'
    BY <2>1, FreeRound DEF PastWallet, GatewaySteps
  <2> QED BY <1>b, <2>2, BecomeFields, UntouchedIsCalm
<1>c. ASSUME UNCHANGED <<planned, owed, late, alloc, proc, past>>, ReleaseAgain(p)
      PROVE  Calm(p)
  <2>1. RoundFits(w[p])'
    BY <1>c, ReleaseAgainFields, FreeRound
  <2> QED BY <1>c, <2>1, ReleaseAgainFields, UntouchedIsCalm
<1>d. ASSUME UNCHANGED <<planned, owed, late, alloc, proc, past>>, w[p].pc \in PastWallet,
             NEW pc \in PastWallet, GoTo(p, pc)
      PROVE  Calm(p)
  <2>1. past = "clean" => RoundFits(w[p])'
    BY <1>0, <1>1, <1>d, GoToFields, SameRound
  <2> QED BY <1>d, <2>1, GoToFields, UntouchedIsCalm
<1>e. ASSUME UNCHANGED <<planned, owed, late, alloc, proc, past>>, w[p].pc \in PastWallet,
             NEW failed \in BOOLEAN, SumUp(p, failed)
      PROVE  Calm(p)
  <2>1. /\ w'[p].pc = "sum up" /\ w'[p].job = w[p].job /\ (w[p].retry => w'[p].retry)
        /\ w'[p].retry \in BOOLEAN
    BY <1>0, <1>e, SumUpFields DEF Again
  <2>2. past = "clean" => RoundFits(w[p])'
    BY <1>0, <1>1, <1>e, <2>1, SameRound DEF PastWallet
  <2> QED BY <1>e, <2>2, SumUpFields, UntouchedIsCalm
<1>f. ASSUME UNCHANGED <<planned, owed, late, alloc, proc, past>>, w[p].pc \in GatewaySteps,
             NEW r \in Refunds, NEW pc \in {"accept", "accept paid"},
             Become(p, [w[p] EXCEPT !.ref = r, !.pc = pc])
      PROVE  Calm(p)
  <2> DEFINE copy == [w[p] EXCEPT !.ref = r, !.pc = pc]
  <2>1. copy.pc = pc /\ copy.job = w[p].job /\ copy.retry = w[p].retry
    BY <1>0 DEF Copies
  <2>2. w'[p] = copy /\ \A q \in Workers \ {p} : w'[q] = w[q]
    BY <1>f, BecomeFields
  <2> HIDE DEF copy
  <2>3. past = "clean" => RoundFits(w[p])'
    BY <1>0, <1>1, <1>f, <2>1, <2>2, SameRound DEF PastWallet, GatewaySteps
  <2> QED BY <1>f, <2>2, <2>3, UntouchedIsCalm
<1>3. TakeLease(p) => Calm(p)
  BY <1>a, EarlySteps DEF TakeLease, PastWallet, GatewaySteps
<1>4. ASSUME ReadRecord(p) PROVE Calm(p)
  <2> DEFINE copy == [w[p] EXCEPT !.saw = alloc, !.rid = rid, !.worn = attempts >= MaxAttempts]
             copyW == [copy EXCEPT !.pc = "wallet"]
             copyF == [w[p] EXCEPT !.pc = "freeze", !.saw = Plan]
  <2>1. UNCHANGED <<planned, owed, late, alloc, proc, past>>
    BY <1>4 DEF ReadRecord
  <2>2. copy \in Copies /\ copy.job = w[p].job /\ copy.retry = w[p].retry
    <3>1. (attempts >= MaxAttempts) \in BOOLEAN /\ rid \in 0..MaxRefunds
      BY DEF TypeOK
    <3> QED BY <1>0, <3>1 DEF Copies
  <2>3. copyW.pc = "wallet"
    <3>1. PICK c \in Copies : c = copy
      BY <2>2
    <3> QED BY <3>1, CopyFields
  <2>4. copyF.pc = "freeze"
    BY <1>0 DEF Copies
  <2>5. \/ Become(p, copyW)
        \/ alloc["wallet"] \notin {"PENDING", "FAILED"} /\ ToSource(p, copy, FALSE)
        \/ Become(p, copyF)
        \/ GoTo(p, "await")
    BY <1>4 DEF ReadRecord
  <2> HIDE DEF copy, copyW, copyF
  <2>6. CASE Become(p, copyW) \/ Become(p, copyF) \/ GoTo(p, "await")
    <3>1. w'[p].pc \in {"wallet", "freeze", "await"} /\ \A q \in Workers \ {p} : w'[q] = w[q]
      BY <2>3, <2>4, <2>6, BecomeFields, GoToFields
    <3>2. RoundFits(w[p])'
      BY <3>1, FreeRound DEF PastWallet, GatewaySteps
    <3> QED BY <2>1, <3>1, <3>2, UntouchedIsCalm
  <2>7. CASE alloc["wallet"] \notin {"PENDING", "FAILED"} /\ ToSource(p, copy, FALSE)
    <3>1. alloc'["wallet"] \in Settled
      BY <1>0, <2>1, <2>7 DEF CopyInv, Settled, Statuses
    <3>2. w'[p].pc \in PastWallet /\ \A q \in Workers \ {p} : w'[q] = w[q]
      BY <1>0, <2>2, <2>7, ToSourceFields DEF PastWallet
    <3>3. RoundFits(w[p])'
      BY <3>1, <3>2 DEF RoundFits, PastWallet, GatewaySteps
    <3> QED BY <2>1, <3>2, <3>3, UntouchedIsCalm
  <2> QED BY <2>5, <2>6, <2>7
<1>5. AwaitConfirmation(p) => Calm(p)
  BY <1>b, <1>c DEF AwaitConfirmation
<1>6. ASSUME PollRefund(p) PROVE Calm(p)
  <2>1. /\ w[p].pc = "poll" /\ UNCHANGED <<planned, owed, late, alloc, proc, past>>
        /\ GoTo(p, "confirm") \/ GoTo(p, "refuse") \/ SumUp(p, FALSE) \/ SumUp(p, TRUE)
    BY <1>6 DEF PollRefund, At
  <2>2. {"poll", "confirm", "refuse"} \subseteq PastWallet
    BY DEF PastWallet
  <2> QED BY <1>0, <1>d, <1>e, <2>1, <2>2
<1>7. GatewaySteps \subseteq PastWallet
  BY DEF PastWallet
<1>8. ASSUME findRefunds(p) \/ refundPayment(p) PROVE Calm(p)
  <2>1. /\ w[p].pc \in {"look up", "ask"} /\ UNCHANGED <<planned, owed, late, alloc, proc, past>>
        /\ \/ GoTo(p, "failed") \/ GoTo(p, "ask")
           \/ \E r \in Refunds, pc \in {"accept", "accept paid"} :
                Become(p, [w[p] EXCEPT !.ref = r, !.pc = pc])
    BY <1>8 DEF findRefunds, refundPayment, At
  <2>2. {"look up", "ask", "failed"} \subseteq GatewaySteps
    BY DEF GatewaySteps
  <2> QED BY <1>d, <1>f, <1>7, <2>1, <2>2
<1>9. ASSUME finalizeRefundStatus(p) PROVE Calm(p)
  <2> DEFINE copy == [Idle EXCEPT !.pc = "report", !.job = w[p].job, !.retry = w[p].retry,
                                  !.prev = summary, !.next = aggregateStatus]
  <2>1. w[p].pc \in {"sum up", "report"} /\ UNCHANGED <<planned, owed, late, alloc, proc>>
    BY <1>9 DEF finalizeRefundStatus, At
  <2>2. past' = "clean" => past = "clean"
    BY <1>9 DEF finalizeRefundStatus, Unmark
  <2>3. planned
    BY <1>2, <2>1 DEF PastPlan
  <2>4. ASSUME NEW status, Conclude(p, status), past' = "clean",
               w[p].job = "round" /\ ~w[p].retry /\ status \notin Unfinished => AllSettled
        PROVE  Calm(p)
    <3>1. /\ \A q \in Workers \ {p} : w'[q] = w[q]
          /\ \/ /\ w[p].job = "round" /\ w'[p].pc = "release" /\ w'[p].job = "round"
                /\ w'[p].retry = (w[p].retry \/ status \in Unfinished)
             \/ w'[p].pc = "idle"
      BY <2>4, ConcludeFields, IdleFields
    <3>2. planned' /\ (AllSettled => AllSettled')
      BY <2>1, <2>3 DEF AllSettled
    <3>3. RoundFits(w[p])'
      BY <2>4, <3>1, <3>2 DEF RoundFits, PastWallet, GatewaySteps
    <3> QED BY <2>1, <2>2, <3>1, <3>3, UntouchedIsCalm
  <2>5. CASE At(p, "sum up")
    <3>1. past = "clean" /\ w[p].job = "round" /\ ~w[p].retry => alloc["wallet"] \in Settled
      BY <1>1, <2>5 DEF RoundFits, PastWallet, At
    <3>2. past' = past
      BY <1>9, <2>5 DEF finalizeRefundStatus, At
    <3>3. CASE summary = aggregateStatus
      <4>1. Conclude(p, summary)
        BY <1>9, <2>5, <3>3 DEF finalizeRefundStatus, At
      <4>2. past = "clean" /\ w[p].job = "round" /\ ~w[p].retry /\ summary \notin Unfinished => AllSettled
        BY <3>1, <3>3, AggregateSettled
      <4> QED BY <2>4, <4>1, <4>2, <3>2 DEF Calm
    <3>4. CASE summary # aggregateStatus
      <4>1. Become(p, copy)
        BY <1>9, <2>5, <3>4 DEF finalizeRefundStatus, At
      <4>2. PICK c \in Copies : c = Idle
        BY CopyType
      <4>3. w[p].job \in Jobs /\ aggregateStatus \in Summaries /\ summary \in Summaries
        BY <1>0, AggregateType, TypeParts DEF Copies, TypeOK
      <4>4. LET d == [c EXCEPT !.pc = "report", !.job = w[p].job, !.retry = w[p].retry,
                               !.prev = summary, !.next = aggregateStatus]
            IN  d.pc = "report" /\ d.job = w[p].job /\ d.retry = w[p].retry /\ d.next = aggregateStatus
        BY <1>0, <4>3 DEF Copies
      <4>5. /\ copy.pc = "report" /\ copy.job = w[p].job /\ copy.retry = w[p].retry
            /\ copy.next = aggregateStatus
        BY <4>2, <4>4
      <4> HIDE DEF copy
      <4>6. w'[p] = copy /\ \A q \in Workers \ {p} : w'[q] = w[q]
        BY <4>1, BecomeFields
      <4>7. past = "clean" /\ w[p].job = "round" /\ ~w[p].retry /\ aggregateStatus \notin Unfinished
              => AllSettled'
        <5>1. AllSettled => AllSettled'
          BY <2>1 DEF AllSettled
        <5> QED BY <3>1, <5>1, AggregateSettled
      <4>8. past' = "clean" => RoundFits(w[p])'
        BY <2>2, <4>5, <4>6, <4>7 DEF RoundFits, PastWallet, GatewaySteps
      <4> QED BY <2>1, <2>2, <4>6, <4>8, UntouchedIsCalm
    <3> QED BY <3>3, <3>4
  <2>6. CASE At(p, "report")
    <3>1. /\ IF summary = w[p].prev THEN Conclude(p, w[p].next) ELSE Conclude(p, w[p].prev)
          /\ Unmark(summary # w[p].prev)
      BY <1>9, <2>6 DEF finalizeRefundStatus, At
    <3>2. past' = "clean" => past = "clean" /\ summary = w[p].prev
      BY <3>1 DEF Unmark
    <3>3. past = "clean" /\ w[p].job = "round" /\ ~w[p].retry /\ w[p].next \notin Unfinished => AllSettled
      BY <1>1, <2>6 DEF RoundFits, At
    <3> QED BY <2>4, <3>1, <3>2, <3>3 DEF Calm
  <2> QED BY <2>1, <2>5, <2>6 DEF At
<1>10. ASSUME Release(p) PROVE Calm(p)
  <2>1. /\ w[p].pc = "release" /\ UNCHANGED <<planned, owed, late, alloc, past>> /\ Become(p, Idle)
        /\ proc' = "DONE" => ~w[p].retry
    BY <1>10 DEF Release, At
  <2>2. w'[p].pc = "idle" /\ \A q \in Workers \ {p} : w'[q] = w[q]
    BY <2>1, BecomeFields, IdleFields
  <2>3. RoundFits(w[p])'
    BY <2>2, FreeRound DEF PastWallet, GatewaySteps
  <2>4. past = "clean" /\ proc' = "DONE" => planned /\ AllSettled
    BY <1>1, <1>2, <2>1 DEF RoundFits, Fits
  <2>5. (AllSettled => AllSettled') /\ (Covered => Covered') /\ Kept
    BY <2>1 DEF AllSettled, Covered, Kept
  <2> QED BY <2>1, <2>2, <2>3, <2>4, <2>5 DEF Calm, SettledInv
<1>11. handleGatewayRefundUpdate(p) => Calm(p)
  <2> SUFFICES ASSUME handleGatewayRefundUpdate(p) PROVE Calm(p)
    OBVIOUS
  <2>1. PICK pc \in {"confirm", "refuse"} : Become(p, SeenSource(pc))
    BY DEF handleGatewayRefundUpdate
  <2>2. SeenSource(pc).job # "round"
    <3>1. pc \in Steps /\ "webhook" \in Jobs /\ rid \in 0..MaxRefunds
      BY DEF Steps, Jobs, TypeOK
    <3>2. PICK c \in Copies : c = Idle
      BY CopyType
    <3>3. PICK d \in Copies : d = [c EXCEPT !.job = "webhook", !.pc = pc, !.saw = alloc, !.rid = rid]
      BY <1>0, <3>1 DEF Copies
    <3>4. d.job = "webhook"
      BY <3>3 DEF Copies
    <3>5. d = Copied("webhook", pc)
      BY <3>2, <3>3 DEF Copied
    <3>6. [d EXCEPT !.saw["wallet"] = "none"].job = "webhook"
      BY <3>4 DEF Copies
    <3> QED BY <3>5, <3>6 DEF SeenSource
  <2>3. w'[p].job # "round" /\ \A q \in Workers \ {p} : w'[q] = w[q]
    BY <2>1, <2>2, BecomeFields
  <2>4. UNCHANGED <<planned, owed, late, alloc, proc, past>>
    BY DEF handleGatewayRefundUpdate
  <2> QED BY <2>3, <2>4, FreeRound, UntouchedIsCalm
<1>12. Administer(p) => Calm(p)
  BY <1>a, OtherSteps DEF Administer, PastWallet, GatewaySteps
<1>13. ASSUME Stumble(p) PROVE Calm(p)
  <2>1. UNCHANGED <<planned, owed, late, alloc, proc, past>>
    BY <1>13 DEF Stumble
  <2>2. \/ w[p].pc \in {"accept", "accept paid", "complete"} /\ GoTo(p, "failed")
        \/ ToSource(p, w[p], TRUE)
        \/ w[p].pc \in {"confirm", "refuse", "give up", "failed"} /\ SumUp(p, TRUE)
        \/ ReleaseAgain(p)
    BY <1>13 DEF Stumble, At
  <2>3. CASE w[p].pc \in {"accept", "accept paid", "complete"} /\ GoTo(p, "failed")
    <3>1. w[p].pc \in PastWallet /\ "failed" \in PastWallet
      BY <2>3 DEF PastWallet, GatewaySteps
    <3> QED BY <1>d, <2>1, <2>3, <3>1
  <2>4. CASE ToSource(p, w[p], TRUE)
    <3>1. (w'[p].job # "round" \/ w'[p].retry) /\ \A q \in Workers \ {p} : w'[q] = w[q]
      BY <1>0, <2>4, ToSourceFields DEF Again
    <3> QED BY <2>1, <3>1, FreeRound, UntouchedIsCalm
  <2>5. CASE w[p].pc \in {"confirm", "refuse", "give up", "failed"} /\ SumUp(p, TRUE)
    <3>1. w[p].pc \in PastWallet
      BY <2>5 DEF PastWallet, GatewaySteps
    <3> QED BY <1>0, <1>e, <2>1, <2>5, <3>1
  <2>6. CASE ReleaseAgain(p)
    BY <1>c, <2>1, <2>6
  <2> QED BY <2>2, <2>3, <2>4, <2>5, <2>6
<1>14. Die(p) => Calm(p)
  BY <1>b DEF Die
<1> QED BY <1>3, <1>4, <1>5, <1>6, <1>8, <1>9, <1>10, <1>11, <1>12, <1>13, <1>14

\* The steps that write to the allocations.
LEMMA WriteSteps ==
  ASSUME TypeOK, CopyInv, SettledInv, NEW p \in Workers
  PROVE  /\ planRefund(p) => Calm(p)
         /\ processWalletDestination(p) => Calm(p)
         /\ WalletFailed(p) => Calm(p)
         /\ claimAllocation(p) => Calm(p)
         /\ AcceptRefund(p) => Calm(p)
         /\ completeGatewayAllocation(p) => Calm(p)
         /\ RefundFailed(p) => Calm(p)
         /\ RefundRefused(p) => Calm(p)
         /\ GiveUp(p) => Calm(p)
         /\ resetFailedRefund(p) => Calm(p)
         /\ resolveRefundManually(p) => Calm(p)
<1> USE DEF rest, plan, parts, lease, money
<1>0. /\ alloc \in [Parts -> Statuses] /\ "wallet" \in Parts /\ "source" \in Parts
      /\ w[p] \in Copies /\ w[p].retry \in BOOLEAN /\ TRUE \in BOOLEAN /\ FALSE \in BOOLEAN
      /\ owed \subseteq Parts
  BY DEF TypeOK, Parts, Copies
<1>1. past = "clean" => RoundFits(w[p])
  BY DEF SettledInv
<1>2. Fits(w[p]) /\ (past = "clean" => SawOpen(w[p]))
  BY DEF CopyInv
\* A write to the source allocation that was open when its writer saw it.
<1>a. ASSUME NEW status \in Statuses \ {"none"}, NEW id, setAllocation(p, "source", status, id),
             UNCHANGED <<planned, owed, late, proc>>, w[p].pc \in PastWallet,
             past = "clean" => w[p].saw["source"] \notin Settled,
             w'[p].pc \in PastWallet, w'[p].job = w[p].job, w[p].retry => w'[p].retry,
             w'[p].retry \in BOOLEAN, \A q \in Workers \ {p} : w'[q] = w[q]
      PROVE  Calm(p)
  <2>1. alloc' = [alloc EXCEPT !["source"] = status] /\ Overwrite(Changed(p, "source"))
    BY <1>a DEF setAllocation
  <2>2. past' = "clean" => past = "clean" /\ alloc["source"] = w[p].saw["source"]
    BY <2>1 DEF Overwrite, Changed
  <2>3. \A a \in Parts : alloc[a] # "none" => alloc'[a] # "none"
    BY <1>0, <2>1
  <2>4. alloc'["wallet"] = alloc["wallet"]
    BY <1>0, <2>1
  <2>5. past' = "clean" => Kept
    BY <1>0, <1>a, <2>2, <2>4 DEF Kept, AllSettled
  <2>6. past' = "clean" => RoundFits(w[p])'
    BY <1>0, <1>1, <1>a, <2>2, <2>4, SameRound
  <2> QED BY <1>0, <1>a, <2>2, <2>3, <2>5, <2>6, WriteIsCalm
<1>b. ASSUME NEW failed \in BOOLEAN, SumUp(p, failed)
      PROVE  /\ w'[p].pc \in PastWallet /\ w'[p].job = w[p].job /\ (w[p].retry => w'[p].retry)
             /\ w'[p].retry \in BOOLEAN /\ \A q \in Workers \ {p} : w'[q] = w[q]
  BY <1>0, <1>b, SumUpFields DEF Again, PastWallet
<1>3. ASSUME planRefund(p) PROVE Calm(p)
  <2>1. /\ w[p].pc = "freeze" /\ UNCHANGED <<owed, late, proc>>
        /\ planned' /\ (planned => alloc' = alloc) /\ (~planned => alloc' = w[p].saw)
        /\ past' = "clean" => past = "clean" /\ (~planned => w[p].saw = Plan)
    BY <1>3 DEF planRefund, Unmark, At
  <2>2. w'[p].pc = "read" /\ \A q \in Workers \ {p} : w'[q] = w[q]
    BY <1>3, EarlySteps DEF Typed
  <2>3. RoundFits(w[p])'
    BY <2>2, FreeRound DEF PastWallet, GatewaySteps
  <2>4. past' = "clean" => Covered'
    <3>1. CASE planned
      BY <2>1, <3>1 DEF SettledInv, Covered
    <3>2. CASE ~planned
      BY <1>0, <2>1, <3>2 DEF Covered, Plan
    <3> QED BY <3>1, <3>2
  <2>5. Kept \/ ~planned
    BY <2>1 DEF Kept, AllSettled
  <2> QED BY <2>1, <2>2, <2>3, <2>4, <2>5 DEF Calm
<1>4. ASSUME processWalletDestination(p) PROVE Calm(p)
  <2>1. /\ w[p].pc = "wallet" /\ UNCHANGED <<planned, owed, late, proc, past>>
        /\ alloc' = alloc \/ alloc' = [alloc EXCEPT !["wallet"] = "SUCCESSFUL"]
        /\ \/ GoTo(p, "wallet failed")
           \/ ToSource(p, w[p], FALSE)
                /\ (alloc["wallet"] \in {"PENDING", "FAILED"} => alloc'["wallet"] = "SUCCESSFUL")
    BY <1>0, <1>4 DEF processWalletDestination, At
  <2>2. alloc'["source"] = alloc["source"] /\ alloc'["wallet"] \in {alloc["wallet"], "SUCCESSFUL"}
    BY <1>0, <2>1
  <2>3. Kept /\ \A a \in Parts : alloc[a] # "none" => alloc'[a] # "none"
    BY <1>0, <2>2 DEF Kept, AllSettled, Parts, Settled
  <2>4. CASE GoTo(p, "wallet failed")
    <3>1. w'[p].pc = "wallet failed" /\ \A q \in Workers \ {p} : w'[q] = w[q]
      BY <2>4, GoToFields
    <3>2. RoundFits(w[p])'
      BY <3>1, FreeRound DEF PastWallet, GatewaySteps
    <3> QED BY <1>0, <2>1, <2>3, <3>1, <3>2, WriteIsCalm
  <2>5. CASE /\ ToSource(p, w[p], FALSE)
             /\ alloc["wallet"] \in {"PENDING", "FAILED"} => alloc'["wallet"] = "SUCCESSFUL"
    <3>1. alloc'["wallet"] \in Settled
      BY <1>0, <2>2, <2>5 DEF CopyInv, Settled, Statuses
    <3>2. w'[p].pc \in PastWallet /\ \A q \in Workers \ {p} : w'[q] = w[q]
      BY <1>0, <2>5, ToSourceFields DEF PastWallet
    <3>3. RoundFits(w[p])'
      BY <3>1, <3>2 DEF RoundFits, PastWallet, GatewaySteps
    <3> QED BY <1>0, <2>1, <2>3, <3>2, <3>3, WriteIsCalm
  <2> QED BY <2>1, <2>4, <2>5
<1>5. ASSUME WalletFailed(p) PROVE Calm(p)
  <2>1. /\ w[p].pc = "wallet failed" /\ UNCHANGED <<planned, owed, late, proc>>
        /\ setAllocation(p, "wallet", "FAILED", rid) /\ ToSource(p, w[p], TRUE)
    BY <1>5 DEF WalletFailed, At
  <2>2. past' = "clean" => past = "clean" /\ alloc["wallet"] = w[p].saw["wallet"]
    BY <2>1 DEF setAllocation, Overwrite, Changed
  <2>3. w[p].saw["wallet"] \notin Settled
    BY <1>2, <2>1 DEF Fits, Settled
  <2>4. past' = "clean" => Kept
    BY <1>0, <2>2, <2>3 DEF Kept, AllSettled
  <2>5. \A a \in Parts : alloc[a] # "none" => alloc'[a] # "none"
    BY <1>0, <2>1 DEF setAllocation
  <2>6. (w'[p].job # "round" \/ w'[p].retry) /\ \A q \in Workers \ {p} : w'[q] = w[q]
    BY <1>0, <2>1, ToSourceFields DEF Again
  <2> QED BY <1>0, <2>1, <2>2, <2>4, <2>5, <2>6, FreeRound, WriteIsCalm
<1>6. ASSUME claimAllocation(p) PROVE Calm(p)
  <2>1. w[p].pc = "claim" /\ UNCHANGED <<planned, owed, late, proc, past>>
    BY <1>6 DEF claimAllocation, At
  <2>2. CASE ~Claimable
    <3>1. alloc' = alloc /\ SumUp(p, FALSE)
      BY <1>6, <2>2 DEF claimAllocation
    <3>2. past = "clean" => RoundFits(w[p])'
      BY <1>0, <1>1, <1>b, <2>1, <3>1, SameRound DEF PastWallet
    <3> QED BY <1>0, <1>b, <2>1, <3>1, <3>2, UntouchedIsCalm
  <2>3. CASE Claimable
    <3> DEFINE copy == [w[p] EXCEPT !.pc = "look up", !.saw["source"] = "PROCESSING"]
    <3>1. alloc' = [alloc EXCEPT !["source"] = "PROCESSING"] /\ Become(p, copy)
      BY <1>6, <2>3 DEF claimAllocation
    <3>2. copy.pc = "look up" /\ copy.job = w[p].job /\ copy.retry = w[p].retry
      BY <1>0 DEF Copies
    <3> HIDE DEF copy
    <3>3. w'[p] = copy /\ \A q \in Workers \ {p} : w'[q] = w[q]
      BY <3>1, BecomeFields
    <3>4. alloc["source"] \notin Settled
      BY <2>3 DEF Claimable, Settled
    <3>5. alloc'["wallet"] = alloc["wallet"] /\ \A a \in Parts : alloc[a] # "none" => alloc'[a] # "none"
      BY <1>0, <3>1
    <3>6. Kept
      BY <1>0, <3>4, <3>5 DEF Kept, AllSettled
    <3>7. past = "clean" => RoundFits(w[p])'
      BY <1>0, <1>1, <2>1, <3>2, <3>3, <3>5, SameRound DEF PastWallet, GatewaySteps
    <3> QED BY <1>0, <2>1, <3>3, <3>5, <3>6, <3>7, WriteIsCalm
  <2> QED BY <2>2, <2>3
<1>7. ASSUME AcceptRefund(p) PROVE Calm(p)
  <2> DEFINE copy == [w[p] EXCEPT !.pc = "complete", !.rid = w[p].ref, !.ref = 0]
  <2>1. /\ w[p].pc \in {"accept", "accept paid"} /\ UNCHANGED <<planned, owed, late, proc>>
        /\ setAllocation(p, "source", "PROCESSING", w[p].ref)
        /\ SumUp(p, FALSE) \/ Become(p, copy)
    BY <1>7 DEF AcceptRefund, At
  <2>2. w[p].saw["source"] \notin Settled /\ w[p].pc \in PastWallet
    BY <1>2, <2>1 DEF Fits, Settled, PastWallet, GatewaySteps
  <2>3. copy.pc = "complete" /\ copy.job = w[p].job /\ copy.retry = w[p].retry
    BY <1>0 DEF Copies
  <2> HIDE DEF copy
  <2>4. /\ w'[p].pc \in PastWallet /\ w'[p].job = w[p].job /\ (w[p].retry => w'[p].retry)
        /\ w'[p].retry \in BOOLEAN /\ \A q \in Workers \ {p} : w'[q] = w[q]
    <3>1. CASE SumUp(p, FALSE)
      BY <1>0, <1>b, <3>1
    <3>2. CASE Become(p, copy)
      BY <1>0, <2>3, <3>2, BecomeFields DEF PastWallet, GatewaySteps
    <3> QED BY <2>1, <3>1, <3>2
  <2>5. "PROCESSING" \in Statuses \ {"none"}
    BY DEF Statuses
  <2> QED BY <1>a, <2>1, <2>2, <2>4, <2>5
<1>8. ASSUME completeGatewayAllocation(p) PROVE Calm(p)
  <2>1. /\ w[p].pc \in {"complete", "confirm"} /\ UNCHANGED <<planned, owed, late, proc, past>>
        /\ alloc' = [alloc EXCEPT !["source"] = "SUCCESSFUL"] /\ SumUp(p, FALSE)
    BY <1>8 DEF completeGatewayAllocation, At
  <2>2. alloc'["source"] = "SUCCESSFUL" /\ alloc'["wallet"] = alloc["wallet"]
    BY <1>0, <2>1
  <2>3. Kept /\ \A a \in Parts : alloc[a] # "none" => alloc'[a] # "none"
    BY <1>0, <2>2 DEF Kept, AllSettled, Parts, Settled
  <2>4. past = "clean" => RoundFits(w[p])'
    BY <1>0, <1>1, <1>b, <2>1, <2>2, SameRound DEF PastWallet, GatewaySteps
  <2> QED BY <1>0, <1>b, <2>1, <2>3, <2>4, WriteIsCalm
<1>9. {"FAILED", "MANUAL_REVIEW"} \subseteq Statuses \ {"none"}
  BY DEF Statuses, Settled
<1>10. ASSUME RefundFailed(p) PROVE Calm(p)
  <2>1. /\ w[p].pc = "failed" /\ UNCHANGED <<planned, owed, late, proc>>
        /\ setAllocation(p, "source", "FAILED", rid) /\ SumUp(p, TRUE)
    BY <1>10 DEF RefundFailed, At
  <2>2. w[p].saw["source"] \notin Settled /\ w[p].pc \in PastWallet
    BY <1>2, <2>1 DEF Fits, Settled, PastWallet, GatewaySteps
  <2> QED BY <1>0, <1>9, <1>a, <1>b, <2>1, <2>2
<1>11. ASSUME RefundRefused(p) PROVE Calm(p)
  <2>1. /\ w[p].pc = "refuse" /\ UNCHANGED <<planned, owed, late, proc>>
        /\ setAllocation(p, "source", "FAILED", 0) /\ SumUp(p, FALSE)
    BY <1>11 DEF RefundRefused, At
  <2>2. (past = "clean" => w[p].saw["source"] \notin Settled) /\ w[p].pc \in PastWallet
    BY <1>2, <2>1 DEF SawOpen, Writing, PastWallet
  <2> QED BY <1>0, <1>9, <1>a, <1>b, <2>1, <2>2
<1>12. ASSUME GiveUp(p) PROVE Calm(p)
  <2>1. /\ w[p].pc = "give up" /\ UNCHANGED <<planned, owed, late, proc>>
        /\ setAllocation(p, "source", "MANUAL_REVIEW", rid) /\ SumUp(p, FALSE)
    BY <1>12 DEF GiveUp, At
  <2>2. (past = "clean" => w[p].saw["source"] \notin Settled) /\ w[p].pc \in PastWallet
    BY <1>2, <2>1 DEF SawOpen, Writing, PastWallet
  <2> QED BY <1>0, <1>9, <1>a, <1>b, <2>1, <2>2
<1>13. ASSUME resetFailedRefund(p) PROVE Calm(p)
  <2>1. /\ UNCHANGED <<planned, owed, late>>
        /\ \A a \in Parts : alloc'[a] \in {alloc[a], "PENDING", "PROCESSING"}
        /\ past' = "clean" => past = "clean" /\ ~Leased /\ proc' = "PENDING"
    BY <1>13 DEF resetFailedRefund, SaveParts, Overwrite, Unmark
  <2>2. w'[p].pc = "read" /\ \A q \in Workers \ {p} : w'[q] = w[q]
    BY <1>13, OtherSteps DEF Typed
  <2>3. RoundFits(w[p])'
    BY <2>2, FreeRound DEF PastWallet, GatewaySteps
  <2>4. past' = "clean" /\ planned' => Covered'
    BY <1>0, <2>1 DEF SettledInv, Covered
  <2> QED BY <2>1, <2>2, <2>3, <2>4 DEF Calm
<1>14. ASSUME resolveRefundManually(p) PROVE Calm(p)
  <2>1. /\ UNCHANGED <<planned, owed, late, proc>>
        /\ \A a \in Parts : alloc'[a] \in {alloc[a], "SUCCESSFUL"}
        /\ past' = "clean" => past = "clean"
    BY <1>14 DEF resolveRefundManually, SaveParts, Overwrite
  <2>2. w'[p].pc = "idle" /\ \A q \in Workers \ {p} : w'[q] = w[q]
    BY <1>14, OtherSteps DEF Typed
  <2>3. RoundFits(w[p])'
    BY <2>2, FreeRound DEF PastWallet, GatewaySteps
  <2>4. Kept /\ \A a \in Parts : alloc[a] # "none" => alloc'[a] # "none"
    BY <1>0, <2>1 DEF Kept, AllSettled, Settled
  <2> QED BY <1>0, <2>1, <2>2, <2>3, <2>4, WriteIsCalm
<1> QED BY <1>3, <1>4, <1>5, <1>6, <1>7, <1>8, <1>10, <1>11, <1>12, <1>13, <1>14

\* The steps of a late payment, of time and of the gateway.
LEMMA OutsideKeepsSettled ==
  ASSUME TypeOK, CopyInv, SettledInv, Outside
  PROVE  SettledInv'
<1> USE DEF rest, plan, parts, lease, money
<1> SUFFICES ASSUME past' = "clean" PROVE SettledInv'
  BY DEF SettledInv
<1>0. /\ alloc \in [Parts -> Statuses] /\ "wallet" \in Parts /\ "source" \in Parts
      /\ owed \subseteq Parts /\ w' = w
  BY OutsideSteps DEF TypeOK, Parts
<1>1. past = "clean"
  BY DEF Outside, LateCapture, onLatePaymentCapture, addLateCaptureAllocation,
         LateHandlerDies, LeaseExpires, GatewaySettles, Unmark
<1>2. /\ planned => Covered
      /\ proc = "DONE" => planned /\ AllSettled
      /\ \A q \in Workers : RoundFits(w[q])
  BY <1>1 DEF SettledInv
<1>3. ASSUME UNCHANGED <<planned, alloc>>, proc' = "DONE" => proc = "DONE", planned' => Covered'
      PROVE  SettledInv'
  <2>1. AllSettled => AllSettled'
    BY <1>3 DEF AllSettled
  <2>2. ASSUME NEW q \in Workers PROVE RoundFits(w[q])'
    BY <1>0, <1>2, <1>3, <2>1 DEF RoundFits
  <2> QED BY <1>2, <1>3, <2>1, <2>2 DEF SettledInv
<1>4. CASE LateCapture
  <2>1. planned' => Covered'
    BY <1>2, <1>4 DEF LateCapture, Covered
  <2> QED BY <1>3, <1>4, <2>1 DEF LateCapture
<1>5. CASE onLatePaymentCapture
  <2>1. CASE late = "captured" /\ addLateCaptureAllocation
    <3>1. UNCHANGED <<planned, alloc, proc, owed>>
          /\ late' = IF planned /\ alloc["source"] = "none" THEN "push" ELSE "wake"
      BY <1>5, <2>1 DEF onLatePaymentCapture, addLateCaptureAllocation
    <3>2. planned' => Covered'
      BY <1>2, <3>1 DEF Covered
    <3> QED BY <1>3, <3>1, <3>2
  <2>2. CASE late = "push" /\ addLateCaptureAllocation
    <3>1. UNCHANGED <<planned, owed>> /\ late' = "wake"
          /\ IF alloc["source"] = "none"
               THEN alloc' = [alloc EXCEPT !["source"] = "PENDING"] /\ proc' = "PENDING" /\ ~Leased
               ELSE UNCHANGED <<alloc, proc>>
      BY <1>1, <1>5, <2>2 DEF onLatePaymentCapture, addLateCaptureAllocation, Unmark
    <3>2. CASE alloc["source"] # "none"
      <4>1. planned' => Covered'
        BY <1>2, <3>1, <3>2 DEF Covered
      <4> QED BY <1>3, <3>1, <3>2, <4>1
    <3>3. CASE alloc["source"] = "none"
      <4>1. alloc' = [alloc EXCEPT !["source"] = "PENDING"] /\ proc' = "PENDING" /\ ~Leased
        BY <3>1, <3>3
      <4>2. planned' => Covered'
        BY <1>0, <1>2, <3>1, <4>1 DEF Covered
      <4>3. ASSUME NEW q \in Workers PROVE RoundFits(w[q])'
        <5>1. w[q].job # "round" \/ w[q].pc = "idle"
          BY <4>1, IdleFields DEF Leased
        <5> QED BY <1>0, <5>1 DEF RoundFits, PastWallet, GatewaySteps
      <4> QED BY <4>1, <4>2, <4>3 DEF SettledInv
    <3> QED BY <3>2, <3>3
  <2>3. CASE late = "wake" /\ late' = "over" /\ proc' = "PENDING" /\ UNCHANGED <<alloc, summary, past>>
    <3>1. UNCHANGED <<planned, owed>>
      BY <1>5 DEF onLatePaymentCapture
    <3>2. planned' => Covered'
      BY <1>2, <2>3, <3>1 DEF Covered
    <3> QED BY <1>3, <2>3, <3>1, <3>2
  <2> QED BY <1>5, <2>1, <2>2, <2>3 DEF onLatePaymentCapture, addLateCaptureAllocation
<1>6. CASE LateHandlerDies
  <2>1. UNCHANGED <<planned, alloc, proc, owed>> /\ ~(planned /\ alloc["source"] = "none")
    BY <1>1, <1>6 DEF LateHandlerDies, Unmark
  <2>2. planned' => Covered'
    BY <1>2, <2>1 DEF Covered
  <2> QED BY <1>3, <2>1, <2>2
<1>7. CASE LeaseExpires \/ GatewaySettles
  <2>1. UNCHANGED <<planned, alloc, proc, owed, late>>
    BY <1>7 DEF LeaseExpires, GatewaySettles
  <2>2. planned' => Covered'
    BY <1>2, <2>1 DEF Covered
  <2> QED BY <1>3, <2>1, <2>2
<1> QED BY <1>4, <1>5, <1>6, <1>7 DEF Outside

LEMMA SettledStep ==
  ASSUME TypeOK, CopyInv, SettledInv, [Next]_vars
  PROVE  SettledInv'
<1>1. ASSUME NEW p \in Workers, Work(p) PROVE SettledInv'
  <2>1. Calm(p)
    BY <1>1, CalmSteps, WriteSteps DEF Work
  <2> QED BY <2>1, CalmKeepsSettled
<1>2. CASE Outside
  BY <1>2, OutsideKeepsSettled
<1>3. CASE UNCHANGED vars
  <2>1. UNCHANGED <<planned, alloc, proc, owed, late, past, w>>
    BY <1>3 DEF vars, rest, plan, parts, lease
  <2> QED BY <2>1 DEF SettledInv, Covered, AllSettled, RoundFits
<1> QED BY <1>1, <1>2, <1>3 DEF Next, Outside

LEMMA SettledInit ==
  ASSUME Init
  PROVE  SettledInv
<1>1. ASSUME NEW q \in Workers PROVE RoundFits(w[q])
  <2>1. w[q].pc = "idle"
    BY IdleFields DEF Init
  <2> QED BY <2>1 DEF RoundFits, PastWallet, GatewaySteps
<1> QED BY <1>1 DEF Init, SettledInv

\* A record that is no longer looked at is settled (processCancellation): a round
\* says that it is done only when it met no error, the wallet was credited before
\* the gateway was asked, and the status it ended with is final; whoever opens an
\* allocation afterwards sets processing.state back or is counted in past.
THEOREM SettledCorrect == Spec => []DoneMeansSettled
<1>1. SettledInv /\ TypeOK => DoneMeansSettled
  BY DEF SettledInv, TypeOK, DoneMeansSettled, AllSettled, Covered
<1> QED BY <1>1, TypeInit, TypeStep, CopyInit, CopyStep, SettledInit, SettledStep, PTL DEF Spec
=============================================================================
