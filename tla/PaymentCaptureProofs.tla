------------------------ MODULE PaymentCaptureProofs ------------------------
(***************************************************************************)
(* Theorems of PaymentCapture, for any number of processes and attempts.   *)
(***************************************************************************)
EXTENDS PaymentCapture, FiniteSetTheorems, TLAPS

-----------------------------------------------------------------------------
(* What a process does to its copy                                         *)

LEMMA IdleCopy ==
  /\ Idle \in Copies
  /\ Idle.pc = "idle" /\ Idle.loop = "none" /\ Idle.a = 0 /\ Idle.saw = "PENDING"
  /\ Idle.next = "PENDING" /\ Idle.todo = {} /\ Idle.outcome = "UNPAID"
  /\ Idle.cancelled = FALSE /\ Idle.plan = "none"
<1>1. 0 \in 0..MaxAttempts
  BY PaymentAssumption
<1>2. Idle \in Copies
  BY <1>1 DEF Idle, Copies, Steps, Outcomes, Records
<1> QED BY <1>2 DEF Idle

\* Only p's copy changes.
Moved(p) ==
  /\ h' \in [Handlers -> Copies]
  /\ \A q \in Handlers \ {p} : h'[q] = h[q]

\* Two copies say the same of a payment.
SameWork(c, d) ==
  /\ c.a = d.a /\ c.next = d.next /\ c.loop = d.loop /\ c.todo = d.todo /\ c.plan = d.plan

LEMMA BecomeCopy ==
  ASSUME TypeOK, NEW p \in Handlers, NEW c \in Copies, Become(p, c)
  PROVE  Moved(p) /\ h'[p] = c
BY DEF TypeOK, Become, Moved

LEMMA DoneCopy ==
  ASSUME TypeOK, NEW p \in Handlers, Done(p)
  PROVE  Moved(p) /\ h'[p] = Idle
BY IdleCopy, BecomeCopy DEF Done

LEMMA GoToCopy ==
  ASSUME TypeOK, NEW p \in Handlers, NEW pc \in Steps, GoTo(p, pc)
  PROVE  Moved(p) /\ h'[p].pc = pc /\ SameWork(h'[p], h[p])
<1>1. h[p] \in Copies
  BY DEF TypeOK
<1>2. [h[p] EXCEPT !.pc = pc] \in Copies
  BY <1>1 DEF Copies
<1>3. Become(p, [h[p] EXCEPT !.pc = pc])
  BY <1>1 DEF TypeOK, GoTo, Become
<1>4. Moved(p) /\ h'[p] = [h[p] EXCEPT !.pc = pc]
  BY <1>2, <1>3, BecomeCopy
<1> QED BY <1>1, <1>4 DEF SameWork, Copies

\* The loop has another attempt to ask for, goes back to its caller or is over.
Proceeds(p) ==
  /\ Moved(p)
  /\ h'[p].next = "PENDING" /\ h'[p].plan = "none" /\ h'[p].saw = "PENDING"
  /\ \/ h'[p].pc = "ask" /\ h'[p].loop = h[p].loop /\ h'[p].todo # {}
     \/ h'[p].pc = "reread" /\ h'[p].loop = "none" /\ h[p].loop = "round" /\ h'[p].todo = {}
     \/ h'[p].pc = "expire" /\ h'[p].loop = "none" /\ h'[p].todo = {}
     \/ h'[p] = Idle

LEMMA ProceedCopy ==
  ASSUME TypeOK, NEW p \in Handlers, NEW todo \in SUBSET Attempts,
         NEW outcome \in {"UNPAID", "PENDING", "UNKNOWN", "CAPTURED"}, Proceed(p, todo, outcome)
  PROVE  Proceeds(p) /\ (h'[p].pc = "ask" => h'[p].todo = todo)
<1> DEFINE ask == [Idle EXCEPT !.pc = "ask", !.loop = h[p].loop, !.todo = todo, !.outcome = outcome]
           reread == [Idle EXCEPT !.pc = "reread", !.outcome = outcome]
           expire == [Idle EXCEPT !.pc = "expire"]
<1>1. PICK c \in Copies : c = Idle
  BY IdleCopy
<1>2. h[p].loop \in {"none", "sweep", "round"}
  BY DEF TypeOK, Copies
<1>3. ask \in Copies /\ reread \in Copies /\ expire \in Copies
  <2>1. [c EXCEPT !.pc = "ask", !.loop = h[p].loop, !.todo = todo, !.outcome = outcome] \in Copies
    BY <1>2 DEF Copies, Steps
  <2>2. [c EXCEPT !.pc = "reread", !.outcome = outcome] \in Copies
    BY DEF Copies, Steps
  <2>3. [c EXCEPT !.pc = "expire"] \in Copies
    BY DEF Copies, Steps
  <2> QED BY <1>1, <2>1, <2>2, <2>3
<1>4. /\ ask.pc = "ask" /\ ask.loop = h[p].loop /\ ask.todo = todo
      /\ ask.next = "PENDING" /\ ask.plan = "none" /\ ask.saw = "PENDING"
  BY DEF Idle
<1>5. /\ reread.pc = "reread" /\ reread.loop = "none" /\ reread.todo = {}
      /\ reread.next = "PENDING" /\ reread.plan = "none" /\ reread.saw = "PENDING"
      /\ expire.pc = "expire" /\ expire.loop = "none" /\ expire.todo = {}
      /\ expire.next = "PENDING" /\ expire.plan = "none" /\ expire.saw = "PENDING"
  BY DEF Idle
<1>6. \/ todo # {} /\ Become(p, ask)
      \/ h[p].loop = "round" /\ Become(p, reread)
      \/ Become(p, expire)
      \/ Done(p)
  BY DEF Proceed
<1> HIDE DEF ask, reread, expire
<1>7. CASE todo # {} /\ Become(p, ask)
  BY <1>3, <1>4, <1>7, BecomeCopy DEF Proceeds
<1>8. CASE h[p].loop = "round" /\ Become(p, reread)
  BY <1>3, <1>5, <1>8, BecomeCopy DEF Proceeds
<1>9. CASE Become(p, expire)
  BY <1>3, <1>5, <1>9, BecomeCopy DEF Proceeds
<1>10. CASE Done(p)
  BY <1>10, DoneCopy, IdleCopy DEF Proceeds
<1> QED BY <1>6, <1>7, <1>8, <1>9, <1>10

LEMMA ReturnCopy ==
  ASSUME TypeOK, NEW p \in Handlers, Return(p)
  PROVE  Proceeds(p) /\ (h'[p].pc = "ask" => h'[p].todo = h[p].todo)
<1> DEFINE outcome == IF h[p].next = "CAPTURED" THEN "CAPTURED" ELSE h[p].outcome
<1>1. h[p].todo \in SUBSET Attempts /\ outcome \in {"UNPAID", "PENDING", "UNKNOWN", "CAPTURED"}
  BY DEF TypeOK, Copies
<1>2. Proceed(p, h[p].todo, outcome)
  BY DEF Return
<1> HIDE DEF outcome
<1> QED BY <1>1, <1>2, ProceedCopy

\* What is typed without the copies.
StateTypes ==
  /\ case \in Cases
  /\ gate \in [Attempts -> SUBSET {"CAPTURED", "FAILED"}]
  /\ pay \in [Attempts -> Outcomes \cup {"none"}]
  /\ seen \subseteq Attempts \X Outcomes
  /\ order \in Orders /\ record \in Records
  /\ credited \in Nat
  /\ missed \in BOOLEAN

LEMMA TypeParts ==
  /\ TypeOK <=> StateTypes /\ h \in [Handlers -> Copies]
  /\ TypeOK' <=> StateTypes' /\ h' \in [Handlers -> Copies]
BY DEF TypeOK, StateTypes

LEMMA StateTypesKept ==
  ASSUME StateTypes, UNCHANGED <<case, gate, pay, seen, order, record, credited, missed>>
  PROVE  StateTypes'
BY DEF StateTypes

LEMMA AnswersType == \A a : Answers(a) \subseteq Outcomes
BY DEF Answers, Outcomes

-----------------------------------------------------------------------------
(* The inductive invariant                                                 *)

\* The gateway has the customer's money.
Paid == \E a \in Attempts : "CAPTURED" \in gate[a]

\* What a copy c may rely on, of the order o and the record r: a capture is real,
\* a record is only made or planned for a cancelled order, and a plan that was
\* read when the order had been reversed is still right.
Fits(c, o, r, paid) ==
  /\ c.next = "CAPTURED" => paid
  /\ c.pc \in {"finance", "move", "late", "add", "push"} => c.next = "CAPTURED"
  /\ c.pc = "move" => o.booked
  /\ c.pc \in {"reverse", "insert"} => o.flow = "CANCELLED"
  /\ c.pc = "insert" => c.plan \in {"open", "without", "returned"}
  /\ c.pc = "insert" /\ c.plan = "without" => o.reversed /\ ~o.returned
  /\ c.pc = "insert" /\ c.plan = "returned" => o.returned
  /\ c.pc = "freeze" => c.plan \in {"with", "without"}
  /\ c.pc \in {"add", "push", "reread", "freeze", "mark"} \/ c.loop = "round" => r # "none"
  /\ c.pc = "ask" /\ c.loop = "none" => c.a \in Attempts
  /\ c.loop = "none" => c.todo = {}
  /\ c.pc = "attempts" => c.loop # "none"

CopiesFit == \A p \in Handlers : Fits(h[p], order, record, Paid)

\* The order, its record and the books agree.
Agree ==
  /\ BookedOnce /\ PaidBeforeSeller
  /\ order.booked => Paid
  /\ order.reversed \/ record # "none" => Cancelled
  /\ order.returned => order.reversed
  /\ record = "returned" => order.returned
  /\ ~missed /\ order.returned => record \in {"none", "returned"}

\* The process whose copy is c still brings a cancelled order its refund.
Helps(c, o, r) ==
  \/ c.next = "CAPTURED" /\ c.pc \in {"late", "record", "insert", "add", "push"}
  \/ /\ r = "none" /\ ~o.reversed
     /\ c.pc \in {"reverse", "record"} \/ (c.pc = "insert" /\ c.plan = "open")

\* Money of a cancelled order went back, is in the plan, or somebody is at it.
Owed ==
  Cancelled /\ order.booked /\ ~missed =>
    \/ order.returned \/ record \in {"open", "with"}
    \/ \E p \in Handlers : Helps(h[p], order, record)

Inv == TypeOK /\ CopiesFit /\ Agree /\ Owed

\* What no step takes back.
Grows ==
  /\ Paid => Paid'
  /\ order.booked => order'.booked
  /\ Cancelled => Cancelled'
  /\ order.reversed => order'.reversed /\ order'.returned = order.returned
  /\ order.returned => order'.returned
  /\ record # "none" => record' # "none"

LEMMA FitsGrows ==
  ASSUME Grows, NEW c, Fits(c, order, record, Paid)
  PROVE  Fits(c, order', record', Paid')
BY DEF Grows, Fits, Cancelled

\* A step of p that keeps the order, the record and the books in agreement.
LEMMA GrowingStep ==
  ASSUME Inv, Grows, NEW p \in Handlers, StateTypes', Moved(p),
         Fits(h'[p], order', record', Paid'), Agree', Owed'
  PROVE  Inv'
<1>1. TypeOK'
  BY TypeParts DEF Moved
<1>2. CopiesFit'
  <2> SUFFICES ASSUME NEW q \in Handlers PROVE Fits(h'[q], order', record', Paid')
    BY DEF CopiesFit
  <2>1. CASE q = p
    BY <2>1
  <2>2. CASE q # p
    <3>1. h'[q] = h[q]
      BY <2>2 DEF Moved
    <3>2. Fits(h[q], order, record, Paid)
      BY DEF Inv, CopiesFit
    <3> QED BY <3>1, <3>2, FitsGrows
  <2> QED BY <2>1, <2>2
<1> QED BY <1>1, <1>2 DEF Inv

\* The refund of a cancelled order is not yet on its way.
Due == /\ Cancelled /\ order.booked /\ ~order.returned
       /\ record \notin {"open", "with"}

\* A step of p that leaves the order, the record and the books alone.
LEMMA QuietStep ==
  ASSUME Inv, NEW p \in Handlers, StateTypes', Moved(p),
         UNCHANGED <<gate, order, record, credited>>,
         missed => missed',
         Fits(h'[p], order, record, Paid),
         Due /\ Helps(h[p], order, record) => missed' \/ Helps(h'[p], order, record)
  PROVE  Inv'
<1>1. Paid' = Paid
  BY DEF Paid
<1>2. Grows
  BY <1>1 DEF Grows, Cancelled
<1>3. Agree'
  BY <1>1 DEF Inv, Agree, BookedOnce, PaidBeforeSeller, Cancelled, Paid
<1>4. Owed'
  <2> SUFFICES ASSUME Due, ~missed'
               PROVE  \E q \in Handlers : Helps(h'[q], order, record)
    BY DEF Owed, Cancelled, Due
  <2>1. PICK q \in Handlers : Helps(h[q], order, record)
    BY DEF Inv, Owed, Due
  <2>2. CASE q = p
    BY <2>1, <2>2
  <2>3. CASE q # p
    BY <2>1, <2>3 DEF Moved
  <2> QED BY <2>2, <2>3
<1> QED BY <1>1, <1>2, <1>3, <1>4, GrowingStep

\* A copy whose loop goes on owes nothing any more.
LEMMA ProceedsFits ==
  ASSUME TypeOK, NEW p \in Handlers, Fits(h[p], order, record, Paid), Proceeds(p),
         h'[p].pc = "ask" => h[p].loop # "none",
         NEW o, NEW r, NEW paid, record # "none" => r # "none"
  PROVE  Fits(h'[p], o, r, paid) /\ h'[p].pc \notin Owing
<1>1. CASE h'[p].pc = "ask"
  BY <1>1, IdleCopy DEF Proceeds, Fits, Owing
<1>2. CASE h'[p].pc = "reread"
  BY <1>2, IdleCopy DEF Proceeds, Fits, Owing
<1>3. CASE h'[p].pc = "expire"
  BY <1>3, IdleCopy DEF Proceeds, Fits, Owing
<1>4. CASE h'[p] = Idle
  BY <1>4, IdleCopy DEF Fits, Owing
<1> QED BY <1>1, <1>2, <1>3, <1>4 DEF Proceeds

LEMMA ReturnFits ==
  ASSUME Inv, NEW p \in Handlers, Return(p), NEW o, NEW r, NEW paid,
         record # "none" => r # "none"
  PROVE  Moved(p) /\ Fits(h'[p], o, r, paid) /\ h'[p].pc \notin Owing
<1>1. Proceeds(p) /\ (h'[p].pc = "ask" => h'[p].todo = h[p].todo)
  BY ReturnCopy DEF Inv
<1>2. Fits(h[p], order, record, Paid)
  BY DEF Inv, CopiesFit
<1>3. h'[p].pc = "ask" => h[p].loop # "none"
  BY <1>1, <1>2, IdleCopy DEF Proceeds, Fits
<1> QED BY <1>1, <1>2, <1>3, ProceedsFits DEF Inv, Proceeds

LEMMA DoneFits ==
  ASSUME Inv, NEW p \in Handlers, Done(p), NEW o, NEW r, NEW paid
  PROVE  Moved(p) /\ Fits(h'[p], o, r, paid) /\ h'[p].pc \notin Owing
BY DoneCopy, IdleCopy DEF Inv, Fits, Owing

\* Only these steps bring a refund.
LEMMA HelpsOwing ==
  ASSUME NEW c, NEW o, NEW r, Helps(c, o, r)
  PROVE  c.pc \in Owing
BY DEF Helps, Owing

-----------------------------------------------------------------------------
(* Steps that leave the order, the record and the books alone              *)

LEMMA BeginPaymentStep ==
  ASSUME Inv, NEW p \in Handlers, BeginPayment(p)
  PROVE  Inv'
<1>1. StateTypes'
  BY StateTypesKept, TypeParts DEF Inv, BeginPayment
<1>2. TypeOK /\ Fits(h[p], order, record, Paid) /\ h[p] \in Copies
  BY DEF Inv, CopiesFit, TypeOK
<1>3. Moved(p) /\ h'[p].pc = "look" /\ SameWork(h'[p], h[p])
  BY <1>2, GoToCopy DEF BeginPayment, Steps
<1>4. Fits(h'[p], order, record, Paid)
  BY <1>2, <1>3 DEF Fits, SameWork
<1>5. ~Helps(h[p], order, record)
  BY HelpsOwing, IdleCopy DEF BeginPayment, Owing
<1> QED BY <1>1, <1>3, <1>4, <1>5, QuietStep DEF BeginPayment

LEMMA LookForOpenStep ==
  ASSUME Inv, NEW p \in Handlers, LookForOpen(p)
  PROVE  Inv'
<1>1. StateTypes'
  BY StateTypesKept, TypeParts DEF Inv, LookForOpen
<1>2. TypeOK /\ Fits(h[p], order, record, Paid) /\ h[p] \in Copies
  BY DEF Inv, CopiesFit, TypeOK
<1>3. Moved(p) /\ Fits(h'[p], order, record, Paid)
  <2>1. CASE Done(p)
    BY <2>1, DoneFits
  <2>2. CASE GoTo(p, "count")
    <3>1. Moved(p) /\ h'[p].pc = "count" /\ SameWork(h'[p], h[p])
      BY <1>2, <2>2, GoToCopy DEF Steps
    <3> QED BY <1>2, <3>1 DEF Fits, SameWork
  <2> QED BY <2>1, <2>2 DEF LookForOpen
<1>4. ~Helps(h[p], order, record)
  BY HelpsOwing DEF LookForOpen, At, Owing
<1> QED BY <1>1, <1>3, <1>4, QuietStep DEF LookForOpen

\* The number of attempts made, and the next one's.
LEMMA AttemptsMade ==
  ASSUME StateTypes, NEW made, made = {a \in Attempts : pay[a] # "none"},
         ~(Cardinality(made) >= case.attempts)
  PROVE  Cardinality(made) + 1 \in 0..MaxAttempts
<1>1. case.attempts \in 1..MaxAttempts /\ MaxAttempts \in Nat
  BY PaymentAssumption DEF StateTypes
<1>2. IsFiniteSet(made)
  <2>1. IsFiniteSet(Attempts)
    BY <1>1, FS_Interval DEF Attempts
  <2> QED BY <2>1, FS_Subset
<1>3. Cardinality(made) \in Nat
  BY <1>2, FS_CardinalityType
<1> QED BY <1>1, <1>3

LEMMA CountAttemptsStep ==
  ASSUME Inv, NEW p \in Handlers, CountAttempts(p)
  PROVE  Inv'
<1>1. StateTypes'
  BY StateTypesKept, TypeParts DEF Inv, CountAttempts
<1>2. TypeOK /\ Fits(h[p], order, record, Paid) /\ h[p] \in Copies
  BY DEF Inv, CopiesFit, TypeOK
<1>3. Moved(p) /\ Fits(h'[p], order, record, Paid)
  <2>1. CASE Done(p)
    BY <2>1, DoneFits
  <2>2. CASE ~Done(p)
    <3> DEFINE made == {a \in Attempts : pay[a] # "none"}
               copy == [Idle EXCEPT !.pc = "initiate", !.a = Cardinality(made) + 1]
    <3>1. ~(Cardinality(made) >= case.attempts) /\ Become(p, copy)
      BY <2>2 DEF CountAttempts
    <3>2. Cardinality(made) + 1 \in 0..MaxAttempts
      BY <1>2, <3>1, AttemptsMade, TypeParts
    <3>3. copy \in Copies
      <4> HIDE DEF made
      <4>1. PICK c \in Copies : c = Idle
        BY IdleCopy
      <4>2. [c EXCEPT !.pc = "initiate", !.a = Cardinality(made) + 1] \in Copies
        BY <3>2 DEF Copies, Steps
      <4> QED BY <4>1, <4>2
    <3>4. /\ copy.pc = "initiate" /\ copy.next = "PENDING" /\ copy.loop = "none" /\ copy.todo = {}
      BY DEF Idle
    <3> HIDE DEF copy
    <3>5. Moved(p) /\ h'[p] = copy
      BY <1>2, <3>1, <3>3, BecomeCopy
    <3> QED BY <3>4, <3>5 DEF Fits
  <2> QED BY <2>1, <2>2
<1>4. ~Helps(h[p], order, record)
  BY HelpsOwing DEF CountAttempts, At, Owing
<1> QED BY <1>1, <1>3, <1>4, QuietStep DEF CountAttempts

LEMMA createPaymentOrderStep ==
  ASSUME Inv, NEW p \in Handlers, createPaymentOrder(p)
  PROVE  Inv'
<1>1. StateTypes'
  BY TypeParts DEF Inv, StateTypes, createPaymentOrder, Outcomes
<1>2. Moved(p) /\ Fits(h'[p], order, record, Paid)
  BY DoneFits DEF createPaymentOrder
<1>3. ~Helps(h[p], order, record)
  BY HelpsOwing DEF createPaymentOrder, At, Owing
<1> QED BY <1>1, <1>2, <1>3, QuietStep DEF createPaymentOrder

LEMMA WebhookStep ==
  ASSUME Inv, NEW p \in Handlers, Webhook(p)
  PROVE  Inv'
<1>2. TypeOK /\ Fits(h[p], order, record, Paid) /\ h[p] \in Copies
  BY DEF Inv, CopiesFit, TypeOK
<1>3. PICK a \in Attempts : \E event \in gate[a] \cup {"PENDING"} :
        /\ pay[a] # "none" /\ seen' \in {seen, seen \cup {<<a, event>>}}
        /\ Become(p, [Idle EXCEPT !.pc = "transition", !.a = a, !.saw = pay[a], !.next = event])
  BY DEF Webhook
<1>4. PICK event \in gate[a] \cup {"PENDING"} :
        /\ pay[a] # "none" /\ seen' \in {seen, seen \cup {<<a, event>>}}
        /\ Become(p, [Idle EXCEPT !.pc = "transition", !.a = a, !.saw = pay[a], !.next = event])
  BY <1>3
<1> DEFINE copy == [Idle EXCEPT !.pc = "transition", !.a = a, !.saw = pay[a], !.next = event]
<1>5. event \in Outcomes /\ pay[a] \in Outcomes /\ a \in 0..MaxAttempts
  BY <1>2, <1>4, PaymentAssumption DEF TypeOK, Outcomes, Attempts
<1>6. copy \in Copies
  <2>1. PICK c \in Copies : c = Idle
    BY IdleCopy
  <2>2. [c EXCEPT !.pc = "transition", !.a = a, !.saw = pay[a], !.next = event] \in Copies
    BY <1>5 DEF Copies, Steps
  <2> QED BY <2>1, <2>2
<1>7. copy.pc = "transition" /\ copy.next = event /\ copy.loop = "none" /\ copy.todo = {}
  BY DEF Idle
<1> HIDE DEF copy
<1>8. Moved(p) /\ h'[p] = copy
  BY <1>2, <1>4, <1>6, BecomeCopy DEF copy
<1>9. Fits(h'[p], order, record, Paid)
  BY <1>4, <1>7, <1>8 DEF Fits, Paid
<1>10. StateTypes'
  <2>1. seen' \subseteq Attempts \X Outcomes
    BY <1>2, <1>4, <1>5 DEF TypeOK
  <2> QED BY <1>2, <2>1, TypeParts DEF StateTypes, Webhook
<1>11. ~Helps(h[p], order, record)
  BY HelpsOwing, IdleCopy DEF Webhook, Owing
<1> QED BY <1>8, <1>9, <1>10, <1>11, QuietStep DEF Webhook

LEMMA VerifyPaymentStep ==
  ASSUME Inv, NEW p \in Handlers, VerifyPayment(p)
  PROVE  Inv'
<1>1. StateTypes'
  BY StateTypesKept, TypeParts DEF Inv, VerifyPayment
<1>2. TypeOK /\ Fits(h[p], order, record, Paid) /\ h[p] \in Copies
  BY DEF Inv, CopiesFit, TypeOK
<1>3. PICK a \in Attempts :
        /\ pay[a] # "none"
        /\ \/ Become(p, [[Idle EXCEPT !.a = a, !.saw = pay[a]] EXCEPT !.pc = "ask"])
           \/ /\ "CAPTURED" \in gate[a]
              /\ Become(p, [[Idle EXCEPT !.a = a, !.saw = pay[a]]
                              EXCEPT !.pc = "transition", !.next = "CAPTURED"])
  BY DEF VerifyPayment
<1> DEFINE copy == [Idle EXCEPT !.a = a, !.saw = pay[a]]
           ask == [copy EXCEPT !.pc = "ask"]
           take == [copy EXCEPT !.pc = "transition", !.next = "CAPTURED"]
<1>4. pay[a] \in Outcomes /\ a \in 0..MaxAttempts
  BY <1>2, <1>3, PaymentAssumption DEF TypeOK, Outcomes, Attempts
<1>5. ask \in Copies /\ take \in Copies
  <2>1. PICK c \in Copies : c = Idle
    BY IdleCopy
  <2>2. PICK d \in Copies : d = [c EXCEPT !.a = a, !.saw = pay[a]]
    BY <1>4 DEF Copies
  <2>3. [d EXCEPT !.pc = "ask"] \in Copies
    BY DEF Copies, Steps
  <2>4. [d EXCEPT !.pc = "transition", !.next = "CAPTURED"] \in Copies
    BY DEF Copies, Steps, Outcomes
  <2> QED BY <2>1, <2>2, <2>3, <2>4
<1>6. /\ ask.pc = "ask" /\ ask.next = "PENDING" /\ ask.loop = "none" /\ ask.todo = {} /\ ask.a = a
      /\ take.pc = "transition" /\ take.loop = "none" /\ take.todo = {}
  BY DEF Idle
<1>7. \/ Become(p, ask)
      \/ "CAPTURED" \in gate[a] /\ Become(p, take)
  BY <1>3
<1> HIDE DEF ask, take
<1>8. Moved(p) /\ Fits(h'[p], order, record, Paid)
  <2>1. CASE Become(p, ask)
    <3>1. Moved(p) /\ h'[p] = ask
      BY <1>2, <1>5, <2>1, BecomeCopy
    <3> QED BY <1>6, <3>1 DEF Fits
  <2>2. CASE "CAPTURED" \in gate[a] /\ Become(p, take)
    <3>1. Moved(p) /\ h'[p] = take
      BY <1>2, <1>5, <2>2, BecomeCopy
    <3> QED BY <1>6, <2>2, <3>1 DEF Fits, Paid
  <2> QED BY <1>7, <2>1, <2>2
<1>9. ~Helps(h[p], order, record)
  BY HelpsOwing, IdleCopy DEF VerifyPayment, Owing
<1> QED BY <1>1, <1>8, <1>9, QuietStep DEF VerifyPayment
\* The gateway calls nothing captured that it has not captured.
LEMMA AnswersTrue ==
  ASSUME NEW a \in Attempts, "CAPTURED" \in Answers(a)
  PROVE  Paid
BY DEF Answers, Paid

LEMMA AskForCustomerStep ==
  ASSUME Inv, NEW p \in Handlers, AskForCustomer(p)
  PROVE  Inv'
<1>1. StateTypes'
  BY StateTypesKept, TypeParts DEF Inv, AskForCustomer
<1>2. TypeOK /\ Fits(h[p], order, record, Paid) /\ h[p] \in Copies
  BY DEF Inv, CopiesFit, TypeOK
<1>3. PICK answer \in Answers(h[p].a) :
        Become(p, [h[p] EXCEPT !.pc = "transition", !.next = answer])
  BY DEF AskForCustomer
<1> DEFINE copy == [h[p] EXCEPT !.pc = "transition", !.next = answer]
<1>4. answer \in Outcomes /\ (answer = "CAPTURED" => Paid)
  BY <1>2, AnswersType, AnswersTrue DEF AskForCustomer, At, Fits
<1>5. /\ copy \in Copies /\ copy.pc = "transition" /\ copy.next = answer
      /\ copy.loop = h[p].loop /\ copy.todo = h[p].todo
  BY <1>2, <1>4 DEF Copies, Steps
<1> HIDE DEF copy
<1>6. Moved(p) /\ h'[p] = copy
  BY <1>2, <1>3, <1>5, BecomeCopy DEF copy
<1>7. Fits(h'[p], order, record, Paid)
  BY <1>2, <1>4, <1>5, <1>6 DEF Fits
<1>8. ~Helps(h[p], order, record)
  BY HelpsOwing DEF AskForCustomer, At, Owing
<1> QED BY <1>1, <1>6, <1>7, <1>8, QuietStep DEF AskForCustomer

LEMMA LoadAttemptsStep ==
  ASSUME Inv, NEW p \in Handlers, LoadAttempts(p)
  PROVE  Inv'
<1>1. StateTypes'
  BY StateTypesKept, TypeParts DEF Inv, LoadAttempts
<1>2. TypeOK /\ Fits(h[p], order, record, Paid) /\ h[p] \in Copies
  BY DEF Inv, CopiesFit, TypeOK
<1>3. Proceeds(p)
  <2> DEFINE todo == {a \in Attempts : pay[a] = "PENDING"}
             outcome == IF \E a \in Attempts : pay[a] = "CAPTURED" THEN "CAPTURED" ELSE "UNPAID"
  <2>1. todo \in SUBSET Attempts /\ outcome \in {"UNPAID", "PENDING", "UNKNOWN", "CAPTURED"}
    OBVIOUS
  <2>2. Proceed(p, todo, outcome)
    BY DEF LoadAttempts
  <2> HIDE DEF todo, outcome
  <2> QED BY <1>2, <2>1, <2>2, ProceedCopy
<1>4. Moved(p) /\ Fits(h'[p], order, record, Paid)
  BY <1>2, <1>3, ProceedsFits DEF Fits, LoadAttempts, At, Proceeds
<1>5. ~Helps(h[p], order, record)
  BY HelpsOwing DEF LoadAttempts, At, Owing
<1> QED BY <1>1, <1>4, <1>5, QuietStep DEF LoadAttempts

LEMMA AskToReconcileStep ==
  ASSUME Inv, NEW p \in Handlers, AskToReconcile(p)
  PROVE  Inv'
<1>1. StateTypes'
  BY StateTypesKept, TypeParts DEF Inv, AskToReconcile
<1>2. TypeOK /\ Fits(h[p], order, record, Paid) /\ h[p] \in Copies
  BY DEF Inv, CopiesFit, TypeOK
<1>3. PICK a \in Latest(p) : \E answer \in Answers(a) :
       IF answer = "PENDING"
         THEN Proceed(p, h[p].todo \ {a}, IF h[p].outcome = "UNKNOWN" THEN "UNKNOWN" ELSE "PENDING")
         ELSE Become(p, [h[p] EXCEPT !.pc = "transition", !.a = a, !.next = answer, !.todo = @ \ {a}])
  BY DEF AskToReconcile
<1>4. PICK answer \in Answers(a) :
       IF answer = "PENDING"
         THEN Proceed(p, h[p].todo \ {a}, IF h[p].outcome = "UNKNOWN" THEN "UNKNOWN" ELSE "PENDING")
         ELSE Become(p, [h[p] EXCEPT !.pc = "transition", !.a = a, !.next = answer, !.todo = @ \ {a}])
  BY <1>3
<1> DEFINE copy == [h[p] EXCEPT !.pc = "transition", !.a = a, !.next = answer, !.todo = @ \ {a}]
           outcome == IF h[p].outcome = "UNKNOWN" THEN "UNKNOWN" ELSE "PENDING"
<1>5. /\ h[p].todo \in SUBSET Attempts /\ a \in Attempts /\ a \in 0..MaxAttempts
      /\ h[p].loop # "none"
  BY <1>2, PaymentAssumption DEF Latest, Copies, Attempts, AskToReconcile
<1>6. answer \in Outcomes /\ (answer = "CAPTURED" => Paid)
  BY <1>5, AnswersType, AnswersTrue
<1>7. /\ copy \in Copies /\ copy.pc = "transition" /\ copy.next = answer
      /\ copy.loop = h[p].loop
  BY <1>2, <1>5, <1>6 DEF Copies, Steps
<1>8. Moved(p) /\ Fits(h'[p], order, record, Paid)
  <2>1. CASE answer = "PENDING"
    <3>1. Proceed(p, h[p].todo \ {a}, outcome)
      BY <1>4, <2>1
    <3>2. h[p].todo \ {a} \in SUBSET Attempts /\ outcome \in {"UNPAID", "PENDING", "UNKNOWN", "CAPTURED"}
      BY <1>5
    <3>3. Proceeds(p)
      <4> HIDE DEF outcome
      <4> QED BY <1>2, <3>1, <3>2, ProceedCopy
    <3> QED BY <1>2, <1>5, <3>3, ProceedsFits DEF Proceeds
  <2>2. CASE answer # "PENDING"
    <3>1. Become(p, copy)
      BY <1>4, <2>2
    <3> HIDE DEF copy
    <3>2. Moved(p) /\ h'[p] = copy
      BY <1>2, <1>7, <3>1, BecomeCopy
    <3> QED BY <1>2, <1>5, <1>6, <1>7, <3>2 DEF Fits
  <2> QED BY <2>1, <2>2
<1>9. ~Helps(h[p], order, record)
  BY HelpsOwing DEF AskToReconcile, At, Owing
<1> QED BY <1>1, <1>8, <1>9, QuietStep DEF AskToReconcile

LEMMA transitionPaymentStateStep ==
  ASSUME Inv, NEW p \in Handlers, transitionPaymentState(p)
  PROVE  Inv'
<1>2. TypeOK /\ Fits(h[p], order, record, Paid) /\ h[p] \in Copies
  BY DEF Inv, CopiesFit, TypeOK
<1>1. StateTypes'
  <2>1. h[p].next \in Outcomes
    BY <1>2 DEF Copies
  <2> QED BY <1>2, <2>1, TypeParts DEF StateTypes, transitionPaymentState
<1>3. Moved(p) /\ Fits(h'[p], order, record, Paid)
  <2>1. CASE Done(p)
    BY <2>1, DoneFits
  <2>2. CASE ~Done(p)
    <3> DEFINE copy == [h[p] EXCEPT !.pc = "effects", !.a = 0, !.saw = "PENDING"]
    <3>1. Become(p, copy)
      BY <2>2 DEF transitionPaymentState
    <3>2. /\ copy \in Copies /\ copy.pc = "effects" /\ copy.next = h[p].next
          /\ copy.loop = h[p].loop /\ copy.todo = h[p].todo
      <4>1. 0 \in 0..MaxAttempts
        BY PaymentAssumption
      <4> QED BY <1>2, <4>1 DEF Copies, Steps, Outcomes
    <3> HIDE DEF copy
    <3>3. Moved(p) /\ h'[p] = copy
      BY <1>2, <3>1, <3>2, BecomeCopy
    <3> QED BY <1>2, <3>2, <3>3 DEF Fits
  <2> QED BY <2>1, <2>2
<1>4. ~Helps(h[p], order, record)
  BY HelpsOwing DEF transitionPaymentState, At, Owing
<1> QED BY <1>1, <1>3, <1>4, QuietStep DEF transitionPaymentState

LEMMA ReadOrdersStep ==
  ASSUME Inv, NEW p \in Handlers, ReadOrders(p)
  PROVE  Inv'
<1>1. StateTypes'
  BY StateTypesKept, TypeParts DEF Inv, ReadOrders
<1>2. TypeOK /\ Fits(h[p], order, record, Paid) /\ h[p] \in Copies
  BY DEF Inv, CopiesFit, TypeOK
<1> DEFINE copy == [h[p] EXCEPT !.pc = "finance", !.cancelled = Cancelled]
<1>3. /\ copy \in Copies /\ copy.pc = "finance" /\ copy.next = h[p].next
      /\ copy.loop = h[p].loop /\ copy.todo = h[p].todo
  BY <1>2 DEF Copies, Steps, Cancelled
<1>4. Become(p, copy)
  BY DEF ReadOrders
<1> HIDE DEF copy
<1>5. Moved(p) /\ h'[p] = copy
  BY <1>2, <1>3, <1>4, BecomeCopy
<1>6. Fits(h'[p], order, record, Paid)
  BY <1>2, <1>3, <1>5 DEF Fits, ReadOrders
<1>7. ~Helps(h[p], order, record)
  BY HelpsOwing DEF ReadOrders, At, Owing
<1> QED BY <1>1, <1>5, <1>6, <1>7, QuietStep DEF ReadOrders

LEMMA StartSweepStep ==
  ASSUME Inv, NEW p \in Handlers, StartSweep(p)
  PROVE  Inv'
<1>1. StateTypes'
  BY StateTypesKept, TypeParts DEF Inv, StartSweep
<1>2. TypeOK /\ Fits(h[p], order, record, Paid) /\ h[p] \in Copies
  BY DEF Inv, CopiesFit, TypeOK
<1> DEFINE copy == [Idle EXCEPT !.pc = "attempts", !.loop = "sweep"]
<1>3. copy \in Copies
  <2>1. PICK c \in Copies : c = Idle
    BY IdleCopy
  <2>2. [c EXCEPT !.pc = "attempts", !.loop = "sweep"] \in Copies
    BY DEF Copies, Steps
  <2> QED BY <2>1, <2>2
<1>4. copy.pc = "attempts" /\ copy.next = "PENDING" /\ copy.loop = "sweep"
  BY DEF Idle
<1>5. Become(p, copy)
  BY DEF StartSweep
<1> HIDE DEF copy
<1>6. Moved(p) /\ h'[p] = copy
  BY <1>2, <1>3, <1>5, BecomeCopy
<1>7. Fits(h'[p], order, record, Paid)
  BY <1>4, <1>6 DEF Fits
<1>8. ~Helps(h[p], order, record)
  BY HelpsOwing, IdleCopy DEF StartSweep, Owing
<1> QED BY <1>1, <1>6, <1>7, <1>8, QuietStep DEF StartSweep
LEMMA recordExternalCancellationStep ==
  ASSUME Inv, NEW p \in Handlers, recordExternalCancellation(p)
  PROVE  Inv'
<1>1. StateTypes'
  BY StateTypesKept, TypeParts DEF Inv, recordExternalCancellation
<1>2. TypeOK /\ Fits(h[p], order, record, Paid) /\ h[p] \in Copies
  BY DEF Inv, CopiesFit, TypeOK
<1>3. Moved(p) /\ Fits(h'[p], order, record, Paid)
      /\ (Cancelled /\ Helps(h[p], order, record) => Helps(h'[p], order, record))
  <2>1. CASE Cancelled
    <3> DEFINE plan == IF ~order.reversed THEN "open"
                       ELSE IF order.returned THEN "returned" ELSE "without"
               copy == [h[p] EXCEPT !.pc = "insert", !.plan = plan]
    <3>1. plan \in Records
      BY DEF Records
    <3>2. Become(p, copy)
      BY <2>1 DEF recordExternalCancellation
    <3>3. /\ copy \in Copies /\ copy.pc = "insert" /\ copy.next = h[p].next /\ copy.plan = plan
          /\ copy.loop = h[p].loop /\ copy.todo = h[p].todo
      <4> HIDE DEF plan
      <4> QED BY <1>2, <3>1 DEF Copies, Steps
    <3>4. Moved(p) /\ h'[p] = copy
      <4> HIDE DEF copy
      <4> QED BY <1>2, <3>2, <3>3, BecomeCopy
    <3> HIDE DEF copy
    <3>5. order.returned => order.reversed
      BY DEF Inv, Agree
    <3>6. Fits(h'[p], order, record, Paid)
      BY <1>2, <2>1, <3>3, <3>4, <3>5 DEF Fits, Cancelled
    <3>7. Helps(h[p], order, record) => Helps(h'[p], order, record)
      BY <3>3, <3>4 DEF Helps, recordExternalCancellation, At
    <3> QED BY <3>4, <3>6, <3>7
  <2>2. CASE ~Cancelled
    <3>1. Return(p)
      BY <2>2 DEF recordExternalCancellation
    <3> QED BY <2>2, <3>1, ReturnFits
  <2> QED BY <2>1, <2>2
<1> QED BY <1>1, <1>3, QuietStep DEF recordExternalCancellation, Due

LEMMA onLatePaymentCaptureStep ==
  ASSUME Inv, NEW p \in Handlers, onLatePaymentCapture(p)
  PROVE  Inv'
<1>1. StateTypes'
  BY StateTypesKept, TypeParts DEF Inv, onLatePaymentCapture
<1>2. TypeOK /\ Fits(h[p], order, record, Paid) /\ h[p] \in Copies
  BY DEF Inv, CopiesFit, TypeOK
<1>3. /\ Moved(p) /\ SameWork(h'[p], h[p])
      /\ h'[p].pc = IF record = "none" THEN "record" ELSE "add"
  <2>1. (IF record = "none" THEN "record" ELSE "add") \in Steps
    BY DEF Steps
  <2> QED BY <1>2, <2>1, GoToCopy DEF onLatePaymentCapture
<1>4. h[p].next = "CAPTURED"
  BY <1>2 DEF Fits, onLatePaymentCapture, At
<1>5. Fits(h'[p], order, record, Paid)
  BY <1>2, <1>3, <1>4 DEF Fits, SameWork
<1>6. Helps(h'[p], order, record)
  BY <1>3, <1>4 DEF Helps, SameWork
<1> QED BY <1>1, <1>3, <1>5, <1>6, QuietStep DEF onLatePaymentCapture

\* The plan is about to be frozen with what the order says now.
LEMMA ToFreeze ==
  ASSUME Inv, NEW p \in Handlers, NEW o, NEW r, NEW paid, r # "none",
         Become(p, [Idle EXCEPT !.pc = "freeze", !.plan = IF Captured THEN "with" ELSE "without"])
  PROVE  Moved(p) /\ Fits(h'[p], o, r, paid)
<1> DEFINE plan == IF Captured THEN "with" ELSE "without"
           copy == [Idle EXCEPT !.pc = "freeze", !.plan = plan]
<1>1. plan \in {"with", "without"}
  OBVIOUS
<1>2. copy \in Copies
  <2> HIDE DEF plan
  <2>1. PICK c \in Copies : c = Idle
    BY IdleCopy
  <2>2. [c EXCEPT !.pc = "freeze", !.plan = plan] \in Copies
    BY <1>1 DEF Copies, Steps, Records
  <2> QED BY <2>1, <2>2
<1>3. /\ copy.pc = "freeze" /\ copy.plan = plan /\ copy.next = "PENDING" /\ copy.loop = "none"
      /\ copy.todo = {}
  BY DEF Idle
<1> HIDE DEF copy
<1>4. Moved(p) /\ h'[p] = copy
  BY <1>2, BecomeCopy DEF Inv, copy
<1> HIDE DEF plan
<1> QED BY <1>1, <1>3, <1>4 DEF Fits

LEMMA planRefundStep ==
  ASSUME Inv, NEW p \in Handlers, planRefund(p)
  PROVE  Inv'
<1>1. StateTypes'
  BY StateTypesKept, TypeParts DEF Inv, planRefund
<1>2. TypeOK /\ record = "open"
  BY DEF Inv, planRefund
<1>3. Moved(p) /\ Fits(h'[p], order, record, Paid)
  <2>1. CASE Unconfirmed
    <3> DEFINE copy == [Idle EXCEPT !.pc = "attempts", !.loop = "round"]
    <3>1. copy \in Copies
      <4>1. PICK c \in Copies : c = Idle
        BY IdleCopy
      <4>2. [c EXCEPT !.pc = "attempts", !.loop = "round"] \in Copies
        BY DEF Copies, Steps
      <4> QED BY <4>1, <4>2
    <3>2. copy.pc = "attempts" /\ copy.next = "PENDING" /\ copy.loop = "round"
      BY DEF Idle
    <3>3. Become(p, copy)
      BY <2>1 DEF planRefund
    <3> HIDE DEF copy
    <3>4. Moved(p) /\ h'[p] = copy
      BY <1>2, <3>1, <3>3, BecomeCopy
    <3> QED BY <1>2, <3>2, <3>4 DEF Fits
  <2>2. CASE ~Unconfirmed
    BY <1>2, <2>2, ToFreeze DEF planRefund
  <2> QED BY <2>1, <2>2
<1>4. ~Helps(h[p], order, record)
  BY HelpsOwing, IdleCopy DEF planRefund, Owing
<1> QED BY <1>1, <1>3, <1>4, QuietStep DEF planRefund

LEMMA ReadOrderAgainStep ==
  ASSUME Inv, NEW p \in Handlers, ReadOrderAgain(p)
  PROVE  Inv'
<1>1. StateTypes'
  BY StateTypesKept, TypeParts DEF Inv, ReadOrderAgain
<1>2. TypeOK /\ Fits(h[p], order, record, Paid) /\ h[p] \in Copies
  BY DEF Inv, CopiesFit, TypeOK
<1>3. record # "none"
  BY <1>2 DEF Fits, ReadOrderAgain, At
<1>4. Moved(p) /\ Fits(h'[p], order, record, Paid)
  BY <1>3, DoneFits, ToFreeze DEF ReadOrderAgain
<1>5. ~Helps(h[p], order, record)
  BY HelpsOwing DEF ReadOrderAgain, At, Owing
<1> QED BY <1>1, <1>4, <1>5, QuietStep DEF ReadOrderAgain

LEMMA DieStep ==
  ASSUME Inv, NEW p \in Handlers, Die(p)
  PROVE  Inv'
<1>1. StateTypes' /\ (missed => missed')
  BY TypeParts DEF Inv, StateTypes, Die, Miss
<1>2. Moved(p) /\ Fits(h'[p], order, record, Paid)
  BY DoneFits DEF Die
<1>3. Helps(h[p], order, record) => missed'
  BY HelpsOwing DEF Die, Miss
<1> QED BY <1>1, <1>2, <1>3, QuietStep DEF Die

LEMMA StumbleStep ==
  ASSUME Inv, NEW p \in Handlers, Stumble(p)
  PROVE  Inv'
<1>2. TypeOK /\ Fits(h[p], order, record, Paid) /\ h[p] \in Copies
  BY DEF Inv, CopiesFit, TypeOK
<1>1. StateTypes' /\ (missed => missed')
  BY TypeParts DEF Inv, StateTypes, Stumble, Miss
<1>3. CASE /\ h[p].loop # "none" /\ h[p].pc \in {"ask", "transition", "effects", "finance", "move"}
           /\ Proceed(p, IF At(p, "ask") THEN h[p].todo \ Latest(p) ELSE h[p].todo, "UNKNOWN")
  <2> DEFINE todo == IF At(p, "ask") THEN h[p].todo \ Latest(p) ELSE h[p].todo
  <2>1. todo \in SUBSET Attempts
    BY <1>2 DEF Copies
  <2>2. Proceed(p, todo, "UNKNOWN")
    BY <1>3
  <2> HIDE DEF todo
  <2>3. Proceeds(p)
    BY <1>2, <2>1, <2>2, ProceedCopy
  <2>4. Moved(p) /\ Fits(h'[p], order, record, Paid)
    BY <1>2, <1>3, <2>3, ProceedsFits DEF Proceeds
  <2>5. ~Helps(h[p], order, record)
    BY <1>3, HelpsOwing DEF Owing
  <2> QED BY <1>1, <2>4, <2>5, QuietStep DEF Stumble
<1>4. CASE Return(p) /\ Miss(TRUE)
  <2>1. Moved(p) /\ Fits(h'[p], order, record, Paid)
    BY <1>4, ReturnFits
  <2>2. missed'
    BY <1>4 DEF Miss
  <2> QED BY <1>1, <2>1, <2>2, QuietStep DEF Stumble
<1> QED BY <1>3, <1>4 DEF Stumble

-----------------------------------------------------------------------------
(* Steps of the gateway, the order, the record and the books               *)

LEMMA GatewaySettlesStep ==
  ASSUME Inv, NEW a \in Attempts, GatewaySettles(a)
  PROVE  Inv'
<1>1. gate \in [Attempts -> SUBSET {"CAPTURED", "FAILED"}]
  BY DEF Inv, TypeOK
<1>2. \A b \in Attempts : gate[b] \subseteq gate'[b]
  BY <1>1 DEF GatewaySettles
<1>3. Paid => Paid'
  BY <1>2 DEF Paid
<1>4. TypeOK'
  BY <1>1 DEF Inv, TypeOK, GatewaySettles
<1>5. Grows
  BY <1>3 DEF Grows, GatewaySettles, Cancelled
<1>6. CopiesFit'
  <2> SUFFICES ASSUME NEW q \in Handlers PROVE Fits(h[q], order', record', Paid')
    BY DEF CopiesFit, GatewaySettles
  <2>1. Fits(h[q], order, record, Paid)
    BY DEF Inv, CopiesFit
  <2> QED BY <1>5, <2>1, FitsGrows
<1>7. Agree'
  <2>1. PaidBeforeSeller'
    BY <1>2 DEF Inv, Agree, PaidBeforeSeller, GatewaySettles
  <2> QED BY <1>3, <2>1 DEF Inv, Agree, BookedOnce, GatewaySettles, Cancelled
<1>8. Owed'
  BY DEF Inv, Owed, GatewaySettles, Cancelled
<1> QED BY <1>4, <1>6, <1>7, <1>8 DEF Inv

\* Whoever was at a refund still is.
LEMMA StillHelped ==
  ASSUME Inv, NEW p \in Handlers, Moved(p), Due, ~missed,
         ~Helps(h[p], order, record), record' = record,
         order'.reversed = order.reversed \/ record # "none"
  PROVE  \E q \in Handlers : Helps(h'[q], order', record')
<1>1. PICK q \in Handlers : Helps(h[q], order, record)
  BY DEF Inv, Owed, Due
<1>2. h'[q] = h[q]
  BY <1>1 DEF Moved
<1> QED BY <1>1, <1>2 DEF Helps

LEMMA handleOnlineOrderFinanceStep ==
  ASSUME Inv, NEW p \in Handlers, handleOnlineOrderFinance(p)
  PROVE  Inv'
<1>2. TypeOK /\ Fits(h[p], order, record, Paid) /\ h[p] \in Copies
  BY DEF Inv, CopiesFit, TypeOK
<1>3. h[p].next = "CAPTURED" /\ Paid
  BY <1>2 DEF Fits, handleOnlineOrderFinance, At
<1> DEFINE pc == IF h[p].cancelled THEN "late" ELSE "move"
           copy == [h[p] EXCEPT !.pc = pc, !.cancelled = FALSE]
<1>4. Moved(p) /\ h'[p].pc = pc /\ h'[p].next = "CAPTURED"
      /\ h'[p].loop = h[p].loop /\ h'[p].todo = h[p].todo
  <2>1. pc \in {"late", "move"}
    OBVIOUS
  <2>2. Become(p, copy)
    BY DEF handleOnlineOrderFinance
  <2> HIDE DEF pc
  <2>3. copy \in Copies /\ copy.pc = pc /\ copy.next = h[p].next
        /\ copy.loop = h[p].loop /\ copy.todo = h[p].todo
    BY <1>2, <2>1 DEF Copies, Steps
  <2> HIDE DEF copy
  <2> QED BY <1>2, <1>3, <2>2, <2>3, BecomeCopy
<1>5. ~Helps(h[p], order, record)
  BY HelpsOwing DEF handleOnlineOrderFinance, At, Owing
<1>6. CASE order.booked
  <2>1. UNCHANGED <<case, gate, pay, seen, order, record, credited, missed>>
    BY <1>2, <1>6 DEF handleOnlineOrderFinance, Miss, TypeOK
  <2>2. StateTypes'
    BY <1>2, <2>1, StateTypesKept, TypeParts
  <2>3. Fits(h'[p], order, record, Paid)
    BY <1>2, <1>3, <1>4, <1>6 DEF Fits
  <2> QED BY <1>4, <1>5, <2>1, <2>2, <2>3, QuietStep
<1>7. CASE ~order.booked
  <2>1. /\ order' \in Orders /\ order'.flow = order.flow /\ order'.booked
        /\ order'.reversed = order.reversed /\ order'.returned = order.returned
    BY <1>2, <1>7 DEF TypeOK, Orders, handleOnlineOrderFinance
  <2>2. /\ UNCHANGED <<case, gate, pay, seen, record>> /\ credited' = credited + 1
        /\ missed' \in BOOLEAN /\ (missed => missed')
        /\ (Cancelled /\ ~h[p].cancelled => missed')
    BY <1>2, <1>7 DEF handleOnlineOrderFinance, Miss, TypeOK
  <2>3. Paid' = Paid /\ Cancelled' = Cancelled
    BY <2>1, <2>2 DEF Paid, Cancelled
  <2>4. StateTypes'
    BY <1>2, <2>1, <2>2, TypeParts DEF StateTypes
  <2>5. Grows
    BY <2>1, <2>2, <2>3 DEF Grows
  <2>6. Fits(h'[p], order', record', Paid')
    BY <1>2, <1>3, <1>4, <2>1, <2>2, <2>3 DEF Fits
  <2>7. Agree'
    <3>1. credited = 0
      BY <1>7 DEF Inv, Agree, BookedOnce
    <3>2. BookedOnce'
      BY <2>1, <2>2, <3>1 DEF BookedOnce
    <3>3. PaidBeforeSeller'
      BY <1>3, <2>1, <2>2 DEF PaidBeforeSeller, Paid
    <3> QED BY <1>3, <2>1, <2>2, <2>3, <3>2, <3>3 DEF Inv, Agree
  <2>8. Owed'
    <3>1. ASSUME Cancelled, ~missed' PROVE Helps(h'[p], order', record')
      BY <1>4, <2>2, <3>1 DEF Helps
    <3> QED BY <2>3, <3>1 DEF Owed
  <2> QED BY <1>4, <2>4, <2>5, <2>6, <2>7, <2>8, GrowingStep
<1> QED BY <1>6, <1>7

LEMMA moveOrderToSellerPendingAfterPaymentStep ==
  ASSUME Inv, NEW p \in Handlers, moveOrderToSellerPendingAfterPayment(p)
  PROVE  Inv'
<1>2. TypeOK /\ Fits(h[p], order, record, Paid) /\ h[p] \in Copies
  BY DEF Inv, CopiesFit, TypeOK
<1>3. order.booked /\ Paid
  BY <1>2 DEF Fits, moveOrderToSellerPendingAfterPayment, At
<1>4. Moved(p) /\ Fits(h'[p], order', record', Paid')
  BY ReturnFits DEF moveOrderToSellerPendingAfterPayment
<1>5. UNCHANGED <<case, gate, pay, seen, record, credited, missed>>
  BY DEF moveOrderToSellerPendingAfterPayment
<1>6. Paid' = Paid
  BY <1>5 DEF Paid
<1>7. CASE order.flow = "CREATED"
  <2>1. /\ order' \in Orders /\ order'.flow = "SELLER_PENDING" /\ order'.booked = order.booked
        /\ order'.reversed = order.reversed /\ order'.returned = order.returned
    BY <1>2, <1>7 DEF TypeOK, Orders, moveOrderToSellerPendingAfterPayment
  <2>2. ~Cancelled /\ ~Cancelled'
    BY <1>7, <2>1 DEF Cancelled
  <2>3. StateTypes'
    BY <1>2, <1>5, <2>1, TypeParts DEF StateTypes
  <2>4. Grows
    BY <1>5, <1>6, <2>1, <2>2 DEF Grows
  <2>5. Agree'
    <3>1. BookedOnce' /\ PaidBeforeSeller'
      BY <1>3, <1>5, <2>1 DEF Inv, Agree, BookedOnce, PaidBeforeSeller, Paid
    <3> QED BY <1>5, <1>6, <2>1, <2>2, <3>1 DEF Inv, Agree
  <2>6. Owed'
    BY <2>2 DEF Owed
  <2> QED BY <1>4, <2>3, <2>4, <2>5, <2>6, GrowingStep
<1>8. CASE order.flow # "CREATED"
  <2>1. order' = order
    BY <1>8 DEF moveOrderToSellerPendingAfterPayment
  <2>2. StateTypes'
    BY <1>2, <1>5, <2>1, StateTypesKept, TypeParts
  <2>3. ~Helps(h[p], order, record)
    BY HelpsOwing DEF moveOrderToSellerPendingAfterPayment, At, Owing
  <2> QED BY <1>4, <1>5, <1>6, <2>1, <2>2, <2>3, QuietStep
<1> QED BY <1>7, <1>8

\* An order that is cancelled by p, who next compensates or records it.
LEMMA CancellingStep ==
  ASSUME Inv, NEW p \in Handlers, ~Cancelled, Moved(p), SameWork(h'[p], h[p]),
         h'[p].pc \in {"reverse", "record"},
         order' \in Orders, order'.flow = "CANCELLED", order'.booked = order.booked,
         order'.reversed = order.reversed, order'.returned = order.returned,
         UNCHANGED <<case, gate, pay, seen, record, credited, missed>>
  PROVE  Inv'
<1>1. TypeOK /\ Fits(h[p], order, record, Paid)
  BY DEF Inv, CopiesFit
<1>2. record = "none" /\ ~order.reversed
  BY DEF Inv, Agree
<1>3. Paid' = Paid /\ Cancelled'
  BY DEF Paid, Cancelled
<1>4. StateTypes'
  BY <1>1, TypeParts DEF StateTypes
<1>5. Grows
  BY <1>3 DEF Grows
<1>6. Fits(h'[p], order', record', Paid')
  BY <1>1, <1>3 DEF Fits, SameWork
<1>7. Agree'
  BY <1>3 DEF Inv, Agree, BookedOnce, PaidBeforeSeller
<1>8. Helps(h'[p], order', record')
  BY <1>2 DEF Helps
<1> QED BY <1>4, <1>5, <1>6, <1>7, <1>8, GrowingStep DEF Owed

LEMMA PaymentFailsStep ==
  ASSUME Inv, NEW p \in Handlers, PaymentFails(p)
  PROVE  Inv'
<1>2. TypeOK /\ Fits(h[p], order, record, Paid) /\ h[p] \in Copies
  BY DEF Inv, CopiesFit, TypeOK
<1>3. Moved(p) /\ h'[p].pc = "record" /\ SameWork(h'[p], h[p])
  BY <1>2, GoToCopy DEF PaymentFails, Steps
<1>4. UNCHANGED <<case, gate, pay, seen, record, credited, missed>>
  BY DEF PaymentFails
<1>5. CASE order.flow = "CREATED"
  <2>1. /\ order' \in Orders /\ order'.flow = "CANCELLED" /\ order'.booked = order.booked
        /\ order'.reversed = order.reversed /\ order'.returned = order.returned
    BY <1>2, <1>5 DEF TypeOK, Orders, PaymentFails
  <2>2. ~Cancelled
    BY <1>5 DEF Cancelled
  <2> QED BY <1>3, <1>4, <2>1, <2>2, CancellingStep
<1>6. CASE order.flow # "CREATED"
  <2>1. order' = order
    BY <1>6 DEF PaymentFails
  <2>2. StateTypes'
    BY <1>2, <1>4, <2>1, StateTypesKept, TypeParts
  <2>3. Fits(h'[p], order, record, Paid)
    BY <1>2, <1>3 DEF Fits, SameWork
  <2>4. ~Helps(h[p], order, record)
    BY HelpsOwing DEF PaymentFails, At, Owing
  <2> QED BY <1>3, <1>4, <2>1, <2>2, <2>3, <2>4, QuietStep
<1> QED BY <1>5, <1>6

LEMMA PaymentStillOpenStep ==
  ASSUME Inv, NEW p \in Handlers, PaymentStillOpen(p)
  PROVE  Inv'
<1>2. TypeOK /\ Fits(h[p], order, record, Paid) /\ h[p] \in Copies
  BY DEF Inv, CopiesFit, TypeOK
<1>3. Moved(p) /\ Fits(h'[p], order', record', Paid')
  BY ReturnFits DEF PaymentStillOpen
<1>4. UNCHANGED <<case, gate, pay, seen, record, credited, missed>>
  BY DEF PaymentStillOpen
<1>5. /\ order' \in Orders /\ order'.flow = order.flow /\ order'.booked = order.booked
      /\ order'.reversed = order.reversed /\ order'.returned = order.returned
  BY <1>2 DEF TypeOK, Orders, PaymentStillOpen
<1>6. Paid' = Paid /\ Cancelled' = Cancelled
  BY <1>4, <1>5 DEF Paid, Cancelled
<1>7. StateTypes'
  BY <1>2, <1>4, <1>5, TypeParts DEF StateTypes
<1>8. Grows
  BY <1>4, <1>5, <1>6 DEF Grows
<1>9. Agree'
  BY <1>4, <1>5, <1>6 DEF Inv, Agree, BookedOnce, PaidBeforeSeller
<1>10. ~Helps(h[p], order, record)
  BY HelpsOwing DEF PaymentStillOpen, At, Owing
<1>11. Owed'
  <2> SUFFICES ASSUME Due, ~missed PROVE \E q \in Handlers : Helps(h'[q], order', record')
    BY <1>4, <1>5, <1>6 DEF Owed, Due
  <2> QED BY <1>3, <1>4, <1>5, <1>10, StillHelped
<1> QED BY <1>3, <1>7, <1>8, <1>9, <1>11, GrowingStep
LEMMA executeDirectCancellationStep ==
  ASSUME Inv, NEW p \in Handlers, executeDirectCancellation(p)
  PROVE  Inv'
<1>2. TypeOK /\ Fits(h[p], order, record, Paid) /\ h[p] \in Copies
  BY DEF Inv, CopiesFit, TypeOK
<1>3. Moved(p) /\ h' = h
  BY <1>2 DEF executeDirectCancellation, Moved, TypeOK
<1>4. /\ UNCHANGED <<case, gate, pay, seen, credited, missed>>
      /\ ~Cancelled /\ record' = "open"
  BY DEF executeDirectCancellation
<1>5. /\ order' \in Orders /\ order'.flow = "CANCELLED" /\ order'.booked = order.booked
      /\ order'.reversed = order.reversed /\ order'.returned = order.returned
  BY <1>2 DEF TypeOK, Orders, executeDirectCancellation
<1>6. Paid' = Paid /\ Cancelled'
  BY <1>4, <1>5 DEF Paid, Cancelled
<1>7. StateTypes'
  BY <1>2, <1>4, <1>5, TypeParts DEF StateTypes, Records
<1>8. Grows
  BY <1>4, <1>5, <1>6 DEF Grows
<1>9. Fits(h'[p], order', record', Paid')
  BY <1>2, <1>3, <1>8, FitsGrows
<1>10. Agree'
  BY <1>4, <1>5, <1>6 DEF Inv, Agree, BookedOnce, PaidBeforeSeller
<1>11. Owed'
  BY <1>4 DEF Owed
<1> QED BY <1>3, <1>7, <1>8, <1>9, <1>10, <1>11, GrowingStep

LEMMA SellerTurnsDownStep ==
  ASSUME Inv, NEW p \in Handlers, SellerTurnsDown(p)
  PROVE  Inv'
<1>2. TypeOK /\ Fits(h[p], order, record, Paid) /\ h[p] \in Copies
  BY DEF Inv, CopiesFit, TypeOK
<1>3. Moved(p) /\ h'[p].pc = "reverse" /\ SameWork(h'[p], h[p])
  BY <1>2, GoToCopy DEF SellerTurnsDown, Steps
<1>4. /\ order' \in Orders /\ order'.flow = "CANCELLED" /\ order'.booked = order.booked
      /\ order'.reversed = order.reversed /\ order'.returned = order.returned
  BY <1>2 DEF TypeOK, Orders, SellerTurnsDown
<1> QED BY <1>3, <1>4, CancellingStep DEF SellerTurnsDown, Cancelled

LEMMA ExpireOrderStep ==
  ASSUME Inv, NEW p \in Handlers, ExpireOrder(p)
  PROVE  Inv'
<1>2. TypeOK /\ Fits(h[p], order, record, Paid) /\ h[p] \in Copies
  BY DEF Inv, CopiesFit, TypeOK
<1>3. UNCHANGED <<case, gate, pay, seen, record, credited, missed>>
  BY DEF ExpireOrder
<1>4. CASE Done(p) /\ UNCHANGED order
  <2>1. StateTypes'
    BY <1>2, <1>3, <1>4, StateTypesKept, TypeParts
  <2>2. Moved(p) /\ Fits(h'[p], order, record, Paid)
    BY <1>4, DoneFits
  <2>3. ~Helps(h[p], order, record)
    BY HelpsOwing DEF ExpireOrder, At, Owing
  <2> QED BY <1>3, <1>4, <2>1, <2>2, <2>3, QuietStep
<1>5. CASE /\ order.flow = "CREATED"
           /\ order' = [order EXCEPT !.flow = "CANCELLED"] /\ GoTo(p, "reverse")
  <2>1. Moved(p) /\ h'[p].pc = "reverse" /\ SameWork(h'[p], h[p])
    BY <1>2, <1>5, GoToCopy DEF Steps
  <2>2. /\ order' \in Orders /\ order'.flow = "CANCELLED" /\ order'.booked = order.booked
        /\ order'.reversed = order.reversed /\ order'.returned = order.returned
    BY <1>2, <1>5 DEF TypeOK, Orders
  <2> QED BY <1>3, <1>5, <2>1, <2>2, CancellingStep DEF Cancelled
<1> QED BY <1>4, <1>5 DEF ExpireOrder

LEMMA reverseOrderFinanceOnCancellationStep ==
  ASSUME Inv, NEW p \in Handlers, reverseOrderFinanceOnCancellation(p)
  PROVE  Inv'
<1>2. TypeOK /\ Fits(h[p], order, record, Paid) /\ h[p] \in Copies
  BY DEF Inv, CopiesFit, TypeOK
<1>3. Moved(p) /\ h'[p].pc = "record" /\ SameWork(h'[p], h[p])
  BY <1>2, GoToCopy DEF reverseOrderFinanceOnCancellation, Steps
<1>4. Cancelled /\ At(p, "reverse")
  BY <1>2 DEF Fits, reverseOrderFinanceOnCancellation, At, Cancelled
<1>5. UNCHANGED <<case, gate, pay, seen, record, credited>>
  BY DEF reverseOrderFinanceOnCancellation
<1>6. CASE UNCHANGED <<order, missed>>
  <2>1. StateTypes'
    BY <1>2, <1>5, <1>6, StateTypesKept, TypeParts
  <2>2. Fits(h'[p], order, record, Paid)
    BY <1>2, <1>3 DEF Fits, SameWork
  <2>3. Helps(h[p], order, record) => Helps(h'[p], order, record)
    BY <1>3, <1>4 DEF Helps, At
  <2> QED BY <1>3, <1>5, <1>6, <2>1, <2>2, <2>3, QuietStep
<1>7. CASE /\ ~order.reversed
           /\ order' = [order EXCEPT !.reversed = TRUE, !.returned = order.booked,
                                     !.paid = IF order.booked THEN "REFUNDED" ELSE @]
           /\ Miss(order.booked /\ record # "none")
  <2>1. /\ order' \in Orders /\ order'.flow = order.flow /\ order'.booked = order.booked
        /\ order'.reversed /\ order'.returned = order.booked
    BY <1>2, <1>7 DEF TypeOK, Orders
  <2>2. /\ missed' \in BOOLEAN /\ (missed => missed')
        /\ (order.booked /\ record # "none" => missed')
    BY <1>2, <1>7 DEF Miss, TypeOK
  <2>3. Paid' = Paid /\ Cancelled'
    BY <1>4, <1>5, <2>1 DEF Paid, Cancelled
  <2>4. ~order.returned
    BY <1>7 DEF Inv, Agree
  <2>5. StateTypes'
    BY <1>2, <1>5, <2>1, <2>2, TypeParts DEF StateTypes
  <2>6. Grows
    BY <1>5, <1>7, <2>1, <2>3, <2>4 DEF Grows
  <2>7. Fits(h'[p], order', record', Paid')
    BY <1>2, <1>3, <1>5, <2>3 DEF Fits, SameWork
  <2>8. Agree'
    BY <1>5, <2>1, <2>2, <2>3, <2>4 DEF Inv, Agree, BookedOnce, PaidBeforeSeller
  <2>9. Owed'
    BY <2>1 DEF Owed
  <2> QED BY <1>3, <2>5, <2>6, <2>7, <2>8, <2>9, GrowingStep
<1> QED BY <1>6, <1>7 DEF reverseOrderFinanceOnCancellation

LEMMA InsertRecordStep ==
  ASSUME Inv, NEW p \in Handlers, InsertRecord(p)
  PROVE  Inv'
<1>2. TypeOK /\ Fits(h[p], order, record, Paid) /\ h[p] \in Copies
  BY DEF Inv, CopiesFit, TypeOK
<1>3. /\ UNCHANGED <<case, gate, pay, seen, order, credited>>
      /\ record' = IF record = "none" THEN h[p].plan ELSE record
      /\ missed' = (missed \/ (record = "none" /\ h[p].plan = "open" /\ order.returned))
  BY DEF InsertRecord, Miss
<1>4. /\ Cancelled /\ h[p].plan \in {"open", "without", "returned"}
      /\ h[p].plan = "without" => order.reversed /\ ~order.returned
      /\ h[p].plan = "returned" => order.returned
  BY <1>2 DEF Fits, InsertRecord, At, Cancelled
<1>5. record' # "none" /\ (record # "none" => record' = record)
  BY <1>3, <1>4
<1>6. Paid' = Paid /\ Cancelled' = Cancelled
  BY <1>3 DEF Paid, Cancelled
<1>7. Moved(p) /\ Fits(h'[p], order', record', Paid')
      /\ (h[p].next = "CAPTURED" => Helps(h'[p], order', record'))
  <2>1. CASE h[p].next = "CAPTURED"
    <3> DEFINE copy == [h[p] EXCEPT !.pc = "add", !.plan = "none"]
    <3>1. Become(p, copy)
      BY <2>1 DEF InsertRecord
    <3>2. copy \in Copies /\ copy.pc = "add" /\ copy.next = "CAPTURED"
          /\ copy.loop = h[p].loop /\ copy.todo = h[p].todo
      BY <1>2, <2>1 DEF Copies, Steps, Records
    <3> HIDE DEF copy
    <3>3. Moved(p) /\ h'[p] = copy
      BY <1>2, <3>1, <3>2, BecomeCopy
    <3> QED BY <1>2, <1>5, <1>6, <2>1, <3>2, <3>3 DEF Fits, Helps
  <2>2. CASE h[p].next # "CAPTURED"
    BY <1>5, <2>2, ReturnFits DEF InsertRecord
  <2> QED BY <2>1, <2>2
<1>8. StateTypes'
  <2>1. record' \in Records
    BY <1>2, <1>3, <1>4 DEF TypeOK, Records
  <2>2. missed' \in BOOLEAN
    BY <1>2, <1>3 DEF TypeOK
  <2> QED BY <1>2, <1>3, <2>1, <2>2, TypeParts DEF StateTypes
<1>9. CASE record # "none"
  <2>1. record' = record /\ missed' = missed
    BY <1>2, <1>3, <1>9 DEF TypeOK
  <2>2. Helps(h[p], order, record) => Helps(h'[p], order, record)
    BY <1>3, <1>7, <1>9, <2>1 DEF Helps
  <2>3. Fits(h'[p], order, record, Paid)
    BY <1>3, <1>6, <1>7, <2>1
  <2> QED BY <1>3, <1>7, <1>8, <2>1, <2>2, <2>3, QuietStep
<1>10. CASE record = "none"
  <2>1. Grows
    BY <1>3, <1>6, <1>10 DEF Grows
  <2>2. Agree'
    BY <1>3, <1>4, <1>6, <1>10 DEF Inv, Agree, BookedOnce, PaidBeforeSeller
  <2>3. Owed'
    <3> SUFFICES ASSUME Cancelled, order.booked, ~missed', ~order.returned,
                        record' \notin {"open", "with"}
                 PROVE  \E q \in Handlers : Helps(h'[q], order', record')
      BY <1>3, <1>6 DEF Owed
    <3>1. order.reversed /\ ~missed
      BY <1>3, <1>4, <1>10
    <3>2. PICK q \in Handlers : Helps(h[q], order, record)
      BY <1>10, <3>1 DEF Inv, Owed
    <3>3. h[q].next = "CAPTURED" /\ h[q].pc \in {"late", "record", "insert", "add", "push"}
      BY <3>1, <3>2 DEF Helps
    <3>4. CASE q = p
      BY <1>7, <3>3, <3>4
    <3>5. CASE q # p
      BY <1>7, <3>3, <3>5 DEF Moved, Helps
    <3> QED BY <3>4, <3>5
  <2> QED BY <1>7, <1>8, <2>1, <2>2, <2>3, GrowingStep
<1> QED BY <1>9, <1>10

LEMMA addLateCaptureAllocationStep ==
  ASSUME Inv, NEW p \in Handlers, addLateCaptureAllocation(p)
  PROVE  Inv'
<1>2. TypeOK /\ Fits(h[p], order, record, Paid) /\ h[p] \in Copies
  BY DEF Inv, CopiesFit, TypeOK
<1>3. UNCHANGED <<case, gate, pay, seen, order, credited, missed>>
  BY DEF addLateCaptureAllocation
<1>4. Paid' = Paid /\ Cancelled' = Cancelled
  BY <1>3 DEF Paid, Cancelled
<1>5. CASE /\ At(p, "add") /\ UNCHANGED record
           /\ IF record = "without" /\ Captured /\ ~order.returned THEN GoTo(p, "push") ELSE Return(p)
  <2>1. StateTypes'
    BY <1>2, <1>3, <1>5, StateTypesKept, TypeParts
  <2>2. h[p].next = "CAPTURED" /\ record # "none"
    BY <1>2, <1>5 DEF Fits, At
  <2>3. CASE GoTo(p, "push")
    <3>1. Moved(p) /\ h'[p].pc = "push" /\ SameWork(h'[p], h[p])
      BY <1>2, <2>3, GoToCopy DEF Steps
    <3>2. Fits(h'[p], order, record, Paid) /\ Helps(h'[p], order, record)
      BY <1>2, <2>2, <3>1 DEF Fits, Helps, SameWork
    <3> QED BY <1>3, <1>5, <2>1, <3>1, <3>2, QuietStep
  <2>4. CASE Return(p) /\ ~(record = "without" /\ Captured /\ ~order.returned)
    <3>1. Moved(p) /\ Fits(h'[p], order, record, Paid)
      BY <2>4, ReturnFits
    <3>2. ~Due
      <4>1. record \in Records /\ (record = "returned" => order.returned)
        BY <1>2 DEF TypeOK, Inv, Agree
      <4> QED BY <2>2, <2>4, <4>1 DEF Due, Captured, Records
    <3> QED BY <1>3, <1>5, <2>1, <3>1, <3>2, QuietStep
  <2> QED BY <1>5, <2>3, <2>4
<1>6. CASE /\ At(p, "push") /\ Return(p)
           /\ record' = IF record = "without" THEN "with" ELSE record
  <2>1. record # "none" /\ record' # "none"
    BY <1>2, <1>6 DEF Fits, At
  <2>2. Moved(p) /\ Fits(h'[p], order', record', Paid')
    BY <1>6, <2>1, ReturnFits
  <2>3. StateTypes'
    BY <1>2, <1>3, <1>6, TypeParts DEF StateTypes, Records
  <2>4. Grows
    BY <1>3, <1>4, <2>1 DEF Grows
  <2>5. Agree'
    BY <1>3, <1>4, <1>6, <2>1 DEF Inv, Agree, BookedOnce, PaidBeforeSeller
  <2>6. Owed'
    <3>1. record \in Records /\ (record = "returned" => order.returned)
      BY <1>2 DEF TypeOK, Inv, Agree
    <3> QED BY <1>3, <1>6, <2>1, <3>1 DEF Owed, Records
  <2> QED BY <2>2, <2>3, <2>4, <2>5, <2>6, GrowingStep
<1> QED BY <1>5, <1>6 DEF addLateCaptureAllocation

LEMMA FreezePlanStep ==
  ASSUME Inv, NEW p \in Handlers, FreezePlan(p)
  PROVE  Inv'
<1>2. TypeOK /\ Fits(h[p], order, record, Paid) /\ h[p] \in Copies
  BY DEF Inv, CopiesFit, TypeOK
<1>3. /\ UNCHANGED <<case, gate, pay, seen, order, credited>>
      /\ record' = IF record = "open" THEN h[p].plan ELSE record
      /\ missed' = (missed \/ (record = "open" /\ h[p].plan = "without" /\ Captured))
  BY DEF FreezePlan, Miss
<1>4. record # "none" /\ h[p].plan \in {"with", "without"}
  BY <1>2 DEF Fits, FreezePlan, At
<1>5. record' # "none"
  BY <1>3, <1>4
<1>6. Paid' = Paid /\ Cancelled' = Cancelled
  BY <1>3 DEF Paid, Cancelled
<1>7. Moved(p) /\ Fits(h'[p], order', record', Paid')
  <2> DEFINE copy == [Idle EXCEPT !.pc = "mark"]
  <2>1. copy \in Copies
    <3>1. PICK c \in Copies : c = Idle
      BY IdleCopy
    <3>2. [c EXCEPT !.pc = "mark"] \in Copies
      BY DEF Copies, Steps
    <3> QED BY <3>1, <3>2
  <2>2. copy.pc = "mark" /\ copy.next = "PENDING" /\ copy.loop = "none" /\ copy.todo = {}
    BY DEF Idle
  <2>3. Become(p, copy)
    BY DEF FreezePlan
  <2> HIDE DEF copy
  <2>4. Moved(p) /\ h'[p] = copy
    BY <1>2, <2>1, <2>3, BecomeCopy
  <2> QED BY <1>5, <2>2, <2>4 DEF Fits
<1>8. StateTypes'
  <2>1. record' \in Records
    BY <1>2, <1>3, <1>4 DEF TypeOK, Records
  <2>2. missed' \in BOOLEAN
    BY <1>2, <1>3 DEF TypeOK
  <2> QED BY <1>2, <1>3, <2>1, <2>2, TypeParts DEF StateTypes
<1>9. Grows
  BY <1>3, <1>5, <1>6 DEF Grows
<1>10. Agree'
  BY <1>3, <1>4, <1>6 DEF Inv, Agree, BookedOnce, PaidBeforeSeller
<1>11. Owed'
  <2>1. CASE record = "open"
    BY <1>3, <1>4, <2>1 DEF Owed, Captured
  <2>2. CASE record # "open"
    <3>1. record' = record /\ missed' = missed
      BY <1>2, <1>3, <2>2 DEF TypeOK
    <3>2. ~Helps(h[p], order, record)
      BY HelpsOwing DEF FreezePlan, At, Owing
    <3> SUFFICES ASSUME Due, ~missed PROVE \E q \in Handlers : Helps(h'[q], order', record')
      BY <1>3, <1>6, <3>1 DEF Owed, Due
    <3> QED BY <1>3, <1>7, <3>1, <3>2, StillHelped
  <2> QED BY <2>1, <2>2
<1> QED BY <1>7, <1>8, <1>9, <1>10, <1>11, GrowingStep

LEMMA MarkReversedStep ==
  ASSUME Inv, NEW p \in Handlers, MarkReversed(p)
  PROVE  Inv'
<1>2. TypeOK /\ Fits(h[p], order, record, Paid) /\ h[p] \in Copies
  BY DEF Inv, CopiesFit, TypeOK
<1>3. record # "none" /\ Cancelled
  <2>1. record # "none"
    BY <1>2 DEF Fits, MarkReversed, At
  <2> QED BY <2>1 DEF Inv, Agree
<1>4. UNCHANGED <<case, gate, pay, seen, record, credited, missed>>
  BY DEF MarkReversed
<1>5. /\ order' \in Orders /\ order'.flow = order.flow /\ order'.booked = order.booked
      /\ order'.reversed /\ order'.returned = order.returned
  BY <1>2 DEF TypeOK, Orders, MarkReversed
<1>6. Paid' = Paid /\ Cancelled' = Cancelled
  BY <1>4, <1>5 DEF Paid, Cancelled
<1>7. Moved(p) /\ Fits(h'[p], order', record', Paid')
  BY DoneFits DEF MarkReversed
<1>8. StateTypes'
  BY <1>2, <1>4, <1>5, TypeParts DEF StateTypes
<1>9. Grows
  BY <1>4, <1>5, <1>6 DEF Grows
<1>10. Agree'
  BY <1>3, <1>4, <1>5, <1>6 DEF Inv, Agree, BookedOnce, PaidBeforeSeller
<1>11. Owed'
  <2>1. ~Helps(h[p], order, record)
    BY HelpsOwing DEF MarkReversed, At, Owing
  <2> SUFFICES ASSUME Due, ~missed PROVE \E q \in Handlers : Helps(h'[q], order', record')
    BY <1>4, <1>5, <1>6 DEF Owed, Due
  <2> QED BY <1>3, <1>4, <1>7, <2>1, StillHelped
<1> QED BY <1>7, <1>8, <1>9, <1>10, <1>11, GrowingStep

-----------------------------------------------------------------------------
(* Theorems                                                                *)

LEMMA InvInit == Init => Inv
<1> SUFFICES ASSUME Init PROVE Inv
  OBVIOUS
<1>1. TypeOK
  BY IdleCopy DEF Init, TypeOK, Orders, Records
<1>2. CopiesFit
  BY IdleCopy DEF Init, CopiesFit, Fits
<1>3. Agree
  BY DEF Init, Agree, BookedOnce, PaidBeforeSeller
<1>4. Owed
  BY DEF Init, Owed
<1> QED BY <1>1, <1>2, <1>3, <1>4 DEF Inv

LEMMA InvStep == Inv /\ [Next]_vars => Inv'
<1> SUFFICES ASSUME Inv, [Next]_vars PROVE Inv'
  OBVIOUS
<1>1. ASSUME NEW p \in Handlers, Work(p) PROVE Inv'
  BY <1>1, BeginPaymentStep, LookForOpenStep, CountAttemptsStep, createPaymentOrderStep,
     WebhookStep, VerifyPaymentStep, AskForCustomerStep, LoadAttemptsStep, AskToReconcileStep,
     transitionPaymentStateStep, ReadOrdersStep, handleOnlineOrderFinanceStep,
     moveOrderToSellerPendingAfterPaymentStep, PaymentFailsStep, PaymentStillOpenStep,
     executeDirectCancellationStep, SellerTurnsDownStep, StartSweepStep, ExpireOrderStep,
     reverseOrderFinanceOnCancellationStep, recordExternalCancellationStep, InsertRecordStep,
     onLatePaymentCaptureStep, addLateCaptureAllocationStep, planRefundStep,
     ReadOrderAgainStep, FreezePlanStep, MarkReversedStep, DieStep, StumbleStep DEF Work
<1>2. ASSUME NEW a \in Attempts, GatewaySettles(a) PROVE Inv'
  BY <1>2, GatewaySettlesStep
<1>3. CASE UNCHANGED vars
  BY <1>3 DEF vars, Inv, TypeOK, CopiesFit, Paid, Agree, BookedOnce, PaidBeforeSeller, Cancelled, Owed
<1> QED BY <1>1, <1>2, <1>3 DEF Next

\* Attempts, order, record and what every handler has read keep the ranges of
\* their schemas (TypeOK).
THEOREM TypeCorrect == Spec => []TypeOK
<1>1. Inv => TypeOK
  BY DEF Inv
<1> QED BY <1>1, InvInit, InvStep, PTL DEF Spec

\* However often a capture is brought in, and of however many attempts,
\* handleOnlineOrderFinance books the order and credits the platform once
\* (BookedOnce).
THEOREM BookedCorrect == Spec => []BookedOnce
<1>1. Inv => BookedOnce
  BY DEF Inv, Agree
<1> QED BY <1>1, InvInit, InvStep, PTL DEF Spec

\* moveOrderToSellerPendingAfterPayment sends no order to the seller unpaid,
\* however old the answer it acts on (PaidBeforeSeller).
THEOREM PaidCorrect == Spec => []PaidBeforeSeller
<1>1. Inv => PaidBeforeSeller
  BY DEF Inv, Agree
<1> QED BY <1>1, InvInit, InvStep, PTL DEF Spec

\* Whoever cancels, whenever the money comes in and wherever it is read, it is
\* returned by the compensation or in the refund's plan
\* (CancelledMoneyComesBack).
THEOREM MoneyComesBack == Spec => []CancelledMoneyComesBack
<1>1. Inv => CancelledMoneyComesBack
  <2> SUFFICES ASSUME Inv, Cancelled, order.booked, ~missed, \A p \in Handlers : h[p] = Idle
               PROVE  order.returned \/ record \in {"open", "with"}
    BY DEF CancelledMoneyComesBack
  <2>1. \A p \in Handlers : ~Helps(h[p], order, record)
    BY IdleCopy DEF Helps
  <2> QED BY <2>1 DEF Inv, Owed
<1> QED BY <1>1, InvInit, InvStep, PTL DEF Spec

\* reverseOrderFinanceOnCancellation and the refund's plan do not both pay an
\* order back (RefundedOnce).
THEOREM RefundCorrect == Spec => []RefundedOnce
<1>1. Inv => RefundedOnce
  BY DEF Inv, Agree, RefundedOnce
<1> QED BY <1>1, InvInit, InvStep, PTL DEF Spec

\* A cancelled order stays cancelled, whatever the side effects of a payment's
\* status make of it (NeverRevived).
THEOREM CancelledForGood == Spec => NeverRevived
<1>1. ASSUME TypeOK, [Next]_vars, Cancelled PROVE Cancelled'
  <2>1. order \in Orders /\ order.flow = "CANCELLED"
    BY <1>1 DEF TypeOK, Cancelled
  <2>2. ASSUME NEW p \in Handlers, Work(p) PROVE order' = order \/ order'.flow = "CANCELLED"
    <3>1. CASE UNCHANGED order
      BY <3>1
    <3>2. CASE handleOnlineOrderFinance(p) /\ ~UNCHANGED order
      BY <2>1, <3>2 DEF handleOnlineOrderFinance, Orders
    <3>3. CASE moveOrderToSellerPendingAfterPayment(p)
      BY <2>1, <3>3 DEF moveOrderToSellerPendingAfterPayment
    <3>4. CASE PaymentFails(p)
      BY <2>1, <3>4 DEF PaymentFails
    <3>5. CASE PaymentStillOpen(p)
      BY <2>1, <3>5 DEF PaymentStillOpen, Orders
    <3>6. CASE executeDirectCancellation(p) \/ SellerTurnsDown(p) \/ ExpireOrder(p)
      BY <2>1, <3>6 DEF executeDirectCancellation, SellerTurnsDown, ExpireOrder, Cancelled
    <3>7. CASE reverseOrderFinanceOnCancellation(p)
      BY <2>1, <3>7 DEF reverseOrderFinanceOnCancellation, Orders
    <3>8. CASE MarkReversed(p)
      BY <2>1, <3>8 DEF MarkReversed, Orders
    <3> QED BY <2>2, <3>1, <3>2, <3>3, <3>4, <3>5, <3>6, <3>7, <3>8
            DEF Work, BeginPayment, LookForOpen, CountAttempts, createPaymentOrder, Webhook,
                VerifyPayment, AskForCustomer, LoadAttempts, AskToReconcile, transitionPaymentState,
                ReadOrders, StartSweep, recordExternalCancellation, InsertRecord,
                onLatePaymentCapture, addLateCaptureAllocation, planRefund, ReadOrderAgain,
                FreezePlan, Die, Stumble
  <2>3. ASSUME NEW a \in Attempts, GatewaySettles(a) PROVE order' = order
    BY <2>3 DEF GatewaySettles
  <2>4. CASE UNCHANGED vars
    BY <1>1, <2>4 DEF vars, Cancelled
  <2> QED BY <1>1, <2>1, <2>2, <2>3, <2>4 DEF Next, Cancelled
<1>2. TypeOK /\ [Next]_vars => [Cancelled => Cancelled']_vars
  BY <1>1
<1> QED BY <1>2, TypeCorrect, PTL DEF Spec, NeverRevived
-----------------------------------------------------------------------------
(* Captures that are not lost while nothing fails                          *)

\* The process whose copy is c is about to book, or to look at a capture of a.
Booking(c) == c.next = "CAPTURED" /\ c.pc \in {"effects", "finance"}
Brings(c, a) == c.pc = "transition" /\ c.next = "CAPTURED" /\ c.a = a

SomeBooking == \E p \in Handlers : Booking(h[p])

\* A copy that saw an attempt closed saw it after it was closed for good.
SawTrue(c, s) ==
  /\ c.pc = "ask" /\ c.loop # "none" => c.saw = "PENDING"
  /\ c.pc = "transition" => c.a \in Attempts
  /\ c.pc \in {"ask", "transition"} /\ c.saw # "PENDING" =>
       c.a \in Attempts /\ s[c.a] \in {"FAILED", "CAPTURED"}

BookInv ==
  ~case.faults =>
    /\ \A a \in Attempts : pay[a] = "CAPTURED" => order.booked \/ SomeBooking
    /\ \A a \in Attempts : <<a, "CAPTURED">> \in seen =>
         \/ order.booked \/ pay[a] = "FAILED" \/ SomeBooking
         \/ \E p \in Handlers : Brings(h[p], a)
    /\ \A p \in Handlers : SawTrue(h[p], pay)

\* A booking is never undone.
LEMMA BooksKept ==
  ASSUME TypeOK, NEW p \in Handlers, Work(p)
  PROVE  order.booked => order'.booked
<1>1. order \in Orders
  BY DEF TypeOK
<1>2. CASE UNCHANGED order
  BY <1>2
<1>3. CASE handleOnlineOrderFinance(p) /\ ~UNCHANGED order
  BY <1>1, <1>3 DEF handleOnlineOrderFinance, Orders
<1>4. CASE moveOrderToSellerPendingAfterPayment(p) \/ PaymentFails(p) \/ PaymentStillOpen(p)
  BY <1>1, <1>4 DEF moveOrderToSellerPendingAfterPayment, PaymentFails, PaymentStillOpen, Orders
<1>5. CASE executeDirectCancellation(p) \/ SellerTurnsDown(p) \/ ExpireOrder(p)
  BY <1>1, <1>5 DEF executeDirectCancellation, SellerTurnsDown, ExpireOrder, Orders
<1>6. CASE reverseOrderFinanceOnCancellation(p) \/ MarkReversed(p)
  BY <1>1, <1>6 DEF reverseOrderFinanceOnCancellation, MarkReversed, Orders
<1> QED BY <1>2, <1>3, <1>4, <1>5, <1>6
        DEF Work, BeginPayment, LookForOpen, CountAttempts, createPaymentOrder, Webhook,
            VerifyPayment, AskForCustomer, LoadAttempts, AskToReconcile, transitionPaymentState,
            ReadOrders, StartSweep, recordExternalCancellation, InsertRecord,
            onLatePaymentCapture, addLateCaptureAllocation, planRefund, ReadOrderAgain,
            FreezePlan, Die, Stumble

\* What a step of p has to keep.
LEMMA BookingStep ==
  ASSUME ~case.faults, BookInv, NEW p \in Handlers, Moved(p), UNCHANGED case,
         order.booked => order'.booked,
         \A a \in Attempts : pay[a] \in {"FAILED", "CAPTURED"} => pay'[a] \in {"FAILED", "CAPTURED"},
         \A a \in Attempts : pay'[a] = "CAPTURED" => pay[a] = "CAPTURED" \/ Booking(h'[p]),
         \A a \in Attempts : pay[a] = "FAILED" => pay'[a] = "FAILED" \/ Booking(h'[p]),
         \A a \in Attempts : <<a, "CAPTURED">> \in seen' =>
            <<a, "CAPTURED">> \in seen \/ Brings(h'[p], a),
         Booking(h[p]) => order'.booked \/ Booking(h'[p]),
         \A a \in Attempts : Brings(h[p], a) =>
            Booking(h'[p]) \/ pay[a] \in {"FAILED", "CAPTURED"},
         SawTrue(h'[p], pay')
  PROVE  BookInv'
<1>1. order.booked \/ SomeBooking => order'.booked \/ SomeBooking'
  <2> SUFFICES ASSUME SomeBooking PROVE order'.booked \/ SomeBooking'
    OBVIOUS
  <2>1. PICK q \in Handlers : Booking(h[q])
    BY DEF SomeBooking
  <2>2. CASE q = p
    BY <2>1, <2>2 DEF SomeBooking
  <2>3. CASE q # p
    <3>1. h'[q] = h[q]
      BY <2>3 DEF Moved
    <3> QED BY <2>1, <3>1 DEF SomeBooking, Booking
  <2> QED BY <2>2, <2>3
<1>2. Booking(h'[p]) => SomeBooking'
  BY DEF SomeBooking
<1>3. \A a \in Attempts : pay[a] = "CAPTURED" => order'.booked \/ SomeBooking'
  BY <1>1 DEF BookInv
<1>4. \A a \in Attempts : pay'[a] = "CAPTURED" => order'.booked \/ SomeBooking'
  BY <1>2, <1>3
<1>5. ASSUME NEW a \in Attempts, <<a, "CAPTURED">> \in seen'
      PROVE  \/ order'.booked \/ pay'[a] = "FAILED" \/ SomeBooking'
             \/ \E q \in Handlers : Brings(h'[q], a)
  <2>1. CASE <<a, "CAPTURED">> \notin seen
    BY <1>5, <2>1
  <2>2. CASE order.booked \/ SomeBooking
    BY <1>1, <2>2
  <2>3. CASE pay[a] = "FAILED"
    BY <1>2, <2>3
  <2>4. CASE \E q \in Handlers : Brings(h[q], a)
    <3>1. PICK q \in Handlers : Brings(h[q], a)
      BY <2>4
    <3>2. CASE q = p
      BY <1>2, <1>3, <2>3, <3>1, <3>2
    <3>3. CASE q # p
      BY <3>1, <3>3 DEF Moved
    <3> QED BY <3>2, <3>3
  <2> QED BY <2>1, <2>2, <2>3, <2>4 DEF BookInv
<1>6. ASSUME NEW q \in Handlers PROVE SawTrue(h'[q], pay')
  <2>1. CASE q = p
    BY <2>1
  <2>2. CASE q # p
    <3>1. h'[q] = h[q] /\ SawTrue(h[q], pay)
      BY <2>2 DEF Moved, BookInv
    <3> QED BY <3>1 DEF SawTrue
  <2> QED BY <2>1, <2>2
<1>7. ~case'.faults
  OBVIOUS
<1> QED BY <1>4, <1>5, <1>6, <1>7 DEF BookInv
\* After its step p holds no answer and no copy of an attempt that was closed.
Apart(p) ==
  /\ Moved(p)
  /\ h'[p].pc \notin {"ask", "transition"} \/ (h'[p].pc = "ask" /\ h'[p].saw = "PENDING")

LEMMA ProceedsApart ==
  ASSUME TypeOK, NEW p \in Handlers, Done(p) \/ Return(p) \/ Proceeds(p)
  PROVE  Apart(p)
BY DoneCopy, ReturnCopy, IdleCopy DEF Apart, Proceeds

LEMMA GoToApart ==
  ASSUME TypeOK, NEW p \in Handlers, NEW pc \in Steps \ {"ask", "transition"}, GoTo(p, pc)
  PROVE  Apart(p)
BY GoToCopy DEF Apart

LEMMA BecomeApart ==
  ASSUME TypeOK, TypeOK', NEW p \in Handlers, NEW c, c.pc \notin {"ask", "transition"}, Become(p, c)
  PROVE  Apart(p)
BY DEF TypeOK, Become, Apart, Moved

LEMMA ApartStep ==
  ASSUME TypeOK, ~case.faults, BookInv, NEW p \in Handlers, Work(p), Apart(p),
         UNCHANGED <<case, pay, seen>>,
         h[p].pc \notin {"transition", "finance"}, ~(At(p, "effects") /\ h[p].next = "CAPTURED")
  PROVE  BookInv'
<1>1. ~Booking(h[p]) /\ \A a : ~Brings(h[p], a)
  BY DEF Booking, Brings, At
<1>2. SawTrue(h'[p], pay')
  BY DEF Apart, SawTrue
<1>3. Moved(p)
  BY DEF Apart
<1>4. order.booked => order'.booked
  BY BooksKept
<1> QED BY <1>1, <1>2, <1>3, <1>4, BookingStep

\* Steps that touch no attempt.
Aside(p) ==
  \/ BeginPayment(p) \/ LookForOpen(p) \/ CountAttempts(p) \/ LoadAttempts(p)
  \/ moveOrderToSellerPendingAfterPayment(p) \/ PaymentFails(p) \/ PaymentStillOpen(p)
  \/ executeDirectCancellation(p) \/ SellerTurnsDown(p) \/ StartSweep(p) \/ ExpireOrder(p)
  \/ reverseOrderFinanceOnCancellation(p) \/ recordExternalCancellation(p) \/ InsertRecord(p)
  \/ onLatePaymentCapture(p) \/ addLateCaptureAllocation(p)
  \/ planRefund(p) \/ ReadOrderAgain(p) \/ FreezePlan(p) \/ MarkReversed(p)

LEMMA AsideApart ==
  ASSUME TypeOK, TypeOK', NEW p \in Handlers, Aside(p)
  PROVE  Apart(p)
<1>0. h[p] \in Copies
  BY DEF TypeOK
<1>1. CASE BeginPayment(p) \/ LookForOpen(p)
  BY <1>1, GoToApart, ProceedsApart DEF BeginPayment, LookForOpen, Steps
<1>2. CASE CountAttempts(p)
  <2>1. \A n : [Idle EXCEPT !.pc = "initiate", !.a = n].pc = "initiate"
    BY DEF Idle
  <2> QED BY <1>2, <2>1, BecomeApart, ProceedsApart DEF CountAttempts
<1>3. CASE LoadAttempts(p)
  <2> DEFINE todo == {a \in Attempts : pay[a] = "PENDING"}
             outcome == IF \E a \in Attempts : pay[a] = "CAPTURED" THEN "CAPTURED" ELSE "UNPAID"
  <2>1. todo \in SUBSET Attempts /\ outcome \in {"UNPAID", "PENDING", "UNKNOWN", "CAPTURED"}
    OBVIOUS
  <2>2. Proceed(p, todo, outcome)
    BY <1>3 DEF LoadAttempts
  <2> HIDE DEF todo, outcome
  <2> QED BY <2>1, <2>2, ProceedCopy, ProceedsApart
<1>4. CASE moveOrderToSellerPendingAfterPayment(p) \/ PaymentStillOpen(p) \/ MarkReversed(p)
  BY <1>4, ProceedsApart DEF moveOrderToSellerPendingAfterPayment, PaymentStillOpen, MarkReversed
<1>5. CASE PaymentFails(p) \/ SellerTurnsDown(p) \/ ExpireOrder(p) \/ reverseOrderFinanceOnCancellation(p)
  BY <1>5, GoToApart, ProceedsApart
     DEF PaymentFails, SellerTurnsDown, ExpireOrder, reverseOrderFinanceOnCancellation, Steps
<1>6. CASE executeDirectCancellation(p)
  BY <1>6, IdleCopy DEF executeDirectCancellation, Apart, Moved, TypeOK
<1>7. CASE StartSweep(p)
  <2>1. [Idle EXCEPT !.pc = "attempts", !.loop = "sweep"].pc = "attempts"
    BY DEF Idle
  <2> QED BY <1>7, <2>1, BecomeApart DEF StartSweep
<1>8. CASE recordExternalCancellation(p)
  <2>1. \A plan : [h[p] EXCEPT !.pc = "insert", !.plan = plan].pc = "insert"
    BY <1>0 DEF Copies
  <2> QED BY <1>8, <2>1, BecomeApart, ProceedsApart DEF recordExternalCancellation
<1>9. CASE InsertRecord(p)
  <2>1. [h[p] EXCEPT !.pc = "add", !.plan = "none"].pc = "add"
    BY <1>0 DEF Copies
  <2> QED BY <1>9, <2>1, BecomeApart, ProceedsApart DEF InsertRecord
<1>10. CASE onLatePaymentCapture(p)
  <2>1. (IF record = "none" THEN "record" ELSE "add") \in Steps \ {"ask", "transition"}
    BY DEF Steps
  <2> QED BY <1>10, <2>1, GoToApart DEF onLatePaymentCapture
<1>11. CASE addLateCaptureAllocation(p)
  BY <1>11, GoToApart, ProceedsApart DEF addLateCaptureAllocation, Steps
<1>12. CASE planRefund(p) \/ ReadOrderAgain(p) \/ FreezePlan(p)
  <2>1. \A plan : [Idle EXCEPT !.pc = "freeze", !.plan = plan].pc = "freeze"
    BY DEF Idle
  <2>2. [Idle EXCEPT !.pc = "attempts", !.loop = "round"].pc = "attempts"
        /\ [Idle EXCEPT !.pc = "mark"].pc = "mark"
    BY DEF Idle
  <2> QED BY <1>12, <2>1, <2>2, BecomeApart, ProceedsApart DEF planRefund, ReadOrderAgain, FreezePlan
<1> QED BY <1>1, <1>2, <1>3, <1>4, <1>5, <1>6, <1>7, <1>8, <1>9, <1>10, <1>11, <1>12 DEF Aside

LEMMA AsideStep ==
  ASSUME TypeOK, TypeOK', ~case.faults, BookInv, NEW p \in Handlers, Aside(p)
  PROVE  BookInv'
<1>1. Work(p)
  BY DEF Aside, Work
<1>2. UNCHANGED <<case, pay, seen>>
  BY DEF Aside, BeginPayment, LookForOpen, CountAttempts, LoadAttempts,
     moveOrderToSellerPendingAfterPayment, PaymentFails, PaymentStillOpen,
     executeDirectCancellation, SellerTurnsDown, StartSweep, ExpireOrder,
     reverseOrderFinanceOnCancellation, recordExternalCancellation, InsertRecord,
     onLatePaymentCapture, addLateCaptureAllocation, planRefund, ReadOrderAgain, FreezePlan,
     MarkReversed
<1>3. h[p].pc \notin {"transition", "finance"} /\ ~(At(p, "effects") /\ h[p].next = "CAPTURED")
  BY IdleCopy DEF At, Aside, BeginPayment, LookForOpen, CountAttempts, LoadAttempts,
     moveOrderToSellerPendingAfterPayment, PaymentFails, PaymentStillOpen,
     executeDirectCancellation, SellerTurnsDown, StartSweep, ExpireOrder,
     reverseOrderFinanceOnCancellation, recordExternalCancellation, InsertRecord,
     onLatePaymentCapture, addLateCaptureAllocation, planRefund, ReadOrderAgain, FreezePlan,
     MarkReversed
<1> QED BY <1>1, <1>2, <1>3, AsideApart, ApartStep
\* The attempts' own steps.
LEMMA CreateBooks ==
  ASSUME TypeOK, ~case.faults, BookInv, NEW p \in Handlers, createPaymentOrder(p)
  PROVE  BookInv'
<1>1. Moved(p) /\ h'[p] = Idle
  BY DoneCopy DEF createPaymentOrder
<1>2. \A a \in Attempts : pay'[a] = pay[a] \/ (pay[a] = "none" /\ pay'[a] = "PENDING")
  BY DEF createPaymentOrder, TypeOK
<1>3. ~Booking(h[p]) /\ \A a : ~Brings(h[p], a)
  BY DEF createPaymentOrder, At, Booking, Brings
<1>4. SawTrue(h'[p], pay')
  BY <1>1, IdleCopy DEF SawTrue
<1> QED BY <1>1, <1>2, <1>3, <1>4, BookingStep DEF createPaymentOrder

LEMMA WebhookBooks ==
  ASSUME TypeOK, ~case.faults, BookInv, NEW p \in Handlers, Webhook(p)
  PROVE  BookInv'
<1>1. PICK a \in Attempts : \E event \in gate[a] \cup {"PENDING"} :
        /\ pay[a] # "none" /\ seen' \in {seen, seen \cup {<<a, event>>}}
        /\ Become(p, [Idle EXCEPT !.pc = "transition", !.a = a, !.saw = pay[a], !.next = event])
  BY DEF Webhook
<1>2. PICK event \in gate[a] \cup {"PENDING"} :
        /\ pay[a] # "none" /\ seen' \in {seen, seen \cup {<<a, event>>}}
        /\ Become(p, [Idle EXCEPT !.pc = "transition", !.a = a, !.saw = pay[a], !.next = event])
  BY <1>1
<1> DEFINE copy == [Idle EXCEPT !.pc = "transition", !.a = a, !.saw = pay[a], !.next = event]
<1>3. event \in Outcomes /\ pay[a] \in Outcomes /\ a \in 0..MaxAttempts
  BY <1>2, PaymentAssumption DEF TypeOK, Outcomes, Attempts
<1>4. copy \in Copies
  <2>1. PICK c \in Copies : c = Idle
    BY IdleCopy
  <2>2. [c EXCEPT !.pc = "transition", !.a = a, !.saw = pay[a], !.next = event] \in Copies
    BY <1>3 DEF Copies, Steps
  <2> QED BY <2>1, <2>2
<1>5. copy.pc = "transition" /\ copy.next = event /\ copy.a = a /\ copy.saw = pay[a]
  BY DEF Idle
<1> HIDE DEF copy
<1>6. Moved(p) /\ h'[p] = copy
  BY <1>2, <1>4, BecomeCopy DEF copy
<1>7. SawTrue(h'[p], pay')
  BY <1>3, <1>5, <1>6 DEF SawTrue, Outcomes, Webhook
<1>8. \A b \in Attempts : <<b, "CAPTURED">> \in seen' =>
        <<b, "CAPTURED">> \in seen \/ Brings(h'[p], b)
  BY <1>2, <1>5, <1>6 DEF Brings
<1>9. ~Booking(h[p]) /\ \A b : ~Brings(h[p], b)
  BY IdleCopy DEF Webhook, Booking, Brings
<1> QED BY <1>6, <1>7, <1>8, <1>9, BookingStep DEF Webhook

LEMMA VerifyBooks ==
  ASSUME TypeOK, ~case.faults, BookInv, NEW p \in Handlers, VerifyPayment(p)
  PROVE  BookInv'
<1>1. PICK a \in Attempts :
        /\ pay[a] # "none"
        /\ \/ Become(p, [[Idle EXCEPT !.a = a, !.saw = pay[a]] EXCEPT !.pc = "ask"])
           \/ Become(p, [[Idle EXCEPT !.a = a, !.saw = pay[a]]
                              EXCEPT !.pc = "transition", !.next = "CAPTURED"])
  BY DEF VerifyPayment
<1> DEFINE copy == [Idle EXCEPT !.a = a, !.saw = pay[a]]
           ask == [copy EXCEPT !.pc = "ask"]
           take == [copy EXCEPT !.pc = "transition", !.next = "CAPTURED"]
<1>2. pay[a] \in Outcomes /\ a \in 0..MaxAttempts
  BY <1>1, PaymentAssumption DEF TypeOK, Outcomes, Attempts
<1>3. ask \in Copies /\ take \in Copies
  <2>1. PICK c \in Copies : c = Idle
    BY IdleCopy
  <2>2. PICK d \in Copies : d = [c EXCEPT !.a = a, !.saw = pay[a]]
    BY <1>2 DEF Copies
  <2>3. [d EXCEPT !.pc = "ask"] \in Copies
    BY DEF Copies, Steps
  <2>4. [d EXCEPT !.pc = "transition", !.next = "CAPTURED"] \in Copies
    BY DEF Copies, Steps, Outcomes
  <2> QED BY <2>1, <2>2, <2>3, <2>4
<1>4. /\ ask.pc = "ask" /\ ask.loop = "none" /\ ask.saw = pay[a] /\ ask.a = a
      /\ take.pc = "transition" /\ take.saw = pay[a] /\ take.a = a
  BY DEF Idle
<1>5. Become(p, ask) \/ Become(p, take)
  BY <1>1
<1> HIDE DEF ask, take
<1>6. Moved(p) /\ h'[p] \in {ask, take}
  BY <1>3, <1>5, BecomeCopy
<1>7. SawTrue(h'[p], pay')
  BY <1>2, <1>4, <1>6 DEF SawTrue, Outcomes, VerifyPayment
<1>8. ~Booking(h[p]) /\ \A b : ~Brings(h[p], b)
  BY IdleCopy DEF VerifyPayment, Booking, Brings
<1> QED BY <1>6, <1>7, <1>8, BookingStep DEF VerifyPayment

LEMMA AskForCustomerBooks ==
  ASSUME TypeOK, CopiesFit, ~case.faults, BookInv, NEW p \in Handlers, AskForCustomer(p)
  PROVE  BookInv'
<1>1. PICK answer \in Answers(h[p].a) :
        Become(p, [h[p] EXCEPT !.pc = "transition", !.next = answer])
  BY DEF AskForCustomer
<1> DEFINE copy == [h[p] EXCEPT !.pc = "transition", !.next = answer]
<1>2. h[p] \in Copies /\ answer \in Outcomes
  BY AnswersType DEF TypeOK
<1>3. /\ copy \in Copies /\ copy.pc = "transition" /\ copy.a = h[p].a /\ copy.saw = h[p].saw
  BY <1>2 DEF Copies, Steps
<1> HIDE DEF copy
<1>4. Moved(p) /\ h'[p] = copy
  BY <1>1, <1>3, BecomeCopy DEF copy
<1>5. h[p].a \in Attempts /\ SawTrue(h[p], pay)
  BY DEF CopiesFit, Fits, BookInv, AskForCustomer, At
<1>6. SawTrue(h'[p], pay')
  BY <1>3, <1>4, <1>5 DEF SawTrue, AskForCustomer, At
<1>7. ~Booking(h[p]) /\ \A b : ~Brings(h[p], b)
  BY DEF AskForCustomer, At, Booking, Brings
<1> QED BY <1>4, <1>6, <1>7, BookingStep DEF AskForCustomer

LEMMA AskToReconcileBooks ==
  ASSUME TypeOK, ~case.faults, BookInv, NEW p \in Handlers, AskToReconcile(p)
  PROVE  BookInv'
<1>1. PICK a \in Latest(p) : \E answer \in Answers(a) :
       IF answer = "PENDING"
         THEN Proceed(p, h[p].todo \ {a}, IF h[p].outcome = "UNKNOWN" THEN "UNKNOWN" ELSE "PENDING")
         ELSE Become(p, [h[p] EXCEPT !.pc = "transition", !.a = a, !.next = answer, !.todo = @ \ {a}])
  BY DEF AskToReconcile
<1>2. PICK answer \in Answers(a) :
       IF answer = "PENDING"
         THEN Proceed(p, h[p].todo \ {a}, IF h[p].outcome = "UNKNOWN" THEN "UNKNOWN" ELSE "PENDING")
         ELSE Become(p, [h[p] EXCEPT !.pc = "transition", !.a = a, !.next = answer, !.todo = @ \ {a}])
  BY <1>1
<1> DEFINE copy == [h[p] EXCEPT !.pc = "transition", !.a = a, !.next = answer, !.todo = @ \ {a}]
           outcome == IF h[p].outcome = "UNKNOWN" THEN "UNKNOWN" ELSE "PENDING"
<1>3. h[p] \in Copies /\ answer \in Outcomes
  BY AnswersType DEF TypeOK
<1>4. /\ h[p].todo \in SUBSET Attempts /\ a \in Attempts /\ a \in 0..MaxAttempts
  BY <1>3, PaymentAssumption DEF Latest, Copies, Attempts
<1>5. h[p].saw = "PENDING"
  BY DEF AskToReconcile, At, BookInv, SawTrue
<1>6. copy \in Copies /\ copy.pc = "transition" /\ copy.a = a /\ copy.saw = h[p].saw
  BY <1>3, <1>4 DEF Copies, Steps
<1>7. Moved(p) /\ SawTrue(h'[p], pay')
  <2>1. CASE answer = "PENDING"
    <3>1. Proceed(p, h[p].todo \ {a}, outcome)
      BY <1>2, <2>1
    <3>2. h[p].todo \ {a} \in SUBSET Attempts /\ outcome \in {"UNPAID", "PENDING", "UNKNOWN", "CAPTURED"}
      BY <1>4
    <3>3. Apart(p)
      <4> HIDE DEF outcome
      <4> QED BY <3>1, <3>2, ProceedCopy, ProceedsApart
    <3> QED BY <3>3 DEF Apart, SawTrue
  <2>2. CASE answer # "PENDING"
    <3>1. Become(p, copy)
      BY <1>2, <2>2
    <3> HIDE DEF copy
    <3>2. Moved(p) /\ h'[p] = copy
      BY <1>6, <3>1, BecomeCopy
    <3> QED BY <1>4, <1>5, <1>6, <3>2 DEF SawTrue
  <2> QED BY <2>1, <2>2
<1>8. ~Booking(h[p]) /\ \A b : ~Brings(h[p], b)
  BY DEF AskToReconcile, At, Booking, Brings
<1> QED BY <1>7, <1>8, BookingStep DEF AskToReconcile

\* A failure that an older copy decided is only saved over a capture that is
\* being booked or is booked.
LEMMA TransitionBooks ==
  ASSUME TypeOK, ~case.faults, BookInv, NEW p \in Handlers, transitionPaymentState(p)
  PROVE  BookInv'
<1>1. h[p] \in Copies /\ h[p].next \in Outcomes
  BY DEF TypeOK, Copies
<1>2. h[p].pc = "transition" /\ h[p].a \in Attempts /\ SawTrue(h[p], pay)
  BY DEF transitionPaymentState, At, BookInv, SawTrue
<1>3. CASE h[p].saw \in {"PENDING", h[p].next}
  <2> DEFINE copy == [h[p] EXCEPT !.pc = "effects", !.a = 0, !.saw = "PENDING"]
  <2>1. Become(p, copy)
    BY <1>3 DEF transitionPaymentState
  <2>2. copy \in Copies /\ copy.pc = "effects" /\ copy.next = h[p].next
    <3>1. 0 \in 0..MaxAttempts
      BY PaymentAssumption
    <3> QED BY <1>1, <3>1 DEF Copies, Steps, Outcomes
  <2> HIDE DEF copy
  <2>3. Moved(p) /\ h'[p] = copy
    BY <2>1, <2>2, BecomeCopy
  <2>4. pay' = pay \/ (h[p].next \in {"FAILED", "CAPTURED"} /\ pay' = [pay EXCEPT ![h[p].a] = h[p].next])
    BY <1>1, <1>3 DEF transitionPaymentState, Outcomes
  <2>5. /\ h[p].next = "CAPTURED" => Booking(h'[p])
        /\ ~Booking(h[p])
        /\ SawTrue(h'[p], pay')
    BY <1>2, <2>2, <2>3 DEF Booking, SawTrue
  <2>6. \A a \in Attempts : pay'[a] = pay[a] \/ pay'[a] \in {"FAILED", "CAPTURED"}
    BY <2>4 DEF TypeOK
  <2>7. \A a \in Attempts : pay'[a] = "CAPTURED" => pay[a] = "CAPTURED" \/ Booking(h'[p])
    BY <2>4, <2>5 DEF TypeOK
  <2>8. \A a \in Attempts : pay[a] = "FAILED" => pay'[a] = "FAILED" \/ Booking(h'[p])
    BY <2>4, <2>5 DEF TypeOK
  <2>9. \A a : Brings(h[p], a) => Booking(h'[p])
    BY <2>5 DEF Brings
  <2> QED BY <2>3, <2>5, <2>6, <2>7, <2>8, <2>9, BookingStep DEF transitionPaymentState
<1>4. CASE h[p].saw \notin {"PENDING", h[p].next}
  <2>1. Done(p) /\ pay' = pay
    BY <1>4 DEF transitionPaymentState
  <2>2. Moved(p) /\ h'[p] = Idle
    BY <2>1, DoneCopy
  <2>3. pay[h[p].a] \in {"FAILED", "CAPTURED"}
    BY <1>2, <1>4 DEF SawTrue
  <2>4. SawTrue(h'[p], pay') /\ ~Booking(h[p])
    BY <1>2, <2>2, IdleCopy DEF SawTrue, Booking
  <2>5. \A a : Brings(h[p], a) => pay[a] \in {"FAILED", "CAPTURED"}
    BY <2>3 DEF Brings
  <2> QED BY <2>1, <2>2, <2>4, <2>5, BookingStep DEF transitionPaymentState
<1> QED BY <1>3, <1>4

LEMMA EffectsBooks ==
  ASSUME TypeOK, ~case.faults, BookInv, NEW p \in Handlers,
         ReadOrders(p) \/ handleOnlineOrderFinance(p)
  PROVE  BookInv'
<1>1. h[p] \in Copies /\ order \in Orders
  BY DEF TypeOK
<1>2. CASE ReadOrders(p)
  <2> DEFINE copy == [h[p] EXCEPT !.pc = "finance", !.cancelled = Cancelled]
  <2>1. copy \in Copies /\ copy.pc = "finance" /\ copy.next = h[p].next
    BY <1>1 DEF Copies, Steps, Cancelled
  <2>2. Become(p, copy)
    BY <1>2 DEF ReadOrders
  <2> HIDE DEF copy
  <2>3. Moved(p) /\ h'[p] = copy
    BY <2>1, <2>2, BecomeCopy
  <2>4. Booking(h'[p]) /\ SawTrue(h'[p], pay') /\ \A a : ~Brings(h[p], a)
    BY <1>2, <2>1, <2>3 DEF ReadOrders, At, Booking, SawTrue, Brings
  <2> QED BY <1>2, <2>3, <2>4, BookingStep DEF ReadOrders
<1>3. CASE handleOnlineOrderFinance(p)
  <2> DEFINE pc == IF h[p].cancelled THEN "late" ELSE "move"
             copy == [h[p] EXCEPT !.pc = pc, !.cancelled = FALSE]
  <2>1. pc \in {"late", "move"}
    OBVIOUS
  <2>2. Become(p, copy)
    BY <1>3 DEF handleOnlineOrderFinance
  <2> HIDE DEF pc
  <2>3. copy \in Copies /\ copy.pc = pc
    BY <1>1, <2>1 DEF Copies, Steps
  <2> HIDE DEF copy
  <2>4. Moved(p) /\ h'[p] = copy
    BY <2>2, <2>3, BecomeCopy
  <2>5. order'.booked
    BY <1>1, <1>3 DEF handleOnlineOrderFinance, Orders
  <2>6. SawTrue(h'[p], pay') /\ \A a : ~Brings(h[p], a)
    BY <1>3, <2>1, <2>3, <2>4 DEF handleOnlineOrderFinance, At, SawTrue, Brings
  <2> QED BY <1>3, <2>4, <2>5, <2>6, BookingStep DEF handleOnlineOrderFinance
<1> QED BY <1>2, <1>3

LEMMA BookInvInit == Init => BookInv
BY IdleCopy DEF Init, BookInv, SawTrue

LEMMA BookInvStep == Inv /\ Inv' /\ BookInv /\ [Next]_vars => BookInv'
<1> SUFFICES ASSUME Inv, Inv', BookInv, [Next]_vars PROVE BookInv'
  OBVIOUS
<1>1. CASE case.faults
  <2>1. case' = case
    BY DEF Next, vars, GatewaySettles, Work, BeginPayment, LookForOpen, CountAttempts,
       createPaymentOrder, Webhook, VerifyPayment, AskForCustomer, LoadAttempts, AskToReconcile,
       transitionPaymentState, ReadOrders, handleOnlineOrderFinance,
       moveOrderToSellerPendingAfterPayment, PaymentFails, PaymentStillOpen,
       executeDirectCancellation, SellerTurnsDown, StartSweep, ExpireOrder,
       reverseOrderFinanceOnCancellation, recordExternalCancellation, InsertRecord,
       onLatePaymentCapture, addLateCaptureAllocation, planRefund, ReadOrderAgain, FreezePlan,
       MarkReversed, Die, Stumble
  <2> QED BY <1>1, <2>1 DEF BookInv
<1>2. CASE ~case.faults
  <2>1. TypeOK /\ TypeOK' /\ CopiesFit
    BY DEF Inv
  <2>2. ASSUME NEW p \in Handlers, Work(p) PROVE BookInv'
    BY <1>2, <2>1, <2>2, AsideStep, CreateBooks, WebhookBooks, VerifyBooks, AskForCustomerBooks,
       AskToReconcileBooks, TransitionBooks, EffectsBooks DEF Work, Aside, Die, Stumble
  <2>3. ASSUME NEW a \in Attempts, GatewaySettles(a) PROVE BookInv'
    BY <2>3 DEF GatewaySettles, BookInv, SomeBooking
  <2>4. CASE UNCHANGED vars
    BY <2>4 DEF vars, BookInv, SomeBooking
  <2> QED BY <2>2, <2>3, <2>4 DEF Next
<1> QED BY <1>1, <1>2

\* While nothing fails, a capture whose webhook was stored as new, or that a handler
\* saved, is booked once all are done, unless the failure of its attempt was stored
\* (CaptureIsBooked).
THEOREM CaptureCorrect == Spec => []CaptureIsBooked
<1>1. BookInv => CaptureIsBooked
  BY IdleCopy DEF BookInv, CaptureIsBooked, SomeBooking, Booking, Brings
<1> QED BY <1>1, InvInit, InvStep, BookInvInit, BookInvStep, PTL DEF Spec
-----------------------------------------------------------------------------
(* PaymentCapture implements PaymentPromise                                *)

\* Money goes back only when it was booked: a plan that has the gateway's money,
\* or is about to get it, was made from an order that is booked for good.
BackInv ==
  /\ order.paid = "PAID" => order.booked
  /\ record = "with" => order.booked
  /\ \A p \in Handlers :
       \/ h[p].pc = "push"
       \/ h[p].pc = "freeze" /\ h[p].plan = "with"
       => order.booked

\* What a step may do about it: nothing, with a copy that fits.
BackKept(p) ==
  /\ order.booked => order'.booked
  /\ order'.paid = "PAID" => order'.booked
  /\ record' = "with" => order'.booked
  /\ Moved(p)
  /\ h'[p].pc = "push" \/ (h'[p].pc = "freeze" /\ h'[p].plan = "with") => order'.booked

LEMMA KeptBack ==
  ASSUME BackInv, NEW p \in Handlers, BackKept(p)
  PROVE  BackInv'
<1>1. ASSUME NEW q \in Handlers,
             h'[q].pc = "push" \/ (h'[q].pc = "freeze" /\ h'[q].plan = "with")
      PROVE  order'.booked
  BY <1>1 DEF BackInv, BackKept, Moved
<1> QED BY <1>1 DEF BackInv, BackKept

\* The way over the wallet and the way over the gateway.
LEMMA BackWays ==
  /\ Back = {} <=> ~order.returned /\ record # "with"
  /\ \A way : way \in Back <=> (way = "wallet" /\ order.returned) \/ (way = "source" /\ record = "with")
BY DEF Back

\* After its step p has no plan with the gateway's money.
Unplanned(p) == Moved(p) /\ h'[p].pc \notin {"push", "freeze"}

LEMMA ProceedsUnplanned ==
  ASSUME TypeOK, NEW p \in Handlers, Done(p) \/ Return(p) \/ Proceeds(p)
  PROVE  Unplanned(p)
BY DoneCopy, ReturnCopy, IdleCopy DEF Unplanned, Proceeds

LEMMA GoToUnplanned ==
  ASSUME TypeOK, NEW p \in Handlers, NEW pc \in Steps \ {"push", "freeze"}, GoTo(p, pc)
  PROVE  Unplanned(p)
BY GoToCopy DEF Unplanned

LEMMA BecomeUnplanned ==
  ASSUME TypeOK, TypeOK', NEW p \in Handlers, NEW c, c.pc \notin {"push", "freeze"}, Become(p, c)
  PROVE  Unplanned(p)
BY DEF TypeOK, Become, Unplanned, Moved

LEMMA ProceedUnplanned ==
  ASSUME TypeOK, TypeOK', NEW p \in Handlers, NEW todo, NEW outcome, Proceed(p, todo, outcome)
  PROVE  Unplanned(p)
<1>1. /\ [Idle EXCEPT !.pc = "ask", !.loop = h[p].loop, !.todo = todo, !.outcome = outcome].pc = "ask"
      /\ [Idle EXCEPT !.pc = "reread", !.outcome = outcome].pc = "reread"
      /\ [Idle EXCEPT !.pc = "expire"].pc = "expire"
  BY DEF Idle
<1> QED BY <1>1, BecomeUnplanned, ProceedsUnplanned DEF Proceed

\* Only a round on the refund and a late capture plan.
LEMMA PlansAside ==
  ASSUME TypeOK, TypeOK', NEW p \in Handlers, Work(p),
         ~addLateCaptureAllocation(p), ~planRefund(p), ~ReadOrderAgain(p)
  PROVE  Unplanned(p)
<1>0. h[p] \in Copies
  BY DEF TypeOK
<1>1. CASE BeginPayment(p) \/ LookForOpen(p)
  BY <1>1, GoToUnplanned, ProceedsUnplanned DEF BeginPayment, LookForOpen, Steps
<1>2. CASE CountAttempts(p)
  <2>1. \A n : [Idle EXCEPT !.pc = "initiate", !.a = n].pc = "initiate"
    BY DEF Idle
  <2> QED BY <1>2, <2>1, BecomeUnplanned, ProceedsUnplanned DEF CountAttempts
<1>3. CASE LoadAttempts(p)
  BY <1>3, ProceedUnplanned DEF LoadAttempts
<1>4. CASE \/ createPaymentOrder(p) \/ moveOrderToSellerPendingAfterPayment(p)
           \/ PaymentStillOpen(p) \/ MarkReversed(p) \/ Die(p)
  BY <1>4, ProceedsUnplanned
     DEF createPaymentOrder, moveOrderToSellerPendingAfterPayment, PaymentStillOpen, MarkReversed, Die
<1>5. CASE PaymentFails(p) \/ SellerTurnsDown(p) \/ ExpireOrder(p) \/ reverseOrderFinanceOnCancellation(p)
  BY <1>5, GoToUnplanned, ProceedsUnplanned
     DEF PaymentFails, SellerTurnsDown, ExpireOrder, reverseOrderFinanceOnCancellation, Steps
<1>6. CASE executeDirectCancellation(p)
  BY <1>6, IdleCopy DEF executeDirectCancellation, Unplanned, Moved, TypeOK
<1>7. CASE StartSweep(p)
  <2>1. [Idle EXCEPT !.pc = "attempts", !.loop = "sweep"].pc = "attempts"
    BY DEF Idle
  <2> QED BY <1>7, <2>1, BecomeUnplanned DEF StartSweep
<1>8. CASE recordExternalCancellation(p)
  <2>1. \A plan : [h[p] EXCEPT !.pc = "insert", !.plan = plan].pc = "insert"
    BY <1>0 DEF Copies
  <2> QED BY <1>8, <2>1, BecomeUnplanned, ProceedsUnplanned DEF recordExternalCancellation
<1>9. CASE InsertRecord(p)
  <2>1. [h[p] EXCEPT !.pc = "add", !.plan = "none"].pc = "add"
    BY <1>0 DEF Copies
  <2> QED BY <1>9, <2>1, BecomeUnplanned, ProceedsUnplanned DEF InsertRecord
<1>10. CASE onLatePaymentCapture(p)
  <2>1. (IF record = "none" THEN "record" ELSE "add") \in Steps \ {"push", "freeze"}
    BY DEF Steps
  <2> QED BY <1>10, <2>1, GoToUnplanned DEF onLatePaymentCapture
<1>11. CASE FreezePlan(p)
  <2>1. [Idle EXCEPT !.pc = "mark"].pc = "mark"
    BY DEF Idle
  <2> QED BY <1>11, <2>1, BecomeUnplanned DEF FreezePlan
<1>12. CASE Webhook(p)
  <2>1. \A a, event : [Idle EXCEPT !.pc = "transition", !.a = a, !.saw = pay[a],
                                   !.next = event].pc = "transition"
    BY DEF Idle
  <2> QED BY <1>12, <2>1, BecomeUnplanned DEF Webhook
<1>13. CASE VerifyPayment(p)
  <2>1. \A a : LET copy == [Idle EXCEPT !.a = a, !.saw = pay[a]]
               IN  /\ [copy EXCEPT !.pc = "ask"].pc = "ask"
                   /\ [copy EXCEPT !.pc = "transition", !.next = "CAPTURED"].pc = "transition"
    BY DEF Idle
  <2> QED BY <1>13, <2>1, BecomeUnplanned DEF VerifyPayment
<1>14. CASE AskForCustomer(p)
  <2>1. \A answer : [h[p] EXCEPT !.pc = "transition", !.next = answer].pc = "transition"
    BY <1>0 DEF Copies
  <2> QED BY <1>14, <2>1, BecomeUnplanned DEF AskForCustomer
<1>15. CASE AskToReconcile(p)
  <2>1. \A a, answer : [h[p] EXCEPT !.pc = "transition", !.a = a, !.next = answer,
                                    !.todo = @ \ {a}].pc = "transition"
    BY <1>0 DEF Copies
  <2> QED BY <1>15, <2>1, BecomeUnplanned, ProceedUnplanned DEF AskToReconcile
<1>16. CASE transitionPaymentState(p)
  <2>1. [h[p] EXCEPT !.pc = "effects", !.a = 0, !.saw = "PENDING"].pc = "effects"
    BY <1>0 DEF Copies
  <2> QED BY <1>16, <2>1, BecomeUnplanned, ProceedsUnplanned DEF transitionPaymentState
<1>17. CASE ReadOrders(p)
  <2>1. [h[p] EXCEPT !.pc = "finance", !.cancelled = Cancelled].pc = "finance"
    BY <1>0 DEF Copies
  <2> QED BY <1>17, <2>1, BecomeUnplanned DEF ReadOrders
<1>18. CASE handleOnlineOrderFinance(p)
  <2>1. [h[p] EXCEPT !.pc = IF h[p].cancelled THEN "late" ELSE "move",
                     !.cancelled = FALSE].pc \in {"late", "move"}
    BY <1>0 DEF Copies
  <2> QED BY <1>18, <2>1, BecomeUnplanned DEF handleOnlineOrderFinance
<1>19. CASE Stumble(p)
  BY <1>19, ProceedUnplanned, ProceedsUnplanned DEF Stumble
<1> QED BY <1>1, <1>2, <1>3, <1>4, <1>5, <1>6, <1>7, <1>8, <1>9, <1>10, <1>11, <1>12,
           <1>13, <1>14, <1>15, <1>16, <1>17, <1>18, <1>19 DEF Work

LEMMA FrozenCopy ==
  ASSUME TypeOK, TypeOK', NEW p \in Handlers,
         Become(p, [Idle EXCEPT !.pc = "freeze", !.plan = IF Captured THEN "with" ELSE "without"])
  PROVE  Moved(p) /\ h'[p].pc = "freeze" /\ (h'[p].plan = "with" => Captured)
<1> DEFINE copy == [Idle EXCEPT !.pc = "freeze", !.plan = IF Captured THEN "with" ELSE "without"]
<1>1. copy.pc = "freeze" /\ copy.plan = IF Captured THEN "with" ELSE "without"
  BY DEF Idle
<1> HIDE DEF copy
<1> QED BY <1>1 DEF TypeOK, Become, Moved, copy

\* A plan is made of a booked order, or without the gateway's money.
LEMMA PlansBooked ==
  ASSUME TypeOK, TypeOK', BackInv, NEW p \in Handlers, Work(p)
  PROVE  /\ Moved(p)
         /\ h'[p].pc = "push" \/ (h'[p].pc = "freeze" /\ h'[p].plan = "with") => order.booked
<1>0. Captured => order.booked
  BY DEF Captured, BackInv
<1>1. CASE addLateCaptureAllocation(p)
  <2>1. CASE At(p, "add") /\ record = "without" /\ Captured /\ GoTo(p, "push")
    BY <1>0, <2>1, GoToCopy DEF Steps
  <2>2. CASE Return(p)
    BY <2>2, ProceedsUnplanned DEF Unplanned
  <2> QED BY <1>1, <2>1, <2>2 DEF addLateCaptureAllocation
<1>2. CASE planRefund(p)
  <2>1. CASE Become(p, [Idle EXCEPT !.pc = "attempts", !.loop = "round"])
    <3>1. [Idle EXCEPT !.pc = "attempts", !.loop = "round"].pc = "attempts"
      BY DEF Idle
    <3> QED BY <2>1, <3>1, BecomeUnplanned DEF Unplanned
  <2>2. CASE Become(p, [Idle EXCEPT !.pc = "freeze", !.plan = IF Captured THEN "with" ELSE "without"])
    BY <1>0, <2>2, FrozenCopy
  <2> QED BY <1>2, <2>1, <2>2 DEF planRefund
<1>3. CASE ReadOrderAgain(p)
  <2>1. CASE Done(p)
    BY <2>1, ProceedsUnplanned DEF Unplanned
  <2>2. CASE Become(p, [Idle EXCEPT !.pc = "freeze", !.plan = IF Captured THEN "with" ELSE "without"])
    BY <1>0, <2>2, FrozenCopy
  <2> QED BY <1>3, <2>1, <2>2 DEF ReadOrderAgain
<1> QED BY <1>1, <1>2, <1>3, PlansAside DEF Unplanned

\* The steps that leave the order, its record and the books alone.
Reading(p) ==
  \/ BeginPayment(p) \/ LookForOpen(p) \/ CountAttempts(p) \/ createPaymentOrder(p)
  \/ Webhook(p) \/ VerifyPayment(p) \/ AskForCustomer(p) \/ LoadAttempts(p) \/ AskToReconcile(p)
  \/ transitionPaymentState(p) \/ ReadOrders(p) \/ StartSweep(p) \/ recordExternalCancellation(p)
  \/ onLatePaymentCapture(p) \/ planRefund(p) \/ ReadOrderAgain(p) \/ Die(p) \/ Stumble(p)

LEMMA ReadingKeeps ==
  ASSUME TypeOK, NEW p \in Handlers, Reading(p)
  PROVE  UNCHANGED <<gate, order, record, credited>> /\ (missed => missed')
BY DEF TypeOK, Reading, BeginPayment, LookForOpen, CountAttempts, createPaymentOrder, Webhook, VerifyPayment,
   AskForCustomer, LoadAttempts, AskToReconcile, transitionPaymentState, ReadOrders, StartSweep,
   recordExternalCancellation, onLatePaymentCapture, planRefund, ReadOrderAgain, Die, Stumble, Miss

\* The steps that change the order.
Writing(p) ==
  \/ handleOnlineOrderFinance(p) \/ moveOrderToSellerPendingAfterPayment(p)
  \/ PaymentFails(p) \/ PaymentStillOpen(p) \/ SellerTurnsDown(p) \/ ExpireOrder(p)
  \/ reverseOrderFinanceOnCancellation(p) \/ MarkReversed(p)

LEMMA WritingPays ==
  ASSUME TypeOK, BackInv, NEW p \in Handlers, Writing(p)
  PROVE  record' = record /\ (order'.paid = "PAID" => order'.booked)
<1>1. order \in Orders
  BY DEF TypeOK
<1>2. CASE handleOnlineOrderFinance(p)
  BY <1>1, <1>2 DEF handleOnlineOrderFinance, Orders, BackInv
<1>3. CASE moveOrderToSellerPendingAfterPayment(p) \/ PaymentFails(p) \/ PaymentStillOpen(p)
  BY <1>1, <1>3 DEF moveOrderToSellerPendingAfterPayment, PaymentFails, PaymentStillOpen, Orders, BackInv
<1>4. CASE SellerTurnsDown(p) \/ ExpireOrder(p) \/ MarkReversed(p)
  BY <1>1, <1>4 DEF SellerTurnsDown, ExpireOrder, MarkReversed, Orders, BackInv
<1>5. CASE reverseOrderFinanceOnCancellation(p)
  BY <1>1, <1>5 DEF reverseOrderFinanceOnCancellation, Orders, BackInv
<1> QED BY <1>2, <1>3, <1>4, <1>5 DEF Writing

LEMMA BackInvInit == Init => BackInv
BY IdleCopy DEF Init, BackInv

LEMMA BackInvStep == Inv /\ Inv' /\ BackInv /\ [Next]_vars => BackInv'
<1> SUFFICES ASSUME Inv, Inv', BackInv, [Next]_vars PROVE BackInv'
  OBVIOUS
<1>0. TypeOK /\ TypeOK' /\ order \in Orders
  BY DEF Inv, TypeOK
<1>1. ASSUME NEW p \in Handlers, Work(p) PROVE BackInv'
  <2>1. order.booked => order'.booked
    BY <1>0, <1>1, BooksKept
  <2>2. /\ Moved(p)
        /\ h'[p].pc = "push" \/ (h'[p].pc = "freeze" /\ h'[p].plan = "with") => order'.booked
    BY <1>0, <1>1, <2>1, PlansBooked
  <2>3. (order'.paid = "PAID" => order'.booked) /\ (record' = "with" => order'.booked)
    <3>1. CASE Reading(p)
      BY <1>0, <2>1, <3>1, ReadingKeeps DEF BackInv
    <3>2. CASE Writing(p)
      BY <1>0, <2>1, <3>2, WritingPays DEF BackInv
    <3>3. CASE executeDirectCancellation(p)
      BY <1>0, <3>3 DEF executeDirectCancellation, Orders, BackInv
    <3>4. CASE InsertRecord(p)
      <4>1. h[p].plan # "with"
        BY <3>4 DEF Inv, CopiesFit, Fits, InsertRecord, At
      <4> QED BY <3>4, <4>1 DEF InsertRecord, BackInv
    <3>5. CASE addLateCaptureAllocation(p)
      BY <3>5 DEF addLateCaptureAllocation, At, BackInv
    <3>6. CASE FreezePlan(p)
      BY <3>6 DEF FreezePlan, At, BackInv
    <3> QED BY <1>1, <3>1, <3>2, <3>3, <3>4, <3>5, <3>6 DEF Work, Reading, Writing
  <2> QED BY <2>1, <2>2, <2>3, KeptBack DEF BackKept
<1>2. ASSUME NEW a \in Attempts, GatewaySettles(a) PROVE BackInv'
  BY <1>2 DEF GatewaySettles, BackInv
<1>3. CASE UNCHANGED vars
  BY <1>3 DEF vars, BackInv
<1> QED BY <1>1, <1>2, <1>3 DEF Next

\* What the promise sees stays as it is.
Kept == UNCHANGED <<Paid, credited, order.flow, Back>>

LEMMA KeptUnseen == Kept => Promise!Unseen
BY DEF Kept, Promise!Unseen, Paid

LEMMA Booked ==
  ASSUME Inv
  PROVE  credited = (IF order.booked THEN 1 ELSE 0) /\ order \in Orders /\ TypeOK
BY DEF Inv, Agree, BookedOnce, TypeOK

LEMMA FinancePromise ==
  ASSUME Inv, NEW p \in Handlers, handleOnlineOrderFinance(p)
  PROVE  Promise!Book \/ Kept
<1>1. Paid /\ Paid' = Paid
  BY DEF Inv, CopiesFit, Fits, handleOnlineOrderFinance, At, Paid
<1>2. CASE order.booked
  BY <1>1, <1>2 DEF handleOnlineOrderFinance, Kept, Back
<1>3. CASE ~order.booked
  <2>1. order'.flow = order.flow /\ order'.returned = order.returned /\ record' = record
    BY <1>3, Booked DEF handleOnlineOrderFinance, Orders
  <2>2. credited = 0 /\ credited' = 1
    BY <1>3, Booked DEF handleOnlineOrderFinance
  <2> QED BY <1>1, <2>1, <2>2 DEF Promise!Book, Paid, Back
<1> QED BY <1>2, <1>3

LEMMA MovePromise ==
  ASSUME Inv, NEW p \in Handlers, moveOrderToSellerPendingAfterPayment(p)
  PROVE  Promise!HandToSeller \/ Kept
<1>1. credited = 1 /\ Paid' = Paid
  BY Booked DEF Inv, CopiesFit, Fits, moveOrderToSellerPendingAfterPayment, At, Paid
<1>2. CASE order.flow = "CREATED"
  <2>1. order'.flow = "SELLER_PENDING" /\ order'.returned = order.returned /\ record' = record
    BY <1>2, Booked DEF moveOrderToSellerPendingAfterPayment, Orders
  <2> QED BY <1>1, <1>2, <2>1 DEF moveOrderToSellerPendingAfterPayment, Promise!HandToSeller, Paid, Back
<1>3. CASE order.flow # "CREATED"
  BY <1>1, <1>3 DEF moveOrderToSellerPendingAfterPayment, Kept, Back
<1> QED BY <1>2, <1>3

LEMMA CancelPromise ==
  ASSUME Inv, NEW p \in Handlers,
         \/ PaymentFails(p) \/ executeDirectCancellation(p) \/ SellerTurnsDown(p) \/ ExpireOrder(p)
  PROVE  Promise!Cancel \/ Kept
<1>1. order \in Orders
  BY Booked
<1>2. Paid' = Paid /\ credited' = credited
  BY DEF PaymentFails, executeDirectCancellation, SellerTurnsDown, ExpireOrder, Paid
<1>3. UNCHANGED <<order, record>> \/
      /\ order.flow # "CANCELLED" /\ order'.flow = "CANCELLED" /\ order'.returned = order.returned
      /\ record' = record \/ (record' = "open" /\ record # "with")
  <2>1. CASE PaymentFails(p)
    BY <1>1, <2>1 DEF PaymentFails, Orders
  <2>2. CASE executeDirectCancellation(p)
    <3>1. record # "with"
      BY <2>2 DEF Inv, Agree, executeDirectCancellation
    <3> QED BY <1>1, <2>2, <3>1 DEF executeDirectCancellation, Cancelled, Orders
  <2>3. CASE SellerTurnsDown(p) \/ ExpireOrder(p)
    BY <1>1, <2>3 DEF SellerTurnsDown, ExpireOrder, Orders
  <2> QED BY <2>1, <2>2, <2>3
<1>4. CASE UNCHANGED <<order, record>>
  BY <1>2, <1>4 DEF Kept, Back
<1>5. CASE ~UNCHANGED <<order, record>>
  BY <1>2, <1>3, <1>5 DEF Promise!Cancel, Back, Paid
<1> QED BY <1>4, <1>5

LEMMA ReversePromise ==
  ASSUME Inv, NEW p \in Handlers, reverseOrderFinanceOnCancellation(p)
  PROVE  Promise!PayBack("wallet") \/ Kept
<1>1. Cancelled /\ Paid' = Paid /\ credited' = credited /\ record' = record
  BY DEF Inv, CopiesFit, Fits, reverseOrderFinanceOnCancellation, At, Cancelled, Paid
<1>2. CASE UNCHANGED order
  BY <1>1, <1>2 DEF Kept, Back
<1>3. CASE ~UNCHANGED order
  <2>1. ~order.reversed /\ ~order.returned
    BY <1>3 DEF reverseOrderFinanceOnCancellation, Inv, Agree
  <2>2. order'.flow = order.flow /\ order'.returned = order.booked
    BY <1>3, Booked DEF reverseOrderFinanceOnCancellation, Orders
  <2>3. CASE ~order.booked
    BY <1>1, <2>1, <2>2, <2>3 DEF Kept, Back
  <2>4. CASE order.booked
    <3>1. credited = 1
      BY <2>4, Booked
    <3>2. record # "none" => missed'
      BY <1>3, <2>4 DEF reverseOrderFinanceOnCancellation, Miss
    <3>3. "wallet" \notin Back /\ (Back = {} \/ missed')
      BY <2>1, <3>2, BackWays
    <3>4. Back' = Back \cup {"wallet"}
      BY <1>1, <2>2, <2>4 DEF Back
    <3> QED BY <1>1, <2>2, <3>1, <3>3, <3>4 DEF Promise!PayBack, Cancelled, Paid
  <2> QED BY <2>3, <2>4
<1> QED BY <1>2, <1>3

\* The plan gets the gateway's money, first or late.
LEMMA PlanPromise ==
  ASSUME Inv, Inv', BackInv, NEW p \in Handlers,
         addLateCaptureAllocation(p) \/ FreezePlan(p) \/ InsertRecord(p)
  PROVE  Promise!PayBack("source") \/ Kept
<1>1. Paid' = Paid /\ credited' = credited /\ order' = order
  BY DEF addLateCaptureAllocation, FreezePlan, InsertRecord, Paid
<1>2. CASE (record = "with") = (record' = "with")
  BY <1>1, <1>2 DEF Kept, Back
<1>3. CASE (record = "with") # (record' = "with")
  <2>1. record' = "with" /\ record # "with" /\ record # "none" /\ order.booked
    <3>1. CASE addLateCaptureAllocation(p)
      BY <1>3, <3>1 DEF addLateCaptureAllocation, At, BackInv
    <3>2. CASE FreezePlan(p)
      BY <1>3, <3>2 DEF FreezePlan, At, BackInv
    <3>3. CASE InsertRecord(p)
      BY <1>3, <3>3 DEF InsertRecord, Inv, CopiesFit, Fits, At
    <3> QED BY <3>1, <3>2, <3>3
  <2>2. Cancelled /\ credited = 1
    BY <2>1, Booked DEF Inv, Agree
  <2>3. order.returned => missed'
    BY <1>1, <2>1 DEF Inv, Agree
  <2>4. "source" \notin Back /\ (Back = {} \/ missed')
    BY <2>1, <2>3, BackWays
  <2>5. Back' = Back \cup {"source"}
    BY <1>1, <2>1 DEF Back
  <2> QED BY <1>1, <2>2, <2>4, <2>5 DEF Promise!PayBack, Cancelled, Paid
<1> QED BY <1>2, <1>3

LEMMA GatewayPromise ==
  ASSUME TypeOK, NEW a \in Attempts, GatewaySettles(a)
  PROVE  Promise!Capture \/ Kept
<1>1. credited' = credited /\ order' = order /\ Back' = Back
  BY DEF GatewaySettles, Back
<1>2. Paid => Paid'
  BY DEF TypeOK, GatewaySettles, Paid
<1>3. CASE Paid' = Paid
  BY <1>1, <1>3 DEF Kept
<1>4. CASE Paid' # Paid
  BY <1>1, <1>2, <1>4 DEF Promise!Capture, Paid
<1> QED BY <1>3, <1>4

\* A step that was missed is never seen again.
LEMMA StaysMissed ==
  ASSUME TypeOK, [Next]_vars
  PROVE  missed => missed'
<1>1. ASSUME NEW p \in Handlers, Work(p) PROVE missed => missed'
  <2>1. CASE Reading(p)
    BY <2>1, ReadingKeeps
  <2>2. CASE UNCHANGED missed
    BY <2>2
  <2>3. CASE \/ handleOnlineOrderFinance(p) \/ InsertRecord(p) \/ FreezePlan(p)
             \/ reverseOrderFinanceOnCancellation(p) /\ missed' # missed
    BY <2>3 DEF handleOnlineOrderFinance, InsertRecord, FreezePlan,
                reverseOrderFinanceOnCancellation, Miss
  <2> QED BY <1>1, <2>1, <2>2, <2>3
          DEF Work, Reading, moveOrderToSellerPendingAfterPayment, PaymentFails, PaymentStillOpen,
              executeDirectCancellation, SellerTurnsDown, ExpireOrder, addLateCaptureAllocation,
              MarkReversed
<1>2. ASSUME NEW a \in Attempts, GatewaySettles(a) PROVE missed => missed'
  BY <1>2 DEF GatewaySettles
<1> QED BY <1>1, <1>2 DEF Next, vars

LEMMA PromiseInitially == Init => Promise!Init
BY DEF Init, Promise!Init, Back

LEMMA PromiseStep == Inv /\ Inv' /\ BackInv /\ [Next]_vars => [Promise!Next]_(Promise!promiseVars)
<1> SUFFICES ASSUME Inv, Inv', BackInv, [Next]_vars PROVE Promise!Next
  OBVIOUS
<1>0. TypeOK /\ (missed => missed')
  BY StaysMissed DEF Inv
<1>1. ASSUME NEW p \in Handlers, Work(p) PROVE Promise!Next
  <2>1. CASE Reading(p)
    <3>1. Kept
      BY <1>0, <2>1, ReadingKeeps DEF Kept, Paid, Back
    <3> QED BY <1>0, <3>1, KeptUnseen DEF Promise!Next
  <2>2. CASE handleOnlineOrderFinance(p)
    BY <1>0, <2>2, FinancePromise, KeptUnseen DEF Promise!Next
  <2>3. CASE moveOrderToSellerPendingAfterPayment(p)
    BY <1>0, <2>3, MovePromise, KeptUnseen DEF Promise!Next
  <2>4. CASE PaymentFails(p) \/ executeDirectCancellation(p) \/ SellerTurnsDown(p) \/ ExpireOrder(p)
    BY <1>0, <2>4, CancelPromise, KeptUnseen DEF Promise!Next
  <2>5. CASE PaymentStillOpen(p) \/ MarkReversed(p)
    <3>1. order'.flow = order.flow /\ order'.returned = order.returned
      BY <2>5, Booked DEF PaymentStillOpen, MarkReversed, Orders
    <3>2. Kept
      BY <2>5, <3>1 DEF PaymentStillOpen, MarkReversed, Kept, Paid, Back
    <3> QED BY <1>0, <3>2, KeptUnseen DEF Promise!Next
  <2>6. CASE reverseOrderFinanceOnCancellation(p)
    <3>1. "wallet" \in Promise!Ways
      BY DEF Promise!Ways
    <3> QED BY <1>0, <2>6, <3>1, ReversePromise, KeptUnseen DEF Promise!Next
  <2>7. CASE addLateCaptureAllocation(p) \/ FreezePlan(p) \/ InsertRecord(p)
    <3>1. "source" \in Promise!Ways
      BY DEF Promise!Ways
    <3> QED BY <1>0, <2>7, <3>1, PlanPromise, KeptUnseen DEF Promise!Next
  <2> QED BY <1>1, <2>1, <2>2, <2>3, <2>4, <2>5, <2>6, <2>7 DEF Work, Reading
<1>2. ASSUME NEW a \in Attempts, GatewaySettles(a) PROVE Promise!Next
  BY <1>0, <1>2, GatewayPromise, KeptUnseen DEF Promise!Next
<1>3. CASE UNCHANGED vars
  <2>1. Kept
    BY <1>3 DEF vars, Kept, Paid, Back
  <2> QED BY <1>0, <2>1, KeptUnseen DEF Promise!Next
<1> QED BY <1>1, <1>2, <1>3 DEF Next

\* The handling of an online order's money implements the promise: each step of
\* a webhook, a verification, a sweep, a cancellation or a round on the refund is
\* one of the promised moves or is not seen (KeepsPromise).
THEOREM PromiseKept == Spec => KeepsPromise
<1>1. Inv /\ Inv' /\ BackInv /\ [Next]_vars => [Promise!Next]_(Promise!promiseVars)
  BY PromiseStep
<1> QED BY <1>1, InvInit, InvStep, BackInvInit, BackInvStep, PromiseInitially, PTL
        DEF Spec, KeepsPromise, Promise!Spec
=============================================================================
