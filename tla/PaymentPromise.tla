--------------------------- MODULE PaymentPromise ---------------------------
(***************************************************************************)
(* What the shop promises about the money of an online order, whoever      *)
(* brings the gateway's answers and whoever cancels: the shop books only   *)
(* what the gateway captured, and once; the seller gets the order only     *)
(* when it is booked; a cancellation is final; and money goes back only    *)
(* for a cancelled order it was booked for, on one way, unless two who     *)
(* cancel crossed each other.                                              *)
(***************************************************************************)
EXTENDS Naturals

VARIABLES
  captured,  \* the gateway has the customer's money
  booked,    \* times the shop booked it
  flow,      \* where the order stands
  back,      \* the ways on which the money goes back to the customer
  crossed    \* a process did not see what another did

promiseVars == <<captured, booked, flow, back, crossed>>

Ways == {"wallet", "source"}

Init ==
  /\ captured = FALSE /\ booked = 0
  /\ flow = "CREATED" /\ back = {}
  /\ crossed = FALSE

Capture ==
  /\ ~captured /\ captured' = TRUE
  /\ UNCHANGED <<booked, flow, back>>

\* Money that comes after a cancellation is booked as well.
Book ==
  /\ captured /\ booked = 0 /\ booked' = 1
  /\ UNCHANGED <<captured, flow, back>>

HandToSeller ==
  /\ flow = "CREATED" /\ booked = 1 /\ flow' = "SELLER_PENDING"
  /\ UNCHANGED <<captured, booked, back>>

Cancel ==
  /\ flow # "CANCELLED" /\ flow' = "CANCELLED"
  /\ UNCHANGED <<captured, booked, back>>

PayBack(way) ==
  /\ flow = "CANCELLED" /\ booked = 1
  /\ way \notin back /\ (back = {} \/ crossed')
  /\ back' = back \cup {way}
  /\ UNCHANGED <<captured, booked, flow>>

\* Only the processes' work goes on.
Unseen == UNCHANGED <<captured, booked, flow, back>>

Next ==
  /\ crossed => crossed'
  /\ \/ Capture \/ Book \/ HandToSeller \/ Cancel
     \/ \E way \in Ways : PayBack(way)
     \/ Unseen

Spec == Init /\ [][Next]_promiseVars
=============================================================================
