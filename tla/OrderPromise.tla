---------------------------- MODULE OrderPromise ----------------------------
(***************************************************************************)
(* What the backend promises about one order, whatever interleaving of     *)
(* sellers, riders, customers, admins, timeouts and crashes it went        *)
(* through: it moves forward only; a parcel that leaves the store is       *)
(* carried by the one rider who took the order; it ends delivered or       *)
(* cancelled and never both, though an administrator may declare it        *)
(* delivered with no rider at all; and the units it took come back at most *)
(* once - never while the parcel is on the road.                           *)
(***************************************************************************)
EXTENDS Naturals

CONSTANTS Riders, NoRider, Qty

VARIABLES phase, courier, units

vars == <<phase, courier, units>>

Phases == {"placed", "accepted", "assigned", "carried", "delivered",
           "cancelled", "recalled", "inspected"}

Init == phase = "placed" /\ courier = NoRider /\ units = 0

Move(from, to) == phase \in from /\ phase' = to

Accept == Move({"placed"}, "accepted") /\ UNCHANGED <<courier, units>>

Assign(r) == Move({"accepted"}, "assigned") /\ courier' = r /\ UNCHANGED units

Collect == Move({"assigned"}, "carried") /\ UNCHANGED <<courier, units>>

Deliver == Move({"carried"}, "delivered") /\ UNCHANGED <<courier, units>>

\* An administrator may declare any order delivered, and name who collected its cash.
Declare == Move({"placed", "accepted", "assigned"}, "delivered") /\ UNCHANGED <<courier, units>>

Attribute(r) ==
  /\ phase = "delivered" /\ courier = NoRider
  /\ courier' = r
  /\ UNCHANGED <<phase, units>>

\* Before pickup; the units may come back with the cancellation or later.
Cancel ==
  /\ Move({"placed", "accepted", "assigned"}, "cancelled")
  /\ units' \in {0, Qty}
  /\ UNCHANGED courier

GiveBack ==
  /\ phase = "cancelled"
  /\ units' \in (units + 1) .. Qty
  /\ UNCHANGED <<phase, courier>>

\* After pickup the parcel is called back; only its inspection restocks.
Recall == Move({"carried"}, "recalled") /\ UNCHANGED <<courier, units>>

Inspect ==
  /\ Move({"recalled"}, "inspected")
  /\ units' \in 0 .. Qty
  /\ UNCHANGED courier

Next ==
  \/ Accept \/ (\E r \in Riders : Assign(r) \/ Attribute(r))
  \/ Collect \/ Deliver \/ Declare
  \/ Cancel \/ GiveBack \/ Recall \/ Inspect

Spec == Init /\ [][Next]_vars
=============================================================================
