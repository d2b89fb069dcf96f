-------------------------- MODULE MCOrderLifecycle --------------------------
(* Two riders racing for the order, two runs of the search timeout handler,   *)
(* three search attempts, two units of stock, the default cancellation policy   *)
(* and one crash.                                                             *)
EXTENDS OrderLifecycle, TLC

DefaultStages == PrePickupStages

Symmetry == Permutations(Riders) \cup Permutations(Workers)
=============================================================================
