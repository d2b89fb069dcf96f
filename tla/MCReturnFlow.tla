---------------------------- MODULE MCReturnFlow ----------------------------
(* One rider, two broadcasts, two handlers in flight.                        *)
EXTENDS ReturnFlow, TLC

Symmetry == Permutations(Handlers) \cup Permutations(Items)
=============================================================================
