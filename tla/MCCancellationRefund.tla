------------------------ MODULE MCCancellationRefund ------------------------
(* Two processes on one record and two refunds at the gateway.  The money was  *)
(* paid from the wallet, by card, or not at all when the order was cancelled   *)
(* and by card later; an administrator steps in once where the wallet paid.    *)
EXTENDS CancellationRefund, TLC

MCCases ==
  {[owed |-> {"source"}, late |-> "over", visits |-> 0],
   [owed |-> {"wallet"}, late |-> "over", visits |-> 1],
   [owed |-> {}, late |-> "none", visits |-> 0]}

Symmetry == Permutations(Workers)
=============================================================================
