-------------------------- MODULE MCPaymentCapture --------------------------
(* An instance of PaymentCapture for TLC. *)
EXTENDS PaymentCapture, TLC

CONSTANTS p1, p2

SymmetryHandlers == Permutations(Handlers)

\* Either gateway with one attempt, crashes and failed calls; two attempts without
\* failures at PhonePe, where an attempt that failed is replaced by another.
AllCases == {[provider |-> "RAZORPAY", attempts |-> 1, faults |-> TRUE],
             [provider |-> "RAZORPAY", attempts |-> 1, faults |-> FALSE],
             [provider |-> "PHONEPE", attempts |-> 1, faults |-> TRUE],
             [provider |-> "PHONEPE", attempts |-> 2, faults |-> FALSE]}
=============================================================================
