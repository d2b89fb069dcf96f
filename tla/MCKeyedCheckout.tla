-------------------------- MODULE MCKeyedCheckout ---------------------------
(* Three requests with the key, two different bodies, one transaction per   *)
(* request and one retry of an orderId collision; requests and bodies are   *)
(* interchangeable.                                                         *)
EXTENDS KeyedCheckout, TLC

KeySymmetry == Permutations(Requests) \cup Permutations(Payloads)
=============================================================================
