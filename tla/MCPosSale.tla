----------------------------- MODULE MCPosSale ------------------------------
(* Three requests with the key, two different bodies, two transactions per  *)
(* request, and every mode of Redis; requests and bodies are                *)
(* interchangeable.                                                         *)
EXTENDS PosSale, TLC

KeySymmetry == Permutations(Requests) \cup Permutations(Payloads)
=============================================================================
