----------------------------- MODULE AtMostOnce -----------------------------
(***************************************************************************)
(* What an idempotency key promises its client: among all requests that    *)
(* carry the key at most one places something, every request that is told  *)
(* of a placement is told of that one, and an answer is final.             *)
(***************************************************************************)
CONSTANTS Requests, Nothing

VARIABLES placed,   \* the requests that placed something
          told      \* what each request was told was placed

promiseVars == <<placed, told>>

Init ==
  /\ placed = {}
  /\ told = [r \in Requests |-> Nothing]

\* The first request to commit places; no other does after it.
Place(r) ==
  /\ placed = {}
  /\ placed' = {r}
  /\ UNCHANGED told

\* A request is answered with what was placed.
Tell(r) ==
  /\ told[r] = Nothing
  /\ \E p \in placed : told' = [told EXCEPT ![r] = p]
  /\ UNCHANGED placed

Next == \E r \in Requests : Place(r) \/ Tell(r)

Spec == Init /\ [][Next]_promiseVars
=============================================================================
