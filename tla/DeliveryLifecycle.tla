-------------------------- MODULE DeliveryLifecycle --------------------------
(***************************************************************************)
(* What the delivery log of a webhook promises: every recorded result      *)
(* counts one more attempt, a delivery is open until one succeeds or       *)
(* MaxAttempts have been made, and a decided delivery is attempted again   *)
(* at most MaxStalls times.  A delivery that two workers had at once is    *)
(* torn: of it only the number of attempts stays bounded.                  *)
(***************************************************************************)
EXTENDS Naturals

CONSTANTS Deliveries, MaxAttempts, MaxStalls

VARIABLES
  status,    \* ABSENT before there is a row, REMOVED when it is gone
  attempts,  \* the attempts recorded
  again,     \* how often a decided delivery has been attempted once more
  torn       \* the deliveries two workers have had at once

vars == <<status, attempts, again, torn>>

Decided == {"DELIVERED", "EXHAUSTED"}
Live == {"PENDING", "FAILED"} \cup Decided

Result(success, n) ==
  IF success THEN "DELIVERED" ELSE IF n < MaxAttempts THEN "FAILED" ELSE "EXHAUSTED"

Init ==
  /\ status = [d \in Deliveries |-> "ABSENT"]
  /\ attempts = [d \in Deliveries |-> 0]
  /\ again = [d \in Deliveries |-> 0]
  /\ torn = {}

Create(d) ==
  /\ status[d] = "ABSENT"
  /\ status' = [status EXCEPT ![d] = "PENDING"]
  /\ UNCHANGED <<attempts, again, torn>>

Remove(d) ==
  /\ status[d] \in Live
  /\ status' = [status EXCEPT ![d] = "REMOVED"]
  /\ UNCHANGED <<attempts, again, torn>>

Attempt(d, success) ==
  /\ d \notin torn
  /\ status[d] \in Live
  /\ attempts' = [attempts EXCEPT ![d] = @ + 1]
  /\ status' = [status EXCEPT ![d] = Result(success, attempts[d] + 1)]
  /\ \/ status[d] \notin Decided /\ UNCHANGED again
     \/ again[d] < MaxStalls /\ again' = [again EXCEPT ![d] = @ + 1]
  /\ UNCHANGED torn

Tear(d) ==
  /\ torn' = torn \cup {d}
  /\ UNCHANGED <<status, attempts, again>>

AttemptTorn(d, success, n) ==
  /\ d \in torn
  /\ status[d] \in Live
  /\ attempts' = [attempts EXCEPT ![d] = n]
  /\ status' = [status EXCEPT ![d] = Result(success, n)]
  /\ UNCHANGED <<again, torn>>

Next ==
  \E d \in Deliveries :
    \/ Create(d)
    \/ Remove(d)
    \/ Tear(d)
    \/ \E success \in BOOLEAN :
         \/ Attempt(d, success)
         \/ \E n \in 1 .. MaxAttempts + MaxStalls : AttemptTorn(d, success, n)

Spec == Init /\ [][Next]_vars
=============================================================================
