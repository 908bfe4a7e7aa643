----------------------------- MODULE AtMostOnce -----------------------------
(***************************************************************************)
(* What the capture shell's event spool promises (adapter decision AD06):  *)
(* a batch handed to it is delivered or dropped, never delivered twice,    *)
(* and a dropped batch stays dropped.                                      *)
(***************************************************************************)
CONSTANT Batches

VARIABLE status   \* per batch: "new", "pending", "delivered" or "dropped"

Init == status = [b \in Batches |-> "new"]

Submit(b) ==
  /\ status[b] = "new"
  /\ status' = [status EXCEPT ![b] = "pending"]

Deliver(b) ==
  /\ status[b] = "pending"
  /\ status' = [status EXCEPT ![b] = "delivered"]

\* A crash, a reap or an abandoned delivery drops several batches at once.
Drop(S) ==
  /\ \A b \in S : status[b] \in {"new", "pending"}
  /\ status' = [b \in Batches |-> IF b \in S THEN "dropped" ELSE status[b]]

Next ==
  \/ \E b \in Batches : Submit(b) \/ Deliver(b)
  \/ \E S \in SUBSET Batches : Drop(S)

Spec == Init /\ [][Next]_status
=============================================================================
