------------------------ MODULE MCResearchActivation ------------------------
(* Instances of ResearchActivation for TLC.                                *)
EXTENDS ResearchActivation

CONSTANTS x, y

Win(row) == [counts |-> TRUE, outcome |-> "WIN", row |-> row, tries |-> 0]

Unproven == <<Win("PROCESSED"), Win("PENDING")>>
NoIssues == [a \in Artifacts |-> 0]

\* Nothing is registered yet, the lane is empty and activations are off, the default: the proofs.
Fresh ==
  [reg |-> [a \in Artifacts |-> [status |-> IF a = x THEN "none" ELSE "INCOMPLETE", at |-> 0]],
   preds |-> [a \in Artifacts |-> << >>],
   live |-> NoModel, saved |-> NoModel, log |-> << >>, auto |-> FALSE,
   left |-> [issues |-> [NoIssues EXCEPT ![x] = 3], models |-> 0, loads |-> 0, faults |-> 1]]

\* The last outcome of both samples has just come in: the lane.
AboutToBeProven(switch) ==
  [reg |-> [a \in Artifacts |-> [status |-> "COLLECTING", at |-> 0]],
   preds |-> [a \in Artifacts |-> Unproven],
   live |-> NoModel, saved |-> NoModel, log |-> << >>, auto |-> switch,
   left |-> [issues |-> NoIssues, models |-> 2, loads |-> 0, faults |-> 1]]

\* One artifact has just been activated, the other may follow: the caches.
Activated ==
  [reg |-> [a \in Artifacts |-> [status |-> IF a = x THEN "PROVEN" ELSE "COLLECTING", at |-> 0]],
   preds |-> [a \in Artifacts |-> IF a = x THEN <<Win("PROCESSED"), Win("PROCESSED")>> ELSE Unproven],
   live |-> [kind |-> "activated", by |-> x, at |-> 0],
   saved |-> [kind |-> "proven", by |-> None, at |-> 0],
   log |-> <<[event |-> "ACTIVATED", by |-> x, at |-> 0]>>, auto |-> TRUE,
   left |-> [issues |-> NoIssues, models |-> 1, loads |-> 2, faults |-> 0]]

MCStarts == {Fresh, AboutToBeProven(TRUE), AboutToBeProven(FALSE), Activated}
=============================================================================
