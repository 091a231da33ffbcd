------------------------- MODULE CompletionRegister -------------------------
(***************************************************************************)
(* What the completion of a course promises to each student: everything    *)
(* that stood published was completed, then the enrolment is marked, then  *)
(* certified, and nothing is ever taken back.                              *)
(***************************************************************************)
CONSTANT Students

VARIABLE milestone      \* of each student

Init == milestone = [s \in Students |-> "learning"]

\* An edit of the curriculum may make several students finish at once.
Finish(group) ==
    /\ \A s \in group : milestone[s] = "learning"
    /\ milestone' = [s \in Students |-> IF s \in group THEN "finished" ELSE milestone[s]]

Complete(s) ==
    /\ milestone[s] = "finished"
    /\ milestone' = [milestone EXCEPT ![s] = "completed"]

Certify(s) ==
    /\ milestone[s] = "completed"
    /\ milestone' = [milestone EXCEPT ![s] = "certified"]

Next ==
    \/ \E group \in SUBSET Students : Finish(group)
    \/ \E s \in Students : Complete(s) \/ Certify(s)

Spec == Init /\ [][Next]_milestone
=============================================================================
