--------------------------- MODULE SubmissionReport ---------------------------
(***************************************************************************)
(* What the layer promises about a tracked command buffer: the execution   *)
(* state it would report for a submission moves forward only, one stage at *)
(* a time, and is forgotten only when no submission is in flight.  The     *)
(* stages are the extensions of kPending in enum CommandBufferState        *)
(* (src/command.h).                                                        *)
(***************************************************************************)
CONSTANT Buffers

VARIABLE report  \* the stage reported of each buffer

Stage == {"unsubmitted", "notStarted", "incomplete", "completed"}

Move(b, from, to) ==
  /\ report[b] \in from
  /\ report' = [report EXCEPT ![b] = to]

Init == report = [b \in Buffers |-> "unsubmitted"]

Submit(b) == Move(b, {"unsubmitted"}, "notStarted")
Start(b)  == Move(b, {"notStarted"}, "incomplete")
Finish(b) == Move(b, {"incomplete"}, "completed")

\* The buffers of a set are reset, recorded anew or freed, none in flight.
Forget ==
  \E B \in SUBSET Buffers :
    /\ \A b \in B : report[b] \in {"unsubmitted", "completed"}
    /\ report' = [b \in Buffers |-> IF b \in B THEN "unsubmitted" ELSE report[b]]

Next == (\E b \in Buffers : Submit(b) \/ Start(b) \/ Finish(b)) \/ Forget

Spec == Init /\ [][Next]_report
=============================================================================
