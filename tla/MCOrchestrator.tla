--------------------------- MODULE MCOrchestrator ---------------------------
(***************************************************************************)
(* Instances of the scheduler for TLC: issue numbers are compared, so they *)
(* are numbers; targets, labels and attempt ids are model values.          *)
(***************************************************************************)
EXTENDS SchedulerProperties

CONSTANTS t1, t2, invalid, a1, a2, a3

OneIssue == {1}
TwoIssues == {1, 2}
CapOne == [t \in Targets |-> 1]
=============================================================================
