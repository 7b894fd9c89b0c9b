------------------------------ MODULE MCCycle ------------------------------
(* Instances of AttemptCycle: two targets, of which only t1 resumes sessions. *)
EXTENDS AttemptCycle

CONSTANTS t1, t2

MCNativeResume == [t \in Targets |-> t = t1]
=============================================================================
