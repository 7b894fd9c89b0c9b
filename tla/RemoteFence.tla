----------------------------- MODULE RemoteFence -----------------------------
(***************************************************************************)
(* What the control plane counts on when an execution host answers         *)
(* confirmed_safe to cancel(attempt_id): from then on nothing of that      *)
(* attempt runs or will ever start, whatever requests are still on their   *)
(* way.  Module Orchestrator uses this promise as one step, Reap.          *)
(***************************************************************************)

VARIABLES
    may_run,    \* work of the attempt runs or may still start
    confirmed   \* some cancel request was answered with confirmed_safe

Init == may_run = TRUE /\ confirmed = FALSE

\* The attempt is over on this host: by itself, or stopped.
Ends == may_run' = FALSE /\ confirmed' = confirmed

\* confirmed_safe is answered only when nothing is left.
Confirms == may_run' = FALSE /\ confirmed' = TRUE

Next == Ends \/ Confirms

Spec == Init /\ [][Next]_<<may_run, confirmed>>
=============================================================================
