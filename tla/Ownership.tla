------------------------------ MODULE Ownership ------------------------------
(***************************************************************************)
(* What the scheduler promises of each issue, whatever fails: its worktree *)
(* has one owner at a time.  An attempt in progress holds the issue and    *)
(* has at most one agent; when it ends and the agent may still be at work  *)
(* the issue is in doubt; and only an issue whose agent is known to be     *)
(* gone is free for the next attempt.                                      *)
(***************************************************************************)
CONSTANTS Issues, Agents

VARIABLES
    claim,      \* free, held by an attempt, or in doubt after one
    agents      \* the agents that work on each issue, or may start to

Init ==
    /\ claim = [i \in Issues |-> "free"]
    /\ agents = [i \in Issues |-> {}]

\* An attempt takes a free issue; its agent starts now or later.
Claims(i) ==
    /\ claim[i] = "free" /\ agents[i] = {}
    /\ claim'[i] = "held"
    /\ \E a \in Agents : agents'[i] \subseteq {a}

Starts(i) ==
    /\ claim[i] = "held" /\ claim'[i] = "held"
    /\ agents[i] = {}
    /\ \E a \in Agents : agents'[i] = {a}

Ends(i) == claim'[i] = claim[i] /\ agents'[i] = {}

\* Nobody is in charge any more; an agent may be left, a new one may not start.
Doubts(i) == claim'[i] = "doubted" /\ agents'[i] \subseteq agents[i]

Frees(i) == claim'[i] = "free" /\ agents'[i] = {}

Rests(i) == claim'[i] = claim[i] /\ agents'[i] = agents[i]

\* One step of the program may concern several issues (a crash, a shutdown).
Next ==
    \A i \in Issues :
      Claims(i) \/ Starts(i) \/ Ends(i) \/ Doubts(i) \/ Frees(i) \/ Rests(i)

Spec == Init /\ [][Next]_<<claim, agents>>
=============================================================================
