--------------------------- MODULE SchedulerState ---------------------------
(***************************************************************************)
(* The state shared by the parts of the scheduler: GitLab, the durable     *)
(* IssueState records (state.py), the attempt tasks and the tick loop of   *)
(* Orchestrator, and the executors that run on the execution targets.      *)
(*                                                                         *)
(* Simplifications.                                                        *)
(*  - A record keeps the fields control depends on.  `later` says that     *)
(*    next_run_at lies in the future; phase BLOCKED is split by            *)
(*    last_outcome, which is "placement_blocked" in no other phase;        *)
(*    counters, sessions and summaries are left out.                       *)
(*  - Saving is atomic (os.replace), and an attempt's own IssueState       *)
(*    object equals the durable record whenever the attempt is suspended.  *)
(*  - `live` holds the executors that run or may still start: a remote     *)
(*    attempt from the moment its first request is on its way, a local one *)
(*    from its fork.  That a confirmed remote reap also fences off a       *)
(*    request still on its way is what module RemoteLease is about.        *)
(*  - An attempt id is a uuid4: a fresh id is one that nothing refers to.  *)
(***************************************************************************)
EXTENDS Naturals, FiniteSets

CONSTANTS
    Issues,               \* issue numbers (iid)
    Targets,              \* configured execution targets
    LocalTargets,         \* the targets of kind "local"; the others use SSH
    Labels,               \* what the execution labels of an active issue can ask
                          \* for; a label outside Targets is a PlacementError
    AttemptIds,           \* ids attempts draw from
    MaxConcurrentAgents,  \* global cap
    TargetCap,            \* cap of each target
    Faults,               \* the faults the environment may inject
    Inactive, NoTarget, NoAttempt

ASSUME ConstantsAssumption ==
    /\ Issues \subseteq Nat /\ IsFiniteSet(Issues)
    /\ LocalTargets \subseteq Targets
    /\ MaxConcurrentAgents \in Nat \ {0}
    /\ TargetCap \in [Targets -> Nat \ {0}]
    /\ Inactive \notin Labels \cup Targets
    /\ NoTarget \notin Targets
    /\ NoAttempt \notin AttemptIds
    /\ Faults \subseteq {"tracker", "unconfirmed", "slow", "raise",
                         "sigterm", "crash"}

VARIABLES
    tracker,        \* GitLab: the label of each active issue, or Inactive
    rec,            \* the durable record of each issue
    task,           \* the attempt task of each issue (self.running)
    live,           \* executors that run or may still start
    lost,           \* executors no durable record accounts for any more
    pc,             \* where the run_forever task is
    loaded,         \* IssueState objects the current loop read with load_all
    todo,           \* issues the current loop has still to visit
    candidates,     \* the answer to list_active_issues
    overruled,      \* issues released by an attempt since GitLab made that answer
    to_cancel,      \* issues whose attempts _reconcile_running waits for
    slots,          \* global_slots
    target_counts,  \* target_counts
    stopping        \* self._stopping

taskVars == <<rec, task, live, lost, overruled>>
tickVars == <<pc, loaded, todo, candidates, to_cancel, slots, target_counts>>
vars == <<tracker, taskVars, tickVars, stopping>>

-----------------------------------------------------------------------------
(* Durable records and executors *)

Phases == {"absent", "ready", "running", "continuation_wait", "retry_wait",
           "blocked", "placement_blocked", "released"}

Records == [phase   : Phases,
            target  : Targets \cup {NoTarget},
            attempt : AttemptIds \cup {NoAttempt},
            process : BOOLEAN,     \* a process identity is recorded
            later   : BOOLEAN]     \* next_run_at lies in the future

NewRecord == [phase |-> "absent", target |-> NoTarget, attempt |-> NoAttempt,
              process |-> FALSE, later |-> FALSE]

\* Mutant of DispatchablePhases: a BLOCKED issue is started over.
DispatchableBlockedToo == {"ready", "continuation_wait", "retry_wait", "blocked"}

\* Phases the dispatch loop may start an attempt from.
DispatchablePhases == {"ready", "continuation_wait", "retry_wait"}

\* The record r moved to `phase` with no process and no delay.
Settled(r, phase) ==
    [r EXCEPT !.phase = phase, !.process = FALSE, !.later = FALSE]

\* What _reap_state and the error handlers store when a stop is unconfirmed.
Unconfirmed(r) == [r EXCEPT !.phase = "blocked", !.later = FALSE]

\* What the records of the issues can name.
Executors == [issue   : Issues,
              attempt : AttemptIds \cup {NoAttempt},
              target  : Targets \cup {NoTarget}]

ExecutorOf(i, r) == [issue |-> i, attempt |-> r.attempt, target |-> r.target]

Executor(i) == ExecutorOf(i, rec[i])

IsLocal(i) == rec[i].target \in LocalTargets

(***************************************************************************)
(* ExecutionTarget.reap for the attempt recorded in r.  A local reap works *)
(* on the recorded identity only: without one it answers "safe" and        *)
(* touches nothing.  A remote reap that is not confirmed may still have    *)
(* stopped the executor (the reply was lost).                              *)
(***************************************************************************)
Reap(i, r, safe) ==
    LET executor == ExecutorOf(i, r) IN
    \/ /\ r.target \in LocalTargets /\ ~r.process
       /\ safe
       /\ live' = live
       /\ lost' = lost \cup (live \cap {executor})
    \/ /\ r.target \in LocalTargets => r.process
       /\ safe
       /\ live' = live \ {executor}
       /\ lost' = lost \ {executor}
    \/ /\ r.target \in LocalTargets => r.process
       /\ ~safe /\ "unconfirmed" \in Faults
       /\ \/ live' = live /\ lost' = lost
          \/ live' = live \ {executor} /\ lost' = lost \ {executor}

-----------------------------------------------------------------------------
(* Attempt tasks and the tick loop *)

Outcomes == {"none", "clean_exit", "cancelled", "failed"}

Tasks == [pc      : {"none", "prepare", "run", "stop", "unwind", "refresh",
                     "blocking", "mend", "abort"},
          cancel  : BOOLEAN,      \* cancel_event
          outcome : Outcomes]     \* TIMED_OUT is handled as FAILED

NoTask == [pc |-> "none", cancel |-> FALSE, outcome |-> "none"]

Running == {i \in Issues : task[i].pc # "none"}

\* At these points the run_forever task holds the event loop.
HoldsLoop == {"blocked", "waiting", "dispatch"}

Places == HoldsLoop \cup
    {"down", "recover", "recoverGet", "idle", "reconcile", "cancelling",
     "gathering", "listing", "listed", "blockedReap", "blockedGet",
     "waitingGet", "dispatchReap", "drain"}

\* Any other task runs only while the run_forever task is suspended.
LoopFree == pc \notin HoldsLoop \cup {"down"}

\* cancel_event.set() for the attempts of S.
Signalled(S) ==
    [i \in Issues |-> IF i \in S THEN [task[i] EXCEPT !.cancel = TRUE] ELSE task[i]]

TypeOK ==
    /\ tracker \in [Issues -> Labels \cup {Inactive}]
    /\ rec \in [Issues -> Records]
    /\ task \in [Issues -> Tasks]
    /\ live \subseteq Executors
    /\ lost \subseteq live
    /\ pc \in Places
    /\ loaded \in [Issues -> Records]
    /\ todo \subseteq Issues
    /\ candidates \in [Issues -> Labels \cup {Inactive}]
    /\ overruled \subseteq Issues
    /\ to_cancel \subseteq Issues
    /\ slots \in Nat
    /\ target_counts \in [Targets -> Nat]
    /\ stopping \in BOOLEAN
=============================================================================
