------------------------- MODULE SchedulerProperties -------------------------
(***************************************************************************)
(* What the scheduler of module Orchestrator promises.  TypeOK is in       *)
(* SchedulerState.                                                         *)
(***************************************************************************)
EXTENDS Orchestrator

-----------------------------------------------------------------------------
(* Safety *)

(***************************************************************************)
(* Every executor that runs or may start belongs to the last attempt of    *)
(* its issue's durable record, and that record is RUNNING or BLOCKED, so   *)
(* that recovery, the blocked loop or the stale-RUNNING branch still reaps *)
(* it.  The executors in `lost` escaped at one of three places: a local    *)
(* reap without a recorded identity, the unreaped release of               *)
(* _reconcile_waiting, and a PlacementError that overwrites BLOCKED.       *)
(***************************************************************************)
ExecutorAccounted ==
    \A e \in live \ lost :
      /\ rec[e.issue].attempt = e.attempt
      /\ rec[e.issue].target = e.target
      /\ rec[e.issue].phase \in {"running", "blocked"}

\* No issue ever has two executors that run or may start (ARCHITECTURE.md:129,
\* "preventing duplicate writers after a scheduler kill -9").
NoDuplicateExecutor ==
    \A e, f \in live : e.issue = f.issue => e = f

\* The attempts in progress exceed neither the global cap nor the cap of the
\* target they were placed on, although slots are counted once per tick and the
\* dispatch loop awaits reaps in between.
CapsRespected ==
    /\ Cardinality(Running) <= MaxConcurrentAgents
    /\ \A t \in Targets :
         Cardinality({i \in Running : rec[i].target = t}) <= TargetCap[t]

\* The same caps hold for the agents on the hosts: through lost replies, stale
\* copies and restarts the agents of attempts in progress exceed no cap.  Beyond
\* it a host runs only agents of BLOCKED issues, and escaped ones: neither hold a
\* slot (the counts at the start of the dispatch loop are of self.running).
AgentsCapped ==
    LET attended == {e \in live \ lost : e.issue \in Running} IN
    /\ Cardinality(attended) <= MaxConcurrentAgents
    /\ \A t \in Targets : Cardinality({e \in attended : e.target = t}) <= TargetCap[t]

\* While the executor of a BLOCKED record runs or may start, the record stays
\* BLOCKED: no tracker state, label or restart unblocks it (ARCHITECTURE.md:13).
BlockedUntilStopped ==
    [][\A i \in Issues : rec[i].phase = "blocked" /\ Executor(i) \in live'
         => rec'[i].phase = "blocked"]_vars

\* The waiting loop is at i, with the RUNNING record of an attempt that may have
\* ended since.
HoldsOldCopy(i) ==
    pc \in {"waiting", "waitingGet"} /\ NextUp(i) /\ loaded[i].phase = "running"

\* The only ways out of BLOCKED with the executor still there: a PlacementError, a
\* local reap that has no identity to work on, and a copy of the waiting loop
\* from before the attempt ended.  (Every other reader of the record waits for
\* a confirmed stop, also after a crash or a lost reply.)
BlockedLeft ==
    [][\A i \in Issues :
         rec[i].phase = "blocked" /\ Executor(i) \in live' /\ rec'[i].phase # "blocked"
         => \/ pc = "dispatch" /\ NextUp(i) /\ candidates[i] \notin Targets
            \/ IsLocal(i) /\ ~rec[i].process
            \/ HoldsOldCopy(i)]_vars

\* A retry waits out its backoff: before next_run_at only the loss of its
\* active state or of its placement, a cold start, or a copy of the waiting loop
\* from before the attempt failed, which makes it RUNNING again, ends RETRY_WAIT.
BackoffHeld ==
    [][\A i \in Issues :
         rec[i].phase = "retry_wait" /\ rec[i].later /\ rec'[i].phase # "retry_wait"
         => \/ rec'[i].phase \in {"released", "placement_blocked"}
            \/ pc \in {"recover", "recoverGet"}
            \/ HoldsOldCopy(i) /\ rec'[i].phase = "running"]_vars

\* The run_forever task never writes the record of an attempt in progress: no
\* IssueState object it loaded earlier overwrites what the attempt saves.
SingleWriter ==
    [][\A i \in Running :
         pc' # pc \/ todo' # todo => rec'[i] = rec[i]]_vars

\* After a cold start no record is RUNNING or waiting, and an executor of an
\* earlier life that still runs has its issue BLOCKED, whatever GitLab says.
RecoveryResolves ==
    [][pc = "recover" /\ pc' = "idle" =>
         /\ \A i \in Issues :
              rec[i].phase \notin {"running", "continuation_wait", "retry_wait"}
         /\ \A e \in live \ lost : rec[e.issue].phase = "blocked"]_vars

\* An issue an attempt has found handed off is not made READY again on the
\* strength of a list GitLab made earlier (ARCHITECTURE.md:5, "Current issue
\* state and labels decide whether work may run").
NewerAnswerWins ==
    [][\A i \in overruled :
         rec[i].phase = "released" => rec'[i].phase # "ready"]_vars

-----------------------------------------------------------------------------
(* The abstract scheduler *)

\* The agents of i that the records account for.
AgentsOf(i) == {e \in live \ lost : e.issue = i}

\* A record that says RUNNING or BLOCKED without an attempt has to be reaped.
ClaimOn(i) ==
    IF i \in Running THEN "held"
    ELSE IF rec[i].phase \in {"running", "blocked"} THEN "doubted" ELSE "free"

Owners == INSTANCE Ownership WITH
            Agents <- Executors,
            claim  <- [i \in Issues |-> ClaimOn(i)],
            agents <- [i \in Issues |-> AgentsOf(i)]

\* Through kill -9, lost answers and stale copies an issue passes from one
\* attempt to the next only when the agent of the first is known to be gone
\* (ARCHITECTURE.md:129), the agents in `lost` aside.
Owned == Owners!Spec

-----------------------------------------------------------------------------
(* The inductive strengthening of ExecutorAccounted *)

\* No executor of i that the records still account for.
NoneOf(i) == \A e \in live \ lost : e.issue # i

SameAttempt(r, s) == r.attempt = s.attempt /\ r.target = s.target

\* The record of an attempt in progress says RUNNING.
AttemptOwnsRecord == \A i \in Running : rec[i].phase = "running"

\* _finish_attempt reads the tracker only after the executor has stopped.
StoppedBeforeRefresh ==
    \A i \in Issues : task[i].pc = "refresh" => Executor(i) \notin live

\* No attempt is in progress during a cold start.
AloneInRecovery == pc \in {"down", "recover", "recoverGet"} => Running = {}

\* What recover holds in memory is the durable record, except that a reaped
\* issue is READY only in memory.
RecoveryCopies ==
    pc \in {"recover", "recoverGet"} => \A i \in todo :
      \/ loaded[i] = rec[i] /\ (pc = "recover" \/ ~NextUp(i))
      \/ /\ pc = "recoverGet" /\ NextUp(i)
         /\ SameAttempt(loaded[i], rec[i])
         /\ loaded[i].phase = "blocked" \/ NoneOf(i)

\* The blocked loop holds the durable records of issues nobody else touches.
BlockedCopies ==
    pc \in {"blocked", "blockedReap", "blockedGet"} => \A i \in todo :
      /\ i \notin Running
      /\ loaded[i] = rec[i]
      /\ loaded[i].phase \in {"blocked", "placement_blocked"}
      /\ pc = "blockedGet" /\ NextUp(i) => NoneOf(i)

\* The waiting loop may hold a record that the attempt has since replaced, but
\* then that copy says RUNNING, and names the same attempt.
WaitingCopies ==
    pc \in {"waiting", "waitingGet"} => \A i \in todo :
      /\ SameAttempt(loaded[i], rec[i])
      /\ \/ loaded[i].phase = "running"
         \/ i \notin Running /\ loaded[i].phase = rec[i].phase

\* The issue a loop suspends at has no attempt.
TurnHasNoAttempt ==
    pc \in {"waitingGet", "dispatchReap"} =>
      \A i \in todo : NextUp(i) => i \notin Running

Inv ==
    /\ TypeOK
    /\ ExecutorAccounted
    /\ AttemptOwnsRecord
    /\ StoppedBeforeRefresh
    /\ AloneInRecovery
    /\ RecoveryCopies
    /\ BlockedCopies
    /\ WaitingCopies
    /\ TurnHasNoAttempt

(* The strengthening of Inv behind BlockedLeft and BackoffHeld *)

\* A loop that reads GitLab about a BLOCKED issue has had its executor stopped,
\* or had no identity to stop it by.
ReapedAtGet ==
    pc \in {"recoverGet", "blockedGet"} => \A i \in todo :
      NextUp(i) /\ rec[i].phase = "blocked" /\ Executor(i) \in live
      => \/ IsLocal(i) /\ ~rec[i].process
         \/ pc = "recoverGet" /\ loaded[i].phase = "blocked"

\* The waiting loop visits the records that waited or ran when it loaded them.
WaitingLoaded ==
    pc \in {"waiting", "waitingGet"} =>
      \A i \in todo : loaded[i].phase \in DispatchablePhases \cup {"running"}

\* The dispatch loop reaps RUNNING records, and they stay so meanwhile.
StaleAtReap ==
    pc = "dispatchReap" => \A i \in todo : NextUp(i) => rec[i].phase = "running"

TurnInv == ReapedAtGet /\ WaitingLoaded /\ StaleAtReap

(* The strengthening of Inv behind BlockedUntilStopped and NoDuplicateExecutor *)

\* The waiting loop does not hold the RUNNING copy of a record BLOCKED meanwhile.
NoStaleCopy ==
    pc \in {"waiting", "waitingGet"} => \A i \in todo : rec[i].phase # "blocked"

\* The dispatch loop visits the issues of the list.
DispatchListed ==
    pc \in {"dispatch", "dispatchReap"} => \A i \in todo : Listed(i)

\* Outside a cold start every executor is in the charge of an attempt or of a
\* BLOCKED record.
Attended ==
    pc \notin {"down", "recover", "recoverGet"} => \A i \in Issues :
      i \in Running \/ rec[i].phase = "blocked" \/ NoneOf(i)

-----------------------------------------------------------------------------
(* Liveness *)

(***************************************************************************)
(* Fairness.  The event loop serves the run_forever task and every attempt *)
(* again and again (an attempt is not served while run_forever holds the   *)
(* loop, and the dispatch loop reads the time once, hence SF); delays run  *)
(* out; and a request repeated for ever is answered in the end: by GitLab, *)
(* and by the host that confirms a stop, also the stop a cold start asks   *)
(* for.                                                                    *)
(***************************************************************************)
Fairness ==
    /\ WF_vars(RecoverStep \/ ReconcileStep \/ DispatchStep \/ DrainBegins \/ Drained)
    /\ SF_vars(ReconcilesRunning({}))
    /\ SF_vars(ListAnswered)
    /\ \A i \in Issues :
         /\ SF_vars(AttemptStep(i))
         /\ SF_vars(DelayEnds(i))
         /\ SF_vars(RecoverReap(i, TRUE))
         /\ SF_vars(BlockedReap(i, TRUE))
         /\ SF_vars(BlockedGet(i, TRUE))
         /\ SF_vars(WaitingGet(i, TRUE))
         /\ SF_vars(DispatchReap(i, TRUE))

FairSpec == Spec /\ Fairness

\* An issue handed off for good has its executor stopped for good, through
\* lost tracker answers, lost stop confirmations, cancellation timeouts,
\* restarts and exceptions nobody expects; escaped executors aside.
HandoffStops ==
    \A i \in Issues :
      <>[](tracker[i] = Inactive) => <>[](\A e \in live \ lost : e.issue # i)

\* An issue that stays active with a valid label is attempted again and again:
\* no failure, block or backoff parks it, unless the scheduler keeps stopping.
\* The last disjunct is owed to the bound on attempt ids: escaped executors
\* that never end can use them up.
KeepsTrying ==
    \A i \in Issues :
      <>[](tracker[i] \in Targets) /\ <>[](~stopping)
         => []<>(i \in Running \/ FreshIds(i) = {})

\* A shutdown comes to an end, whatever tick or recovery it interrupted.
ShutdownCompletes == stopping ~> (pc = "down")
=============================================================================
