---------------------------- MODULE AttemptCycle ----------------------------
(***************************************************************************)
(* What one attempt leaves for the next: the failure and continuation      *)
(* counters, the delay before the next attempt and the native session of   *)
(* an issue, through _continuation_mode, _finish_attempt,                  *)
(* _schedule_clean_continuation, _schedule_failure, the two handlers of    *)
(* _execute, cold starts and the tick's own changes of a record.           *)
(*                                                                         *)
(* Simplifications.                                                        *)
(*  - One issue.  Other issues are the time that passes while the tick's   *)
(*    waiting loop asks GitLab about them: an attempt may end meanwhile,   *)
(*    and the loop then saves the record it had loaded before.  Which      *)
(*    executor runs is the matter of module Orchestrator.                  *)
(*  - Of an agent's session the record keeps which target reported it.     *)
(*  - `delay` is how far ahead next_run_at was set; DelayEnds passes it.   *)
(*  - Placement blocks are left out: they change no field kept here.       *)
(*  - MaxExponent stands for 1023: 2.0 ** 1024 is no float.  Failure       *)
(*    counts past the first one that overflows are not told apart.         *)
(***************************************************************************)
EXTENDS Naturals

CONSTANTS
    Targets, NoTarget,
    NativeResume,         \* does the target's agent have native_resume_args?
    Initial, Multiplier, MaxSeconds,           \* RetryConfig
    ContinuationDelay, MaxConsecutive, Yield,  \* ContinuationConfig
    MaxExponent,          \* largest exponent whose power is a float
    MaxIndex,             \* bound on continuation_index, for model checking
    MaxUndone,            \* bound on undone, for model checking
    Faults                \* the faults the environment may inject; "stale": the
                          \* waiting loop has other issues to ask about

ASSUME CycleAssumption ==
    /\ NoTarget \notin Targets
    /\ NativeResume \in [Targets -> BOOLEAN]
    /\ Multiplier \in Nat \ {0} /\ MaxConsecutive \in Nat \ {0}
    /\ {Initial, MaxSeconds, ContinuationDelay, Yield, MaxExponent} \subseteq Nat
    /\ Initial <= MaxSeconds
    /\ Faults \subseteq {"tracker", "unconfirmed", "raise", "slow", "crash", "stale"}

VARIABLES
    durable,   \* the record on disk
    local,     \* the attempt's IssueState object
    held,      \* the record the waiting loop loaded during the attempt, if any
    pc,        \* where the attempt is suspended
    mode,      \* ContinuationMode of the attempt
    outcome,   \* outcome of the agent's result
    spoiled,   \* the saved session is one that failed to resume
    streak,    \* clean turns since a longer wait was last scheduled
    last,      \* delay after the latest failure since a clean turn, or 0
    undone     \* attempts the waiting loop took back since a failure or a
               \* yield was last scheduled

vars == <<durable, local, held, pc, mode, outcome, spoiled, streak, last, undone>>

Phases == {"ready", "running", "continuation_wait", "retry_wait", "blocked",
           "released"}

\* What the history variables record of the past.
history == <<spoiled, streak, last, undone>>

Lesser(m, n) == IF m <= n THEN m ELSE n
Greater(m, n) == IF m >= n THEN m ELSE n

\* Mutant of Exponent: the failure just counted already doubles.
ExponentCounted(failures) == failures

\* multiplier ** n
Power[n \in Nat] == IF n = 0 THEN 1 ELSE Multiplier * Power[n - 1]

\* RetryConfig.delay
Exponent(failures) == failures - 1
Overflows(failures) == Multiplier > 1 /\ Exponent(failures) > MaxExponent
RetryDelay(failures) ==
    Lesser(Initial * Power[Exponent(failures)], MaxSeconds)

FailureCounts == 0 .. MaxExponent + 2
RetryDelays == {RetryDelay(n) : n \in FailureCounts \ {0}}
Delays == {0, ContinuationDelay, Yield} \cup RetryDelays

Records == [phase     : Phases,
            attempted : BOOLEAN,                   \* total_attempts > 0
            failures  : FailureCounts,             \* failure_count
            index     : Nat,                       \* continuation_index
            session   : Targets \cup {NoTarget},   \* backend_session_id
            target    : Targets \cup {NoTarget},   \* execution_target
            delay     : Delays]                    \* next_run_at, 0 when due

Init ==
    /\ durable = [phase |-> "ready", attempted |-> FALSE, failures |-> 0,
                  index |-> 0, session |-> NoTarget, target |-> NoTarget,
                  delay |-> 0]
    /\ local = durable
    /\ pc = "none" /\ mode = "none" /\ outcome = "none"
    /\ spoiled = FALSE /\ streak = 0 /\ last = 0
    /\ held = {} /\ undone = 0

Settled(r, phase) == [r EXCEPT !.phase = phase, !.delay = 0]

-----------------------------------------------------------------------------
(* How an attempt ends *)

\* save(r), after which the attempt is over unless writing the event fails;
\* an exception takes it to `handler`.
Stores(r, handler) ==
    /\ durable' = r /\ local' = r
    /\ pc' \in {"none"} \cup (IF "raise" \in Faults THEN {handler} ELSE {})

\* _schedule_failure: the counters change in memory, then the delay is
\* computed, which may raise, then the record is saved.
SchedulesFailure(r, handler) ==
    LET counted == [r EXCEPT !.failures = Lesser(r.failures + 1, MaxExponent + 2),
                             !.index = 0] IN
    \/ /\ Overflows(counted.failures)
       /\ pc' = handler
       /\ local' = IF handler = "none" THEN durable ELSE counted
       /\ UNCHANGED <<durable, streak, last, undone>>
    \/ /\ ~Overflows(counted.failures)
       /\ Stores([counted EXCEPT !.phase = "retry_wait",
                                 !.delay = RetryDelay(counted.failures)],
                 handler)
       /\ streak' = 0 /\ undone' = 0
       /\ last' = RetryDelay(counted.failures)

\* Mutant of YieldsAt: only the first streak yields.
YieldsAtOnce(index) == index = MaxConsecutive

YieldsAt(index) == index % MaxConsecutive = 0

\* _schedule_clean_continuation
SchedulesContinuation(r) ==
    LET index == r.index + 1 IN
    /\ index <= MaxIndex
    /\ Stores([r EXCEPT !.failures = 0, !.index = index,
                        !.phase = "continuation_wait",
                        !.delay = IF YieldsAt(index)
                                  THEN Greater(ContinuationDelay, Yield)
                                  ELSE ContinuationDelay],
              "mend")
    /\ streak' = IF YieldsAt(index) THEN 0 ELSE streak + 1
    /\ undone' = IF YieldsAt(index) THEN 0 ELSE undone
    /\ last' = 0

-----------------------------------------------------------------------------
(* The attempt *)

\* Mutant of Moved: the session outlives the move.
MovedWithSession(r, t) ==
    [r EXCEPT !.index = IF r.target \in {t, NoTarget} THEN @ ELSE 0, !.target = t]

\* The record placed on t; a move clears what belongs to the old target.
Moved(r, t) ==
    IF r.target \in {t, NoTarget} THEN [r EXCEPT !.target = t]
    ELSE [r EXCEPT !.target = t, !.session = NoTarget, !.index = 0]

\* The dispatch loop, after the waiting loop, places a due issue on t and
\* _execute saves it RUNNING.
Dispatches(t) ==
    /\ pc = "none" /\ held = {}
    /\ durable.phase \in {"ready", "continuation_wait", "retry_wait"}
    /\ durable.delay = 0
    /\ durable' = Settled(Moved(durable, t), "running")
    /\ local' = durable'
    /\ pc' = "prepare" /\ mode' = "none" /\ outcome' = "none"
    /\ spoiled' = (spoiled /\ durable'.session # NoTarget)
    /\ streak' = IF durable.target \in {t, NoTarget} THEN streak ELSE 0
    /\ UNCHANGED <<held, last, undone>>

\* Mutant of Route: a session is taken for granted after the first attempt.
RouteWithoutSession(r) ==
    IF ~r.attempted THEN "first"
    ELSE IF NativeResume[r.target] THEN "native" ELSE "stateless"

\* _continuation_mode
Route(r) ==
    IF ~r.attempted THEN "first"
    ELSE IF r.session # NoTarget /\ NativeResume[r.target] THEN "native"
    ELSE "stateless"

\* The workspace is ready and _continuation_mode chooses the route.  (With the
\* cancel event set the agent is not started; the result is CANCELLED.)
Prepared ==
    /\ pc = "prepare"
    /\ mode' = Route(local)
    /\ pc' = "agent"
    /\ UNCHANGED <<durable, local, held, outcome, history>>

\* backend.run returns and _finish_attempt notes the result.  A result that is
\* not executor_safe is saved only after the tracker has been asked.
AgentReturns(result, reported, safe) ==
    /\ pc = "agent"
    /\ safe \/ "unconfirmed" \in Faults
    /\ LET noted == [local EXCEPT !.attempted = TRUE,
                                  !.session = IF reported THEN local.target ELSE @]
       IN /\ local' = IF safe THEN noted ELSE Settled(noted, "blocked")
          /\ durable' = IF safe THEN noted ELSE durable
    /\ pc' = IF safe THEN "refresh" ELSE "blocking"
    /\ outcome' = result
    /\ spoiled' = IF mode = "native"
                  THEN result = "failed" \/ (spoiled /\ result = "cancelled")
                  ELSE spoiled /\ ~reported
    /\ UNCHANGED <<held, mode, streak, last, undone>>

\* get_issue failed after the attempt.
TrackerFails ==
    /\ pc = "refresh" /\ "tracker" \in Faults
    /\ SchedulesFailure(local, "mend")
    /\ UNCHANGED <<held, mode, outcome, spoiled>>

\* The issue is no longer active.
FindsInactive ==
    /\ pc = "refresh"
    /\ Stores(Settled(local, "released"), "mend")
    /\ UNCHANGED <<held, mode, outcome, history>>

\* Mutant of Abandoned: a failed native resume keeps its session.
AbandonedNever(r) == r

\* A failed native resume loses its session.
Abandoned(r) == IF mode = "native" THEN [r EXCEPT !.session = NoTarget] ELSE r

FindsActiveAfterFailure ==
    /\ pc = "refresh" /\ outcome = "failed"
    /\ SchedulesFailure(Abandoned(local), "mend")
    /\ spoiled' = (spoiled /\ local'.session # NoTarget)
    /\ UNCHANGED <<held, mode, outcome>>

FindsActive ==
    \/ FindsActiveAfterFailure
    \/ /\ pc = "refresh"
       /\ \/ outcome = "clean_exit" /\ SchedulesContinuation(local)
          \/ /\ outcome = "cancelled"
             /\ Stores(Settled(local, "ready"), "mend")
             /\ UNCHANGED <<streak, last, undone>>
       /\ UNCHANGED <<held, mode, outcome, spoiled>>

\* The unsafe result is saved, whatever the tracker answered.
Blocks ==
    /\ pc = "blocking"
    /\ Stores(local, "mend")
    /\ UNCHANGED <<held, mode, outcome, history>>

\* An exception reaches _execute.
Raises ==
    /\ \/ pc = "prepare"
       \/ pc \in {"agent", "refresh", "blocking"} /\ "raise" \in Faults
    /\ pc' = "mend"
    /\ UNCHANGED <<durable, local, held, mode, outcome, history>>

\* `except Exception`, after its reap.  A second exception ends the task.
Mends(safe) ==
    /\ pc = "mend"
    /\ LET noted == [local EXCEPT !.attempted = TRUE] IN
       \/ safe /\ SchedulesFailure(noted, "none")
       \/ /\ ~safe /\ "unconfirmed" \in Faults
          /\ Stores(Settled(noted, "blocked"), "none")
          /\ UNCHANGED <<streak, last, undone>>
    /\ UNCHANGED <<held, mode, outcome, spoiled>>

\* task.cancel() lands; in a handler it ends the task with nothing saved.
Cancels ==
    /\ "slow" \in Faults
    /\ \/ /\ pc \in {"prepare", "agent", "refresh", "blocking"}
          /\ pc' = "abort" /\ local' = local
       \/ pc \in {"mend", "abort"} /\ pc' = "none" /\ local' = durable
    /\ UNCHANGED <<durable, held, mode, outcome, history>>

\* `except CancelledError`, after its reap: total_attempts keeps its value.
Aborts(safe) ==
    /\ pc = "abort"
    /\ safe \/ "unconfirmed" \in Faults
    /\ Stores(Settled(local, IF safe THEN "ready" ELSE "blocked"), "none")
    /\ UNCHANGED <<held, mode, outcome, history>>

-----------------------------------------------------------------------------
(* The record while no attempt runs, and the crash of the scheduler *)

\* The record on disk moves to `phase`, due at once.
Becomes(phase) ==
    /\ durable' = Settled(durable, phase) /\ local' = durable'
    /\ UNCHANGED <<held, pc, mode, outcome, history>>

\* _reconcile_waiting loads all records while an attempt is in progress.  (Without
\* an attempt nobody but the tick changes the record, which stays current.)
Loads ==
    /\ "stale" \in Faults
    /\ pc # "none" /\ held = {}
    /\ durable.phase \notin {"blocked", "released"}
    /\ held' = {durable}
    /\ UNCHANGED <<durable, local, pc, mode, outcome, history>>

\* The attempt is still in progress at its issue's turn, or GitLab does not
\* answer, or says the issue is active, or the tick ends before.
PassesOver ==
    /\ held # {} /\ held' = {}
    /\ UNCHANGED <<durable, local, pc, mode, outcome, history>>

SameCounts(r, s) == r.failures = s.failures /\ r.index = s.index

\* The attempt has ended, and the whole record loaded before, become r, replaces
\* what it saved.  A session whose native resume failed is back with it.
TakesBack(r) ==
    /\ pc = "none" /\ held' = {}
    /\ durable' = r /\ local' = r
    /\ undone' = IF SameCounts(r, durable) THEN undone ELSE undone + 1
    /\ undone' <= MaxUndone
    /\ spoiled' = /\ r.session # NoTarget
                  /\ spoiled \/ (mode = "native" /\ outcome = "failed")
    /\ UNCHANGED <<pc, mode, outcome, streak, last>>

\* _reconcile_waiting: the issue is listed.  (Its delay may be over by now.)
WritesBack ==
    \E r \in held : TakesBack(r) \/ TakesBack(Settled(r, r.phase))

\* tick: a RUNNING record nobody runs is reaped.
FindsStale(safe) ==
    /\ pc = "none" /\ held = {} /\ durable.phase = "running"
    /\ safe \/ "unconfirmed" \in Faults
    /\ Becomes(IF safe THEN "ready" ELSE "blocked")

\* _reconcile_blocked confirmed the stop.
Unblocks ==
    /\ pc = "none" /\ held = {} /\ durable.phase = "blocked"
    /\ \E phase \in {"ready", "released"} : Becomes(phase)

\* _reconcile_waiting found the issue inactive, with the record it has of it.
Releases ==
    \/ /\ pc = "none" /\ held = {} /\ durable.phase \notin {"blocked", "released"}
       /\ Becomes("released")
    \/ \E r \in held : TakesBack(Settled(r, "released"))

\* tick: a released issue is listed again.
Reactivates ==
    /\ pc = "none" /\ held = {} /\ durable.phase = "released"
    /\ Becomes("ready")

DelayEnds ==
    /\ pc = "none" /\ durable.delay > 0
    /\ Becomes(durable.phase)

\* kill -9, then recover: what was held in memory is gone.
Restarts ==
    /\ "crash" \in Faults
    /\ \E phase \in {"ready", "released", "blocked"} :
         /\ phase = "blocked" => /\ "unconfirmed" \in Faults
                                 /\ durable.phase \in {"running", "blocked"}
         /\ durable' = Settled(durable, phase) /\ local' = durable'
    /\ pc' = "none" /\ held' = {}
    /\ spoiled' = (spoiled /\ durable.session # NoTarget)
    /\ UNCHANGED <<mode, outcome, streak, last, undone>>

-----------------------------------------------------------------------------
Next ==
    \/ \E t \in Targets : Dispatches(t)
    \/ Prepared
    \/ \E result \in {"clean_exit", "failed", "cancelled"} :
         \E reported, safe \in BOOLEAN : AgentReturns(result, reported, safe)
    \/ TrackerFails \/ FindsInactive \/ FindsActive \/ Blocks \/ Raises
    \/ Cancels
    \/ \E safe \in BOOLEAN : Mends(safe) \/ Aborts(safe) \/ FindsStale(safe)
    \/ Loads \/ PassesOver \/ WritesBack
    \/ Unblocks \/ Releases \/ Reactivates \/ DelayEnds \/ Restarts

Spec == Init /\ [][Next]_vars

\* GitLab answers after some of the failed attempts, if they never end.
FairSpec == Spec /\ SF_vars(FindsActiveAfterFailure)

-----------------------------------------------------------------------------
(* Properties *)

CycleTypeOK ==
    /\ durable \in Records /\ local \in Records
    /\ pc \in {"none", "prepare", "agent", "refresh", "blocking", "mend", "abort"}
    /\ mode \in {"none", "first", "native", "stateless"}
    /\ outcome \in {"none", "clean_exit", "failed", "cancelled"}
    /\ spoiled \in BOOLEAN
    /\ streak \in Nat /\ last \in RetryDelays \cup {0}
    /\ held \subseteq Records /\ undone \in Nat

\* The inductive invariant: between attempts nothing is left in memory, a saved
\* session belongs to the target the record names and to an attempt that was
\* counted, and a native attempt has one to resume.
CycleInv ==
    /\ CycleTypeOK
    /\ pc = "none" => local = durable
    /\ \A r \in {local} \cup held : r.target = durable.target
    /\ \A r \in {local, durable} \cup held :
         /\ r.session \in {NoTarget, r.target}
         /\ r.session # NoTarget => r.attempted
    /\ pc \in {"agent", "refresh"} /\ mode = "native" => local.session # NoTarget
    /\ pc # "none" => local.target # NoTarget

\* An attempt counts no failure before it finishes, and then one, or two if its
\* handler counts once more.
Before == {"prepare", "agent", "refresh", "blocking", "abort"}

\* What makes FairnessYield inductive: the clean turns since the last longer wait
\* are at most those the index counts since the last yield and those taken
\* back, and a failure, which resets the index, leaves only the latter.
\* What the waiting loop holds lacks at most the turn of this attempt.
YieldInv ==
    /\ \A r \in {local, durable} :
         /\ streak <= (r.index % MaxConsecutive) + undone
         /\ r.failures > 0 => streak <= undone
    /\ \A r \in held : LET turn == IF pc \in Before THEN 0 ELSE 1 IN
         /\ streak <= (r.index % MaxConsecutive) + undone + turn
         /\ r.failures > 0 => streak <= undone + turn

\* What makes BackoffDoubles a consequence: a failure that is counted and neither
\* taken back nor passed by a clean turn has waited for the delay that belongs to
\* its count; memory is ahead of the disk only while a handler runs, and then
\* only by a count whose delay cannot be computed; and of what the waiting loop
\* holds, an attempt is at most two failures ahead.
BackoffInv ==
    /\ \A r \in {local, durable} :
         undone = 0 /\ r.failures > 0 /\ ~Overflows(r.failures) =>
           last = RetryDelay(r.failures)
    /\ local.failures # durable.failures => pc = "mend" /\ Overflows(local.failures)
    /\ \A r \in {durable} \cup held :
         /\ pc \in Before => local.failures <= r.failures
         /\ pc = "mend" => local.failures <= r.failures + 1
    /\ \A r \in {local, durable} \cup held : last <= RetryDelay(r.failures + 2)

\* The delay after the next failure.
Longer(delay) == Lesser(Multiplier * delay, MaxSeconds)

\* An agent is asked to resume only a session that an agent of the same target
\* has reported, whatever moves, crashes and failures lie between the attempt
\* that reported it and this one.  (ARCHITECTURE.md: "Native sessions are
\* scoped to an execution target"; the dispatch loop's move and
\* _continuation_mode.)
SessionOnItsTarget ==
    pc = "agent" /\ mode = "native" =>
        local.session = local.target /\ local.target = durable.target

\* From one clean turn to the next, every failure an attempt schedules waits
\* Multiplier times as long as the one before, up to MaxSeconds, and the first
\* one Initial: unsafe stops, cancellations, moves, crashes and failing
\* handlers in between neither lose nor double a step.  The waiting loop does
\* lose steps: if it took attempts back since the failure before, the delay may
\* be the same again, or less, but by one step at most.  (RetryConfig.delay and
\* all callers of _schedule_failure; the save in _reconcile_waiting.)
BackoffDoubles ==
    [][/\ pc # "none"
       /\ durable'.failures > durable.failures /\ durable'.phase = "retry_wait"
       => IF durable.failures = 0 THEN durable'.delay = Initial
          ELSE \/ durable'.delay = Longer(last)
               \/ undone > 0 /\ last <= Longer(durable'.delay)]_vars

\* No issue has MaxConsecutive clean turns in a row on one target without a
\* longer wait scheduled among them, or one more for each attempt the waiting
\* loop took back: it takes back one turn at a time, and moves, failures and
\* restarts, which reset or keep the index, take back none.
\* (_schedule_clean_continuation; the save in _reconcile_waiting.)
FairnessYield == streak < MaxConsecutive + undone

\* The scheduler does not resume the same broken session without ever giving it
\* up: if native resumes go on failing, the session that failed is given up again
\* and again.  (native_resume_abandoned in _finish_attempt.  A record the waiting
\* loop writes back may bring it back each time.)
NoResumeLoop ==
    []<>(pc = "refresh" /\ mode = "native" /\ outcome = "failed") => []<>~spoiled

\* Claimed by ARCHITECTURE.md ("If a native-resume attempt fails, its saved
\* session ID is cleared before retry so the next attempt takes the stateless
\* path"), but _schedule_failure after a tracker error, an unsafe stop and a
\* release keep it.
FailedResumeAbandoned == pc = "agent" /\ mode = "native" => ~spoiled

\* Claimed by ARCHITECTURE.md ("Failures and timeouts increment a separate
\* counter and use exponential backoff"): an attempt that came to its end never
\* leaves its record RUNNING.  RetryConfig.delay overflows after enough failures.
FailuresBackOff == pc = "none" => durable.phase # "running"

\* Claimed by ARCHITECTURE.md ("every configured number of consecutive clean
\* turns, the issue waits for `continuation.yield_seconds` before it may claim
\* another slot"), but the waiting loop takes turns back.
YieldsInTime == streak < MaxConsecutive
=============================================================================
