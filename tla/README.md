# Verification of gitlab-issue-agent-scheduler

TLA+ models of the scheduler in `src/src/gitlab_issue_agent/`, TLC
configurations that check them on small instances, and TLAPS proofs of the
results that matter most for every instance. Paths below are relative to
`src/src/gitlab_issue_agent/` unless they name another directory.

## 1. The system

One scheduler process polls GitLab for issues with an active label, runs a
coding agent for each of them on an *execution target* (the scheduler's own
host or an SSH host), and goes on until the tracker says the issue is no longer
active. Its whole point is that two agents never write the same issue's
worktree and that no issue is forgotten, through `kill -9`, lost SSH
connections, a failing GitLab and any timing of labels.

| Component | Code | State | Operations | Talks to |
|---|---|---|---|---|
| Orchestrator | `orchestrator.py` | `running`, `_stopping`, locals of `tick` | `recover`, `tick` (four loops), `shutdown`, `run_forever` | tracker, state store, targets, attempt tasks |
| Attempt | `orchestrator.py` `_execute`, `_finish_attempt` | its `IssueState` object, `cancel_event` | prepare, run, finish, two exception handlers | workspace, backend, tracker, state store |
| Durable state | `state.py`, `models.py` | one JSON file per issue | `save`, `load_all`, `for_issue` | Orchestrator and Attempt share it |
| Targets | `execution.py` | none | `reap`, placement by label | backends, process guard |
| Local backend | `backend.py` | the agent process, its two pipes and their readers | `run` | process guard, callbacks into the attempt |
| Remote backend | `remote_execution.py`, `ssh_transport.py` | one `ssh` process per request | `run`, `reap`, `ensure`, `snapshot` | remote runner |
| Remote runner | `remote_runner.py` | lease file, tombstone file | `prepare`, `run`, `cancel`, `snapshot`, each a process of its own | git, agent, process guard |
| Process guard | `process_guard.py` | none | `capture`, `matches`, `terminate_tree` | the operating system |
| Workspace manager | `workspace.py` | control clone, one worktree per issue | `ensure`, `snapshot` | git |
| Tracker | `tracker.py` | none (GitLab's) | `list_active_issues`, `get_issue` | GitLab |
| Configuration, prompts, events, payloads, CLI | `config.py`, `prompts.py`, `events.py`, `remote_protocol.py`, `cli.py` | an event log | pure conversions, signal handlers | |

What is hard in it:

- **Interleaving.** asyncio is cooperative, so everything between two awaits
  is atomic, but `tick` awaits inside loops over records it loaded before the
  loop, while attempt tasks save the same records. Signals start `shutdown`
  tasks of their own.
- **Cancellation.** An attempt may be cancelled by its event, by its own timeout
  and by `task.cancel()`, the last also inside its exception handlers.
- **Crash.** `kill -9` loses all memory; executors and records stay.
- **Lost knowledge.** The stop of a remote executor may be unconfirmed, a
  confirmation may be lost, a tracker request may fail, a list may be old.
- **Processes.** An agent, its children and every `git` command go on when the
  coroutine that waits for them is cancelled; a pipe closes when its last holder
  goes, not when the agent does; signals are sent from a thread nothing cancels.
- **Long sequences.** Counters, delays and the native session of an issue go
  through moves, blocks, cold starts and failing handlers.
- **The host.** Requests become independent processes that share two files
  and no lock, and arrive in any order, also after a cancel.

What makes each part correct:

- Orchestrator and Attempt: every executor that runs is the last attempt of a
  `RUNNING` or `BLOCKED` record; no issue has two; a record is not unblocked
  before its executor is known to have stopped; caps hold; backoff is waited
  out; nothing but the attempt writes the record of an attempt in progress; a
  cold start resolves everything; shutdown ends; a handed-off issue is stopped;
  an active one is attempted again and again.
- Remote runner and process guard: after `confirmed_safe` nothing of the attempt
  runs or starts, and until then a cancel can find what runs.
- Local backend: a result means that the agent is gone; however `run` is left, the
  agent ends; a cancel request ends `run`.
- Counters and sessions: every failure waits longer than the last and no issue
  escapes its fairness yield, both but for what a stale save of the waiting loop
  takes back; a session is resumed only where it was reported, and a broken one
  not for ever.
- Workspace: ensures take turns on the clone; a worktree handed out is complete;
  what a cut-short command left behind does not stop the next ensure.

`PROJECT.json` lists, under "hazards", every place of this code that is hard to
test, with the properties that watch it.

## 2. The modules

| Module | What it is |
|---|---|
| `SchedulerState` | constants and their assumption, the variables, records, `Reap`, `TypeOK` |
| `Attempt` | one action per segment of the attempt task |
| `Orchestrator` | recovery, the tick, shutdown, the environment; composes the attempts; `Spec` |
| `SchedulerProperties` | what is promised, the inductive invariant `Inv`, fairness |
| `MCOrchestrator` | values of the constants for TLC |
| `OrchestratorProofs` | `TypeCorrect` |
| `AccountedProofs` | `InvCorrect`, `ExecutorsAccounted` |
| `StepProofs` | `OneWriter`, `ColdStartResolves`, `OneExecutorEach`, `BlockedWaits`, `BackoffKept` |
| `Ownership` | abstract: an issue has one owner at a time; `SchedulerProperties` maps the scheduler to it |
| `OwnershipProofs` | `OwnershipKept`, `CapsHold`, `HostsWithinCaps`, `BlockedStays`, `NoneEscapes`, `CopiesFresh`, `KilledSafely` |
| `AttemptCycle`, `MCCycle` | one issue over many attempts: counters, delays, the native session |
| `CycleProofs` | `CycleCorrect`, `SessionScoped`, `TurnsYield`, `YieldsUndisturbed`, `BackoffGrows` |
| `LocalRun` | one `CommandAgentBackend.run` with its processes, pipe and `terminate_tree` threads |
| `LocalProofs` | `RunCorrect`, `ResultStopped` |
| `Workspace`, `MCWorkspace` | `WorkspaceManager.ensure` of several issues with the `git` commands it starts |
| `WorkspaceProofs` | `WorkspaceCorrect`, `OnlyCutTrees`, `NeverResetUncut` |
| `RemoteFence` | abstract: what `confirmed_safe` promises |
| `RemoteLease` | one attempt on an SSH host; implements `RemoteFence` |
| `LeaseProofs` | `LeaseInvariant`, `LeaseFences` |

### 2.1 State

`rec[i]` is the durable record of issue i: its phase, the target and the
attempt id last used, whether a process identity is recorded and whether
`next_run_at` lies in the future. `task[i]` is where the attempt task of i is
suspended, `pc` where `run_forever` is. `loaded` is what the current loop read
with `load_all` and still acts on; `candidates` is the answer to
`list_active_issues`; `tracker` is GitLab. `live` is the set of executors
that run or may still start.

Two variables are history the code does not keep. `lost` holds the executors
that no record accounts for any more; an executor gets into it at three named
places only (section 5). `overruled` holds the issues an attempt released
since GitLab made the answer in `candidates`.

### 2.2 Actions

Every action is the code between two awaits, so a suspended coroutine is a
value of `pc` or of `task[i].pc`, and the comment of each action says which
await it resumes from. A loop over records visits them in issue order (the
order of `load_all`'s file names and of the dispatch loop's sort by `iid` are
identified). Where the code cannot suspend (`HoldsLoop`) no other task moves.
Places where several steps of the code are one action, and why:

- A new attempt task runs to its first await before the tick resumes; that
  segment is part of `Dispatches`. It only reads its own record.
- The done callback that removes the entry from `self.running` is one with the
  end of the task: the loop runs it next, and nothing reads `running` in between.
- `get_issue` is read when its answer is used; for the list the moment GitLab
  makes the answer (`ListAnswered`) and the moment it is used (`ListReceived`)
  are two, because there the difference shows.
- A reap is one step, at its return. That this is right for a remote reap is
  what `RemoteLease` and `RemoteFence` are for.
- Appending an event does not suspend.

Failures are injected by `Faults`: `tracker` (a request fails), `unconfirmed`
(a stop is not confirmed, with or without effect), `slow` (an await outlasts
`cancel_grace_seconds` + 15 s, so `task.cancel()` is used), `raise` (an
exception no handler expects), `sigterm`, `crash` (`kill -9` at any point).

`RemoteLease` has one attempt: the places of its two working helpers (`pc`),
their child processes, the identity in the lease, the tombstone, and per cancel
what it read and what its snapshot of the process tree held. Helpers start when
their request arrives, in any order and however late. `stuck` is a child that
survives SIGKILL for a while (uninterruptible I/O), `crash` a helper or a
cancel that dies half-way.

`AttemptCycle` follows one issue. `durable` is its record on disk, `local` the
object the attempt changes before it saves; the two differ between an assignment
and the next `save`, and an exception in between, or a `kill -9`, loses the
difference. `SchedulesFailure` and `SchedulesContinuation` compute counters and
delay as the code does, in its order: the counters first, then the delay, which
may raise, then the save, then the event, which may raise too and takes the
attempt to its handler with everything already saved. `spoiled`, `streak` and
`last` are history: that the saved session is one that failed to resume, the clean
turns since the last long wait, the last delay.

`_reconcile_waiting` loads all records, awaits `get_issue` for some and saves others
whole. `held` is what it loaded (`Loads`) while an attempt was in progress; if the
attempt has ended when the loop comes to the issue, the old record replaces the
new one, as it was (`WritesBack`) or released (`Releases`), with its counters, its
session and, mostly, `RUNNING`. `undone` counts, as history, the attempts whose
counters were taken back in this way since a failure or a yield was last scheduled.
The loop and the dispatch loop are the same task, so nothing is dispatched while
`held` is in use; a record loaded when no attempt was in progress cannot change
before the loop is through with it.

`LocalRun` is one `run` from the fork. `pc` is the await it is suspended at,
`root` and `child` are the agent and a process it may start, `known`, `reader`,
`paused` and `closed` are what asyncio knows of them, and `guard[c]` is the
`terminate_tree` thread asked for by `run`, by its `CancelledError` handler or by
`_execute`: it looks at the tree (`Aims`) and signals it later (`Signals`).

`Workspace` is one execution target. `jobs` are the `git clone` and `git worktree
add` commands that run, with the stage each has reached and whether an ensure
still waits for it; `control` and `tree` are what they have made so far. A
cancelled ensure leaves its command behind (`owned` becomes false), a timeout
kills the command but not its child (`headless`), `kill -9` leaves all or nothing.
`shared` is one manager with its lock (the scheduler's process) or one per helper
(an SSH host); both are checked. What git itself does is external.

### 2.3 How the modules fit together

`Orchestrator` composes one `Attempt` per issue. Three of its steps stand for
protocols with modules of their own: `Reap` on an SSH target for a `cancel`
request (`RemoteLease` implements `RemoteFence`, the promise `Reap` uses), the
`run` of a local target for `LocalRun` (what `Attempt` counts on is
`ResultMeansStopped` and `NoAgentLeft`), and `Prepared` for an `ensure` of
`Workspace`. `AttemptCycle` looks at the fields of the record that
`Orchestrator` leaves out, through the same handlers.

### 2.4 What is left out of the modelled parts

The branches of `_reap_state` for a record without attempt id or with a target
that is no longer configured: the first cannot arise from the code, the second
behaves like an unconfirmed stop. A failed identity capture (`AccessDenied`).
`TIMED_OUT` is handled as `FAILED`. The wait between ticks. Grandchildren of the
agent other than the one `LocalRun` follows. PID reuse, which the birth time
excludes. `snapshot` and `rev-parse`, which only read.
Attempt ids are uuids: a fresh id is one nothing refers to, so a small set
suffices for any number of attempts.

## 3. The runs

| Run | Instance | Checks |
|---|---|---|
| `hosts` | 1 issue, 1 SSH + 1 local target, an invalid label, every fault | `TypeOK`, `ExecutorAccounted`, `RecoveryResolves`, `Owned`, `BlockedLeft` |
| `two` | 2 issues, 1 SSH target with cap 1, global cap 2, failing tracker, lost confirmations | `Inv`, `CapsRespected`, `AgentsCapped`, `SingleWriter`, `BackoffHeld` |
| `killed` | 1 issue, 2 SSH targets, kill -9, failing tracker, lost confirmations | `NoDuplicateExecutor`, `BlockedUntilStopped` |
| `live` | 1 issue, 1 SSH target, signals, slow awaits, exceptions, failing tracker, lost confirmations, fairness | `HandoffStops`, `KeepsTrying`, `ShutdownCompletes` |
| `lease` | 1 attempt, 2 cancels, stuck children, dying helpers, fairness | `LeaseInv`, `Fenced`, `CancelsStop` |
| `cycle` | 1 issue, 2 targets of which one resumes sessions, every fault, fairness | `CycleInv`, `SessionOnItsTarget`, `FairnessYield`, `BackoffDoubles`, `NoResumeLoop` |
| `local` | 1 agent, 1 child that may leave the tree, failing readers and callbacks, task cancellation, fairness | `RunInv`, `ResultMeansStopped`, `CancelEnds`, `NoAgentLeft` |
| `worktree` | 2 issues, shared or separate managers, git that fails, times out, is cancelled or killed, fairness | `WorkspaceInv`, `HalfTreeWasCut`, `EnsureSucceeds` |

The bounds of the scheduler's runs are the constants only; no guard caps a
counter. One issue is enough for what concerns one record, because an attempt
touches no record but its own and the tick's loops meet another issue only as
time that passes at an await (in `cycle` the fault `"stale"` is that time); the
properties that need that time, or the count of
slots, are checked with two. One target is enough where targets do not interact;
two are used where the label can change. Three attempt ids allow a current
attempt, an escaped one and a fresh one; `live` has two, and `KeepsTrying` says
so: if an escaped executor never ends and holds the last id, the instance cannot
name another attempt, which the code always can. Two cancels cover one that
overtakes the other; `LeaseFences` is proved for any number.

In `cycle`, `MaxExponent = 3` stands for 1023, the largest exponent of 2.0 that is
a float: failure counts beyond are not told apart. With `MaxSeconds = 7`, delays
double twice and are then capped, before the overflow. `MaxIndex = 5` allows two
yields of `MaxConsecutive = 2` and a rest. `MaxUndone = 2` lets the waiting loop take
back two attempts between failures or yields, so that a bound of one more turn, or
one more step, in all is refuted; `TurnsYield` and `BackoffGrows` are proved for
any number. In `worktree` two issues share the
clone; a third would only queue behind the same lock, and both invariants are
proved for any number. Once faults end (`calm`, at any moment) none is injected.

Runs that end in a violation show where the code does other than its documents
say; each is listed in `PROJECT.json` with the line it contradicts:

| Run | What happens |
|---|---|
| `placement_forgets` | An invalid label overwrites `BLOCKED` by the placement error's `BLOCKED`; the corrected label then unblocks the issue without a reap, beside its old executor. |
| `overflow` | `RetryConfig.delay` computes the power before the minimum; `2.0 ** 1024` raises in `_schedule_failure` and again in the handler, so the record stays `RUNNING` and is dispatched at once, without backoff. |
| `held_pipe` | The agent has exited, a process it left behind holds its stdout: `run` does not return, also not at the timeout. |
| `worktree_reset` | The `worktree add` of a cancelled attempt goes on; the next attempt takes the path for a worktree and starts in it while `git reset --hard` still writes it. |

Seven more disagreements follow from the same models and are no runs of their own.
Each is a property of a module, violated under the constants given:

- `BlockedUntilStopped`, two issues, SSH target `t1`, cap 2, ids `a1`, `a2`,
  `Faults = {"unconfirmed"}`: `_reconcile_waiting` releases a record that became
  `BLOCKED` after the loop loaded it.
- `BackoffHeld` without its last exception, the same with `Faults = {}`: that loop
  writes back a record whose attempt failed meanwhile, and the backoff is gone.
  So is the failure: the same save brings the old `failure_count` back, and the next
  failure waits the same delay again (`BackoffDoubles` without its last disjunct,
  constants of `cycle` with `Faults = {"stale"}`).
- `YieldsInTime` of `AttemptCycle`, constants of `cycle` with `Faults = {"stale"}`: a
  clean turn ends while that loop asks GitLab about another issue, and the old
  record it then saves (`orchestrator.py:856`) is `RUNNING` and has the old
  `continuation_index`. The issue is dispatched at once, the turn is not counted,
  and `max_consecutive` turns pass without the yield `ARCHITECTURE.md` promises.
- `NoDuplicateExecutor`, one issue, local target `t1`, `Faults = {"crash"}`: kill -9
  between a local fork and the save of the identity; recovery has nothing to kill.
- `NewerAnswerWins`, one issue, SSH target `t1`, `Faults = {}`: a list made before
  a handoff reactivates an issue an attempt has already released.
- `ConfirmedIsStopped` of `RemoteLease`, one cancel, `Faults = {}`: the agent is
  forked between the snapshot of the helper's children and the signals; the
  cancel confirms, and an orphan is left.
- `FailedResumeAbandoned` of `AttemptCycle`, constants of `cycle` with
  `Faults = {"tracker"}`: a native resume fails, the tracker too, and the session is
  kept and resumed again. `NoResumeLoop` says that this does not go on for ever
  without the session being given up. A stale save of the waiting loop can bring a
  session that was given up back (`Faults = {"stale"}` shows that too), and each time
  it has to be given up anew.

`_reconcile_waiting`'s unreaped release has a second way in, which needs no
stale copy: a handler's reap cut short by `task.cancel()` leaves the record
`RUNNING` without a task, and the release then forgets its executor
(`NoDuplicateExecutor` with `Faults = {"slow"}` and one SSH target shows it).

The passing runs state what holds in spite of them: `ExecutorAccounted` and `Owned`
up to `lost`, `NoDuplicateExecutor` and `BlockedUntilStopped` on instances without
the three ways to lose an executor, `BlockedLeft` up to those three ways by name,
`BackoffHeld` up to a stale copy of the waiting loop, `FairnessYield` up to one more
turn for each attempt that loop took back, `BackoffDoubles` up to one step between two
failures with such an attempt between them, `Fenced` up to orphans,
`CancelEnds` up to a pipe nobody reads, `HalfTreeWasCut` up to cut commands, `EnsureSucceeds` up to two dead ends: a clone that was killed (its `.git`
passes for a clone for ever, for all issues) and a worktree directory that was
made and never registered. None of them weakens its property to a triviality:
each has a plausible one-line bug that breaks it (the operators marked "Mutant
of").

## 4. Fairness

**Scheduler.** The event loop serves `run_forever` whenever it can go on (weak
fairness of its steps) and every attempt again and again. The latter is strong
fairness because an attempt is not served while `run_forever` holds the loop.
Delays run out; strong fairness, because the dispatch loop reads the clock once.
A request that is repeated for ever is answered in the end: strong fairness of the
answered variants of `get_issue`, the list and the reaps, those of a cold start
included, because with `raise` the program may be restarted for ever. Nothing is
assumed about agents, users, signals or crashes: that an executor ends comes from
the reap, and that an attempt's `run` ends comes from the backend's timeout. On a
local target that is what `LocalRun` examines: `run` returns once the agent is
dead unless a process outside its tree keeps the pipe (`held_pipe`) or a reader has
failed and left it unread (`CancelEnds`), so the liveness of `live`, whose target
is an SSH host, is to be read for local targets with that proviso.

**`RemoteLease`.** Only helper processes that are running are scheduled; requests
may never arrive and agents may never end.

**`AttemptCycle`.** GitLab answers after some of the failed attempts, if failed
attempts never end (`SF` of `FindsActiveAfterFailure`).

**`LocalRun`.** The event loop, the threads and `run` itself go on, the timeout runs
out, a killed process dies; children end unless `linger` is injected.

**`Workspace`.** Attempts ask again (the scheduler retries), ensures and git
commands that are not cut go on, the lock is served in order (asyncio's is FIFO;
strong fairness of `Acquires`), and the faults cease at some point.

## 5. What is proved

All theorems hold for every set of issues, targets, labels, attempt ids and
cancels, every cap, delay and counter bound and every choice of faults, from the
named assumptions of the modules alone (`ConstantsAssumption`,
`FaultsAssumption`, `CycleAssumption`, `WorkspaceAssumption`).

**Type correctness** (`TypeCorrect`), one lemma per group of actions.

**Executors are accounted for** (`ExecutorsAccounted`). The property is not
inductive: a loop that acts on a record it loaded earlier could overwrite the
record of a newer attempt. `Inv` therefore says how far copies in memory may
differ from the durable records:

- `RecoveryCopies`, `AloneInRecovery`: during a cold start there is no attempt,
  and a copy differs only in being `READY` already, after a confirmed reap.
- `BlockedCopies`: the blocked loop holds current records of issues without an
  attempt, because nothing but the dispatch loop leaves `BLOCKED`.
- `WaitingCopies`: here a copy *may* be stale, when the attempt has ended since;
  but then it says `RUNNING` and names the same attempt.
- `AttemptOwnsRecord`, `StoppedBeforeRefresh`: an attempt's record says `RUNNING`
  until it ends, and it leaves `RUNNING` only after the executor has stopped.
- `TurnHasNoAttempt`: a loop suspended at an issue finds it without an attempt.

The proof has one lemma per part of the next-state relation. Most steps touch
one issue, so a *frame* lemma first shows that they leave the others alone;
another one (`FrameKeeps`, `SaveKeeps`) shows that a step at one issue's turn
keeps the copies of the rest.

From `Inv` follow three results about steps and states (`StepProofs`):
`OneWriter` (the run_forever task never writes a record of an attempt in
progress), `ColdStartResolves` (after recovery nothing is `RUNNING` or waiting,
and what still runs is `BLOCKED`), and `OneExecutorEach`: as long as `lost` is
empty no issue has two executors. An executor gets into `lost` only in a local
reap without identity (`Reap`), in the unreaped release of `WaitingGet`, and in
a `Misplaces` over `BLOCKED`, so the theorem says that these three places are
the *only* ways to a duplicate.

**Leaving `BLOCKED`, leaving `RETRY_WAIT`** (`BlockedWaits`, `BackoffKept`). Both are
action properties, and what decides them is what a loop suspended at an issue knows
of it: `TurnInv` strengthens `Inv` by what each await leaves true. `ReapedAtGet`: a
loop that asks GitLab about a `BLOCKED` issue has seen its executor stopped or had
no identity to stop. `WaitingLoaded`: the waiting loop only visits records that
waited or ran. `StaleAtReap`: what the dispatch loop reaps is `RUNNING` and
stays so meanwhile. The exceptions `BlockedLeft` and `BackoffHeld` name are the
disagreements of section 3, and the theorems say that there are no others.

**Ownership and caps** (`OwnershipKept`, `CapsHold`). Only the dispatch loop starts
attempts; in every other step attempts and executors at most end and keep their
record's target and id (`AttemptsShrink`, `Shrinks`, one lemma per part of the
next-state relation). For the caps, the free slots counted before the dispatch
loop's awaits are then never too high (`SlotsCounted`). For `Ownership`, a step that
shrinks maps to one of the abstract steps for each issue; what remains is the
dispatch, which takes a free issue, and `Prepared`, which starts an agent in an
attempt that goes on. `Inv` supplies that there is at most one agent and none where
the issue is free.

**The caps of the hosts** (`HostsWithinCaps`). `CapsRespected` counts attempts, as the
code does; `AgentsCapped` counts agents. By `Inv` an attempt in progress has at most
one agent that is not lost, on the target its record names, so that agents map
one-to-one to attempts (`OneEach`).

**Nothing escapes** (`BlockedStays`, `NoneEscapes`, `CopiesFresh`, `KilledSafely`).
`OneExecutorEach` leaves open when `lost` stays empty. `Confined` says where: SSH
targets only, labels that all name one, no await that outlasts its timeout and no
unexpected exception; `kill -9`, signals, a failing tracker and lost confirmations
remain. Local targets are excluded because of the kill between fork and identity,
bad labels because of `placement_forgets`, `slow` and `raise` because they can
leave a record `RUNNING` without a task (section 3). `EscapeInv` then says that
nothing is lost and that, outside a cold start, an executor is in the charge of an
attempt in progress or of a `BLOCKED` record (`Attended`). One assumption
is about behaviours and not about constants: `NoStaleCopy`, that the waiting loop
never stands at a record that has become `BLOCKED` since it was loaded.
`CopiesFresh` discharges it in two cases: no confirmation is lost, so that nothing
becomes `BLOCKED` while attempts end; or there is one issue, for which the loop does
not wait between loading and reading it. With two issues and `unconfirmed` it is false
(the first disagreement of section 3), which is why `KilledSafely` asks for one of
the two. It covers the run `killed` for any number of targets and attempts.

**The fence** (`LeaseInvariant`, `LeaseFences`). A cancel writes the tombstone
and then reads the lease; a helper writes its lease and then reads the
tombstone. `LeaseInv` says that the lease names every helper that may still fork
and every agent of a living helper, that the two helpers never overlap, and what
the identities a cancel has read imply about the helper's progress. From it:
once nothing may run, nothing ever may (`StaysStopped`), and a cancel confirms
only then (`ConfirmsStopped`); these are the two steps of `RemoteFence`.
Orphans, children whose helper is gone and that no lease names, are outside the
fence: `ConfirmedIsStopped` (section 3) shows how one arises without any fault.

**The attempt cycle** (`CycleCorrect`, `SessionScoped`). `CycleInv` relates what the
attempt and the waiting loop have in memory to what is on disk at every await, also after an exception half-way
through the scheduling of a failure; that a session belongs to the record's target
and to a counted attempt follows, and with it that a native resume has one.

**Backoff and yield** (`BackoffGrows`, `TurnsYield`). `Counters` relates the history
to the counters in memory, on disk and in `held`. `YieldInv`: `streak` is at most the
continuation index modulo `MaxConsecutive` plus `undone`, and what is held lacks one
turn at most, that of the attempt during which it was loaded; when it is written back,
`undone` grows by one, which makes up for the turn. `BackoffInv`: `last` is the delay
that belongs to the failure count while nothing was taken back, and in any case at
most the delay two counts later: what is held is at most two failures behind, one
counted by the attempt and one more by its handler. That the delays grow with the count
is `DelaysGrow`. Without `"stale"` nothing is ever held, and the yield comes in
time (`YieldsUndisturbed`). The arithmetic (one more failure is one more factor,
before and after the cap; one more turn is one more remainder or none) is stated as
lemmas on `Power` and `%`. `Power` is a recursive function. The library's induction
rules take an operator as a parameter; its defining equation and what is proved about it
therefore rest on sets of numbers, and on `WFMin`: a non-empty one has a least member.

**A local run** (`RunCorrect`, `ResultStopped`). `RunInv` says that what the event loop
knows is true of the processes, and how far each `terminate_tree` thread has come
at each await; at `drain` the exit is known and the thread `run` asked for is done,
so that what it found is dead.

**The workspace** (`WorkspaceCorrect`, `OnlyCutTrees`). `WorkspaceInv` says which
ensure waits for which command under which lock. It is not enough for
`HalfTreeWasCut`: `UncutInv` adds that, for an issue that was never cut, all adds are
owned and a registered worktree is still being written by one. With `OneCommand`
an ensure that is about to return a path then finds a complete one, and
`OwnersWait` says that nothing writes it afterwards. `NeverResetUncut` is the promise
of ARCHITECTURE.md that `worktree_reset` shows broken, proved for the case that
nothing is cancelled or killed.

**Only model-checked:** liveness (`HandoffStops`, `KeepsTrying`,
`ShutdownCompletes`, `CancelsStop`, `NoResumeLoop`, `CancelEnds`, `NoAgentLeft`,
`EnsureSucceeds`), which is out of the prover's reach under fairness. Every safety
property and action property of a passing run is stated by a theorem; those that
hold on the instances of their runs and not in general
(`BlockedUntilStopped`, `NoDuplicateExecutor`) under the assumptions named above.

## 6. Not modelled

Parsing and validation of the configuration, prompts, events and payloads: pure
conversions, or a log nothing reads back. Corrupt state files, which end the
program. SSH framing. The length of the wait between ticks (`_next_wait_seconds`)
and with it busy polling for a due issue its target has no slot for: the models
have no clock. The order among more active issues than slots over time: whether
low issue numbers starve the others depends on turns being shorter than the
yield, again on a clock. In the remote runner, a lease that cannot be saved after the
fork (`remote_runner.py:302`) and a blocking `print` (`remote_runner.py:41`), which
depend on the interpreter's shutdown and on pipe buffers.

## 7. Plan

Done: the scheduler with its attempts and its abstract specification; the remote
fence; the attempt cycle; a local run; the workspace.

1. `PollLoop`: `_next_wait_seconds` with a discrete clock against due issues, caps
   and the poll interval; properties: no missed wake-up, no busy polling, no
   starvation while turns are shorter than the yield.
2. Offset pagination of the tracker's list while labels change.
3. Proofs: the step properties behind the liveness results; that `RemoteLease`
   leaves no orphan where no fork races a cancel.
