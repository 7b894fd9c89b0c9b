---------------------------- MODULE Orchestrator ----------------------------
(***************************************************************************)
(* The scheduling authority: cold-start recovery, the tick (reconcile the  *)
(* running attempts, list, reconcile blocked and waiting issues, dispatch) *)
(* and shutdown, composed with one Attempt per issue, the tracker's users  *)
(* and kill -9.                                                            *)
(*                                                                         *)
(* run_forever awaits recover, tick and shutdown in turn, so one `pc` says *)
(* where it is.  asyncio is cooperative: at a pc in HoldsLoop nothing else *)
(* runs; at the others the action is what happens when the await returns.  *)
(* Every loop over durable records visits them in issue order.             *)
(***************************************************************************)
EXTENDS Attempt

NextUp(i) == i \in todo /\ \A j \in todo : i <= j

\* The loop is done with i.
Advance(i, place) == todo' = todo \ {i} /\ pc' = place

Save(i, r) == rec' = [rec EXCEPT ![i] = r]

InPhase(phases) == {i \in Issues : rec[i].phase \in phases}

Nothing == [i \in Issues |-> NewRecord]

NoCandidates == [i \in Issues |-> Inactive]

NoCounts == [t \in Targets |-> 0]

Listed(i) == candidates[i] # Inactive

LeavesTick(place) ==
    /\ pc' = place
    /\ loaded' = Nothing /\ todo' = {}
    /\ candidates' = NoCandidates /\ overruled' = {}
    /\ to_cancel' = {}
    /\ slots' = 0 /\ target_counts' = NoCounts

TrackerFails == "tracker" \in Faults

-----------------------------------------------------------------------------
(* Cold start *)

Start ==
    /\ pc = "down"
    /\ pc' = "recover"
    /\ loaded' = rec
    /\ todo' = {i \in Issues : rec[i].phase # "absent"}
    /\ UNCHANGED <<tracker, taskVars, candidates, to_cancel, slots,
                   target_counts, stopping>>

\* Mutant of NeedsReap: only a record with a process identity is reaped.
NeedsReapByIdentity(r) == r.process /\ r.phase # "placement_blocked"

NeedsReap(r) ==
    /\ r.process \/ r.phase \in {"running", "blocked"}
    /\ r.phase # "placement_blocked"

\* _reap_state saves the cleared identity; READY so far only in memory.
RecoverReap(i, safe) ==
    /\ pc = "recover" /\ NextUp(i) /\ NeedsReap(loaded[i])
    /\ Reap(i, loaded[i], safe)
    /\ pc' = "recoverGet"
    /\ \/ /\ safe
          /\ Save(i, [loaded[i] EXCEPT !.process = FALSE])
          /\ loaded' = [loaded EXCEPT ![i].phase = "ready", ![i].process = FALSE]
       \/ /\ ~safe
          /\ Save(i, Unconfirmed(loaded[i]))
          /\ loaded' = [loaded EXCEPT ![i] = Unconfirmed(loaded[i])]
    /\ UNCHANGED <<tracker, task, overruled, todo, candidates, to_cancel, slots,
                   target_counts, stopping>>

\* Mutant of Resumed: a tracker failure leaves the phase alone.
ResumedAsItWas(phase) == phase

\* The phase of an issue that is active, or that the tracker cannot tell of.
Resumed(phase) ==
    IF phase \in {"blocked", "placement_blocked"} THEN phase ELSE "ready"

\* Mutant of Retired: the tracker overrides an unconfirmed executor too.
RetiredAlways(phase) == "released"

\* The phase of an issue that is no longer active.
Retired(phase) == IF phase = "blocked" THEN phase ELSE "released"

\* The tracker decides: an unconfirmed executor stays BLOCKED whatever it says,
\* an invalid placement is released when the issue is no longer active.
RecoverGet(i, answered) ==
    /\ NextUp(i)
    /\ pc = "recoverGet" \/ (pc = "recover" /\ ~NeedsReap(loaded[i]))
    /\ LET phase == loaded[i].phase IN
       \/ /\ IF answered THEN tracker[i] # Inactive ELSE TrackerFails
          /\ Save(i, [loaded[i] EXCEPT !.later = FALSE, !.phase = Resumed(phase)])
       \/ /\ answered /\ tracker[i] = Inactive
          /\ Save(i, [loaded[i] EXCEPT !.later = FALSE, !.phase = Retired(phase)])
    /\ Advance(i, "recover")
    /\ UNCHANGED <<tracker, task, live, lost, overruled, loaded, candidates,
                   to_cancel, slots, target_counts, stopping>>

RecoverEnds ==
    /\ pc = "recover" /\ todo = {}
    /\ LeavesTick("idle")
    /\ UNCHANGED <<tracker, rec, task, live, lost, stopping>>

-----------------------------------------------------------------------------
(* tick: _reconcile_running *)

\* Mutant of TickBegins: run_forever does not look at _stopping.
TickBeginsRegardless ==
    /\ pc = "idle"
    /\ pc' = IF Running = {} THEN "listing" ELSE "reconcile"
    /\ UNCHANGED <<tracker, taskVars, loaded, todo, candidates, to_cancel, slots,
                   target_counts, stopping>>

\* The wait of run_forever is over.
TickBegins ==
    /\ pc = "idle" /\ ~stopping
    /\ pc' = IF Running = {} THEN "listing" ELSE "reconcile"
    /\ UNCHANGED <<tracker, taskVars, loaded, todo, candidates, to_cancel, slots,
                   target_counts, stopping>>

\* A stopping tick returns before it lists.
AfterReconcile == IF stopping THEN "idle" ELSE "listing"

\* All get_issue calls are back; the entries whose issue no longer asks for
\* the target they run on are cancelled, those of `unread` are kept.
ReconcilesRunning(unread) ==
    /\ pc = "reconcile"
    /\ unread \subseteq Running
    /\ unread # {} => TrackerFails
    /\ LET strays == {i \in Running \ unread : tracker[i] # rec[i].target} IN
       /\ task' = Signalled(strays)
       /\ to_cancel' = strays
       /\ pc' = IF strays = {} THEN AfterReconcile ELSE "cancelling"
    /\ UNCHANGED <<tracker, rec, live, lost, overruled, loaded, todo, candidates,
                   slots, target_counts, stopping>>

CancelledAllEnd ==
    /\ pc \in {"cancelling", "gathering"} /\ to_cancel \cap Running = {}
    /\ pc' = AfterReconcile
    /\ to_cancel' = {}
    /\ UNCHANGED <<tracker, taskVars, loaded, todo, candidates, slots,
                   target_counts, stopping>>

\* asyncio.wait timed out: task.cancel() what is pending, then wait for it.
CancelTimesOut ==
    /\ "slow" \in Faults
    /\ pc = "cancelling" /\ to_cancel \cap Running # {}
    /\ CancelTasks(to_cancel \cap Running)
    /\ pc' = "gathering"
    /\ UNCHANGED <<tracker, rec, overruled, loaded, todo, candidates, to_cancel,
                   slots, target_counts, stopping>>

-----------------------------------------------------------------------------
(* tick: list_active_issues *)

ListFails ==
    /\ pc = "listing" /\ TrackerFails
    /\ LeavesTick("idle")
    /\ UNCHANGED <<tracker, rec, task, live, lost, stopping>>

\* GitLab makes its answer; the scheduler reads it some time later.
ListAnswered ==
    /\ pc = "listing"
    /\ pc' = "listed"
    /\ candidates' = tracker
    /\ overruled' = {}
    /\ UNCHANGED <<tracker, rec, task, live, lost, loaded, todo, to_cancel, slots,
                   target_counts, stopping>>

\* Mutant of BlockedIssues: only issues that are still active are unblocked.
BlockedIssuesListed ==
    {i \in InPhase({"blocked", "placement_blocked"}) : Listed(i)}

\* _reconcile_blocked loads all records and keeps the BLOCKED ones.
BlockedIssues == InPhase({"blocked", "placement_blocked"})

ListReceived ==
    /\ pc = "listed"
    /\ pc' = "blocked"
    /\ loaded' = rec
    /\ todo' = BlockedIssues
    /\ UNCHANGED <<tracker, taskVars, candidates, to_cancel, slots,
                   target_counts, stopping>>

-----------------------------------------------------------------------------
(* tick: _reconcile_blocked *)

BlockedTurn(i) ==
    /\ pc = "blocked" /\ NextUp(i)
    /\ \/ /\ loaded[i].phase = "placement_blocked" /\ Listed(i)
          /\ Advance(i, "blocked")
       \/ /\ loaded[i].phase = "placement_blocked" /\ ~Listed(i)
          /\ pc' = "blockedGet" /\ todo' = todo
       \/ /\ loaded[i].phase = "blocked"
          /\ pc' = "blockedReap" /\ todo' = todo
    /\ UNCHANGED <<tracker, taskVars, loaded, candidates, to_cancel, slots,
                   target_counts, stopping>>

BlockedReap(i, safe) ==
    /\ pc = "blockedReap" /\ NextUp(i)
    /\ Reap(i, loaded[i], safe)
    /\ \/ /\ ~safe
          /\ Save(i, Unconfirmed(loaded[i]))
          /\ Advance(i, "blocked") /\ loaded' = loaded
       \/ /\ safe /\ Listed(i)
          /\ Save(i, Settled(loaded[i], "ready"))
          /\ Advance(i, "blocked") /\ loaded' = loaded
       \/ /\ safe /\ ~Listed(i)
          /\ Save(i, [loaded[i] EXCEPT !.process = FALSE])
          /\ loaded' = [loaded EXCEPT ![i].process = FALSE]
          /\ pc' = "blockedGet" /\ todo' = todo
    /\ UNCHANGED <<tracker, task, overruled, candidates, to_cancel, slots,
                   target_counts, stopping>>

\* An issue that is not listed is read on its own.  A confirmed stop makes it
\* READY also when the tracker fails; an invalid placement only gets RELEASED.
BlockedGet(i, answered) ==
    /\ pc = "blockedGet" /\ NextUp(i)
    /\ ~answered => TrackerFails
    /\ \/ /\ answered /\ tracker[i] = Inactive
          /\ Save(i, [loaded[i] EXCEPT !.phase = "released", !.later = FALSE])
       \/ /\ answered => tracker[i] # Inactive
          /\ \/ /\ loaded[i].phase = "blocked"
                /\ Save(i, [loaded[i] EXCEPT !.phase = "ready"])
             \/ /\ loaded[i].phase = "placement_blocked"
                /\ rec' = rec
    /\ Advance(i, "blocked")
    /\ UNCHANGED <<tracker, task, live, lost, overruled, loaded, candidates,
                   to_cancel, slots, target_counts, stopping>>

\* _reconcile_waiting loads all records and keeps those it may act on.
BlockedEnds ==
    /\ pc = "blocked" /\ todo = {}
    /\ pc' = "waiting"
    /\ loaded' = rec
    /\ todo' = InPhase(DispatchablePhases \cup {"running"})
    /\ UNCHANGED <<tracker, taskVars, candidates, to_cancel, slots,
                   target_counts, stopping>>

-----------------------------------------------------------------------------
(* tick: _reconcile_waiting *)

\* Mutant of WaitingTurn: the loop does not look at self.running.
WaitingTurnRunningToo(i) ==
    /\ pc = "waiting" /\ NextUp(i)
    /\ \/ Listed(i) /\ Advance(i, "waiting") /\ Save(i, loaded[i])
       \/ ~Listed(i) /\ pc' = "waitingGet" /\ todo' = todo /\ rec' = rec
    /\ UNCHANGED <<tracker, task, live, lost, overruled, loaded, candidates,
                   to_cancel, slots, target_counts, stopping>>

\* A listed issue has the record that was loaded written back.
WaitingTurn(i) ==
    /\ pc = "waiting" /\ NextUp(i)
    /\ \/ /\ i \in Running
          /\ Advance(i, "waiting") /\ rec' = rec
       \/ /\ i \notin Running /\ Listed(i)
          /\ Advance(i, "waiting") /\ Save(i, loaded[i])
       \/ /\ i \notin Running /\ ~Listed(i)
          /\ pc' = "waitingGet" /\ todo' = todo /\ rec' = rec
    /\ UNCHANGED <<tracker, task, live, lost, overruled, loaded, candidates,
                   to_cancel, slots, target_counts, stopping>>

\* An issue that is no longer active is released, without a reap.
WaitingGet(i, answered) ==
    /\ pc = "waitingGet" /\ NextUp(i)
    /\ ~answered => TrackerFails
    /\ \/ /\ answered /\ tracker[i] = Inactive
          /\ Save(i, Settled(loaded[i], "released"))
          /\ lost' = lost \cup {e \in live : e.issue = i}
       \/ /\ answered => tracker[i] # Inactive
          /\ rec' = rec /\ lost' = lost
    /\ Advance(i, "waiting")
    /\ UNCHANGED <<tracker, task, live, overruled, loaded, candidates, to_cancel,
                   slots, target_counts, stopping>>

\* Mutant of Adoptable: an issue that was released is never taken up again.
AdoptableOnce == {"absent"}

\* Phases in which a listed issue becomes READY.
Adoptable == {"absent", "released"}

\* Listed issues get a record, or their released record back; then the slots
\* are counted and the dispatch loop starts, if there is a slot at all.
Adopts ==
    /\ pc = "waiting" /\ todo = {}
    /\ rec' = [i \in Issues |->
                 IF Listed(i) /\ rec[i].phase \in Adoptable
                   THEN [rec[i] EXCEPT !.phase = "ready", !.later = FALSE]
                   ELSE rec[i]]
    /\ \/ /\ Cardinality(Running) >= MaxConcurrentAgents
          /\ LeavesTick("idle")
       \/ /\ Cardinality(Running) < MaxConcurrentAgents
          /\ pc' = "dispatch"
          /\ todo' = {i \in Issues : Listed(i)}
          /\ slots' = MaxConcurrentAgents - Cardinality(Running)
          /\ target_counts' = [t \in Targets |->
                Cardinality({i \in Running : rec[i].target = t})]
          /\ loaded' = Nothing
          /\ UNCHANGED <<candidates, overruled, to_cancel>>
    /\ UNCHANGED <<tracker, task, live, lost, stopping>>

-----------------------------------------------------------------------------
(* tick: the dispatch loop.  `now` is read before it, so no delay runs out  *)
(* inside.                                                                 *)

AtTurn(i) == pc = "dispatch" /\ slots > 0 /\ NextUp(i)

SkipsRunning(i) ==
    /\ AtTurn(i) /\ i \in Running
    /\ Advance(i, "dispatch")
    /\ UNCHANGED <<tracker, taskVars, loaded, candidates, to_cancel, slots,
                   target_counts, stopping>>

\* RUNNING without a task: its executor is reaped first.
FindsStale(i) ==
    /\ AtTurn(i) /\ i \notin Running /\ rec[i].phase = "running"
    /\ pc' = "dispatchReap"
    /\ UNCHANGED <<tracker, taskVars, loaded, todo, candidates, to_cancel, slots,
                   target_counts, stopping>>

\* After a confirmed reap the loop goes on with the same issue, now READY.
DispatchReap(i, safe) ==
    /\ pc = "dispatchReap" /\ NextUp(i)
    /\ Reap(i, rec[i], safe)
    /\ \/ /\ safe
          /\ Save(i, Settled(rec[i], "ready"))
          /\ pc' = "dispatch" /\ todo' = todo
       \/ /\ ~safe
          /\ Save(i, Unconfirmed(rec[i]))
          /\ Advance(i, "dispatch")
    /\ UNCHANGED <<tracker, task, overruled, loaded, candidates, to_cancel, slots,
                   target_counts, stopping>>

AtPlacement(i) == AtTurn(i) /\ i \notin Running /\ rec[i].phase # "running"

\* Mutant of Misplaces: the requested label is stored before it is resolved.
MisplacesWithLabel(i) ==
    /\ AtPlacement(i) /\ candidates[i] \notin Targets
    /\ Save(i, [rec[i] EXCEPT !.phase = "placement_blocked", !.later = FALSE,
                              !.target = candidates[i]])
    /\ lost' = IF rec[i].phase = "blocked"
                 THEN lost \cup {e \in live : e.issue = i} ELSE lost
    /\ Advance(i, "dispatch")
    /\ UNCHANGED <<tracker, task, live, overruled, loaded, candidates, to_cancel,
                   slots, target_counts, stopping>>

\* PlacementError, whatever phase the record was in: an executor of a record
\* that was BLOCKED is forgotten.
Misplaces(i) ==
    /\ AtPlacement(i) /\ candidates[i] \notin Targets
    /\ Save(i, [rec[i] EXCEPT !.phase = "placement_blocked", !.later = FALSE])
    /\ lost' = IF rec[i].phase = "blocked"
                 THEN lost \cup {e \in live : e.issue = i} ELSE lost
    /\ Advance(i, "dispatch")
    /\ UNCHANGED <<tracker, task, live, overruled, loaded, candidates, to_cancel,
                   slots, target_counts, stopping>>

\* Mutant of Unblocked: any BLOCKED record is READY again once it is placed.
UnblockedAny(r) ==
    IF r.phase \in {"blocked", "placement_blocked"} THEN [r EXCEPT !.phase = "ready"]
    ELSE r

\* A record whose only fault was its placement is READY again.
Unblocked(r) ==
    IF r.phase = "placement_blocked" THEN [r EXCEPT !.phase = "ready"] ELSE r

\* A uuid4 that nothing refers to.
FreshIds(i) ==
    AttemptIds \ ({rec[i].attempt} \cup {e.attempt : e \in {x \in live : x.issue = i}})

\* Mutant of Due: next_run_at is not looked at.
DueAtOnce(i) == TRUE

\* next_run_at has been reached.
Due(i) == ~rec[i].later

\* Mutant of HasTargetSlot: one attempt too many is let in.
HasTargetSlotOrOneMore(i) == target_counts[candidates[i]] <= TargetCap[candidates[i]]

\* The target asked for has a free slot, by the count made at the loop's start.
HasTargetSlot(i) == target_counts[candidates[i]] < TargetCap[candidates[i]]

Dispatchable(i) ==
    /\ Unblocked(rec[i]).phase \in DispatchablePhases
    /\ Due(i)
    /\ HasTargetSlot(i)
    /\ FreshIds(i) # {}

PassesOver(i) ==
    /\ AtPlacement(i) /\ candidates[i] \in Targets /\ ~Dispatchable(i)
    /\ Save(i, Unblocked(rec[i]))
    /\ Advance(i, "dispatch")
    /\ UNCHANGED <<tracker, task, live, lost, overruled, loaded, candidates,
                   to_cancel, slots, target_counts, stopping>>

\* _dispatch and the start of _execute up to its first await, the request (on
\* a remote target) that prepares the workspace under a lease.  The new task
\* runs before the tick is resumed, and shares nothing with the loop's rest.
Dispatches(i, id) ==
    /\ AtPlacement(i) /\ candidates[i] \in Targets /\ Dispatchable(i)
    /\ id \in FreshIds(i)
    /\ Save(i, [phase |-> "running", target |-> candidates[i], attempt |-> id,
                process |-> FALSE, later |-> FALSE])
    /\ task' = [task EXCEPT ![i] = [NoTask EXCEPT !.pc = "prepare"]]
    /\ live' = IF candidates[i] \in LocalTargets THEN live
               ELSE live \cup {[issue |-> i, attempt |-> id, target |-> candidates[i]]}
    /\ slots' = slots - 1
    /\ target_counts' = [target_counts EXCEPT ![candidates[i]] = @ + 1]
    /\ Advance(i, "dispatch")
    /\ UNCHANGED <<tracker, lost, overruled, loaded, candidates, to_cancel, stopping>>

TickEnds ==
    /\ pc = "dispatch"
    /\ slots = 0 \/ todo = {}
    /\ LeavesTick("idle")
    /\ UNCHANGED <<tracker, rec, task, live, lost, stopping>>

-----------------------------------------------------------------------------
(* Shutdown *)

\* SIGTERM or SIGINT: shutdown() as a task of its own.
Sigterm ==
    /\ "sigterm" \in Faults /\ LoopFree
    /\ stopping' = TRUE
    /\ task' = Signalled(Running)
    /\ UNCHANGED <<tracker, rec, live, lost, overruled, tickVars>>

\* The wait of some shutdown() timed out; every signal starts another one.
ShutdownCancels(i) ==
    /\ "slow" \in Faults /\ LoopFree /\ stopping
    /\ i \in Running /\ task[i].cancel
    /\ CancelTasks({i})
    /\ UNCHANGED <<tracker, rec, overruled, tickVars, stopping>>

\* run_forever leaves its loop for its `finally`: shutdown() once more.
DrainBegins ==
    /\ pc = "idle" /\ stopping
    /\ LeavesTick("drain")
    /\ task' = Signalled(Running)
    /\ UNCHANGED <<tracker, rec, live, lost, stopping>>

\* An exception nobody catches in recover or tick also leads to the `finally`.
TickRaises ==
    /\ "raise" \in Faults
    /\ pc \in {"recover", "recoverGet", "listed", "blockedReap", "blockedGet",
               "waitingGet", "dispatchReap"}
    /\ LeavesTick("drain")
    /\ stopping' = TRUE
    /\ task' = Signalled(Running)
    /\ UNCHANGED <<tracker, rec, live, lost>>

Drained ==
    /\ pc = "drain" /\ Running = {}
    /\ LeavesTick("down")
    /\ stopping' = FALSE
    /\ UNCHANGED <<tracker, rec, task, live, lost>>

-----------------------------------------------------------------------------
(* The environment *)

\* kill -9: tasks and memory are gone, records and executors stay.
Crash ==
    /\ "crash" \in Faults /\ pc # "down"
    /\ LeavesTick("down")
    /\ stopping' = FALSE
    /\ task' = [i \in Issues |-> NoTask]
    /\ UNCHANGED <<tracker, rec, live, lost>>

\* A user relabels, closes or reopens an issue.
Relabels(i) ==
    /\ tracker' \in {[tracker EXCEPT ![i] = l] : l \in Labels \cup {Inactive}}
    /\ UNCHANGED <<taskVars, tickVars, stopping>>

\* An agent (or a workspace helper) ends by itself.
ExecutorEnds(e) ==
    /\ e \in live
    /\ live' = live \ {e}
    /\ lost' = lost \ {e}
    /\ UNCHANGED <<tracker, rec, task, overruled, tickVars, stopping>>

\* next_run_at of i is reached.
DelayEnds(i) ==
    /\ pc \notin {"dispatch", "dispatchReap"}
    /\ rec[i].later \/ loaded[i].later
    /\ rec' = [rec EXCEPT ![i].later = FALSE]
    /\ loaded' = [loaded EXCEPT ![i].later = FALSE]
    /\ UNCHANGED <<tracker, task, live, lost, overruled, pc, todo, candidates,
                   to_cancel, slots, target_counts, stopping>>

-----------------------------------------------------------------------------
Init ==
    /\ tracker \in [Issues -> Labels \cup {Inactive}]
    /\ rec = Nothing
    /\ task = [i \in Issues |-> NoTask]
    /\ live = {} /\ lost = {} /\ overruled = {}
    /\ pc = "down"
    /\ loaded = Nothing /\ todo = {}
    /\ candidates = NoCandidates /\ to_cancel = {}
    /\ slots = 0 /\ target_counts = NoCounts
    /\ stopping = FALSE

RecoverStep ==
    \/ Start \/ RecoverEnds
    \/ \E i \in Issues, ok \in BOOLEAN : RecoverReap(i, ok) \/ RecoverGet(i, ok)

ReconcileStep ==
    \/ TickBegins \/ CancelledAllEnd \/ CancelTimesOut
    \/ \E unread \in SUBSET Issues : ReconcilesRunning(unread)
    \/ ListFails \/ ListAnswered \/ ListReceived
    \/ BlockedEnds \/ Adopts
    \/ \E i \in Issues : BlockedTurn(i) \/ WaitingTurn(i)
    \/ \E i \in Issues, ok \in BOOLEAN :
         BlockedReap(i, ok) \/ BlockedGet(i, ok) \/ WaitingGet(i, ok)

DispatchStep ==
    \/ \E i \in Issues : \/ SkipsRunning(i) \/ FindsStale(i) \/ Misplaces(i)
                         \/ PassesOver(i)
                         \/ \E ok \in BOOLEAN : DispatchReap(i, ok)
                         \/ \E id \in AttemptIds : Dispatches(i, id)
    \/ TickEnds

ShutdownStep ==
    \/ Sigterm \/ DrainBegins \/ TickRaises \/ Drained
    \/ \E i \in Issues : ShutdownCancels(i)

EnvironmentStep ==
    \/ Crash
    \/ \E i \in Issues : Relabels(i) \/ DelayEnds(i)
    \/ \E e \in Executors : ExecutorEnds(e)

Next ==
    \/ RecoverStep \/ ReconcileStep \/ DispatchStep \/ ShutdownStep
    \/ \E i \in Issues : AttemptStep(i)
    \/ EnvironmentStep

Spec == Init /\ [][Next]_vars
=============================================================================
