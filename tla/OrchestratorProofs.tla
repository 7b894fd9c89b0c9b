------------------------- MODULE OrchestratorProofs -------------------------
(***************************************************************************)
(* TypeOK is an invariant of the scheduler, for every set of issues,       *)
(* targets, labels and faults.                                             *)
(***************************************************************************)
EXTENDS SchedulerProperties, TLAPS, FiniteSetTheorems

-----------------------------------------------------------------------------
(* The operators on records, tasks and executors keep their types *)

LEMMA RecordTypes ==
    ASSUME NEW r \in Records
    PROVE  /\ Unconfirmed(r) \in Records
           /\ RetryLater(r) \in Records
           /\ Unblocked(r) \in Records
           /\ [r EXCEPT !.process = FALSE] \in Records
           /\ [r EXCEPT !.process = TRUE] \in Records
           /\ [r EXCEPT !.later = FALSE] \in Records
<1>1. "blocked" \in Phases /\ "ready" \in Phases /\ "retry_wait" \in Phases
  BY DEF Phases
<1>2. Unconfirmed(r) \in Records
  BY <1>1 DEF Records, Unconfirmed
<1>3. RetryLater(r) \in Records
  BY <1>1 DEF Records, RetryLater, Settled
<1>4. Unblocked(r) \in Records
  BY <1>1 DEF Records, Unblocked
<1>5. /\ [r EXCEPT !.process = FALSE] \in Records
      /\ [r EXCEPT !.process = TRUE] \in Records
      /\ [r EXCEPT !.later = FALSE] \in Records
  BY DEF Records
<1> QED  BY <1>2, <1>3, <1>4, <1>5

LEMMA PhaseTypes ==
    ASSUME NEW r \in Records, NEW phase \in Phases
    PROVE  /\ Settled(r, phase) \in Records
           /\ [Settled(r, phase) EXCEPT !.later = TRUE] \in Records
           /\ [r EXCEPT !.phase = phase] \in Records
           /\ [r EXCEPT !.phase = phase, !.later = FALSE] \in Records
           /\ [r EXCEPT !.later = FALSE, !.phase = phase] \in Records
           /\ [r EXCEPT !.phase = phase, !.process = FALSE] \in Records
  BY DEF Records, Settled

LEMMA NothingType == Nothing \in [Issues -> Records]
  BY DEF Nothing, NewRecord, Records, Phases

LEMMA NoTaskType == NoTask \in Tasks
  BY DEF NoTask, Tasks, Outcomes

LEMMA SignalledType ==
    ASSUME TypeOK, NEW S \in SUBSET Issues
    PROVE  Signalled(S) \in [Issues -> Tasks]
  BY DEF TypeOK, Signalled, Tasks

LEMMA ReapType ==
    ASSUME TypeOK, NEW i, NEW r, NEW safe, Reap(i, r, safe)
    PROVE  live' \subseteq Executors /\ lost' \subseteq live'
  BY DEF TypeOK, Reap

\* A task that goes on and a task that ends keep records and tasks typed.
LEMMA GoToType ==
    ASSUME TypeOK, NEW i \in Issues,
           NEW place \in {"run", "blocking", "mend", "abort"}, GoTo(i, place)
    PROVE  task' \in [Issues -> Tasks] /\ rec' \in [Issues -> Records]
<1>1. rec' \in [Issues -> Records]
  BY DEF TypeOK, GoTo
<1>2. task \in [Issues -> Tasks]
  BY DEF TypeOK
<1>3. [task[i] EXCEPT !.pc = place] \in Tasks
  BY <1>2 DEF Tasks
<1>4. task' \in [Issues -> Tasks]
  BY <1>2, <1>3 DEF GoTo
<1> QED  BY <1>1, <1>4

LEMMA StoppedSafelyType ==
    ASSUME TypeOK, NEW i \in Issues, NEW outcome \in Outcomes,
           StoppedSafely(i, outcome)
    PROVE  task' \in [Issues -> Tasks] /\ rec' \in [Issues -> Records]
<1>1. task \in [Issues -> Tasks] /\ rec \in [Issues -> Records]
  BY DEF TypeOK
<1>2. [task[i] EXCEPT !.pc = "refresh", !.outcome = outcome] \in Tasks
  BY <1>1 DEF Tasks
<1>3. [rec[i] EXCEPT !.process = FALSE] \in Records
  BY <1>1 DEF Records
<1> QED  BY <1>1, <1>2, <1>3 DEF StoppedSafely

LEMMA EndsWithType ==
    ASSUME TypeOK, NEW i \in Issues, NEW r \in Records, EndsWith(i, r)
    PROVE  task' \in [Issues -> Tasks] /\ rec' \in [Issues -> Records]
  BY NoTaskType DEF TypeOK, EndsWith

LEMMA SaveType ==
    ASSUME TypeOK, NEW i \in Issues, NEW r \in Records, Save(i, r)
    PROVE  rec' \in [Issues -> Records]
  BY DEF TypeOK, Save

LEMMA CancelTasksType ==
    ASSUME TypeOK, NEW S \in SUBSET Issues, CancelTasks(S)
    PROVE  /\ task' \in [Issues -> Tasks]
           /\ live' \subseteq Executors /\ lost' \subseteq live'
<1>1. PICK landing \in [S -> {"none", "abort", "unwind", "stop"}] :
        task' = [i \in Issues |->
              IF i \notin S THEN task[i]
              ELSE IF landing[i] = "none" THEN NoTask
              ELSE [task[i] EXCEPT !.pc = landing[i]]]
  BY DEF CancelTasks
<1>2. task' \in [Issues -> Tasks]
  BY <1>1, NoTaskType DEF TypeOK, Tasks
<1>3. live' \subseteq Executors /\ lost' \subseteq live'
  BY DEF CancelTasks, TypeOK
<1> QED  BY <1>2, <1>3

LEMMA LeavesTickType ==
    ASSUME NEW place \in Places, LeavesTick(place)
    PROVE  /\ pc' \in Places /\ loaded' \in [Issues -> Records]
           /\ todo' \subseteq Issues
           /\ candidates' \in [Issues -> Labels \cup {Inactive}]
           /\ overruled' \subseteq Issues /\ to_cancel' \subseteq Issues
           /\ slots' \in Nat /\ target_counts' \in [Targets -> Nat]
  BY NothingType DEF LeavesTick, NoCandidates, NoCounts

-----------------------------------------------------------------------------
(* Type correctness *)

LEMMA ExecutorType ==
    ASSUME TypeOK, NEW i \in Issues
    PROVE  Executor(i) \in Executors
<1>1. rec[i] \in Records
  BY DEF TypeOK
<1> QED  BY <1>1 DEF Executor, ExecutorOf, Executors, Records

\* What the actions leave alone keeps its type.
LEMMA TickTypes ==
    ASSUME TypeOK, UNCHANGED tickVars
    PROVE  /\ pc' \in Places /\ loaded' \in [Issues -> Records]
           /\ todo' \subseteq Issues /\ to_cancel' \subseteq Issues
           /\ candidates' \in [Issues -> Labels \cup {Inactive}]
           /\ slots' \in Nat /\ target_counts' \in [Targets -> Nat]
  BY DEF TypeOK, tickVars

LEMMA AttemptTypes ==
    ASSUME TypeOK, NEW i \in Issues, AttemptStep(i)
    PROVE  TypeOK'
<1>1. rec[i] \in Records /\ task[i] \in Tasks /\ task[i].outcome \in Outcomes
  BY DEF TypeOK, Tasks
<1>2. "retry_wait" \in Phases /\ "released" \in Phases /\ "ready" \in Phases
      /\ "continuation_wait" \in Phases
  BY DEF Phases
<1>3. {"clean_exit", "failed", "cancelled"} \subseteq Outcomes
  BY DEF Outcomes
<1>4. SUFFICES /\ task' \in [Issues -> Tasks] /\ rec' \in [Issues -> Records]
               /\ live' \subseteq Executors /\ lost' \subseteq live'
               /\ overruled' \subseteq Issues
               /\ UNCHANGED <<tracker, tickVars, stopping>>
  <2>1. UNCHANGED tickVars /\ tracker' = tracker /\ stopping' = stopping
    OBVIOUS
  <2>2. tracker' \in [Issues -> Labels \cup {Inactive}] /\ stopping' \in BOOLEAN
    BY <2>1 DEF TypeOK
  <2> QED  BY <2>1, <2>2, TickTypes DEF TypeOK
<1>5. CASE Prepared(i)
  <2>1. live' \subseteq Executors /\ lost' \subseteq live'
    BY <1>5, ExecutorType DEF Prepared, TypeOK
  <2>2. task' \in [Issues -> Tasks] /\ rec' \in [Issues -> Records]
    BY <1>5, <1>3, GoToType, StoppedSafelyType DEF Prepared
  <2> QED  BY <1>5, <2>1, <2>2 DEF Prepared, TypeOK
<1>6. CASE RecordsIdentity(i)
  <2>1. Save(i, [rec[i] EXCEPT !.process = TRUE])
    BY <1>6 DEF RecordsIdentity, Save
  <2>2. rec' \in [Issues -> Records]
    BY <2>1, <1>1, RecordTypes, SaveType
  <2> QED  BY <1>6, <2>2 DEF RecordsIdentity, TypeOK
<1>7. CASE RunReturns(i)
  BY <1>7, <1>3, StoppedSafelyType DEF RunReturns, TypeOK
<1>8. CASE RunInterrupted(i)
  <2>1. PICK outcome \in {"cancelled", "failed"} :
          task' = [task EXCEPT ![i].pc = "stop", ![i].outcome = outcome]
    BY <1>8 DEF RunInterrupted
  <2>2. [task[i] EXCEPT !.pc = "stop", !.outcome = outcome] \in Tasks
    BY <1>1, <1>3 DEF Tasks
  <2>3. task' \in [Issues -> Tasks]
    BY <2>1, <2>2 DEF TypeOK
  <2> QED  BY <1>8, <2>3 DEF RunInterrupted, TypeOK
<1>9. CASE \E ok \in BOOLEAN : RunStops(i, ok)
  <2>1. PICK ok \in BOOLEAN : RunStops(i, ok)
    BY <1>9
  <2>2. live' \subseteq Executors /\ lost' \subseteq live'
    BY <2>1, ReapType DEF RunStops, TypeOK
  <2>3. task' \in [Issues -> Tasks] /\ rec' \in [Issues -> Records]
    BY <2>1, <1>1, GoToType, StoppedSafelyType DEF RunStops, AfterStop
  <2> QED  BY <2>1, <2>2, <2>3 DEF RunStops, TypeOK
<1>10. CASE \E ok \in BOOLEAN : Unwinds(i, ok)
  <2>1. PICK ok \in BOOLEAN : Unwinds(i, ok)
    BY <1>10
  <2>2. live' \subseteq Executors /\ lost' \subseteq live'
    BY <2>1, ReapType DEF Unwinds, TypeOK
  <2>3. task' \in [Issues -> Tasks] /\ rec' \in [Issues -> Records]
    BY <2>1, GoToType DEF Unwinds
  <2> QED  BY <2>1, <2>2, <2>3 DEF Unwinds, TypeOK
<1>11. CASE \E ok \in BOOLEAN : Refreshed(i, ok)
  <2>1. PICK ok \in BOOLEAN : Refreshed(i, ok)
    BY <1>11
  <2>2. task' \in [Issues -> Tasks] /\ rec' \in [Issues -> Records]
    BY <2>1, <1>1, <1>2, RecordTypes, PhaseTypes, EndsWithType DEF Refreshed
  <2>3. overruled' \subseteq Issues
    BY <2>1 DEF Refreshed, TypeOK
  <2> QED  BY <2>1, <2>2, <2>3 DEF Refreshed, TypeOK
<1>12. CASE \E ok \in BOOLEAN : Mends(i, ok) \/ Aborts(i, ok)
  <2>1. PICK ok \in BOOLEAN : Mends(i, ok) \/ Aborts(i, ok)
    BY <1>12
  <2>2. live' \subseteq Executors /\ lost' \subseteq live'
    BY <2>1, ReapType DEF Mends, Aborts
  <2>3. task' \in [Issues -> Tasks] /\ rec' \in [Issues -> Records]
    BY <2>1, <1>1, <1>2, RecordTypes, PhaseTypes, EndsWithType DEF Mends, Aborts
  <2> QED  BY <2>1, <2>2, <2>3 DEF Mends, Aborts, TypeOK
<1>13. CASE Blocks(i) \/ HandlerRaises(i)
  <2>1. task' \in [Issues -> Tasks] /\ rec' \in [Issues -> Records]
    BY <1>13, <1>1, <1>2, RecordTypes, PhaseTypes, EndsWithType DEF Blocks, HandlerRaises
  <2> QED  BY <1>13, <2>1 DEF Blocks, HandlerRaises, TypeOK
<1>14. CASE Raises(i)
  BY <1>14, GoToType DEF Raises, TypeOK
<1> QED
  BY <1>5, <1>6, <1>7, <1>8, <1>9, <1>10, <1>11, <1>12, <1>13, <1>14
  DEF AttemptStep

\* The values a tick action may give to pc.
LEMMA PlacesKnown ==
    {"down", "recover", "recoverGet", "idle", "reconcile", "cancelling",
     "gathering", "listing", "listed", "blocked", "blockedReap", "blockedGet",
     "waiting", "waitingGet", "dispatch", "dispatchReap", "drain"} \subseteq Places
  BY DEF Places, HoldsLoop

\* An action that ends a loop's turn, or the tick, with records typed.
LEMMA LeavesTickTypes ==
    ASSUME TypeOK, NEW place \in Places, LeavesTick(place),
           tracker' = tracker, task' \in [Issues -> Tasks],
           rec' \in [Issues -> Records], stopping' \in BOOLEAN,
           live' \subseteq Executors, lost' \subseteq live'
    PROVE  TypeOK'
  BY LeavesTickType DEF TypeOK

LEMMA RecoverTypes ==
    ASSUME TypeOK, RecoverStep
    PROVE  TypeOK'
<1> USE PlacesKnown
<1>1. CASE Start
  BY <1>1 DEF Start, TypeOK, taskVars
<1>2. CASE RecoverEnds
  <2>1. LeavesTick("idle") /\ UNCHANGED <<tracker, rec, task, live, lost, stopping>>
    BY <1>2 DEF RecoverEnds
  <2> QED  BY <2>1, LeavesTickTypes DEF TypeOK
<1>3. ASSUME NEW i \in Issues, NEW ok \in BOOLEAN, RecoverReap(i, ok)
      PROVE  TypeOK'
  <2>1. live' \subseteq Executors /\ lost' \subseteq live'
    BY <1>3, ReapType DEF RecoverReap
  <2>2. loaded[i] \in Records /\ "ready" \in Phases
    BY DEF TypeOK, Phases
  <2>3. loaded' \in [Issues -> Records]
    <3>1. [loaded[i] EXCEPT !.phase = "ready", !.process = FALSE] \in Records
      BY <2>2, PhaseTypes
    <3> QED  BY <1>3, <2>2, <3>1, RecordTypes DEF RecoverReap, TypeOK
  <2>4. rec' \in [Issues -> Records]
    BY <1>3, <2>2, RecordTypes, SaveType DEF RecoverReap
  <2> QED  BY <1>3, <2>1, <2>3, <2>4 DEF RecoverReap, TypeOK
<1>4. ASSUME NEW i \in Issues, NEW ok \in BOOLEAN, RecoverGet(i, ok)
      PROVE  TypeOK'
  <2>1. loaded[i] \in Records /\ loaded[i].phase \in Phases
        /\ "ready" \in Phases /\ "released" \in Phases
    BY DEF TypeOK, Records, Phases
  <2>2. \A phase \in Phases : [loaded[i] EXCEPT !.later = FALSE, !.phase = phase] \in Records
    BY <2>1, PhaseTypes
  <2>3. rec' \in [Issues -> Records]
    BY <1>4, <2>1, <2>2, SaveType DEF RecoverGet, Resumed, Retired
  <2> QED  BY <1>4, <2>3 DEF RecoverGet, Advance, TypeOK
<1> QED  BY <1>1, <1>2, <1>3, <1>4 DEF RecoverStep

LEMMA ReconcileTypes ==
    ASSUME TypeOK, ReconcileStep
    PROVE  TypeOK'
<1> USE PlacesKnown
<1>1. CASE TickBegins \/ CancelledAllEnd \/ ListAnswered \/ ListReceived \/ BlockedEnds
  BY <1>1 DEF TickBegins, CancelledAllEnd, AfterReconcile, ListAnswered,
     ListReceived, BlockedIssues, BlockedEnds, InPhase, TypeOK, taskVars
<1>2. CASE CancelTimesOut
  <2>1. CancelTasks(to_cancel \cap Running)
    BY <1>2 DEF CancelTimesOut
  <2>2. to_cancel \cap Running \in SUBSET Issues
    BY DEF Running
  <2>3. task' \in [Issues -> Tasks] /\ live' \subseteq Executors /\ lost' \subseteq live'
    BY <2>1, <2>2, CancelTasksType
  <2> QED  BY <1>2, <2>3 DEF CancelTimesOut, TypeOK
<1>3. ASSUME NEW unread \in SUBSET Issues, ReconcilesRunning(unread)
      PROVE  TypeOK'
  <2> DEFINE strays == {i \in Running \ unread : tracker[i] # rec[i].target}
  <2>1. strays \in SUBSET Issues
    BY DEF Running
  <2>2. task' = Signalled(strays) /\ to_cancel' = strays
        /\ pc' \in {AfterReconcile, "cancelling"}
    BY <1>3 DEF ReconcilesRunning
  <2> HIDE DEF strays
  <2>3. task' \in [Issues -> Tasks]
    BY <2>1, <2>2, SignalledType
  <2> QED  BY <1>3, <2>1, <2>2, <2>3 DEF ReconcilesRunning, AfterReconcile, TypeOK
<1>4. CASE ListFails
  <2>1. LeavesTick("idle") /\ UNCHANGED <<tracker, rec, task, live, lost, stopping>>
    BY <1>4 DEF ListFails
  <2> QED  BY <2>1, LeavesTickTypes DEF TypeOK
<1>5. CASE Adopts
  <2>1. rec' \in [Issues -> Records]
    <3>1. \A i \in Issues : [rec[i] EXCEPT !.phase = "ready", !.later = FALSE] \in Records
      BY PhaseTypes DEF TypeOK, Phases
    <3> QED  BY <1>5, <3>1 DEF Adopts, TypeOK
  <2>2. CASE LeavesTick("idle")
    BY <1>5, <2>1, <2>2, LeavesTickTypes DEF Adopts, TypeOK
  <2>3. CASE ~LeavesTick("idle")
    <3>1. Running \subseteq Issues /\ IsFiniteSet(Running)
      BY ConstantsAssumption, FS_Subset DEF Running, ConstantsAssumption
    <3>2. \A t \in Targets : {i \in Running : rec[i].target = t} \subseteq Running
      OBVIOUS
    <3>3. /\ Cardinality(Running) \in Nat
          /\ \A t \in Targets : Cardinality({i \in Running : rec[i].target = t}) \in Nat
      BY <3>1, <3>2, FS_Subset, FS_CardinalityType
    <3>4. target_counts' \in [Targets -> Nat]
      BY <1>5, <2>3, <3>3 DEF Adopts
    <3>5. slots' \in Nat
      <4>1. /\ Cardinality(Running) < MaxConcurrentAgents
            /\ slots' = MaxConcurrentAgents - Cardinality(Running)
        BY <1>5, <2>3 DEF Adopts
      <4>2. MaxConcurrentAgents \in Nat /\ Cardinality(Running) \in Nat
        BY <3>3, ConstantsAssumption DEF ConstantsAssumption
      <4> QED  BY <4>1, <4>2
    <3> QED
      BY <1>5, <2>1, <2>3, <3>4, <3>5, NothingType DEF Adopts, TypeOK
  <2> QED  BY <2>2, <2>3
<1>6. ASSUME NEW i \in Issues, BlockedTurn(i)
      PROVE  TypeOK'
  BY <1>6 DEF BlockedTurn, Advance, TypeOK, taskVars
<1>7. ASSUME NEW i \in Issues, WaitingTurn(i)
      PROVE  TypeOK'
  <2>1. rec' \in [Issues -> Records]
    BY <1>7, SaveType DEF WaitingTurn, TypeOK
  <2> QED  BY <1>7, <2>1 DEF WaitingTurn, Advance, TypeOK
<1>8. ASSUME NEW i \in Issues, NEW ok \in BOOLEAN, BlockedReap(i, ok)
      PROVE  TypeOK'
  <2>1. live' \subseteq Executors /\ lost' \subseteq live'
    BY <1>8, ReapType DEF BlockedReap
  <2>2. loaded[i] \in Records /\ "ready" \in Phases
    BY DEF TypeOK, Phases
  <2>3. rec' \in [Issues -> Records]
    BY <1>8, <2>2, RecordTypes, PhaseTypes, SaveType DEF BlockedReap
  <2>4. loaded' \in [Issues -> Records]
    BY <1>8, <2>2, RecordTypes DEF BlockedReap, TypeOK
  <2> QED  BY <1>8, <2>1, <2>3, <2>4 DEF BlockedReap, Advance, TypeOK
<1>9. ASSUME NEW i \in Issues, NEW ok \in BOOLEAN, BlockedGet(i, ok)
      PROVE  TypeOK'
  <2>1. loaded[i] \in Records /\ "ready" \in Phases /\ "released" \in Phases
    BY DEF TypeOK, Phases
  <2>2. rec' \in [Issues -> Records]
    BY <1>9, <2>1, PhaseTypes, SaveType DEF BlockedGet, TypeOK
  <2> QED  BY <1>9, <2>2 DEF BlockedGet, Advance, TypeOK
<1>10. ASSUME NEW i \in Issues, NEW ok \in BOOLEAN, WaitingGet(i, ok)
       PROVE  TypeOK'
  <2>1. loaded[i] \in Records /\ "released" \in Phases
    BY DEF TypeOK, Phases
  <2>2. rec' \in [Issues -> Records]
    BY <1>10, <2>1, PhaseTypes, SaveType DEF WaitingGet, TypeOK
  <2>3. lost' \subseteq live'
    BY <1>10 DEF WaitingGet, TypeOK
  <2> QED  BY <1>10, <2>2, <2>3 DEF WaitingGet, Advance, TypeOK
<1> QED
  BY <1>1, <1>2, <1>3, <1>4, <1>5, <1>6, <1>7, <1>8, <1>9, <1>10 DEF ReconcileStep

LEMMA DispatchTypes ==
    ASSUME TypeOK, DispatchStep
    PROVE  TypeOK'
<1> USE PlacesKnown
<1>1. CASE TickEnds
  <2>1. LeavesTick("idle") /\ UNCHANGED <<tracker, rec, task, live, lost, stopping>>
    BY <1>1 DEF TickEnds
  <2> QED  BY <2>1, LeavesTickTypes DEF TypeOK
<1>2. ASSUME NEW i \in Issues, SkipsRunning(i) \/ FindsStale(i)
      PROVE  TypeOK'
  BY <1>2 DEF SkipsRunning, FindsStale, Advance, TypeOK, taskVars
<1>3. ASSUME NEW i \in Issues, Misplaces(i)
      PROVE  TypeOK'
  <2>1. rec[i] \in Records /\ "placement_blocked" \in Phases
    BY DEF TypeOK, Phases
  <2>2. rec' \in [Issues -> Records]
    BY <1>3, <2>1, PhaseTypes, SaveType DEF Misplaces
  <2>3. lost' \subseteq live'
    BY <1>3 DEF Misplaces, TypeOK
  <2> QED  BY <1>3, <2>2, <2>3 DEF Misplaces, Advance, TypeOK
<1>4. ASSUME NEW i \in Issues, PassesOver(i)
      PROVE  TypeOK'
  <2>1. rec' \in [Issues -> Records]
    BY <1>4, RecordTypes, SaveType DEF PassesOver, TypeOK
  <2> QED  BY <1>4, <2>1 DEF PassesOver, Advance, TypeOK
<1>5. ASSUME NEW i \in Issues, NEW ok \in BOOLEAN, DispatchReap(i, ok)
      PROVE  TypeOK'
  <2>1. live' \subseteq Executors /\ lost' \subseteq live'
    BY <1>5, ReapType DEF DispatchReap
  <2>2. rec[i] \in Records /\ "ready" \in Phases
    BY DEF TypeOK, Phases
  <2>3. rec' \in [Issues -> Records]
    BY <1>5, <2>2, RecordTypes, PhaseTypes, SaveType DEF DispatchReap
  <2> QED  BY <1>5, <2>1, <2>3 DEF DispatchReap, Advance, TypeOK
<1>6. ASSUME NEW i \in Issues, NEW id \in AttemptIds, Dispatches(i, id)
      PROVE  TypeOK'
  <2> DEFINE target == candidates[i]
             r == [phase |-> "running", target |-> target, attempt |-> id,
                   process |-> FALSE, later |-> FALSE]
             new == [issue |-> i, attempt |-> id, target |-> target]
  <2>1. target \in Targets
    BY <1>6 DEF Dispatches
  <2>2. r \in Records /\ new \in Executors
    BY <2>1 DEF Records, Phases, Executors
  <2>3. rec' \in [Issues -> Records]
    BY <1>6, <2>2, SaveType DEF Dispatches
  <2>4. [NoTask EXCEPT !.pc = "prepare"] \in Tasks
    BY DEF NoTask, Tasks, Outcomes
  <2>5. task' \in [Issues -> Tasks]
    BY <1>6, <2>4 DEF Dispatches, TypeOK
  <2>6. live' \subseteq Executors /\ lost' \subseteq live'
    BY <1>6, <2>2 DEF Dispatches, TypeOK
  <2>7. slots' \in Nat /\ target_counts' \in [Targets -> Nat]
    BY <1>6, <2>1 DEF Dispatches, AtPlacement, AtTurn, TypeOK
  <2> QED  BY <1>6, <2>3, <2>5, <2>6, <2>7 DEF Dispatches, Advance, TypeOK
<1> QED  BY <1>1, <1>2, <1>3, <1>4, <1>5, <1>6 DEF DispatchStep

LEMMA ShutdownTypes ==
    ASSUME TypeOK, ShutdownStep
    PROVE  TypeOK'
<1> USE PlacesKnown
<1>1. Running \in SUBSET Issues /\ Signalled(Running) \in [Issues -> Tasks]
  BY SignalledType DEF Running
<1>2. CASE Sigterm
  BY <1>1, <1>2, TickTypes DEF Sigterm, TypeOK
<1>3. CASE DrainBegins \/ TickRaises \/ Drained
  <2>1. /\ \E place \in Places : LeavesTick(place)
        /\ UNCHANGED <<tracker, rec, live, lost>>
        /\ task' \in {task, Signalled(Running)}
        /\ stopping' \in BOOLEAN
    BY <1>3 DEF DrainBegins, TickRaises, Drained, TypeOK
  <2> QED  BY <1>1, <2>1, LeavesTickTypes DEF TypeOK
<1>4. ASSUME NEW i \in Issues, ShutdownCancels(i)
      PROVE  TypeOK'
  <2>1. task' \in [Issues -> Tasks] /\ live' \subseteq Executors /\ lost' \subseteq live'
    BY <1>4, CancelTasksType DEF ShutdownCancels
  <2> QED  BY <1>4, <2>1, TickTypes DEF ShutdownCancels, TypeOK
<1> QED  BY <1>2, <1>3, <1>4 DEF ShutdownStep

LEMMA EnvironmentTypes ==
    ASSUME TypeOK, EnvironmentStep
    PROVE  TypeOK'
<1> USE PlacesKnown
<1>1. CASE Crash
  <2>1. LeavesTick("down") /\ UNCHANGED <<tracker, rec, live, lost>>
        /\ stopping' = FALSE /\ task' \in [Issues -> Tasks]
    BY <1>1, NoTaskType DEF Crash
  <2> QED  BY <2>1, LeavesTickTypes DEF TypeOK
<1>2. ASSUME NEW i \in Issues, Relabels(i)
      PROVE  TypeOK'
  <2>1. tracker' \in [Issues -> Labels \cup {Inactive}]
    BY <1>2 DEF Relabels, TypeOK
  <2> QED  BY <1>2, <2>1, TickTypes DEF Relabels, TypeOK, taskVars
<1>3. ASSUME NEW i \in Issues, DelayEnds(i)
      PROVE  TypeOK'
  <2>1. /\ [rec[i] EXCEPT !.later = FALSE] \in Records
        /\ [loaded[i] EXCEPT !.later = FALSE] \in Records
    BY RecordTypes DEF TypeOK
  <2> QED  BY <1>3, <2>1 DEF DelayEnds, TypeOK
<1>4. ASSUME NEW e \in Executors, ExecutorEnds(e)
      PROVE  TypeOK'
  <2>1. live' \subseteq Executors /\ lost' \subseteq live'
    BY <1>4 DEF ExecutorEnds, TypeOK
  <2> QED  BY <1>4, <2>1, TickTypes DEF ExecutorEnds, TypeOK
<1> QED  BY <1>1, <1>2, <1>3, <1>4 DEF EnvironmentStep

LEMMA InitTypes ==
    ASSUME Init
    PROVE  TypeOK
<1>1. /\ rec \in [Issues -> Records] /\ loaded \in [Issues -> Records]
      /\ task \in [Issues -> Tasks]
  BY NothingType, NoTaskType DEF Init
<1>2. /\ candidates \in [Issues -> Labels \cup {Inactive}]
      /\ slots \in Nat /\ target_counts \in [Targets -> Nat]
  BY DEF Init, NoCandidates, NoCounts
<1>3. pc \in Places
  BY PlacesKnown DEF Init
<1> QED  BY <1>1, <1>2, <1>3 DEF Init, TypeOK

\* Every state the scheduler reaches is well typed: records, attempts and the
\* tick's bookkeeping, whatever faults the environment injects.
THEOREM TypeCorrect == Spec => []TypeOK
<1>1. Init => TypeOK
  BY InitTypes
<1>2. TypeOK /\ [Next]_vars => TypeOK'
  <2> SUFFICES ASSUME TypeOK, [Next]_vars PROVE TypeOK'
    OBVIOUS
  <2>1. CASE UNCHANGED vars
    BY <2>1, TickTypes DEF vars, taskVars, TypeOK
  <2>2. CASE Next
    BY <2>2, RecoverTypes, ReconcileTypes, DispatchTypes, ShutdownTypes,
       AttemptTypes, EnvironmentTypes DEF Next
  <2> QED  BY <2>1, <2>2
<1> QED  BY <1>1, <1>2, PTL DEF Spec
=============================================================================
