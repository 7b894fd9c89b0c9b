--------------------------- MODULE OwnershipProofs ---------------------------
(***************************************************************************)
(* Results that rest on the same fact: only the dispatch loop starts       *)
(* attempts, and every other step lets attempts and executors at most end. *)
(*  - The caps hold: `Adopts` counts the free slots once, and the dispatch *)
(*    loop goes on using that count while it awaits reaps.  So do the caps *)
(*    of the hosts, which count the agents themselves.                     *)
(*  - The scheduler implements Ownership.                                  *)
(*  - Where nothing can be recovered without its placement, no executor    *)
(*    escapes: a blocked issue stays, and an issue never gets a second     *)
(*    executor.                                                            *)
(***************************************************************************)
EXTENDS StepProofs, FiniteSetTheorems

OnTarget(t) == {i \in Running : rec[i].target = t}

Dispatching == {"dispatch", "dispatchReap"}

\* What the dispatch loop believes of the slots is not too optimistic.
SlotsCounted ==
    pc \in Dispatching =>
      /\ slots + Cardinality(Running) <= MaxConcurrentAgents
      /\ \A t \in Targets : /\ Cardinality(OnTarget(t)) <= target_counts[t]
                            /\ target_counts[t] <= TargetCap[t]

CapsInv == CapsRespected /\ SlotsCounted

-----------------------------------------------------------------------------
(* Sets of attempts *)

LEMMA FiniteAttempts ==
    /\ IsFiniteSet(Running) /\ Cardinality(Running) \in Nat
    /\ \A t \in Targets : /\ IsFiniteSet(OnTarget(t))
                          /\ Cardinality(OnTarget(t)) \in Nat
<1>1. IsFiniteSet(Issues) /\ Running \in SUBSET Issues
      /\ \A t \in Targets : OnTarget(t) \in SUBSET Issues
  BY ConstantsAssumption DEF Running, OnTarget
<1>2. \A S \in SUBSET Issues : IsFiniteSet(S) /\ Cardinality(S) \in Nat
  BY <1>1, FS_Subset, FS_CardinalityType
<1> QED  BY <1>1, <1>2

\* No attempt starts, and those that go on stay where they were placed.
AttemptsShrink ==
    /\ Running' \subseteq Running
    /\ \A i \in Running' : SameAttempt(rec'[i], rec[i])

\* Where the step of any task leaves the dispatch loop and its counts.
CountsKept ==
    pc' \in Dispatching => pc \in Dispatching /\ UNCHANGED <<slots, target_counts>>

LEMMA ShrinkingCaps ==
    ASSUME TypeOK, CapsInv, AttemptsShrink, CountsKept
    PROVE  CapsInv'
<1>1. /\ slots \in Nat /\ target_counts \in [Targets -> Nat]
      /\ MaxConcurrentAgents \in Nat /\ TargetCap \in [Targets -> Nat]
  BY ConstantsAssumption DEF TypeOK
<1>2. Cardinality(Running') \in Nat /\ Cardinality(Running') <= Cardinality(Running)
  BY FiniteAttempts, FS_Subset, FS_CardinalityType DEF AttemptsShrink
<1>3. ASSUME NEW t \in Targets
      PROVE  /\ Cardinality(OnTarget(t)') \in Nat
             /\ Cardinality(OnTarget(t)') <= Cardinality(OnTarget(t))
  <2>1. OnTarget(t)' \in SUBSET OnTarget(t)
    BY DEF OnTarget, AttemptsShrink, SameAttempt
  <2> QED  BY <2>1, FiniteAttempts, FS_Subset, FS_CardinalityType
<1>4. CapsRespected'
  <2>1. Cardinality(Running') <= MaxConcurrentAgents
    BY <1>1, <1>2, FiniteAttempts DEF CapsInv, CapsRespected
  <2>2. ASSUME NEW t \in Targets
        PROVE  Cardinality(OnTarget(t)') <= TargetCap[t]
    <3>1. Cardinality(OnTarget(t)) <= TargetCap[t] /\ TargetCap[t] \in Nat
      BY <1>1 DEF CapsInv, CapsRespected, OnTarget
    <3> QED  BY <1>3, <3>1, FiniteAttempts
  <2> QED  BY <2>1, <2>2 DEF CapsRespected, OnTarget
<1>5. SlotsCounted'
  <2> SUFFICES ASSUME pc' \in Dispatching
               PROVE  /\ slots' + Cardinality(Running') <= MaxConcurrentAgents
                      /\ \A t \in Targets :
                           /\ Cardinality(OnTarget(t)') <= target_counts'[t]
                           /\ target_counts'[t] <= TargetCap[t]
    BY DEF SlotsCounted, Dispatching
  <2>1. pc \in Dispatching /\ slots' = slots /\ target_counts' = target_counts
    BY DEF CountsKept
  <2>2. slots + Cardinality(Running) <= MaxConcurrentAgents
    BY <2>1 DEF CapsInv, SlotsCounted
  <2>3. slots + Cardinality(Running') <= MaxConcurrentAgents
    BY <1>1, <1>2, <2>2, FiniteAttempts
  <2>4. ASSUME NEW t \in Targets
        PROVE  /\ Cardinality(OnTarget(t)') <= target_counts[t]
               /\ target_counts[t] <= TargetCap[t]
    <3>1. /\ Cardinality(OnTarget(t)) <= target_counts[t]
          /\ target_counts[t] <= TargetCap[t]
      BY <2>1 DEF CapsInv, SlotsCounted
    <3> QED  BY <1>1, <1>3, <3>1, FiniteAttempts
  <2> QED  BY <2>1, <2>3, <2>4
<1> QED  BY <1>4, <1>5 DEF CapsInv

-----------------------------------------------------------------------------
(* The steps of each part *)

LEMMA RecoverShrinks ==
    ASSUME Inv, RecoverStep
    PROVE  AttemptsShrink /\ CountsKept /\ Shrinks
<1>1. task' = task /\ pc' \notin Dispatching
  BY DEF RecoverStep, Start, RecoverReap, RecoverGet, RecoverEnds, Advance,
     LeavesTick, taskVars, Dispatching
<1>2. Running' = Running
  BY <1>1 DEF Running
<1>3. Shrinks
  <2>1. ASSUME NEW i \in Issues, NEW ok \in BOOLEAN, RecoverReap(i, ok)
        PROVE  Shrinks
    BY <2>1, ReapFrame DEF RecoverReap, Shrinks
  <2> QED  BY <2>1 DEF RecoverStep, Start, RecoverGet, RecoverEnds, taskVars, Shrinks
<1> QED  BY <1>1, <1>2, <1>3, RecoverWrites DEF AttemptsShrink, CountsKept, SameAttempt

LEMMA ReconcileShrinks ==
    ASSUME Inv, ReconcileStep
    PROVE  AttemptsShrink /\ (Adopts \/ CountsKept) /\ Shrinks
<1>1. Adopts \/ pc' \notin Dispatching
  BY DEF ReconcileStep, TickBegins, CancelledAllEnd, CancelTimesOut,
     ReconcilesRunning, ListFails, ListAnswered, ListReceived, BlockedEnds,
     BlockedTurn, BlockedReap, BlockedGet, WaitingTurn, WaitingGet,
     AfterReconcile, Advance, LeavesTick, Dispatching
<1>2. TasksShrink /\ Shrinks
  <2>1. CASE CancelTimesOut
    <3>1. CancelTasks(to_cancel \cap Running)
      BY <2>1 DEF CancelTimesOut
    <3> QED  BY <3>1, CancelTasksKeeps
  <2>2. ASSUME NEW unread \in SUBSET Issues, ReconcilesRunning(unread)
        PROVE  TasksShrink /\ Shrinks
    <3>1. live' = live /\ lost' = lost /\ \E S : task' = Signalled(S)
      BY <2>2 DEF ReconcilesRunning
    <3> QED  BY <3>1, SignalledKeeps DEF Inv, Shrinks
  <2>3. ASSUME NEW i \in Issues, NEW ok \in BOOLEAN, BlockedReap(i, ok)
        PROVE  TasksShrink /\ Shrinks
    BY <2>3, ReapFrame DEF BlockedReap, TasksShrink, Shrinks
  <2>4. ASSUME NEW i \in Issues, NEW ok \in BOOLEAN,
               BlockedGet(i, ok) \/ WaitingGet(i, ok)
        PROVE  TasksShrink /\ Shrinks
    BY <2>4 DEF BlockedGet, WaitingGet, TasksShrink, Shrinks
  <2>5. CASE task' = task /\ live' = live /\ lost' = lost
    BY <2>5 DEF TasksShrink, Shrinks
  <2> QED  BY <2>1, <2>2, <2>3, <2>4, <2>5 DEF ReconcileStep, TickBegins,
             CancelledAllEnd, ListFails, ListAnswered, ListReceived, BlockedEnds,
             Adopts, BlockedTurn, WaitingTurn, taskVars
<1>3. Running' \subseteq Running
  BY <1>2 DEF TasksShrink, Running
<1> QED  BY <1>1, <1>2, <1>3, ReconcileWrites DEF AttemptsShrink, CountsKept, SameAttempt

LEMMA AttemptShrinks ==
    ASSUME Inv, NEW i \in Issues, AttemptStep(i)
    PROVE  AttemptsShrink /\ CountsKept
<1>1. /\ i \in Running /\ UNCHANGED tickVars
      /\ \A j \in Issues \ {i} : rec'[j] = rec[j] /\ task'[j] = task[j]
      /\ SameAttempt(rec'[i], rec[i])
  BY AttemptFrame
<1> QED  BY <1>1 DEF AttemptsShrink, CountsKept, Running, SameAttempt, tickVars

LEMMA ShutdownShrinks ==
    ASSUME Inv, ShutdownStep
    PROVE  AttemptsShrink /\ CountsKept /\ Shrinks
<1>1. rec' = rec /\ CountsKept
  BY DEF ShutdownStep, Sigterm, ShutdownCancels, DrainBegins, TickRaises, Drained,
     LeavesTick, tickVars, CountsKept, Dispatching
<1>2. TasksShrink /\ Shrinks
  <2>1. CASE Sigterm \/ DrainBegins \/ TickRaises
    <3>1. task' = Signalled(Running) /\ live' = live /\ lost' = lost
      BY <2>1 DEF Sigterm, DrainBegins, TickRaises
    <3> QED  BY <3>1, SignalledKeeps DEF Inv, Shrinks
  <2>2. ASSUME NEW i \in Issues, ShutdownCancels(i)
        PROVE  TasksShrink /\ Shrinks
    <3>1. {i} \in SUBSET Running /\ CancelTasks({i})
      BY <2>2 DEF ShutdownCancels
    <3> QED  BY <3>1, CancelTasksKeeps
  <2>3. CASE Drained
    BY <2>3 DEF Drained, TasksShrink, Shrinks
  <2> QED  BY <2>1, <2>2, <2>3 DEF ShutdownStep
<1>3. Running' \subseteq Running
  BY <1>2 DEF TasksShrink, Running
<1> QED  BY <1>1, <1>2, <1>3 DEF AttemptsShrink, SameAttempt

LEMMA EnvironmentShrinks ==
    ASSUME Inv, EnvironmentStep
    PROVE  AttemptsShrink /\ CountsKept /\ Shrinks
<1>1. rec \in [Issues -> Records]
  BY DEF Inv, TypeOK
<1>2. CASE Crash
  BY <1>2 DEF Crash, LeavesTick, NoTask, Running, AttemptsShrink, CountsKept, Dispatching,
     Shrinks
<1>3. ASSUME NEW i \in Issues, DelayEnds(i)
      PROVE  AttemptsShrink /\ CountsKept /\ Shrinks
  <2>1. UNCHANGED <<task, live, lost, pc, slots, target_counts>>
        /\ rec' = [rec EXCEPT ![i].later = FALSE]
    BY <1>3 DEF DelayEnds
  <2>2. \A j \in Issues : SameAttempt(rec'[j], rec[j])
    BY <1>1, <2>1 DEF Records, SameAttempt
  <2> QED  BY <2>1, <2>2 DEF AttemptsShrink, CountsKept, Running,
     Shrinks, SameAttempt
<1>4. ASSUME NEW i \in Issues, Relabels(i)
      PROVE  AttemptsShrink /\ CountsKept /\ Shrinks
  BY <1>4 DEF Relabels, taskVars, tickVars, AttemptsShrink, CountsKept, Running,
     Shrinks, SameAttempt
<1>5. ASSUME NEW e \in Executors, ExecutorEnds(e)
      PROVE  AttemptsShrink /\ CountsKept /\ Shrinks
  BY <1>5 DEF ExecutorEnds, tickVars, AttemptsShrink, CountsKept, Running,
     Shrinks, SameAttempt
<1> QED  BY <1>2, <1>3, <1>4, <1>5 DEF EnvironmentStep

LEMMA DispatchShrinks ==
    ASSUME Inv, DispatchStep, ~\E i \in Issues, id \in AttemptIds : Dispatches(i, id)
    PROVE  AttemptsShrink /\ CountsKept /\ Shrinks
<1>1. task' = task /\ CountsKept
  BY DEF DispatchStep, TickEnds, SkipsRunning, FindsStale, Misplaces, PassesOver,
     DispatchReap, AtPlacement, AtTurn, Advance, LeavesTick, taskVars, CountsKept,
     Dispatching
<1>2. AttemptsShrink
  BY <1>1, DispatchWrites DEF AttemptsShrink, Running, SameAttempt
<1>3. Shrinks
  <2>1. ASSUME NEW i \in Issues, NEW ok \in BOOLEAN, DispatchReap(i, ok)
        PROVE  Shrinks
    BY <2>1, ReapFrame DEF DispatchReap, Shrinks
  <2>2. ASSUME NEW i \in Issues, Misplaces(i)
        PROVE  Shrinks
    BY <2>2 DEF Misplaces, Shrinks
  <2> QED  BY <2>1, <2>2 DEF DispatchStep, TickEnds, SkipsRunning, FindsStale,
             PassesOver, taskVars, Shrinks
<1> QED  BY <1>1, <1>2, <1>3

-----------------------------------------------------------------------------
(* The caps: counting and placing *)

LEMMA AdoptsCounts ==
    ASSUME Inv, CapsInv, Adopts
    PROVE  CapsInv'
<1>1. /\ slots \in Nat /\ target_counts \in [Targets -> Nat]
      /\ MaxConcurrentAgents \in Nat /\ TargetCap \in [Targets -> Nat]
  BY ConstantsAssumption DEF Inv, TypeOK
<1>2. Running' = Running /\ \A t : OnTarget(t)' = OnTarget(t)
  <2>1. Running' = Running
    BY DEF Adopts, Running
  <2>2. \A i \in Running : rec'[i] = rec[i]
    BY ReconcileWrites DEF ReconcileStep
  <2> QED  BY <2>1, <2>2 DEF OnTarget
<1>3. CapsRespected'
  BY <1>2 DEF CapsInv, CapsRespected, OnTarget
<1>4. CASE LeavesTick("idle")
  BY <1>3, <1>4 DEF LeavesTick, CapsInv, SlotsCounted, Dispatching
<1>5. CASE /\ slots' = MaxConcurrentAgents - Cardinality(Running)
           /\ target_counts' = [t \in Targets |-> Cardinality(OnTarget(t))]
  <2>1. slots' + Cardinality(Running) <= MaxConcurrentAgents
    BY <1>1, <1>5, FiniteAttempts
  <2>2. ASSUME NEW t \in Targets
        PROVE  /\ Cardinality(OnTarget(t)') <= target_counts'[t]
               /\ target_counts'[t] <= TargetCap[t]
    <3>1. target_counts'[t] = Cardinality(OnTarget(t)) /\ OnTarget(t)' = OnTarget(t)
      BY <1>2, <1>5
    <3>2. Cardinality(OnTarget(t)) <= TargetCap[t]
      BY DEF CapsInv, CapsRespected, OnTarget
    <3> QED  BY <3>1, <3>2, FiniteAttempts
  <2> QED  BY <1>2, <1>3, <2>1, <2>2 DEF CapsInv, SlotsCounted
<1> QED  BY <1>4, <1>5 DEF Adopts, OnTarget

LEMMA PlacesOne ==
    ASSUME Inv, CapsInv, NEW i \in Issues, NEW id \in AttemptIds, Dispatches(i, id)
    PROVE  CapsInv'
<1> DEFINE place == candidates[i]
<1>1. /\ slots \in Nat /\ target_counts \in [Targets -> Nat]
      /\ MaxConcurrentAgents \in Nat /\ TargetCap \in [Targets -> Nat]
      /\ task \in [Issues -> Tasks] /\ rec \in [Issues -> Records]
  BY ConstantsAssumption DEF Inv, TypeOK
<1>2. /\ pc = "dispatch" /\ pc' = "dispatch" /\ slots > 0 /\ i \notin Running
      /\ place \in Targets /\ target_counts[place] < TargetCap[place]
      /\ slots' = slots - 1
      /\ target_counts' = [target_counts EXCEPT ![place] = @ + 1]
  BY DEF Dispatches, AtPlacement, AtTurn, Dispatchable, HasTargetSlot, Advance
<1>3. /\ rec'[i].target = place
      /\ \A j \in Issues \ {i} : rec'[j] = rec[j]
      /\ task'[i].pc = "prepare"
      /\ \A j \in Issues \ {i} : task'[j] = task[j]
  <2>1. /\ Save(i, [phase |-> "running", target |-> place, attempt |-> id,
                    process |-> FALSE, later |-> FALSE])
        /\ task' = [task EXCEPT ![i] = [NoTask EXCEPT !.pc = "prepare"]]
    BY DEF Dispatches
  <2> QED  BY <1>1, <2>1 DEF Save, NoTask
<1>4. Running' = Running \cup {i}
  BY <1>3 DEF Running
<1>5. ASSUME NEW t \in Targets
      PROVE  OnTarget(t)' = IF t = place THEN OnTarget(t) \cup {i} ELSE OnTarget(t)
  BY <1>2, <1>3, <1>4 DEF OnTarget, Running
<1>6. /\ slots + Cardinality(Running) <= MaxConcurrentAgents
      /\ \A t \in Targets : /\ Cardinality(OnTarget(t)) <= target_counts[t]
                            /\ target_counts[t] <= TargetCap[t]
  BY <1>2 DEF CapsInv, SlotsCounted, Dispatching
<1>7. Cardinality(Running') = Cardinality(Running) + 1
  BY <1>2, <1>4, FiniteAttempts, FS_AddElement
<1>8. slots' + Cardinality(Running') <= MaxConcurrentAgents
      /\ Cardinality(Running') <= MaxConcurrentAgents
  BY <1>1, <1>2, <1>6, <1>7, FiniteAttempts
<1>9. ASSUME NEW t \in Targets
      PROVE  /\ Cardinality(OnTarget(t)') \in Nat
             /\ Cardinality(OnTarget(t)') <= target_counts'[t]
             /\ target_counts'[t] <= TargetCap[t]
             /\ Cardinality(OnTarget(t)') <= TargetCap[t]
  <2>1. Cardinality(OnTarget(t)) \in Nat
    BY FiniteAttempts
  <2>2. CASE t = place
    <3>1. Cardinality(OnTarget(t)') \in {Cardinality(OnTarget(t)), Cardinality(OnTarget(t)) + 1}
      BY <1>5, <2>2, FiniteAttempts, FS_AddElement
    <3>2. target_counts'[t] = target_counts[t] + 1
      BY <1>1, <1>2, <2>2
    <3>3. target_counts[t] < TargetCap[t] /\ target_counts[t] \in Nat /\ TargetCap[t] \in Nat
      BY <1>1, <1>2, <2>2
    <3> QED  BY <1>6, <2>1, <3>1, <3>2, <3>3
  <2>3. CASE t # place
    <3>1. OnTarget(t)' = OnTarget(t) /\ target_counts'[t] = target_counts[t]
      BY <1>1, <1>2, <1>5, <2>3
    <3>2. target_counts[t] \in Nat /\ TargetCap[t] \in Nat
      BY <1>1
    <3> QED  BY <1>6, <2>1, <3>1, <3>2
  <2> QED  BY <2>2, <2>3
<1>10. CapsRespected'
  BY <1>8, <1>9 DEF CapsRespected, OnTarget
<1>11. SlotsCounted'
  BY <1>8, <1>9 DEF SlotsCounted
<1> QED  BY <1>10, <1>11 DEF CapsInv

LEMMA DispatchCaps ==
    ASSUME Inv, CapsInv, DispatchStep
    PROVE  CapsInv'
<1>1. CASE \E i \in Issues, id \in AttemptIds : Dispatches(i, id)
  BY <1>1, PlacesOne
<1>2. CASE ~\E i \in Issues, id \in AttemptIds : Dispatches(i, id)
  BY <1>2, DispatchShrinks, ShrinkingCaps DEF Inv
<1> QED  BY <1>1, <1>2

-----------------------------------------------------------------------------
\* The attempts in progress never exceed the global cap nor the cap of the
\* target they run on, for every number of issues and targets: slots counted
\* before the dispatch loop's awaits are not used twice after them.
THEOREM CapsHold == Spec => []CapsRespected
<1>1. Init => CapsInv
  <2> SUFFICES ASSUME Init PROVE CapsInv
    OBVIOUS
  <2>1. Running = {} /\ pc = "down"
    BY DEF Init, Running, NoTask
  <2>2. \A t \in Targets : OnTarget(t) = {}
    BY <2>1 DEF OnTarget
  <2> QED  BY <2>1, <2>2, FS_EmptySet, ConstantsAssumption
           DEF CapsInv, CapsRespected, SlotsCounted, Dispatching, OnTarget
<1>2. Inv /\ CapsInv /\ [Next]_vars => CapsInv'
  <2> SUFFICES ASSUME Inv, CapsInv, [Next]_vars PROVE CapsInv'
    OBVIOUS
  <2>1. TypeOK
    BY DEF Inv
  <2>2. CASE UNCHANGED vars
    <3>1. AttemptsShrink /\ CountsKept
      BY <2>2 DEF vars, taskVars, tickVars, AttemptsShrink, CountsKept, Running,
         SameAttempt
    <3> QED  BY <2>1, <3>1, ShrinkingCaps
  <2>3. CASE RecoverStep
    BY <2>1, <2>3, RecoverShrinks, ShrinkingCaps
  <2>4. CASE ReconcileStep
    BY <2>1, <2>4, AdoptsCounts, ReconcileShrinks, ShrinkingCaps
  <2>5. CASE DispatchStep
    BY <2>5, DispatchCaps
  <2>6. CASE ShutdownStep
    BY <2>1, <2>6, ShutdownShrinks, ShrinkingCaps
  <2>7. ASSUME NEW i \in Issues, AttemptStep(i) PROVE CapsInv'
    BY <2>1, <2>7, AttemptShrinks, ShrinkingCaps
  <2>8. CASE EnvironmentStep
    BY <2>1, <2>8, EnvironmentShrinks, ShrinkingCaps
  <2> QED  BY <2>2, <2>3, <2>4, <2>5, <2>6, <2>7, <2>8 DEF Next
<1>3. CapsInv => CapsRespected
  BY DEF CapsInv
<1> QED  BY <1>1, <1>2, <1>3, InvCorrect, PTL DEF Spec

-----------------------------------------------------------------------------
(* The caps of the hosts *)

\* What Inv says of the agents of one issue.
LEMMA OneAgent ==
    ASSUME Inv, NEW i \in Issues
    PROVE  /\ AgentsOf(i) \subseteq {Executor(i)}
           /\ AgentsOf(i) \subseteq Executors
           /\ ClaimOn(i) = "free" => AgentsOf(i) = {}
<1>1. \A e \in AgentsOf(i) : e \in Executors /\ e.issue = i
  BY DEF AgentsOf, Inv, TypeOK
<1>2. \A e \in AgentsOf(i) : /\ rec[i].attempt = e.attempt /\ rec[i].target = e.target
                            /\ rec[i].phase \in {"running", "blocked"}
  BY DEF AgentsOf, Inv, ExecutorAccounted
<1>3. \A e \in AgentsOf(i) : e = Executor(i)
  BY <1>1, <1>2 DEF Executors, Executor, ExecutorOf
<1>4. ClaimOn(i) = "free" => AgentsOf(i) = {}
  BY <1>2 DEF ClaimOn
<1> QED  BY <1>1, <1>3, <1>4

\* Executors of different issues are as many as issues, at most.
LEMMA OneEach ==
    ASSUME NEW A, NEW S, IsFiniteSet(S),
           \A e \in A : e.issue \in S,
           \A e, f \in A : e.issue = f.issue => e = f
    PROVE  Cardinality(A) \in Nat /\ Cardinality(A) <= Cardinality(S)
<1> DEFINE issueOf == [e \in A |-> e.issue]
<1>1. issueOf \in Injection(A, S)
  BY DEF Injection, IsInjective
<1> QED  BY <1>1, FS_Injection, FS_CardinalityType

\* On every host, and on all of them, the agents of attempts in progress are no
\* more than the caps allow, for every number of issues and targets.
THEOREM HostsWithinCaps == Spec => []AgentsCapped
<1>1. Inv /\ CapsRespected => AgentsCapped
  <2> SUFFICES ASSUME Inv, CapsRespected PROVE AgentsCapped
    OBVIOUS
  <2> DEFINE attended == {e \in live \ lost : e.issue \in Running}
             attendedOn(t) == {e \in attended : e.target = t}
  <2>1. \A e \in attended : e \in AgentsOf(e.issue) /\ e.issue \in Issues
    BY DEF AgentsOf, Running
  <2>2. \A e, f \in attended : e.issue = f.issue => e = f
    BY <2>1, OneAgent
  <2>3. \A e \in attended : rec[e.issue].target = e.target
    BY DEF Inv, ExecutorAccounted
  <2>4. /\ MaxConcurrentAgents \in Nat /\ TargetCap \in [Targets -> Nat]
        /\ Cardinality(Running) <= MaxConcurrentAgents
        /\ \A t \in Targets : Cardinality(OnTarget(t)) <= TargetCap[t]
    BY ConstantsAssumption DEF CapsRespected, OnTarget
  <2>5. Cardinality(attended) <= MaxConcurrentAgents
    <3>1. Cardinality(attended) \in Nat /\ Cardinality(attended) <= Cardinality(Running)
      BY <2>2, OneEach, FiniteAttempts
    <3> QED  BY <2>4, <3>1, FiniteAttempts
  <2>6. ASSUME NEW t \in Targets
        PROVE  Cardinality(attendedOn(t)) <= TargetCap[t]
    <3>1. \A e \in attendedOn(t) : e.issue \in OnTarget(t)
      BY <2>3 DEF OnTarget
    <3>2. \A e, f \in attendedOn(t) : e.issue = f.issue => e = f
      BY <2>2
    <3>3. /\ Cardinality(attendedOn(t)) \in Nat
          /\ Cardinality(attendedOn(t)) <= Cardinality(OnTarget(t))
      <4> HIDE DEF attendedOn
      <4> QED  BY <3>1, <3>2, OneEach, FiniteAttempts
    <3>4. Cardinality(OnTarget(t)) \in Nat /\ TargetCap[t] \in Nat
      BY <2>4, FiniteAttempts
    <3> QED  BY <2>4, <3>3, <3>4
  <2> QED  BY <2>5, <2>6 DEF AgentsCapped
<1> QED  BY <1>1, InvCorrect, CapsHold, PTL

-----------------------------------------------------------------------------
(* Ownership *)

\* The same of the next state.
LEMMA OneAgentNext ==
    ASSUME Inv', NEW i \in Issues
    PROVE  /\ AgentsOf(i)' \subseteq {Executor(i)'}
           /\ AgentsOf(i)' \subseteq Executors /\ Executor(i)' \in Executors
           /\ ClaimOn(i)' = "free" => AgentsOf(i)' = {}
<1>1. \A e \in AgentsOf(i)' : e \in Executors /\ e.issue = i
  BY DEF AgentsOf, Inv, TypeOK
<1>2. \A e \in AgentsOf(i)' : /\ rec'[i].attempt = e.attempt /\ rec'[i].target = e.target
                             /\ rec'[i].phase \in {"running", "blocked"}
  BY DEF AgentsOf, Inv, ExecutorAccounted
<1>3. \A e \in AgentsOf(i)' : e = Executor(i)'
  BY <1>1, <1>2 DEF Executors, Executor, ExecutorOf
<1>4. ClaimOn(i)' = "free" => AgentsOf(i)' = {}
  BY <1>2 DEF ClaimOn
<1>5. Executor(i)' \in Executors
  BY DEF Inv, TypeOK, Executor, ExecutorOf, Executors, Records
<1> QED  BY <1>1, <1>3, <1>4, <1>5

\* An issue that an attempt in progress leaves alone or holds on to, that the
\* dispatch loop takes free, or that has no attempt and no new agent.
OwnedStep(i) ==
    /\ i \in Running' => \/ i \in Running /\ SameAttempt(rec'[i], rec[i])
                         \/ i \notin Running /\ ClaimOn(i) = "free"
    /\ i \notin Running' => AgentsOf(i)' \subseteq AgentsOf(i)

OwnersNext(i) ==
    \/ Owners!Claims(i) \/ Owners!Starts(i) \/ Owners!Ends(i)
    \/ Owners!Doubts(i) \/ Owners!Frees(i) \/ Owners!Rests(i)

LEMMA OwnedNext ==
    ASSUME Inv, Inv', NEW i \in Issues, OwnedStep(i)
    PROVE  OwnersNext(i)
<1> USE DEF OwnersNext
<1>1. /\ AgentsOf(i) \subseteq {Executor(i)} /\ AgentsOf(i)' \subseteq {Executor(i)'}
      /\ AgentsOf(i) \subseteq Executors /\ AgentsOf(i)' \subseteq Executors
      /\ ClaimOn(i) = "free" => AgentsOf(i) = {}
      /\ ClaimOn(i)' = "free" => AgentsOf(i)' = {}
  BY OneAgent, OneAgentNext
<1>2. CASE i \in Running' /\ i \in Running
  <2>1. ClaimOn(i) = "held" /\ ClaimOn(i)' = "held" /\ Executor(i)' = Executor(i)
    BY <1>2 DEF OwnedStep, ClaimOn, SameAttempt, Executor, ExecutorOf
  <2>2. CASE AgentsOf(i)' = {}
    BY <2>1, <2>2 DEF Owners!Ends
  <2>3. CASE AgentsOf(i)' # {} /\ AgentsOf(i) = {}
    <3>1. PICK e \in AgentsOf(i)' : TRUE
      BY <2>3
    <3>2. e \in Executors /\ AgentsOf(i)' = {e}
      BY <1>1, <3>1
    <3> QED  BY <2>1, <2>3, <3>2 DEF Owners!Starts
  <2>4. CASE AgentsOf(i)' # {} /\ AgentsOf(i) # {}
    <3>1. AgentsOf(i)' = AgentsOf(i)
      BY <1>1, <2>1, <2>4
    <3> QED  BY <2>1, <3>1 DEF Owners!Rests
  <2> QED  BY <2>2, <2>3, <2>4
<1>3. CASE i \in Running' /\ i \notin Running
  <2>1. ClaimOn(i) = "free" /\ ClaimOn(i)' = "held" /\ AgentsOf(i) = {}
    BY <1>1, <1>3 DEF OwnedStep, ClaimOn
  <2>2. Executor(i)' \in Executors /\ AgentsOf(i)' \subseteq {Executor(i)'}
    BY OneAgentNext
  <2> QED  BY <2>1, <2>2 DEF Owners!Claims
<1>4. CASE i \notin Running'
  <2>1. AgentsOf(i)' \subseteq AgentsOf(i)
    BY <1>4 DEF OwnedStep
  <2>2. CASE ClaimOn(i)' = "free"
    BY <1>1, <2>2 DEF Owners!Frees
  <2>3. CASE ClaimOn(i)' = "doubted"
    BY <2>1, <2>3 DEF Owners!Doubts
  <2> QED  BY <1>4, <2>2, <2>3 DEF ClaimOn
<1> QED  BY <1>2, <1>3, <1>4

\* A step that starts no attempt and no executor.
LEMMA ShrinkingOwns ==
    ASSUME AttemptsShrink, Shrinks, NEW i \in Issues
    PROVE  OwnedStep(i)
  BY DEF AttemptsShrink, Shrinks, OwnedStep, AgentsOf

\* An agent starts only in an attempt that goes on.
LEMMA AttemptOwns ==
    ASSUME Inv, NEW j \in Issues, AttemptStep(j), NEW i \in Issues
    PROVE  OwnedStep(i)
<1>1. AttemptsShrink
  BY AttemptShrinks
<1>2. i # j => AgentsOf(i)' \subseteq AgentsOf(i)
  <2>1. live' \ lost' \subseteq (live \ lost) \cup {Executor(j)} /\ Executor(j).issue = j
    BY AttemptFrame DEF Executor, ExecutorOf
  <2> QED  BY <2>1 DEF AgentsOf
<1>3. CASE Prepared(j)
  <2>1. task \in [Issues -> Tasks]
    BY DEF Inv, TypeOK
  <2>2. task'[j].pc \in {"run", "refresh"}
    BY <1>3, <2>1 DEF Prepared, GoTo, StoppedSafely, Tasks
  <2>3. j \in Running'
    BY <2>2 DEF Running
  <2> QED  BY <1>1, <1>2, <2>3 DEF AttemptsShrink, OwnedStep
<1>4. CASE ~Prepared(j)
  <2>1. Shrinks
    BY <1>4, ReapFrame DEF AttemptStep, RecordsIdentity, RunReturns, RunInterrupted,
       RunStops, Unwinds, Refreshed, Blocks, Raises, Mends, Aborts, HandlerRaises,
       Shrinks
  <2> QED  BY <1>1, <2>1, ShrinkingOwns
<1> QED  BY <1>3, <1>4

\* A new attempt takes an issue that is free.
LEMMA DispatchOwns ==
    ASSUME Inv, NEW j \in Issues, NEW id \in AttemptIds, Dispatches(j, id),
           NEW i \in Issues
    PROVE  OwnedStep(i)
<1>1. task \in [Issues -> Tasks] /\ rec \in [Issues -> Records]
  BY DEF Inv, TypeOK
<1>2. /\ j \notin Running /\ ClaimOn(j) = "free"
      /\ \A k \in Issues \ {j} : rec'[k] = rec[k] /\ task'[k] = task[k]
  <2>1. j \notin Running /\ rec[j].phase \notin {"running", "blocked"}
    BY <1>1 DEF Dispatches, AtPlacement, Dispatchable, Unblocked, DispatchablePhases, Records
  <2>2. \A k \in Issues \ {j} : rec'[k] = rec[k] /\ task'[k] = task[k]
    BY <1>1 DEF Dispatches, Save
  <2> QED  BY <2>1, <2>2 DEF ClaimOn
<1>3. i # j => AgentsOf(i)' \subseteq AgentsOf(i)
  BY DEF Dispatches, AgentsOf
<1>4. j \in Running'
  BY <1>1 DEF Dispatches, NoTask, Running
<1> QED  BY <1>2, <1>3, <1>4 DEF OwnedStep, Running, SameAttempt

\* The scheduler implements Ownership: for every set of issues and targets,
\* with every fault, an issue changes hands only when its agent is gone.
THEOREM OwnershipKept == Spec => Owned
<1>1. Init => Owners!Init
  <2> SUFFICES ASSUME Init, NEW i \in Issues
               PROVE  ClaimOn(i) = "free" /\ AgentsOf(i) = {}
    BY DEF Owners!Init
  <2> QED  BY DEF Init, ClaimOn, AgentsOf, Running, NoTask, Nothing, NewRecord
<1>2. Inv /\ Inv' /\ [Next]_vars =>
        [Owners!Next]_<<[i \in Issues |-> ClaimOn(i)], [i \in Issues |-> AgentsOf(i)]>>
  <2> SUFFICES ASSUME Inv, Inv', Next PROVE Owners!Next
    <3>1. UNCHANGED vars => /\ [i \in Issues |-> ClaimOn(i)]' = [i \in Issues |-> ClaimOn(i)]
                            /\ [i \in Issues |-> AgentsOf(i)]' = [i \in Issues |-> AgentsOf(i)]
      BY DEF vars, taskVars, ClaimOn, AgentsOf, Running
    <3> QED  BY <3>1
  <2>1. ASSUME NEW i \in Issues PROVE OwnedStep(i)
    <3>1. CASE RecoverStep
      BY <3>1, RecoverShrinks, ShrinkingOwns
    <3>2. CASE ReconcileStep
      BY <3>2, ReconcileShrinks, ShrinkingOwns
    <3>3. CASE DispatchStep
      BY <3>3, DispatchShrinks, ShrinkingOwns, DispatchOwns
    <3>4. CASE ShutdownStep
      BY <3>4, ShutdownShrinks, ShrinkingOwns
    <3>5. ASSUME NEW j \in Issues, AttemptStep(j) PROVE OwnedStep(i)
      BY <3>5, AttemptOwns
    <3>6. CASE EnvironmentStep
      BY <3>6, EnvironmentShrinks, ShrinkingOwns
    <3> QED  BY <3>1, <3>2, <3>3, <3>4, <3>5, <3>6 DEF Next
  <2>2. ASSUME NEW i \in Issues PROVE OwnersNext(i)
    BY <2>1, OwnedNext
  <2> QED  BY <2>2 DEF OwnersNext, Owners!Next
<1> QED  BY <1>1, <1>2, InvCorrect, PTL DEF Spec, Owned, Owners!Spec

-----------------------------------------------------------------------------
(* Nothing escapes *)

ColdStart == {"down", "recover", "recoverGet"}

LEMMA DispatchListedKept ==
    ASSUME DispatchListed, [Next]_vars
    PROVE  DispatchListed'
<1>1. ASSUME pc' \notin Dispatching
      PROVE  DispatchListed'
  BY <1>1 DEF DispatchListed, Dispatching
<1>2. ASSUME pc \in Dispatching, todo' \subseteq todo, candidates' = candidates
      PROVE  DispatchListed'
  BY <1>2 DEF DispatchListed, Dispatching, Listed
<1>3. ASSUME UNCHANGED <<pc, todo, candidates>>
      PROVE  DispatchListed'
  BY <1>3 DEF DispatchListed, Listed
<1>4. CASE RecoverStep
  <2>1. pc' \notin Dispatching
    BY <1>4 DEF RecoverStep, Start, RecoverReap, RecoverGet, RecoverEnds, Advance,
       LeavesTick, Dispatching
  <2> QED  BY <1>1, <2>1
<1>5. CASE ReconcileStep /\ ~Adopts
  <2>1. pc' \notin Dispatching
    BY <1>5 DEF ReconcileStep, TickBegins, CancelledAllEnd, CancelTimesOut,
       ReconcilesRunning, ListFails, ListAnswered, ListReceived, BlockedEnds,
       BlockedTurn, BlockedReap, BlockedGet, WaitingTurn, WaitingGet,
       AfterReconcile, Advance, LeavesTick, Dispatching
  <2> QED  BY <1>1, <2>1
<1>6. CASE Adopts
  BY <1>6 DEF Adopts, LeavesTick, DispatchListed, Listed
<1>7. CASE DispatchStep
  <2>1. pc' \notin Dispatching \/ (pc \in Dispatching /\ todo' \subseteq todo /\ candidates' = candidates)
    BY <1>7 DEF DispatchStep, TickEnds, SkipsRunning, FindsStale, Misplaces, PassesOver,
       DispatchReap, Dispatches, AtPlacement, AtTurn, Advance, LeavesTick, Dispatching
  <2> QED  BY <1>1, <1>2, <2>1
<1>8. CASE ShutdownStep \/ EnvironmentStep
  <2>1. pc' \notin Dispatching \/ UNCHANGED <<pc, todo, candidates>>
    BY <1>8 DEF ShutdownStep, Sigterm, ShutdownCancels, DrainBegins, TickRaises, Drained,
       EnvironmentStep, Crash, Relabels, DelayEnds, ExecutorEnds, LeavesTick, tickVars,
       Dispatching
  <2> QED  BY <1>1, <1>3, <2>1
<1>9. ASSUME NEW i \in Issues, AttemptStep(i)
      PROVE  DispatchListed'
  <2>1. UNCHANGED <<pc, todo, candidates>>
    BY <1>9 DEF AttemptStep, Prepared, RecordsIdentity, RunReturns, RunInterrupted,
       RunStops, Unwinds, Refreshed, Blocks, Raises, Mends, Aborts, HandlerRaises, tickVars
  <2> QED  BY <1>3, <2>1
<1>10. CASE UNCHANGED vars
  BY <1>3, <1>10 DEF vars, tickVars
<1> QED  BY <1>4, <1>5, <1>6, <1>7, <1>8, <1>9, <1>10 DEF Next

LEMMA ListedCorrect == Spec => []DispatchListed
<1>1. Init => DispatchListed
  BY DEF Init, DispatchListed
<1> QED  BY <1>1, DispatchListedKept, PTL DEF Spec

\* Labels that all name a target raise no PlacementError.
LEMMA WellPlaced ==
    ASSUME Labels \subseteq Targets, TypeOK, DispatchListed, pc = "dispatch",
           NEW i \in Issues, NextUp(i)
    PROVE  candidates[i] \in Targets
  BY DEF TypeOK, DispatchListed, NextUp, Listed

\* On SSH hosts, with labels that all name a target, nothing unblocks an issue
\* whose executor may run but a copy of the waiting loop from before it blocked.
THEOREM BlockedStays ==
    ASSUME LocalTargets = {}, Labels \subseteq Targets
    PROVE  Spec /\ []NoStaleCopy => BlockedUntilStopped
<1>1. Inv /\ TurnInv /\ DispatchListed /\ NoStaleCopy /\ [Next]_vars =>
        [\A i \in Issues : rec[i].phase = "blocked" /\ Executor(i) \in live'
           => rec'[i].phase = "blocked"]_vars
  <2> SUFFICES ASSUME Inv, TurnInv, DispatchListed, NoStaleCopy, Next,
                      NEW i \in Issues, rec[i].phase = "blocked",
                      Executor(i) \in live', rec'[i].phase # "blocked"
               PROVE  FALSE
    OBVIOUS
  <2>1. \/ pc = "dispatch" /\ NextUp(i) /\ candidates[i] \notin Targets
        \/ HoldsOldCopy(i)
    BY StepKeeps DEF Keeps, KeepsBlocked, IsLocal
  <2>2. ~HoldsOldCopy(i)
    BY DEF NoStaleCopy, HoldsOldCopy, NextUp
  <2> QED  BY <2>1, <2>2, WellPlaced DEF Inv
<1> QED
  BY <1>1, InvCorrect, TurnCorrect, ListedCorrect, PTL DEF Spec, BlockedUntilStopped

\* Remote executors, labels that name a target, awaits that keep their timeouts
\* and no exception nobody expects: the settings without the three named escapes.
Confined ==
    /\ LocalTargets = {} /\ Labels \subseteq Targets
    /\ "slow" \notin Faults /\ "raise" \notin Faults

LEMMA ReapLoses ==
    ASSUME LocalTargets = {}, lost = {}, NEW i, NEW r, NEW safe, Reap(i, r, safe)
    PROVE  lost' = {}
  BY DEF Reap

\* An attempt that ends has its record leave RUNNING.
LEMMA EndLeavesRunning ==
    ASSUME Inv, "raise" \notin Faults, NEW i \in Issues, AttemptStep(i),
           task'[i].pc = "none"
    PROVE  rec'[i].phase # "running"
<1>1. TypeOK /\ rec[i] \in Records /\ task \in [Issues -> Tasks]
  BY DEF Inv, TypeOK
<1>2. ASSUME NEW r, EndsWith(i, r), r.phase # "running"
      PROVE  rec'[i].phase # "running"
  BY <1>1, <1>2, EndsWithFrame
<1>3. \A place \in {"run", "blocking", "mend", "abort"} : ~GoTo(i, place)
  BY <1>1, GoToFrame
<1>4. \A outcome : ~StoppedSafely(i, outcome)
  BY <1>1, StoppedSafelyFrame
<1>5. task[i].pc # "none"
  BY AttemptFrame DEF Running
<1>6. ASSUME NEW ok \in BOOLEAN, Refreshed(i, ok)
      PROVE  rec'[i].phase # "running"
  <2>1. \/ EndsWith(i, RetryLater(rec[i]))
        \/ EndsWith(i, Settled(rec[i], "released"))
        \/ EndsWith(i, [Settled(rec[i], "continuation_wait") EXCEPT !.later = TRUE])
        \/ EndsWith(i, Settled(rec[i], "ready"))
    BY <1>6 DEF Refreshed
  <2>2. [Settled(rec[i], "continuation_wait") EXCEPT !.later = TRUE].phase # "running"
    BY <1>1 DEF Settled, Records
  <2> QED  BY <1>1, <1>2, <2>1, <2>2, RecordFrame
<1>7. ASSUME NEW ok \in BOOLEAN, Mends(i, ok) \/ Aborts(i, ok)
      PROVE  rec'[i].phase # "running"
  <2>1. \/ EndsWith(i, RetryLater(rec[i])) \/ EndsWith(i, Unconfirmed(rec[i]))
        \/ EndsWith(i, Settled(rec[i], "ready"))
    BY <1>7 DEF Mends, Aborts
  <2> QED  BY <1>1, <1>2, <2>1, RecordFrame
<1>8. CASE Blocks(i)
  BY <1>1, <1>2, <1>8, RecordFrame DEF Blocks
<1>9. task'[i].pc = "none" => ~(RecordsIdentity(i) \/ RunInterrupted(i))
  BY <1>1, <1>5 DEF RecordsIdentity, RunInterrupted, Tasks
<1>10. ~(Prepared(i) \/ RunReturns(i) \/ Raises(i) \/ HandlerRaises(i))
  BY <1>3, <1>4 DEF Prepared, RunReturns, Raises, HandlerRaises
<1>11. ASSUME NEW ok \in BOOLEAN, RunStops(i, ok) \/ Unwinds(i, ok)
       PROVE  FALSE
  BY <1>3, <1>4, <1>11 DEF RunStops, AfterStop, Unwinds
<1> QED  BY <1>6, <1>7, <1>8, <1>9, <1>10, <1>11 DEF AttemptStep

AttendedAt(i) == i \in Running \/ rec[i].phase = "blocked" \/ NoneOf(i)

EscapeInv == lost = {} /\ Attended /\ DispatchListed

\* A step that adds no executor and leaves i, or leaves it without executor.
LEMMA AttendedKept ==
    ASSUME NEW i \in Issues, AttendedAt(i), Shrinks,
           i \in Running => i \in Running',
           \/ rec[i].phase = "blocked" => rec'[i].phase = "blocked"
           \/ NoneOf(i) \/ NoneOf(i)'
    PROVE  AttendedAt(i)'
<1>1. NoneOf(i) => NoneOf(i)'
  BY DEF NoneOf, Shrinks
<1> QED  BY <1>1 DEF AttendedAt

\* An issue whose record is neither RUNNING nor BLOCKED needs nobody.
LEMMA AttendedByPhase ==
    ASSUME Inv', NEW i \in Issues, rec'[i].phase # "running"
    PROVE  AttendedAt(i)'
  BY DEF AttendedAt, Inv, ExecutorAccounted, NoneOf

\* The waiting loop releases, or rewrites, records of issues without executor.
LEMMA WaitingUnattended ==
    ASSUME Inv, Attended, NoStaleCopy, NEW i \in Issues, NextUp(i), i \notin Running,
           pc \in {"waiting", "waitingGet"}
    PROVE  NoneOf(i)
  BY DEF Attended, NoStaleCopy, NextUp

LEMMA EscapesReconcile ==
    ASSUME Confined, Inv, Inv', EscapeInv, NoStaleCopy, ReconcileStep, NEW i \in Issues
    PROVE  lost' = {} /\ AttendedAt(i)'
<1>1. /\ rec \in [Issues -> Records] /\ task \in [Issues -> Tasks] /\ TypeOK
      /\ pc \notin ColdStart /\ LocalTargets = {} /\ lost = {}
  BY DEF Inv, TypeOK, EscapeInv, Confined, ColdStart, ReconcileStep, TickBegins,
     CancelledAllEnd, CancelTimesOut, ReconcilesRunning, ListFails, ListAnswered,
     ListReceived, BlockedEnds, Adopts, BlockedTurn, BlockedReap, BlockedGet,
     WaitingTurn, WaitingGet
<1>2. AttendedAt(i) /\ Shrinks
  BY <1>1, ReconcileShrinks DEF EscapeInv, Attended, AttendedAt, ColdStart
<1>3. ~CancelTimesOut
  BY DEF Confined, CancelTimesOut
<1>4. Running' = Running
  <2>1. CASE task' = task
    BY <2>1 DEF Running
  <2>2. ASSUME NEW unread \in SUBSET Issues, ReconcilesRunning(unread)
        PROVE  Running' = Running
    BY <1>1, <2>2 DEF ReconcilesRunning, Signalled, Running, Tasks
  <2> QED
    BY <1>3, <2>1, <2>2 DEF ReconcileStep, TickBegins, CancelledAllEnd, ListFails,
       ListAnswered, ListReceived, BlockedEnds, Adopts, BlockedTurn, BlockedReap,
       BlockedGet, WaitingTurn, WaitingGet, taskVars
<1>5. ASSUME rec' = rec, lost' = lost
      PROVE  lost' = {} /\ AttendedAt(i)'
  BY <1>1, <1>2, <1>4, <1>5, AttendedKept
<1>6. ASSUME NEW j \in Issues, NEW ok \in BOOLEAN, BlockedReap(j, ok)
      PROVE  lost' = {} /\ AttendedAt(i)'
  <2>1. lost' = {} /\ loaded[j] = rec[j] /\ \E r : Save(j, r)
    BY <1>1, <1>6, ReapLoses DEF BlockedReap, NextUp, Inv, BlockedCopies
  <2>2. CASE i # j
    BY <1>1, <1>2, <1>4, <2>1, <2>2, AttendedKept DEF Save
  <2>3. CASE i = j /\ ok
    <3>1. NoneOf(i)'
      BY <1>1, <1>6, <2>1, <2>3, NoneByReap, RecordFrame DEF BlockedReap
    <3> QED  BY <2>1, <3>1 DEF AttendedAt
  <2>4. CASE i = j /\ ~ok
    <3>1. Save(i, Unconfirmed(rec[i])) /\ rec[i] \in Records
      BY <1>1, <1>6, <2>1, <2>4 DEF BlockedReap
    <3>2. rec'[i].phase = "blocked"
      BY <1>1, <3>1, RecordFrame DEF Save
    <3> QED  BY <2>1, <3>2 DEF AttendedAt
  <2> QED  BY <2>2, <2>3, <2>4
<1>7. ASSUME NEW j \in Issues, NEW ok \in BOOLEAN, BlockedGet(j, ok)
      PROVE  lost' = {} /\ AttendedAt(i)'
  <2>1. lost' = {} /\ NoneOf(j) /\ (i # j => rec'[i] = rec[i])
    BY <1>1, <1>7 DEF BlockedGet, NextUp, Inv, BlockedCopies, Save
  <2> QED  BY <1>2, <1>4, <2>1, AttendedKept
<1>8. ASSUME NEW j \in Issues, WaitingTurn(j)
      PROVE  lost' = {} /\ AttendedAt(i)'
  <2>1. lost' = {} /\ (i # j \/ j \in Running => rec'[i] = rec[i])
    BY <1>1, <1>8 DEF WaitingTurn, Save
  <2>2. j \notin Running => NoneOf(j)
    BY <1>8, WaitingUnattended DEF EscapeInv, WaitingTurn
  <2> QED  BY <1>2, <1>4, <2>1, <2>2, AttendedKept
<1>9. ASSUME NEW j \in Issues, NEW ok \in BOOLEAN, WaitingGet(j, ok)
      PROVE  lost' = {} /\ AttendedAt(i)'
  <2>1. NextUp(j) /\ pc = "waitingGet" /\ j \notin Running
    BY <1>9, WaitingFacts DEF WaitingGet
  <2>2. NoneOf(j)
    BY <2>1, WaitingUnattended DEF EscapeInv
  <2>3. lost' = {}
    BY <1>1, <1>9, <2>2 DEF WaitingGet, NoneOf
  <2>4. i # j => rec'[i] = rec[i]
    BY <1>1, <1>9 DEF WaitingGet, Save
  <2> QED  BY <1>2, <1>4, <2>2, <2>3, <2>4, AttendedKept
<1>10. CASE Adopts
  <2>1. rec[i].phase = "blocked" => rec'[i].phase = "blocked"
    BY <1>10 DEF Adopts, Adoptable
  <2> QED  BY <1>1, <1>2, <1>4, <1>10, <2>1, AttendedKept DEF Adopts
<1> QED
  BY <1>3, <1>5, <1>6, <1>7, <1>8, <1>9, <1>10 DEF ReconcileStep, TickBegins,
     CancelledAllEnd, ReconcilesRunning, ListFails, ListAnswered, ListReceived,
     BlockedEnds, BlockedTurn, taskVars

LEMMA EscapesDispatch ==
    ASSUME Confined, Inv, Inv', EscapeInv, DispatchStep, NEW i \in Issues
    PROVE  lost' = {} /\ AttendedAt(i)'
<1>1. /\ rec \in [Issues -> Records] /\ task \in [Issues -> Tasks] /\ TypeOK
      /\ LocalTargets = {} /\ Labels \subseteq Targets /\ lost = {} /\ DispatchListed
  BY DEF Inv, TypeOK, EscapeInv, Confined
<1>2. AttendedAt(i)
  <2>1. pc \in Dispatching
    BY DEF DispatchStep, TickEnds, SkipsRunning, FindsStale, Misplaces, PassesOver,
       DispatchReap, Dispatches, AtPlacement, AtTurn, Dispatching
  <2> QED  BY <2>1 DEF EscapeInv, Attended, AttendedAt, Dispatching
<1>3. \A j \in Issues : ~Misplaces(j)
  BY <1>1, WellPlaced DEF Misplaces, AtPlacement, AtTurn
<1>4. ASSUME NEW j \in Issues, NEW id \in AttemptIds, Dispatches(j, id)
      PROVE  lost' = {} /\ AttendedAt(i)'
  <2>1. /\ lost' = {} /\ j \in Running'
        /\ i # j => rec'[i] = rec[i] /\ task'[i] = task[i]
        /\ live' \subseteq live \cup {e \in live' : e.issue = j}
    BY <1>1, <1>4 DEF Dispatches, Save, NoTask, Running
  <2>2. i # j => (NoneOf(i) => NoneOf(i)') /\ (i \in Running => i \in Running')
    BY <1>1, <2>1 DEF NoneOf, Running
  <2> QED  BY <1>2, <2>1, <2>2 DEF AttendedAt
<1>5. CASE ~\E j \in Issues, id \in AttemptIds : Dispatches(j, id)
  <2>1. Shrinks /\ Running' = Running
    <3>1. task' = task
      BY <1>5 DEF DispatchStep, TickEnds, SkipsRunning, FindsStale, Misplaces,
         PassesOver, DispatchReap, taskVars
    <3> QED  BY <1>5, <3>1, DispatchShrinks DEF Running
  <2>2. ASSUME NEW j \in Issues, NEW ok \in BOOLEAN, DispatchReap(j, ok)
        PROVE  lost' = {} /\ AttendedAt(i)'
    <3>1. lost' = {} /\ (i # j => rec'[i] = rec[i])
      BY <1>1, <2>2, ReapLoses DEF DispatchReap, Save
    <3>2. rec'[j].phase # "running"
      <4>1. /\ rec[j] \in Records
            /\ Save(j, Settled(rec[j], "ready")) \/ Save(j, Unconfirmed(rec[j]))
        BY <1>1, <2>2 DEF DispatchReap
      <4>2. rec'[j].phase \in {"ready", "blocked"}
        BY <1>1, <4>1, RecordFrame DEF Save
      <4> QED  BY <4>2
    <3> QED  BY <1>2, <2>1, <3>1, <3>2, AttendedKept, AttendedByPhase
  <2>3. ASSUME NEW j \in Issues, PassesOver(j)
        PROVE  lost' = {} /\ AttendedAt(i)'
    <3>1. /\ lost' = {}
          /\ rec[i].phase = "blocked" => rec'[i].phase = "blocked"
      BY <1>1, <2>3 DEF PassesOver, Save, Unblocked
    <3> QED  BY <1>2, <2>1, <3>1, AttendedKept
  <2>4. CASE rec' = rec /\ lost' = lost
    BY <1>1, <1>2, <2>1, <2>4, AttendedKept
  <2> QED  BY <1>3, <1>5, <2>2, <2>3, <2>4 DEF DispatchStep, TickEnds, SkipsRunning,
             FindsStale, taskVars
<1> QED  BY <1>4, <1>5

LEMMA EscapesAttempt ==
    ASSUME Confined, Inv, Inv', EscapeInv, NEW j \in Issues, AttemptStep(j),
           NEW i \in Issues
    PROVE  lost' = {} /\ (pc' \notin ColdStart => AttendedAt(i)')
<1>1. /\ LocalTargets = {} /\ lost = {} /\ "raise" \notin Faults
      /\ task' \in [Issues -> Tasks]
  BY DEF EscapeInv, Confined, Inv, TypeOK
<1>2. lost' = {}
  BY <1>1, ReapLoses DEF AttemptStep, Prepared, RecordsIdentity, RunReturns,
     RunInterrupted, RunStops, Unwinds, Refreshed, Blocks, Raises, Mends, Aborts,
     HandlerRaises
<1>3. /\ UNCHANGED tickVars
      /\ \A k \in Issues \ {j} : rec'[k] = rec[k] /\ task'[k] = task[k]
      /\ live' \ lost' \subseteq (live \ lost) \cup {Executor(j)}
      /\ Executor(j).issue = j
  BY AttemptFrame DEF Executor, ExecutorOf
<1>4. CASE i = j
  BY <1>1, <1>2, <1>4, EndLeavesRunning, AttendedByPhase DEF AttendedAt, Running
<1>5. CASE i # j
  <2>1. (NoneOf(i) => NoneOf(i)') /\ (i \in Running => i \in Running')
    BY <1>3, <1>5 DEF NoneOf, Running
  <2>2. pc' \notin ColdStart => AttendedAt(i)
    BY <1>3 DEF EscapeInv, Attended, AttendedAt, ColdStart, tickVars
  <2> QED  BY <1>2, <1>3, <1>5, <2>1, <2>2 DEF AttendedAt
<1> QED  BY <1>4, <1>5

LEMMA EscapesOther ==
    ASSUME Confined, Inv, Inv', Resolving, EscapeInv,
           RecoverStep \/ ShutdownStep \/ EnvironmentStep, NEW i \in Issues
    PROVE  lost' = {} /\ (pc' \notin ColdStart => AttendedAt(i)')
<1>1. /\ rec \in [Issues -> Records] /\ task \in [Issues -> Tasks] /\ TypeOK
      /\ LocalTargets = {} /\ lost = {} /\ "slow" \notin Faults /\ "raise" \notin Faults
  BY DEF Inv, TypeOK, EscapeInv, Confined
<1>2. CASE RecoverStep
  <2>1. lost' = {}
    BY <1>1, <1>2, ReapLoses DEF RecoverStep, Start, RecoverReap, RecoverGet,
       RecoverEnds, taskVars
  <2>2. CASE RecoverEnds
    <3>1. rec'[i].phase # "running"
      BY <2>2 DEF RecoverEnds, Resolving, Unresolved
    <3> QED  BY <2>1, <3>1, AttendedByPhase
  <2>3. CASE ~RecoverEnds
    BY <1>2, <2>1, <2>3 DEF RecoverStep, Start, RecoverReap, RecoverGet, Advance, ColdStart
  <2> QED  BY <2>2, <2>3
<1>3. CASE ShutdownStep
  <2>1. CASE Drained
    BY <1>1, <2>1 DEF Drained, LeavesTick, ColdStart
  <2>2. CASE Sigterm \/ DrainBegins
    <3>1. /\ task' = Signalled(Running) /\ UNCHANGED <<rec, live, lost>>
          /\ pc' \notin ColdStart => pc \notin ColdStart
      BY <2>2 DEF Sigterm, DrainBegins, tickVars, ColdStart
    <3>2. Running' = Running
      BY <1>1, <3>1 DEF Signalled, Running, Tasks
    <3>3. AttendedAt(i)' <=> AttendedAt(i)
      BY <3>1, <3>2 DEF AttendedAt, NoneOf
    <3> QED  BY <1>1, <3>1, <3>3 DEF EscapeInv, Attended, AttendedAt, ColdStart
  <2> QED  BY <1>1, <1>3, <2>1, <2>2 DEF ShutdownStep, TickRaises, ShutdownCancels
<1>4. CASE EnvironmentStep
  <2>1. CASE Crash
    BY <1>1, <2>1 DEF Crash, LeavesTick, ColdStart
  <2>2. CASE ~Crash
    <3>1. /\ pc' = pc /\ task' = task /\ lost' \subseteq lost
          /\ rec' = rec \/ \E j \in Issues : rec' = [rec EXCEPT ![j].later = FALSE]
      BY <1>4, <2>2 DEF EnvironmentStep, Relabels, DelayEnds, ExecutorEnds, taskVars, tickVars
    <3>2. rec'[i].phase = rec[i].phase
      BY <1>1, <3>1 DEF Records
    <3>3. Shrinks
      BY <1>4, EnvironmentShrinks
    <3>4. pc' \notin ColdStart => AttendedAt(i)
      BY <3>1 DEF EscapeInv, Attended, AttendedAt, ColdStart
    <3> QED  BY <1>1, <3>1, <3>2, <3>3, <3>4, AttendedKept DEF Running
  <2> QED  BY <2>1, <2>2
<1> QED  BY <1>2, <1>3, <1>4

LEMMA EscapesNone ==
    ASSUME Confined, Inv, Inv', Resolving, EscapeInv, NoStaleCopy, [Next]_vars
    PROVE  EscapeInv'
<1>1. DispatchListed'
  BY DispatchListedKept DEF EscapeInv
<1>2. ASSUME lost' = {}, \A i \in Issues : pc' \notin ColdStart => AttendedAt(i)'
      PROVE  EscapeInv'
  BY <1>1, <1>2 DEF EscapeInv, Attended, AttendedAt, ColdStart
<1>3. CASE UNCHANGED vars
  BY <1>3 DEF vars, taskVars, tickVars, EscapeInv, Attended, DispatchListed, NoneOf,
     Running, Listed
<1>4. ASSUME Next, lost' # {}
      PROVE  FALSE
  <2>1. PICK i \in Issues : TRUE
    <3>1. live' \subseteq Executors /\ lost' \subseteq live'
      BY DEF Inv, TypeOK
    <3> QED  BY <1>4, <3>1 DEF Executors
  <2> QED  BY <1>4, <2>1, EscapesReconcile, EscapesDispatch, EscapesAttempt,
              EscapesOther DEF Next
<1>5. ASSUME Next, NEW i \in Issues, pc' \notin ColdStart
      PROVE  AttendedAt(i)'
  BY <1>5, EscapesReconcile, EscapesDispatch, EscapesAttempt, EscapesOther DEF Next
<1> QED  BY <1>2, <1>3, <1>4, <1>5

\* On SSH hosts, with labels that all name a target, awaits that end in time and
\* no exception nobody expects, a stale copy of the waiting loop is the only way
\* to a second executor: not kill -9, a lost confirmation, a failing tracker or a
\* signal, at any point.
THEOREM NoneEscapes ==
    ASSUME Confined
    PROVE  Spec /\ []NoStaleCopy => []NoDuplicateExecutor
<1>1. Init => EscapeInv /\ Resolving
  BY DEF Init, EscapeInv, Attended, DispatchListed, Resolving
<1>2. Inv /\ Inv' /\ Resolving /\ EscapeInv /\ NoStaleCopy /\ [Next]_vars => EscapeInv'
  BY EscapesNone
<1>3. Inv /\ Resolving /\ [Next]_vars => Resolving'
  BY ResolvingKept
<1>4. EscapeInv /\ (lost = {} => NoDuplicateExecutor) => NoDuplicateExecutor
  BY DEF EscapeInv
<1> QED  BY <1>1, <1>2, <1>3, <1>4, InvCorrect, OneExecutorEach, PTL DEF Spec

-----------------------------------------------------------------------------
(* Where no copy of the waiting loop is stale *)

\* A single issue: while its turn lasts, nobody else has it.
LEMMA OnlyIssueFresh ==
    ASSUME NEW n, Issues = {n}, Inv, NoStaleCopy, [Next]_vars
    PROVE  NoStaleCopy'
<1> DEFINE Waiting == {"waiting", "waitingGet"}
<1>1. rec \in [Issues -> Records] /\ todo \subseteq Issues
  BY DEF Inv, TypeOK
<1>2. ASSUME pc' \notin Waiting \/ todo' = {}
      PROVE  NoStaleCopy'
  BY <1>2 DEF NoStaleCopy
<1>3. ASSUME pc \in Waiting, todo' = todo, \A i \in todo : rec'[i].phase = rec[i].phase
      PROVE  NoStaleCopy'
  BY <1>3 DEF NoStaleCopy
<1>4. CASE RecoverStep \/ DispatchStep
  <2>1. pc' \notin Waiting
    BY <1>4 DEF RecoverStep, Start, RecoverReap, RecoverGet, RecoverEnds, Advance,
       LeavesTick, DispatchStep, TickEnds, SkipsRunning, FindsStale, Misplaces,
       PassesOver, DispatchReap, Dispatches, AtPlacement, AtTurn
  <2> QED  BY <1>2, <2>1
<1>5. ASSUME NEW j \in Issues, WaitingTurn(j) \/ \E ok \in BOOLEAN : WaitingGet(j, ok)
      PROVE  NoStaleCopy'
  <2>1. \/ todo' = todo \ {j}
        \/ pc \in Waiting /\ todo' = todo /\ rec' = rec
    BY <1>5 DEF WaitingTurn, WaitingGet, Advance
  <2> QED  BY <1>1, <1>2, <1>3, <2>1
<1>6. CASE BlockedEnds
  BY <1>6 DEF BlockedEnds, InPhase, DispatchablePhases, NoStaleCopy, taskVars
<1>7. CASE /\ ReconcileStep /\ ~BlockedEnds
           /\ ~\E j \in Issues : WaitingTurn(j) \/ \E ok \in BOOLEAN : WaitingGet(j, ok)
  <2>1. pc' \notin Waiting
    BY <1>7 DEF ReconcileStep, TickBegins, CancelledAllEnd, CancelTimesOut,
       ReconcilesRunning, ListFails, ListAnswered, ListReceived, Adopts, BlockedTurn,
       BlockedReap, BlockedGet, AfterReconcile, Advance, LeavesTick
  <2> QED  BY <1>2, <2>1
<1>8. CASE ShutdownStep \/ EnvironmentStep
  <2>1. \/ pc' \notin Waiting
        \/ /\ UNCHANGED <<pc, todo>>
           /\ rec' = rec \/ \E j \in Issues : rec' = [rec EXCEPT ![j].later = FALSE]
    BY <1>8 DEF ShutdownStep, Sigterm, ShutdownCancels, DrainBegins, TickRaises, Drained,
       EnvironmentStep, Crash, Relabels, DelayEnds, ExecutorEnds, LeavesTick, tickVars,
       taskVars
  <2>2. \/ pc' \notin Waiting
        \/ UNCHANGED <<pc, todo>> /\ \A i \in Issues : rec'[i].phase = rec[i].phase
    BY <1>1, <2>1 DEF Records
  <2> QED  BY <1>1, <1>2, <1>3, <2>2
<1>9. ASSUME NEW j \in Issues, AttemptStep(j)
      PROVE  NoStaleCopy'
  <2>1. j \in Running /\ LoopFree /\ UNCHANGED <<pc, todo>>
    BY <1>9, AttemptFrame DEF tickVars
  <2>2. pc = "waitingGet" => todo = {}
    <3>1. ASSUME pc = "waitingGet", todo # {}
          PROVE  FALSE
      <4>1. j = n /\ todo = {n} /\ n \in Nat
        BY <1>1, <3>1, ConstantsAssumption
      <4>2. NextUp(j)
        BY <4>1 DEF NextUp
      <4> QED  BY <2>1, <3>1, <4>1, <4>2 DEF Inv, TurnHasNoAttempt
    <3> QED  BY <3>1
  <2> QED  BY <1>2, <2>1, <2>2 DEF LoopFree, HoldsLoop
<1>10. CASE UNCHANGED vars
  BY <1>10 DEF vars, taskVars, tickVars, NoStaleCopy
<1> QED  BY <1>4, <1>5, <1>6, <1>7, <1>8, <1>9, <1>10 DEF Next

\* Where every stop is confirmed, nothing is ever BLOCKED for its executor.
NeverBlocked ==
    \A i \in Issues : /\ rec[i].phase # "blocked" /\ loaded[i].phase # "blocked"
                      /\ task[i].pc # "blocking"

LEMMA ReapConfirmed ==
    ASSUME "unconfirmed" \notin Faults, NEW i, NEW r, NEW safe \in BOOLEAN,
           Reap(i, r, safe)
    PROVE  safe
  BY DEF Reap

\* What a loop or an attempt writes in one record, in memory and on disk.
LEMMA NeverBlockedKept ==
    ASSUME TypeOK, NeverBlocked,
           \A i \in Issues : /\ rec'[i].phase # "blocked"
                             /\ task'[i].pc # "blocking" \/ task' = task,
           \/ loaded' = loaded \/ loaded' = rec \/ loaded' = Nothing
           \/ \A i \in Issues : loaded'[i].phase # "blocked"
    PROVE  NeverBlocked'
  BY DEF NeverBlocked, Nothing, NewRecord

LEMMA ConfirmedTick ==
    ASSUME "unconfirmed" \notin Faults, Inv, NeverBlocked,
           RecoverStep \/ ReconcileStep \/ DispatchStep
    PROVE  NeverBlocked'
<1>1. /\ TypeOK /\ rec \in [Issues -> Records] /\ loaded \in [Issues -> Records]
      /\ task \in [Issues -> Tasks]
  BY DEF Inv, TypeOK
<1>2. \A i \in Issues : rec[i].phase # "blocked" /\ loaded[i].phase # "blocked"
                        /\ task[i].pc # "blocking"
  BY DEF NeverBlocked
<1>3. ASSUME NEW i \in Issues, NEW ok \in BOOLEAN, RecoverReap(i, ok)
      PROVE  NeverBlocked'
  <2>1. /\ Save(i, [loaded[i] EXCEPT !.process = FALSE]) /\ task' = task
        /\ loaded' = [loaded EXCEPT ![i].phase = "ready", ![i].process = FALSE]
    BY <1>3, ReapConfirmed DEF RecoverReap
  <2>2. \A j \in Issues : loaded'[j].phase # "blocked"
    BY <1>1, <1>2, <2>1 DEF Records
  <2>3. \A j \in Issues : rec'[j].phase # "blocked"
    BY <1>1, <1>2, <2>1 DEF Save, Records
  <2> QED  BY <1>1, <2>1, <2>2, <2>3, NeverBlockedKept
<1>4. ASSUME NEW i \in Issues, NEW ok \in BOOLEAN, BlockedReap(i, ok)
      PROVE  NeverBlocked'
  <2>1. /\ task' = task
        /\ \/ Save(i, Settled(loaded[i], "ready")) /\ loaded' = loaded
           \/ /\ Save(i, [loaded[i] EXCEPT !.process = FALSE])
              /\ loaded' = [loaded EXCEPT ![i].process = FALSE]
    BY <1>4, ReapConfirmed DEF BlockedReap
  <2>2. \A j \in Issues : loaded'[j].phase # "blocked"
    BY <1>1, <1>2, <2>1 DEF Records
  <2>3. \A j \in Issues : rec'[j].phase # "blocked"
    BY <1>1, <1>2, <2>1 DEF Save, Settled, Records
  <2> QED  BY <1>1, <2>1, <2>2, <2>3, NeverBlockedKept
<1>5. ASSUME NEW i \in Issues, NEW ok \in BOOLEAN,
             \/ RecoverGet(i, ok) \/ BlockedGet(i, ok) \/ WaitingGet(i, ok)
             \/ DispatchReap(i, ok) \/ WaitingTurn(i)
      PROVE  NeverBlocked'
  <2>1. task' = task /\ loaded' = loaded
    BY <1>5 DEF RecoverGet, BlockedGet, WaitingGet, DispatchReap, WaitingTurn
  <2>2. \A j \in Issues : rec'[j].phase # "blocked"
    <3>1. CASE RecoverGet(i, ok)
      BY <1>1, <1>2, <3>1 DEF RecoverGet, Resumed, Retired, Save, Records
    <3>2. CASE BlockedGet(i, ok)
      BY <1>1, <1>2, <3>2 DEF BlockedGet, Save, Records
    <3>3. CASE WaitingGet(i, ok)
      BY <1>1, <1>2, <3>3 DEF WaitingGet, Save, Settled, Records
    <3>4. CASE DispatchReap(i, ok)
      BY <1>1, <1>2, <3>4, ReapConfirmed DEF DispatchReap, Save, Settled, Records
    <3>5. CASE WaitingTurn(i)
      BY <1>1, <1>2, <3>5 DEF WaitingTurn, Save
    <3> QED  BY <1>5, <3>1, <3>2, <3>3, <3>4, <3>5
  <2> QED  BY <1>1, <1>2, <2>1, <2>2, NeverBlockedKept
<1>6. ASSUME NEW i \in Issues,
             Misplaces(i) \/ PassesOver(i) \/ \E id \in AttemptIds : Dispatches(i, id)
      PROVE  NeverBlocked'
  <2>1. loaded' = loaded /\ (task' = task \/ \A j \in Issues : task'[j].pc # "blocking")
    BY <1>1, <1>2, <1>6 DEF Misplaces, PassesOver, Dispatches, NoTask
  <2>2. \A j \in Issues : rec'[j].phase # "blocked"
    <3>1. CASE Misplaces(i)
      BY <1>1, <1>2, <3>1 DEF Misplaces, Save, Records
    <3>2. CASE PassesOver(i)
      BY <1>1, <1>2, <3>2 DEF PassesOver, Unblocked, Save, Records
    <3>3. ASSUME NEW id \in AttemptIds, Dispatches(i, id)
          PROVE  \A j \in Issues : rec'[j].phase # "blocked"
      BY <1>1, <1>2, <3>3 DEF Dispatches, Save
    <3> QED  BY <1>6, <3>1, <3>2, <3>3
  <2> QED  BY <1>1, <2>1, <2>2, NeverBlockedKept
<1>7. CASE Adopts
  BY <1>1, <1>2, <1>7, NeverBlockedKept DEF Adopts, LeavesTick, Records
<1>8. ASSUME \/ CancelTimesOut \/ \E unread \in SUBSET Issues : ReconcilesRunning(unread)
       PROVE  NeverBlocked'
  <2>1. rec' = rec /\ loaded' = loaded
    BY <1>8 DEF CancelTimesOut, ReconcilesRunning
  <2>2. \A j \in Issues : task'[j].pc # "blocking"
    <3>1. CASE CancelTimesOut
      BY <1>2, <3>1 DEF CancelTimesOut, CancelTasks, NoTask
    <3>2. ASSUME NEW unread \in SUBSET Issues, ReconcilesRunning(unread)
          PROVE  \A j \in Issues : task'[j].pc # "blocking"
      BY <1>1, <1>2, <3>2 DEF ReconcilesRunning, Signalled, Tasks
    <3> QED  BY <1>8, <3>1, <3>2
  <2> QED  BY <1>1, <1>2, <2>1, <2>2, NeverBlockedKept
<1>9. ASSUME task' = task, rec' = rec,
              loaded' = loaded \/ loaded' = rec \/ loaded' = Nothing
       PROVE  NeverBlocked'
  BY <1>1, <1>2, <1>9, NeverBlockedKept
<1> QED
  BY <1>3, <1>4, <1>5, <1>6, <1>7, <1>8, <1>9 DEF RecoverStep, ReconcileStep,
     DispatchStep, Start, RecoverEnds, TickBegins, CancelledAllEnd, ListFails,
     ListAnswered, ListReceived, BlockedEnds, BlockedTurn, SkipsRunning, FindsStale,
     TickEnds, LeavesTick, taskVars

LEMMA ConfirmedAttempt ==
    ASSUME "unconfirmed" \notin Faults, Inv, NeverBlocked, NEW i \in Issues, AttemptStep(i)
    PROVE  NeverBlocked'
<1>1. /\ TypeOK /\ rec \in [Issues -> Records] /\ task \in [Issues -> Tasks]
      /\ rec[i] \in Records
  BY DEF Inv, TypeOK
<1>2. /\ rec[i].phase # "blocked" /\ task[i].pc # "blocking"
      /\ \A j \in Issues \ {i} : rec'[j] = rec[j] /\ task'[j] = task[j]
      /\ loaded' = loaded
  BY AttemptFrame DEF NeverBlocked, tickVars
<1>3. rec'[i].phase # "blocked" /\ task'[i].pc # "blocking"
  <2>1. ASSUME NEW place \in {"run", "mend", "abort"}, GoTo(i, place)
        PROVE  rec'[i].phase # "blocked" /\ task'[i].pc # "blocking"
    BY <1>1, <1>2, <2>1, GoToFrame
  <2>2. ASSUME NEW outcome, StoppedSafely(i, outcome)
        PROVE  rec'[i].phase # "blocked" /\ task'[i].pc # "blocking"
    BY <1>1, <1>2, <2>2, StoppedSafelyFrame
  <2>3. ASSUME NEW r, EndsWith(i, r), r.phase # "blocked"
        PROVE  rec'[i].phase # "blocked" /\ task'[i].pc # "blocking"
    BY <1>1, <2>3, EndsWithFrame
  <2>4. ASSUME NEW ok \in BOOLEAN, RunStops(i, ok) \/ Unwinds(i, ok)
        PROVE  rec'[i].phase # "blocked" /\ task'[i].pc # "blocking"
    <3>1. ok
      BY <2>4, ReapConfirmed DEF RunStops, Unwinds
    <3> QED  BY <2>1, <2>2, <2>4, <3>1 DEF RunStops, Unwinds, AfterStop
  <2>5. ASSUME NEW ok \in BOOLEAN, Mends(i, ok) \/ Aborts(i, ok)
        PROVE  rec'[i].phase # "blocked" /\ task'[i].pc # "blocking"
    <3>1. ok
      BY <2>5, ReapConfirmed DEF Mends, Aborts
    <3>2. EndsWith(i, RetryLater(rec[i])) \/ EndsWith(i, Settled(rec[i], "ready"))
      BY <2>5, <3>1 DEF Mends, Aborts
    <3> QED  BY <1>1, <2>3, <3>2, RecordFrame
  <2>6. ASSUME NEW ok \in BOOLEAN, Refreshed(i, ok)
        PROVE  rec'[i].phase # "blocked" /\ task'[i].pc # "blocking"
    <3>1. \/ EndsWith(i, RetryLater(rec[i]))
          \/ EndsWith(i, Settled(rec[i], "released"))
          \/ EndsWith(i, [Settled(rec[i], "continuation_wait") EXCEPT !.later = TRUE])
          \/ EndsWith(i, Settled(rec[i], "ready"))
      BY <2>6 DEF Refreshed
    <3>2. [Settled(rec[i], "continuation_wait") EXCEPT !.later = TRUE].phase # "blocked"
      BY <1>1 DEF Settled, Records
    <3> QED  BY <1>1, <2>3, <3>1, <3>2, RecordFrame
  <2>7. ASSUME RecordsIdentity(i) \/ RunInterrupted(i)
        PROVE  rec'[i].phase # "blocked" /\ task'[i].pc # "blocking"
    BY <1>1, <1>2, <2>7 DEF RecordsIdentity, RunInterrupted, Records, Tasks
  <2>8. ~Blocks(i)
    BY <1>2 DEF Blocks
  <2> QED
    BY <1>2, <2>1, <2>2, <2>3, <2>4, <2>5, <2>6, <2>7, <2>8 DEF AttemptStep, Prepared,
       RunReturns, Raises, HandlerRaises
<1> QED  BY <1>2, <1>3 DEF NeverBlocked

LEMMA ConfirmedFresh ==
    ASSUME "unconfirmed" \notin Faults, Inv, NeverBlocked, [Next]_vars
    PROVE  NeverBlocked'
<1>1. /\ TypeOK /\ rec \in [Issues -> Records] /\ loaded \in [Issues -> Records]
      /\ task \in [Issues -> Tasks]
  BY DEF Inv, TypeOK
<1>2. CASE ShutdownStep
  <2>1. rec' = rec /\ (loaded' = loaded \/ loaded' = Nothing)
    BY <1>2 DEF ShutdownStep, Sigterm, ShutdownCancels, DrainBegins, TickRaises, Drained,
       LeavesTick, tickVars
  <2>2. \A i \in Issues : task'[i].pc # "blocking"
    <3>1. ASSUME NEW i \in Issues, ShutdownCancels(i)
          PROVE  \A j \in Issues : task'[j].pc # "blocking"
      BY <3>1 DEF ShutdownCancels, CancelTasks, NoTask, NeverBlocked
    <3>2. CASE task' = Signalled(Running)
      BY <1>1, <3>2 DEF Signalled, Tasks, NeverBlocked
    <3>3. CASE task' = task
      BY <3>3 DEF NeverBlocked
    <3> QED  BY <1>2, <3>1, <3>2, <3>3 DEF ShutdownStep, Sigterm, DrainBegins,
               TickRaises, Drained
  <2> QED  BY <1>1, <2>1, <2>2, NeverBlockedKept DEF NeverBlocked
<1>3. CASE EnvironmentStep
  <2>1. ASSUME NEW i \in Issues, DelayEnds(i)
        PROVE  NeverBlocked'
    BY <1>1, <2>1 DEF DelayEnds, NeverBlocked, Records
  <2>2. CASE Crash
    BY <2>2 DEF Crash, LeavesTick, NeverBlocked, NoTask, Nothing, NewRecord
  <2>3. CASE UNCHANGED <<rec, task, loaded>>
    BY <2>3 DEF NeverBlocked
  <2> QED  BY <1>3, <2>1, <2>2, <2>3 DEF EnvironmentStep, Relabels, ExecutorEnds,
             taskVars, tickVars
<1>4. CASE UNCHANGED vars
  BY <1>4 DEF vars, taskVars, tickVars, NeverBlocked
<1> QED  BY <1>2, <1>3, <1>4, ConfirmedTick, ConfirmedAttempt DEF Next

\* No copy of the waiting loop is stale in the way that matters if the scheduler
\* has one issue only, or if its hosts confirm every stop.
THEOREM CopiesFresh ==
    ASSUME "unconfirmed" \notin Faults \/ \E n : Issues = {n}
    PROVE  Spec => []NoStaleCopy
<1>1. CASE "unconfirmed" \notin Faults
  <2>1. Init => NeverBlocked
    BY DEF Init, NeverBlocked, Nothing, NewRecord, NoTask
  <2>2. Inv /\ NeverBlocked /\ [Next]_vars => NeverBlocked'
    BY <1>1, ConfirmedFresh
  <2>3. Inv /\ NeverBlocked => NoStaleCopy
    BY DEF Inv, TypeOK, NeverBlocked, NoStaleCopy
  <2> QED  BY <2>1, <2>2, <2>3, InvCorrect, PTL DEF Spec
<1>2. CASE \E n : Issues = {n}
  <2>1. Init => NoStaleCopy
    BY DEF Init, NoStaleCopy
  <2>2. Inv /\ NoStaleCopy /\ [Next]_vars => NoStaleCopy'
    BY <1>2, OnlyIssueFresh
  <2> QED  BY <2>1, <2>2, InvCorrect, PTL DEF Spec
<1> QED  BY <1>1, <1>2

\* Both promises of run `killed` for every set of SSH hosts, labels and ids: through
\* kill -9, signals, a failing tracker and lost confirmations one issue never has
\* two executors and stays BLOCKED while the last may run; any number of issues,
\* if the hosts confirm.
THEOREM KilledSafely ==
    ASSUME Confined, "unconfirmed" \notin Faults \/ \E n : Issues = {n}
    PROVE  Spec => []NoDuplicateExecutor /\ BlockedUntilStopped
<1>1. LocalTargets = {} /\ Labels \subseteq Targets
  BY DEF Confined
<1>2. Spec => []NoStaleCopy
  BY CopiesFresh
<1>3. Spec /\ []NoStaleCopy => []NoDuplicateExecutor
  BY NoneEscapes
<1>4. Spec /\ []NoStaleCopy => BlockedUntilStopped
  BY <1>1, BlockedStays
<1> QED  BY <1>2, <1>3, <1>4, PTL
=============================================================================
