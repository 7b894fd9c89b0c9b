----------------------------- MODULE StepProofs -----------------------------
(***************************************************************************)
(* Action properties of the scheduler, from the invariant Inv: who writes  *)
(* the record of an attempt in progress, and what a cold start leaves.     *)
(***************************************************************************)
EXTENDS AccountedProofs

-----------------------------------------------------------------------------
(* One writer *)

LEMMA RecoverWrites ==
    ASSUME Inv, RecoverStep
    PROVE  Running # {} => rec' = rec
<1>1. CASE Start \/ RecoverEnds
  BY <1>1 DEF Start, RecoverEnds, taskVars
<1>2. ASSUME NEW i \in Issues, NEW ok \in BOOLEAN,
             RecoverReap(i, ok) \/ RecoverGet(i, ok)
      PROVE  Running = {}
  BY <1>2 DEF RecoverReap, RecoverGet, Inv, AloneInRecovery
<1> QED  BY <1>1, <1>2 DEF RecoverStep

LEMMA ReconcileWrites ==
    ASSUME Inv, ReconcileStep, NEW i \in Running
    PROVE  rec'[i] = rec[i]
<1>1. i \in Issues /\ rec \in [Issues -> Records] /\ rec[i].phase = "running"
  BY DEF Running, Inv, TypeOK, AttemptOwnsRecord
<1>2. CASE Adopts
  BY <1>1, <1>2 DEF Adopts, Adoptable
<1>3. ASSUME NEW j \in Issues, WaitingTurn(j)
      PROVE  rec'[i] = rec[i]
  BY <1>1, <1>3 DEF WaitingTurn, Save
<1>4. ASSUME NEW j \in Issues, NEW ok \in BOOLEAN, WaitingGet(j, ok)
      PROVE  rec'[i] = rec[i]
  <2>1. j # i
    BY <1>4 DEF WaitingGet, NextUp, Inv, TurnHasNoAttempt
  <2> QED  BY <1>1, <1>4, <2>1 DEF WaitingGet, Save
<1>5. ASSUME NEW j \in Issues, NEW ok \in BOOLEAN,
             BlockedReap(j, ok) \/ BlockedGet(j, ok)
      PROVE  rec'[i] = rec[i]
  <2>1. j # i
    BY <1>5 DEF BlockedReap, BlockedGet, NextUp, Inv, BlockedCopies
  <2> QED  BY <1>1, <1>5, <2>1 DEF BlockedReap, BlockedGet, Save
<1>6. CASE ListingStep \/ ListReceived \/ BlockedEnds \/ \E j \in Issues : BlockedTurn(j)
  BY <1>6 DEF ListingStep, TickBegins, CancelledAllEnd, CancelTimesOut,
     ReconcilesRunning, ListFails, ListAnswered, ListReceived, BlockedEnds,
     BlockedTurn, taskVars
<1> QED  BY <1>2, <1>3, <1>4, <1>5, <1>6 DEF ReconcileStep, ListingStep

LEMMA DispatchWrites ==
    ASSUME Inv, DispatchStep, NEW i \in Running
    PROVE  rec'[i] = rec[i]
<1>1. i \in Issues /\ rec \in [Issues -> Records]
  BY DEF Running, Inv, TypeOK
<1>2. ASSUME NEW j \in Issues, NEW ok \in BOOLEAN, DispatchReap(j, ok)
      PROVE  rec'[i] = rec[i]
  <2>1. j # i
    BY <1>2 DEF DispatchReap, NextUp, Inv, TurnHasNoAttempt
  <2> QED  BY <1>1, <1>2, <2>1 DEF DispatchReap, Save
<1>3. ASSUME NEW j \in Issues,
             \/ Misplaces(j) \/ PassesOver(j)
             \/ \E id \in AttemptIds : Dispatches(j, id)
      PROVE  rec'[i] = rec[i]
  <2>1. j # i /\ \E r : Save(j, r)
    BY <1>3 DEF Misplaces, PassesOver, Dispatches, AtPlacement
  <2> QED  BY <1>1, <2>1 DEF Save
<1>4. CASE TickEnds \/ \E j \in Issues : SkipsRunning(j) \/ FindsStale(j)
  BY <1>4 DEF TickEnds, SkipsRunning, FindsStale, taskVars
<1> QED  BY <1>2, <1>3, <1>4 DEF DispatchStep

\* While an attempt is in progress no step of the run_forever task writes its
\* record: nothing the attempt saves is overwritten by a copy read earlier.
THEOREM OneWriter == Spec => SingleWriter
<1>1. Inv /\ [Next]_vars =>
        [\A i \in Running : pc' # pc \/ todo' # todo => rec'[i] = rec[i]]_vars
  <2> SUFFICES ASSUME Inv, Next, NEW i \in Running, pc' # pc \/ todo' # todo
               PROVE  rec'[i] = rec[i]
    OBVIOUS
  <2>1. CASE RecoverStep
    BY <2>1, RecoverWrites
  <2>2. CASE ReconcileStep
    BY <2>2, ReconcileWrites
  <2>3. CASE DispatchStep
    BY <2>3, DispatchWrites
  <2>4. CASE ShutdownStep
    BY <2>4 DEF ShutdownStep, Sigterm, DrainBegins, TickRaises, Drained, ShutdownCancels
  <2>5. ASSUME NEW j \in Issues, AttemptStep(j) PROVE FALSE
    BY <2>5, AttemptFrame DEF tickVars
  <2>6. CASE EnvironmentStep
    BY <2>6 DEF EnvironmentStep, Crash, Relabels, DelayEnds, ExecutorEnds, tickVars
  <2> QED  BY <2>1, <2>2, <2>3, <2>4, <2>5, <2>6 DEF Next
<1> QED  BY <1>1, InvCorrect, PTL DEF Spec, SingleWriter

-----------------------------------------------------------------------------
(* Cold start *)

Unresolved == {"running", "continuation_wait", "retry_wait"}

\* What recover has visited, or never had a record, is resolved.
Resolving ==
    pc \in {"recover", "recoverGet"} =>
      \A i \in Issues \ todo : rec[i].phase \notin Unresolved

LEMMA ResolvingKept ==
    ASSUME Inv, Resolving, [Next]_vars
    PROVE  Resolving'
<1>1. TypeOK
  BY DEF Inv
<1>2. CASE UNCHANGED vars
  BY <1>2 DEF vars, taskVars, tickVars, Resolving
<1>3. CASE Start
  BY <1>1, <1>3 DEF Start, taskVars, Resolving, Unresolved
<1>4. ASSUME NEW i \in Issues, NEW ok \in BOOLEAN, RecoverReap(i, ok)
      PROVE  Resolving'
  <2>1. i \in todo /\ pc = "recover" /\ todo' = todo /\ \E r : Save(i, r)
    BY <1>4 DEF RecoverReap, NextUp
  <2>2. \A j \in Issues \ todo : rec'[j] = rec[j]
    BY <1>1, <2>1 DEF Save, TypeOK
  <2> QED  BY <2>1, <2>2 DEF Resolving
<1>5. ASSUME NEW i \in Issues, NEW ok \in BOOLEAN, RecoverGet(i, ok)
      PROVE  Resolving'
  <2>1. /\ pc \in {"recover", "recoverGet"} /\ todo' = todo \ {i}
        /\ \E phase \in {"ready", "released", "blocked", "placement_blocked"} :
             Save(i, [loaded[i] EXCEPT !.later = FALSE, !.phase = phase])
    BY <1>5 DEF RecoverGet, Resumed, Retired, Advance
  <2>2. /\ \A j \in Issues \ {i} : rec'[j] = rec[j]
        /\ rec'[i].phase \notin Unresolved
    BY <1>1, <2>1 DEF Save, TypeOK, Records, Unresolved
  <2> QED  BY <2>1, <2>2 DEF Resolving
<1>6. CASE RecoverEnds \/ ReconcileStep \/ DispatchStep
  <2>1. pc' \notin {"recover", "recoverGet"}
    BY <1>6 DEF RecoverEnds, ReconcileStep, DispatchStep, LeavesTick, TickBegins,
       CancelledAllEnd, CancelTimesOut, ReconcilesRunning, AfterReconcile, ListFails,
       ListAnswered, ListReceived, BlockedEnds, Adopts, BlockedTurn, WaitingTurn,
       BlockedReap, BlockedGet, WaitingGet, SkipsRunning, FindsStale, Misplaces,
       PassesOver, DispatchReap, Dispatches, TickEnds, Advance
  <2> QED  BY <2>1 DEF Resolving
<1>7. CASE ShutdownStep
  <2>1. \/ rec' = rec /\ UNCHANGED tickVars
        \/ pc' \notin {"recover", "recoverGet"}
    BY <1>7 DEF ShutdownStep, Sigterm, DrainBegins, TickRaises, Drained,
       ShutdownCancels, LeavesTick
  <2> QED  BY <2>1 DEF Resolving, tickVars
<1>8. ASSUME NEW i \in Issues, AttemptStep(i)
      PROVE  Resolving'
  <2>1. pc' \notin {"recover", "recoverGet"}
    BY <1>8, AttemptFrame DEF Inv, AloneInRecovery, tickVars
  <2> QED  BY <2>1 DEF Resolving
<1>9. CASE EnvironmentStep
  <2>1. \/ rec' = rec /\ UNCHANGED tickVars
        \/ pc' = "down"
        \/ /\ pc' = pc /\ todo' = todo
           /\ \E i \in Issues : rec' = [rec EXCEPT ![i].later = FALSE]
    BY <1>9 DEF EnvironmentStep, Crash, Relabels, DelayEnds, ExecutorEnds,
       LeavesTick, taskVars
  <2>2. ASSUME NEW i \in Issues, rec' = [rec EXCEPT ![i].later = FALSE]
        PROVE  \A j \in Issues : rec'[j].phase = rec[j].phase
    BY <1>1, <2>2 DEF TypeOK, Records
  <2> QED  BY <2>1, <2>2 DEF Resolving, tickVars
<1> QED  BY <1>2, <1>3, <1>4, <1>5, <1>6, <1>7, <1>8, <1>9 DEF Next, RecoverStep

\* A cold start that completes leaves nothing RUNNING or waiting, and every
\* executor still accounted for has its issue BLOCKED.
THEOREM ColdStartResolves == Spec => RecoveryResolves
<1>1. Init => Resolving
  BY DEF Init, Resolving
<1>2. Inv /\ Resolving /\ [Next]_vars =>
        [pc = "recover" /\ pc' = "idle" =>
           /\ \A i \in Issues :
                rec[i].phase \notin {"running", "continuation_wait", "retry_wait"}
           /\ \A e \in live \ lost : rec[e.issue].phase = "blocked"]_vars
  <2> SUFFICES ASSUME Inv, Resolving, Next, pc = "recover", pc' = "idle"
               PROVE  /\ \A i \in Issues : rec[i].phase \notin Unresolved
                      /\ \A e \in live \ lost : rec[e.issue].phase = "blocked"
    BY DEF Unresolved
  <2>1. todo = {}
    <3>1. Running = {}
      BY DEF Inv, AloneInRecovery
    <3>2. \A i \in Issues : ~AttemptStep(i)
      BY <3>1, AttemptFrame
    <3> QED
      BY <3>2 DEF Next, RecoverStep, ReconcileStep, DispatchStep, ShutdownStep,
         EnvironmentStep, LeavesTick, Start, RecoverReap, RecoverGet, RecoverEnds,
         Advance, TickBegins, CancelledAllEnd, CancelTimesOut, ReconcilesRunning,
         ListFails, ListAnswered, ListReceived, BlockedEnds, Adopts, BlockedTurn,
         WaitingTurn, BlockedReap, BlockedGet, WaitingGet, SkipsRunning, FindsStale,
         Misplaces, PassesOver, DispatchReap, Dispatches, TickEnds, AtPlacement, AtTurn,
         Sigterm, DrainBegins, TickRaises, Drained, ShutdownCancels, tickVars, Crash,
         Relabels, DelayEnds, ExecutorEnds
  <2>2. \A i \in Issues : rec[i].phase \notin Unresolved
    BY <2>1 DEF Resolving
  <2>3. \A e \in live \ lost : e.issue \in Issues /\ rec[e.issue].phase \in {"running", "blocked"}
    BY DEF Inv, TypeOK, ExecutorAccounted, Executors
  <2> QED  BY <2>2, <2>3 DEF Unresolved
<1>3. Inv /\ Resolving /\ [Next]_vars => Resolving'
  BY ResolvingKept
<1> QED  BY <1>1, <1>2, <1>3, InvCorrect, PTL DEF Spec, RecoveryResolves

-----------------------------------------------------------------------------
(* One executor *)

\* As long as no executor escaped at one of the three named places, no issue
\* has two executors that run or may start.
THEOREM OneExecutorEach == Spec => [](lost = {} => NoDuplicateExecutor)
<1>1. Inv => (lost = {} => NoDuplicateExecutor)
  <2> SUFFICES ASSUME Inv, lost = {}, NEW e \in live, NEW f \in live,
                      e.issue = f.issue
               PROVE  e = f
    BY DEF NoDuplicateExecutor
  <2>1. e \in Executors /\ f \in Executors
    BY DEF Inv, TypeOK
  <2>2. /\ rec[e.issue].attempt = e.attempt /\ rec[e.issue].target = e.target
        /\ rec[f.issue].attempt = f.attempt /\ rec[f.issue].target = f.target
    BY DEF Inv, ExecutorAccounted
  <2> QED  BY <2>1, <2>2 DEF Executors
<1> QED  BY <1>1, InvCorrect, PTL

-----------------------------------------------------------------------------
(* Ways out of BLOCKED and RETRY_WAIT *)

AtIssue == {"recoverGet", "blockedGet", "dispatchReap"}

\* The issue at which a loop is suspended has no attempt.
LEMMA TurnIsFree ==
    ASSUME Inv, pc \in AtIssue, NEW i \in todo, NextUp(i)
    PROVE  i \in Issues /\ i \notin Running
  BY DEF Inv, TypeOK, AtIssue, AloneInRecovery, BlockedCopies, TurnHasNoAttempt

\* A step that leaves the loops where they are and the record and the executor
\* of the issue at their turn alone.
LEMMA TurnKept ==
    ASSUME TurnInv, pc' = pc, todo' = todo,
           \A i \in todo : loaded'[i].phase = loaded[i].phase,
           pc \in AtIssue => \A i \in todo : NextUp(i) =>
             /\ SameAttempt(rec'[i], rec[i])
             /\ rec'[i].phase = rec[i].phase /\ rec'[i].process = rec[i].process
             /\ Executor(i) \in live' => Executor(i) \in live
    PROVE  TurnInv'
<1>1. \A i : NextUp(i)' <=> NextUp(i)
  BY DEF NextUp
<1>2. ReapedAtGet'
  <2> SUFFICES ASSUME pc \in {"recoverGet", "blockedGet"}, NEW i \in todo, NextUp(i),
                      rec'[i].phase = "blocked", ExecutorOf(i, rec'[i]) \in live'
               PROVE  \/ rec'[i].target \in LocalTargets /\ ~rec'[i].process
                      \/ pc = "recoverGet" /\ loaded'[i].phase = "blocked"
    BY <1>1 DEF ReapedAtGet, Executor, IsLocal
  <2>1. /\ SameAttempt(rec'[i], rec[i])
        /\ rec'[i].phase = rec[i].phase /\ rec'[i].process = rec[i].process
        /\ Executor(i) \in live' => Executor(i) \in live
    BY DEF AtIssue
  <2>2. Executor(i) \in live /\ rec[i].phase = "blocked"
    BY <2>1 DEF Executor, ExecutorOf, SameAttempt
  <2> QED  BY <2>1, <2>2 DEF TurnInv, ReapedAtGet, IsLocal, SameAttempt
<1>3. WaitingLoaded'
  BY DEF TurnInv, WaitingLoaded
<1>4. StaleAtReap'
  BY <1>1 DEF TurnInv, StaleAtReap, AtIssue
<1> QED  BY <1>2, <1>3, <1>4 DEF TurnInv

\* After a confirmed reap of the record r the executor is gone, or r is local and
\* has no identity.
LEMMA ReapedOrNameless ==
    ASSUME NEW i, NEW r, Reap(i, r, TRUE)
    PROVE  ExecutorOf(i, r) \in live' => r.target \in LocalTargets /\ ~r.process
  BY DEF Reap

LEMMA TurnReaps ==
    ASSUME Inv, NEW i \in Issues, NEW safe \in BOOLEAN,
           RecoverReap(i, safe) \/ BlockedReap(i, safe)
    PROVE  TurnInv'
<1>1. /\ TypeOK /\ NextUp(i) /\ loaded[i] \in Records /\ rec \in [Issues -> Records]
      /\ loaded \in [Issues -> Records]
  BY DEF Inv, TypeOK, RecoverReap, BlockedReap
<1>2. CASE pc' \notin AtIssue \cup {"waiting", "waitingGet"}
  BY <1>2 DEF TurnInv, ReapedAtGet, WaitingLoaded, StaleAtReap, AtIssue
<1>3. CASE pc' \in AtIssue \cup {"waiting", "waitingGet"}
  <2>1. /\ pc' \in {"recoverGet", "blockedGet"} /\ todo' = todo
        /\ Reap(i, loaded[i], safe)
        /\ \/ /\ safe
              /\ Save(i, [loaded[i] EXCEPT !.process = FALSE])
           \/ /\ ~safe /\ pc' = "recoverGet"
              /\ loaded' = [loaded EXCEPT ![i] = Unconfirmed(loaded[i])]
    BY <1>3 DEF RecoverReap, BlockedReap, Advance, AtIssue
  <2>2. ReapedAtGet'
    <3> SUFFICES ASSUME NEW j \in todo, NextUp(j), rec'[j].phase = "blocked",
                        ExecutorOf(j, rec'[j]) \in live'
                 PROVE  \/ rec'[j].target \in LocalTargets /\ ~rec'[j].process
                        \/ pc' = "recoverGet" /\ loaded'[j].phase = "blocked"
      BY <2>1 DEF ReapedAtGet, NextUp, Executor, IsLocal
    <3>1. j = i
      BY <1>1, OneNextUp
    <3>2. CASE safe
      <4> DEFINE r == [loaded[i] EXCEPT !.process = FALSE]
      <4>1. rec'[i] = r /\ SameAttempt(r, loaded[i]) /\ r.process = FALSE
        BY <1>1, <2>1, <3>2 DEF Save, Records, SameAttempt
      <4>2. ExecutorOf(i, r) = ExecutorOf(i, loaded[i])
        BY <4>1 DEF ExecutorOf, SameAttempt
      <4>3. Reap(i, loaded[i], TRUE)
        BY <2>1, <3>2
      <4> QED  BY <3>1, <4>1, <4>2, <4>3, ReapedOrNameless DEF SameAttempt
    <3>3. CASE ~safe
      <4>1. loaded'[i].phase = "blocked" /\ pc' = "recoverGet"
        BY <1>1, <2>1, <3>3, RecordFrame
      <4> QED  BY <3>1, <4>1
    <3> QED  BY <3>2, <3>3
  <2> QED  BY <2>1, <2>2 DEF TurnInv, WaitingLoaded, StaleAtReap
<1> QED  BY <1>2, <1>3

LEMMA TurnStep == Inv /\ TurnInv /\ [Next]_vars => TurnInv'
<1> SUFFICES ASSUME Inv, TurnInv, [Next]_vars
             PROVE  TurnInv'
  OBVIOUS
<1>1. /\ TypeOK /\ rec \in [Issues -> Records] /\ loaded \in [Issues -> Records]
      /\ todo \subseteq Issues
  BY DEF Inv, TypeOK
\* Most steps leave for a place TurnInv says nothing of.
<1>2. ASSUME pc' \notin AtIssue \cup {"waiting", "waitingGet"}
      PROVE  TurnInv'
  BY <1>2 DEF TurnInv, ReapedAtGet, WaitingLoaded, StaleAtReap, AtIssue
\* A step that lets executors end.
<1>3. ASSUME UNCHANGED tickVars, rec' = rec, live' \subseteq live
      PROVE  TurnInv'
  BY <1>3, TurnKept DEF tickVars, SameAttempt
<1>4. ASSUME NEW i \in Issues, NEW ok \in BOOLEAN, RecoverReap(i, ok) \/ BlockedReap(i, ok)
      PROVE  TurnInv'
  BY <1>4, TurnReaps
<1>5. ASSUME NEW i \in Issues, BlockedTurn(i)
      PROVE  TurnInv'
  <2>1. CASE pc' = "blockedGet"
    <3>1. /\ loaded[i].phase = "placement_blocked" /\ NextUp(i) /\ pc = "blocked"
          /\ todo' = todo /\ rec' = rec
      BY <1>5, <2>1 DEF BlockedTurn, Advance, taskVars
    <3>2. rec[i].phase = "placement_blocked"
      BY <3>1 DEF Inv, BlockedCopies, NextUp
    <3>3. \A j \in todo : NextUp(j)' => j = i
      BY <1>1, <3>1, OneNextUp DEF NextUp
    <3> QED
      BY <2>1, <3>1, <3>2, <3>3 DEF TurnInv, ReapedAtGet, WaitingLoaded, StaleAtReap
  <2>2. CASE pc' # "blockedGet"
    BY <1>2, <1>5, <2>2 DEF BlockedTurn, Advance, AtIssue
  <2> QED  BY <2>1, <2>2
<1>6. CASE BlockedEnds
  <2>1. /\ pc' = "waiting" /\ loaded' = rec
        /\ \A i \in todo' : rec[i].phase \in DispatchablePhases \cup {"running"}
    BY <1>6 DEF BlockedEnds, InPhase
  <2> QED  BY <2>1 DEF TurnInv, ReapedAtGet, WaitingLoaded, StaleAtReap
<1>7. ASSUME NEW i \in Issues,
             WaitingTurn(i) \/ \E ok \in BOOLEAN : WaitingGet(i, ok)
      PROVE  TurnInv'
  <2>1. /\ pc \in {"waiting", "waitingGet"} /\ pc' \in {"waiting", "waitingGet"}
        /\ loaded' = loaded /\ todo' \subseteq todo
    BY <1>7 DEF WaitingTurn, WaitingGet, Advance
  <2> QED  BY <2>1 DEF TurnInv, ReapedAtGet, WaitingLoaded, StaleAtReap
<1>8. ASSUME NEW i \in Issues, FindsStale(i)
      PROVE  TurnInv'
  <2>1. /\ pc' = "dispatchReap" /\ rec' = rec /\ todo' = todo
        /\ NextUp(i) /\ rec[i].phase = "running"
    BY <1>8 DEF FindsStale, AtTurn, taskVars
  <2>2. \A j \in todo : NextUp(j)' => j = i
    BY <1>1, <2>1, OneNextUp DEF NextUp
  <2> QED  BY <2>1, <2>2 DEF TurnInv, ReapedAtGet, WaitingLoaded, StaleAtReap
<1>9. ASSUME NEW j \in Issues, AttemptStep(j)
      PROVE  TurnInv'
  <2>1. /\ j \in Running /\ UNCHANGED tickVars
        /\ \A i \in Issues \ {j} : rec'[i] = rec[i]
        /\ live' \subseteq live \cup {Executor(j)}
    BY <1>9, AttemptFrame
  <2>2. ASSUME pc \in AtIssue, NEW i \in todo, NextUp(i)
        PROVE  rec'[i] = rec[i] /\ (Executor(i) \in live' => Executor(i) \in live)
    <3>1. i \in Issues \ {j}
      BY <2>1, <2>2, TurnIsFree
    <3>2. Executor(i) # Executor(j)
      BY <3>1 DEF Executor, ExecutorOf
    <3> QED  BY <2>1, <3>1, <3>2
  <2> QED  BY <2>1, <2>2, TurnKept DEF tickVars, SameAttempt
<1>10. CASE ShutdownStep
  <2>1. CASE Sigterm
    BY <1>3, <2>1 DEF Sigterm
  <2>2. ASSUME NEW i \in Issues, ShutdownCancels(i)
        PROVE  TurnInv'
    <3>1. CancelTasks({i}) /\ rec' = rec /\ UNCHANGED tickVars
      BY <2>2 DEF ShutdownCancels
    <3> QED  BY <1>1, <1>3, <2>2, <3>1, CancelTasksFrame
  <2>3. CASE DrainBegins \/ TickRaises \/ Drained
    BY <1>2, <2>3 DEF DrainBegins, TickRaises, Drained, LeavesTick, AtIssue
  <2> QED  BY <1>10, <2>1, <2>2, <2>3 DEF ShutdownStep
<1>11. CASE EnvironmentStep
  <2>1. CASE Crash
    BY <1>2, <2>1 DEF Crash, LeavesTick, AtIssue
  <2>2. ASSUME NEW i \in Issues, DelayEnds(i)
        PROVE  TurnInv'
    <3>1. /\ rec' = [rec EXCEPT ![i].later = FALSE]
          /\ loaded' = [loaded EXCEPT ![i].later = FALSE]
          /\ pc' = pc /\ todo' = todo /\ live' = live
      BY <2>2 DEF DelayEnds
    <3>2. \A j \in Issues : /\ SameAttempt(rec'[j], rec[j])
                            /\ rec'[j].phase = rec[j].phase
                            /\ rec'[j].process = rec[j].process
                            /\ loaded'[j].phase = loaded[j].phase
      BY <1>1, <3>1 DEF Records, SameAttempt
    <3> QED  BY <1>1, <3>1, <3>2, TurnKept
  <2>3. ASSUME NEW i \in Issues, Relabels(i)
        PROVE  TurnInv'
    BY <1>3, <2>3 DEF Relabels, taskVars
  <2>4. ASSUME NEW e \in Executors, ExecutorEnds(e)
        PROVE  TurnInv'
    BY <1>3, <2>4 DEF ExecutorEnds
  <2> QED  BY <1>11, <2>1, <2>2, <2>3, <2>4 DEF EnvironmentStep
<1>12. CASE \/ Start \/ RecoverEnds \/ ListingStep \/ ListReceived \/ Adopts \/ TickEnds
            \/ \E i \in Issues, ok \in BOOLEAN :
                 RecoverGet(i, ok) \/ BlockedGet(i, ok) \/ DispatchReap(i, ok)
            \/ \E i \in Issues : SkipsRunning(i) \/ Misplaces(i) \/ PassesOver(i)
            \/ \E i \in Issues, id \in AttemptIds : Dispatches(i, id)
  <2>1. pc' \notin AtIssue \cup {"waiting", "waitingGet"}
    BY <1>12 DEF Start, RecoverEnds, ListingStep, TickBegins, CancelledAllEnd,
       CancelTimesOut, ReconcilesRunning, AfterReconcile, ListFails, ListAnswered,
       ListReceived, Adopts, TickEnds, RecoverGet, BlockedGet, DispatchReap,
       SkipsRunning, Misplaces, PassesOver, Dispatches, Advance, LeavesTick, AtIssue
  <2> QED  BY <1>2, <2>1
<1>13. CASE UNCHANGED vars
  BY <1>3, <1>13 DEF vars, taskVars
<1>14. CASE RecoverStep
  BY <1>4, <1>12, <1>14 DEF RecoverStep
<1>15. CASE ReconcileStep
  BY <1>4, <1>5, <1>6, <1>7, <1>12, <1>15 DEF ReconcileStep, ListingStep
<1>16. CASE DispatchStep
  BY <1>8, <1>12, <1>16 DEF DispatchStep
<1> QED  BY <1>9, <1>10, <1>11, <1>13, <1>14, <1>15, <1>16 DEF Next

\* The record of i leaves BLOCKED, and RETRY_WAIT, only as the properties say.
KeepsBlocked(i) ==
    rec[i].phase = "blocked" /\ Executor(i) \in live' /\ rec'[i].phase # "blocked"
    => \/ pc = "dispatch" /\ NextUp(i) /\ candidates[i] \notin Targets
       \/ IsLocal(i) /\ ~rec[i].process
       \/ HoldsOldCopy(i)

KeepsBackoff(i) ==
    rec[i].phase = "retry_wait" /\ rec[i].later /\ rec'[i].phase # "retry_wait"
    => \/ rec'[i].phase \in {"released", "placement_blocked"}
       \/ pc \in {"recover", "recoverGet"}
       \/ HoldsOldCopy(i) /\ rec'[i].phase = "running"

Keeps(i) == KeepsBlocked(i) /\ KeepsBackoff(i)

\* Most steps keep the phase, or find the record in another one.
LEMMA KeepsPhase ==
    ASSUME NEW i, \/ rec'[i].phase = rec[i].phase
                  \/ rec[i].phase \notin {"blocked", "retry_wait"}
    PROVE  Keeps(i)
  BY DEF Keeps, KeepsBlocked, KeepsBackoff

LEMMA RecoverKeeps ==
    ASSUME Inv, TurnInv, RecoverStep, NEW i \in Issues
    PROVE  Keeps(i)
<1>1. rec \in [Issues -> Records] /\ loaded \in [Issues -> Records]
  BY DEF Inv, TypeOK
<1>2. CASE Start \/ RecoverEnds
  BY <1>2, KeepsPhase DEF Start, RecoverEnds, taskVars
<1>3. ASSUME NEW j \in Issues, NEW ok \in BOOLEAN,
             RecoverReap(j, ok) \/ RecoverGet(j, ok)
      PROVE  KeepsBackoff(i)
  BY <1>3 DEF RecoverReap, RecoverGet, KeepsBackoff
<1>4. ASSUME NEW j \in Issues, NEW ok \in BOOLEAN, RecoverReap(j, ok)
      PROVE  KeepsBlocked(i)
  <2>1. /\ loaded[j] = rec[j]
        /\ \E r : Save(j, r) /\ r.phase \in {rec[j].phase, "blocked"}
    <3>1. loaded[j] = rec[j]
      BY <1>4 DEF RecoverReap, NextUp, Inv, RecoveryCopies
    <3>2. CASE Save(j, [loaded[j] EXCEPT !.process = FALSE])
      BY <1>1, <3>1, <3>2 DEF Records
    <3>3. CASE Save(j, Unconfirmed(loaded[j]))
      BY <1>1, <3>1, <3>3, RecordFrame
    <3> QED  BY <1>4, <3>1, <3>2, <3>3 DEF RecoverReap
  <2> QED  BY <1>1, <2>1 DEF Save, KeepsBlocked
<1>5. ASSUME NEW j \in Issues, NEW ok \in BOOLEAN, RecoverGet(j, ok)
      PROVE  KeepsBlocked(i)
  <2>1. CASE j # i
    BY <1>1, <1>5, <2>1, KeepsPhase DEF RecoverGet, Save, Keeps
  <2>2. CASE j = i /\ pc = "recover"
    <3>1. ~NeedsReap(rec[i])
      BY <1>5, <2>2 DEF RecoverGet, NextUp, Inv, RecoveryCopies
    <3> QED  BY <3>1 DEF NeedsReap, KeepsBlocked
  <2>3. CASE j = i /\ pc = "recoverGet"
    <3>1. /\ i \in todo /\ NextUp(i) /\ live' = live
          /\ loaded[i].phase = "blocked" => rec'[i].phase = "blocked"
      BY <1>1, <1>5, <2>3 DEF RecoverGet, NextUp, Save, Resumed, Retired, Records
    <3> QED  BY <2>3, <3>1 DEF TurnInv, ReapedAtGet, KeepsBlocked
  <2> QED  BY <1>5, <2>1, <2>2, <2>3 DEF RecoverGet
<1> QED  BY <1>2, <1>3, <1>4, <1>5 DEF RecoverStep, Keeps

LEMMA BlockedKeeps ==
    ASSUME Inv, TurnInv, NEW j \in Issues, NEW ok \in BOOLEAN,
           BlockedReap(j, ok) \/ BlockedGet(j, ok), NEW i \in Issues
    PROVE  Keeps(i)
<1>1. /\ rec \in [Issues -> Records] /\ loaded[j] = rec[j] /\ j \in todo
      /\ loaded[j].phase \in {"blocked", "placement_blocked"} /\ NextUp(j)
  BY DEF BlockedReap, BlockedGet, NextUp, Inv, TypeOK, BlockedCopies
<1>2. CASE j # i
  BY <1>1, <1>2, KeepsPhase DEF BlockedReap, BlockedGet, Save
<1>3. CASE j = i
  <2>1. KeepsBackoff(i)
    BY <1>1, <1>3 DEF KeepsBackoff
  <2>2. CASE BlockedReap(j, ok) /\ ok
    <3>1. Reap(i, rec[i], TRUE)
      BY <1>1, <1>3, <2>2 DEF BlockedReap
    <3>2. Executor(i) \in live' => IsLocal(i) /\ ~rec[i].process
      BY <3>1, ReapedOrNameless DEF Executor, IsLocal
    <3> QED  BY <3>2, <2>1 DEF Keeps, KeepsBlocked
  <2>3. CASE BlockedReap(j, ok) /\ ~ok
    <3>1. Save(i, Unconfirmed(rec[i])) /\ rec[i] \in Records
      BY <1>1, <1>3, <2>3 DEF BlockedReap
    <3>2. rec'[i].phase = "blocked"
      BY <1>1, <3>1, RecordFrame DEF Save
    <3> QED  BY <3>2, <2>1 DEF Keeps, KeepsBlocked
  <2>4. CASE BlockedGet(j, ok)
    <3>1. pc = "blockedGet" /\ live' = live
      BY <2>4 DEF BlockedGet
    <3> QED  BY <1>1, <1>3, <2>1, <3>1 DEF TurnInv, ReapedAtGet, Keeps, KeepsBlocked
  <2> QED  BY <2>2, <2>3, <2>4
<1> QED  BY <1>2, <1>3

LEMMA WaitingKeeps ==
    ASSUME Inv, TurnInv, NEW j \in Issues,
           WaitingTurn(j) \/ \E ok \in BOOLEAN : WaitingGet(j, ok), NEW i \in Issues
    PROVE  Keeps(i)
<1>1. /\ rec \in [Issues -> Records] /\ loaded[j] \in Records
      /\ j \in todo /\ NextUp(j) /\ pc \in {"waiting", "waitingGet"}
  BY DEF WaitingTurn, WaitingGet, NextUp, Inv, TypeOK
<1>2. /\ loaded[j].phase \in {"running", rec[j].phase}
      /\ loaded[j].phase \in DispatchablePhases \cup {"running"}
  BY <1>1, WaitingFacts DEF TurnInv, WaitingLoaded
<1>3. CASE rec' = rec \/ j # i
  BY <1>1, <1>3, KeepsPhase DEF WaitingTurn, WaitingGet, Save
<1>4. CASE j = i /\ Save(j, loaded[j])
  <2>1. rec'[i].phase = loaded[i].phase
    BY <1>1, <1>4 DEF Save
  <2> QED  BY <1>1, <1>2, <1>4, <2>1 DEF Keeps, KeepsBlocked, KeepsBackoff, HoldsOldCopy
<1>5. CASE j = i /\ Save(j, Settled(loaded[j], "released"))
  <2>1. rec'[i].phase = "released"
    BY <1>1, <1>5, RecordFrame DEF Save
  <2>2. rec[i].phase = "blocked" => HoldsOldCopy(i)
    BY <1>1, <1>2, <1>5 DEF HoldsOldCopy, DispatchablePhases
  <2> QED  BY <2>1, <2>2 DEF Keeps, KeepsBlocked, KeepsBackoff
<1> QED  BY <1>3, <1>4, <1>5 DEF WaitingTurn, WaitingGet

LEMMA ReconcileKeeps ==
    ASSUME Inv, TurnInv, ReconcileStep, NEW i \in Issues
    PROVE  Keeps(i)
<1>1. rec \in [Issues -> Records]
  BY DEF Inv, TypeOK
<1>2. CASE Adopts
  BY <1>1, <1>2, KeepsPhase DEF Adopts, Adoptable
<1>3. CASE ListingStep \/ ListReceived \/ BlockedEnds \/ \E j \in Issues : BlockedTurn(j)
  <2>1. rec' = rec
    BY <1>3 DEF ListingStep, TickBegins, CancelledAllEnd, CancelTimesOut,
       ReconcilesRunning, ListFails, ListAnswered, ListReceived, BlockedEnds,
       BlockedTurn, taskVars
  <2> QED  BY <2>1, KeepsPhase
<1> QED  BY <1>2, <1>3, BlockedKeeps, WaitingKeeps DEF ReconcileStep, ListingStep

LEMMA DispatchKeeps ==
    ASSUME Inv, TurnInv, DispatchStep, NEW i \in Issues
    PROVE  Keeps(i)
<1>1. rec \in [Issues -> Records]
  BY DEF Inv, TypeOK
<1>2. ASSUME NEW j \in Issues, NEW ok \in BOOLEAN, DispatchReap(j, ok)
      PROVE  Keeps(i)
  <2>1. rec[j].phase = "running"
    BY <1>2 DEF DispatchReap, NextUp, TurnInv, StaleAtReap
  <2> QED  BY <1>1, <1>2, <2>1, KeepsPhase DEF DispatchReap, Save
<1>3. ASSUME NEW j \in Issues, Misplaces(j)
      PROVE  Keeps(i)
  <2>1. CASE j = i
    <3>1. /\ pc = "dispatch" /\ NextUp(i) /\ candidates[i] \notin Targets
          /\ rec'[i].phase = "placement_blocked"
      BY <1>1, <1>3, <2>1 DEF Misplaces, AtPlacement, AtTurn, Save, Records
    <3> QED  BY <3>1 DEF Keeps, KeepsBlocked, KeepsBackoff
  <2> QED  BY <1>1, <1>3, <2>1, KeepsPhase DEF Misplaces, Save
<1>4. ASSUME NEW j \in Issues, PassesOver(j)
      PROVE  Keeps(i)
  BY <1>1, <1>4, KeepsPhase DEF PassesOver, Save, Unblocked
<1>5. ASSUME NEW j \in Issues, NEW id \in AttemptIds, Dispatches(j, id)
      PROVE  Keeps(i)
  <2>1. rec[j].phase # "blocked" /\ ~rec[j].later
    BY <1>1, <1>5 DEF Dispatches, Dispatchable, Due, Unblocked, DispatchablePhases
  <2>2. j # i => rec'[i] = rec[i]
    BY <1>1, <1>5 DEF Dispatches, Save
  <2> QED  BY <2>1, <2>2, KeepsPhase DEF Keeps, KeepsBlocked, KeepsBackoff
<1>6. CASE TickEnds \/ \E j \in Issues : SkipsRunning(j) \/ FindsStale(j)
  BY <1>6, KeepsPhase DEF TickEnds, SkipsRunning, FindsStale, taskVars
<1> QED  BY <1>2, <1>3, <1>4, <1>5, <1>6 DEF DispatchStep

LEMMA StepKeeps ==
    ASSUME Inv, TurnInv, Next, NEW i \in Issues
    PROVE  Keeps(i)
<1>1. rec \in [Issues -> Records]
  BY DEF Inv, TypeOK
<1>2. CASE ShutdownStep
  BY <1>2, KeepsPhase DEF ShutdownStep, Sigterm, DrainBegins, TickRaises, Drained,
     ShutdownCancels
<1>3. ASSUME NEW j \in Issues, AttemptStep(j)
      PROVE  Keeps(i)
  <2>1. j \in Running /\ rec[j].phase = "running" /\ (j # i => rec'[i] = rec[i])
    BY <1>3, AttemptFrame DEF Inv, AttemptOwnsRecord
  <2> QED  BY <2>1, KeepsPhase
<1>4. CASE EnvironmentStep
  <2>1. \/ rec' = rec
        \/ \E j \in Issues : rec' = [rec EXCEPT ![j].later = FALSE]
    BY <1>4 DEF EnvironmentStep, Crash, Relabels, DelayEnds, ExecutorEnds, taskVars
  <2>2. rec'[i].phase = rec[i].phase
    BY <1>1, <2>1 DEF Records
  <2> QED  BY <2>2, KeepsPhase
<1> QED
  BY <1>2, <1>3, <1>4, RecoverKeeps, ReconcileKeeps, DispatchKeeps DEF Next

LEMMA TurnCorrect == Spec => []TurnInv
<1>1. Init => TurnInv
  BY DEF Init, TurnInv, ReapedAtGet, WaitingLoaded, StaleAtReap
<1> QED  BY <1>1, TurnStep, InvCorrect, PTL DEF Spec

\* BLOCKED with the executor still there ends at three named places, and at no
\* other: not by a cold start, a tracker answer, a lost stop confirmation or a
\* crash between the two.
THEOREM BlockedWaits == Spec => BlockedLeft
<1>1. Inv /\ TurnInv /\ [Next]_vars =>
        [\A i \in Issues :
           rec[i].phase = "blocked" /\ Executor(i) \in live' /\ rec'[i].phase # "blocked"
           => \/ pc = "dispatch" /\ NextUp(i) /\ candidates[i] \notin Targets
              \/ IsLocal(i) /\ ~rec[i].process
              \/ HoldsOldCopy(i)]_vars
  BY StepKeeps DEF Keeps, KeepsBlocked
<1> QED  BY <1>1, InvCorrect, TurnCorrect, PTL DEF Spec, BlockedLeft

\* The backoff is waited out: before next_run_at a retry ends with its active
\* state, its placement, a cold start or an old copy of the waiting loop.
THEOREM BackoffKept == Spec => BackoffHeld
<1>1. Inv /\ TurnInv /\ [Next]_vars =>
        [\A i \in Issues :
           rec[i].phase = "retry_wait" /\ rec[i].later /\ rec'[i].phase # "retry_wait"
           => \/ rec'[i].phase \in {"released", "placement_blocked"}
              \/ pc \in {"recover", "recoverGet"}
              \/ HoldsOldCopy(i) /\ rec'[i].phase = "running"]_vars
  BY StepKeeps DEF Keeps, KeepsBackoff
<1> QED  BY <1>1, InvCorrect, TurnCorrect, PTL DEF Spec, BackoffHeld
=============================================================================
