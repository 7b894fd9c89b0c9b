---------------------------- MODULE LocalProofs ----------------------------
(* Proofs about LocalRun: its inductive invariant and what a result means. *)
EXTENDS LocalRun, TLAPS

LEMMA RunInit == Init => RunInv
  BY DEF Init, RunInv, RunTypeOK, PipeHeld, ChildAlive, Callers, Over

LEMMA RunStep == RunInv /\ [Next]_vars => RunInv'
  <1> SUFFICES ASSUME RunInv, [Next]_vars PROVE RunInv'
    OBVIOUS
  <1> USE DEF RunInv, RunTypeOK, PipeHeld, ChildAlive, Callers, Over,
              processVars, loopVars, runVars, guardVars
  <1>1. ASSUME StartsChild PROVE RunInv'
    BY <1>1 DEF StartsChild
  <1>2. ASSUME Detaches PROVE RunInv'
    BY <1>2 DEF Detaches
  <1>3. ASSUME ChildEnds PROVE RunInv'
    BY <1>3 DEF ChildEnds
  <1>4. ASSUME AgentEnds PROVE RunInv'
    BY <1>4 DEF AgentEnds
  <1>5. ASSUME LearnsExit PROVE RunInv'
    BY <1>5 DEF LearnsExit
  <1>6. ASSUME ReaderFails PROVE RunInv'
    BY <1>6 DEF ReaderFails
  <1>7. ASSUME Pauses PROVE RunInv'
    BY <1>7 DEF Pauses
  <1>8. ASSUME Closes PROVE RunInv'
    BY <1>8 DEF Closes
  <1>9. ASSUME NEW c \in Callers, Aims(c) PROVE RunInv'
    <2>1. CASE guard[c] = "asked" /\ guard' = [guard EXCEPT ![c] = "done"] /\ aims' = aims
      <3>1. UNCHANGED <<processVars, loopVars, runVars>> /\ aims[c] = {}
        BY <1>9, <2>1 DEF Aims
      <3>2. RunTypeOK'
        BY <2>1, <3>1
      <3>3. ASSUME NEW d \in Callers
            PROVE  /\ "child" \in aims'[d] => child' # "none"
                   /\ guard'[d] \in {"idle", "asked"} => aims'[d] = {}
                   /\ guard'[d] = "done" /\ "child" \in aims'[d] => child' = "dead"
        BY <2>1, <3>1
      <3>4. /\ guard["run"] # "asked" => guard'["run"] = guard["run"]
            /\ guard["run"] = "asked" => guard'["run"] \in {"asked", "done"}
        BY <2>1
      <3>5. /\ guard'["handler"] = "idle" <=> guard["handler"] = "idle"
            /\ guard'["execute"] = "idle" <=> guard["execute"] = "idle"
        BY <2>1
      <3> QED BY <3>1, <3>2, <3>3, <3>4, <3>5
    <2>2. CASE guard[c] = "asked" /\ guard' = [guard EXCEPT ![c] = "aimed"]
      <3>1. Tree \in SUBSET {"root", "child"} /\ ("child" \in Tree => child = "attached")
        BY DEF Tree
      <3>2. aims' = [aims EXCEPT ![c] = Tree]
        BY <1>9, <2>2 DEF Aims
      <3>3. UNCHANGED <<processVars, loopVars, runVars>>
        BY <1>9 DEF Aims
      <3> HIDE DEF Tree
      <3>4. RunTypeOK'
        BY <2>2, <3>1, <3>2, <3>3
      <3>5. ASSUME NEW d \in Callers
            PROVE  /\ "child" \in aims'[d] => child' # "none"
                   /\ guard'[d] \in {"idle", "asked"} => aims'[d] = {}
                   /\ guard'[d] = "done" /\ "child" \in aims'[d] => child' = "dead"
        BY <2>2, <3>1, <3>2, <3>3
      <3>6. /\ guard["run"] # "asked" => guard'["run"] = guard["run"]
            /\ guard["run"] = "asked" => guard'["run"] \in {"asked", "aimed"}
        BY <2>2
      <3>7. /\ guard'["handler"] = "idle" <=> guard["handler"] = "idle"
            /\ guard'["execute"] = "idle" <=> guard["execute"] = "idle"
        BY <2>2
      <3> QED BY <3>3, <3>4, <3>5, <3>6, <3>7
    <2> QED BY <1>9, <2>1, <2>2 DEF Aims
  <1>10. ASSUME NEW c \in Callers, Signals(c) PROVE RunInv'
    <2>1. /\ guard[c] = "aimed" /\ guard' = [guard EXCEPT ![c] = "done"]
          /\ aims' = aims
          /\ root' = IF root = "alive" THEN "killed" ELSE root
          /\ child' = IF "child" \in aims[c] /\ ChildAlive THEN "dead" ELSE child
          /\ UNCHANGED <<holds, loopVars, runVars>>
      BY <1>10 DEF Signals
    <2>2. RunTypeOK'
      BY <2>1
    <2>3. "child" \in aims[c] => child' # "attached" /\ child' # "detached"
      BY <2>1
    <2>4. child \in {"none", "dead"} => child' = child
      BY <2>1
    <2>5. ASSUME NEW d \in Callers
          PROVE  /\ "child" \in aims'[d] => child' # "none"
                 /\ guard'[d] \in {"idle", "asked"} => aims'[d] = {}
                 /\ guard'[d] = "done" /\ "child" \in aims'[d] => child' = "dead"
      <3>1. CASE d = c
        BY <2>1, <2>3, <3>1
      <3>2. CASE d # c
        BY <2>1, <2>4, <3>2
      <3> QED BY <3>1, <3>2
    <2>6. /\ guard["run"] # "aimed" => guard'["run"] = guard["run"]
          /\ guard["run"] = "aimed" => guard'["run"] \in {"aimed", "done"}
      BY <2>1
    <2>7. /\ guard'["handler"] = "idle" <=> guard["handler"] = "idle"
          /\ guard'["execute"] = "idle" <=> guard["execute"] = "idle"
      BY <2>1
    <2> QED BY <2>1, <2>2, <2>5, <2>6, <2>7
  <1>11. ASSUME Signalled PROVE RunInv'
    BY <1>11 DEF Signalled
  <1>12. ASSUME Launches PROVE RunInv'
    <2>1. CASE pc' = "wait" /\ guard' = guard
      BY <1>12, <2>1 DEF Launches
    <2>2. CASE pc' = "raised" /\ guard' = [guard EXCEPT !["execute"] = "asked"]
      <3>1. /\ pc = "launch" /\ identity' \in BOOLEAN /\ early' = known
            /\ UNCHANGED <<processVars, loopVars, event, outcome, aims>>
        BY <1>12 DEF Launches
      <3>2. RunTypeOK'
        BY <2>2, <3>1
      <3>3. guard'["run"] = guard["run"]
        BY <2>2
      <3>4. ASSUME NEW d \in Callers
            PROVE  /\ "child" \in aims'[d] => child' # "none"
                   /\ guard'[d] \in {"idle", "asked"} => aims'[d] = {}
                   /\ guard'[d] = "done" /\ "child" \in aims'[d] => child' = "dead"
        <4>1. CASE d = "execute"
          BY <2>2, <3>1, <4>1
        <4>2. CASE d # "execute"
          BY <2>2, <3>1, <4>2
        <4> QED BY <4>1, <4>2
      <3>5. guard'["handler"] = guard["handler"] /\ guard["handler"] = "idle"
        BY <2>2, <3>1
      <3> QED BY <2>2, <3>1, <3>2, <3>3, <3>4, <3>5
    <2> QED BY <1>12, <2>1, <2>2 DEF Launches
  <1>13. ASSUME SeesCancel PROVE RunInv'
    BY <1>13 DEF SeesCancel, Ends
  <1>14. ASSUME SeesExit PROVE RunInv'
    BY <1>14 DEF SeesExit, WaitTaskDone
  <1>15. ASSUME TimesOut PROVE RunInv'
    BY <1>15 DEF TimesOut, Ends
  <1>16. ASSUME TerminateReturns PROVE RunInv'
    BY <1>16 DEF TerminateReturns, AfterTerminate
  <1>17. ASSUME Reaps \/ Drains PROVE RunInv'
    BY <1>17 DEF Reaps, Drains
  <1>18. ASSUME Cancelled PROVE RunInv'
    <2>1. /\ guard' \in {guard, [guard EXCEPT !["handler"] = "asked"]}
          /\ guard' # guard => identity /\ pc' = "unwind"
          /\ pc' \in {"unwind", "unwindReap", "raised"}
          /\ root' = root \/ (root = "alive" /\ root' = "killed")
          /\ UNCHANGED <<child, holds, loopVars, identity, event, early, outcome, aims>>
      BY <1>18 DEF Cancelled, Unwinds
    <2>2. /\ pc \notin {"launch", "returned", "raised"}
          /\ guard' # guard => guard["handler"] = "idle"
          /\ pc' = "unwindReap" => guard' = guard /\ guard["handler"] = "idle"
      BY <1>18 DEF Cancelled, Unwinds
    <2>3. RunTypeOK'
      BY <2>1
    <2>4. /\ guard'["run"] = guard["run"] /\ guard'["execute"] = guard["execute"]
          /\ guard'["execute"] = "idle"
      BY <2>1, <2>2
    <2>5. ASSUME NEW d \in Callers
          PROVE  /\ "child" \in aims'[d] => child' # "none"
                 /\ guard'[d] \in {"idle", "asked"} => aims'[d] = {}
                 /\ guard'[d] = "done" /\ "child" \in aims'[d] => child' = "dead"
      BY <2>1, <2>2
    <2> QED BY <2>1, <2>2, <2>3, <2>4, <2>5
  <1>19. ASSUME HandlerEnds PROVE RunInv'
    BY <1>19 DEF HandlerEnds
  <1>20. ASSUME UNCHANGED vars PROVE RunInv'
    BY <1>20 DEF vars
  <1> QED
    BY <1>1, <1>2, <1>3, <1>4, <1>5, <1>6, <1>7, <1>8, <1>9, <1>10, <1>11, <1>12,
       <1>13, <1>14, <1>15, <1>16, <1>17, <1>18, <1>19, <1>20
    DEF Next, LoopNext, GuardNext, RunNext

\* What the event loop knows of the processes is true, in every run, with every
\* set of faults.
THEOREM RunCorrect == Spec => []RunInv
  BY RunInit, RunStep, PTL DEF Spec

\* A result means that the agent and its tree have stopped.
THEOREM ResultStopped == Spec => []ResultMeansStopped
  <1>1. RunInv => ResultMeansStopped
    BY DEF RunInv, RunTypeOK, ResultMeansStopped, Callers
  <1> QED BY <1>1, RunCorrect, PTL
=============================================================================
