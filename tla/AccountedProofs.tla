--------------------------- MODULE AccountedProofs ---------------------------
(***************************************************************************)
(* ExecutorAccounted is an invariant of the scheduler.  Alone it is not    *)
(* inductive: a tick stores records it read earlier, so the proof needs to *)
(* know what those copies may differ in while attempts go on.  Inv says    *)
(* so, and is proved inductive below: first what a step does to records,   *)
(* tasks and executors, then the step of an attempt, then the steps of the *)
(* tick, which keep the accounting (a) by leaving records alone or (b) by  *)
(* saving one record of an issue without an attempt.                       *)
(***************************************************************************)
EXTENDS OrchestratorProofs

-----------------------------------------------------------------------------
(* What a step does to records, tasks and executors *)

LEMMA ReapFrame ==
    ASSUME NEW i, NEW r, NEW safe, Reap(i, r, safe)
    PROVE  /\ live' \subseteq live
           /\ live' \ lost' \subseteq live \ lost
           /\ safe => ExecutorOf(i, r) \notin live' \ lost'
  BY DEF Reap

LEMMA GoToFrame ==
    ASSUME TypeOK, NEW i \in Issues, NEW place, GoTo(i, place)
    PROVE  /\ rec' = rec
           /\ task'[i].pc = place
           /\ \A j \in Issues \ {i} : task'[j] = task[j]
<1>1. task \in [Issues -> Tasks]
  BY DEF TypeOK
<1> QED  BY <1>1 DEF GoTo, Tasks

LEMMA StoppedSafelyFrame ==
    ASSUME TypeOK, NEW i \in Issues, NEW outcome, StoppedSafely(i, outcome)
    PROVE  /\ task'[i].pc = "refresh"
           /\ SameAttempt(rec'[i], rec[i]) /\ rec'[i].phase = rec[i].phase
           /\ \A j \in Issues \ {i} : task'[j] = task[j] /\ rec'[j] = rec[j]
<1>1. task \in [Issues -> Tasks] /\ rec \in [Issues -> Records]
  BY DEF TypeOK
<1>2. /\ task'[i].pc = "refresh"
      /\ \A j \in Issues \ {i} : task'[j] = task[j]
  BY <1>1 DEF StoppedSafely, Tasks
<1>3. /\ SameAttempt(rec'[i], rec[i]) /\ rec'[i].phase = rec[i].phase
      /\ \A j \in Issues \ {i} : rec'[j] = rec[j]
  BY <1>1 DEF StoppedSafely, Records, SameAttempt
<1> QED  BY <1>2, <1>3

LEMMA EndsWithFrame ==
    ASSUME TypeOK, NEW i \in Issues, NEW r, EndsWith(i, r)
    PROVE  /\ task'[i].pc = "none" /\ rec'[i] = r
           /\ \A j \in Issues \ {i} : task'[j] = task[j] /\ rec'[j] = rec[j]
  BY DEF TypeOK, EndsWith, NoTask

\* The records the handlers store name the attempt they came from.
LEMMA RecordFrame ==
    ASSUME NEW r \in Records, NEW phase
    PROVE  /\ SameAttempt(Settled(r, phase), r) /\ Settled(r, phase).phase = phase
           /\ SameAttempt(Unconfirmed(r), r) /\ Unconfirmed(r).phase = "blocked"
           /\ SameAttempt(RetryLater(r), r) /\ RetryLater(r).phase = "retry_wait"
           /\ SameAttempt([Settled(r, phase) EXCEPT !.later = TRUE], r)
           /\ SameAttempt(r, r)
  BY DEF Records, SameAttempt, Settled, Unconfirmed, RetryLater

LEMMA CancelTasksFrame ==
    ASSUME TypeOK, NEW S \in SUBSET Issues, CancelTasks(S)
    PROVE  /\ live' \subseteq live /\ live' \ lost' \subseteq live \ lost
           /\ \A j \in Issues \ S : task'[j] = task[j]
           /\ \A j \in Issues : task'[j].pc = "refresh" => task[j].pc = "refresh"
<1>1. PICK landing \in [S -> {"none", "abort", "unwind", "stop"}] :
        task' = [j \in Issues |->
              IF j \notin S THEN task[j]
              ELSE IF landing[j] = "none" THEN NoTask
              ELSE [task[j] EXCEPT !.pc = landing[j]]]
  BY DEF CancelTasks
<1>2. task \in [Issues -> Tasks]
  BY DEF TypeOK
<1>3. \A j \in S : task'[j].pc # "refresh"
  BY <1>1, <1>2 DEF Tasks, NoTask
<1>4. live' \subseteq live /\ live' \ lost' \subseteq live \ lost
  BY DEF CancelTasks
<1> QED  BY <1>1, <1>3, <1>4

(***************************************************************************)
(* The step of an attempt touches its own record and task only, keeps      *)
(* naming the same executor, and leaves RUNNING for a phase other than     *)
(* BLOCKED only when that executor is stopped or lost.                     *)
(***************************************************************************)
LEMMA AttemptFrame ==
    ASSUME Inv, NEW i \in Issues, AttemptStep(i)
    PROVE  /\ i \in Running /\ LoopFree /\ UNCHANGED tickVars
           /\ \A j \in Issues \ {i} : rec'[j] = rec[j] /\ task'[j] = task[j]
           /\ SameAttempt(rec'[i], rec[i])
           /\ task'[i].pc # "none" => rec'[i].phase = "running"
           /\ task'[i].pc = "refresh" => Executor(i) \notin live'
           /\ live' \subseteq live \cup {Executor(i)}
           /\ live' \ lost' \subseteq (live \ lost) \cup {Executor(i)}
           /\ Executor(i) \in live' \ lost' => rec'[i].phase \in {"running", "blocked"}
<1>1. TypeOK /\ rec[i] \in Records /\ task[i] \in Tasks
  BY DEF Inv, TypeOK
<1>2. i \in Running => rec[i].phase = "running"
  BY DEF Inv, AttemptOwnsRecord
<1>3. task[i].pc = "refresh" => Executor(i) \notin live
  BY DEF Inv, StoppedBeforeRefresh
<1>4. SameAttempt(rec[i], rec[i]) /\ ExecutorOf(i, rec[i]) = Executor(i)
  BY DEF SameAttempt, Executor
<1>5. CASE Prepared(i)
  <2>1. i \in Running /\ rec[i].phase = "running"
    BY <1>2, <1>5 DEF Prepared, Running
  <2>2. CASE ~task[i].cancel
    BY <1>1, <1>4, <1>5, <2>1, <2>2, GoToFrame DEF Prepared
  <2>3. CASE task[i].cancel
    BY <1>1, <1>5, <2>1, <2>3, StoppedSafelyFrame DEF Prepared
  <2> QED  BY <2>2, <2>3
<1>6. CASE RecordsIdentity(i)
  <2>1. i \in Running /\ rec[i].phase = "running"
    BY <1>2, <1>6 DEF RecordsIdentity, Running
  <2>2. /\ SameAttempt(rec'[i], rec[i]) /\ rec'[i].phase = rec[i].phase
        /\ \A j \in Issues \ {i} : rec'[j] = rec[j]
    BY <1>1, <1>6 DEF RecordsIdentity, TypeOK, Records, SameAttempt
  <2> QED  BY <1>6, <1>3, <2>1, <2>2 DEF RecordsIdentity
<1>7. CASE RunReturns(i)
  <2>1. i \in Running /\ rec[i].phase = "running"
    BY <1>2, <1>7 DEF RunReturns, Running
  <2>2. PICK outcome : StoppedSafely(i, outcome)
    BY <1>7 DEF RunReturns
  <2> QED  BY <1>1, <1>7, <2>1, <2>2, StoppedSafelyFrame DEF RunReturns
<1>8. CASE RunInterrupted(i)
  <2>1. i \in Running /\ rec[i].phase = "running"
    BY <1>2, <1>8 DEF RunInterrupted, Running
  <2>2. task \in [Issues -> Tasks]
    BY <1>1 DEF TypeOK
  <2>3. PICK outcome : task' = [task EXCEPT ![i].pc = "stop", ![i].outcome = outcome]
    BY <1>8 DEF RunInterrupted
  <2>4. task'[i].pc = "stop" /\ \A j \in Issues \ {i} : task'[j] = task[j]
    BY <2>2, <2>3 DEF Tasks
  <2> QED  BY <1>4, <1>8, <2>1, <2>4 DEF RunInterrupted
<1>9. ASSUME NEW ok \in BOOLEAN,
             \/ RunStops(i, ok) \/ Unwinds(i, ok)
             \/ Mends(i, ok) \/ Aborts(i, ok)
      PROVE  /\ i \in Running /\ rec[i].phase = "running"
             /\ live' \subseteq live /\ live' \ lost' \subseteq live \ lost
             /\ ok => Executor(i) \notin live' \ lost'
  <2>1. i \in Running /\ rec[i].phase = "running"
    BY <1>2, <1>9 DEF RunStops, Unwinds, Mends, Aborts, Running
  <2>2. CASE Reap(i, rec[i], ok)
    BY <1>4, <2>1, <2>2, ReapFrame
  <2>3. CASE live' = live \ {Executor(i)} /\ lost' = lost \ {Executor(i)}
    BY <2>1, <2>3
  <2> QED  BY <1>9, <2>2, <2>3 DEF RunStops, Unwinds, Mends, Aborts
<1>10. ASSUME NEW ok \in BOOLEAN, RunStops(i, ok)
       PROVE  ok => Executor(i) \notin live'
  <2>1. CASE IsLocal(i)
    BY <1>10, <2>1 DEF RunStops
  <2>2. CASE ~IsLocal(i)
    BY <1>4, <1>10, <2>2 DEF RunStops, Reap, IsLocal
  <2> QED  BY <2>1, <2>2
<1>11. CASE \E ok \in BOOLEAN : RunStops(i, ok)
  <2>1. PICK ok \in BOOLEAN : RunStops(i, ok)
    BY <1>11
  <2>2. /\ i \in Running /\ rec[i].phase = "running"
        /\ live' \subseteq live /\ live' \ lost' \subseteq live \ lost
    BY <1>9, <2>1
  <2>3. CASE ok
    <3>1. Executor(i) \notin live'
      BY <1>10, <2>1, <2>3
    <3>2. /\ task'[i].pc = "refresh"
          /\ SameAttempt(rec'[i], rec[i]) /\ rec'[i].phase = rec[i].phase
          /\ \A j \in Issues \ {i} : task'[j] = task[j] /\ rec'[j] = rec[j]
      BY <1>1, <2>1, <2>3, StoppedSafelyFrame DEF RunStops, AfterStop
    <3> QED  BY <2>1, <2>2, <3>1, <3>2 DEF RunStops
  <2>4. CASE ~ok
    <3>1. /\ rec' = rec /\ task'[i].pc = "blocking"
          /\ \A j \in Issues \ {i} : task'[j] = task[j]
      BY <1>1, <2>1, <2>4, GoToFrame DEF RunStops, AfterStop
    <3> QED  BY <1>4, <2>1, <2>2, <3>1 DEF RunStops
  <2> QED  BY <2>3, <2>4
<1>12. CASE \E ok \in BOOLEAN : Unwinds(i, ok)
  <2>1. PICK ok \in BOOLEAN : Unwinds(i, ok)
    BY <1>12
  <2>2. /\ i \in Running /\ rec[i].phase = "running"
        /\ live' \subseteq live /\ live' \ lost' \subseteq live \ lost
    BY <1>9, <2>1
  <2>3. /\ rec' = rec /\ task'[i].pc = "abort"
        /\ \A j \in Issues \ {i} : task'[j] = task[j]
    BY <1>1, <2>1, GoToFrame DEF Unwinds
  <2> QED  BY <1>4, <2>1, <2>2, <2>3 DEF Unwinds
<1>13. CASE \E ok \in BOOLEAN : Mends(i, ok) \/ Aborts(i, ok)
  <2>1. PICK ok \in BOOLEAN : Mends(i, ok) \/ Aborts(i, ok)
    BY <1>13
  <2>2. /\ i \in Running
        /\ live' \subseteq live /\ live' \ lost' \subseteq live \ lost
        /\ ok => Executor(i) \notin live' \ lost'
    BY <1>9, <2>1
  <2>3. PICK r : /\ EndsWith(i, r) /\ SameAttempt(r, rec[i])
                 /\ ok \/ r.phase = "blocked"
    BY <1>1, <2>1, RecordFrame DEF Mends, Aborts
  <2>4. /\ task'[i].pc = "none" /\ rec'[i] = r
        /\ \A j \in Issues \ {i} : task'[j] = task[j] /\ rec'[j] = rec[j]
    BY <1>1, <2>3, EndsWithFrame
  <2> QED  BY <2>1, <2>2, <2>3, <2>4 DEF Mends, Aborts
<1>14. CASE \E ok \in BOOLEAN : Refreshed(i, ok)
  <2>1. PICK ok \in BOOLEAN : Refreshed(i, ok)
    BY <1>14
  <2>2. PICK r : EndsWith(i, r) /\ SameAttempt(r, rec[i])
    <3>1. /\ SameAttempt(RetryLater(rec[i]), rec[i])
          /\ SameAttempt(Settled(rec[i], "released"), rec[i])
          /\ SameAttempt(Settled(rec[i], "ready"), rec[i])
          /\ SameAttempt([Settled(rec[i], "continuation_wait") EXCEPT !.later = TRUE],
                         rec[i])
      BY <1>1, RecordFrame
    <3> QED  BY <2>1, <3>1 DEF Refreshed
  <2>3. /\ task'[i].pc = "none" /\ rec'[i] = r
        /\ \A j \in Issues \ {i} : task'[j] = task[j] /\ rec'[j] = rec[j]
    BY <1>1, <2>2, EndsWithFrame
  <2>4. i \in Running /\ Executor(i) \notin live
    BY <1>3, <2>1 DEF Refreshed, Running
  <2> QED  BY <2>1, <2>2, <2>3, <2>4 DEF Refreshed
<1>15. CASE Blocks(i) \/ HandlerRaises(i)
  <2>1. i \in Running /\ rec[i].phase = "running"
    BY <1>2, <1>15 DEF Blocks, HandlerRaises, Running
  <2>2. PICK r : /\ EndsWith(i, r) /\ SameAttempt(r, rec[i])
                 /\ r.phase \in {"running", "blocked"}
    BY <1>1, <1>15, <2>1, RecordFrame DEF Blocks, HandlerRaises
  <2>3. /\ task'[i].pc = "none" /\ rec'[i] = r
        /\ \A j \in Issues \ {i} : task'[j] = task[j] /\ rec'[j] = rec[j]
    BY <1>1, <2>2, EndsWithFrame
  <2> QED  BY <1>15, <2>1, <2>2, <2>3 DEF Blocks, HandlerRaises
<1>16. CASE Raises(i)
  <2>1. i \in Running /\ rec[i].phase = "running"
    BY <1>2, <1>16 DEF Raises, Running
  <2> QED  BY <1>1, <1>4, <1>16, <2>1, GoToFrame DEF Raises
<1> QED
  BY <1>5, <1>6, <1>7, <1>8, <1>11, <1>12, <1>13, <1>14, <1>15, <1>16 DEF AttemptStep

-----------------------------------------------------------------------------
(* The step of an attempt *)

\* The step of an attempt keeps every conjunct of Inv.
LEMMA AttemptInv ==
    ASSUME Inv, NEW i \in Issues, AttemptStep(i)
    PROVE  Inv'
<1>1. TypeOK /\ TypeOK'
  BY AttemptTypes DEF Inv
<1>2. /\ i \in Running /\ LoopFree /\ UNCHANGED tickVars
      /\ \A j \in Issues \ {i} : rec'[j] = rec[j] /\ task'[j] = task[j]
      /\ SameAttempt(rec'[i], rec[i])
      /\ task'[i].pc # "none" => rec'[i].phase = "running"
      /\ task'[i].pc = "refresh" => Executor(i) \notin live'
      /\ live' \subseteq live \cup {Executor(i)}
      /\ live' \ lost' \subseteq (live \ lost) \cup {Executor(i)}
      /\ Executor(i) \in live' \ lost' => rec'[i].phase \in {"running", "blocked"}
  BY AttemptFrame
<1>3. Running' \subseteq Running /\ \A j \in Issues : Executor(j)' = Executor(j)
  BY <1>2 DEF Running, Executor, ExecutorOf, SameAttempt
<1>4. ExecutorAccounted'
  <2> SUFFICES ASSUME NEW e \in live' \ lost'
               PROVE  /\ rec'[e.issue].attempt = e.attempt
                      /\ rec'[e.issue].target = e.target
                      /\ rec'[e.issue].phase \in {"running", "blocked"}
    BY DEF ExecutorAccounted
  <2>1. CASE e = Executor(i)
    BY <1>2, <2>1 DEF Executor, ExecutorOf, SameAttempt
  <2>2. CASE e # Executor(i)
    <3>1. e \in live \ lost /\ e \in Executors
      BY <1>1, <1>2, <2>2 DEF TypeOK
    <3>2. /\ rec[e.issue].attempt = e.attempt /\ rec[e.issue].target = e.target
          /\ rec[e.issue].phase \in {"running", "blocked"}
      BY <3>1 DEF Inv, ExecutorAccounted
    <3>3. e.issue \in Issues \ {i}
      BY <2>2, <3>1, <3>2 DEF Executors, Executor, ExecutorOf
    <3> QED  BY <1>2, <3>2, <3>3
  <2> QED  BY <2>1, <2>2
<1>5. AttemptOwnsRecord'
  BY <1>2, <1>3 DEF Inv, AttemptOwnsRecord, Running
<1>6. StoppedBeforeRefresh'
  <2> SUFFICES ASSUME NEW j \in Issues, task'[j].pc = "refresh"
               PROVE  Executor(j) \notin live'
    BY <1>3 DEF StoppedBeforeRefresh
  <2>1. CASE j = i
    BY <1>2, <2>1
  <2>2. CASE j # i
    <3>1. Executor(j) \notin live
      BY <1>2, <2>2 DEF Inv, StoppedBeforeRefresh
    <3>2. Executor(j) # Executor(i)
      BY <2>2 DEF Executor, ExecutorOf
    <3> QED  BY <1>2, <3>1, <3>2
  <2> QED  BY <2>1, <2>2
<1>7. pc \notin {"down", "recover", "recoverGet"}
  BY <1>2 DEF Inv, AloneInRecovery
<1>8. AloneInRecovery' /\ RecoveryCopies'
  BY <1>2, <1>7 DEF AloneInRecovery, RecoveryCopies, tickVars
<1>9. BlockedCopies'
  <2> SUFFICES ASSUME pc \in {"blocked", "blockedReap", "blockedGet"},
                      NEW j \in todo
               PROVE  /\ j \notin Running'
                      /\ loaded[j] = rec'[j]
                      /\ loaded[j].phase \in {"blocked", "placement_blocked"}
                      /\ pc = "blockedGet" /\ NextUp(j) => NoneOf(j)'
    BY <1>2 DEF BlockedCopies, tickVars, NextUp
  <2>1. /\ j \notin Running /\ loaded[j] = rec[j]
        /\ loaded[j].phase \in {"blocked", "placement_blocked"}
        /\ pc = "blockedGet" /\ NextUp(j) => NoneOf(j)
    BY DEF Inv, BlockedCopies
  <2>2. j \in Issues \ {i}
    BY <1>1, <1>2, <2>1 DEF TypeOK
  <2>3. NoneOf(j) => NoneOf(j)'
    BY <1>2, <2>2 DEF NoneOf, Executor, ExecutorOf
  <2> QED  BY <1>2, <1>3, <2>1, <2>2, <2>3
<1>10. WaitingCopies'
  <2> SUFFICES ASSUME pc \in {"waiting", "waitingGet"}, NEW j \in todo
               PROVE  /\ SameAttempt(loaded[j], rec'[j])
                      /\ \/ loaded[j].phase = "running"
                         \/ j \notin Running' /\ loaded[j].phase = rec'[j].phase
    BY <1>2 DEF WaitingCopies, tickVars
  <2>1. /\ SameAttempt(loaded[j], rec[j])
        /\ \/ loaded[j].phase = "running"
           \/ j \notin Running /\ loaded[j].phase = rec[j].phase
    BY DEF Inv, WaitingCopies
  <2>2. CASE j = i
    BY <1>2, <2>1, <2>2 DEF SameAttempt
  <2>3. CASE j # i
    BY <1>1, <1>2, <1>3, <2>1, <2>3 DEF TypeOK
  <2> QED  BY <2>2, <2>3
<1>11. TurnHasNoAttempt'
  BY <1>2, <1>3 DEF Inv, TurnHasNoAttempt, tickVars, NextUp
<1> QED  BY <1>1, <1>4, <1>5, <1>6, <1>8, <1>9, <1>10, <1>11 DEF Inv

-----------------------------------------------------------------------------
(* The steps of the tick: records, tasks and executors *)

\* Of the issues still to visit at most one is next.
LEMMA OneNextUp ==
    ASSUME TypeOK, NEW i, NEW j, NextUp(i), NextUp(j)
    PROVE  i = j
<1>1. i \in Nat /\ j \in Nat
  BY ConstantsAssumption DEF TypeOK, NextUp
<1>2. i <= j /\ j <= i
  BY DEF NextUp
<1> QED  BY <1>1, <1>2

\* A record that is neither RUNNING nor BLOCKED has no executor to account for.
LEMMA NoneByPhase ==
    ASSUME Inv, NEW i \in Issues, rec[i].phase \notin {"running", "blocked"}
    PROVE  NoneOf(i)
  BY DEF Inv, ExecutorAccounted, NoneOf

\* A confirmed reap of the recorded attempt leaves the issue none.
LEMMA NoneByReap ==
    ASSUME Inv, NEW i \in Issues, NEW r, SameAttempt(r, rec[i]), Reap(i, r, TRUE)
    PROVE  NoneOf(i)'
<1> SUFFICES ASSUME NEW e \in live' \ lost', e.issue = i
             PROVE  FALSE
  BY DEF NoneOf
<1>1. e \in live \ lost /\ ExecutorOf(i, r) \notin live' \ lost'
  BY ReapFrame
<1>2. e \in Executors
  BY <1>1 DEF Inv, TypeOK
<1>3. rec[i].attempt = e.attempt /\ rec[i].target = e.target
  BY <1>1 DEF Inv, ExecutorAccounted
<1>4. e = ExecutorOf(i, r)
  BY <1>2, <1>3 DEF Executors, ExecutorOf, SameAttempt
<1> QED  BY <1>1, <1>4

\* Executors only go away, or get lost.
Shrinks == live' \subseteq live /\ live' \ lost' \subseteq live \ lost

\* Tasks go on where they were, move outside the refresh, or end.
TasksShrink ==
    \A j \in Issues :
      /\ task'[j].pc # "none" => task[j].pc # "none"
      /\ task'[j].pc = "refresh" => task[j].pc = "refresh"

\* What the step of any task must keep of the records and executors.
Accounting == ExecutorAccounted /\ AttemptOwnsRecord /\ StoppedBeforeRefresh

\* (a) A step that writes no record.
LEMMA FrameKeeps ==
    ASSUME Inv, rec' = rec, Shrinks, TasksShrink
    PROVE  Accounting'
<1>1. ExecutorAccounted'
  BY DEF Inv, ExecutorAccounted, Shrinks
<1>2. AttemptOwnsRecord'
  BY DEF Inv, AttemptOwnsRecord, TasksShrink, Running
<1>3. StoppedBeforeRefresh'
  <2>1. \A j \in Issues : Executor(j)' = Executor(j)
    BY DEF Executor
  <2> QED  BY <2>1 DEF Inv, StoppedBeforeRefresh, TasksShrink, Shrinks
<1> QED  BY <1>1, <1>2, <1>3 DEF Accounting

\* (b) A step that saves one record of an issue without an attempt.
LEMMA SaveKeeps ==
    ASSUME Inv, NEW i \in Issues, i \notin Running, NEW r, Save(i, r),
           task' = task, Shrinks,
           \/ NoneOf(i)'
           \/ SameAttempt(r, rec[i]) /\ r.phase \in {"running", "blocked", rec[i].phase}
    PROVE  Accounting'
<1>1. rec'[i] = r /\ \A j \in Issues \ {i} : rec'[j] = rec[j]
  BY DEF Inv, TypeOK, Save
<1>2. ExecutorAccounted'
  <2> SUFFICES ASSUME NEW e \in live' \ lost'
               PROVE  /\ rec'[e.issue].attempt = e.attempt
                      /\ rec'[e.issue].target = e.target
                      /\ rec'[e.issue].phase \in {"running", "blocked"}
    BY DEF ExecutorAccounted
  <2>1. /\ rec[e.issue].attempt = e.attempt /\ rec[e.issue].target = e.target
        /\ rec[e.issue].phase \in {"running", "blocked"}
    BY DEF Inv, ExecutorAccounted, Shrinks
  <2>2. e.issue \in Issues
    BY DEF Inv, TypeOK, Executors, Shrinks
  <2>3. CASE e.issue = i
    BY <1>1, <2>1, <2>3 DEF NoneOf, SameAttempt
  <2>4. CASE e.issue # i
    BY <1>1, <2>1, <2>2, <2>4
  <2> QED  BY <2>3, <2>4
<1>3. AttemptOwnsRecord'
  BY <1>1 DEF Inv, AttemptOwnsRecord, Running
<1>4. StoppedBeforeRefresh'
  <2> SUFFICES ASSUME NEW j \in Issues, task'[j].pc = "refresh"
               PROVE  Executor(j)' \notin live'
    BY DEF StoppedBeforeRefresh
  <2>1. j # i
    BY DEF Running
  <2>2. Executor(j)' = Executor(j)
    BY <1>1, <2>1 DEF Executor
  <2> QED  BY <2>2 DEF Inv, StoppedBeforeRefresh, Shrinks
<1> QED  BY <1>2, <1>3, <1>4 DEF Accounting

-----------------------------------------------------------------------------
(* What the loops of the tick hold in memory *)

Copies ==
    /\ AloneInRecovery /\ RecoveryCopies /\ BlockedCopies /\ WaitingCopies
    /\ TurnHasNoAttempt

\* Where no loop holds a copy of a record.
QuietPlaces == {"idle", "reconcile", "cancelling", "gathering", "listing",
                "listed", "dispatch", "drain"}

LEMMA QuietCopies ==
    ASSUME pc' \in QuietPlaces \/ (pc' = "down" /\ Running' = {})
    PROVE  Copies'
  BY DEF Copies, QuietPlaces, AloneInRecovery, RecoveryCopies, BlockedCopies,
     WaitingCopies, TurnHasNoAttempt

\* A step outside the tick that writes no record.
LEMMA FrameCopies ==
    ASSUME Inv, rec' = rec, Shrinks, TasksShrink, UNCHANGED tickVars
    PROVE  Copies'
<1>1. /\ Running' \subseteq Running
      /\ pc' = pc /\ loaded' = loaded /\ todo' = todo
  BY DEF TasksShrink, Running, tickVars
<1>2. /\ \A j : NoneOf(j) => NoneOf(j)'
      /\ \A j : NextUp(j)' <=> NextUp(j)
  BY <1>1 DEF NoneOf, NextUp, Shrinks
<1>3. AloneInRecovery' /\ RecoveryCopies'
  BY <1>1, <1>2 DEF Inv, AloneInRecovery, RecoveryCopies
<1>4. BlockedCopies'
  BY <1>1, <1>2 DEF Inv, BlockedCopies
<1>5. WaitingCopies' /\ TurnHasNoAttempt'
  BY <1>1, <1>2 DEF Inv, WaitingCopies, TurnHasNoAttempt
<1> QED  BY <1>3, <1>4, <1>5 DEF Copies

LEMMA RecoverInv ==
    ASSUME Inv, RecoverStep
    PROVE  Inv'
<1>1. TypeOK /\ TypeOK'
  BY RecoverTypes DEF Inv
<1> SUFFICES Accounting' /\ Copies'
  BY <1>1 DEF Inv, Accounting, Copies
<1>2. CASE Start
  <2>1. rec' = rec /\ Shrinks /\ TasksShrink
    BY <1>2 DEF Start, taskVars, Shrinks, TasksShrink
  <2>2. Running' = {} /\ pc' = "recover" /\ loaded' = rec
    BY <1>2 DEF Start, taskVars, Running, Inv, AloneInRecovery
  <2>3. Copies'
    BY <2>1, <2>2 DEF Copies, AloneInRecovery, RecoveryCopies, BlockedCopies,
       WaitingCopies, TurnHasNoAttempt
  <2> QED  BY <2>1, <2>3, FrameKeeps
<1>3. CASE RecoverEnds
  <2>1. rec' = rec /\ Shrinks /\ TasksShrink /\ pc' = "idle"
    BY <1>3 DEF RecoverEnds, LeavesTick, Shrinks, TasksShrink
  <2> QED  BY <2>1, FrameKeeps, QuietCopies DEF QuietPlaces
<1>4. ASSUME NEW i \in Issues, NEW ok \in BOOLEAN, RecoverReap(i, ok)
      PROVE  Accounting' /\ Copies'
  <2>1. /\ pc = "recover" /\ pc' = "recoverGet" /\ NextUp(i) /\ i \in todo
        /\ todo' = todo /\ task' = task
        /\ Reap(i, loaded[i], ok)
    BY <1>4 DEF RecoverReap, NextUp
  <2>2. Running = {} /\ Running' = {} /\ \A j \in todo : loaded[j] = rec[j]
    BY <2>1 DEF Inv, AloneInRecovery, RecoveryCopies, Running
  <2>3. SameAttempt(loaded[i], rec[i])
    BY <2>1, <2>2 DEF SameAttempt
  <2>4. Shrinks
    BY <2>1, ReapFrame DEF Shrinks
  <2>5. ok => NoneOf(i)'
    BY <2>1, <2>3, NoneByReap
  <2>6. loaded[i] \in Records
    BY <1>1 DEF TypeOK
  <2>7. PICK r : /\ Save(i, r) /\ SameAttempt(r, rec[i])
                 /\ ok \/ r.phase = "blocked"
                 /\ SameAttempt(loaded'[i], r)
                 /\ ok \/ loaded'[i].phase = "blocked"
                 /\ \A j \in Issues \ {i} : loaded'[j] = loaded[j]
    <3>1. CASE ok
      <4>1. /\ Save(i, [loaded[i] EXCEPT !.process = FALSE])
            /\ loaded' = [loaded EXCEPT ![i].phase = "ready", ![i].process = FALSE]
        BY <1>4, <3>1 DEF RecoverReap
      <4>2. loaded'[i] = [loaded[i] EXCEPT !.phase = "ready", !.process = FALSE]
            /\ \A j \in Issues \ {i} : loaded'[j] = loaded[j]
        BY <1>1, <4>1 DEF TypeOK
      <4> DEFINE saved == [loaded[i] EXCEPT !.process = FALSE]
      <4>3. SameAttempt(saved, rec[i]) /\ SameAttempt(loaded'[i], saved)
        BY <2>3, <2>6, <4>2 DEF SameAttempt, Records
      <4> QED  BY <3>1, <4>1, <4>2, <4>3
    <3>2. CASE ~ok
      <4>1. /\ Save(i, Unconfirmed(loaded[i]))
            /\ loaded' = [loaded EXCEPT ![i] = Unconfirmed(loaded[i])]
        BY <1>4, <3>2 DEF RecoverReap
      <4>2. loaded'[i] = Unconfirmed(loaded[i])
            /\ \A j \in Issues \ {i} : loaded'[j] = loaded[j]
        BY <1>1, <4>1 DEF TypeOK
      <4> QED  BY <2>3, <2>6, <3>2, <4>1, <4>2 DEF SameAttempt, Records, Unconfirmed
    <3> QED  BY <3>1, <3>2
  <2>8. Accounting'
    BY <2>1, <2>2, <2>4, <2>5, <2>7, SaveKeeps
  <2>9. rec'[i] = r /\ \A j \in Issues \ {i} : rec'[j] = rec[j]
    BY <1>1, <2>7 DEF TypeOK, Save
  <2>10. RecoveryCopies'
    <3> SUFFICES ASSUME NEW j \in todo
                 PROVE  \/ loaded'[j] = rec'[j] /\ ~NextUp(j)
                        \/ /\ NextUp(j) /\ SameAttempt(loaded'[j], rec'[j])
                           /\ loaded'[j].phase = "blocked" \/ NoneOf(j)'
      BY <2>1 DEF RecoveryCopies, NextUp
    <3>1. CASE j = i
      BY <2>1, <2>5, <2>7, <2>9, <3>1
    <3>2. CASE j # i
      <4>1. ~NextUp(j)
        BY <1>1, <2>1, <3>2, OneNextUp
      <4> QED  BY <1>1, <2>2, <2>7, <2>9, <3>2, <4>1 DEF TypeOK
    <3> QED  BY <3>1, <3>2
  <2> QED  BY <2>1, <2>2, <2>8, <2>10 DEF Copies, AloneInRecovery, BlockedCopies,
           WaitingCopies, TurnHasNoAttempt
<1>5. ASSUME NEW i \in Issues, NEW ok \in BOOLEAN, RecoverGet(i, ok)
      PROVE  Accounting' /\ Copies'
  <2>1. /\ pc \in {"recover", "recoverGet"} /\ pc' = "recover"
        /\ NextUp(i) /\ i \in todo /\ todo' = todo \ {i} /\ loaded' = loaded
        /\ UNCHANGED <<task, live, lost>>
        /\ pc = "recoverGet" \/ ~NeedsReap(loaded[i])
    BY <1>5 DEF RecoverGet, Advance, NextUp
  <2>2. Running = {} /\ Running' = {} /\ SameAttempt(loaded[i], rec[i])
    BY <2>1 DEF Inv, AloneInRecovery, RecoveryCopies, Running, SameAttempt
  <2>3. loaded[i].phase = "blocked" \/ NoneOf(i)
    <3>1. CASE pc = "recoverGet"
      BY <2>1, <3>1 DEF Inv, RecoveryCopies
    <3>2. CASE pc = "recover"
      <4>1. loaded[i] = rec[i] /\ rec[i].phase \notin {"running", "blocked"}
        BY <2>1, <3>2 DEF Inv, RecoveryCopies, NeedsReap
      <4> QED  BY <4>1, NoneByPhase
    <3> QED  BY <2>1, <3>1, <3>2
  <2>4. Shrinks /\ (NoneOf(i) => NoneOf(i)')
    BY <2>1 DEF Shrinks, NoneOf
  <2>5. PICK phase : /\ Save(i, [loaded[i] EXCEPT !.later = FALSE, !.phase = phase])
                     /\ loaded[i].phase = "blocked" => phase = "blocked"
    BY <1>5 DEF RecoverGet, Resumed, Retired
  <2>6. SameAttempt([loaded[i] EXCEPT !.later = FALSE, !.phase = phase], rec[i])
        /\ [loaded[i] EXCEPT !.later = FALSE, !.phase = phase].phase = phase
    BY <1>1, <2>2 DEF TypeOK, SameAttempt, Records
  <2>7. Accounting'
    BY <2>1, <2>2, <2>3, <2>4, <2>5, <2>6, SaveKeeps
  <2>8. \A j \in Issues \ {i} : rec'[j] = rec[j]
    BY <1>1, <2>5 DEF TypeOK, Save
  <2>9. \A j \in todo \ {i} : loaded[j] = rec[j]
    BY <1>1, <2>1, OneNextUp DEF Inv, RecoveryCopies
  <2>10. RecoveryCopies'
    BY <1>1, <2>1, <2>8, <2>9 DEF TypeOK, RecoveryCopies
  <2> QED  BY <2>1, <2>2, <2>7, <2>10 DEF Copies, AloneInRecovery, BlockedCopies,
           WaitingCopies, TurnHasNoAttempt
<1> QED  BY <1>2, <1>3, <1>4, <1>5 DEF RecoverStep

LEMMA CancelTasksKeeps ==
    ASSUME Inv, NEW S \in SUBSET Running, CancelTasks(S)
    PROVE  Shrinks /\ TasksShrink
<1>1. TypeOK /\ S \in SUBSET Issues
  BY DEF Inv, Running
<1>2. \A j \in S : task[j].pc # "none"
  BY DEF Running
<1> QED  BY <1>1, <1>2, CancelTasksFrame DEF Shrinks, TasksShrink

LEMMA SignalledKeeps ==
    ASSUME TypeOK, NEW S, task' = Signalled(S)
    PROVE  TasksShrink
<1>1. task \in [Issues -> Tasks]
  BY DEF TypeOK
<1>2. \A j \in Issues : task'[j].pc = task[j].pc
  BY <1>1 DEF Signalled, Tasks
<1> QED  BY <1>2 DEF TasksShrink

\* _reconcile_running and list_active_issues.
ListingStep ==
    \/ TickBegins \/ CancelledAllEnd \/ CancelTimesOut
    \/ \E unread \in SUBSET Issues : ReconcilesRunning(unread)
    \/ ListFails \/ ListAnswered

LEMMA ListingInv ==
    ASSUME Inv, ListingStep
    PROVE  Accounting' /\ Copies'
<1>1. rec' = rec /\ pc' \in QuietPlaces
  BY DEF ListingStep, TickBegins, CancelledAllEnd, CancelTimesOut, ReconcilesRunning,
     ListFails, ListAnswered, AfterReconcile, LeavesTick, QuietPlaces, taskVars
<1>2. Shrinks /\ TasksShrink
  <2>1. CASE CancelTimesOut
    <3>1. CancelTasks(to_cancel \cap Running)
      BY <2>1 DEF CancelTimesOut
    <3> QED  BY <3>1, CancelTasksKeeps
  <2>2. ASSUME NEW unread \in SUBSET Issues, ReconcilesRunning(unread)
        PROVE  Shrinks /\ TasksShrink
    <3>1. live' = live /\ lost' = lost /\ \E S : task' = Signalled(S)
      BY <2>2 DEF ReconcilesRunning
    <3> QED  BY <3>1, SignalledKeeps DEF Inv, Shrinks
  <2>3. CASE TickBegins \/ CancelledAllEnd \/ ListFails \/ ListAnswered
    BY <2>3 DEF TickBegins, CancelledAllEnd, ListFails, ListAnswered, taskVars,
       Shrinks, TasksShrink
  <2> QED  BY <2>1, <2>2, <2>3 DEF ListingStep
<1> QED  BY <1>1, <1>2, FrameKeeps, QuietCopies

-----------------------------------------------------------------------------
(* _reconcile_blocked *)

BlockedStep ==
    \/ ListReceived
    \/ \E i \in Issues : BlockedTurn(i)
    \/ \E i \in Issues, ok \in BOOLEAN : BlockedReap(i, ok) \/ BlockedGet(i, ok)

\* BlockedCopies for a step of the blocked loop: the issues other than i are
\* left alone.
LEMMA BlockedLoop ==
    ASSUME Inv, NEW i \in Issues, NextUp(i),
           pc \in {"blocked", "blockedReap", "blockedGet"},
           pc' \in {"blocked", "blockedReap", "blockedGet"},
           task' = task,
           \A j \in Issues \ {i} : rec'[j] = rec[j] /\ loaded'[j] = loaded[j],
           \/ todo' = todo \ {i}
           \/ /\ todo' = todo
              /\ loaded'[i] = rec'[i]
              /\ loaded'[i].phase \in {"blocked", "placement_blocked"}
              /\ pc' = "blockedGet" => NoneOf(i)',
           pc' = "blocked" \/ todo' = todo
    PROVE  Copies'
<1>1. TypeOK /\ Running' = Running
  BY DEF Inv, Running
<1>2. BlockedCopies'
  <2> SUFFICES ASSUME NEW j \in todo'
               PROVE  /\ j \notin Running
                      /\ loaded'[j] = rec'[j]
                      /\ loaded'[j].phase \in {"blocked", "placement_blocked"}
                      /\ pc' = "blockedGet" /\ NextUp(j)' => NoneOf(j)'
    BY <1>1 DEF BlockedCopies
  <2>1. j \in todo /\ j \in Issues
    BY <1>1 DEF TypeOK
  <2>2. /\ j \notin Running /\ loaded[j] = rec[j]
        /\ loaded[j].phase \in {"blocked", "placement_blocked"}
    BY <2>1 DEF Inv, BlockedCopies
  <2>3. CASE j = i
    BY <2>2, <2>3
  <2>4. CASE j # i
    <3>1. pc' = "blockedGet" => ~NextUp(j)'
      <4> SUFFICES ASSUME todo' = todo PROVE ~NextUp(j)'
        OBVIOUS
      <4>1. NextUp(j)' <=> NextUp(j)
        BY DEF NextUp
      <4> QED  BY <1>1, <2>4, <4>1, OneNextUp
    <3> QED  BY <2>1, <2>2, <2>4, <3>1
  <2> QED  BY <2>3, <2>4
<1> QED  BY <1>2 DEF Copies, AloneInRecovery, RecoveryCopies, WaitingCopies,
         TurnHasNoAttempt

LEMMA BlockedInv ==
    ASSUME Inv, BlockedStep
    PROVE  Accounting' /\ Copies'
<1>1. TypeOK
  BY DEF Inv
<1>2. CASE ListReceived
  <2>1. /\ rec' = rec /\ Shrinks /\ TasksShrink /\ Running' = Running
        /\ pc' = "blocked" /\ loaded' = rec
        /\ todo' = InPhase({"blocked", "placement_blocked"})
    BY <1>2 DEF ListReceived, BlockedIssues, taskVars, Shrinks, TasksShrink, Running
  <2>2. \A j \in todo' : j \notin Running
                         /\ rec[j].phase \in {"blocked", "placement_blocked"}
    BY <2>1 DEF Inv, AttemptOwnsRecord, InPhase
  <2>3. Copies'
    BY <2>1, <2>2 DEF Copies, AloneInRecovery, RecoveryCopies, BlockedCopies,
       WaitingCopies, TurnHasNoAttempt
  <2> QED  BY <2>1, <2>3, FrameKeeps
<1>3. ASSUME NEW i \in Issues, NextUp(i),
             pc \in {"blocked", "blockedReap", "blockedGet"}
      PROVE  /\ i \notin Running /\ loaded[i] = rec[i]
             /\ loaded[i].phase \in {"blocked", "placement_blocked"}
             /\ pc = "blockedGet" => NoneOf(i)
  BY <1>3 DEF Inv, BlockedCopies, NextUp
<1>4. ASSUME NEW i \in Issues, BlockedTurn(i)
      PROVE  Accounting' /\ Copies'
  <2>1. /\ NextUp(i) /\ pc = "blocked" /\ UNCHANGED <<rec, task, live, lost, loaded>>
        /\ \/ pc' = "blocked" /\ todo' = todo \ {i}
           \/ /\ pc' = "blockedGet" /\ todo' = todo
              /\ loaded[i].phase = "placement_blocked"
           \/ pc' = "blockedReap" /\ todo' = todo
    BY <1>4 DEF BlockedTurn, Advance, taskVars
  <2>2. Shrinks /\ TasksShrink
    BY <2>1 DEF Shrinks, TasksShrink
  <2>3. pc' = "blockedGet" => NoneOf(i)'
    <3>1. pc' = "blockedGet" => NoneOf(i)
      BY <1>3, <2>1, NoneByPhase
    <3> QED  BY <2>1, <3>1 DEF NoneOf
  <2>4. Copies'
    BY <1>3, <2>1, <2>3, BlockedLoop
  <2> QED  BY <2>1, <2>2, <2>4, FrameKeeps
<1>5. ASSUME NEW i \in Issues, NEW ok \in BOOLEAN, BlockedReap(i, ok)
      PROVE  Accounting' /\ Copies'
  <2>1. /\ NextUp(i) /\ pc = "blockedReap" /\ task' = task
        /\ Reap(i, loaded[i], ok)
    BY <1>5 DEF BlockedReap
  <2>2. /\ i \notin Running /\ loaded[i] = rec[i] /\ SameAttempt(loaded[i], rec[i])
        /\ loaded[i].phase \in {"blocked", "placement_blocked"}
    BY <1>3, <2>1 DEF SameAttempt
  <2>3. Shrinks
    BY <2>1, ReapFrame DEF Shrinks
  <2>4. ok => NoneOf(i)'
    BY <2>1, <2>2, NoneByReap
  <2>5. loaded[i] \in Records
    BY <1>1 DEF TypeOK
  <2>6. CASE ~ok
    <3>1. /\ Save(i, Unconfirmed(loaded[i])) /\ loaded' = loaded
          /\ pc' = "blocked" /\ todo' = todo \ {i}
      BY <1>5, <2>6 DEF BlockedReap, Advance
    <3>2. SameAttempt(Unconfirmed(loaded[i]), rec[i])
          /\ Unconfirmed(loaded[i]).phase = "blocked"
      BY <2>2, <2>5 DEF SameAttempt, Unconfirmed, Records
    <3>3. \A j \in Issues \ {i} : rec'[j] = rec[j]
      BY <1>1, <3>1 DEF TypeOK, Save
    <3> QED  BY <2>1, <2>2, <2>3, <3>1, <3>2, <3>3, SaveKeeps, BlockedLoop
  <2>7. CASE ok /\ Listed(i)
    <3>1. /\ Save(i, Settled(loaded[i], "ready")) /\ loaded' = loaded
          /\ pc' = "blocked" /\ todo' = todo \ {i}
      BY <1>5, <2>7 DEF BlockedReap, Advance
    <3>2. \A j \in Issues \ {i} : rec'[j] = rec[j]
      BY <1>1, <3>1 DEF TypeOK, Save
    <3> QED  BY <2>1, <2>2, <2>3, <2>4, <2>7, <3>1, <3>2, SaveKeeps, BlockedLoop
  <2>8. CASE ok /\ ~Listed(i)
    <3> DEFINE saved == [loaded[i] EXCEPT !.process = FALSE]
    <3>1. /\ Save(i, saved)
          /\ loaded' = [loaded EXCEPT ![i].process = FALSE]
          /\ pc' = "blockedGet" /\ todo' = todo
      BY <1>5, <2>8 DEF BlockedReap
    <3>2. /\ loaded'[i] = saved /\ rec'[i] = saved
          /\ saved.phase = loaded[i].phase
          /\ \A j \in Issues \ {i} : rec'[j] = rec[j] /\ loaded'[j] = loaded[j]
      BY <1>1, <2>5, <3>1 DEF TypeOK, Save, Records
    <3> HIDE DEF saved
    <3>3. Accounting'
      BY <2>1, <2>2, <2>3, <2>4, <2>8, <3>1, SaveKeeps
    <3>4. Copies'
      BY <2>1, <2>2, <2>4, <2>8, <3>1, <3>2, BlockedLoop
    <3> QED  BY <3>3, <3>4
  <2> QED  BY <2>6, <2>7, <2>8
<1>6. ASSUME NEW i \in Issues, NEW ok \in BOOLEAN, BlockedGet(i, ok)
      PROVE  Accounting' /\ Copies'
  <2>1. /\ NextUp(i) /\ pc = "blockedGet" /\ UNCHANGED <<task, live, lost, loaded>>
        /\ pc' = "blocked" /\ todo' = todo \ {i}
        /\ rec' = rec \/ \E r : Save(i, r)
    BY <1>6 DEF BlockedGet, Advance
  <2>2. Shrinks /\ TasksShrink /\ i \notin Running /\ NoneOf(i)'
    BY <1>3, <2>1 DEF Shrinks, TasksShrink, NoneOf
  <2>3. Accounting'
    <3>1. CASE rec' = rec
      BY <2>2, <3>1, FrameKeeps
    <3>2. ASSUME NEW r, Save(i, r) PROVE Accounting'
      BY <2>1, <2>2, <3>2, SaveKeeps
    <3> QED  BY <2>1, <3>1, <3>2
  <2>4. \A j \in Issues \ {i} : rec'[j] = rec[j]
    BY <1>1, <2>1 DEF TypeOK, Save
  <2> QED  BY <2>1, <2>3, <2>4, BlockedLoop
<1> QED  BY <1>2, <1>4, <1>5, <1>6 DEF BlockedStep

-----------------------------------------------------------------------------
(* _reconcile_waiting and the adoption of listed issues *)

WaitingStep ==
    \/ BlockedEnds \/ Adopts
    \/ \E i \in Issues : WaitingTurn(i)
    \/ \E i \in Issues, ok \in BOOLEAN : WaitingGet(i, ok)

\* What the waiting loop knows of the issue it visits.
LEMMA WaitingFacts ==
    ASSUME Inv, NEW i \in Issues, NextUp(i), pc \in {"waiting", "waitingGet"}
    PROVE  /\ SameAttempt(loaded[i], rec[i])
           /\ loaded[i].phase \in {"running", rec[i].phase}
           /\ pc = "waitingGet" => i \notin Running
  BY DEF Inv, WaitingCopies, TurnHasNoAttempt, NextUp

\* WaitingCopies for a step of the waiting loop.
LEMMA WaitingLoop ==
    ASSUME Inv, NEW i \in Issues, NextUp(i),
           pc \in {"waiting", "waitingGet"},
           task' = task, loaded' = loaded,
           \A j \in Issues \ {i} : rec'[j] = rec[j],
           \/ pc' = "waiting" /\ todo' = todo \ {i}
           \/ pc' = "waitingGet" /\ todo' = todo /\ rec' = rec /\ i \notin Running
    PROVE  Copies'
<1>1. TypeOK /\ Running' = Running
  BY DEF Inv, Running
<1>2. WaitingCopies'
  <2> SUFFICES ASSUME NEW j \in todo'
               PROVE  /\ SameAttempt(loaded[j], rec'[j])
                      /\ \/ loaded[j].phase = "running"
                         \/ j \notin Running /\ loaded[j].phase = rec'[j].phase
    BY <1>1 DEF WaitingCopies
  <2>1. j \in todo /\ rec'[j] = rec[j]
    BY <1>1 DEF TypeOK
  <2> QED  BY <2>1 DEF Inv, WaitingCopies
<1>3. TurnHasNoAttempt'
  <2> SUFFICES ASSUME pc' = "waitingGet", NEW j \in todo, NextUp(j)'
               PROVE  j \notin Running
    BY <1>1 DEF TurnHasNoAttempt
  <2>1. NextUp(j) /\ i \notin Running
    BY DEF NextUp
  <2> QED  BY <1>1, <2>1, OneNextUp
<1> QED  BY <1>2, <1>3 DEF Copies, AloneInRecovery, RecoveryCopies, BlockedCopies

LEMMA WaitingInv ==
    ASSUME Inv, WaitingStep
    PROVE  Accounting' /\ Copies'
<1>1. TypeOK
  BY DEF Inv
<1>2. CASE BlockedEnds
  <2>1. /\ rec' = rec /\ Shrinks /\ TasksShrink /\ Running' = Running
        /\ pc' = "waiting" /\ loaded' = rec
    BY <1>2 DEF BlockedEnds, taskVars, Shrinks, TasksShrink, Running
  <2>2. \A j \in todo' : rec[j].phase = "running" \/ j \notin Running
    BY DEF Inv, AttemptOwnsRecord
  <2>3. Copies'
    BY <2>1, <2>2 DEF Copies, AloneInRecovery, RecoveryCopies, BlockedCopies,
       WaitingCopies, TurnHasNoAttempt, SameAttempt
  <2> QED  BY <2>1, <2>3, FrameKeeps
<1>3. ASSUME NEW i \in Issues, WaitingTurn(i)
      PROVE  Accounting' /\ Copies'
  <2>1. /\ NextUp(i) /\ pc = "waiting" /\ UNCHANGED <<task, live, lost, loaded>>
        /\ \/ pc' = "waiting" /\ todo' = todo \ {i}
           \/ pc' = "waitingGet" /\ todo' = todo /\ rec' = rec /\ i \notin Running
        /\ rec' = rec \/ (i \notin Running /\ Save(i, loaded[i]))
    BY <1>3 DEF WaitingTurn, Advance
  <2>2. Shrinks /\ TasksShrink
    BY <2>1 DEF Shrinks, TasksShrink
  <2>3. SameAttempt(loaded[i], rec[i]) /\ loaded[i].phase \in {"running", rec[i].phase}
    BY <2>1, WaitingFacts
  <2>4. Accounting'
    BY <2>1, <2>2, <2>3, FrameKeeps, SaveKeeps
  <2>5. \A j \in Issues \ {i} : rec'[j] = rec[j]
    BY <1>1, <2>1 DEF TypeOK, Save
  <2> QED  BY <2>1, <2>4, <2>5, WaitingLoop
<1>4. ASSUME NEW i \in Issues, NEW ok \in BOOLEAN, WaitingGet(i, ok)
      PROVE  Accounting' /\ Copies'
  <2>1. /\ NextUp(i) /\ pc = "waitingGet" /\ UNCHANGED <<task, live, loaded>>
        /\ pc' = "waiting" /\ todo' = todo \ {i}
        /\ \/ rec' = rec /\ lost' = lost
           \/ /\ Save(i, Settled(loaded[i], "released"))
              /\ lost' = lost \cup {e \in live : e.issue = i}
    BY <1>4 DEF WaitingGet, Advance
  <2>2. i \notin Running
    BY <2>1, WaitingFacts
  <2>3. Shrinks /\ TasksShrink
    BY <2>1 DEF Shrinks, TasksShrink
  <2>4. lost' # lost => NoneOf(i)'
    BY <2>1 DEF NoneOf
  <2>5. Accounting'
    <3>1. CASE rec' = rec /\ lost' = lost
      BY <2>3, <3>1, FrameKeeps
    <3>2. CASE /\ Save(i, Settled(loaded[i], "released"))
               /\ lost' = lost \cup {e \in live : e.issue = i}
      <4>1. NoneOf(i)'
        BY <2>1, <3>2 DEF NoneOf
      <4> QED  BY <2>1, <2>2, <2>3, <3>2, <4>1, SaveKeeps
    <3> QED  BY <2>1, <3>1, <3>2
  <2>6. \A j \in Issues \ {i} : rec'[j] = rec[j]
    BY <1>1, <2>1 DEF TypeOK, Save
  <2> QED  BY <2>1, <2>5, <2>6, WaitingLoop
<1>5. CASE Adopts
  <2>1. /\ UNCHANGED <<task, live, lost>> /\ pc' \in QuietPlaces
        /\ rec' = [i \in Issues |->
                     IF Listed(i) /\ rec[i].phase \in {"absent", "released"}
                       THEN [rec[i] EXCEPT !.phase = "ready", !.later = FALSE]
                       ELSE rec[i]]
    BY <1>5 DEF Adopts, Adoptable, LeavesTick, QuietPlaces
  <2>2. ASSUME NEW i \in Issues
        PROVE  Executor(i)' = Executor(i)
    <3>1. rec[i] \in Records /\ rec'[i] \in
            {rec[i], [rec[i] EXCEPT !.phase = "ready", !.later = FALSE]}
      BY <1>1, <2>1 DEF TypeOK
    <3>2. rec'[i].attempt = rec[i].attempt /\ rec'[i].target = rec[i].target
      BY <3>1 DEF Records
    <3> QED  BY <3>2 DEF Executor, ExecutorOf
  <2>3. \A i \in Issues : rec[i].phase \notin {"absent", "released"} => rec'[i] = rec[i]
    BY <2>1
  <2>4. ExecutorAccounted'
    <3>1. \A e \in live \ lost : e.issue \in Issues
      BY <1>1 DEF TypeOK, Executors
    <3> QED  BY <2>1, <2>3, <3>1 DEF Inv, ExecutorAccounted
  <2>5. AttemptOwnsRecord'
    BY <2>1, <2>3 DEF Inv, AttemptOwnsRecord, Running
  <2>6. StoppedBeforeRefresh'
    BY <2>1, <2>2 DEF Inv, StoppedBeforeRefresh
  <2> QED  BY <2>1, <2>4, <2>5, <2>6, QuietCopies DEF Accounting
<1> QED  BY <1>2, <1>3, <1>4, <1>5 DEF WaitingStep

LEMMA ReconcileInv ==
    ASSUME Inv, ReconcileStep
    PROVE  Inv'
<1>1. TypeOK'
  BY ReconcileTypes DEF Inv
<1>2. ListingStep \/ BlockedStep \/ WaitingStep
  BY DEF ReconcileStep, ListingStep, BlockedStep, WaitingStep
<1> QED  BY <1>1, <1>2, ListingInv, BlockedInv, WaitingInv DEF Inv, Accounting, Copies

-----------------------------------------------------------------------------
(* The dispatch loop *)

LEMMA DispatchInv ==
    ASSUME Inv, DispatchStep
    PROVE  Inv'
<1>1. TypeOK /\ TypeOK'
  BY DispatchTypes DEF Inv
<1> SUFFICES Accounting' /\ Copies'
  BY <1>1 DEF Inv, Accounting, Copies
<1>2. ASSUME NEW i \in Issues, SkipsRunning(i)
      PROVE  Accounting' /\ Copies'
  <2>1. rec' = rec /\ Shrinks /\ TasksShrink /\ pc' = "dispatch"
    BY <1>2 DEF SkipsRunning, Advance, taskVars, Shrinks, TasksShrink
  <2> QED  BY <2>1, FrameKeeps, QuietCopies DEF QuietPlaces
<1>3. CASE TickEnds
  <2>1. rec' = rec /\ Shrinks /\ TasksShrink /\ pc' = "idle"
    BY <1>3 DEF TickEnds, LeavesTick, Shrinks, TasksShrink
  <2> QED  BY <2>1, FrameKeeps, QuietCopies DEF QuietPlaces
<1>4. ASSUME NEW i \in Issues, FindsStale(i)
      PROVE  Accounting' /\ Copies'
  <2>1. /\ rec' = rec /\ Shrinks /\ TasksShrink /\ Running' = Running
        /\ pc' = "dispatchReap" /\ todo' = todo /\ NextUp(i) /\ i \notin Running
    BY <1>4 DEF FindsStale, AtTurn, taskVars, Shrinks, TasksShrink, Running
  <2>2. TurnHasNoAttempt'
    <3> SUFFICES ASSUME NEW j \in todo, NextUp(j)' PROVE j \notin Running
      BY <2>1 DEF TurnHasNoAttempt
    <3>1. NextUp(j)
      BY <2>1 DEF NextUp
    <3> QED  BY <1>1, <2>1, <3>1, OneNextUp
  <2> QED  BY <2>1, <2>2, FrameKeeps DEF Copies, AloneInRecovery, RecoveryCopies,
           BlockedCopies, WaitingCopies
<1>5. ASSUME NEW i \in Issues, NEW ok \in BOOLEAN, DispatchReap(i, ok)
      PROVE  Accounting' /\ Copies'
  <2>1. /\ pc = "dispatchReap" /\ NextUp(i) /\ i \in todo /\ task' = task
        /\ pc' = "dispatch" /\ Reap(i, rec[i], ok)
        /\ \/ ok /\ Save(i, Settled(rec[i], "ready"))
           \/ ~ok /\ Save(i, Unconfirmed(rec[i]))
    BY <1>5 DEF DispatchReap, Advance, NextUp
  <2>2. i \notin Running /\ SameAttempt(rec[i], rec[i])
    BY <2>1 DEF Inv, TurnHasNoAttempt, SameAttempt
  <2>3. Shrinks
    BY <2>1, ReapFrame DEF Shrinks
  <2>4. ok => NoneOf(i)'
    BY <2>1, <2>2, NoneByReap
  <2>5. SameAttempt(Unconfirmed(rec[i]), rec[i]) /\ Unconfirmed(rec[i]).phase = "blocked"
    BY <1>1, RecordFrame DEF TypeOK
  <2>6. Accounting'
    BY <2>1, <2>2, <2>3, <2>4, <2>5, SaveKeeps
  <2> QED  BY <2>1, <2>6, QuietCopies DEF QuietPlaces
<1>6. ASSUME NEW i \in Issues, Misplaces(i)
      PROVE  Accounting' /\ Copies'
  <2>1. /\ i \notin Running /\ rec[i].phase # "running" /\ pc' = "dispatch"
        /\ task' = task /\ live' = live
        /\ lost' = IF rec[i].phase = "blocked"
                     THEN lost \cup {e \in live : e.issue = i} ELSE lost
        /\ \E r : Save(i, r)
    BY <1>6 DEF Misplaces, AtPlacement, Advance
  <2>2. Shrinks /\ NoneOf(i)'
    <3>1. CASE rec[i].phase = "blocked"
      BY <2>1, <3>1 DEF Shrinks, NoneOf
    <3>2. CASE rec[i].phase # "blocked"
      <4>1. NoneOf(i)
        BY <2>1, <3>2, NoneByPhase
      <4> QED  BY <2>1, <3>2, <4>1 DEF Shrinks, NoneOf
    <3> QED  BY <3>1, <3>2
  <2>3. Accounting'
    BY <2>1, <2>2, SaveKeeps
  <2> QED  BY <2>1, <2>3, QuietCopies DEF QuietPlaces
<1>7. ASSUME NEW i \in Issues, PassesOver(i)
      PROVE  Accounting' /\ Copies'
  <2>1. /\ i \notin Running /\ pc' = "dispatch" /\ UNCHANGED <<task, live, lost>>
        /\ Save(i, Unblocked(rec[i]))
    BY <1>7 DEF PassesOver, AtPlacement, Advance
  <2>2. Shrinks /\ (NoneOf(i) => NoneOf(i)')
    BY <2>1 DEF Shrinks, NoneOf
  <2>3. NoneOf(i) \/ Unblocked(rec[i]) = rec[i]
    BY NoneByPhase DEF Unblocked
  <2>4. Accounting'
    BY <2>1, <2>2, <2>3, SaveKeeps DEF SameAttempt
  <2> QED  BY <2>1, <2>4, QuietCopies DEF QuietPlaces
<1>8. ASSUME NEW i \in Issues, NEW id \in AttemptIds, Dispatches(i, id)
      PROVE  Accounting' /\ Copies'
  <2> DEFINE new == [issue |-> i, attempt |-> id, target |-> candidates[i]]
  <2>1. /\ i \notin Running /\ pc' = "dispatch"
        /\ rec[i].phase \notin {"running", "blocked"}
        /\ rec' = [rec EXCEPT ![i] = [phase |-> "running", target |-> candidates[i],
                     attempt |-> id, process |-> FALSE, later |-> FALSE]]
        /\ task' = [task EXCEPT ![i] = [NoTask EXCEPT !.pc = "prepare"]]
        /\ live' \subseteq live \cup {new} /\ lost' = lost
    BY <1>8 DEF Dispatches, Dispatchable, Unblocked, DispatchablePhases,
       AtPlacement, Advance, Save
  <2>2. /\ rec'[i].phase = "running" /\ rec'[i].attempt = id
        /\ rec'[i].target = candidates[i]
        /\ task'[i].pc = "prepare"
        /\ \A j \in Issues \ {i} : rec'[j] = rec[j] /\ task'[j] = task[j]
    BY <1>1, <2>1 DEF TypeOK, NoTask
  <2>3. NoneOf(i)
    BY <2>1, NoneByPhase
  <2>4. ExecutorAccounted'
    <3> SUFFICES ASSUME NEW e \in live' \ lost'
                 PROVE  /\ rec'[e.issue].attempt = e.attempt
                        /\ rec'[e.issue].target = e.target
                        /\ rec'[e.issue].phase \in {"running", "blocked"}
      BY DEF ExecutorAccounted
    <3>1. CASE e = new
      BY <2>2, <3>1
    <3>2. CASE e # new
      <4>1. e \in live \ lost /\ e.issue # i
        BY <2>1, <2>3, <3>2 DEF NoneOf
      <4>2. e.issue \in Issues \ {i}
        BY <1>1, <4>1 DEF TypeOK, Executors
      <4> QED  BY <2>2, <4>1, <4>2 DEF Inv, ExecutorAccounted
    <3> QED  BY <3>1, <3>2
  <2>5. AttemptOwnsRecord'
    BY <2>2 DEF Inv, AttemptOwnsRecord, Running
  <2>6. StoppedBeforeRefresh'
    <3> SUFFICES ASSUME NEW j \in Issues, task'[j].pc = "refresh"
                 PROVE  Executor(j)' \notin live'
      BY DEF StoppedBeforeRefresh
    <3>1. j # i /\ task[j].pc = "refresh"
      BY <2>2
    <3>2. Executor(j)' = Executor(j) /\ Executor(j) # new
      BY <2>2, <3>1 DEF Executor, ExecutorOf
    <3> QED  BY <2>1, <3>1, <3>2 DEF Inv, StoppedBeforeRefresh
  <2> QED  BY <2>1, <2>4, <2>5, <2>6, QuietCopies DEF Accounting, QuietPlaces
<1> QED  BY <1>2, <1>3, <1>4, <1>5, <1>6, <1>7, <1>8 DEF DispatchStep

-----------------------------------------------------------------------------
(* Shutdown and the environment *)

LEMMA ShutdownInv ==
    ASSUME Inv, ShutdownStep
    PROVE  Inv'
<1>1. TypeOK /\ TypeOK'
  BY ShutdownTypes DEF Inv
<1> SUFFICES Accounting' /\ Copies'
  BY <1>1 DEF Inv, Accounting, Copies
<1>2. CASE Sigterm
  <2>1. rec' = rec /\ Shrinks /\ TasksShrink /\ UNCHANGED tickVars
    BY <1>1, <1>2, SignalledKeeps DEF Sigterm, Shrinks
  <2> QED  BY <2>1, FrameKeeps, FrameCopies
<1>3. ASSUME NEW i \in Issues, ShutdownCancels(i)
      PROVE  Accounting' /\ Copies'
  <2>1. rec' = rec /\ {i} \in SUBSET Running /\ CancelTasks({i}) /\ UNCHANGED tickVars
    BY <1>3 DEF ShutdownCancels
  <2> QED  BY <2>1, CancelTasksKeeps, FrameKeeps, FrameCopies
<1>4. CASE DrainBegins \/ TickRaises
  <2>1. rec' = rec /\ Shrinks /\ pc' = "drain" /\ task' = Signalled(Running)
    BY <1>4 DEF DrainBegins, TickRaises, LeavesTick, Shrinks
  <2>2. TasksShrink
    BY <1>1, <2>1, SignalledKeeps
  <2> QED  BY <2>1, <2>2, FrameKeeps, QuietCopies DEF QuietPlaces
<1>5. CASE Drained
  <2>1. rec' = rec /\ Shrinks /\ TasksShrink /\ pc' = "down" /\ Running' = {}
    BY <1>5 DEF Drained, LeavesTick, Shrinks, TasksShrink, Running
  <2> QED  BY <2>1, FrameKeeps, QuietCopies
<1> QED  BY <1>2, <1>3, <1>4, <1>5 DEF ShutdownStep

LEMMA EnvironmentInv ==
    ASSUME Inv, EnvironmentStep
    PROVE  Inv'
<1>1. TypeOK /\ TypeOK'
  BY EnvironmentTypes DEF Inv
<1> SUFFICES Accounting' /\ Copies'
  BY <1>1 DEF Inv, Accounting, Copies
<1>2. CASE Crash
  <2>1. rec' = rec /\ Shrinks /\ TasksShrink /\ pc' = "down" /\ Running' = {}
    BY <1>2 DEF Crash, LeavesTick, Shrinks, TasksShrink, NoTask, Running
  <2> QED  BY <2>1, FrameKeeps, QuietCopies
<1>3. ASSUME NEW i \in Issues, Relabels(i)
      PROVE  Accounting' /\ Copies'
  <2>1. rec' = rec /\ Shrinks /\ TasksShrink /\ UNCHANGED tickVars
    BY <1>3 DEF Relabels, taskVars, Shrinks, TasksShrink
  <2> QED  BY <2>1, FrameKeeps, FrameCopies
<1>4. ASSUME NEW e \in Executors, ExecutorEnds(e)
      PROVE  Accounting' /\ Copies'
  <2>1. rec' = rec /\ Shrinks /\ TasksShrink /\ UNCHANGED tickVars
    BY <1>4 DEF ExecutorEnds, Shrinks, TasksShrink
  <2> QED  BY <2>1, FrameKeeps, FrameCopies
<1>5. ASSUME NEW i \in Issues, DelayEnds(i)
      PROVE  Accounting' /\ Copies'
  <2>1. /\ UNCHANGED <<task, live, lost, pc, todo>>
        /\ rec' = [rec EXCEPT ![i].later = FALSE]
        /\ loaded' = [loaded EXCEPT ![i].later = FALSE]
    BY <1>5 DEF DelayEnds
  <2>2. \A j \in Issues : /\ SameAttempt(rec'[j], rec[j])
                          /\ rec'[j].phase = rec[j].phase
    BY <1>1, <2>1 DEF TypeOK, Records, SameAttempt
  <2>3. \A j \in Issues : /\ SameAttempt(loaded'[j], loaded[j])
                          /\ loaded'[j].phase = loaded[j].phase
    BY <1>1, <2>1 DEF TypeOK, Records, SameAttempt
  <2>4. \A j \in Issues : loaded[j] = rec[j] => loaded'[j] = rec'[j]
    BY <1>1, <2>1 DEF TypeOK
  <2>5. /\ Running' = Running /\ todo \subseteq Issues
        /\ \A j : (NextUp(j)' <=> NextUp(j)) /\ (NoneOf(j)' <=> NoneOf(j))
    BY <1>1, <2>1 DEF Running, TypeOK, NextUp, NoneOf
  <2>6. Accounting'
    <3>1. ExecutorAccounted'
      <4>1. \A e \in live \ lost : e.issue \in Issues
        BY <1>1 DEF TypeOK, Executors
      <4> QED  BY <2>1, <2>2, <4>1 DEF Inv, ExecutorAccounted, SameAttempt
    <3>2. AttemptOwnsRecord'
      BY <2>2, <2>5 DEF Inv, AttemptOwnsRecord, Running
    <3>3. StoppedBeforeRefresh'
      BY <2>1, <2>2 DEF Inv, StoppedBeforeRefresh, Executor, ExecutorOf, SameAttempt
    <3> QED  BY <3>1, <3>2, <3>3 DEF Accounting
  <2>7. AloneInRecovery' /\ RecoveryCopies'
    BY <2>1, <2>2, <2>3, <2>4, <2>5 DEF Inv, AloneInRecovery, RecoveryCopies, SameAttempt
  <2>8. BlockedCopies'
    BY <2>1, <2>3, <2>4, <2>5 DEF Inv, BlockedCopies
  <2>9. WaitingCopies' /\ TurnHasNoAttempt'
    BY <2>1, <2>2, <2>3, <2>5 DEF Inv, WaitingCopies, TurnHasNoAttempt, SameAttempt
  <2> QED  BY <2>6, <2>7, <2>8, <2>9 DEF Copies
<1> QED  BY <1>2, <1>3, <1>4, <1>5 DEF EnvironmentStep

-----------------------------------------------------------------------------
(* The theorems *)

\* Inv holds at the start, and every step of every part keeps it.
THEOREM InvCorrect == Spec => []Inv
<1>1. Init => Inv
  <2> SUFFICES ASSUME Init PROVE Inv
    OBVIOUS
  <2>1. Running = {} /\ live = {} /\ pc = "down"
    BY DEF Init, Running, NoTask
  <2>2. \A i \in Issues : task[i].pc # "refresh"
    BY DEF Init, NoTask
  <2>3. TypeOK
    BY InitTypes
  <2> QED  BY <2>1, <2>2, <2>3 DEF Inv, ExecutorAccounted, AttemptOwnsRecord,
           StoppedBeforeRefresh, AloneInRecovery, RecoveryCopies, BlockedCopies,
           WaitingCopies, TurnHasNoAttempt
<1>2. Inv /\ [Next]_vars => Inv'
  <2> SUFFICES ASSUME Inv, [Next]_vars PROVE Inv'
    OBVIOUS
  <2>1. CASE UNCHANGED vars
    BY <2>1 DEF vars, taskVars, tickVars, Inv, TypeOK, ExecutorAccounted,
       AttemptOwnsRecord, StoppedBeforeRefresh, AloneInRecovery, RecoveryCopies,
       BlockedCopies, WaitingCopies, TurnHasNoAttempt, Executor, ExecutorOf,
       Running, NextUp, NoneOf
  <2>2. CASE Next
    BY <2>2, RecoverInv, ReconcileInv, DispatchInv, ShutdownInv, AttemptInv,
       EnvironmentInv DEF Next
  <2> QED  BY <2>1, <2>2
<1> QED  BY <1>1, <1>2, PTL DEF Spec

\* No executor runs, or may start, behind the back of the durable records: it is
\* the last attempt of a RUNNING or BLOCKED issue, or escaped at a named place.
THEOREM ExecutorsAccounted == Spec => []ExecutorAccounted
<1>1. Inv => ExecutorAccounted
  BY DEF Inv
<1> QED  BY <1>1, InvCorrect, PTL
=============================================================================
