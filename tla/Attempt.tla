------------------------------- MODULE Attempt -------------------------------
(***************************************************************************)
(* One attempt: the task running Orchestrator._execute, the backend.run it *)
(* awaits and the _finish_attempt that follows.  The task suspends at      *)
(*   prepare   workspace.ensure, then workspace.snapshot                   *)
(*   run       backend.run, waiting for the agent, the cancel event or the *)
(*             timeout (on a local target also for the fork itself)        *)
(*   stop      backend.run, ending the agent (terminate_tree, remote reap) *)
(*   unwind    backend.run, ending the agent because the task is cancelled *)
(*   refresh   _finish_attempt, reading the issue of a stopped attempt     *)
(*   blocking  _finish_attempt, reading the issue of an unsafe attempt     *)
(*   mend      the `except Exception` handler, reaping                     *)
(*   abort     the `except CancelledError` handler, reaping                *)
(* and each action is the code between two suspensions.                    *)
(***************************************************************************)
EXTENDS SchedulerState

\* The task of i goes to `place`; its record stays as it is.
GoTo(i, place) ==
    /\ task' = [task EXCEPT ![i].pc = place]
    /\ rec' = rec

\* backend.run returned with the executor stopped: _finish_attempt saves
\* process None and asks the tracker.
StoppedSafely(i, outcome) ==
    /\ task' = [task EXCEPT ![i].pc = "refresh", ![i].outcome = outcome]
    /\ rec' = [rec EXCEPT ![i].process = FALSE]

\* The task of i stores r and ends.
EndsWith(i, r) ==
    /\ task' = [task EXCEPT ![i] = NoTask]
    /\ rec' = [rec EXCEPT ![i] = r]

RetryLater(r) == [Settled(r, "retry_wait") EXCEPT !.later = TRUE]

\* A local run that forked and has not yet captured the identity.
AwaitsSpawn(i) ==
    task[i].pc = "run" /\ IsLocal(i) /\ ~rec[i].process /\ Executor(i) \in live

-----------------------------------------------------------------------------
(* The workspace is ready: launch, unless the cancel event is already set. *)
Prepared(i) ==
    /\ LoopFree /\ task[i].pc = "prepare"
    /\ \/ /\ ~task[i].cancel
          /\ GoTo(i, "run")
          /\ live' = live \cup {Executor(i)}
          /\ lost' = lost
       \/ /\ task[i].cancel
          /\ StoppedSafely(i, "cancelled")
          /\ live' = live \ {Executor(i)}
          /\ lost' = lost \ {Executor(i)}
    /\ UNCHANGED <<tracker, overruled, tickVars, stopping>>

\* process_started: the identity is captured and saved at once.
RecordsIdentity(i) ==
    /\ LoopFree /\ task[i].pc = "run" /\ ~rec[i].process
    /\ IsLocal(i) => Executor(i) \in live
    /\ rec' = [rec EXCEPT ![i].process = TRUE]
    /\ UNCHANGED <<tracker, task, live, lost, overruled, tickVars, stopping>>

\* The agent ended (or could not be launched) and its result arrived.
RunReturns(i) ==
    /\ LoopFree /\ task[i].pc = "run" /\ Executor(i) \notin live
    /\ \E outcome \in {"clean_exit", "failed"} : StoppedSafely(i, outcome)
    /\ UNCHANGED <<tracker, live, lost, overruled, tickVars, stopping>>

\* The cancel event, the timeout or a transport error makes backend.run end
\* the agent.
RunInterrupted(i) ==
    /\ LoopFree /\ task[i].pc = "run" /\ ~AwaitsSpawn(i)
    /\ \E outcome \in {"cancelled", "failed"} :
         /\ outcome = "cancelled" => task[i].cancel
         /\ task' = [task EXCEPT ![i].pc = "stop", ![i].outcome = outcome]
    /\ UNCHANGED <<tracker, rec, live, lost, overruled, tickVars, stopping>>

\* Mutant of AfterStop: executor_safe is not looked at.
AfterStopUnchecked(i, safe) == StoppedSafely(i, task[i].outcome)

\* _finish_attempt begins: safe or not, the two ways to go on.
AfterStop(i, safe) ==
    \/ safe /\ StoppedSafely(i, task[i].outcome)
    \/ ~safe /\ GoTo(i, "blocking")

\* A local run waits until the process is gone; a remote one trusts the reap
\* and reports executor_safe accordingly.
RunStops(i, safe) ==
    /\ LoopFree /\ task[i].pc = "stop"
    /\ \/ /\ IsLocal(i) /\ safe
          /\ live' = live \ {Executor(i)}
          /\ lost' = lost \ {Executor(i)}
       \/ ~IsLocal(i) /\ Reap(i, rec[i], safe)
    /\ AfterStop(i, safe)
    /\ UNCHANGED <<tracker, overruled, tickVars, stopping>>

\* The CancelledError branch of backend.run ends the agent and raises on; what
\* a remote reap answers is ignored.
Unwinds(i, safe) ==
    /\ LoopFree /\ task[i].pc = "unwind"
    /\ \/ /\ IsLocal(i) /\ safe
          /\ live' = live \ {Executor(i)}
          /\ lost' = lost \ {Executor(i)}
       \/ ~IsLocal(i) /\ Reap(i, rec[i], safe)
    /\ GoTo(i, "abort")
    /\ UNCHANGED <<tracker, overruled, tickVars, stopping>>

\* The tracker answers and _finish_attempt stores the next phase.
Refreshed(i, answered) ==
    /\ LoopFree /\ task[i].pc = "refresh"
    /\ \/ /\ ~answered /\ "tracker" \in Faults
          /\ EndsWith(i, RetryLater(rec[i]))
          /\ overruled' = overruled
       \/ /\ answered /\ tracker[i] = Inactive
          /\ EndsWith(i, Settled(rec[i], "released"))
          /\ overruled' = overruled \cup {i}
       \/ /\ answered /\ tracker[i] # Inactive
          /\ \/ /\ task[i].outcome = "clean_exit"
                /\ EndsWith(i, [Settled(rec[i], "continuation_wait")
                                  EXCEPT !.later = TRUE])
             \/ /\ task[i].outcome = "cancelled"
                /\ EndsWith(i, Settled(rec[i], "ready"))
             \/ /\ task[i].outcome = "failed"
                /\ EndsWith(i, RetryLater(rec[i]))
          /\ overruled' = overruled
    /\ UNCHANGED <<tracker, live, lost, tickVars, stopping>>

\* executor_safe is false: BLOCKED, whatever the tracker answered.
Blocks(i) ==
    /\ LoopFree /\ task[i].pc = "blocking"
    /\ EndsWith(i, Unconfirmed(rec[i]))
    /\ UNCHANGED <<tracker, live, lost, overruled, tickVars, stopping>>

\* An exception reaches _execute: a failed preparation, or something no
\* caller expects (a malformed answer, a broken pipe, a full disk).
Raises(i) ==
    /\ LoopFree
    /\ \/ task[i].pc = "prepare"
       \/ /\ "raise" \in Faults
          /\ task[i].pc \in {"run", "stop", "refresh", "blocking"}
          /\ IsLocal(i) /\ task[i].pc \in {"run", "stop"} => Executor(i) \notin live
    /\ GoTo(i, "mend")
    /\ UNCHANGED <<tracker, live, lost, overruled, tickVars, stopping>>

\* `except Exception`, after its reap.
Mends(i, safe) ==
    /\ LoopFree /\ task[i].pc = "mend"
    /\ Reap(i, rec[i], safe)
    /\ EndsWith(i, IF safe THEN RetryLater(rec[i]) ELSE Unconfirmed(rec[i]))
    /\ UNCHANGED <<tracker, overruled, tickVars, stopping>>

\* `except CancelledError`, after its reap: next_run_at is now.
Aborts(i, safe) ==
    /\ LoopFree /\ task[i].pc = "abort"
    /\ Reap(i, rec[i], safe)
    /\ EndsWith(i, IF safe THEN Settled(rec[i], "ready") ELSE Unconfirmed(rec[i]))
    /\ UNCHANGED <<tracker, overruled, tickVars, stopping>>

\* A handler's own reap raises: the task ends and nothing is saved.
HandlerRaises(i) ==
    /\ LoopFree /\ "raise" \in Faults
    /\ task[i].pc \in {"mend", "abort"}
    /\ EndsWith(i, rec[i])
    /\ UNCHANGED <<tracker, live, lost, overruled, tickVars, stopping>>

-----------------------------------------------------------------------------
(* task.cancel() *)

\* Where CancelledError takes the attempt of i.  One more in a handler ends the
\* task with nothing saved; a remote run that is settling its request swallows
\* it (_settle_request) and stays in "stop".
Landings(i) ==
    CASE task[i].pc \in {"mend", "abort"} -> {"none"}
      [] task[i].pc = "run" -> IF AwaitsSpawn(i) THEN {"abort"} ELSE {"unwind"}
      [] task[i].pc = "stop" -> IF IsLocal(i) THEN {"unwind"}
                                ELSE {"unwind", "abort", "stop"}
      [] OTHER -> {"abort"}

\* task.cancel() for the attempts of S.  A fork under way is undone.
CancelTasks(S) ==
    LET unspawned == {Executor(i) : i \in {j \in S : AwaitsSpawn(j)}} IN
    /\ \E landing \in [S -> {"none", "abort", "unwind", "stop"}] :
         /\ \A i \in S : landing[i] \in Landings(i)
         /\ task' = [i \in Issues |->
              IF i \notin S THEN task[i]
              ELSE IF landing[i] = "none" THEN NoTask
              ELSE [task[i] EXCEPT !.pc = landing[i]]]
    /\ live' = live \ unspawned
    /\ lost' = lost \ unspawned

-----------------------------------------------------------------------------
AttemptStep(i) ==
    \/ Prepared(i) \/ RecordsIdentity(i) \/ RunReturns(i) \/ RunInterrupted(i)
    \/ \E ok \in BOOLEAN : \/ RunStops(i, ok) \/ Unwinds(i, ok)
                           \/ Refreshed(i, ok)
                           \/ Mends(i, ok) \/ Aborts(i, ok)
    \/ Blocks(i) \/ Raises(i) \/ HandlerRaises(i)
=============================================================================
