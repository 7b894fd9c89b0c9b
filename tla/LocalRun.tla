------------------------------ MODULE LocalRun ------------------------------
(***************************************************************************)
(* One CommandAgentBackend.run from the fork of the agent to its result:   *)
(* the agent (root) and a process it starts (child), the event loop's      *)
(* knowledge of them, the threads of ProcessGuard.terminate_tree that run, *)
(* its CancelledError handler and, after an exception, _execute ask for,   *)
(* and run itself, which suspends at                                       *)
(*   launch     create_subprocess_exec                                     *)
(*   wait       asyncio.wait on the exit, the cancel event and the timeout *)
(*   terminate  terminate_tree, in a thread                                *)
(*   reap       process.wait()                                             *)
(*   drain      gather of the two readers                                  *)
(*   unwind, unwindReap   the same calls in the CancelledError handler     *)
(*                                                                         *)
(* Simplifications.                                                        *)
(*  - stdout and stderr are one pipe.  What is read is left out, except    *)
(*    that a reader may fail (a line over 1 MiB, an event that cannot be   *)
(*    written): nobody reads then, and asyncio pauses the transport.       *)
(*  - process.wait() is asyncio's: it returns at once when the exit is     *)
(*    known, and otherwise once the exit is known and the pipe is closed.  *)
(*  - A signalled child is gone when terminate_tree returns; the agent may *)
(*    take longer.                                                         *)
(*  - Cancelling create_subprocess_exec is left to module Attempt.         *)
(*  - The identity cannot be captured only of a process that is gone.      *)
(***************************************************************************)
EXTENDS Naturals

CONSTANT Faults   \* the faults the environment may inject

ASSUME FaultsAssumption ==
    Faults \subseteq {"cancel", "callback", "overrun", "linger"}

VARIABLES
    root,      \* the agent
    child,     \* a process it may start; "detached" is no longer in its tree
    holds,     \* the child inherited the pipe
    known,     \* the event loop has the agent's exit code
    reader,    \* the reader of the pipe
    paused,    \* the transport of the pipe is paused
    closed,    \* the event loop has seen the end of the pipe
    identity,  \* the identity was captured
    event,     \* cancel_event
    early,     \* the exit was known when wait_task started
    outcome,   \* outcome of the attempt
    guard,     \* terminate_tree asked for by run, its handler and _execute's
    aims,      \* the processes each call found
    pc         \* where run is suspended

processVars == <<root, child, holds>>
loopVars == <<known, reader, paused, closed>>
runVars == <<identity, event, early, outcome, pc>>
guardVars == <<guard, aims>>
vars == <<processVars, loopVars, runVars, guardVars>>

Callers == {"run", "handler", "execute"}
Over == {"returned", "raised"}

Init ==
    /\ root = "alive" /\ child = "none" /\ holds = FALSE
    /\ known = FALSE /\ reader = "reads" /\ paused = FALSE /\ closed = FALSE
    /\ identity = FALSE /\ event = FALSE /\ early = FALSE
    /\ outcome = "none" /\ pc = "launch"
    /\ guard = [c \in Callers |-> "idle"]
    /\ aims = [c \in Callers |-> {}]

ChildAlive == child \in {"attached", "detached"}

PipeHeld == root # "dead" \/ (ChildAlive /\ holds)

-----------------------------------------------------------------------------
(* The processes and the event loop *)

StartsChild ==
    /\ root = "alive" /\ child = "none"
    /\ child' = "attached" /\ holds' \in BOOLEAN
    /\ UNCHANGED <<root, loopVars, runVars, guardVars>>

\* A daemon: its parent is no longer a descendant of the agent.
Detaches ==
    /\ child = "attached"
    /\ child' = "detached"
    /\ UNCHANGED <<root, holds, loopVars, runVars, guardVars>>

ChildEnds ==
    /\ ChildAlive
    /\ child' = "dead"
    /\ UNCHANGED <<root, holds, loopVars, runVars, guardVars>>

\* The agent exits, or has received SIGKILL.
AgentEnds ==
    /\ root # "dead"
    /\ root' = "dead"
    /\ child' = IF child = "attached" THEN "detached" ELSE child
    /\ UNCHANGED <<holds, loopVars, runVars, guardVars>>

LearnsExit ==
    /\ root = "dead" /\ ~known
    /\ known' = TRUE
    /\ UNCHANGED <<processVars, reader, paused, closed, runVars, guardVars>>

ReaderFails ==
    /\ "overrun" \in Faults
    /\ reader = "reads" /\ ~closed
    /\ reader' = "failed"
    /\ UNCHANGED <<processVars, known, paused, closed, runVars, guardVars>>

\* More than twice the limit lies unread.
Pauses ==
    /\ reader = "failed" /\ PipeHeld
    /\ paused' = TRUE
    /\ UNCHANGED <<processVars, known, reader, closed, runVars, guardVars>>

\* The end of the pipe: every writer is gone and the transport is read.
Closes ==
    /\ ~PipeHeld /\ ~paused /\ ~closed
    /\ closed' = TRUE
    /\ reader' = IF reader = "reads" THEN "ended" ELSE reader
    /\ UNCHANGED <<processVars, known, paused, runVars, guardVars>>

-----------------------------------------------------------------------------
(* ProcessGuard.terminate_tree, in a thread that nothing cancels *)

\* ProcessGuard.matches; an exited process matches until it is waited for.
Matches(matched) ==
    /\ root # "dead" => matched
    /\ known => ~matched

\* The agent and its descendants of the moment.
Tree == {"root"} \cup (IF child = "attached" THEN {"child"} ELSE {})

Aims(c) ==
    /\ guard[c] = "asked"
    /\ \/ /\ Matches(TRUE)
          /\ guard' = [guard EXCEPT ![c] = "aimed"]
          /\ aims' = [aims EXCEPT ![c] = Tree]
       \/ /\ Matches(FALSE)
          /\ guard' = [guard EXCEPT ![c] = "done"]
          /\ aims' = aims
    /\ UNCHANGED <<processVars, loopVars, runVars>>

\* Mutant of Signals: only the agent is signalled.
SignalsAgentOnly(c) ==
    /\ guard[c] = "aimed"
    /\ root' = IF root = "alive" THEN "killed" ELSE root
    /\ guard' = [guard EXCEPT ![c] = "done"]
    /\ UNCHANGED <<child, holds, loopVars, runVars, aims>>

\* terminate, and kill after the grace period.  That the agent is gone when
\* wait_procs gives up is not certain.
Signals(c) ==
    /\ guard[c] = "aimed"
    /\ root' = IF root = "alive" THEN "killed" ELSE root
    /\ child' = IF "child" \in aims[c] /\ ChildAlive THEN "dead" ELSE child
    /\ guard' = [guard EXCEPT ![c] = "done"]
    /\ UNCHANGED <<holds, loopVars, runVars, aims>>

-----------------------------------------------------------------------------
(* CommandAgentBackend.run *)

\* cancel_event.set() by the scheduler.
Signalled ==
    /\ ~event /\ pc \notin Over
    /\ event' = TRUE
    /\ UNCHANGED <<processVars, loopVars, identity, early, outcome, pc, guardVars>>

\* The agent was forked; the identity is captured and reported, the readers
\* and wait_task start.  When process_started raises, _execute has the identity
\* and reaps.
Launches ==
    /\ pc = "launch"
    /\ identity' \in BOOLEAN
    /\ ~identity' => root = "dead"
    /\ early' = known
    /\ \/ pc' = "wait" /\ guard' = guard
       \/ /\ identity' /\ "callback" \in Faults
          /\ pc' = "raised"
          /\ guard' = [guard EXCEPT !["execute"] = "asked"]
    /\ UNCHANGED <<processVars, loopVars, event, outcome, aims>>

WaitTaskDone == early \/ (known /\ closed)

\* Mutant of Ends: the agent is left to end by itself.
EndsByItself(result) ==
    /\ outcome' = result
    /\ guard' = guard
    /\ pc' = IF known THEN "drain" ELSE "reap"

\* The agent is made to end; without identity it is gone already.
Ends(result) ==
    /\ outcome' = result
    /\ guard' = IF identity THEN [guard EXCEPT !["run"] = "asked"] ELSE guard
    /\ pc' = IF identity THEN "terminate" ELSE IF known THEN "drain" ELSE "reap"

SeesCancel ==
    /\ pc = "wait" /\ event
    /\ Ends("cancelled")
    /\ UNCHANGED <<processVars, loopVars, identity, event, early, aims>>

SeesExit ==
    /\ pc = "wait" /\ WaitTaskDone
    /\ outcome' = "exited" /\ pc' = "drain"
    /\ UNCHANGED <<processVars, loopVars, identity, event, early, guardVars>>

TimesOut ==
    /\ pc = "wait"
    /\ Ends("timed_out")
    /\ UNCHANGED <<processVars, loopVars, identity, event, early, aims>>

\* Mutant of AfterTerminate: process.wait() is left out.
AfterTerminateAtOnce == "drain"

\* process.wait() returns at once when the exit is known.
AfterTerminate == IF known THEN "drain" ELSE "reap"

TerminateReturns ==
    /\ pc = "terminate" /\ guard["run"] = "done"
    /\ pc' = AfterTerminate
    /\ UNCHANGED <<processVars, loopVars, identity, event, early, outcome, guardVars>>

Reaps ==
    /\ pc = "reap" /\ known /\ closed
    /\ pc' = "drain"
    /\ UNCHANGED <<processVars, loopVars, identity, event, early, outcome, guardVars>>

\* Both readers are done, or failed (return_exceptions).
Drains ==
    /\ pc = "drain" /\ reader # "reads"
    /\ pc' = "returned"
    /\ UNCHANGED <<processVars, loopVars, identity, event, early, outcome, guardVars>>

\* Mutant of Unwinds: the handler trusts the terminate_tree under way.
UnwindsAtOnce ==
    /\ pc' = "raised"
    /\ UNCHANGED <<root, guard>>

\* The CancelledError handler: terminate_tree if the identity still matches,
\* else kill if the exit is not known.
Unwinds ==
    \/ /\ identity /\ Matches(TRUE)
       /\ pc' = "unwind"
       /\ guard' = [guard EXCEPT !["handler"] = "asked"]
       /\ root' = root
    \/ /\ identity => Matches(FALSE)
       /\ pc' = IF known THEN "raised" ELSE "unwindReap"
       /\ root' = IF root = "alive" THEN "killed" ELSE root
       /\ guard' = guard

\* task.cancel(); in the handler it ends the wait for what was asked.
Cancelled ==
    /\ "cancel" \in Faults
    /\ \/ pc \in {"wait", "terminate", "reap", "drain"} /\ Unwinds
       \/ pc \in {"unwind", "unwindReap"} /\ pc' = "raised" /\ UNCHANGED <<root, guard>>
    /\ UNCHANGED <<child, holds, loopVars, identity, event, early, outcome, aims>>

HandlerEnds ==
    /\ \/ pc = "unwind" /\ guard["handler"] = "done"
       \/ pc = "unwindReap" /\ known /\ closed
    /\ pc' = "raised"
    /\ UNCHANGED <<processVars, loopVars, identity, event, early, outcome, guardVars>>

-----------------------------------------------------------------------------
GuardNext == \E c \in Callers : Aims(c) \/ Signals(c)

RunNext == \/ Launches \/ SeesCancel \/ SeesExit \/ TimesOut \/ TerminateReturns
           \/ Reaps \/ Drains \/ HandlerEnds

LoopNext == LearnsExit \/ Closes

Next ==
    \/ StartsChild \/ Detaches \/ ChildEnds \/ AgentEnds
    \/ LoopNext \/ ReaderFails \/ Pauses
    \/ GuardNext \/ Signalled \/ RunNext \/ Cancelled

Spec == Init /\ [][Next]_vars

\* The event loop, the threads and run go on, the timeout runs out, a killed
\* process dies.  Children end unless they linger.
FairSpec ==
    /\ Spec
    /\ WF_vars(LoopNext) /\ WF_vars(RunNext)
    /\ \A c \in Callers : WF_vars(Aims(c) \/ Signals(c))
    /\ WF_vars(root = "killed" /\ AgentEnds)
    /\ "linger" \notin Faults => WF_vars(ChildEnds)

-----------------------------------------------------------------------------
(* Properties *)

RunTypeOK ==
    /\ root \in {"alive", "killed", "dead"}
    /\ child \in {"none", "attached", "detached", "dead"}
    /\ reader \in {"reads", "failed", "ended"}
    /\ {holds, known, paused, closed, identity, event, early} \subseteq BOOLEAN
    /\ outcome \in {"none", "exited", "cancelled", "timed_out"}
    /\ guard \in [Callers -> {"idle", "asked", "aimed", "done"}]
    /\ aims \in [Callers -> SUBSET {"root", "child"}]
    /\ pc \in {"launch", "wait", "terminate", "reap", "drain", "unwind",
               "unwindReap"} \cup Over

\* The inductive invariant: what the event loop knows is true of the processes,
\* and from `drain` on the exit is known.
RunInv ==
    /\ RunTypeOK
    /\ known => root = "dead"
    /\ early => known
    /\ closed => ~PipeHeld
    /\ child = "attached" => root # "dead"
    /\ pc \in {"drain", "returned"} => known
    /\ \A c \in Callers :
         /\ "child" \in aims[c] => child # "none"
         /\ guard[c] \in {"idle", "asked"} => aims[c] = {}
         /\ guard[c] = "done" /\ "child" \in aims[c] => child = "dead"
    /\ guard["run"] # "idle" => outcome \in {"cancelled", "timed_out"}
    /\ pc \in {"launch", "wait"} => guard["run"] = "idle"
    /\ pc = "terminate" => guard["run"] # "idle"
    /\ pc \notin {"unwind", "raised"} => guard["handler"] = "idle"
    /\ pc # "raised" => guard["execute"] = "idle"
    /\ pc \in {"reap", "drain", "returned"} => guard["run"] \in {"idle", "done"}

\* When run returns a result, whose executor_safe the scheduler trusts, the
\* agent has exited, and so have all the processes terminate_tree found below
\* it, whatever they were doing when the event, the timeout or the exit came.
ResultMeansStopped ==
    pc = "returned" => root = "dead" /\ ("child" \in aims["run"] => child = "dead")

\* Once the scheduler asks for cancellation run comes to an end, whichever of
\* its awaits it is in, provided that processes holding the pipe end some day and
\* that no failed reader has left the pipe unread.
CancelEnds == event ~> (pc \in Over \/ paused)

\* A run that ended, even by a CancelledError that interrupted terminate_tree
\* or the handler itself or by a callback that raised, leaves no agent behind.
NoAgentLeft == pc \in Over ~> root = "dead"

\* Claimed by README.md ("Agent process exits `0`; issue is still active |
\* Clean continuation after a short fixed delay"), but a process that holds
\* the pipe keeps run in its gather, past the timeout.
ExitEndsRun == root = "dead" ~> pc \in Over
=============================================================================
