------------------------------ MODULE Workspace ------------------------------
(***************************************************************************)
(* WorkspaceManager.ensure on one execution target: the control clone, the *)
(* worktree of each issue, the asyncio lock of the manager and the git     *)
(* commands that change something, as processes that run on their own and  *)
(* outlive a cancelled or killed caller (only _git's timeout kills them).  *)
(* ensure is suspended at                                                  *)
(*   lock      the manager's lock                                          *)
(*   clone     git clone                                                   *)
(*   validate  git remote set-url, and git rev-parse if the path exists    *)
(*   fetch     git fetch and git worktree prune                            *)
(*   add       git worktree add                                            *)
(*   killing   process.wait() after a timeout                              *)
(* and the attempt has the worktree from `ready` until it asks again.  On  *)
(* a local target one manager serves all issues; on an SSH target every    *)
(* attempt's helper has its own, and is not cancelled but killed.          *)
(*                                                                         *)
(* What git does is external (git 2.39).  `git clone` makes .git, then     *)
(* fills it.  `git worktree add` refuses a path that exists; it makes the  *)
(* directory, then its metadata, then has a child process write the files  *)
(* with `git reset --hard`; with the metadata, rev-parse answers "true".   *)
(* Both remove what they made when they fail, not when they are killed; a  *)
(* clone without its refs lets set-url and fetch pass and has no           *)
(* origin/<default_branch>.                                                *)
(***************************************************************************)
EXTENDS Naturals, FiniteSets

CONSTANTS Issues, NoIssue,
          Faults    \* the faults the environment may inject

ASSUME WorkspaceAssumption ==
    /\ NoIssue \notin Issues
    /\ Faults \subseteq {"fail", "timeout", "cancel", "kill"}

VARIABLES
    control,   \* the control clone
    tree,      \* the worktree of each issue
    jobs,      \* the git commands that run
    pc,        \* where the ensure of each issue is
    holder,    \* the issue whose ensure holds the shared lock
    cut,       \* issues for which a `worktree add` was left behind or killed
    shared,    \* one manager serves all issues
    calm       \* the environment injects no more faults

vars == <<control, tree, jobs, pc, holder, cut, shared, calm>>

Jobs == [op    : {"clone", "add"},
         issue : Issues,
         owned : BOOLEAN,                        \* an ensure waits for it
         stage : {"starts", "made", "works",     \* how far it has come
                  "headless"}]                   \* only the child is left

Job(op, i) == [op |-> op, issue |-> i, owned |-> TRUE, stage |-> "starts"]

Init ==
    /\ control = "absent" /\ tree = [i \in Issues |-> "absent"]
    /\ jobs = {} /\ pc = [i \in Issues |-> "idle"]
    /\ holder = NoIssue /\ cut = {} /\ shared \in BOOLEAN
    /\ calm = FALSE

Injects(fault) == ~calm /\ fault \in Faults

Calms == ~calm /\ calm' = TRUE /\ UNCHANGED <<control, tree, jobs, pc, holder, cut, shared>>

-----------------------------------------------------------------------------
(* WorkspaceManager.ensure *)

\* Mutant of LeavesFor: the lock is kept.
LeavesForWithLock(i, place) ==
    /\ pc' = [pc EXCEPT ![i] = place]
    /\ holder' = holder

\* The ensure of i leaves for `place`, outside the lock.
LeavesFor(i, place) ==
    /\ pc' = [pc EXCEPT ![i] = place]
    /\ holder' = IF holder = i THEN NoIssue ELSE holder

\* An attempt asks for the workspace of its issue.
Asks(i) ==
    /\ pc[i] \in {"idle", "ready"}
    /\ pc' = [pc EXCEPT ![i] = "lock"]
    /\ UNCHANGED <<control, tree, jobs, holder, cut, shared, calm>>

\* Under the lock: clone, if there is no .git.
Acquires(i) ==
    /\ pc[i] = "lock" /\ (shared => holder = NoIssue)
    /\ holder' = IF shared THEN i ELSE holder
    /\ IF control = "absent"
       THEN /\ pc' = [pc EXCEPT ![i] = "clone"]
            /\ jobs' = jobs \cup {Job("clone", i)}
       ELSE /\ pc' = [pc EXCEPT ![i] = "validate"]
            /\ jobs' = jobs
    /\ UNCHANGED <<control, tree, cut, shared, calm>>

\* The path exists: it is returned, or refused if it is no worktree.
FindsPath(i) ==
    /\ pc[i] = "validate" /\ tree[i] # "absent"
    /\ LeavesFor(i, IF tree[i] = "bare" THEN "idle" ELSE "ready")
    /\ UNCHANGED <<control, tree, jobs, cut, shared, calm>>

\* Mutant of FindsNoPath: the path is not looked at before adding.
FindsNoPathEver(i) ==
    /\ pc[i] = "validate"
    /\ pc' = [pc EXCEPT ![i] = "fetch"]
    /\ UNCHANGED <<control, tree, jobs, holder, cut, shared, calm>>

FindsNoPath(i) ==
    /\ pc[i] = "validate" /\ tree[i] = "absent"
    /\ pc' = [pc EXCEPT ![i] = "fetch"]
    /\ UNCHANGED <<control, tree, jobs, holder, cut, shared, calm>>

\* fetch and prune are done.
Adds(i) ==
    /\ pc[i] = "fetch"
    /\ pc' = [pc EXCEPT ![i] = "add"]
    /\ jobs' = jobs \cup {Job("add", i)}
    /\ UNCHANGED <<control, tree, holder, cut, shared, calm>>

FetchFails(i) ==
    /\ Injects("fail") /\ pc[i] \in {"validate", "fetch"}
    /\ LeavesFor(i, "idle")
    /\ UNCHANGED <<control, tree, jobs, cut, shared, calm>>

\* Of a killed `worktree add` that had come to writing files the child goes on.
Beheaded(j) ==
    (jobs \ {j}) \cup
        (IF j.op = "add" /\ j.stage = "works" THEN {[j EXCEPT !.stage = "headless"]}
         ELSE {})

\* Mutant of TimesOut: process.wait() is left out.
TimesOutAtOnce(j) ==
    /\ Injects("timeout")
    /\ j.owned /\ pc[j.issue] \in {"clone", "add"}
    /\ jobs' = {[k EXCEPT !.owned = k.owned /\ k.issue # j.issue] : k \in Beheaded(j)}
    /\ LeavesFor(j.issue, "idle")
    /\ UNCHANGED <<control, tree, cut, shared, calm>>

\* kill, then process.wait(), which lasts as long as a child has the pipes.
TimesOut(j) ==
    /\ Injects("timeout")
    /\ j.owned /\ pc[j.issue] \in {"clone", "add"}
    /\ jobs' = Beheaded(j)
    /\ IF jobs' = jobs \ {j} THEN LeavesFor(j.issue, "idle")
       ELSE pc' = [pc EXCEPT ![j.issue] = "killing"] /\ holder' = holder
    /\ UNCHANGED <<control, tree, cut, shared, calm>>

\* The git commands of the issues in S go on without anybody waiting.
LeftBehind(S) ==
    {[j EXCEPT !.owned = j.owned /\ j.issue \notin S] : j \in jobs}

Interrupted(S) == {i \in S : \E j \in jobs : j.op = "add" /\ j.issue = i}

\* CancelledError: the lock is released, a git command is left behind.
Cancelled(i) ==
    /\ Injects("cancel") /\ shared
    /\ pc[i] \notin {"idle", "ready"}
    /\ LeavesFor(i, "idle")
    /\ jobs' = LeftBehind({i})
    /\ cut' = cut \cup Interrupted({i})
    /\ UNCHANGED <<control, tree, shared, calm>>

\* The process whose manager serves the issues of S is killed, with or without
\* its children.
Killed(S, children) ==
    /\ Injects("kill")
    /\ shared => S = Issues
    /\ pc' = [i \in Issues |-> IF i \in S THEN "idle" ELSE pc[i]]
    /\ holder' = IF holder \in S THEN NoIssue ELSE holder
    /\ jobs' = IF children THEN {j \in jobs : j.issue \notin S} ELSE LeftBehind(S)
    /\ cut' = cut \cup Interrupted(S)
    /\ UNCHANGED <<control, tree, shared, calm>>

-----------------------------------------------------------------------------
(* The git commands *)

Advances(j, stage) == jobs' = (jobs \ {j}) \cup {[j EXCEPT !.stage = stage]}

\* The command is over; the ensure that waits for it goes on at `place`.
Ends(j, place) ==
    /\ jobs' = jobs \ {j}
    /\ IF ~j.owned THEN UNCHANGED <<pc, holder>>
       ELSE IF place = "validate"
       THEN pc' = [pc EXCEPT ![j.issue] = "validate"] /\ holder' = holder
       ELSE LeavesFor(j.issue, IF pc[j.issue] = "killing" THEN "idle" ELSE place)

CloneStarts(j) ==
    /\ j.op = "clone" /\ j.stage = "starts" /\ control = "absent"
    /\ control' = "partial" /\ Advances(j, "works")
    /\ UNCHANGED <<tree, pc, holder, cut, shared, calm>>

CloneEnds(j) ==
    /\ j.op = "clone" /\ j.stage = "works"
    /\ control' = "cloned" /\ Ends(j, "validate")
    /\ UNCHANGED <<tree, cut, shared, calm>>

AddStarts(j) ==
    /\ j.op = "add" /\ j.stage = "starts"
    /\ control = "cloned" /\ tree[j.issue] = "absent"
    /\ tree' = [tree EXCEPT ![j.issue] = "bare"] /\ Advances(j, "made")
    /\ UNCHANGED <<control, pc, holder, cut, shared, calm>>

AddRegisters(j) ==
    /\ j.op = "add" /\ j.stage = "made"
    /\ tree' = [tree EXCEPT ![j.issue] = "partial"] /\ Advances(j, "works")
    /\ UNCHANGED <<control, pc, holder, cut, shared, calm>>

AddEnds(j) ==
    /\ j.op = "add" /\ j.stage \in {"works", "headless"}
    /\ tree' = [tree EXCEPT ![j.issue] = "complete"] /\ Ends(j, "ready")
    /\ UNCHANGED <<control, cut, shared, calm>>

\* The target exists already, or origin/<default_branch> does not.
Refuses(j) ==
    /\ j.stage = "starts"
    /\ \/ j.op = "clone" /\ control # "absent"
       \/ j.op = "add" /\ (control # "cloned" \/ tree[j.issue] # "absent")
    /\ Ends(j, "idle")
    /\ UNCHANGED <<control, tree, cut, shared, calm>>

\* An error of the network or the disk: git removes what it made.
Fails(j) ==
    /\ Injects("fail") /\ j.stage # "headless"
    /\ control' = IF j.op = "clone" /\ j.stage # "starts" THEN "absent" ELSE control
    /\ tree' = IF j.op = "add" /\ j.stage # "starts"
               THEN [tree EXCEPT ![j.issue] = "absent"] ELSE tree
    /\ Ends(j, "idle")
    /\ UNCHANGED <<cut, shared, calm>>

-----------------------------------------------------------------------------
EnsureStep(i) == \/ Acquires(i) \/ FindsPath(i) \/ FindsNoPath(i) \/ Adds(i)

AddSteps(j) == AddStarts(j) \/ AddRegisters(j) \/ AddEnds(j)

GitStep(j) == CloneStarts(j) \/ CloneEnds(j) \/ AddSteps(j) \/ Refuses(j)

Next ==
    \/ Calms
    \/ \E i \in Issues : Asks(i) \/ EnsureStep(i) \/ FetchFails(i) \/ Cancelled(i)
    \/ \E j \in jobs : GitStep(j) \/ Fails(j) \/ TimesOut(j)
    \/ \E i \in Issues, children \in BOOLEAN :
         Killed(IF shared THEN Issues ELSE {i}, children)

Spec == Init /\ [][Next]_vars

\* Attempts ask again (the scheduler retries), ensures and git commands go on,
\* and the lock is served in order.
FairSpec ==
    /\ Spec
    /\ \A i \in Issues :
         /\ WF_vars(Asks(i)) /\ WF_vars(EnsureStep(i)) /\ SF_vars(Acquires(i))
         /\ WF_vars(\E j \in jobs : j.issue = i /\ (CloneStarts(j) \/ CloneEnds(j)))
         /\ WF_vars(\E j \in jobs : j.issue = i /\ AddSteps(j))
         /\ WF_vars(\E j \in jobs : j.issue = i /\ Refuses(j))
    /\ WF_vars(Calms)

-----------------------------------------------------------------------------
(* Properties *)

WorkspaceTypeOK ==
    /\ control \in {"absent", "partial", "cloned"}
    /\ tree \in [Issues -> {"absent", "bare", "partial", "complete"}]
    /\ jobs \subseteq Jobs
    /\ pc \in [Issues -> {"idle", "lock", "clone", "validate", "fetch", "add",
                        "killing", "ready"}]
    /\ holder \in Issues \cup {NoIssue}
    /\ cut \subseteq Issues /\ {shared, calm} \subseteq BOOLEAN

\* The ensure a git command belongs to waits for it, for one command only, and
\* never for none.
OwnersWait ==
    \A j \in jobs : j.owned =>
      pc[j.issue] = IF j.stage = "headless" THEN "killing" ELSE j.op

OneCommand ==
    \A j, k \in jobs : j.owned /\ k.owned /\ j.issue = k.issue => j = k

WaitersOwn ==
    \A i \in Issues : pc[i] \in {"clone", "add", "killing"} =>
      \E j \in jobs : j.owned /\ j.issue = i

\* The ensures that share a manager take turns.
TurnsTaken ==
    \A i \in Issues : holder = i <=>
      shared /\ pc[i] \in {"clone", "validate", "fetch", "add", "killing"}

\* The inductive invariant: who waits for which command, and under which lock,
\* through cancellations, timeouts and kills.
WorkspaceInv ==
    /\ WorkspaceTypeOK
    /\ OwnersWait /\ OneCommand /\ WaitersOwn /\ TurnsTaken

\* A `git worktree add` is writing the worktree of i.
BeingWritten(i) ==
    \E j \in jobs : j.op = "add" /\ j.issue = i /\ j.stage \in {"works", "headless"}

\* A worktree handed out half written, or one that is written or taken away
\* again while the attempt has it, belongs to an issue whose `worktree add` a
\* cancellation or a kill has cut off from its ensure:
\* timeouts, failing commands and the ensures of other issues never do that.
\* (The wait after the kill in _git, and the lock.)
HalfTreeWasCut ==
    \A i \in Issues :
      pc[i] = "ready" /\ (tree[i] # "complete" \/ BeingWritten(i)) => i \in cut

\* Its strengthening: while i is not cut, only its own ensure adds the worktree.
UncutInv ==
    \A i \in Issues : i \notin cut =>
      /\ \A j \in jobs : j.op = "add" /\ j.issue = i => j.owned
      /\ pc[i] = "ready" => tree[i] = "complete"
      /\ tree[i] = "partial" => BeingWritten(i)

\* ensure cannot get past these: a clone that was killed, and a directory that
\* was made and never registered.
Stuck(i) ==
    \/ control = "partial" /\ ~\E j \in jobs : j.op = "clone" /\ j.stage = "works"
    \/ tree[i] = "bare" /\ ~\E j \in jobs : j.issue = i /\ j.stage = "made"

\* Once cancellations, kills, timeouts and errors stop, every issue gets its
\* worktree, whatever they left behind, unless it is one of the two dead ends.
EnsureSucceeds ==
    \A i \in Issues : calm ~> (pc[i] = "ready" \/ Stuck(i))

\* Claimed by ARCHITECTURE.md ("Existing worktrees are never reset or cleaned
\* automatically"), but the `worktree add` of a cancelled attempt goes on
\* writing into the path the next attempt finds and takes.
NeverResetInUse == \A i \in Issues : pc[i] = "ready" => ~BeingWritten(i)
=============================================================================
