----------------------------- MODULE RemoteLease -----------------------------
(***************************************************************************)
(* One attempt on an SSH execution host (remote_runner.py).  Every request *)
(* of the control plane becomes a helper process of its own: prepare, then *)
(* run, and any number of cancels.  They share two files, the lease of the *)
(* attempt and its cancellation tombstone, and nothing else: no lock, no   *)
(* order between the connections they arrive on.                           *)
(*                                                                         *)
(* Simplifications.                                                        *)
(*  - An identity is the name of a process; birth times make it unique.    *)
(*  - A helper has at most one child: git while it prepares the worktree,  *)
(*    again and again, or the agent.  Children of those are left out.      *)
(*  - Files are replaced atomically.  A request that was lost is one that  *)
(*    never arrives; replies concern the control plane alone.              *)
(*  - The attempt sends no request after it gives up, and only then is it  *)
(*    cancelled: by its own handlers, or by a scheduler restarted later.   *)
(***************************************************************************)

CONSTANTS
    Cancellers,   \* the cancel requests for the attempt
    Faults        \* what may go wrong on the host

ASSUME FaultsAssumption == Faults \subseteq {"stuck", "crash"}

Helpers == {"prepare", "run"}

VARIABLES
    active,       \* the attempt may still send requests
    pc,           \* where each helper is
    child,        \* the child process of each helper
    lease,        \* the identity in the lease file
    tombstone,    \* the cancellation tombstone exists
    cancel        \* the cancel requests

vars == <<active, pc, child, lease, tombstone, cancel>>

-----------------------------------------------------------------------------
Alive == {"leased", "preparing", "relaunch", "checked", "forked",
          "supervising", "finishing", "refusing"}

Places == Alive \cup {"unsent", "sent", "answered", "refused", "dead"}

Identities == {"none", "prepare", "run", "agent"}

Cancels == [pc       : {"unsent", "sent", "marked", "loaded", "aimed", "struck",
                        "confirmed", "unconfirmed", "dead"},
            identity : Identities,   \* what it read from the lease
            seen     : BOOLEAN]      \* its snapshot holds the helper's child

IsAlive(h) == pc[h] \in Alive

\* Mutant of Matches: the birth time of the agent never matches.
MatchesHelpersOnly(identity) == identity \in Helpers /\ IsAlive(identity)

\* ProcessGuard.matches.
Matches(identity) ==
    IF identity = "agent" THEN child["run"] = "agent"
    ELSE identity \in Helpers /\ IsAlive(identity)

\* A child whose helper is gone, and that no lease names.
Orphan(h) ==
    /\ child[h] # "none" /\ ~IsAlive(h)
    /\ ~(child[h] = "agent" /\ lease = "agent")

Confirmed == \E c \in Cancellers : cancel[c].pc = "confirmed"

TypeOK ==
    /\ active \in BOOLEAN
    /\ pc \in [Helpers -> Places]
    /\ child \in [Helpers -> {"none", "git", "agent"}]
    /\ lease \in Identities
    /\ tombstone \in BOOLEAN
    /\ cancel \in [Cancellers -> Cancels]

MovesTo(h, place) == pc' = [pc EXCEPT ![h] = place]

-----------------------------------------------------------------------------
(* The control plane *)

\* SSHTransport.request: run follows a prepare that was answered.
Sends(h) ==
    /\ active /\ pc[h] = "unsent"
    /\ h = "run" => pc["prepare"] = "answered"
    /\ MovesTo(h, "sent")
    /\ UNCHANGED <<active, child, lease, tombstone, cancel>>

\* The attempt is cancelled, fails or times out, or its scheduler is killed.
GivesUp ==
    /\ active
    /\ active' = FALSE
    /\ UNCHANGED <<pc, child, lease, tombstone, cancel>>

\* SSHAgentBackend.reap: also again, while an earlier request is on its way.
SendsCancel(c) ==
    /\ ~active /\ cancel[c].pc = "unsent"
    /\ cancel' = [cancel EXCEPT ![c].pc = "sent"]
    /\ UNCHANGED <<active, pc, child, lease, tombstone>>

-----------------------------------------------------------------------------
(* prepare and run *)

\* The helper starts and writes a lease with its own identity.
Arrives(h) ==
    /\ pc[h] = "sent"
    /\ MovesTo(h, "leased")
    /\ lease' = h
    /\ UNCHANGED <<active, child, tombstone, cancel>>

\* Mutant of ChecksTombstone: an early cancellation is not noticed.
ChecksTombstoneNever(h) ==
    /\ pc[h] = "leased"
    /\ MovesTo(h, "preparing")
    /\ UNCHANGED <<active, child, lease, tombstone, cancel>>

\* Is the attempt cancelled already?
ChecksTombstone(h) ==
    /\ pc[h] = "leased"
    /\ MovesTo(h, IF tombstone THEN "refusing" ELSE "preparing")
    /\ UNCHANGED <<active, child, lease, tombstone, cancel>>

\* WorkspaceManager.ensure runs one git command after another.
ForksGit(h) ==
    /\ pc[h] = "preparing" /\ child[h] = "none"
    /\ child' = [child EXCEPT ![h] = "git"]
    /\ UNCHANGED <<active, pc, lease, tombstone, cancel>>

\* The worktree is there: prepare is done, run renews its lease.
Ensures(h) ==
    /\ pc[h] = "preparing" /\ child[h] = "none"
    /\ \/ h = "prepare" /\ MovesTo(h, "finishing") /\ lease' = lease
       \/ h = "run" /\ MovesTo(h, "relaunch") /\ lease' = h
       \/ MovesTo(h, "refusing") /\ lease' = lease
    /\ UNCHANGED <<active, child, tombstone, cancel>>

ChecksAgain ==
    /\ pc["run"] = "relaunch"
    /\ MovesTo("run", IF tombstone THEN "refusing" ELSE "checked")
    /\ UNCHANGED <<active, child, lease, tombstone, cancel>>

\* The agent is launched, or cannot be.
ForksAgent ==
    /\ pc["run"] = "checked"
    /\ \/ MovesTo("run", "forked") /\ child' = [child EXCEPT !["run"] = "agent"]
       \/ MovesTo("run", "finishing") /\ child' = child
    /\ UNCHANGED <<active, lease, tombstone, cancel>>

\* process_started: the lease now names the agent.
SavesIdentity ==
    /\ pc["run"] = "forked"
    /\ MovesTo("run", "supervising")
    /\ lease' = "agent"
    /\ UNCHANGED <<active, child, tombstone, cancel>>

\* The agent has ended, perhaps before its identity could be captured.
SeesAgentEnd ==
    /\ pc["run"] \in {"forked", "supervising"} /\ child["run"] = "none"
    /\ MovesTo("run", "finishing")
    /\ UNCHANGED <<active, child, lease, tombstone, cancel>>

\* `finally`: the lease is removed, whoever it names; then comes the response.
Ends(h) ==
    /\ pc[h] \in {"finishing", "refusing"}
    /\ MovesTo(h, IF pc[h] = "finishing" THEN "answered" ELSE "refused")
    /\ lease' = "none"
    /\ UNCHANGED <<active, child, tombstone, cancel>>

-----------------------------------------------------------------------------
(* cancel *)

\* The tombstone is written before the lease is read.
Marks(c) ==
    /\ cancel[c].pc = "sent"
    /\ tombstone' = TRUE
    /\ cancel' = [cancel EXCEPT ![c].pc = "marked"]
    /\ UNCHANGED <<active, pc, child, lease>>

\* No lease, nothing to stop.
Loads(c) ==
    /\ cancel[c].pc = "marked"
    /\ cancel' = [cancel EXCEPT
                    ![c].pc = IF lease = "none" THEN "confirmed" ELSE "loaded",
                    ![c].identity = lease]
    /\ UNCHANGED <<active, pc, child, lease, tombstone>>

\* terminate_tree takes a snapshot of the process and its children.
Aims(c) ==
    LET identity == cancel[c].identity IN
    /\ cancel[c].pc = "loaded"
    /\ cancel' = [cancel EXCEPT
         ![c].pc = IF Matches(identity) THEN "aimed" ELSE "struck",
         ![c].seen = identity \in Helpers /\ Matches(identity)
                                          /\ child[identity] # "none"]
    /\ UNCHANGED <<active, pc, child, lease, tombstone>>

\* What is in the snapshot is signalled, parent first, and killed after the
\* grace time.  A stuck git or agent outlives even that for a while.
Signals(c) ==
    LET identity == cancel[c].identity
        prey == IF identity = "agent" THEN "run" ELSE identity IN
    /\ cancel[c].pc = "aimed"
    /\ cancel' = [cancel EXCEPT ![c].pc = "struck"]
    /\ pc' = IF identity \in Helpers /\ IsAlive(identity)
               THEN [pc EXCEPT ![identity] = "dead"] ELSE pc
    /\ \/ /\ identity = "agent" \/ cancel[c].seen
          /\ child' = [child EXCEPT ![prey] = "none"]
       \/ /\ identity \in Helpers /\ ~cancel[c].seen
          /\ child' = child
       \/ /\ "stuck" \in Faults
          /\ child' = child
    /\ UNCHANGED <<active, lease, tombstone>>

\* Mutant of Concludes: the lease goes also when the stop is not confirmed.
ConcludesAnyway(c) ==
    /\ cancel[c].pc = "struck"
    /\ \/ /\ Matches(cancel[c].identity)
          /\ cancel' = [cancel EXCEPT ![c].pc = "unconfirmed"]
       \/ /\ ~Matches(cancel[c].identity)
          /\ cancel' = [cancel EXCEPT ![c].pc = "confirmed"]
    /\ lease' = "none"
    /\ UNCHANGED <<active, pc, child, tombstone>>

\* confirmed_safe is decided on the identity that was read, the root of the
\* tree; then the lease goes, whatever it names by now.
Concludes(c) ==
    /\ cancel[c].pc = "struck"
    /\ \/ /\ Matches(cancel[c].identity)
          /\ cancel' = [cancel EXCEPT ![c].pc = "unconfirmed"]
          /\ lease' = lease
       \/ /\ ~Matches(cancel[c].identity)
          /\ cancel' = [cancel EXCEPT ![c].pc = "confirmed"]
          /\ lease' = "none"
    /\ UNCHANGED <<active, pc, child, tombstone>>

-----------------------------------------------------------------------------
(* The host *)

\* A git command or the agent ends; a snapshot that holds it is out of date.
ChildEnds(h) ==
    /\ child[h] # "none"
    /\ child' = [child EXCEPT ![h] = "none"]
    /\ cancel' = [c \in Cancellers |->
                    IF cancel[c].identity = h THEN [cancel[c] EXCEPT !.seen = FALSE]
                    ELSE cancel[c]]
    /\ UNCHANGED <<active, pc, lease, tombstone>>

\* A helper dies, its child lives on.
HelperDies(h) ==
    /\ "crash" \in Faults /\ IsAlive(h)
    /\ MovesTo(h, "dead")
    /\ UNCHANGED <<active, child, lease, tombstone, cancel>>

\* A canceller dies half-way.
CancellerDies(c) ==
    /\ "crash" \in Faults
    /\ cancel[c].pc \in {"marked", "loaded", "aimed", "struck"}
    /\ cancel' = [cancel EXCEPT ![c].pc = "dead"]
    /\ UNCHANGED <<active, pc, child, lease, tombstone>>

-----------------------------------------------------------------------------
Init ==
    /\ active = TRUE
    /\ pc = [h \in Helpers |-> "unsent"]
    /\ child = [h \in Helpers |-> "none"]
    /\ lease = "none"
    /\ tombstone = FALSE
    /\ cancel = [c \in Cancellers |->
                   [pc |-> "unsent", identity |-> "none", seen |-> FALSE]]

HelperStep(h) ==
    \/ ChecksTombstone(h) \/ ForksGit(h) \/ Ensures(h) \/ Ends(h)
    \/ h = "run" /\ (ChecksAgain \/ ForksAgent \/ SavesIdentity \/ SeesAgentEnd)

CancelStep(c) == Marks(c) \/ Loads(c) \/ Aims(c) \/ Signals(c) \/ Concludes(c)

Next ==
    \/ GivesUp
    \/ \E h \in Helpers : \/ Sends(h) \/ Arrives(h) \/ HelperStep(h)
                          \/ ChildEnds(h) \/ HelperDies(h)
    \/ \E c \in Cancellers : SendsCancel(c) \/ CancelStep(c) \/ CancellerDies(c)

Spec == Init /\ [][Next]_vars

\* Helper processes that run are scheduled; requests and children promise nothing.
FairSpec ==
    /\ Spec
    /\ \A h \in Helpers : WF_vars(HelperStep(h))
    /\ \A c \in Cancellers : WF_vars(CancelStep(c))

-----------------------------------------------------------------------------
(* What the lease protocol promises *)

\* Work of the attempt that a cancel can still reach, or that may still start.
MayStart(h) ==
    \/ pc[h] = "unsent" /\ active
    \/ pc[h] \in {"sent", "leased", "relaunch"} /\ ~tombstone
    \/ pc[h] \in {"preparing", "checked"}

MayRun ==
    \E h \in Helpers : MayStart(h) \/ (child[h] # "none" /\ ~Orphan(h))

Fence == INSTANCE RemoteFence WITH may_run <- MayRun, confirmed <- Confirmed

\* Once a cancel is answered confirmed_safe nothing of the attempt runs or will
\* start, also from requests that arrive later, orphans aside
\* (ARCHITECTURE.md:104, "closing the cancel-before-launch race").
Fenced == Fence!Spec

\* While a helper lives, its git or its agent can be found by a cancel: the
\* lease names the agent, or the helper it is a child of.
LeaseCovers ==
    \A h \in Helpers : IsAlive(h) /\ child[h] # "none" =>
      lease = IF pc[h] = "supervising" THEN "agent" ELSE h

\* The two helpers never overlap, and only run has an agent.
RunFollowsPrepare ==
    /\ pc["run"] # "unsent" => pc["prepare"] = "answered"
    /\ pc["prepare"] \notin {"relaunch", "checked", "forked", "supervising"}
    /\ child["prepare"] # "agent"

\* Places of a helper whose lease names the helper itself.
OwnLease == {"leased", "preparing", "relaunch", "checked", "forked"}

LeaseHeld == \A h \in Helpers : pc[h] \in OwnLease => lease = h

\* A helper has git while it prepares and the agent once it has forked it.
ChildFits ==
    \A h \in Helpers : child[h] # "none" =>
      \/ pc[h] \in {"answered", "refused", "dead"}
      \/ pc[h] = "preparing" /\ child[h] = "git"
      \/ pc[h] \in {"forked", "supervising"} /\ child[h] = "agent"

\* What run must have reached for `identity` to have been in the lease; and with
\* the identity of prepare there, run was not yet sent.
Explains(identity) ==
    /\ identity = "run" => pc["run"] \notin {"unsent", "sent"}
    /\ identity = "agent" => pc["run"] \notin {"unsent", "sent"} \cup OwnLease

LeaseExplained ==
    /\ Explains(lease)
    /\ lease = "prepare" => pc["prepare"] \notin {"unsent", "sent", "answered"}

\* A cancel is sent when the attempt has given up, and reads the lease after it
\* has written the tombstone.
CancelsExplained ==
    \A c \in Cancellers :
      /\ cancel[c].pc # "unsent" => ~active
      /\ cancel[c].pc \notin {"unsent", "sent"} => tombstone
      /\ cancel[c].pc \in {"unsent", "sent", "marked"} => cancel[c].identity = "none"
      /\ cancel[c].pc \in {"loaded", "aimed", "struck"} => cancel[c].identity # "none"
      /\ Explains(cancel[c].identity)
      /\ cancel[c].identity = "prepare" => pc["run"] = "unsent"

\* The inductive invariant behind LeaseCovers and Fenced.
LeaseInv ==
    /\ TypeOK
    /\ LeaseCovers
    /\ RunFollowsPrepare
    /\ LeaseHeld
    /\ ChildFits
    /\ LeaseExplained
    /\ CancelsExplained

\* A cancel that has written its tombstone stops the work of the attempt for good,
\* orphans aside, unless it dies or says that it could not.
CancelsStop ==
    \A c \in Cancellers :
      cancel[c].pc = "marked" ~>
        \/ cancel[c].pc \in {"dead", "unconfirmed"}
        \/ [](\A h \in Helpers : child[h] = "none" \/ Orphan(h))

\* No orphans: a confirmed stop means that the agent does not run
\* (ARCHITECTURE.md:116, "Thus a cold-start cancel can reap the helper tree during
\* preparation/the narrow pre-spawn window or the exact CSC tree after spawn.").
ConfirmedIsStopped == Confirmed => child["run"] # "agent"
=============================================================================
