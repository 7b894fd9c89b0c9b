----------------------------- MODULE LeaseProofs -----------------------------
(***************************************************************************)
(* Proofs about module RemoteLease: its inductive invariant, for any set   *)
(* of cancel requests and any faults, and that the lease protocol          *)
(* implements the fence the control plane relies on.                       *)
(***************************************************************************)
EXTENDS RemoteLease, TLAPS

-----------------------------------------------------------------------------
(* The inductive invariant *)

LEMMA InitInv == Init => LeaseInv
<1> SUFFICES ASSUME Init PROVE LeaseInv
  OBVIOUS
<1> USE DEF Init, Helpers
<1>1. TypeOK
  BY DEF TypeOK, Places, Identities, Cancels
<1>2. LeaseCovers /\ ChildFits /\ LeaseHeld
  BY DEF LeaseCovers, ChildFits, LeaseHeld, IsAlive, Alive, OwnLease
<1>3. RunFollowsPrepare /\ LeaseExplained
  BY DEF RunFollowsPrepare, LeaseExplained, Explains
<1>4. CancelsExplained
  BY DEF CancelsExplained, Explains
<1> QED
  BY <1>1, <1>2, <1>3, <1>4 DEF LeaseInv

LEMMA TypesKept == TypeOK /\ [Next]_vars => TypeOK'
<1> SUFFICES ASSUME TypeOK, [Next]_vars PROVE TypeOK'
  OBVIOUS
<1> USE DEF TypeOK, Helpers, Places, Identities
<1>1. CASE GivesUp
  BY <1>1 DEF GivesUp
<1>2. ASSUME NEW h \in Helpers, Sends(h) \/ Arrives(h) \/ ChildEnds(h) \/ HelperDies(h)
      PROVE  TypeOK'
  <2>1. CASE Sends(h) \/ Arrives(h) \/ HelperDies(h)
    BY <2>1 DEF Sends, Arrives, HelperDies, MovesTo, Alive
  <2>2. CASE ChildEnds(h)
    BY <2>2 DEF ChildEnds, Cancels
  <2> QED
    BY <1>2, <2>1, <2>2
<1>3. ASSUME NEW h \in Helpers, HelperStep(h)
      PROVE  TypeOK'
  <2>1. CASE ChecksTombstone(h) \/ ForksGit(h) \/ Ends(h)
    BY <2>1 DEF ChecksTombstone, ForksGit, Ends, MovesTo, Alive
  <2>2. CASE Ensures(h)
    BY <2>2 DEF Ensures, MovesTo, Alive
  <2>3. CASE ChecksAgain \/ ForksAgent
    BY <2>3 DEF ChecksAgain, ForksAgent, MovesTo, Alive
  <2>4. CASE SavesIdentity \/ SeesAgentEnd
    BY <2>4 DEF SavesIdentity, SeesAgentEnd, MovesTo, Alive
  <2> QED
    BY <1>3, <2>1, <2>2, <2>3, <2>4 DEF HelperStep
<1>4. ASSUME NEW c \in Cancellers, SendsCancel(c) \/ CancelStep(c) \/ CancellerDies(c)
      PROVE  TypeOK'
  <2>1. CASE SendsCancel(c) \/ Marks(c) \/ CancellerDies(c)
    BY <2>1 DEF SendsCancel, Marks, CancellerDies, Cancels
  <2>2. CASE Loads(c)
    <3>1. [cancel[c] EXCEPT !.pc = IF lease = "none" THEN "confirmed" ELSE "loaded",
                            !.identity = lease] \in Cancels
      BY DEF Cancels
    <3> QED
      BY <2>2, <3>1 DEF Loads
  <2>3. CASE Aims(c)
    <3>1. ASSUME NEW place \in {"aimed", "struck"}, NEW seen \in BOOLEAN
          PROVE  [cancel[c] EXCEPT !.pc = place, !.seen = seen] \in Cancels
      BY DEF Cancels
    <3> QED
      BY <2>3, <3>1 DEF Aims
  <2>4. CASE Signals(c)
    BY <2>4 DEF Signals, Cancels
  <2>5. CASE Concludes(c)
    BY <2>5 DEF Concludes, Cancels
  <2> QED
    BY <1>4, <2>1, <2>2, <2>3, <2>4, <2>5 DEF CancelStep
<1>5. CASE UNCHANGED vars
  BY <1>5 DEF vars
<1> QED
  BY <1>1, <1>2, <1>3, <1>4, <1>5 DEF Next
LEMMA HelperKeeps ==
ASSUME LeaseInv, TypeOK', NEW h \in Helpers,
       Sends(h) \/ Arrives(h) \/ HelperStep(h)
PROVE  /\ RunFollowsPrepare' /\ LeaseHeld' /\ ChildFits' /\ LeaseCovers'
       /\ LeaseExplained' /\ CancelsExplained'
<1> USE DEF LeaseInv, TypeOK, Helpers
<1>1. CASE Sends(h)
  <2>1. RunFollowsPrepare'
    BY <1>1 DEF Sends, MovesTo, RunFollowsPrepare
  <2>2. LeaseHeld'
    BY <1>1 DEF Sends, MovesTo, LeaseHeld, OwnLease
  <2>3. ChildFits'
    BY <1>1 DEF Sends, MovesTo, ChildFits
  <2>4. LeaseCovers'
    BY <1>1 DEF Sends, MovesTo, LeaseCovers, OwnLease, IsAlive, Alive
  <2>5. LeaseExplained'
    BY <1>1 DEF Sends, MovesTo, LeaseExplained, Explains, OwnLease
  <2>6. CancelsExplained'
    BY <1>1 DEF Sends, MovesTo, CancelsExplained, Explains, OwnLease
  <2> QED
    BY <2>1, <2>2, <2>3, <2>4, <2>5, <2>6
<1>2. CASE Arrives(h)
  <2>1. RunFollowsPrepare'
    BY <1>2 DEF Arrives, MovesTo, RunFollowsPrepare
  <2>2. LeaseHeld'
    BY <1>2 DEF Arrives, MovesTo, LeaseHeld, OwnLease, RunFollowsPrepare
  <2>3. ChildFits'
    BY <1>2 DEF Arrives, MovesTo, ChildFits
  <2>4. LeaseCovers'
    BY <1>2 DEF Arrives, MovesTo, LeaseCovers, OwnLease, IsAlive, Alive, RunFollowsPrepare
  <2>5. LeaseExplained'
    BY <1>2 DEF Arrives, MovesTo, LeaseExplained, Explains, OwnLease
  <2>6. CancelsExplained'
    BY <1>2 DEF Arrives, MovesTo, CancelsExplained, Explains, OwnLease
  <2> QED
    BY <2>1, <2>2, <2>3, <2>4, <2>5, <2>6
<1>3. CASE ChecksTombstone(h)
  <2>1. RunFollowsPrepare'
    BY <1>3 DEF ChecksTombstone, MovesTo, RunFollowsPrepare
  <2>2. LeaseHeld'
    BY <1>3 DEF ChecksTombstone, MovesTo, LeaseHeld, OwnLease
  <2>3. ChildFits'
    BY <1>3 DEF ChecksTombstone, MovesTo, ChildFits
  <2>4. LeaseCovers'
    BY <1>3 DEF ChecksTombstone, MovesTo, LeaseCovers, OwnLease, IsAlive, Alive
  <2>5. LeaseExplained'
    BY <1>3 DEF ChecksTombstone, MovesTo, LeaseExplained, Explains, OwnLease
  <2>6. CancelsExplained'
    BY <1>3 DEF ChecksTombstone, MovesTo, CancelsExplained, Explains, OwnLease
  <2> QED
    BY <2>1, <2>2, <2>3, <2>4, <2>5, <2>6
<1>4. CASE ForksGit(h)
  <2>1. RunFollowsPrepare'
    BY <1>4 DEF ForksGit, RunFollowsPrepare
  <2>2. LeaseHeld'
    BY <1>4 DEF ForksGit, LeaseHeld
  <2>3. ChildFits'
    BY <1>4 DEF ForksGit, ChildFits
  <2>4. LeaseCovers'
    BY <1>4 DEF ForksGit, LeaseCovers, ChildFits, LeaseHeld, OwnLease, IsAlive, Alive, RunFollowsPrepare
  <2>5. LeaseExplained'
    BY <1>4 DEF ForksGit, LeaseExplained, Explains, OwnLease
  <2>6. CancelsExplained'
    BY <1>4 DEF ForksGit, CancelsExplained, Explains, OwnLease
  <2> QED
    BY <2>1, <2>2, <2>3, <2>4, <2>5, <2>6
<1>5. CASE Ensures(h)
  <2>1. RunFollowsPrepare'
    BY <1>5 DEF Ensures, MovesTo, RunFollowsPrepare
  <2>2. LeaseHeld'
    BY <1>5 DEF Ensures, MovesTo, LeaseHeld, OwnLease
  <2>3. ChildFits'
    BY <1>5 DEF Ensures, MovesTo, ChildFits
  <2>4. LeaseCovers'
    BY <1>5 DEF Ensures, MovesTo, LeaseCovers, OwnLease, IsAlive, Alive, RunFollowsPrepare
  <2>5. LeaseExplained'
    BY <1>5 DEF Ensures, MovesTo, LeaseExplained, Explains, OwnLease
  <2>6. CancelsExplained'
    BY <1>5 DEF Ensures, MovesTo, CancelsExplained, Explains, OwnLease
  <2> QED
    BY <2>1, <2>2, <2>3, <2>4, <2>5, <2>6
<1>6. CASE Ends(h)
  <2>1. RunFollowsPrepare'
    BY <1>6 DEF Ends, MovesTo, RunFollowsPrepare
  <2>2. LeaseHeld'
    BY <1>6 DEF Ends, MovesTo, LeaseHeld, OwnLease, RunFollowsPrepare
  <2>3. ChildFits'
    BY <1>6 DEF Ends, MovesTo, ChildFits
  <2>4. LeaseCovers'
    BY <1>6 DEF Ends, MovesTo, LeaseCovers, OwnLease, IsAlive, Alive, RunFollowsPrepare
  <2>5. LeaseExplained'
    BY <1>6 DEF Ends, MovesTo, LeaseExplained, Explains, OwnLease
  <2>6. CancelsExplained'
    BY <1>6 DEF Ends, MovesTo, CancelsExplained, Explains, OwnLease
  <2> QED
    BY <2>1, <2>2, <2>3, <2>4, <2>5, <2>6
<1>7. CASE h = "run" /\ ChecksAgain
  <2>1. RunFollowsPrepare'
    BY <1>7 DEF ChecksAgain, MovesTo, RunFollowsPrepare
  <2>2. LeaseHeld'
    BY <1>7 DEF ChecksAgain, MovesTo, LeaseHeld, OwnLease
  <2>3. ChildFits'
    BY <1>7 DEF ChecksAgain, MovesTo, ChildFits
  <2>4. LeaseCovers'
    BY <1>7 DEF ChecksAgain, MovesTo, LeaseCovers, OwnLease, IsAlive, Alive
  <2>5. LeaseExplained'
    BY <1>7 DEF ChecksAgain, MovesTo, LeaseExplained, Explains, OwnLease
  <2>6. CancelsExplained'
    BY <1>7 DEF ChecksAgain, MovesTo, CancelsExplained, Explains, OwnLease
  <2> QED
    BY <2>1, <2>2, <2>3, <2>4, <2>5, <2>6
<1>8. CASE h = "run" /\ ForksAgent
  <2>1. RunFollowsPrepare'
    BY <1>8 DEF ForksAgent, MovesTo, RunFollowsPrepare
  <2>2. LeaseHeld'
    BY <1>8 DEF ForksAgent, MovesTo, LeaseHeld, OwnLease
  <2>3. ChildFits'
    BY <1>8 DEF ForksAgent, MovesTo, ChildFits
  <2>4. LeaseCovers'
    BY <1>8 DEF ForksAgent, MovesTo, LeaseCovers, ChildFits, LeaseHeld, OwnLease, IsAlive, Alive, RunFollowsPrepare
  <2>5. LeaseExplained'
    BY <1>8 DEF ForksAgent, MovesTo, LeaseExplained, Explains, OwnLease
  <2>6. CancelsExplained'
    BY <1>8 DEF ForksAgent, MovesTo, CancelsExplained, Explains, OwnLease
  <2> QED
    BY <2>1, <2>2, <2>3, <2>4, <2>5, <2>6
<1>9. CASE h = "run" /\ SavesIdentity
  <2>1. RunFollowsPrepare'
    BY <1>9 DEF SavesIdentity, MovesTo, RunFollowsPrepare
  <2>2. LeaseHeld'
    BY <1>9 DEF SavesIdentity, MovesTo, LeaseHeld, OwnLease
  <2>3. ChildFits'
    BY <1>9 DEF SavesIdentity, MovesTo, ChildFits
  <2>4. LeaseCovers'
    BY <1>9 DEF SavesIdentity, MovesTo, LeaseCovers, OwnLease, IsAlive, Alive, RunFollowsPrepare
  <2>5. LeaseExplained'
    BY <1>9 DEF SavesIdentity, MovesTo, LeaseExplained, Explains, OwnLease
  <2>6. CancelsExplained'
    BY <1>9 DEF SavesIdentity, MovesTo, CancelsExplained, Explains, OwnLease
  <2> QED
    BY <2>1, <2>2, <2>3, <2>4, <2>5, <2>6
<1>10. CASE h = "run" /\ SeesAgentEnd
  <2>1. RunFollowsPrepare'
    BY <1>10 DEF SeesAgentEnd, MovesTo, RunFollowsPrepare
  <2>2. LeaseHeld'
    BY <1>10 DEF SeesAgentEnd, MovesTo, LeaseHeld, OwnLease
  <2>3. ChildFits'
    BY <1>10 DEF SeesAgentEnd, MovesTo, ChildFits
  <2>4. LeaseCovers'
    BY <1>10 DEF SeesAgentEnd, MovesTo, LeaseCovers, OwnLease, IsAlive, Alive
  <2>5. LeaseExplained'
    BY <1>10 DEF SeesAgentEnd, MovesTo, LeaseExplained, Explains, OwnLease
  <2>6. CancelsExplained'
    BY <1>10 DEF SeesAgentEnd, MovesTo, CancelsExplained, Explains, OwnLease
  <2> QED
    BY <2>1, <2>2, <2>3, <2>4, <2>5, <2>6
<1> QED
  BY <1>1, <1>2, <1>3, <1>4, <1>5, <1>6, <1>7, <1>8, <1>9, <1>10 DEF HelperStep

LEMMA HostKeeps ==
ASSUME LeaseInv, TypeOK', NEW h \in Helpers,
       ChildEnds(h) \/ HelperDies(h)
PROVE  /\ RunFollowsPrepare' /\ LeaseHeld' /\ ChildFits' /\ LeaseCovers'
       /\ LeaseExplained' /\ CancelsExplained'
<1> USE DEF LeaseInv, TypeOK, Helpers
<1>1. CASE ChildEnds(h)
  <2>1. RunFollowsPrepare'
    BY <1>1 DEF ChildEnds, RunFollowsPrepare
  <2>2. LeaseHeld'
    BY <1>1 DEF ChildEnds, LeaseHeld
  <2>3. ChildFits'
    BY <1>1 DEF ChildEnds, ChildFits
  <2>4. LeaseCovers'
    BY <1>1 DEF ChildEnds, LeaseCovers, OwnLease, IsAlive, Alive
  <2>5. LeaseExplained'
    BY <1>1 DEF ChildEnds, LeaseExplained, Explains, OwnLease
  <2>6. CancelsExplained'
    BY <1>1 DEF ChildEnds, CancelsExplained, Explains, OwnLease
  <2> QED
    BY <2>1, <2>2, <2>3, <2>4, <2>5, <2>6
<1>2. CASE HelperDies(h)
  <2>1. RunFollowsPrepare'
    BY <1>2 DEF HelperDies, MovesTo, RunFollowsPrepare, IsAlive, Alive
  <2>2. LeaseHeld'
    BY <1>2 DEF HelperDies, MovesTo, LeaseHeld, OwnLease
  <2>3. ChildFits'
    BY <1>2 DEF HelperDies, MovesTo, ChildFits
  <2>4. LeaseCovers'
    BY <1>2 DEF HelperDies, MovesTo, LeaseCovers, OwnLease, IsAlive, Alive
  <2>5. LeaseExplained'
    BY <1>2 DEF HelperDies, MovesTo, LeaseExplained, Explains, OwnLease
  <2>6. CancelsExplained'
    BY <1>2 DEF HelperDies, MovesTo, CancelsExplained, IsAlive, Alive, Explains, OwnLease
  <2> QED
    BY <2>1, <2>2, <2>3, <2>4, <2>5, <2>6
<1> QED
  BY <1>1, <1>2

\* Where a cancel finds the process it read from the lease gone, no helper can
\* fork any more and none has a child.
LEMMA GoneMeansStopped ==
  ASSUME LeaseInv, NEW c \in Cancellers,
         cancel[c].pc = "struck", ~Matches(cancel[c].identity)
  PROVE  \A h \in Helpers : pc[h] \notin OwnLease /\ (IsAlive(h) => child[h] = "none")
<1> USE DEF LeaseInv, TypeOK, Helpers, Identities
<1>1. cancel[c].identity \in {"prepare", "run", "agent"}
  BY DEF CancelsExplained, Cancels
<1>2. CASE cancel[c].identity = "prepare"
  <2>1. ~IsAlive("prepare") /\ pc["run"] = "unsent"
    BY <1>2 DEF Matches, CancelsExplained
  <2> QED
    BY <2>1 DEF IsAlive, Alive, OwnLease
<1>3. CASE cancel[c].identity = "run"
  <2>1. ~IsAlive("run") /\ pc["prepare"] = "answered"
    BY <1>3 DEF Matches, CancelsExplained, Explains, RunFollowsPrepare
  <2> QED
    BY <2>1 DEF IsAlive, Alive, OwnLease
<1>4. CASE cancel[c].identity = "agent"
  <2>1. /\ child["run"] # "agent" /\ pc["prepare"] = "answered"
        /\ pc["run"] \notin OwnLease
    BY <1>4 DEF Matches, CancelsExplained, Explains, RunFollowsPrepare
  <2> QED
    BY <2>1 DEF IsAlive, Alive, OwnLease, ChildFits
<1> QED
  BY <1>1, <1>2, <1>3, <1>4

LEMMA CancelKeeps ==
ASSUME LeaseInv, TypeOK', NEW c \in Cancellers,
       SendsCancel(c) \/ CancelStep(c) \/ CancellerDies(c)
PROVE  /\ RunFollowsPrepare' /\ LeaseHeld' /\ ChildFits' /\ LeaseCovers'
       /\ LeaseExplained' /\ CancelsExplained'
<1> USE DEF LeaseInv, TypeOK, Helpers
<1>1. CASE SendsCancel(c) \/ Marks(c) \/ CancellerDies(c)
  <2>1. RunFollowsPrepare'
    BY <1>1 DEF SendsCancel, Marks, CancellerDies, RunFollowsPrepare
  <2>2. LeaseHeld'
    BY <1>1 DEF SendsCancel, Marks, CancellerDies, LeaseHeld
  <2>3. ChildFits'
    BY <1>1 DEF SendsCancel, Marks, CancellerDies, ChildFits
  <2>4. LeaseCovers'
    BY <1>1 DEF SendsCancel, Marks, CancellerDies, LeaseCovers, OwnLease, IsAlive, Alive
  <2>5. LeaseExplained'
    BY <1>1 DEF SendsCancel, Marks, CancellerDies, LeaseExplained, Explains, OwnLease
  <2>6. CancelsExplained'
    <3>1. CASE SendsCancel(c)
      BY <3>1 DEF SendsCancel, CancelsExplained, Explains
    <3>2. CASE Marks(c)
      BY <3>2 DEF Marks, CancelsExplained, Explains
    <3>3. CASE CancellerDies(c)
      BY <3>3 DEF CancellerDies, CancelsExplained, Explains
    <3> QED
      BY <1>1, <3>1, <3>2, <3>3
  <2> QED
    BY <2>1, <2>2, <2>3, <2>4, <2>5, <2>6
<1>2. CASE Loads(c)
  <2>1. RunFollowsPrepare'
    BY <1>2 DEF Loads, RunFollowsPrepare
  <2>2. LeaseHeld'
    BY <1>2 DEF Loads, LeaseHeld
  <2>3. ChildFits'
    BY <1>2 DEF Loads, ChildFits
  <2>4. LeaseCovers'
    BY <1>2 DEF Loads, LeaseCovers, OwnLease, IsAlive, Alive
  <2>5. LeaseExplained'
    BY <1>2 DEF Loads, LeaseExplained, Explains, OwnLease
  <2>6. CancelsExplained'
    BY <1>2 DEF Loads, CancelsExplained, Explains, OwnLease, RunFollowsPrepare, LeaseExplained
  <2> QED
    BY <2>1, <2>2, <2>3, <2>4, <2>5, <2>6
<1>3. CASE Aims(c)
  <2>1. RunFollowsPrepare'
    BY <1>3 DEF Aims, RunFollowsPrepare
  <2>2. LeaseHeld'
    BY <1>3 DEF Aims, LeaseHeld
  <2>3. ChildFits'
    BY <1>3 DEF Aims, ChildFits
  <2>4. LeaseCovers'
    BY <1>3 DEF Aims, LeaseCovers, OwnLease, IsAlive, Alive
  <2>5. LeaseExplained'
    BY <1>3 DEF Aims, LeaseExplained, Explains, OwnLease
  <2>6. CancelsExplained'
    BY <1>3 DEF Aims, CancelsExplained, Explains, OwnLease
  <2> QED
    BY <2>1, <2>2, <2>3, <2>4, <2>5, <2>6
<1>4. CASE Signals(c)
  <2>1. RunFollowsPrepare'
    BY <1>4 DEF Signals, RunFollowsPrepare, IsAlive, Alive
  <2>2. LeaseHeld'
    BY <1>4 DEF Signals, LeaseHeld, OwnLease
  <2>3. ChildFits'
    BY <1>4 DEF Signals, ChildFits
  <2>4. LeaseCovers'
    BY <1>4 DEF Signals, LeaseCovers, OwnLease, IsAlive, Alive
  <2>5. LeaseExplained'
    BY <1>4 DEF Signals, LeaseExplained, Explains, OwnLease
  <2>6. CancelsExplained'
    BY <1>4 DEF Signals, CancelsExplained, Explains, OwnLease
  <2> QED
    BY <2>1, <2>2, <2>3, <2>4, <2>5, <2>6
<1>5. CASE Concludes(c)
  <2>a. UNCHANGED <<active, pc, child, tombstone>> /\ cancel[c].pc = "struck"
    BY <1>5 DEF Concludes
  <2>b. \/ lease' = lease
        \/ lease' = "none" /\ ~Matches(cancel[c].identity)
    BY <1>5 DEF Concludes
  <2>c. \A d \in Cancellers :
          /\ cancel'[d].identity = cancel[d].identity
          /\ IF d = c THEN cancel'[d].pc \in {"confirmed", "unconfirmed"}
             ELSE cancel'[d].pc = cancel[d].pc
    BY <1>5 DEF Concludes, Cancels
  <2>d. \/ lease' = lease
        \/ \A h \in Helpers : pc[h] \notin OwnLease /\ (IsAlive(h) => child[h] = "none")
    BY <2>a, <2>b, GoneMeansStopped
  <2>1. RunFollowsPrepare'
    BY <2>a DEF RunFollowsPrepare
  <2>2. LeaseHeld'
    <3>1. CASE lease' = lease
      BY <2>a, <3>1 DEF LeaseHeld
    <3>2. CASE \A h \in Helpers : pc[h] \notin OwnLease
      BY <2>a, <3>2 DEF LeaseHeld
    <3> QED
      BY <2>d, <3>1, <3>2
  <2>3. ChildFits'
    BY <2>a DEF ChildFits
  <2>4. LeaseCovers'
    <3>1. CASE lease' = lease
      BY <2>a, <3>1 DEF LeaseCovers, IsAlive
    <3>2. CASE \A h \in Helpers : IsAlive(h) => child[h] = "none"
      BY <2>a, <3>2 DEF LeaseCovers, IsAlive
    <3> QED
      BY <2>d, <3>1, <3>2
  <2>5. LeaseExplained'
    BY <2>a, <2>b DEF LeaseExplained, Explains
  <2>6. CancelsExplained'
    BY <2>a, <2>c DEF CancelsExplained, Explains, OwnLease
  <2> QED
    BY <2>1, <2>2, <2>3, <2>4, <2>5, <2>6
<1> QED
  BY <1>1, <1>2, <1>3, <1>4, <1>5 DEF CancelStep

\* The inductive invariant, and with it that every git and every agent of a living
\* helper can be found through the lease.
THEOREM LeaseInvariant == Spec => []LeaseInv
<1>1. Init => LeaseInv
  BY InitInv
<1>2. LeaseInv /\ [Next]_vars => LeaseInv'
  <2> SUFFICES ASSUME LeaseInv, [Next]_vars PROVE LeaseInv'
    OBVIOUS
  <2>1. TypeOK'
    BY TypesKept DEF LeaseInv
  <2>2. CASE GivesUp
    BY <2>1, <2>2 DEF GivesUp, LeaseInv, LeaseCovers, RunFollowsPrepare, LeaseHeld,
                      ChildFits, LeaseExplained, CancelsExplained, Explains, IsAlive
  <2>3. ASSUME NEW h \in Helpers, Sends(h) \/ Arrives(h) \/ HelperStep(h)
        PROVE  LeaseInv'
    BY <2>1, <2>3, HelperKeeps DEF LeaseInv
  <2>4. ASSUME NEW h \in Helpers, ChildEnds(h) \/ HelperDies(h)
        PROVE  LeaseInv'
    BY <2>1, <2>4, HostKeeps DEF LeaseInv
  <2>5. ASSUME NEW c \in Cancellers, SendsCancel(c) \/ CancelStep(c) \/ CancellerDies(c)
        PROVE  LeaseInv'
    BY <2>1, <2>5, CancelKeeps DEF LeaseInv
  <2>6. CASE UNCHANGED vars
    BY <2>1, <2>6 DEF vars, LeaseInv, LeaseCovers, RunFollowsPrepare, LeaseHeld,
                      ChildFits, LeaseExplained, CancelsExplained, Explains, IsAlive
  <2> QED
    BY <2>2, <2>3, <2>4, <2>5, <2>6 DEF Next
<1> QED
  BY <1>1, <1>2, PTL DEF Spec

-----------------------------------------------------------------------------
(* The refinement *)

\* Once nothing may run, no step lets anything run again.
LEMMA StaysStopped ==
  ASSUME LeaseInv, [Next]_vars, ~MayRun
  PROVE  ~MayRun'
<1> USE DEF LeaseInv, TypeOK, Helpers
<1>1. \A h \in Helpers : ~MayStart(h) /\ (child[h] # "none" => Orphan(h))
  BY DEF MayRun
<1>2. \A h \in Helpers : IsAlive(h) => child[h] = "none"
  BY <1>1 DEF Orphan
<1> USE <1>1, <1>2 DEF MayRun, MayStart, Orphan, IsAlive, Alive
<1>3. CASE GivesUp
  BY <1>3 DEF GivesUp
<1>4. ASSUME NEW h \in Helpers, Sends(h) \/ Arrives(h) \/ ChildEnds(h) \/ HelperDies(h)
      PROVE  ~MayRun'
  <2>1. CASE Sends(h)
    BY <2>1 DEF Sends
  <2>2. CASE Arrives(h)
    BY <2>2 DEF Arrives, MovesTo, ChildFits
  <2>3. CASE ChildEnds(h)
    BY <2>3 DEF ChildEnds
  <2>4. CASE HelperDies(h)
    BY <2>4 DEF HelperDies, MovesTo
  <2> QED
    BY <1>4, <2>1, <2>2, <2>3, <2>4
<1>5. ASSUME NEW h \in Helpers, HelperStep(h)
      PROVE  ~MayRun'
  <2>1. CASE ChecksTombstone(h)
    BY <2>1 DEF ChecksTombstone, MovesTo
  <2>2. CASE ForksGit(h) \/ Ensures(h)
    BY <2>2 DEF ForksGit, Ensures
  <2>3. CASE Ends(h)
    BY <2>3 DEF Ends, MovesTo
  <2>4. CASE h = "run" /\ ChecksAgain
    BY <2>4 DEF ChecksAgain, MovesTo
  <2>5. CASE h = "run" /\ ForksAgent
    BY <2>5 DEF ForksAgent
  <2>6. CASE h = "run" /\ SavesIdentity
    <3>1. child["run"] = "none" /\ child["prepare"] # "agent"
      BY <2>6 DEF SavesIdentity, RunFollowsPrepare
    <3> QED
      BY <2>6, <3>1 DEF SavesIdentity, MovesTo
  <2>7. CASE h = "run" /\ SeesAgentEnd
    BY <2>7 DEF SeesAgentEnd, MovesTo
  <2> QED
    BY <1>5, <2>1, <2>2, <2>3, <2>4, <2>5, <2>6, <2>7 DEF HelperStep
<1>6. ASSUME NEW c \in Cancellers, SendsCancel(c) \/ CancelStep(c) \/ CancellerDies(c)
      PROVE  ~MayRun'
  <2>1. CASE SendsCancel(c) \/ Loads(c) \/ Aims(c) \/ CancellerDies(c)
    BY <2>1 DEF SendsCancel, Loads, Aims, CancellerDies
  <2>2. CASE Marks(c)
    BY <2>2 DEF Marks
  <2>3. CASE Signals(c)
    BY <2>3 DEF Signals
  <2>4. CASE Concludes(c)
    BY <2>4 DEF Concludes
  <2> QED
    BY <1>6, <2>1, <2>2, <2>3, <2>4 DEF CancelStep
<1>7. CASE UNCHANGED vars
  BY <1>7 DEF vars
<1> QED
  BY <1>3, <1>4, <1>5, <1>6, <1>7 DEF Next

\* A step that makes a cancel answer confirmed_safe leaves nothing that may run.
LEMMA ConfirmsStopped ==
  ASSUME LeaseInv, [Next]_vars, ~Confirmed, Confirmed'
  PROVE  ~MayRun'
<1> USE DEF LeaseInv, TypeOK, Helpers
<1>1. PICK c \in Cancellers : cancel[c].pc # "confirmed" /\ cancel'[c].pc = "confirmed"
  BY DEF Confirmed
<1>2. Loads(c) \/ Concludes(c)
  <2>1. cancel' # cancel
    BY <1>1
  <2>2. ~GivesUp /\ ~UNCHANGED vars
    BY <2>1 DEF GivesUp, vars
  <2>3. ASSUME NEW h \in Helpers
        PROVE  ~Sends(h) /\ ~Arrives(h) /\ ~HelperStep(h) /\ ~HelperDies(h)
    BY <2>1 DEF Sends, Arrives, HelperDies, HelperStep, ChecksTombstone, ForksGit, Ensures,
                Ends, ChecksAgain, ForksAgent, SavesIdentity, SeesAgentEnd
  <2>4. ASSUME NEW h \in Helpers
        PROVE  ~ChildEnds(h)
    BY <1>1 DEF ChildEnds, Cancels
  <2>5. ASSUME NEW d \in Cancellers, d # c
        PROVE  ~SendsCancel(d) /\ ~CancelStep(d) /\ ~CancellerDies(d)
    BY <1>1, <2>5 DEF SendsCancel, CancelStep, CancellerDies, Marks, Loads, Aims, Signals,
                      Concludes
  <2>6. ~SendsCancel(c) /\ ~CancellerDies(c) /\ ~Marks(c)
    BY <1>1 DEF SendsCancel, CancellerDies, Marks, Cancels
  <2>7. ~Aims(c) /\ ~Signals(c)
    BY <1>1 DEF Aims, Signals, Cancels
  <2> QED
    BY <2>2, <2>3, <2>4, <2>5, <2>6, <2>7 DEF Next, CancelStep
<1>3. ~active /\ tombstone
  BY <1>2 DEF Loads, Concludes, CancelsExplained
<1>4. CASE Loads(c)
  <2>1. lease = "none" /\ UNCHANGED <<active, pc, child, lease, tombstone>>
    BY <1>1, <1>4 DEF Loads, Cancels
  <2>2. \A h \in Helpers : pc[h] \notin OwnLease /\ (IsAlive(h) => child[h] = "none")
    BY <2>1 DEF LeaseHeld, LeaseCovers
  <2> QED
    BY <1>3, <2>1, <2>2 DEF MayRun, MayStart, Orphan, IsAlive, OwnLease
<1>5. CASE Concludes(c)
  <2>1. /\ cancel[c].pc = "struck" /\ ~Matches(cancel[c].identity)
        /\ lease' = "none" /\ UNCHANGED <<active, pc, child, tombstone>>
    BY <1>1, <1>5 DEF Concludes, Cancels
  <2>2. \A h \in Helpers : pc[h] \notin OwnLease /\ (IsAlive(h) => child[h] = "none")
    BY <2>1, GoneMeansStopped
  <2> QED
    BY <1>3, <2>1, <2>2 DEF MayRun, MayStart, Orphan, IsAlive, OwnLease
<1> QED
  BY <1>2, <1>4, <1>5

\* No step takes a confirmation back.
LEMMA StaysConfirmed ==
  ASSUME TypeOK, [Next]_vars, Confirmed
  PROVE  Confirmed'
<1>1. PICK c \in Cancellers : cancel[c].pc = "confirmed"
  BY DEF Confirmed
<1> SUFFICES cancel'[c].pc = "confirmed"
  BY DEF Confirmed
<1> USE <1>1 DEF TypeOK
<1>2. CASE GivesUp \/ UNCHANGED vars
  BY <1>2 DEF GivesUp, vars
<1>3. ASSUME NEW h \in Helpers, Sends(h) \/ Arrives(h) \/ HelperStep(h) \/ HelperDies(h)
      PROVE  cancel'[c].pc = "confirmed"
  BY <1>3 DEF Sends, Arrives, HelperDies, HelperStep, ChecksTombstone, ForksGit, Ensures,
              Ends, ChecksAgain, ForksAgent, SavesIdentity, SeesAgentEnd
<1>4. ASSUME NEW h \in Helpers, ChildEnds(h)
      PROVE  cancel'[c].pc = "confirmed"
  BY <1>4 DEF ChildEnds, Cancels
<1>5. ASSUME NEW d \in Cancellers, SendsCancel(d) \/ CancelStep(d) \/ CancellerDies(d)
      PROVE  cancel'[c].pc = "confirmed"
  BY <1>5 DEF SendsCancel, CancelStep, CancellerDies, Marks, Loads, Aims, Signals, Concludes
<1> QED
  BY <1>2, <1>3, <1>4, <1>5 DEF Next

\* The lease protocol implements the fence: once a cancel is answered confirmed_safe,
\* nothing of the attempt that is no orphan runs or will ever start.
THEOREM LeaseFences == Spec => Fenced
<1>1. Init => Fence!Init
  BY DEF Init, Fence!Init, MayRun, MayStart, Confirmed, Helpers
<1>2. LeaseInv /\ [Next]_vars => [Fence!Next]_<<MayRun, Confirmed>>
  <2> SUFFICES ASSUME LeaseInv, [Next]_vars
               PROVE  [Fence!Next]_<<MayRun, Confirmed>>
    OBVIOUS
  <2>1. Confirmed => Confirmed'
    BY StaysConfirmed DEF LeaseInv
  <2>2. ~MayRun => ~MayRun'
    BY StaysStopped
  <2>3. ~Confirmed /\ Confirmed' => ~MayRun'
    BY ConfirmsStopped
  <2>4. (MayRun <=> MayRun') => MayRun' = MayRun
    BY DEF MayRun
  <2>5. (Confirmed <=> Confirmed') => Confirmed' = Confirmed
    BY DEF Confirmed
  <2>6. (Confirmed' <=> TRUE) => Confirmed' = TRUE
    BY DEF Confirmed
  <2>7. ~MayRun' => MayRun' = FALSE
    BY DEF MayRun
  <2>8. CASE MayRun <=> MayRun'
    <3>1. CASE Confirmed <=> Confirmed'
      BY <2>4, <2>5, <2>8, <3>1
    <3>2. CASE ~Confirmed /\ Confirmed'
      BY <2>3, <2>6, <2>7, <3>2 DEF Fence!Next, Fence!Confirms
    <3> QED
      BY <2>1, <3>1, <3>2
  <2>9. CASE MayRun /\ ~MayRun'
    BY <2>1, <2>5, <2>6, <2>7, <2>9 DEF Fence!Next, Fence!Ends, Fence!Confirms
  <2> QED
    BY <2>2, <2>8, <2>9
<1> QED
  BY <1>1, <1>2, LeaseInvariant, PTL DEF Spec, Fenced, Fence!Spec
=============================================================================
