---------------------------- MODULE CycleProofs ----------------------------
(* Proofs about AttemptCycle: its inductive invariant and what follows. *)
EXTENDS AttemptCycle, Integers, WellFoundedInduction, TLAPS

\* A count that went up by one and was capped is a failure count past zero.
LEMMA CountedIsCount ==
    ASSUME NEW n \in FailureCounts
    PROVE Lesser(n + 1, MaxExponent + 2) \in FailureCounts \ {0}
  BY CycleAssumption DEF FailureCounts, Lesser

\* What SchedulesFailure leaves is a record, and it keeps what CycleInv says of
\* sessions.
LEMMA FailureKeepsRecords ==
    ASSUME NEW r \in Records, NEW handler \in {"none", "mend"},
           durable \in Records, last \in RetryDelays \cup {0}, streak \in Nat,
           undone \in Nat, SchedulesFailure(r, handler)
    PROVE  /\ durable' \in Records /\ local' \in Records
           /\ last' \in RetryDelays \cup {0} /\ streak' \in Nat /\ undone' \in Nat
           /\ pc' \in {"none", "mend", handler}
           /\ pc' = "none" => local' = durable'
           /\ \/ /\ local'.session = r.session /\ local'.target = r.target
                 /\ local'.attempted = r.attempted
              \/ local' = durable
           /\ \/ durable' = durable
              \/ durable' = local'
  <1> DEFINE counted == [r EXCEPT !.failures = Lesser(r.failures + 1, MaxExponent + 2),
                                  !.index = 0]
  <1>1. counted.failures \in FailureCounts \ {0} /\ counted \in Records
    BY CountedIsCount DEF Records
  <1>2. CASE /\ Overflows(counted.failures)
             /\ pc' = handler
             /\ local' = IF handler = "none" THEN durable ELSE counted
             /\ UNCHANGED <<durable, streak, last, undone>>
    BY <1>1, <1>2 DEF Records
  <1>3. CASE /\ ~Overflows(counted.failures)
             /\ Stores([counted EXCEPT !.phase = "retry_wait",
                                       !.delay = RetryDelay(counted.failures)],
                       handler)
             /\ streak' = 0 /\ undone' = 0
             /\ last' = RetryDelay(counted.failures)
    <2>1. RetryDelay(counted.failures) \in RetryDelays
      BY <1>1 DEF RetryDelays
    <2> DEFINE saved == [counted EXCEPT !.phase = "retry_wait",
                                        !.delay = RetryDelay(counted.failures)]
    <2>2. /\ saved \in Records /\ saved.session = r.session
          /\ saved.target = r.target /\ saved.attempted = r.attempted
      BY <1>1, <2>1 DEF Records, Phases, Delays
    <2>3. durable' = saved /\ local' = saved /\ pc' \in {"none", handler}
      BY <1>3 DEF Stores
    <2> QED BY <2>1, <2>2, <2>3, <1>3
  <1> QED BY <1>2, <1>3 DEF SchedulesFailure

\* The same of SchedulesContinuation.
LEMMA ContinuationKeepsRecords ==
    ASSUME NEW r \in Records, last \in RetryDelays \cup {0}, streak \in Nat,
           undone \in Nat, SchedulesContinuation(r)
    PROVE  /\ durable' \in Records /\ local' = durable'
           /\ last' \in RetryDelays \cup {0} /\ streak' \in Nat /\ undone' \in Nat
           /\ pc' \in {"none", "mend"}
           /\ local'.session = r.session /\ local'.target = r.target
           /\ local'.attempted = r.attempted
  <1> DEFINE wait == IF YieldsAt(r.index + 1) THEN Greater(ContinuationDelay, Yield)
                     ELSE ContinuationDelay
             saved == [r EXCEPT !.failures = 0, !.index = r.index + 1,
                                !.phase = "continuation_wait", !.delay = wait]
  <1>1. wait \in Delays
    BY DEF Delays, Greater
  <1>2. 0 \in FailureCounts
    BY CycleAssumption DEF FailureCounts
  <1>3. /\ saved \in Records /\ saved.session = r.session
        /\ saved.target = r.target /\ saved.attempted = r.attempted
    <2> HIDE DEF wait
    <2> DEFINE next == r.index + 1
    <2>1. next \in Nat
      BY DEF Records
    <2>1a. saved = [r EXCEPT !.failures = 0, !.index = next,
                            !.phase = "continuation_wait", !.delay = wait]
      OBVIOUS
    <2> HIDE DEF next, saved
    <2>2. saved = [phase |-> "continuation_wait", attempted |-> r.attempted,
                   failures |-> 0, index |-> next, session |-> r.session,
                   target |-> r.target, delay |-> wait]
      BY <2>1a DEF Records
    <2>3. r \in Records
      OBVIOUS
    <2>4. saved \in Records
      BY <1>1, <1>2, <2>1, <2>2, <2>3 DEF Records, Phases
    <2>5. /\ saved.session = r.session
          /\ saved.target = r.target /\ saved.attempted = r.attempted
      BY <2>2
    <2> QED BY <2>4, <2>5
  <1>4. durable' = saved /\ local' = saved /\ pc' \in {"none", "mend"}
    BY DEF SchedulesContinuation, Stores
  <1>5. last' \in RetryDelays \cup {0} /\ streak' \in Nat /\ undone' \in Nat
    BY DEF SchedulesContinuation
  <1> HIDE DEF saved
  <1> QED BY <1>3, <1>4, <1>5

\* Settling a record touches no session.
LEMMA SettledRecord ==
    ASSUME NEW r \in Records, NEW phase \in Phases
    PROVE  /\ Settled(r, phase) \in Records
           /\ Settled(r, phase).session = r.session
           /\ Settled(r, phase).target = r.target
           /\ Settled(r, phase).attempted = r.attempted
  BY DEF Settled, Records, Delays

\* A record placed on a target has a session of that target or none.
LEMMA MovedRecord ==
    ASSUME NEW r \in Records, NEW t \in Targets,
           r.session \in {NoTarget, r.target}
    PROVE  /\ Moved(r, t) \in Records
           /\ Moved(r, t).target = t
           /\ Moved(r, t).session \in {NoTarget, t}
           /\ Moved(r, t).attempted = r.attempted
           /\ Moved(r, t).session # NoTarget => r.session # NoTarget
  BY CycleAssumption DEF Moved, Records

\* What CycleInv says of every record, and what it says besides.
Sound(r) ==
    /\ r \in Records
    /\ r.session \in {NoTarget, r.target}
    /\ r.session # NoTarget => r.attempted

Around ==
    /\ pc \in {"none", "prepare", "agent", "refresh", "blocking", "mend", "abort"}
    /\ mode \in {"none", "first", "native", "stateless"}
    /\ outcome \in {"none", "clean_exit", "failed", "cancelled"}
    /\ spoiled \in BOOLEAN
    /\ streak \in Nat /\ last \in RetryDelays \cup {0} /\ undone \in Nat
    /\ pc = "none" => local = durable
    /\ pc \in {"agent", "refresh"} /\ mode = "native" => local.session # NoTarget
    /\ pc # "none" => local.target # NoTarget

LEMMA CycleInit == Init => CycleInv
  <1> SUFFICES ASSUME Init PROVE CycleInv
    OBVIOUS
  <1>1. 0 \in FailureCounts /\ 0 \in Delays
    BY CycleAssumption DEF FailureCounts, Delays
  <1>2. durable \in Records
    BY <1>1 DEF Init, Records, Phases
  <1>3. CycleTypeOK
    <2>1. local = durable /\ held = {}
      BY DEF Init
    <2>2. /\ pc = "none" /\ mode = "none" /\ outcome = "none"
          /\ spoiled = FALSE /\ streak = 0 /\ last = 0 /\ undone = 0
      BY DEF Init
    <2> QED BY <1>2, <2>1, <2>2 DEF CycleTypeOK
  <1>4. /\ durable.session = NoTarget /\ durable.target = NoTarget
        /\ local = durable /\ pc = "none"
    BY DEF Init
  <1>5. held = {}
    BY DEF Init
  <1> QED BY <1>3, <1>4, <1>5 DEF CycleInv

LEMMA CycleStep == CycleInv /\ [Next]_vars => CycleInv'
  <1> SUFFICES ASSUME CycleInv, [Next]_vars PROVE CycleInv'
    OBVIOUS
  <1>a. /\ Sound(local) /\ Sound(durable) /\ local.target = durable.target
        /\ \A r \in held : Sound(r) /\ r.target = durable.target
        /\ held \subseteq Records
    BY DEF CycleInv, CycleTypeOK, Sound
  <1>b. Around
    BY DEF CycleInv, CycleTypeOK, Around
  <1>c. ASSUME Sound(local'), Sound(durable'), local'.target = durable'.target,
               \A r \in held' : Sound(r) /\ r.target = durable'.target, Around'
        PROVE  CycleInv'
    <2>1. held' \subseteq Records
      BY <1>c DEF Sound
    <2>2. CycleTypeOK'
      BY <1>c, <2>1 DEF CycleTypeOK, Around, Sound
    <2> QED BY <1>c, <2>2 DEF CycleInv, Around, Sound
  \* What every step of an attempt does to records.
  <1>d. ASSUME Sound(local'), Sound(durable'), held' \subseteq held,
               local'.target = local.target, durable'.target = durable.target, Around'
        PROVE  CycleInv'
    BY <1>a, <1>c, <1>d
  <1>1. ASSUME NEW t \in Targets, Dispatches(t) PROVE CycleInv'
    <2> DEFINE placed == Moved(durable, t)
    <2>1. /\ placed \in Records /\ placed.target = t
          /\ placed.session \in {NoTarget, t}
          /\ placed.attempted = durable.attempted
          /\ placed.session # NoTarget => durable.session # NoTarget
      BY <1>a, MovedRecord DEF Sound
    <2> HIDE DEF placed
    <2>2. durable' = Settled(placed, "running")
      BY <1>1 DEF Dispatches, placed
    <2>3. /\ durable' \in Records /\ durable'.target = t
          /\ durable'.session = placed.session
          /\ durable'.attempted = durable.attempted
      BY <2>1, <2>2, SettledRecord DEF Phases
    <2>4. Sound(durable') /\ local' = durable' /\ held' = {}
      BY <1>1, <1>a, <2>1, <2>3 DEF Dispatches, Sound
    <2>5. Around'
      BY <1>1, <1>b, <2>3, <2>4, CycleAssumption DEF Dispatches, Around
    <2> QED BY <1>c, <2>4, <2>5
  <1>2. ASSUME Prepared PROVE CycleInv'
    <2>1. UNCHANGED <<durable, local, held>>
      BY <1>2 DEF Prepared
    <2>2. Around'
      BY <1>2, <1>b DEF Prepared, Route, Around, history
    <2> QED BY <1>a, <1>d, <2>1, <2>2
  <1>3. ASSUME NEW result \in {"clean_exit", "failed", "cancelled"},
               NEW reported \in BOOLEAN, NEW safe \in BOOLEAN,
               AgentReturns(result, reported, safe)
        PROVE CycleInv'
    <2> DEFINE noted == [local EXCEPT !.attempted = TRUE,
                                      !.session = IF reported THEN local.target
                                                  ELSE local.session]
    <2>1. /\ noted \in Records /\ noted.target = local.target
          /\ noted.session \in {NoTarget, noted.target} /\ noted.attempted
          /\ local.session # NoTarget => noted.session # NoTarget
      <3>1. local.target # NoTarget
        BY <1>3, <1>b DEF AgentReturns, Around
      <3> QED BY <3>1, <1>a DEF Records, Sound
    <2> HIDE DEF noted
    <2>2. /\ Settled(noted, "blocked") \in Records
          /\ Settled(noted, "blocked").session = noted.session
          /\ Settled(noted, "blocked").target = noted.target
          /\ Settled(noted, "blocked").attempted = noted.attempted
      BY <2>1, SettledRecord DEF Phases
    <2>3. /\ local' = IF safe THEN noted ELSE Settled(noted, "blocked")
          /\ durable' = IF safe THEN noted ELSE durable
      BY <1>3 DEF AgentReturns, noted
    <2>4. /\ pc = "agent" /\ pc' = IF safe THEN "refresh" ELSE "blocking"
          /\ outcome' = result /\ spoiled' \in BOOLEAN /\ held' = held
          /\ mode' = mode /\ streak' = streak /\ last' = last /\ undone' = undone
      BY <1>3, <1>b DEF AgentReturns, Around
    <2>5. /\ Sound(local') /\ Sound(durable')
          /\ local'.target = local.target /\ durable'.target = durable.target
          /\ local.session # NoTarget => local'.session # NoTarget
      BY <1>a, <2>1, <2>2, <2>3 DEF Sound
    <2>6. Around'
      BY <1>b, <2>4, <2>5 DEF Around
    <2> QED BY <1>d, <2>4, <2>5, <2>6
  \* A failure scheduled with local or what became of it in memory.
  <1>4. ASSUME NEW r \in Records, NEW handler \in {"none", "mend"}, Sound(r),
               r.target = local.target, pc # "none",
               SchedulesFailure(r, handler), UNCHANGED <<held, mode, outcome>>,
               spoiled' \in BOOLEAN
        PROVE  CycleInv'
    <2>1. /\ durable' \in Records /\ local' \in Records
          /\ last' \in RetryDelays \cup {0} /\ streak' \in Nat /\ undone' \in Nat
          /\ pc' \in {"none", "mend"}
          /\ pc' = "none" => local' = durable'
          /\ \/ /\ local'.session = r.session /\ local'.target = r.target
                /\ local'.attempted = r.attempted
             \/ local' = durable
          /\ \/ durable' = durable
             \/ durable' = local'
      BY <1>4, <1>a, <1>b, FailureKeepsRecords DEF Sound, Around
    <2>2. Sound(local') /\ local'.target = local.target
      BY <1>4, <1>a, <2>1 DEF Sound
    <2>3. Sound(durable') /\ durable'.target = durable.target
      BY <1>a, <2>1, <2>2
    <2>4. Around'
      BY <1>4, <1>b, <2>1, <2>2 DEF Around
    <2> QED BY <1>4, <1>d, <2>2, <2>3, <2>4
  \* A record saved in the place of both.
  <1>5. ASSUME NEW r, Sound(r), r.target = local.target, durable' = r, local' = r,
               pc' \in {"none", "mend"}, pc # "none" \/ pc' = "none",
               held' \subseteq held, UNCHANGED <<mode, outcome>>,
               spoiled' \in BOOLEAN, streak' \in Nat, undone' \in Nat,
               last' \in RetryDelays \cup {0}
        PROVE  CycleInv'
    <2>1. Around'
      BY <1>5, <1>b DEF Around
    <2> QED BY <1>5, <1>a, <1>d, <2>1
  <1>6. ASSUME NEW phase \in Phases, NEW r, Sound(r)
        PROVE  Sound(Settled(r, phase)) /\ Settled(r, phase).target = r.target
    BY <1>6, SettledRecord DEF Sound
  <1>7. ASSUME TrackerFails PROVE CycleInv'
    BY <1>4, <1>7, <1>a, <1>b DEF TrackerFails, Sound, Around
  <1>8. ASSUME FindsInactive PROVE CycleInv'
    BY <1>5, <1>6, <1>8, <1>a, <1>b DEF FindsInactive, Stores, Phases, Around, history
  <1>9. ASSUME FindsActiveAfterFailure PROVE CycleInv'
    <2>1. Sound(Abandoned(local)) /\ Abandoned(local).target = local.target
      BY <1>a DEF Abandoned, Records, Sound
    <2> QED BY <1>4, <1>9, <1>b, <2>1 DEF FindsActiveAfterFailure, Sound, Around
  <1>10. ASSUME FindsActive, ~FindsActiveAfterFailure PROVE CycleInv'
    <2>1. pc = "refresh" /\ UNCHANGED <<held, mode, outcome, spoiled>>
      BY <1>10 DEF FindsActive
    <2>2. CASE SchedulesContinuation(local)
      <3>1. /\ durable' \in Records /\ local' = durable'
            /\ last' \in RetryDelays \cup {0} /\ streak' \in Nat /\ undone' \in Nat
            /\ pc' \in {"none", "mend"}
            /\ local'.session = local.session /\ local'.target = local.target
            /\ local'.attempted = local.attempted
        BY <1>a, <1>b, <2>2, ContinuationKeepsRecords DEF Sound, Around
      <3>2. Sound(durable')
        BY <1>a, <3>1 DEF Sound
      <3> QED BY <1>5, <1>b, <2>1, <3>1, <3>2 DEF Around
    <2>3. CASE Stores(Settled(local, "ready"), "mend") /\ UNCHANGED <<streak, last, undone>>
      BY <1>5, <1>6, <1>a, <1>b, <2>1, <2>3 DEF Stores, Phases, Around
    <2> QED BY <1>10, <2>2, <2>3 DEF FindsActive
  <1>11. ASSUME Blocks PROVE CycleInv'
    BY <1>5, <1>11, <1>a, <1>b DEF Blocks, Stores, Around, history
  <1>12. ASSUME Raises \/ PassesOver PROVE CycleInv'
    <2>1. /\ UNCHANGED <<durable, local, mode, outcome, history>> /\ held' \subseteq held
          /\ pc' = pc \/ (pc' = "mend" /\ pc # "none")
      BY <1>12 DEF Raises, PassesOver
    <2>2. Around'
      BY <1>b, <2>1 DEF Around, history
    <2> QED BY <1>a, <1>d, <2>1, <2>2
  <1>13. ASSUME Cancels PROVE CycleInv'
    <2>1. /\ UNCHANGED <<durable, held, mode, outcome, history>>
          /\ \/ pc' = "abort" /\ pc # "none" /\ local' = local
             \/ pc' = "none" /\ local' = durable
      BY <1>13 DEF Cancels
    <2>2. Around'
      BY <1>b, <2>1 DEF Around, history
    <2> QED BY <1>a, <1>d, <2>1, <2>2
  <1>14. ASSUME NEW safe \in BOOLEAN, Mends(safe) PROVE CycleInv'
    <2> DEFINE noted == [local EXCEPT !.attempted = TRUE]
    <2>1. Sound(noted) /\ noted.target = local.target
      BY <1>a DEF Records, Sound
    <2> HIDE DEF noted
    <2>2. pc = "mend" /\ UNCHANGED <<held, mode, outcome, spoiled>>
      BY <1>14 DEF Mends
    <2>3. CASE SchedulesFailure(noted, "none")
      BY <1>4, <1>b, <2>1, <2>2, <2>3 DEF Sound, Around
    <2>4. CASE Stores(Settled(noted, "blocked"), "none") /\ UNCHANGED <<streak, last, undone>>
      BY <1>5, <1>6, <1>b, <2>1, <2>2, <2>4 DEF Stores, Phases, Around
    <2> QED BY <1>14, <2>3, <2>4 DEF Mends, noted
  <1>15. ASSUME NEW safe \in BOOLEAN, Aborts(safe) PROVE CycleInv'
    <2>1. PICK phase \in Phases : Stores(Settled(local, phase), "none")
      BY <1>15 DEF Aborts, Phases
    <2> QED BY <1>5, <1>6, <1>15, <1>a, <1>b, <2>1 DEF Aborts, Stores, Around, history
  <1>16. ASSUME NEW phase \in Phases, pc = "none", Becomes(phase) PROVE CycleInv'
    BY <1>5, <1>6, <1>16, <1>a, <1>b DEF Becomes, Around, history
  <1>17. ASSUME \/ \E safe \in BOOLEAN : FindsStale(safe)
                \/ Unblocks \/ Reactivates \/ DelayEnds
         PROVE  CycleInv'
    <2>1. PICK phase \in Phases : pc = "none" /\ Becomes(phase)
      BY <1>17, <1>a DEF FindsStale, Unblocks, Reactivates, DelayEnds,
         Phases, Records, Sound
    <2> QED BY <1>16, <2>1
  <1>18. ASSUME Loads PROVE CycleInv'
    <2>1. UNCHANGED <<durable, local, pc, mode, outcome, history>> /\ held' = {durable}
      BY <1>18 DEF Loads
    <2>2. Around'
      BY <1>b, <2>1 DEF Around, history
    <2> QED BY <1>a, <1>c, <2>1, <2>2
  <1>19. ASSUME NEW r, Sound(r), r.target = durable.target, TakesBack(r) PROVE CycleInv'
    BY <1>5, <1>19, <1>a, <1>b DEF TakesBack, Around
  <1>20. ASSUME WritesBack \/ Releases PROVE CycleInv'
    <2>1. \/ pc = "none" /\ Becomes("released")
          \/ \E r \in held : TakesBack(r) \/ (\E phase \in Phases : TakesBack(Settled(r, phase)))
      BY <1>20, <1>a DEF WritesBack, Releases, Phases, Records, Sound
    <2> QED BY <1>6, <1>16, <1>19, <1>a, <2>1 DEF Phases
  <1>21. ASSUME Restarts PROVE CycleInv'
    <2>1. PICK phase \in Phases : durable' = Settled(durable, phase) /\ local' = durable'
      BY <1>21 DEF Restarts, Phases
    <2>2. /\ pc' = "none" /\ held' = {} /\ spoiled' \in BOOLEAN
          /\ UNCHANGED <<mode, outcome, streak, last, undone>>
      BY <1>21, <1>b DEF Restarts, Around
    <2> QED BY <1>5, <1>6, <1>a, <1>b, <2>1, <2>2 DEF Around
  <1>22. ASSUME UNCHANGED vars PROVE CycleInv'
    <2>1. UNCHANGED <<durable, local, held>>
      BY <1>22 DEF vars
    <2>2. Around'
      BY <1>22, <1>b DEF vars, Around
    <2> QED BY <1>a, <1>d, <2>1, <2>2
  <1> QED
    BY <1>1, <1>2, <1>3, <1>7, <1>8, <1>9, <1>10, <1>11, <1>12, <1>13, <1>14, <1>15,
       <1>17, <1>18, <1>20, <1>21, <1>22 DEF Next

\* The inductive invariant of the attempt cycle holds for every number of
\* targets, every retry and continuation setting and every set of faults.
THEOREM CycleCorrect == Spec => []CycleInv
  BY CycleInit, CycleStep, PTL DEF Spec

\* A native session is resumed on the target whose agent reported it.
THEOREM SessionScoped == Spec => []SessionOnItsTarget
  <1>1. CycleInv => SessionOnItsTarget
    BY DEF CycleInv, SessionOnItsTarget
  <1> QED BY <1>1, CycleCorrect, PTL

-----------------------------------------------------------------------------
(* Powers and remainders.  The library's induction theorems take an         *)
(* operator as parameter; here the induction hypothesis is a set.           *)

LEMMA NatSetInduction ==
    ASSUME NEW S, 0 \in S, \A n \in Nat : n \in S => n + 1 \in S
    PROVE  Nat \subseteq S
  <1> DEFINE T == Nat \ S
  <1>1. SUFFICES ASSUME T # {} PROVE FALSE
    OBVIOUS
  <1> HIDE DEF T
  <1>2. \E x \in T : \A y \in T : ~(<<y, x>> \in OpToRel(<, Nat))
    BY WFMin, NatLessThanWellFounded, <1>1, Zenon DEF T
  <1>3. PICK x \in T : \A y \in T : ~(<<y, x>> \in OpToRel(<, Nat))
    BY <1>2
  <1>4. \A y \in T : ~(y < x)
    BY <1>3 DEF OpToRel, T
  <1>5. x \in Nat /\ x # 0 /\ x - 1 \in Nat /\ x - 1 < x /\ (x - 1) + 1 = x
    BY DEF T
  <1>6. x - 1 \in S
    BY <1>4, <1>5 DEF T
  <1> QED BY <1>5, <1>6 DEF T

\* g is Power as far as n.
PowerUpTo(g, n) == g = [m \in 0 .. n |-> IF m = 0 THEN 1 ELSE Multiplier * g[m - 1]]

LEMMA PowerUpToExists == \A n \in Nat : \E g : PowerUpTo(g, n)
  <1> DEFINE S == {n \in Nat : \E g : PowerUpTo(g, n)}
  <1>1. 0 \in S
    <2>1. PowerUpTo([m \in 0 .. 0 |-> 1], 0)
      BY DEF PowerUpTo
    <2> QED BY <2>1
  <1>2. ASSUME NEW n \in Nat, n \in S PROVE n + 1 \in S
    <2>1. PICK g : PowerUpTo(g, n)
      BY <1>2
    <2> DEFINE h == [m \in 0 .. n + 1 |-> IF m = 0 THEN 1 ELSE Multiplier * g[m - 1]]
    <2>2. \A m \in 0 .. n : h[m] = g[m]
      BY <2>1 DEF PowerUpTo
    <2>3. \A m \in 0 .. n + 1 : m # 0 => h[m - 1] = g[m - 1]
      <3>1. \A m \in 0 .. n + 1 : m # 0 => m - 1 \in 0 .. n
        OBVIOUS
      <3> HIDE DEF h
      <3> QED BY <2>2, <3>1
    <2>4. PowerUpTo(h, n + 1)
      BY <2>3 DEF PowerUpTo
    <2> QED BY <2>4
  <1> HIDE DEF S
  <1>3. Nat \subseteq S
    BY <1>1, <1>2, NatSetInduction
  <1> QED BY <1>3 DEF S

LEMMA PowerUpToUnique ==
    ASSUME NEW g, NEW h, NEW n \in Nat, NEW k \in Nat, n <= k,
           PowerUpTo(g, n), PowerUpTo(h, k)
    PROVE  \A m \in 0 .. n : g[m] = h[m]
  <1> DEFINE S == {m \in Nat : m <= n => g[m] = h[m]}
  <1>1. 0 \in S
    BY DEF PowerUpTo
  <1>2. ASSUME NEW m \in Nat, m \in S PROVE m + 1 \in S
    <2> SUFFICES ASSUME m + 1 <= n PROVE g[m + 1] = h[m + 1]
      OBVIOUS
    <2>1. g[m] = h[m]
      BY <1>2
    <2>2. m + 1 \in 0 .. n /\ m + 1 \in 0 .. k /\ (m + 1) - 1 = m /\ m + 1 # 0
      OBVIOUS
    <2>3. g[m + 1] = Multiplier * g[m]
      BY <2>2 DEF PowerUpTo
    <2>4. h[m + 1] = Multiplier * h[m]
      BY <2>2 DEF PowerUpTo
    <2> QED BY <2>1, <2>3, <2>4
  <1> HIDE DEF S
  <1>3. Nat \subseteq S
    BY <1>1, <1>2, NatSetInduction
  <1> QED BY <1>3 DEF S

\* The recursive definition of Power has a solution.
LEMMA PowerEquation ==
    Power = [n \in Nat |-> IF n = 0 THEN 1 ELSE Multiplier * Power[n - 1]]
  <1> DEFINE upTo(n) == CHOOSE g : PowerUpTo(g, n)
             power == [n \in Nat |-> upTo(n)[n]]
  <1>1. \A n \in Nat : PowerUpTo(upTo(n), n)
    BY PowerUpToExists
  <1> HIDE DEF upTo
  <1>2. ASSUME NEW n \in Nat
        PROVE  power[n] = IF n = 0 THEN 1 ELSE Multiplier * power[n - 1]
    <2>1. upTo(n)[n] = IF n = 0 THEN 1 ELSE Multiplier * upTo(n)[n - 1]
      <3>1. PowerUpTo(upTo(n), n)
        BY <1>1
      <3> QED BY <3>1 DEF PowerUpTo
    <2>2. CASE n # 0
      <3>1. n - 1 \in Nat /\ n - 1 <= n /\ n - 1 \in 0 .. n - 1
        BY <2>2
      <3>2. PowerUpTo(upTo(n - 1), n - 1) /\ PowerUpTo(upTo(n), n)
        BY <1>1, <3>1
      <3>3. upTo(n - 1)[n - 1] = upTo(n)[n - 1]
        BY <3>1, <3>2, PowerUpToUnique
      <3> QED BY <2>1, <2>2, <3>1, <3>3
    <2> QED BY <2>1, <2>2
  <1>3. power = [n \in Nat |-> power[n]]
    OBVIOUS
  <1> HIDE DEF power
  <1>4. power = [n \in Nat |-> IF n = 0 THEN 1 ELSE Multiplier * power[n - 1]]
    BY <1>2, <1>3
  <1> QED BY <1>4 DEF Power

LEMMA PowerValues ==
    /\ Power[0] = 1
    /\ \A n \in Nat : Power[n] \in Nat /\ Power[n + 1] = Multiplier * Power[n]
    /\ Multiplier = 1 => \A n \in Nat : Power[n] = 1
  <1>1. Power[0] = 1
    BY PowerEquation
  <1>2. ASSUME NEW n \in Nat PROVE Power[n + 1] = Multiplier * Power[n]
    <2>1. n + 1 \in Nat /\ n + 1 # 0 /\ (n + 1) - 1 = n
      OBVIOUS
    <2>2. Power[n + 1] = Multiplier * Power[(n + 1) - 1]
      BY <2>1, PowerEquation
    <2> QED BY <2>1, <2>2
  <1> DEFINE S == {n \in Nat : Power[n] \in Nat /\ (Multiplier = 1 => Power[n] = 1)}
  <1>3. 0 \in S
    BY <1>1
  <1>4. ASSUME NEW n \in Nat, n \in S PROVE n + 1 \in S
    BY <1>2, <1>4, CycleAssumption
  <1> HIDE DEF S
  <1>5. Nat \subseteq S
    BY <1>3, <1>4, NatSetInduction
  <1> QED BY <1>1, <1>2, <1>5 DEF S

\* One more failure waits Multiplier times as long, the first one Initial.
LEMMA DelayDoubles ==
    /\ RetryDelay(1) = Initial
    /\ \A n \in Nat \ {0} :
         RetryDelay(n + 1) = Lesser(Multiplier * RetryDelay(n), MaxSeconds)
  <1>1. RetryDelay(1) = Initial
    BY PowerValues, CycleAssumption DEF RetryDelay, Exponent, Lesser
  <1>2. ASSUME NEW n \in Nat \ {0}
        PROVE  RetryDelay(n + 1) = Lesser(Multiplier * RetryDelay(n), MaxSeconds)
    <2> DEFINE uncapped == Initial * Power[n - 1]
    <2>1. n - 1 \in Nat /\ (n - 1) + 1 = n /\ (n + 1) - 1 = n
      OBVIOUS
    <2>2. Power[n - 1] \in Nat /\ Power[n] = Multiplier * Power[n - 1]
      BY <2>1, PowerValues
    <2>3. uncapped \in Nat /\ Initial * Power[n] = Multiplier * uncapped
      BY <2>2, CycleAssumption
    <2>4. /\ RetryDelay(n) = Lesser(uncapped, MaxSeconds)
          /\ RetryDelay(n + 1) = Lesser(Multiplier * uncapped, MaxSeconds)
      BY <2>1, <2>3 DEF RetryDelay, Exponent
    <2> HIDE DEF uncapped
    <2>5. CASE uncapped <= MaxSeconds
      BY <2>4, <2>5 DEF Lesser
    <2>6. CASE uncapped > MaxSeconds
      <3>1. Multiplier * uncapped >= uncapped /\ Multiplier * MaxSeconds >= MaxSeconds
        BY <2>3, CycleAssumption
      <3>2. RetryDelay(n) = MaxSeconds
        BY <2>3, <2>4, <2>6, CycleAssumption DEF Lesser
      <3>3. RetryDelay(n + 1) = MaxSeconds
        BY <2>3, <2>4, <2>6, <3>1, CycleAssumption DEF Lesser
      <3>4. Lesser(Multiplier * MaxSeconds, MaxSeconds) = MaxSeconds
        BY <3>1, CycleAssumption DEF Lesser
      <3> QED BY <3>2, <3>3, <3>4
    <2> QED BY <2>3, <2>5, <2>6, CycleAssumption
  <1> QED BY <1>1, <1>2

\* More failures never wait less.
LEMMA DelaysGrow ==
    /\ \A n \in Nat \ {0} : RetryDelay(n) \in Nat
    /\ \A m, n \in Nat \ {0} : m <= n => RetryDelay(m) <= RetryDelay(n)
  <1>1. ASSUME NEW n \in Nat \ {0}
        PROVE  RetryDelay(n) \in Nat /\ RetryDelay(n) <= MaxSeconds
    <2>1. n - 1 \in Nat /\ Power[n - 1] \in Nat
      BY PowerValues
    <2>2. Initial * Power[n - 1] \in Nat
      BY <2>1, CycleAssumption
    <2> QED BY <2>2, CycleAssumption DEF RetryDelay, Exponent, Lesser
  <1>2. ASSUME NEW n \in Nat \ {0} PROVE RetryDelay(n) <= RetryDelay(n + 1)
    <2>1. RetryDelay(n) \in Nat /\ RetryDelay(n) <= MaxSeconds
      BY <1>1
    <2>2. Multiplier * RetryDelay(n) >= RetryDelay(n)
      BY <2>1, CycleAssumption
    <2> QED BY <2>1, <2>2, DelayDoubles, CycleAssumption DEF Lesser
  <1>3. ASSUME NEW m \in Nat \ {0}, NEW n \in Nat \ {0}, m <= n
        PROVE  RetryDelay(m) <= RetryDelay(n)
    <2> DEFINE S == {k \in Nat : RetryDelay(m) <= RetryDelay(m + k)}
    <2>1. 0 \in S
      BY <1>1
    <2>2. ASSUME NEW k \in Nat, k \in S PROVE k + 1 \in S
      <3>1. m + k \in Nat \ {0} /\ m + (k + 1) = (m + k) + 1 /\ (m + k) + 1 \in Nat \ {0}
        OBVIOUS
      <3>2. RetryDelay(m) <= RetryDelay(m + k) /\ RetryDelay(m + k) <= RetryDelay((m + k) + 1)
        BY <1>2, <2>2, <3>1
      <3>3. RetryDelay(m) <= RetryDelay(m + (k + 1))
        BY <1>1, <3>1, <3>2
      <3> QED BY <3>3
    <2>3. n - m \in Nat /\ m + (n - m) = n
      BY <1>3
    <2> HIDE DEF S
    <2>4. n - m \in S
      BY <2>1, <2>2, <2>3, NatSetInduction
    <2>5. RetryDelay(m) <= RetryDelay(m + (n - m))
      BY <2>4 DEF S
    <2> QED BY <2>3, <2>5
  <1> QED BY <1>1, <1>3

LEMMA DivisionUnique ==
    ASSUME NEW d \in Nat \ {0}, NEW q \in Int, NEW p \in Int,
           NEW r \in Nat, NEW s \in Nat, r < d, s < d, d * q + r = d * p + s
    PROVE  r = s
  <1>1. CASE q > p
    <2>1. d * (q - p) >= d /\ d * (q - p) = d * q - d * p
      BY <1>1
    <2> QED BY <2>1
  <1>2. CASE p > q
    <2>1. d * (p - q) >= d /\ d * (p - q) = d * p - d * q
      BY <1>2
    <2> QED BY <2>1
  <1>3. CASE p = q
    BY <1>3
  <1> QED BY <1>1, <1>2, <1>3

LEMMA Division ==
    ASSUME NEW d \in Nat \ {0}, NEW n \in Nat
    PROVE  /\ n \div d \in Int /\ n % d \in Nat /\ (n % d) < d
           /\ n = (d * (n \div d)) + (n % d)
  OBVIOUS

\* Counting on, the remainder goes up by one unless it starts again.
LEMMA RemainderSteps ==
    ASSUME NEW d \in Nat \ {0}, NEW n \in Nat, (n + 1) % d # 0
    PROVE  (n + 1) % d = (n % d) + 1
  <1> DEFINE q == n \div d  r == n % d  p == (n + 1) \div d  s == (n + 1) % d
  <1>1. q \in Int /\ r \in Nat /\ r < d /\ n = d * q + r
    BY Division
  <1>2. n + 1 \in Nat
    OBVIOUS
  <1>3. p \in Int /\ s \in Nat /\ s < d /\ n + 1 = d * p + s
    BY <1>2, Division
  <1>4. s # 0
    OBVIOUS
  <1> HIDE DEF p, q, r, s
  <1>5. d * q + r = d * p + (s - 1) /\ s - 1 \in Nat /\ s - 1 < d
    BY <1>1, <1>3, <1>4
  <1>6. r = s - 1
    BY <1>1, <1>3, <1>5, DivisionUnique
  <1> QED BY <1>3, <1>6 DEF r, s

-----------------------------------------------------------------------------
(* The counters and the delay *)

\* What BackoffDoubles says of one step.
Doubles ==
    pc # "none" /\ durable'.failures > durable.failures /\ durable'.phase = "retry_wait" =>
      IF durable.failures = 0 THEN durable'.delay = Initial
      ELSE \/ durable'.delay = Longer(last)
           \/ undone > 0 /\ last <= Longer(durable'.delay)

Counters == YieldInv /\ BackoffInv

\* The clean turns since the last yield, as the record counts them.
Turns(r) == r.index % MaxConsecutive

LEMMA TurnsCount == \A r \in Records : Turns(r) \in Nat /\ Turns(r) < MaxConsecutive
  BY Division, CycleAssumption DEF Turns, Records

\* The types the arithmetic of the counters rests on.
LEMMA CounterTypes ==
    ASSUME CycleInv
    PROVE  /\ streak \in Nat /\ undone \in Nat /\ last \in Nat
           /\ durable \in Records /\ local \in Records /\ held \subseteq Records
           /\ \A r \in Records : r.failures \in Nat /\ r.index \in Nat
  <1>1. \A n \in FailureCounts : n \in Nat
    BY CycleAssumption DEF FailureCounts
  <1>2. last \in Nat
    <2>1. \A d \in RetryDelays : d \in Nat
      BY <1>1, DelaysGrow DEF RetryDelays
    <2> QED BY <2>1 DEF CycleInv, CycleTypeOK
  <1> QED BY <1>1, <1>2 DEF CycleInv, CycleTypeOK, Records

\* A step that only copies counters between memory and disk.
Copied(r, s) == r.failures = s.failures /\ r.index = s.index

LEMMA CopiedCounters ==
    ASSUME CycleInv, Counters, UNCHANGED <<streak, last, undone>>,
           held' \subseteq held \cup {durable},
           Copied(local', local) \/ Copied(local', durable),
           Copied(durable', local) \/ Copied(durable', durable),
           local'.failures # durable'.failures =>
             pc' = "mend" /\ Overflows(local'.failures),
           pc' \in {pc, "none"} \/ pc \in Before,
           pc' = "mend" => Copied(local', local)
    PROVE  Counters'
  <1>1. \A r \in {local', durable'} :
          /\ streak' <= (r.index % MaxConsecutive) + undone'
          /\ r.failures > 0 => streak' <= undone'
    BY DEF Counters, YieldInv, Copied
  <1> DEFINE turn == IF pc \in Before THEN 0 ELSE 1
             later == IF pc' \in Before THEN 0 ELSE 1
  <1>2. turn \in Nat /\ later \in Nat /\ turn <= later
    BY DEF Before
  <1>3. ASSUME NEW r \in held'
        PROVE  /\ streak' <= (r.index % MaxConsecutive) + undone' + later
               /\ r.failures > 0 => streak' <= undone' + later
    <2>1. r \in Records /\ Turns(r) \in Nat /\ r.failures \in Nat
          /\ streak \in Nat /\ undone \in Nat
      BY <1>3, CounterTypes, TurnsCount
    <2>2. CASE r \in held
      <3>1. streak <= Turns(r) + undone + turn /\ (r.failures > 0 => streak <= undone + turn)
        BY <2>2 DEF Counters, YieldInv, Turns
      <3> HIDE DEF turn, later
      <3>2. /\ streak <= Turns(r) + undone + later
            /\ r.failures > 0 => streak <= undone + later
        BY <1>2, <2>1, <3>1
      <3> QED BY <3>2 DEF Turns
    <2>3. CASE r = durable
      <3>1. streak <= Turns(r) + undone /\ (r.failures > 0 => streak <= undone)
        BY <2>3 DEF Counters, YieldInv, Turns
      <3> HIDE DEF turn, later
      <3>2. /\ streak <= Turns(r) + undone + later
            /\ r.failures > 0 => streak <= undone + later
        BY <1>2, <2>1, <3>1
      <3> QED BY <3>2 DEF Turns
    <2> QED BY <2>2, <2>3
  <1>4. YieldInv'
    BY <1>1, <1>3 DEF YieldInv, Before
  <1>5. pc \in Before => local.failures = durable.failures
    BY DEF Counters, BackoffInv, Before
  <1>6. \A r \in {durable'} \cup held' :
          /\ pc' \in Before => local'.failures <= r.failures
          /\ pc' = "mend" => local'.failures <= r.failures + 1
    <2> SUFFICES ASSUME NEW r \in {durable'} \cup held'
                 PROVE  /\ pc' \in Before => local'.failures <= r.failures
                        /\ pc' = "mend" => local'.failures <= r.failures + 1
      OBVIOUS
    <2>1. /\ local.failures \in Nat /\ durable.failures \in Nat
          /\ \A h \in held : h.failures \in Nat
      BY CounterTypes
    <2>2. PICK h \in {local, durable} \cup held : r.failures = h.failures
      BY DEF Copied
    <2>3. CASE pc \in Before
      <3>1. local'.failures = local.failures
        BY <1>5, <2>3 DEF Copied
      <3>2. local.failures <= h.failures
        BY <1>5, <2>1, <2>3 DEF Counters, BackoffInv
      <3> QED BY <2>1, <2>2, <3>1, <3>2
    <2>4. CASE pc \notin Before
      <3>1. CASE pc' = "mend"
        <4>1. pc = "mend" /\ local'.failures = local.failures
          BY <2>4, <3>1 DEF Copied
        <4>2. local.failures <= h.failures + 1
          BY <2>1, <4>1 DEF Counters, BackoffInv
        <4> QED BY <2>2, <3>1, <4>1, <4>2 DEF Before
      <3> QED BY <2>4, <3>1 DEF Before
    <2> QED BY <2>3, <2>4
  <1>7. BackoffInv'
    <2>1. \A r \in {local', durable'} :
            undone' = 0 /\ r.failures > 0 /\ ~Overflows(r.failures) =>
              last' = RetryDelay(r.failures)
      BY DEF Counters, BackoffInv, Copied
    <2>2. \A r \in {local', durable'} \cup held' : last' <= RetryDelay(r.failures + 2)
      BY DEF Counters, BackoffInv, Copied
    <2> QED BY <1>6, <2>1, <2>2 DEF BackoffInv, Before, Overflows, Exponent, RetryDelay
  <1> QED BY <1>4, <1>7 DEF Counters

\* A failure is counted and waits for its delay, or finds that it has none.
LEMMA FailureCounted ==
    ASSUME CycleInv, Counters, NEW r \in Records, Copied(r, local),
           NEW handler \in {"none", "mend"}, SchedulesFailure(r, handler),
           \/ pc \in Before /\ handler = "mend"
           \/ pc = "mend" /\ handler = "none",
           held' = held
    PROVE  Counters' /\ Doubles
  <1> DEFINE n == local.failures
             count == Lesser(n + 1, MaxExponent + 2)
             counted == [r EXCEPT !.failures = count, !.index = 0]
  <1>1. /\ n \in FailureCounts /\ n \in Nat /\ r.failures = n
        /\ local \in Records /\ durable \in Records /\ durable.failures \in Nat
        /\ streak \in Nat /\ undone \in Nat /\ last \in Nat
    BY CounterTypes DEF Records, Copied
  <1>2. count \in FailureCounts \ {0} /\ count \in Nat \ {0}
    BY <1>1, CountedIsCount, CycleAssumption DEF FailureCounts
  <1>2a. n <= count /\ count <= n + 1
    BY <1>1, CycleAssumption DEF FailureCounts, Lesser
  <1>3. /\ counted \in Records /\ counted.failures = count /\ counted.index = 0
        /\ counted = [r EXCEPT !.failures = Lesser(r.failures + 1, MaxExponent + 2),
                               !.index = 0]
    BY <1>1, <1>2 DEF Records
  <1>4. 0 % MaxConsecutive \in Nat
    BY Division, CycleAssumption
  <1>5. Overflows(n) => Overflows(count)
    BY <1>1, CycleAssumption DEF Overflows, Exponent, FailureCounts, Lesser
  <1>6. \A h \in held : h \in Records /\ h.failures \in Nat /\ Turns(h) \in Nat
    BY CounterTypes, TurnsCount
  <1>7. pc' \in Before => pc' = pc /\ pc' # handler
    BY DEF SchedulesFailure, Stores, Before
  <1>7a. pc' \in {"none", "mend"} /\ (pc' = "mend" => pc \in Before)
    BY DEF SchedulesFailure, Stores, Before
  <1> HIDE DEF count, counted
  <1>8. \A h \in {durable} \cup held :
          /\ n <= h.failures + 1
          /\ pc \in Before => n <= h.failures
    BY <1>1, <1>6 DEF Counters, BackoffInv
  <1>9. CASE /\ Overflows(count)
             /\ pc' = handler
             /\ local' = IF handler = "none" THEN durable ELSE counted
             /\ UNCHANGED <<durable, streak, last, undone>>
    <2>1. n > 0
      <3>1. count - 1 > MaxExponent /\ MaxExponent \in Nat
        BY <1>9, CycleAssumption DEF Overflows, Exponent
      <3> QED BY <1>1, <1>2, <1>2a, <3>1
    <2>2. streak <= undone
      BY <2>1 DEF Counters, YieldInv
    <2>3. YieldInv'
      <3>1. /\ durable' = durable /\ streak' = streak /\ undone' = undone
            /\ local' \in {durable, counted}
        BY <1>9
      <3>2. streak <= (counted.index % MaxConsecutive) + undone
        BY <1>1, <1>3, <1>4, <2>2
      <3>3. \A h \in held : streak <= Turns(h) + undone + 1 /\ streak <= undone + 1
        BY <1>1, <1>6, <2>2
      <3>4. pc' \notin Before
        BY <1>7a DEF Before
      <3> QED BY <2>2, <3>1, <3>2, <3>3, <3>4 DEF Counters, YieldInv, Turns, Before
    <2>4. BackoffInv'
      <3>1. CASE handler = "none"
        BY <1>9, <3>1 DEF Counters, BackoffInv, Before, Overflows, Exponent, RetryDelay
      <3>2. CASE handler = "mend"
        <4>1. pc \in Before /\ local' = counted /\ pc' = "mend" /\ durable' = durable
              /\ last' = last /\ undone' = undone
          BY <1>9, <3>2
        <4>2. last <= RetryDelay(count + 2)
          <5>1. last <= RetryDelay(n + 2)
            BY DEF Counters, BackoffInv
          <5>2. RetryDelay(n + 2) <= RetryDelay(count + 2) /\ RetryDelay(n + 2) \in Nat
                /\ RetryDelay(count + 2) \in Nat
            BY <1>1, <1>2, <1>2a, DelaysGrow
          <5> QED BY <1>1, <5>1, <5>2
        <4>3. \A h \in {durable} \cup held : count <= h.failures + 1
          BY <1>1, <1>2, <1>2a, <1>6, <1>8, <4>1
        <4>4. Overflows(count) /\ Overflows(local'.failures)
          BY <1>3, <1>9, <4>1
        <4>5. \A h \in {durable} : undone = 0 /\ h.failures > 0 /\ ~Overflows(h.failures)
                 => last = RetryDelay(h.failures)
          BY DEF Counters, BackoffInv
        <4>6. \A h \in {durable} \cup held : last <= RetryDelay(h.failures + 2)
          BY DEF Counters, BackoffInv
        <4>7. \A h \in {local', durable'} :
                undone' = 0 /\ h.failures > 0 /\ ~Overflows(h.failures) =>
                  last' = RetryDelay(h.failures)
          BY <4>1, <4>4, <4>5
        <4>8. \A h \in {durable'} \cup held' :
                /\ pc' \in Before => local'.failures <= h.failures
                /\ pc' = "mend" => local'.failures <= h.failures + 1
          BY <1>3, <4>1, <4>3 DEF Before
        <4>9. \A h \in {local', durable'} \cup held' : last' <= RetryDelay(h.failures + 2)
          BY <1>3, <4>1, <4>2, <4>6
        <4> QED BY <4>1, <4>4, <4>7, <4>8, <4>9
               DEF BackoffInv, Before, Overflows, Exponent, RetryDelay
      <3> QED BY <3>1, <3>2
    <2>5. Doubles
      BY <1>1, <1>9 DEF Doubles
    <2> QED BY <2>3, <2>4, <2>5 DEF Counters
  <1>10. CASE /\ ~Overflows(count)
              /\ Stores([counted EXCEPT !.phase = "retry_wait", !.delay = RetryDelay(count)],
                        handler)
              /\ streak' = 0 /\ undone' = 0
              /\ last' = RetryDelay(count)
    <2> DEFINE saved == [counted EXCEPT !.phase = "retry_wait", !.delay = RetryDelay(count)]
    <2>1. saved.failures = count /\ saved.index = 0 /\ saved.delay = RetryDelay(count)
      BY <1>3 DEF Records
    <2>2. durable' = saved /\ local' = saved
      BY <1>10 DEF Stores
    <2> HIDE DEF saved
    <2>3. YieldInv'
      <3>1. pc' \notin Before
        BY <1>7a DEF Before
      <3>2. \A h \in held : 0 <= Turns(h) + 0 + 1
        BY <1>6
      <3> QED BY <1>4, <1>10, <2>1, <2>2, <3>1, <3>2 DEF YieldInv, Turns, Before
    <2>4. BackoffInv'
      <3>1. \A h \in {durable'} \cup held' : pc' = "mend" => count <= h.failures + 1
        BY <1>1, <1>2, <1>2a, <1>6, <1>7a, <1>8, <2>1, <2>2
      <3>2. \A h \in {local', durable'} \cup held' : RetryDelay(count) <= RetryDelay(h.failures + 2)
        <4> SUFFICES ASSUME NEW h \in {local', durable'} \cup held'
                     PROVE  RetryDelay(count) <= RetryDelay(h.failures + 2)
          OBVIOUS
        <4>1. h.failures \in Nat /\ count <= h.failures + 2
          BY <1>1, <1>2, <1>2a, <1>6, <1>8, <2>1, <2>2
        <4> QED BY <1>2, <4>1, DelaysGrow
      <3>3. pc' \notin Before
        BY <1>7a DEF Before
      <3> QED BY <1>10, <2>1, <2>2, <3>1, <3>2, <3>3
             DEF BackoffInv, Before, Overflows, Exponent, RetryDelay
    <2>5. durable.failures = n
      BY <1>5, <1>10 DEF Counters, BackoffInv
    <2>6. Doubles
      <3> SUFFICES ASSUME count > n
                   PROVE  IF n = 0 THEN RetryDelay(count) = Initial
                          ELSE \/ RetryDelay(count) = Longer(last)
                               \/ undone > 0 /\ last <= Longer(RetryDelay(count))
        BY <2>1, <2>2, <2>5 DEF Doubles
      <3>1. count = n + 1
        BY <1>1, <1>2, <1>2a
      <3>2. CASE n = 0
        BY <3>1, <3>2, DelayDoubles
      <3>3. CASE n # 0
        <4>1. n \in Nat \ {0} /\ n > 0 /\ n + 1 \in Nat \ {0} /\ (n + 1) + 1 = n + 2
          BY <1>1, <3>3
        <4>2. ~Overflows(n)
          BY <1>5, <1>10
        <4>3. undone = 0 => last = RetryDelay(n)
          BY <4>1, <4>2 DEF Counters, BackoffInv
        <4>4. last <= RetryDelay(n + 2)
          BY DEF Counters, BackoffInv
        <4> HIDE DEF n
        <4>5. CASE undone = 0
          BY <3>1, <3>3, <4>1, <4>3, <4>5, DelayDoubles DEF Longer
        <4>6. CASE undone > 0
          <5>1. RetryDelay(n + 2) = Longer(RetryDelay(n + 1))
            BY <4>1, DelayDoubles DEF Longer
          <5> QED BY <3>1, <3>3, <4>4, <4>6, <5>1
        <4> QED BY <1>1, <4>5, <4>6
      <3> QED BY <3>2, <3>3
    <2> QED BY <2>3, <2>4, <2>6 DEF Counters
  <1>11. \/ /\ Overflows(count)
            /\ pc' = handler
            /\ local' = IF handler = "none" THEN durable ELSE counted
            /\ UNCHANGED <<durable, streak, last, undone>>
         \/ /\ ~Overflows(count)
            /\ Stores([counted EXCEPT !.phase = "retry_wait", !.delay = RetryDelay(count)],
                      handler)
            /\ streak' = 0 /\ undone' = 0
            /\ last' = RetryDelay(count)
    BY <1>1, <1>3 DEF SchedulesFailure
  <1> QED BY <1>9, <1>10, <1>11

\* A clean turn is counted, or yields.
LEMMA ContinuationCounted ==
    ASSUME CycleInv, Counters, SchedulesContinuation(local), pc = "refresh", held' = held
    PROVE  Counters' /\ Doubles
  <1> DEFINE index == local.index + 1
             wait == IF YieldsAt(index) THEN Greater(ContinuationDelay, Yield)
                     ELSE ContinuationDelay
             saved == [local EXCEPT !.failures = 0, !.index = index,
                                    !.phase = "continuation_wait", !.delay = wait]
  <1>1. /\ local \in Records /\ local.index \in Nat /\ durable.failures \in Nat
        /\ streak \in Nat /\ undone \in Nat /\ Turns(local) \in Nat
    BY CounterTypes, TurnsCount
  <1>2. /\ durable' = saved /\ local' = saved
        /\ streak' = IF YieldsAt(index) THEN 0 ELSE streak + 1
        /\ undone' = IF YieldsAt(index) THEN 0 ELSE undone
        /\ last' = 0 /\ pc' \notin Before
    BY DEF SchedulesContinuation, Stores, Before
  <1>3. saved.failures = 0 /\ saved.index = index
    BY <1>1 DEF Records
  <1> HIDE DEF saved
  <1>4. streak' <= (index % MaxConsecutive) + undone'
    <2>1. CASE YieldsAt(index)
      BY <1>2, <2>1 DEF YieldsAt
    <2>2. CASE ~YieldsAt(index)
      <3>1. index % MaxConsecutive = Turns(local) + 1
        BY <1>1, <2>2, RemainderSteps, CycleAssumption DEF YieldsAt, Turns
      <3>2. streak <= Turns(local) + undone
        BY DEF Counters, YieldInv, Turns
      <3> QED BY <1>1, <1>2, <2>2, <3>1, <3>2
    <2> QED BY <2>1, <2>2
  <1>5. ASSUME NEW h \in held
        PROVE  /\ streak' <= (h.index % MaxConsecutive) + undone' + 1
               /\ h.failures > 0 => streak' <= undone' + 1
    <2>1. Turns(h) \in Nat
      BY <1>5, CounterTypes, TurnsCount
    <2>2. streak <= Turns(h) + undone + 0 /\ (h.failures > 0 => streak <= undone + 0)
      BY <1>5 DEF Counters, YieldInv, Before, Turns
    <2>3. streak' <= Turns(h) + undone' + 1 /\ (h.failures > 0 => streak' <= undone' + 1)
      BY <1>1, <1>2, <2>1, <2>2
    <2> QED BY <2>3 DEF Turns
  <1>6. YieldInv'
    BY <1>2, <1>3, <1>4, <1>5 DEF YieldInv, Before
  <1>7. BackoffInv'
    <2>1. \A h \in {local', durable'} \cup held' : h.failures \in Nat
      BY <1>2, <1>3, CounterTypes
    <2>2. \A h \in {local', durable'} \cup held' : 0 <= RetryDelay(h.failures + 2)
      BY <2>1, DelaysGrow
    <2>3. \A h \in {durable'} \cup held' : 0 <= h.failures /\ 0 <= h.failures + 1
      BY <2>1
    <2> QED BY <1>2, <1>3, <2>2, <2>3
           DEF BackoffInv, Before, Overflows, Exponent, RetryDelay
  <1>8. Doubles
    BY <1>1, <1>2, <1>3 DEF Doubles
  <1> QED BY <1>6, <1>7, <1>8 DEF Counters

\* What the waiting loop loaded is written back: the counters of the record on
\* disk are taken back, by one attempt, or are the same.
LEMMA TakenBack ==
    ASSUME CycleInv, Counters, NEW h \in held, NEW r \in Records, Copied(r, h),
           TakesBack(r)
    PROVE  Counters' /\ Doubles
  <1>1. /\ pc = "none" /\ pc' = "none" /\ held' = {} /\ durable' = r /\ local' = r
        /\ UNCHANGED <<streak, last>>
        /\ undone' = IF SameCounts(r, durable) THEN undone ELSE undone + 1
    BY DEF TakesBack
  <1>2. /\ streak \in Nat /\ undone \in Nat /\ last \in Nat /\ Turns(r) \in Nat
        /\ Turns(h) = Turns(r) /\ h.failures = r.failures
    BY CounterTypes, TurnsCount DEF Copied, Turns
  <1>3. /\ streak <= Turns(h) + undone + 1
        /\ h.failures > 0 => streak <= undone + 1
        /\ last <= RetryDelay(h.failures + 2)
    BY <1>1 DEF Counters, YieldInv, BackoffInv, Before, Turns
  <1>4. CASE SameCounts(r, durable)
    <2>1. r.failures = durable.failures /\ r.index = durable.index
      BY <1>4 DEF SameCounts
    <2>2. YieldInv'
      BY <1>1, <1>4, <2>1 DEF Counters, YieldInv, Before
    <2>3. BackoffInv'
      BY <1>1, <1>4, <2>1 DEF Counters, BackoffInv, Before, Overflows, Exponent, RetryDelay
    <2> QED BY <1>1, <2>2, <2>3 DEF Counters, Doubles
  <1>5. CASE ~SameCounts(r, durable)
    <2>1. undone' = undone + 1
      BY <1>1, <1>5
    <2>2. /\ streak <= Turns(r) + undone'
          /\ r.failures > 0 => streak <= undone'
      BY <1>2, <1>3, <2>1
    <2>3. YieldInv'
      BY <1>1, <2>2 DEF YieldInv, Turns, Before
    <2>4. undone' # 0 /\ last <= RetryDelay(r.failures + 2)
      BY <1>2, <1>3, <2>1
    <2>5. BackoffInv'
      BY <1>1, <2>4 DEF BackoffInv, Before, Overflows, Exponent, RetryDelay
    <2> QED BY <1>1, <2>3, <2>5 DEF Counters, Doubles
  <1> QED BY <1>4, <1>5

LEMMA CountersInit == Init => Counters
  <1> SUFFICES ASSUME Init PROVE Counters
    OBVIOUS
  <1>1. 0 % MaxConsecutive \in Nat
    BY Division, CycleAssumption
  <1>2. /\ local = durable /\ streak = 0 /\ undone = 0 /\ last = 0 /\ held = {}
        /\ durable.failures = 0 /\ durable.index = 0 /\ pc = "none"
    BY DEF Init
  <1>3. 0 <= RetryDelay(0 + 2)
    BY DelaysGrow
  <1>4. YieldInv
    BY <1>1, <1>2 DEF YieldInv
  <1>5. BackoffInv
    BY <1>2, <1>3 DEF BackoffInv, Before
  <1> QED BY <1>4, <1>5 DEF Counters

LEMMA CountersStep == CycleInv /\ Counters /\ [Next]_vars => Counters' /\ Doubles
  <1> SUFFICES ASSUME CycleInv, Counters, [Next]_vars PROVE Counters' /\ Doubles
    OBVIOUS
  <1>1. /\ durable \in Records /\ local \in Records /\ held \subseteq Records
        /\ pc = "none" => local = durable
        /\ streak \in Nat /\ undone \in Nat
    BY CounterTypes DEF CycleInv
  <1>2. ~(durable.failures > durable.failures)
    BY <1>1, CounterTypes
  <1>3. pc # "mend" => local.failures = durable.failures
    BY DEF Counters, BackoffInv
  <1>4. \A r \in Records, phase \in Phases : Copied(Settled(r, phase), r)
    BY DEF Copied, Settled, Records
  <1>5. \A r \in Records : Copied(r, r)
    BY DEF Copied
  <1>6. ASSUME NEW t \in Targets, Dispatches(t) PROVE Counters' /\ Doubles
    <2> DEFINE placed == Moved(durable, t)
    <2>1. /\ placed \in Records /\ placed.failures = durable.failures
          /\ \/ placed.index = durable.index /\ streak' = streak
             \/ placed.index = 0 /\ streak' = 0
      BY <1>1, <1>6 DEF Moved, Dispatches, Records
    <2> HIDE DEF placed
    <2>2. /\ durable'.failures = placed.failures /\ durable'.index = placed.index
          /\ local' = durable' /\ last' = last /\ local = durable
          /\ held' = {} /\ undone' = undone /\ pc = "none" /\ pc' = "prepare"
      BY <1>1, <1>4, <1>6, <2>1 DEF Dispatches, Copied, Phases, placed
    <2>3. 0 % MaxConsecutive \in Nat
      BY Division, CycleAssumption
    <2>4. YieldInv'
      BY <1>1, <2>1, <2>2, <2>3 DEF Counters, YieldInv
    <2>5. durable.failures \in Nat
      BY <1>1, CounterTypes
    <2>6. BackoffInv'
      BY <2>1, <2>2, <2>5 DEF Counters, BackoffInv, Before, Overflows, Exponent, RetryDelay
    <2> QED BY <2>2, <2>4, <2>6 DEF Counters, Doubles
  <1>7. ASSUME UNCHANGED <<durable, local, streak, last, undone>>,
               held' \subseteq held \cup {durable},
               pc' = pc \/ (pc \in Before /\ pc' \in Before \cup {"mend"})
        PROVE  Counters' /\ Doubles
    <2>1. local'.failures # durable'.failures => pc' = "mend" /\ Overflows(local'.failures)
      BY <1>3, <1>7 DEF Counters, BackoffInv, Before, Overflows, Exponent
    <2>2. Counters'
      BY <1>1, <1>5, <1>7, <2>1, CopiedCounters
    <2> QED BY <1>2, <1>7, <2>2 DEF Doubles
  <1>8. ASSUME Prepared \/ Raises \/ Loads \/ PassesOver PROVE Counters' /\ Doubles
    <2>1. UNCHANGED <<durable, local, streak, last, undone>>
      BY <1>8 DEF Prepared, Raises, Loads, PassesOver, history
    <2>2. held' \subseteq held \cup {durable}
      BY <1>8 DEF Prepared, Raises, Loads, PassesOver
    <2>3. pc' = pc \/ (pc \in Before /\ pc' \in Before \cup {"mend"})
      BY <1>8 DEF Prepared, Raises, Loads, PassesOver, Before
    <2> QED BY <1>7, <2>1, <2>2, <2>3
  <1>9. ASSUME NEW result \in {"clean_exit", "failed", "cancelled"},
               NEW reported \in BOOLEAN, NEW safe \in BOOLEAN,
               AgentReturns(result, reported, safe)
        PROVE Counters' /\ Doubles
    <2> DEFINE noted == [local EXCEPT !.attempted = TRUE,
                                      !.session = IF reported THEN local.target
                                                  ELSE local.session]
    <2>1. Copied(noted, local) /\ Copied(Settled(noted, "blocked"), local)
      BY <1>1 DEF Copied, Settled, Records
    <2> HIDE DEF noted
    <2>2. /\ local' = IF safe THEN noted ELSE Settled(noted, "blocked")
          /\ durable' = IF safe THEN noted ELSE durable
          /\ pc = "agent" /\ UNCHANGED <<streak, last, undone>> /\ held' = held
          /\ pc' \in {"refresh", "blocking"}
      BY <1>9 DEF AgentReturns, noted
    <2>3. local.failures = durable.failures
      BY <1>3, <2>2
    <2>4. Copied(local', local) /\ durable'.failures = durable.failures
          /\ (Copied(durable', local) \/ Copied(durable', durable))
      BY <1>5, <1>1, <2>1, <2>2, <2>3 DEF Copied
    <2>5. local'.failures = durable'.failures
      BY <2>3, <2>4 DEF Copied
    <2>6. pc \in Before
      BY <2>2 DEF Before
    <2>7. Counters'
      BY <2>2, <2>4, <2>5, <2>6, CopiedCounters
    <2> QED BY <1>2, <2>4, <2>7 DEF Doubles
  <1>10. ASSUME TrackerFails PROVE Counters' /\ Doubles
    <2>1. pc \in Before /\ held' = held /\ SchedulesFailure(local, "mend")
      BY <1>10 DEF TrackerFails, Before
    <2> QED BY <1>1, <1>5, <2>1, FailureCounted
  <1>11. ASSUME FindsActiveAfterFailure PROVE Counters' /\ Doubles
    <2>1. Abandoned(local) \in Records /\ Copied(Abandoned(local), local)
      BY <1>1 DEF Abandoned, Records, Copied
    <2>2. pc \in Before /\ held' = held /\ SchedulesFailure(Abandoned(local), "mend")
      BY <1>11 DEF FindsActiveAfterFailure, Before
    <2> QED BY <2>1, <2>2, FailureCounted
  \* What is stored copies the counters of memory, and is no backoff.
  <1>12. ASSUME NEW r \in Records, Copied(r, local), durable' = r, local' = r,
                UNCHANGED <<streak, last, undone>>, held' = held,
                pc' = "none" \/ pc \in Before,
                r.phase # "retry_wait" \/ pc # "mend"
         PROVE  Counters' /\ Doubles
    <2>1. Counters'
      BY <1>12, CopiedCounters
    <2>2. r.phase = "retry_wait" => durable'.failures = durable.failures
      BY <1>3, <1>12 DEF Copied
    <2> QED BY <1>2, <1>12, <2>1, <2>2 DEF Doubles
  <1>13. ASSUME FindsInactive PROVE Counters' /\ Doubles
    <2>1. Settled(local, "released") \in Records
      BY <1>1, SettledRecord DEF Phases
    <2> QED BY <1>1, <1>4, <1>12, <1>13, <2>1
           DEF FindsInactive, Stores, Phases, Before, history
  <1>14. ASSUME FindsActive, ~FindsActiveAfterFailure PROVE Counters' /\ Doubles
    <2>1. pc = "refresh" /\ held' = held
      BY <1>14 DEF FindsActive
    <2>2. CASE SchedulesContinuation(local)
      BY <2>1, <2>2, ContinuationCounted
    <2>3. CASE Stores(Settled(local, "ready"), "mend") /\ UNCHANGED <<streak, last, undone>>
      <3>1. Settled(local, "ready") \in Records
        BY <1>1, SettledRecord DEF Phases
      <3> QED BY <1>1, <1>4, <1>12, <2>1, <2>3, <3>1 DEF Stores, Phases, Before
    <2> QED BY <1>14, <2>2, <2>3 DEF FindsActive
  <1>15. ASSUME Blocks PROVE Counters' /\ Doubles
    BY <1>1, <1>5, <1>12, <1>15 DEF Blocks, Stores, Before, history
  <1>16. ASSUME Cancels PROVE Counters' /\ Doubles
    <2>1. durable' = durable /\ UNCHANGED <<held, streak, last, undone>>
      BY <1>16 DEF Cancels, history
    <2>2. CASE pc \in {"prepare", "agent", "refresh", "blocking"} /\ pc' = "abort" /\ local' = local
      BY <1>7, <2>1, <2>2 DEF Before
    <2>3. CASE pc' = "none" /\ local' = durable
      <3>1. Counters'
        BY <1>1, <1>5, <2>1, <2>3, CopiedCounters
      <3> QED BY <1>2, <2>1, <3>1 DEF Doubles
    <2> QED BY <1>16, <2>2, <2>3 DEF Cancels
  <1>17. ASSUME NEW safe \in BOOLEAN, Mends(safe) PROVE Counters' /\ Doubles
    <2> DEFINE noted == [local EXCEPT !.attempted = TRUE]
    <2>1. noted \in Records /\ Copied(noted, local)
      BY <1>1 DEF Records, Copied
    <2> HIDE DEF noted
    <2>2. pc = "mend" /\ held' = held
      BY <1>17 DEF Mends
    <2>3. CASE SchedulesFailure(noted, "none")
      BY <2>1, <2>2, <2>3, FailureCounted
    <2>4. CASE Stores(Settled(noted, "blocked"), "none") /\ UNCHANGED <<streak, last, undone>>
      <3> DEFINE r == Settled(noted, "blocked")
      <3>1. r \in Records /\ Copied(r, noted)
        BY <1>4, <2>1, SettledRecord DEF Phases
      <3>1a. r.phase = "blocked"
        BY <2>1 DEF Settled, Records
      <3>2. Copied(r, local)
        BY <2>1, <3>1 DEF Copied
      <3> QED BY <1>12, <2>2, <2>4, <3>1, <3>1a, <3>2 DEF Stores
    <2> QED BY <1>17, <2>3, <2>4 DEF Mends, noted
  <1>18. ASSUME NEW safe \in BOOLEAN, Aborts(safe) PROVE Counters' /\ Doubles
    <2> DEFINE phase == IF safe THEN "ready" ELSE "blocked"
               r == Settled(local, phase)
    <2>1. phase \in Phases \ {"retry_wait"}
      BY DEF Phases
    <2> HIDE DEF phase
    <2>2. r \in Records /\ Copied(r, local)
      BY <1>1, <1>4, <2>1, SettledRecord
    <2>3. r.phase = phase
      BY <1>1 DEF Settled, Records
    <2> QED BY <1>12, <1>18, <2>1, <2>2, <2>3 DEF Aborts, Stores, phase, history
  <1>19. ASSUME NEW phase \in Phases,
                durable' = Settled(durable, phase), local' = durable',
                held' \subseteq held, pc' = "none", UNCHANGED <<streak, last, undone>>
         PROVE  Counters' /\ Doubles
    <2>1. Copied(durable', durable) /\ Copied(local', durable)
      BY <1>1, <1>4, <1>19
    <2>2. Counters'
      BY <1>19, <2>1, CopiedCounters
    <2> QED BY <1>2, <2>1, <2>2 DEF Doubles, Copied
  <1>20. ASSUME pc = "none", \E phase \in Phases : Becomes(phase)
         PROVE  Counters' /\ Doubles
    BY <1>19, <1>20 DEF Becomes, history
  <1>21. ASSUME \/ \E safe \in BOOLEAN : FindsStale(safe)
                \/ Unblocks \/ Reactivates \/ DelayEnds
         PROVE  Counters' /\ Doubles
    <2>1. pc = "none" /\ \E phase \in Phases : Becomes(phase)
      BY <1>1, <1>21 DEF FindsStale, Unblocks, Reactivates, DelayEnds, Phases, Records
    <2> QED BY <1>20, <2>1
  <1>22. ASSUME WritesBack \/ Releases PROVE Counters' /\ Doubles
    <2>1. CASE pc = "none" /\ Becomes("released")
      BY <1>20, <2>1 DEF Phases
    <2>2. CASE \E h \in held : TakesBack(h)
      BY <1>1, <1>5, <2>2, TakenBack
    <2>3. CASE \E h \in held, phase \in Phases : TakesBack(Settled(h, phase))
      <3>1. PICK h \in held, phase \in Phases : TakesBack(Settled(h, phase))
        BY <2>3
      <3>2. Settled(h, phase) \in Records /\ Copied(Settled(h, phase), h)
        BY <1>1, <1>4, SettledRecord
      <3> QED BY <3>1, <3>2, TakenBack
    <2> QED BY <1>1, <1>22, <2>1, <2>2, <2>3 DEF WritesBack, Releases, Phases, Records
  <1>23. ASSUME Restarts PROVE Counters' /\ Doubles
    <2>1. PICK phase \in Phases : durable' = Settled(durable, phase) /\ local' = durable'
      BY <1>23 DEF Restarts, Phases
    <2>2. pc' = "none" /\ held' = {} /\ UNCHANGED <<streak, last, undone>>
      BY <1>23 DEF Restarts
    <2> QED BY <1>19, <2>1, <2>2
  <1>24. ASSUME UNCHANGED vars PROVE Counters' /\ Doubles
    BY <1>7, <1>24 DEF vars
  <1> QED
    BY <1>6, <1>8, <1>9, <1>10, <1>11, <1>13, <1>14, <1>15, <1>16, <1>17, <1>18,
       <1>21, <1>22, <1>23, <1>24 DEF Next

\* An issue has at most MaxConsecutive - 1 clean turns in a row on one target
\* without a longer wait among them, and one more for each attempt the waiting
\* loop took back, for any number of turns, moves, failures, crashes and
\* write-backs, however they interleave.
THEOREM TurnsYield == Spec => []FairnessYield
  <1>1. CycleInv /\ Counters => FairnessYield
    <2> SUFFICES ASSUME CycleInv, Counters PROVE FairnessYield
      OBVIOUS
    <2>1. /\ streak \in Nat /\ undone \in Nat
          /\ Turns(durable) \in Nat /\ Turns(durable) < MaxConsecutive
      BY CounterTypes, TurnsCount
    <2>2. streak <= Turns(durable) + undone
      BY DEF Counters, YieldInv, Turns
    <2> QED BY <2>1, <2>2, CycleAssumption DEF FairnessYield
  <1> QED BY <1>1, CountersInit, CountersStep, CycleCorrect, PTL DEF Spec

\* While the waiting loop has no other issue to ask about, it takes nothing back,
\* and the longer wait comes in time.
THEOREM YieldsUndisturbed == "stale" \notin Faults => (Spec => []YieldsInTime)
  <1> SUFFICES ASSUME "stale" \notin Faults PROVE Spec => []YieldsInTime
    OBVIOUS
  <1> DEFINE Undisturbed == held = {} /\ undone = 0
  <1>1. Init => Undisturbed
    BY DEF Init
  <1>2. Undisturbed /\ [Next]_vars => Undisturbed'
    <2> SUFFICES ASSUME Undisturbed, [Next]_vars PROVE Undisturbed'
      OBVIOUS
    <2>1. ASSUME NEW r, NEW handler, SchedulesFailure(r, handler) PROVE undone' = 0
      BY <2>1 DEF SchedulesFailure
    <2>2. ASSUME UNCHANGED <<held, undone>> PROVE Undisturbed'
      BY <2>2
    <2>3. ASSUME TrackerFails \/ FindsInactive \/ FindsActive PROVE Undisturbed'
      <3>1. held' = held
        BY <2>3 DEF TrackerFails, FindsInactive, FindsActive, FindsActiveAfterFailure
      <3>2. undone' = 0
        BY <2>1, <2>3 DEF TrackerFails, FindsInactive, FindsActive,
           FindsActiveAfterFailure, SchedulesContinuation, history
      <3> QED BY <3>1, <3>2
    <2>4. ASSUME NEW safe \in BOOLEAN, Mends(safe) PROVE Undisturbed'
      <3>1. held' = held
        BY <2>4 DEF Mends
      <3>2. undone' = 0
        BY <2>1, <2>4 DEF Mends
      <3> QED BY <3>1, <3>2
    <2>5. ASSUME NEW t \in Targets, Dispatches(t) PROVE Undisturbed'
      BY <2>2, <2>5 DEF Dispatches
    <2>6. ASSUME NEW result, NEW reported, NEW safe, AgentReturns(result, reported, safe)
          PROVE  Undisturbed'
      BY <2>2, <2>6 DEF AgentReturns
    <2>7. ASSUME Prepared \/ Blocks \/ Raises \/ Cancels PROVE Undisturbed'
      BY <2>2, <2>7 DEF Prepared, Blocks, Raises, Cancels, history
    <2>8. ASSUME NEW safe, Aborts(safe) \/ FindsStale(safe) PROVE Undisturbed'
      BY <2>2, <2>8 DEF Aborts, FindsStale, Becomes, history
    <2>9. ~Loads /\ ~PassesOver /\ ~WritesBack
      BY DEF Loads, PassesOver, WritesBack
    <2>10. ASSUME Unblocks \/ Releases \/ Reactivates \/ DelayEnds PROVE Undisturbed'
      BY <2>2, <2>10 DEF Unblocks, Releases, Reactivates, DelayEnds, Becomes, history
    <2>11. ASSUME Restarts PROVE Undisturbed'
      BY <2>11 DEF Restarts
    <2>12. ASSUME UNCHANGED vars PROVE Undisturbed'
      BY <2>2, <2>12 DEF vars
    <2> HIDE DEF Undisturbed
    <2> QED BY <2>3, <2>4, <2>5, <2>6, <2>7, <2>8, <2>9, <2>10, <2>11, <2>12 DEF Next
  <1>3. FairnessYield /\ Undisturbed => YieldsInTime
    BY CycleAssumption DEF FairnessYield, YieldsInTime
  <1> QED BY <1>1, <1>2, <1>3, TurnsYield, PTL DEF Spec

\* Every scheduled failure waits Multiplier times as long as the one before,
\* the first one after a clean turn Initial, up to MaxSeconds; and where the
\* waiting loop took attempts back in between, at most one step less than the
\* delay before it.
THEOREM BackoffGrows == Spec => BackoffDoubles
  <1>1. CycleInv /\ Counters /\ [Next]_vars =>
          [pc # "none"
           /\ durable'.failures > durable.failures /\ durable'.phase = "retry_wait"
           => IF durable.failures = 0 THEN durable'.delay = Initial
              ELSE \/ durable'.delay = Longer(last)
                   \/ undone > 0 /\ last <= Longer(durable'.delay)]_vars
    BY CountersStep DEF Doubles
  <1> QED BY <1>1, CountersInit, CountersStep, CycleCorrect, PTL DEF Spec, BackoffDoubles
=============================================================================
