--------------------------- MODULE WorkspaceProofs ---------------------------
(* Proofs about Workspace: its invariant, HalfTreeWasCut, NeverResetInUse.  *)
EXTENDS Workspace, TLAPS

LEMMA WorkspaceInit == Init => WorkspaceInv /\ UncutInv
  BY WorkspaceAssumption
     DEF Init, WorkspaceInv, WorkspaceTypeOK, OwnersWait, OneCommand, WaitersOwn,
         TurnsTaken, UncutInv

\* An ensure that runs no command starts one and waits for it, under the lock.
LEMMA StartsKeeps ==
    ASSUME WorkspaceInv, NEW i \in Issues, NEW op \in {"clone", "add"},
           pc[i] \in {"lock", "fetch"},
           pc' = [pc EXCEPT ![i] = op], jobs' = jobs \cup {Job(op, i)},
           IF pc[i] = "lock" /\ shared THEN holder = NoIssue /\ holder' = i
           ELSE holder' = holder,
           UNCHANGED <<control, tree, cut, shared, calm>>
    PROVE  WorkspaceInv'
  <1> DEFINE new == Job(op, i)
  <1>1. /\ new \in Jobs /\ new.owned = TRUE /\ new.issue = i /\ new.op = op
        /\ new.stage = "starts"
    BY DEF Job, Jobs
  <1>2. jobs' = jobs \cup {new}
    OBVIOUS
  <1> HIDE DEF new
  <1>3. WorkspaceTypeOK'
    BY <1>1, <1>2 DEF WorkspaceInv, WorkspaceTypeOK
  <1>4. \A j \in jobs : j \in Jobs /\ (j.owned => j.issue # i)
    BY DEF WorkspaceInv, WorkspaceTypeOK, OwnersWait, Jobs
  <1>5. OwnersWait'
    BY <1>1, <1>2, <1>4 DEF WorkspaceInv, WorkspaceTypeOK, OwnersWait, Jobs
  <1>6. OneCommand'
    BY <1>1, <1>2, <1>4 DEF WorkspaceInv, OneCommand
  <1>7. WaitersOwn'
    BY <1>1, <1>2 DEF WorkspaceInv, WorkspaceTypeOK, WaitersOwn
  <1>8. TurnsTaken'
    BY WorkspaceAssumption DEF WorkspaceInv, WorkspaceTypeOK, TurnsTaken
  <1> QED BY <1>3, <1>5, <1>6, <1>7, <1>8 DEF WorkspaceInv

LEMMA EnsureKeeps ==
    ASSUME WorkspaceInv, NEW i \in Issues, EnsureStep(i) \/ Asks(i) \/ FetchFails(i)
    PROVE  WorkspaceInv'
  <1> USE WorkspaceAssumption
      DEF WorkspaceInv, WorkspaceTypeOK, OwnersWait, OneCommand, WaitersOwn,
          TurnsTaken, Jobs
  <1>1. ASSUME Asks(i) PROVE WorkspaceInv'
    BY <1>1 DEF Asks
  <1>2. ASSUME Acquires(i) PROVE WorkspaceInv'
    <2>1. CASE control = "absent"
      BY <1>2, <2>1, StartsKeeps DEF Acquires
    <2>2. CASE control # "absent"
      BY <1>2, <2>2 DEF Acquires
    <2> QED BY <2>1, <2>2
  <1>3. ASSUME FindsPath(i) PROVE WorkspaceInv'
    BY <1>3 DEF FindsPath, LeavesFor
  <1>4. ASSUME FindsNoPath(i) PROVE WorkspaceInv'
    BY <1>4 DEF FindsNoPath
  <1>5. ASSUME Adds(i) PROVE WorkspaceInv'
    BY <1>5, StartsKeeps DEF Adds
  <1>6. ASSUME FetchFails(i) PROVE WorkspaceInv'
    BY <1>6 DEF FetchFails, LeavesFor
  <1> QED BY <1>1, <1>2, <1>3, <1>4, <1>5, <1>6 DEF EnsureStep

\* A command that ends takes its ensure to `place`.
LEMMA EndsKeeps ==
    ASSUME WorkspaceInv, NEW j \in jobs, NEW place \in {"idle", "ready", "validate"},
           Ends(j, place), j.stage # "headless" \/ place # "validate",
           control' \in {"absent", "partial", "cloned"},
           tree' \in [Issues -> {"absent", "bare", "partial", "complete"}],
           UNCHANGED <<cut, shared, calm>>
    PROVE  WorkspaceInv'
  <1> USE WorkspaceAssumption
      DEF WorkspaceInv, WorkspaceTypeOK, OwnersWait, OneCommand, WaitersOwn,
          TurnsTaken, Jobs
  <1>1. CASE ~j.owned
    BY <1>1 DEF Ends
  <1>2. CASE j.owned
    <2> DEFINE to == IF place = "validate" THEN place
                     ELSE IF pc[j.issue] = "killing" THEN "idle" ELSE place
    <2>1. /\ pc' = [pc EXCEPT ![j.issue] = to] /\ to \in {"idle", "ready", "validate"}
          /\ jobs' = jobs \ {j}
          /\ holder' = IF holder = j.issue /\ to # "validate" THEN NoIssue ELSE holder
      BY <1>2 DEF Ends, LeavesFor
    <2> HIDE DEF to
    <2>2. j.issue \in Issues /\ pc[j.issue] \in {"clone", "add", "killing"}
      BY <1>2
    <2>3. \A k \in jobs' : k.owned => k.issue # j.issue
      BY <1>2, <2>1
    <2>4. OwnersWait' /\ OneCommand'
      BY <2>1, <2>3
    <2>5. WaitersOwn'
      BY <2>1
    <2>6. TurnsTaken'
      BY <2>1, <2>2
    <2> QED BY <2>1, <2>4, <2>5, <2>6
  <1> QED BY <1>1, <1>2

\* A command that goes on is still the one its ensure waits for.
LEMMA AdvancesKeeps ==
    ASSUME WorkspaceInv, NEW j \in jobs, NEW stage \in {"made", "works"},
           j.stage # "headless", Advances(j, stage),
           control' \in {"absent", "partial", "cloned"},
           tree' \in [Issues -> {"absent", "bare", "partial", "complete"}],
           UNCHANGED <<pc, holder, cut, shared, calm>>
    PROVE  WorkspaceInv'
  <1> DEFINE new == [j EXCEPT !.stage = stage]
  <1>1. j \in Jobs
    BY DEF WorkspaceInv, WorkspaceTypeOK
  <1>2. /\ new \in Jobs /\ new.owned = j.owned /\ new.issue = j.issue
        /\ new.op = j.op /\ new.stage # "headless"
    BY <1>1 DEF Jobs
  <1>3. jobs' = (jobs \ {j}) \cup {new}
    BY DEF Advances
  <1> HIDE DEF new
  <1>4. WorkspaceTypeOK'
    BY <1>2, <1>3 DEF WorkspaceInv, WorkspaceTypeOK
  <1>5. OwnersWait'
    BY <1>2, <1>3 DEF WorkspaceInv, OwnersWait
  <1>6. OneCommand'
    BY <1>2, <1>3 DEF WorkspaceInv, OneCommand
  <1>7. WaitersOwn'
    BY <1>2, <1>3 DEF WorkspaceInv, WaitersOwn
  <1>8. TurnsTaken'
    BY DEF WorkspaceInv, TurnsTaken
  <1> QED BY <1>4, <1>5, <1>6, <1>7, <1>8 DEF WorkspaceInv

LEMMA GitKeeps ==
    ASSUME WorkspaceInv, NEW j \in jobs, GitStep(j) \/ Fails(j)
    PROVE  WorkspaceInv'
  <1>0. /\ j \in Jobs /\ control \in {"absent", "partial", "cloned"}
        /\ tree \in [Issues -> {"absent", "bare", "partial", "complete"}]
    BY DEF WorkspaceInv, WorkspaceTypeOK
  <1>1. ASSUME CloneStarts(j) PROVE WorkspaceInv'
    BY <1>0, <1>1, AdvancesKeeps DEF CloneStarts
  <1>2. ASSUME CloneEnds(j) PROVE WorkspaceInv'
    BY <1>0, <1>2, EndsKeeps DEF CloneEnds
  <1>3. ASSUME AddStarts(j) PROVE WorkspaceInv'
    BY <1>0, <1>3, AdvancesKeeps DEF AddStarts
  <1>4. ASSUME AddRegisters(j) PROVE WorkspaceInv'
    BY <1>0, <1>4, AdvancesKeeps DEF AddRegisters
  <1>5. ASSUME AddEnds(j) PROVE WorkspaceInv'
    BY <1>0, <1>5, EndsKeeps DEF AddEnds
  <1>6. ASSUME Refuses(j) PROVE WorkspaceInv'
    BY <1>0, <1>6, EndsKeeps DEF Refuses
  <1>7. ASSUME Fails(j) PROVE WorkspaceInv'
    BY <1>0, <1>7, EndsKeeps DEF Fails
  <1> QED BY <1>1, <1>2, <1>3, <1>4, <1>5, <1>6, <1>7 DEF GitStep, AddSteps

LEMMA TimesOutKeeps ==
    ASSUME WorkspaceInv, NEW j \in jobs, TimesOut(j)
    PROVE  WorkspaceInv'
  <1> DEFINE child == [j EXCEPT !.stage = "headless"]
  <1>1. /\ j \in Jobs /\ j.owned /\ j.stage # "headless" /\ j.issue \in Issues
        /\ pc[j.issue] = j.op
    BY DEF TimesOut, WorkspaceInv, WorkspaceTypeOK, OwnersWait, Jobs
  <1>2. \A k \in jobs : k.owned /\ k.issue = j.issue => k = j
    BY <1>1 DEF WorkspaceInv, OneCommand
  <1>3. CASE jobs' = jobs \ {j}
    <2>1. Ends(j, "idle") /\ UNCHANGED <<control, tree, cut, shared, calm>>
      BY <1>1, <1>3 DEF TimesOut, Ends
    <2> QED BY <1>1, <2>1, EndsKeeps DEF WorkspaceInv, WorkspaceTypeOK
  <1>4. CASE jobs' # jobs \ {j}
    <2>1. /\ jobs' = (jobs \ {j}) \cup {child}
          /\ pc' = [pc EXCEPT ![j.issue] = "killing"] /\ holder' = holder
          /\ UNCHANGED <<control, tree, cut, shared, calm>>
      BY <1>4 DEF TimesOut, Beheaded
    <2>2. /\ child \in Jobs /\ child.owned = TRUE /\ child.issue = j.issue
          /\ child.stage = "headless"
      BY <1>1 DEF Jobs
    <2> HIDE DEF child
    <2>3. WorkspaceTypeOK'
      BY <1>1, <2>1, <2>2 DEF WorkspaceInv, WorkspaceTypeOK
    <2>4. OwnersWait'
      BY <1>1, <1>2, <2>1, <2>2 DEF WorkspaceInv, WorkspaceTypeOK, OwnersWait, Jobs
    <2>5. OneCommand'
      BY <1>1, <1>2, <2>1, <2>2 DEF WorkspaceInv, OneCommand
    <2>6. WaitersOwn'
      BY <1>1, <2>1, <2>2 DEF WorkspaceInv, WorkspaceTypeOK, WaitersOwn, Jobs
    <2>7. TurnsTaken'
      BY <1>1, <2>1 DEF WorkspaceInv, WorkspaceTypeOK, TurnsTaken, Jobs
    <2> QED BY <2>3, <2>4, <2>5, <2>6, <2>7 DEF WorkspaceInv
  <1> QED BY <1>3, <1>4

\* A command left behind is the same command, with nobody waiting for it if its
\* issue is in S.
LEMMA LeftBehindIs ==
    ASSUME WorkspaceTypeOK, NEW S, NEW j \in LeftBehind(S)
    PROVE  \E k \in jobs :
             /\ j \in Jobs /\ j.op = k.op /\ j.issue = k.issue /\ j.stage = k.stage
             /\ j.owned => j = k /\ k.issue \notin S
  <1>1. PICK k \in jobs : j = [k EXCEPT !.owned = k.owned /\ k.issue \notin S]
    BY DEF LeftBehind
  <1>2. k \in Jobs
    BY DEF WorkspaceTypeOK
  <1>3. (k.owned /\ k.issue \notin S) \in BOOLEAN
    BY <1>2 DEF Jobs
  <1>4. /\ j \in Jobs /\ j.op = k.op /\ j.issue = k.issue /\ j.stage = k.stage
        /\ j.owned = (k.owned /\ k.issue \notin S)
    BY <1>1, <1>2, <1>3 DEF Jobs
  <1>5. ASSUME j.owned PROVE j = k /\ k.issue \notin S
    <2>1. k.owned = (k.owned /\ k.issue \notin S)
      BY <1>2, <1>4, <1>5 DEF Jobs
    <2>2. j = k
      BY <1>1, <1>2, <2>1 DEF Jobs
    <2>3. k.issue \notin S
      BY <1>4, <1>5
    <2> QED BY <2>2, <2>3
  <1> QED BY <1>4, <1>5

\* Every command of an issue outside S is still there.
LEMMA LeftBehindKeeps ==
    ASSUME WorkspaceTypeOK, NEW S, NEW j \in jobs, j.issue \notin S
    PROVE  j \in LeftBehind(S)
  <1>1. j \in Jobs
    BY DEF WorkspaceTypeOK
  <1>2. j = [j EXCEPT !.owned = j.owned /\ j.issue \notin S]
    BY <1>1 DEF Jobs
  <1> QED BY <1>2 DEF LeftBehind

\* The ensures of S are cut short; what they ran is left behind or dies.
CutShort(S) ==
    /\ S \subseteq Issues
    /\ jobs' = LeftBehind(S) \/ jobs' = {j \in jobs : j.issue \notin S}
    /\ pc' = [i \in Issues |-> IF i \in S THEN "idle" ELSE pc[i]]
    /\ holder' = IF holder \in S THEN NoIssue ELSE holder
    /\ cut' = cut \cup Interrupted(S)
    /\ UNCHANGED <<control, tree, shared, calm>>

\* What a command that remains was before, and that those outside S remain.
LEMMA CutJobs ==
    ASSUME WorkspaceTypeOK, NEW S, CutShort(S)
    PROVE  /\ \A j \in jobs' : j \in Jobs /\ \E k \in jobs :
                /\ j.op = k.op /\ j.issue = k.issue /\ j.stage = k.stage
                /\ j.owned => j = k /\ k.issue \notin S
           /\ \A j \in jobs : j.issue \notin S => j \in jobs'
  <1>1. CASE jobs' = LeftBehind(S)
    <2>1. ASSUME NEW j \in jobs'
          PROVE  j \in Jobs /\ \E k \in jobs :
                   /\ j.op = k.op /\ j.issue = k.issue /\ j.stage = k.stage
                   /\ j.owned => j = k /\ k.issue \notin S
      BY <1>1, LeftBehindIs
    <2>2. \A j \in jobs : j.issue \notin S => j \in jobs'
      BY <1>1, LeftBehindKeeps
    <2> QED BY <2>1, <2>2
  <1>2. CASE jobs' = {j \in jobs : j.issue \notin S}
    BY <1>2 DEF WorkspaceTypeOK
  <1> QED BY <1>1, <1>2 DEF CutShort

LEMMA CutKeeps ==
    ASSUME WorkspaceInv, NEW S, CutShort(S)
    PROVE  WorkspaceInv'
  <1> USE DEF WorkspaceInv
  <1>1. /\ \A j \in jobs' : j \in Jobs /\ \E k \in jobs :
             /\ j.op = k.op /\ j.issue = k.issue /\ j.stage = k.stage
             /\ j.owned => j = k /\ k.issue \notin S
        /\ \A j \in jobs : j.issue \notin S => j \in jobs'
    BY CutJobs
  <1>2. /\ S \subseteq Issues /\ cut' \subseteq Issues
        /\ \A i \in Issues : pc'[i] = IF i \in S THEN "idle" ELSE pc[i]
    BY DEF CutShort, Interrupted, WorkspaceTypeOK
  <1>3. WorkspaceTypeOK'
    BY <1>1, <1>2 DEF CutShort, WorkspaceTypeOK
  <1>4. OwnersWait'
    <2> SUFFICES ASSUME NEW j \in jobs', j.owned
                 PROVE  pc'[j.issue] = IF j.stage = "headless" THEN "killing" ELSE j.op
      BY DEF OwnersWait
    <2>1. j \in jobs /\ j.issue \in Issues \ S
      BY <1>1 DEF WorkspaceTypeOK, Jobs
    <2> QED BY <1>2, <2>1 DEF OwnersWait
  <1>5. OneCommand'
    BY <1>1 DEF OneCommand
  <1>6. WaitersOwn'
    BY <1>1, <1>2 DEF WaitersOwn
  <1>7. TurnsTaken'
    BY <1>2, WorkspaceAssumption DEF CutShort, TurnsTaken, WorkspaceTypeOK
  <1> QED BY <1>3, <1>4, <1>5, <1>6, <1>7

LEMMA Cuts ==
    ASSUME WorkspaceInv,
           \/ \E i \in Issues : Cancelled(i)
           \/ \E i \in Issues, children \in BOOLEAN :
                Killed(IF shared THEN Issues ELSE {i}, children)
    PROVE  \E S : CutShort(S)
  <1>1. ASSUME NEW i \in Issues, Cancelled(i) PROVE CutShort({i})
    <2>1. pc' = [k \in Issues |-> IF k \in {i} THEN "idle" ELSE pc[k]]
      BY <1>1 DEF Cancelled, LeavesFor, WorkspaceInv, WorkspaceTypeOK
    <2> QED BY <1>1, <2>1 DEF Cancelled, LeavesFor, CutShort
  <1>2. ASSUME NEW S \in SUBSET Issues, NEW children \in BOOLEAN, Killed(S, children)
        PROVE  CutShort(S)
    BY <1>2 DEF Killed, CutShort
  <1>3. \A i \in Issues : (IF shared THEN Issues ELSE {i}) \in SUBSET Issues
    OBVIOUS
  <1> QED BY <1>1, <1>2, <1>3

LEMMA WorkspaceStep == WorkspaceInv /\ [Next]_vars => WorkspaceInv'
  <1> SUFFICES ASSUME WorkspaceInv, [Next]_vars PROVE WorkspaceInv'
    OBVIOUS
  <1>1. CASE Calms \/ UNCHANGED vars
    <2>1. /\ UNCHANGED <<control, tree, jobs, pc, holder, cut, shared>>
          /\ calm \in BOOLEAN => calm' \in BOOLEAN
      BY <1>1 DEF Calms, vars
    <2> QED BY <2>1 DEF WorkspaceInv, WorkspaceTypeOK, OwnersWait, OneCommand,
                        WaitersOwn, TurnsTaken
  <1>2. CASE \E i \in Issues : Asks(i) \/ EnsureStep(i) \/ FetchFails(i)
    BY <1>2, EnsureKeeps
  <1>3. CASE \E j \in jobs : GitStep(j) \/ Fails(j) \/ TimesOut(j)
    BY <1>3, GitKeeps, TimesOutKeeps
  <1>4. CASE \/ \E i \in Issues : Cancelled(i)
             \/ \E i \in Issues, children \in BOOLEAN :
                  Killed(IF shared THEN Issues ELSE {i}, children)
    BY <1>4, Cuts, CutKeeps
  <1> QED BY <1>1, <1>2, <1>3, <1>4 DEF Next

\* Who waits for which git command, and under which lock, whatever is cancelled,
\* killed or timed out (WorkspaceManager.ensure and _git, workspace.py).
THEOREM WorkspaceCorrect == Spec => []WorkspaceInv
  <1>1. Init => WorkspaceInv
    BY WorkspaceInit
  <1> QED BY <1>1, WorkspaceStep, PTL DEF Spec

-----------------------------------------------------------------------------
LEMMA CutUncut ==
    ASSUME WorkspaceInv, UncutInv, NEW S, CutShort(S)
    PROVE  UncutInv'
  <1> SUFFICES ASSUME NEW i \in Issues, i \notin cut'
               PROVE  /\ \A j \in jobs' : j.op = "add" /\ j.issue = i => j.owned
                      /\ pc'[i] = "ready" => tree'[i] = "complete"
                      /\ tree'[i] = "partial" => \E j \in jobs' :
                           j.op = "add" /\ j.issue = i /\ j.stage \in {"works", "headless"}
    BY DEF UncutInv, BeingWritten
  <1>1. /\ i \notin cut /\ tree' = tree /\ pc'[i] \in {"idle", pc[i]}
        /\ i \in S => \A j \in jobs : ~(j.op = "add" /\ j.issue = i)
    BY DEF CutShort, Interrupted
  <1>2. /\ \A j \in jobs' : \E k \in jobs :
             /\ j.op = k.op /\ j.issue = k.issue
        /\ \A j \in jobs : j.issue \notin S => j \in jobs'
    BY CutJobs DEF WorkspaceInv
  <1>3. ASSUME NEW j \in jobs', j.op = "add", j.issue = i PROVE j.owned
    <2>1. i \notin S
      BY <1>1, <1>2, <1>3
    <2>2. j \in jobs
      <3>1. CASE jobs' = LeftBehind(S)
        <4>1. PICK k \in jobs : j = [k EXCEPT !.owned = k.owned /\ k.issue \notin S]
          BY <3>1 DEF LeftBehind
        <4>2. k \in Jobs /\ k.issue = i
          BY <1>3, <4>1 DEF WorkspaceInv, WorkspaceTypeOK, Jobs
        <4>3. j = k
          BY <2>1, <4>1, <4>2 DEF Jobs
        <4> QED BY <4>3
      <3>2. CASE jobs' = {k \in jobs : k.issue \notin S}
        BY <3>2
      <3> QED BY <3>1, <3>2 DEF CutShort
    <2> QED BY <1>1, <1>3, <2>2 DEF UncutInv, BeingWritten
  <1> QED BY <1>1, <1>2, <1>3 DEF UncutInv, BeingWritten

LEMMA EnsureUncut ==
    ASSUME WorkspaceInv, UncutInv, NEW i \in Issues,
           EnsureStep(i) \/ Asks(i) \/ FetchFails(i)
    PROVE  UncutInv'
  <1> USE DEF UncutInv, BeingWritten
  <1>0. /\ pc \in [Issues -> {"idle", "lock", "clone", "validate", "fetch", "add",
                              "killing", "ready"}]
        /\ tree \in [Issues -> {"absent", "bare", "partial", "complete"}]
        /\ jobs \subseteq Jobs
    BY DEF WorkspaceInv, WorkspaceTypeOK
  <1>1. ASSUME Asks(i) PROVE UncutInv'
    BY <1>0, <1>1 DEF Asks
  <1>2. ASSUME NEW op \in {"clone", "add"}, jobs' = jobs \cup {Job(op, i)},
               pc' = [pc EXCEPT ![i] = op], UNCHANGED <<tree, cut>>
        PROVE  UncutInv'
    <2>1. Job(op, i).owned
      BY DEF Job
    <2> QED BY <1>0, <1>2, <2>1
  <1>3. ASSUME Acquires(i) PROVE UncutInv'
    <2>1. CASE control = "absent"
      BY <1>2, <1>3, <2>1 DEF Acquires
    <2>2. CASE control # "absent"
      BY <1>0, <1>3, <2>2 DEF Acquires
    <2> QED BY <2>1, <2>2
  <1>4. ASSUME FindsPath(i) PROVE UncutInv'
    <2>1. \A j \in jobs : j.issue = i => ~j.owned
      BY <1>0, <1>4 DEF FindsPath, WorkspaceInv, OwnersWait, Jobs
    <2>2. i \notin cut => tree[i] # "partial"
      BY <2>1
    <2> QED BY <1>0, <1>4, <2>2 DEF FindsPath, LeavesFor
  <1>5. ASSUME FindsNoPath(i) PROVE UncutInv'
    BY <1>0, <1>5 DEF FindsNoPath
  <1>6. ASSUME Adds(i) PROVE UncutInv'
    BY <1>2, <1>6 DEF Adds
  <1>7. ASSUME FetchFails(i) PROVE UncutInv'
    BY <1>0, <1>7 DEF FetchFails, LeavesFor
  <1> QED BY <1>1, <1>3, <1>4, <1>5, <1>6, <1>7 DEF EnsureStep

\* A command that starts or goes on leaves the strengthening alone.
LEMMA GitUncut ==
    ASSUME WorkspaceInv, UncutInv, NEW j \in jobs, GitStep(j) \/ Fails(j)
    PROVE  UncutInv'
  <1>1. /\ pc \in [Issues -> {"idle", "lock", "clone", "validate", "fetch", "add",
                              "killing", "ready"}]
        /\ tree \in [Issues -> {"absent", "bare", "partial", "complete"}]
        /\ jobs \subseteq Jobs /\ j \in Jobs /\ j.issue \in Issues
    BY DEF WorkspaceInv, WorkspaceTypeOK, Jobs
  <1>2. /\ j.owned => pc[j.issue] \in {j.op, "killing"}
        /\ j.owned => pc[j.issue] # "ready"
    BY <1>1 DEF WorkspaceInv, OwnersWait, Jobs
  \* Where its pc goes: an ensure becomes ready only by its own `worktree add`.
  <1>3. ASSUME NEW place \in {"idle", "validate", "ready"}, Ends(j, place)
        PROVE  \A i \in Issues :
                 \/ pc'[i] = pc[i]
                 \/ i = j.issue /\ j.owned /\ (pc'[i] = "ready" => place = "ready")
    BY <1>1, <1>3 DEF Ends, LeavesFor
  <1>4. ASSUME NEW stage \in {"made", "works"}, Advances(j, stage), pc' = pc, cut' = cut,
               \/ j.op = "clone" /\ tree' = tree
               \/ j.op = "add" /\ stage = "made" /\ j.stage = "starts"
                  /\ tree' = [tree EXCEPT ![j.issue] = "bare"]
               \/ j.op = "add" /\ stage = "works" /\ j.stage = "made"
                  /\ tree' = [tree EXCEPT ![j.issue] = "partial"]
        PROVE  UncutInv'
    <2> DEFINE new == [j EXCEPT !.stage = stage]
    <2>1. /\ new.op = j.op /\ new.issue = j.issue /\ new.owned = j.owned
          /\ new.stage = stage /\ jobs' = (jobs \ {j}) \cup {new}
      BY <1>1, <1>4 DEF Jobs, Advances
    <2> HIDE DEF new
    <2> SUFFICES ASSUME NEW i \in Issues, i \notin cut
                 PROVE  /\ \A k \in jobs' : k.op = "add" /\ k.issue = i => k.owned
                        /\ pc'[i] = "ready" => tree'[i] = "complete"
                        /\ tree'[i] = "partial" => \E k \in jobs' :
                             /\ k.op = "add" /\ k.issue = i
                             /\ k.stage \in {"works", "headless"}
      BY <1>4 DEF UncutInv, BeingWritten
    <2>2. \A k \in jobs' : k.op = "add" /\ k.issue = i => k.owned
      BY <2>1 DEF UncutInv, BeingWritten
    <2>3. pc'[i] = "ready" => tree'[i] = "complete"
      <3>1. CASE i = j.issue /\ j.op = "add"
        BY <1>2, <1>4, <3>1 DEF UncutInv, BeingWritten
      <3>2. CASE tree'[i] = tree[i]
        BY <1>4, <3>2 DEF UncutInv, BeingWritten
      <3> QED BY <1>1, <1>4, <3>1, <3>2
    <2>4. ASSUME tree'[i] = "partial"
          PROVE  \E k \in jobs' : /\ k.op = "add" /\ k.issue = i
                                  /\ k.stage \in {"works", "headless"}
      <3>1. CASE tree[i] = "partial" /\ tree'[i] = tree[i]
        <4>1. PICK k \in jobs : k.op = "add" /\ k.issue = i
                                /\ k.stage \in {"works", "headless"}
          BY <3>1 DEF UncutInv, BeingWritten
        <4>2. k # j \/ (j.op = "add" /\ j.stage \in {"works", "headless"})
          BY <4>1
        <4> QED BY <1>4, <2>1, <4>1, <4>2
      <3>2. CASE stage = "works" /\ j.op = "add" /\ i = j.issue
        BY <2>1, <3>2
      <3> QED BY <1>1, <1>4, <2>4, <3>1, <3>2
    <2> QED BY <2>2, <2>3, <2>4
  \* A command of a clone, or one that had made nothing, ends.
  <1>5. ASSUME Ends(j, "idle") \/ Ends(j, "validate"), cut' = cut, tree' = tree,
               j.op = "clone" \/ j.stage = "starts"
        PROVE  UncutInv'
    <2>1. jobs' = jobs \ {j} /\ \A i \in Issues : pc'[i] = "ready" => pc[i] = "ready"
      BY <1>3, <1>5 DEF Ends
    <2> QED BY <1>1, <1>5, <2>1 DEF UncutInv, BeingWritten
  \* A `worktree add` that had made something ends, with its worktree or none.
  <1>6. ASSUME NEW place \in {"idle", "ready"}, Ends(j, place), cut' = cut, j.op = "add",
               \/ tree' = [tree EXCEPT ![j.issue] = "complete"]
               \/ place = "idle" /\ tree' = [tree EXCEPT ![j.issue] = "absent"]
        PROVE  UncutInv'
    <2>1. /\ jobs' = jobs \ {j}
          /\ \A i \in Issues \ {j.issue} : tree'[i] = tree[i] /\ pc'[i] = pc[i]
          /\ tree'[j.issue] # "partial"
      BY <1>1, <1>3, <1>6 DEF Ends
    <2>2. j.issue \notin cut => j.owned
      BY <1>1, <1>6 DEF UncutInv, BeingWritten
    <2>3. j.issue \notin cut /\ pc'[j.issue] = "ready" => tree'[j.issue] = "complete"
      BY <1>1, <1>2, <1>3, <1>6, <2>2
    <2> QED BY <1>1, <1>6, <2>1, <2>3 DEF UncutInv, BeingWritten
  <1>7. CASE CloneStarts(j)
    BY <1>4, <1>7 DEF CloneStarts
  <1>8. CASE CloneEnds(j)
    BY <1>5, <1>8 DEF CloneEnds
  <1>9. CASE AddStarts(j)
    BY <1>4, <1>9 DEF AddStarts
  <1>10. CASE AddRegisters(j)
    BY <1>4, <1>10 DEF AddRegisters
  <1>11. CASE AddEnds(j)
    BY <1>6, <1>11 DEF AddEnds
  <1>12. CASE Refuses(j)
    BY <1>5, <1>12 DEF Refuses
  <1>13. CASE Fails(j)
    <2>1. CASE j.op = "clone" \/ j.stage = "starts"
      BY <1>5, <1>13, <2>1 DEF Fails
    <2>2. CASE j.op = "add" /\ j.stage # "starts"
      BY <1>6, <1>13, <2>2 DEF Fails
    <2> QED BY <1>1, <2>1, <2>2 DEF Jobs
  <1> QED BY <1>7, <1>8, <1>9, <1>10, <1>11, <1>12, <1>13 DEF GitStep, AddSteps

LEMMA TimesOutUncut ==
    ASSUME WorkspaceInv, UncutInv, NEW j \in jobs, TimesOut(j)
    PROVE  UncutInv'
  <1> DEFINE child == [j EXCEPT !.stage = "headless"]
  <1>1. /\ j \in Jobs /\ j.issue \in Issues
        /\ pc \in [Issues -> {"idle", "lock", "clone", "validate", "fetch", "add",
                              "killing", "ready"}]
        /\ tree' = tree /\ cut' = cut /\ j.owned /\ j.stage # "headless"
    BY DEF TimesOut, WorkspaceInv, WorkspaceTypeOK, OwnersWait, Jobs
  <1>2. /\ child.op = j.op /\ child.issue = j.issue /\ child.owned /\ child.stage = "headless"
    BY <1>1 DEF Jobs
  <1>3. jobs' = (jobs \ {j}) \cup
                  IF j.op = "add" /\ j.stage = "works" THEN {child} ELSE {}
    BY DEF TimesOut, Beheaded
  <1> HIDE DEF child
  <1>4. \A i \in Issues : pc'[i] = "ready" => pc[i] = "ready"
    BY <1>1 DEF TimesOut, LeavesFor
  <1>5. ASSUME NEW i \in Issues, NEW k \in jobs, k.op = "add", k.issue = i,
               k.stage \in {"works", "headless"}
        PROVE  \E l \in jobs' : l.op = "add" /\ l.issue = i /\ l.stage \in {"works", "headless"}
    <2>1. CASE k = j
      BY <1>1, <1>2, <1>3, <1>5, <2>1
    <2>2. CASE k # j
      BY <1>3, <1>5, <2>2
    <2> QED BY <2>1, <2>2
  <1>6. \A k \in jobs' : k \in jobs \/ k.owned
    BY <1>2, <1>3
  <1> QED BY <1>1, <1>4, <1>5, <1>6 DEF UncutInv, BeingWritten

LEMMA UncutStep == WorkspaceInv /\ UncutInv /\ [Next]_vars => UncutInv'
  <1> SUFFICES ASSUME WorkspaceInv, UncutInv, [Next]_vars PROVE UncutInv'
    OBVIOUS
  <1>1. CASE Calms \/ UNCHANGED vars
    BY <1>1 DEF Calms, vars, UncutInv, BeingWritten
  <1>2. CASE \E i \in Issues : Asks(i) \/ EnsureStep(i) \/ FetchFails(i)
    BY <1>2, EnsureUncut
  <1>3. CASE \E j \in jobs : GitStep(j) \/ Fails(j) \/ TimesOut(j)
    BY <1>3, GitUncut, TimesOutUncut
  <1>4. CASE \/ \E i \in Issues : Cancelled(i)
             \/ \E i \in Issues, children \in BOOLEAN :
                  Killed(IF shared THEN Issues ELSE {i}, children)
    BY <1>4, Cuts, CutUncut
  <1> QED BY <1>1, <1>2, <1>3, <1>4 DEF Next

\* A worktree handed out half written, or taken away again, belongs to an issue
\* whose `worktree add` was cut off (ensure and _git, workspace.py).
THEOREM OnlyCutTrees == Spec => []HalfTreeWasCut
  <1>1. Init => WorkspaceInv /\ UncutInv
    BY WorkspaceInit
  <1>2. WorkspaceInv /\ UncutInv /\ [Next]_vars => (WorkspaceInv /\ UncutInv)'
    BY WorkspaceStep, UncutStep
  <1>3. WorkspaceInv /\ UncutInv => HalfTreeWasCut
    BY DEF WorkspaceInv, OwnersWait, UncutInv, BeingWritten, HalfTreeWasCut
  <1> QED BY <1>1, <1>2, <1>3, PTL DEF Spec
-----------------------------------------------------------------------------
LEMMA NoneCut ==
    ASSUME "cancel" \notin Faults, "kill" \notin Faults, cut = {}, [Next]_vars
    PROVE  cut' = {}
  <1>1. CASE Calms \/ UNCHANGED vars
    BY <1>1 DEF Calms, vars
  <1>2. CASE \E i \in Issues : Asks(i) \/ EnsureStep(i) \/ FetchFails(i)
    BY <1>2 DEF Asks, EnsureStep, Acquires, FindsPath, FindsNoPath, Adds, FetchFails
  <1>3. CASE \E j \in jobs : GitStep(j) \/ Fails(j) \/ TimesOut(j)
    BY <1>3 DEF GitStep, AddSteps, CloneStarts, CloneEnds, AddStarts, AddRegisters,
                AddEnds, Refuses, Fails, TimesOut
  <1>4. ~\/ \E i \in Issues : Cancelled(i)
         \/ \E i \in Issues, children \in BOOLEAN :
              Killed(IF shared THEN Issues ELSE {i}, children)
    BY DEF Cancelled, Killed, Injects
  <1> QED BY <1>1, <1>2, <1>3, <1>4 DEF Next

\* What ARCHITECTURE.md promises of existing worktrees does hold where no
\* attempt is cancelled and no orchestrator killed: a timeout waits for the
\* `worktree add` it kills, so no ensure finds the worktree of one that still
\* runs (_git, workspace.py).
THEOREM NeverResetUncut ==
    ASSUME "cancel" \notin Faults, "kill" \notin Faults
    PROVE  Spec => []NeverResetInUse
  <1>1. Init => cut = {}
    BY DEF Init
  <1>2. cut = {} /\ [Next]_vars => (cut = {})'
    BY NoneCut
  <1>3. cut = {} /\ HalfTreeWasCut => NeverResetInUse
    BY DEF HalfTreeWasCut, NeverResetInUse
  <1> QED BY <1>1, <1>2, <1>3, OnlyCutTrees, PTL DEF Spec
=============================================================================
