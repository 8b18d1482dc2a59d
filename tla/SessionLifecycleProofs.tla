----------------------- MODULE SessionLifecycleProofs -----------------------
(***************************************************************************)
(* Proofs that SessionManager never runs two native sessions side by side, *)
(* and that stop() waits for the alerts thread, for any number of          *)
(* application threads and of native sessions.                             *)
(***************************************************************************)
EXTENDS SessionLifecycle, FiniteSetTheorems, TLAPS

\* Where a caller is while it holds sync, and while it stops a session.
Critical == {"state", "locked", "spawn", "filter", "post", "join", "delete"}
Ending == {"post", "join", "delete"}

\* A thread that was started and has not ended.
Active(g) == loop[g] \notin {"none", "done"}

Types ==
    /\ created \in Nat /\ session \in 0..created /\ alertsLoop \in 0..created
    /\ deleted \subseteq 1..created
    /\ lock \in Callers \cup {NoCaller}
    /\ pc \in [Callers -> Critical \cup {"idle", "lock", "use", "native"}]
    /\ task \in [Callers -> {"none", "start", "stop", "restart", "method"}]
    /\ local \in [Callers -> Nat]
    /\ loop \in [Sessions -> {"none", "done", "check", "wait", "waiting", "recheck",
                              "pop", "dispatch", "stats", "post", "posting"}]
    /\ inside \in [Sessions -> Nat]

\* The calls that still have a session to create.
Starters == {c \in Callers : /\ task[c] \in {"start", "restart"}
                             /\ pc[c] \notin {"spawn", "filter"}}

\* Every one of them can: session numbers stay within Sessions.
Budget == created + Cardinality(Starters) <= MaxSessions

\* sync excludes: only its holder is in a critical section, for its own task.
Exclusion ==
    \A c \in Callers :
        /\ pc[c] \in Critical <=> lock = c
        /\ pc[c] \in {"lock", "state", "locked"} => task[c] \in {"start", "stop", "restart"}
        /\ pc[c] \in {"spawn", "filter"} => task[c] = "start"
        /\ pc[c] \in Ending => task[c] \in {"stop", "restart"}

\* The youngest session is the only one that may live, in the field or in the
\* hands of the caller that stops it.
Ownership ==
    /\ \A s \in 1..created : s # created => s \in deleted
    /\ session # Null => session = created /\ created \notin deleted
    /\ \A c \in Callers :
         /\ pc[c] \in {"spawn", "filter"} => session # Null
         /\ pc[c] \in Ending => /\ session = Null /\ local[c] = created
                                /\ created # 0 /\ created \notin deleted
    /\ (created # 0 /\ created \notin deleted) =>
         session = created \/ \E c \in Callers : pc[c] \in Ending

\* The remembered thread is the youngest session's, from its start to its join.
Remembered ==
    /\ alertsLoop # Null =>
         /\ alertsLoop = created
         /\ session # Null \/ \E c \in Callers : pc[c] \in {"post", "join"}
    /\ \A c \in Callers : pc[c] \in {"spawn", "delete"} => alertsLoop = Null

\* A session in the field has its thread from the moment it was started.
Served == session # Null =>
            \/ \E c \in Callers : pc[c] = "spawn"
            \/ Active(session)

\* No thread outlives its join, and it calls the youngest session only.
Joined == \A g \in Sessions :
            /\ Active(g) => alertsLoop = g
            /\ inside[g] # Null => Active(g) /\ inside[g] = created

IndInv ==
    /\ Types /\ Budget /\ Exclusion /\ Ownership /\ Remembered /\ Served
    /\ ~Interrupts => Joined

----------------------------------------------------------------------------
(* The cases of a step. *)

USE LifecycleAssumption DEF Null, Sessions, callerVars, loopVars

\* A caller that is outside every critical section before and after the step.
OutsideStep(c) ==
    /\ pc[c] \notin Critical
    /\ \E label \in {"idle", "lock", "use", "native"} : pc' = [pc EXCEPT ![c] = label]
    /\ \E what \in {"none", "start", "stop", "restart", "method"} :
         /\ task' = [task EXCEPT ![c] = what]
         /\ pc'[c] = "lock" => what \in {"start", "stop", "restart"}
         /\ what \in {"start", "restart"} => task[c] = what \/ Affordable
    /\ \E s \in Nat : local' = [local EXCEPT ![c] = s]
    /\ UNCHANGED <<session, created, deleted, lock, alertsLoop, loopVars>>

\* A call that gives the lock back and owns no session, or one in the field.
LeaveStep(c) ==
    /\ pc[c] \in {"state", "locked", "filter"}
    /\ ReturnUnlocked(c)
    /\ UNCHANGED <<session, created, deleted, alertsLoop, loopVars>>

\* restart() goes on from its first test to stop().
RestartOn(c) ==
    /\ pc[c] = "state" /\ Goto(c, "locked")
    /\ UNCHANGED <<session, created, deleted, lock, alertsLoop, task, local, loopVars>>

\* A step of an alerts thread: it ends only when it finds the field null, and
\* calls only the session it finds there.
ThreadStep(g) ==
    /\ Active(g)
    /\ \E label \in {"done", "check", "wait", "waiting", "recheck",
                     "pop", "dispatch", "stats", "post", "posting"},
          native \in {Null, session} :
         /\ LoopStep(g, label, native)
         /\ label = "done" => session = Null

LEMMA OutsideCases ==
    ASSUME Types, Exclusion, NEW c \in Callers,
           \/ \E what \in {"start", "stop", "restart"} : Call(c, what)
           \/ MethodCheck(c) \/ MethodUse(c) \/ MethodReturn(c)
    PROVE  OutsideStep(c)
<1> USE DEF OutsideStep, Types, Critical
<1>1. ASSUME NEW what \in {"start", "stop", "restart"}, Call(c, what) PROVE OutsideStep(c)
  <2>1. local' = [local EXCEPT ![c] = local[c]] /\ local[c] \in Nat
    BY <1>1 DEF Call
  <2> QED BY <1>1, <2>1 DEF Call, Goto
<1>2. CASE MethodCheck(c)
  <2>1. local' = [local EXCEPT ![c] = local[c]] /\ local[c] \in Nat
    BY <1>2 DEF MethodCheck
  <2> QED BY <1>2, <2>1 DEF MethodCheck, Goto
<1>3. CASE MethodUse(c) \/ MethodReturn(c)
  <2>1. CASE Return(c)
    BY <1>3, <2>1 DEF MethodUse, MethodReturn, Return
  <2>2. CASE ~Return(c)
    <3>1. /\ task' = [task EXCEPT ![c] = task[c]]
          /\ task[c] \in {"none", "start", "stop", "restart", "method"}
      BY <1>3, <2>2 DEF MethodUse, MethodReturn
    <3>2. \E label \in {"use", "native"} : pc' = [pc EXCEPT ![c] = label]
      BY <1>3, <2>2 DEF MethodUse, MethodReturn, Goto
    <3>3. pc[c] \notin Critical /\ pc'[c] # "lock"
      BY <1>3, <3>2 DEF MethodUse, MethodReturn
    <3>4. \E s \in Nat : local' = [local EXCEPT ![c] = s]
      BY <1>3, <2>2 DEF MethodUse, MethodReturn
    <3>5. UNCHANGED <<session, created, deleted, lock, alertsLoop, loopVars>>
      BY <1>3 DEF MethodUse, MethodReturn
    <3> QED BY <3>1, <3>2, <3>3, <3>4, <3>5
  <2> QED BY <2>1, <2>2
<1> QED BY <1>1, <1>2, <1>3

LEMMA ThreadCases ==
    ASSUME Types, NEW g \in Sessions, Loop(g)
    PROVE  ThreadStep(g)
<1> USE DEF ThreadStep, Active, AtLoop
<1>1. CASE LoopCheck(g)
  BY <1>1 DEF LoopCheck
<1>2. CASE LoopWait(g)
  BY <1>2 DEF LoopWait
<1>3. CASE LoopWaited(g)
  BY <1>3 DEF LoopWaited
<1>4. CASE LoopRecheck(g)
  BY <1>4 DEF LoopRecheck
<1>5. CASE LoopPop(g)
  BY <1>5 DEF LoopPop
<1>6. CASE LoopDispatch(g)
  BY <1>6 DEF LoopDispatch
<1>7. CASE LoopStats(g)
  BY <1>7 DEF LoopStats
<1>8. CASE LoopPost(g)
  BY <1>8 DEF LoopPost
<1>9. CASE LoopPosted(g)
  BY <1>9 DEF LoopPosted
<1> QED BY <1>1, <1>2, <1>3, <1>4, <1>5, <1>6, <1>7, <1>8, <1>9 DEF Loop

LEMMA StepCases ==
    ASSUME Types, Exclusion, [Next]_vars
    PROVE  \/ \E c \in Callers :
                \/ OutsideStep(c) \/ Lock(c) \/ LeaveStep(c) \/ RestartOn(c)
                \/ StartSession(c) \/ StartLoop(c)
                \/ StopField(c) \/ StopPost(c) \/ StopJoin(c) \/ StopDelete(c)
           \/ \E g \in Sessions : ThreadStep(g)
           \/ UNCHANGED vars
<1>1. ASSUME NEW c \in Callers, RestartState(c) PROVE LeaveStep(c) \/ RestartOn(c)
  BY <1>1 DEF RestartState, LeaveStep, RestartOn
<1>2. ASSUME NEW c \in Callers, TooLate(c) \/ StartFilter(c) PROVE LeaveStep(c)
  BY <1>2 DEF TooLate, StartFilter, LeaveStep
<1>3. ASSUME NEW c \in Callers, Progress(c)
      PROVE  \/ OutsideStep(c) \/ Lock(c) \/ LeaveStep(c) \/ RestartOn(c)
             \/ StartSession(c) \/ StartLoop(c)
             \/ StopField(c) \/ StopPost(c) \/ StopJoin(c) \/ StopDelete(c)
  BY <1>1, <1>2, <1>3, OutsideCases DEF Progress, Starting, StoppingSteps
<1> QED BY <1>3, OutsideCases, ThreadCases DEF Next

----------------------------------------------------------------------------
(* Session numbers stay within their bound. *)

LEMMA StartersFinite == IsFiniteSet(Starters) /\ Cardinality(Starters) \in Nat
<1>1. Starters \subseteq Callers
  BY DEF Starters
<1> QED BY <1>1, FS_Subset, FS_CardinalityType

\* A step that adds no starter keeps the budget.
LEMMA BudgetKept ==
    ASSUME Types, Budget, created' = created, Starters' \subseteq Starters
    PROVE  Budget'
<1>1. Cardinality(Starters') \in Nat /\ Cardinality(Starters') <= Cardinality(Starters)
  BY StartersFinite, FS_Subset, FS_CardinalityType
<1> QED BY <1>1, StartersFinite DEF Budget, Types

LEMMA BudgetStep ==
    ASSUME Types, Exclusion, Budget, [Next]_vars
    PROVE  Budget'
<1> USE DEF Types, Starters
<1>1. ASSUME NEW c \in Callers, OutsideStep(c) PROVE Budget'
  <2> DEFINE All == {d \in Callers : task[d] \in {"start", "restart"}}
  <2>0. created' = created
    BY <1>1 DEF OutsideStep
  <2>1. CASE task'[c] \in {"start", "restart"} /\ Affordable
    <3>1. Starters' \subseteq All \cup {c} /\ All \subseteq Callers
      BY <1>1 DEF OutsideStep
    <3>2. IsFiniteSet(All) /\ Cardinality(All) \in Nat
      BY <3>1, FS_Subset, FS_CardinalityType
    <3> HIDE DEF All
    <3>3. IsFiniteSet(All \cup {c}) /\ Cardinality(All \cup {c}) <= Cardinality(All) + 1
      <4>1. /\ IsFiniteSet(All \cup {c})
            /\ Cardinality(All \cup {c}) = IF c \in All THEN Cardinality(All) ELSE Cardinality(All) + 1
        BY <3>2, FS_AddElement
      <4> QED BY <3>2, <4>1
    <3>4. Cardinality(Starters') <= Cardinality(All \cup {c}) /\ Cardinality(Starters') \in Nat
      BY <3>1, <3>3, FS_Subset, FS_CardinalityType
    <3>5. Cardinality(All \cup {c}) \in Nat
      BY <3>3, FS_CardinalityType
    <3>6. created + Cardinality(All) < MaxSessions
      BY <2>1 DEF Affordable, All
    <3> QED BY <2>0, <3>2, <3>3, <3>4, <3>5, <3>6 DEF Budget
  <2>2. CASE ~(task'[c] \in {"start", "restart"} /\ Affordable)
    <3>1. Starters' \subseteq Starters
      BY <1>1, <2>2 DEF OutsideStep, Critical
    <3> QED BY <2>0, <3>1, BudgetKept
  <2> QED BY <2>1, <2>2
<1>2. ASSUME NEW c \in Callers, StartSession(c) PROVE Budget'
  <2>1. c \in Starters /\ Starters' = Starters \ {c} /\ created' = created + 1
    BY <1>2 DEF StartSession, Goto
  <2> HIDE DEF Starters
  <2>2. Cardinality(Starters') = Cardinality(Starters) - 1
    BY <2>1, StartersFinite, FS_RemoveElement
  <2> QED BY <2>1, <2>2, StartersFinite DEF Budget
<1>3. ASSUME NEW c \in Callers,
             \/ Lock(c) \/ LeaveStep(c) \/ RestartOn(c) \/ StartLoop(c)
             \/ StopField(c) \/ StopPost(c) \/ StopJoin(c) \/ StopDelete(c)
      PROVE  created' = created /\ Starters' \subseteq Starters
  <2>1. CASE Lock(c) \/ RestartOn(c)
    BY <2>1 DEF Lock, RestartOn, Goto
  <2>2. CASE LeaveStep(c)
    BY <2>2 DEF LeaveStep, ReturnUnlocked, Return
  <2>3. CASE StartLoop(c) \/ StopField(c) \/ StopPost(c) \/ StopJoin(c)
    BY <2>3 DEF StartLoop, StopField, Stopping, StopPost, StopJoin, Goto
  <2>4. CASE StopDelete(c)
    BY <2>4 DEF StopDelete, ReturnUnlocked, Return, Goto
  <2> QED BY <1>3, <2>1, <2>2, <2>3, <2>4
<1>4. ASSUME NEW g \in Sessions, ThreadStep(g) PROVE created' = created /\ Starters' = Starters
  BY <1>4 DEF ThreadStep, LoopStep
<1>5. CASE UNCHANGED vars
  BY <1>5 DEF vars, Budget
<1> QED BY <1>1, <1>2, <1>3, <1>4, <1>5, StepCases, BudgetKept

\* While a caller starts a session, its number is within the bound.
LEMMA WithinBound ==
    ASSUME Types, Budget
    PROVE  created <= MaxSessions
  BY StartersFinite DEF Types, Budget

----------------------------------------------------------------------------
(* The parts of the invariant. *)

LEMMA TypesStep ==
    ASSUME Types, Budget', Exclusion, Ownership, [Next]_vars
    PROVE  Types'
<1> USE DEF Types, Critical, Goto
<1>1. ASSUME NEW c \in Callers, OutsideStep(c) PROVE Types'
  BY <1>1 DEF OutsideStep
<1>2. ASSUME NEW c \in Callers, Lock(c) \/ RestartOn(c) PROVE Types'
  BY <1>2 DEF Lock, RestartOn
<1>3. ASSUME NEW c \in Callers, LeaveStep(c) PROVE Types'
  BY <1>3 DEF LeaveStep, ReturnUnlocked, Return
<1>4. ASSUME NEW c \in Callers, StartSession(c) \/ StartLoop(c) PROVE Types'
  <2>1. CASE StartSession(c)
    BY <2>1 DEF StartSession
  <2>2. CASE StartLoop(c)
    BY <2>2 DEF StartLoop
  <2> QED BY <1>4, <2>1, <2>2
<1>5. ASSUME NEW c \in Callers, StopField(c) \/ StopPost(c) \/ StopJoin(c) PROVE Types'
  <2>1. CASE StopField(c)
    BY <2>1 DEF StopField, Stopping
  <2>2. CASE StopPost(c)
    BY <2>2 DEF StopPost
  <2>3. CASE StopJoin(c)
    BY <2>3 DEF StopJoin
  <2> QED BY <1>5, <2>1, <2>2, <2>3
<1>6. ASSUME NEW c \in Callers, StopDelete(c) PROVE Types'
  <2>1. local[c] \in 1..created
    BY <1>6 DEF StopDelete, Ownership, Ending
  <2>2. deleted' \subseteq 1..created /\ UNCHANGED <<session, created, alertsLoop, loopVars>>
    BY <1>6, <2>1 DEF StopDelete
  <2>3. \/ ReturnUnlocked(c)
        \/ /\ pc' = [pc EXCEPT ![c] = "locked"] /\ task' = [task EXCEPT ![c] = "start"]
           /\ local' = [local EXCEPT ![c] = Null] /\ lock' = lock
    BY <1>6 DEF StopDelete
  <2>4. pc' \in [Callers -> Critical \cup {"idle", "lock", "use", "native"}]
    BY <2>3 DEF ReturnUnlocked, Return
  <2>5. task' \in [Callers -> {"none", "start", "stop", "restart", "method"}]
    BY <2>3 DEF ReturnUnlocked, Return
  <2>6. local' \in [Callers -> Nat]
    BY <2>3 DEF ReturnUnlocked, Return
  <2>7. lock' \in Callers \cup {NoCaller}
    BY <2>3 DEF ReturnUnlocked, Return
  <2> QED BY <2>2, <2>4, <2>5, <2>6, <2>7
<1>7. ASSUME NEW g \in Sessions, ThreadStep(g) PROVE Types'
  BY <1>7 DEF ThreadStep, LoopStep
<1>8. CASE UNCHANGED vars
  BY <1>8 DEF vars
<1> QED BY <1>1, <1>2, <1>3, <1>4, <1>5, <1>6, <1>7, <1>8, StepCases

\* sync is a mutual exclusion lock and every way out of start(), stop() and
\* restart() gives it back.
LEMMA ExclusionStep ==
    ASSUME Types, Exclusion, [Next]_vars
    PROVE  Exclusion'
<1> USE DEF Types, Exclusion, Critical, Ending, Goto
<1>1. ASSUME NEW c \in Callers, OutsideStep(c) PROVE Exclusion'
  BY <1>1 DEF OutsideStep
<1>2. ASSUME NEW c \in Callers, Lock(c) \/ RestartOn(c) PROVE Exclusion'
  <2>1. CASE Lock(c)
    BY <2>1 DEF Lock
  <2>2. CASE RestartOn(c)
    BY <2>2 DEF RestartOn
  <2> QED BY <1>2, <2>1, <2>2
<1>3. ASSUME NEW c \in Callers, LeaveStep(c) PROVE Exclusion'
  BY <1>3 DEF LeaveStep, ReturnUnlocked, Return
<1>4. ASSUME NEW c \in Callers, StartSession(c) \/ StartLoop(c) PROVE Exclusion'
  BY <1>4 DEF StartSession, StartLoop
<1>5. ASSUME NEW c \in Callers, StopField(c) \/ StopPost(c) \/ StopJoin(c) PROVE Exclusion'
  BY <1>5 DEF StopField, Stopping, StopPost, StopJoin
<1>6. ASSUME NEW c \in Callers, StopDelete(c) PROVE Exclusion'
  <2>1. CASE task[c] = "stop"
    <3>1. /\ pc' = [pc EXCEPT ![c] = "idle"] /\ task' = [task EXCEPT ![c] = "none"]
          /\ lock = c /\ lock' = NoCaller
      BY <1>6, <2>1 DEF StopDelete, ReturnUnlocked, Return
    <3> QED BY <3>1
  <2>2. CASE task[c] = "restart"
    BY <1>6, <2>2 DEF StopDelete
  <2> QED BY <1>6, <2>1, <2>2 DEF StopDelete
<1>7. ASSUME NEW g \in Sessions, ThreadStep(g) PROVE Exclusion'
  BY <1>7 DEF ThreadStep, LoopStep
<1>8. CASE UNCHANGED vars
  BY <1>8 DEF vars
<1> QED BY <1>1, <1>2, <1>3, <1>4, <1>5, <1>6, <1>7, <1>8, StepCases

\* A new session is created only when the last one was deleted: the field is
\* null, and a caller that still held the last one would hold the lock too.
LEMMA OwnershipStep ==
    ASSUME Types, Exclusion, Ownership, [Next]_vars
    PROVE  Ownership'
<1> USE DEF Types, Exclusion, Ownership, Critical, Ending, Goto
<1>1. ASSUME NEW c \in Callers, OutsideStep(c) PROVE Ownership'
  BY <1>1 DEF OutsideStep
<1>2. ASSUME NEW c \in Callers, Lock(c) \/ RestartOn(c) PROVE Ownership'
  BY <1>2 DEF Lock, RestartOn
<1>3. ASSUME NEW c \in Callers, LeaveStep(c) PROVE Ownership'
  BY <1>3 DEF LeaveStep, ReturnUnlocked, Return
<1>4. ASSUME NEW c \in Callers, StartSession(c) PROVE Ownership'
  BY <1>4 DEF StartSession
<1>5. ASSUME NEW c \in Callers, StartLoop(c) PROVE Ownership'
  BY <1>5 DEF StartLoop
<1>6. ASSUME NEW c \in Callers, StopField(c) PROVE Ownership'
  BY <1>6 DEF StopField, Stopping
<1>7. ASSUME NEW c \in Callers, StopPost(c) \/ StopJoin(c) PROVE Ownership'
  BY <1>7 DEF StopPost, StopJoin
<1>8. ASSUME NEW c \in Callers, StopDelete(c) PROVE Ownership'
  BY SMTT(30), <1>8 DEF StopDelete, ReturnUnlocked, Return
<1>9. ASSUME NEW g \in Sessions, ThreadStep(g) PROVE Ownership'
  BY <1>9 DEF ThreadStep, LoopStep
<1>10. CASE UNCHANGED vars
  BY <1>10 DEF vars
<1> QED BY <1>1, <1>2, <1>3, <1>4, <1>5, <1>6, <1>7, <1>8, <1>9, <1>10, StepCases

LEMMA RememberedStep ==
    ASSUME Types, Exclusion, Ownership, Remembered, [Next]_vars
    PROVE  Remembered'
<1> USE DEF Types, Exclusion, Ownership, Remembered, Critical, Ending, Goto
<1>1. ASSUME NEW c \in Callers, OutsideStep(c) PROVE Remembered'
  BY <1>1 DEF OutsideStep
<1>2. ASSUME NEW c \in Callers, Lock(c) \/ RestartOn(c) PROVE Remembered'
  BY <1>2 DEF Lock, RestartOn
<1>3. ASSUME NEW c \in Callers, LeaveStep(c) PROVE Remembered'
  BY <1>3 DEF LeaveStep, ReturnUnlocked, Return
<1>4. ASSUME NEW c \in Callers, StartSession(c) PROVE Remembered'
  BY <1>4 DEF StartSession
<1>5. ASSUME NEW c \in Callers, StartLoop(c) PROVE Remembered'
  BY <1>5 DEF StartLoop
<1>6. ASSUME NEW c \in Callers, StopField(c) PROVE Remembered'
  BY <1>6 DEF StopField, Stopping
<1>7. ASSUME NEW c \in Callers, StopPost(c) \/ StopJoin(c) PROVE Remembered'
  BY <1>7 DEF StopPost, StopJoin
<1>8. ASSUME NEW c \in Callers, StopDelete(c) PROVE Remembered'
  BY <1>8 DEF StopDelete, ReturnUnlocked, Return
<1>9. ASSUME NEW g \in Sessions, ThreadStep(g) PROVE Remembered'
  BY <1>9 DEF ThreadStep, LoopStep
<1>10. CASE UNCHANGED vars
  BY <1>10 DEF vars
<1> QED BY <1>1, <1>2, <1>3, <1>4, <1>5, <1>6, <1>7, <1>8, <1>9, <1>10, StepCases

\* An alerts thread ends only when it finds the field null.
LEMMA ServedStep ==
    ASSUME Types, Budget, Exclusion, Ownership, Served, [Next]_vars
    PROVE  Served'
<1>0. created <= MaxSessions
  BY WithinBound
<1> USE DEF Types, Served, Active, Goto
<1>1. ASSUME NEW c \in Callers, OutsideStep(c) PROVE Served'
  BY <1>1 DEF OutsideStep, Critical
<1>2. ASSUME NEW c \in Callers, Lock(c) \/ RestartOn(c) PROVE Served'
  BY <1>2 DEF Lock, RestartOn
<1>3. ASSUME NEW c \in Callers, LeaveStep(c) PROVE Served'
  BY <1>3 DEF LeaveStep, ReturnUnlocked, Return
<1>4. ASSUME NEW c \in Callers, StartSession(c) PROVE Served'
  BY <1>4 DEF StartSession
<1>5. ASSUME NEW c \in Callers, StartLoop(c) PROVE Served'
  BY <1>0, <1>5 DEF StartLoop, Ownership
<1>6. ASSUME NEW c \in Callers, StopField(c) PROVE Served'
  BY <1>6 DEF StopField, Stopping
<1>7. ASSUME NEW c \in Callers, StopPost(c) \/ StopJoin(c) \/ StopDelete(c) PROVE Served'
  <2>1. session = Null /\ session' = session
    BY <1>7 DEF StopPost, StopJoin, StopDelete, Ownership, Ending
  <2> QED BY <2>1
<1>8. ASSUME NEW g \in Sessions, ThreadStep(g) PROVE Served'
  BY <1>8 DEF ThreadStep, LoopStep
<1>9. CASE UNCHANGED vars
  BY <1>9 DEF vars
<1> QED BY <1>1, <1>2, <1>3, <1>4, <1>5, <1>6, <1>7, <1>8, <1>9, StepCases

\* stop() deletes a session, and start() makes one, with no thread running:
\* the join was not cut short.
LEMMA JoinedStep ==
    ASSUME ~Interrupts, Types, Budget, Exclusion, Ownership, Remembered, Joined, [Next]_vars
    PROVE  Joined'
<1>0. created <= MaxSessions
  BY WithinBound
<1> USE DEF Types, Joined, Active, Goto
<1>1. ASSUME NEW c \in Callers, OutsideStep(c) PROVE Joined'
  BY <1>1 DEF OutsideStep
<1>2. ASSUME NEW c \in Callers, Lock(c) \/ RestartOn(c) PROVE Joined'
  BY <1>2 DEF Lock, RestartOn
<1>3. ASSUME NEW c \in Callers, LeaveStep(c) PROVE Joined'
  BY <1>3 DEF LeaveStep, ReturnUnlocked, Return
<1>4. ASSUME NEW c \in Callers, StartSession(c) PROVE Joined'
  <2>1. \A d \in Callers : pc[d] \notin {"post", "join"}
    BY <1>4 DEF StartSession, Exclusion, Critical
  <2>2. alertsLoop = Null
    BY <1>4, <2>1 DEF StartSession, Remembered
  <2>3. \A g \in Sessions : ~Active(g) /\ inside[g] = Null
    BY <2>2
  <2> QED BY <1>4, <2>3 DEF StartSession
<1>5. ASSUME NEW c \in Callers, StartLoop(c) PROVE Joined'
  <2>1. alertsLoop = Null /\ session \in Sessions
    BY <1>0, <1>5 DEF StartLoop, Remembered, Ownership
  <2>2. \A g \in Sessions : ~Active(g) /\ inside[g] = Null
    BY <2>1
  <2> QED BY <1>5, <2>1, <2>2 DEF StartLoop
<1>6. ASSUME NEW c \in Callers, StopField(c) \/ StopPost(c) \/ StopDelete(c) PROVE Joined'
  BY <1>6 DEF StopField, StopPost, StopDelete
<1>7. ASSUME NEW c \in Callers, StopJoin(c) PROVE Joined'
  <2>1. \A g \in Sessions : ~Active(g)
    BY <1>7 DEF StopJoin
  <2> QED BY <1>7, <2>1 DEF StopJoin
<1>8. ASSUME NEW g \in Sessions, ThreadStep(g) PROVE Joined'
  <2>1. session # Null => session = created
    BY DEF Ownership
  <2> QED BY <1>8, <2>1 DEF ThreadStep, LoopStep
<1>9. CASE UNCHANGED vars
  BY <1>9 DEF vars
<1> QED BY <1>1, <1>2, <1>3, <1>4, <1>5, <1>6, <1>7, <1>8, <1>9, StepCases

----------------------------------------------------------------------------
(* The invariant and what follows from it. *)

LEMMA InitInv == Init => IndInv
<1> SUFFICES ASSUME Init PROVE IndInv
  OBVIOUS
<1> USE DEF Init
<1>1. Types
  BY DEF Types
<1>2. Budget
  <2>1. Starters = {}
    BY DEF Starters
  <2> QED BY <2>1, FS_EmptySet DEF Budget
<1>3. Exclusion /\ Ownership /\ Remembered /\ Served /\ Joined
  BY DEF Exclusion, Ownership, Remembered, Served, Joined, Active, Critical, Ending
<1> QED BY <1>1, <1>2, <1>3 DEF IndInv

LEMMA StepInv == IndInv /\ [Next]_vars => IndInv'
<1> SUFFICES ASSUME IndInv, [Next]_vars PROVE IndInv'
  OBVIOUS
<1>1. Types /\ Budget /\ Exclusion /\ Ownership /\ Remembered /\ Served
  BY DEF IndInv
<1>2. Budget'
  BY <1>1, BudgetStep
<1>3. Types' /\ Exclusion' /\ Ownership' /\ Remembered' /\ Served'
  BY <1>1, <1>2, TypesStep, ExclusionStep, OwnershipStep, RememberedStep, ServedStep
<1>4. ~Interrupts => Joined'
  BY <1>1, JoinedStep DEF IndInv
<1> QED BY <1>2, <1>3, <1>4 DEF IndInv

\* The inductive invariant holds in every behaviour, for any application
\* threads and any number of native sessions.
THEOREM Invariance == Spec => []IndInv
<1> QED BY InitInv, StepInv, PTL DEF Spec

\* start() and restart() never run two native sessions side by side and none is
\* forgotten, whether or not stop() is interrupted.
THEOREM OneSession == Spec => []OneNativeSession
<1>1. IndInv => OneNativeSession
  <2> SUFFICES ASSUME IndInv PROVE OneNativeSession
    OBVIOUS
  <2> USE DEF IndInv, Types, Exclusion, Ownership, Critical, Ending
  <2>1. \A s \in Sessions : Alive(s) => s = created
    BY DEF Alive
  <2>2. ASSUME NEW s \in Sessions, Alive(s)
        PROVE  \/ session = s
               \/ \E c \in Callers : lock = c /\ local[c] = s /\ pc[c] \in {"post", "join", "delete"}
    BY <2>1, <2>2 DEF Alive
  <2> QED BY <2>1, <2>2 DEF OneNativeSession
<1> QED BY <1>1, Invariance, PTL

\* Unless stop() is interrupted while it joins, the alerts thread is never
\* inside a native call on a session that was deleted.
THEOREM LoopIsSafe == ~Interrupts => (Spec => []AlertsThreadIsSafe)
<1> SUFFICES ASSUME ~Interrupts PROVE Spec => []AlertsThreadIsSafe
  OBVIOUS
<1>1. IndInv => AlertsThreadIsSafe
  BY DEF IndInv, Types, Ownership, Remembered, Joined, AlertsThreadIsSafe, Alive, Active, Ending
<1> QED BY <1>1, Invariance, PTL

\* Unless stop() is interrupted while it joins, there is one alerts thread, and
\* while nobody starts or stops it serves the current session.
THEOREM SessionIsServed == ~Interrupts => (Spec => []AlertsAreServed)
<1> SUFFICES ASSUME ~Interrupts PROVE Spec => []AlertsAreServed
  OBVIOUS
<1>1. IndInv => AlertsAreServed
  BY DEF IndInv, Types, Exclusion, Critical, Served, Joined, AlertsAreServed, Active
<1> QED BY <1>1, Invariance, PTL
=============================================================================
