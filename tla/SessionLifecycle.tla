-------------------------- MODULE SessionLifecycle --------------------------
(***************************************************************************)
(* start(), stop(), restart() and the session methods of SessionManager    *)
(* (org/libtorrent4j/SessionManager.java) with its alerts thread.          *)
(*                                                                         *)
(* Application threads call these methods concurrently; every native       *)
(* session has an alerts thread.  A step is one access to the volatile     *)
(* field `session`, one lock operation, or the beginning or the end of a   *)
(* native call: the field is read again for every use, so each use may see *)
(* another value.  Native sessions are numbered in the order they are      *)
(* created; 0 is null.                                                     *)
(***************************************************************************)
EXTENDS Naturals, FiniteSets

CONSTANTS
    Callers,       \* application threads
    NoCaller,      \* the lock `sync` is free
    MaxSessions,   \* bound: native sessions created in one behaviour
    Interrupts     \* whether stop() may be interrupted while it joins

ASSUME LifecycleAssumption ==
    /\ IsFiniteSet(Callers) /\ NoCaller \notin Callers
    /\ MaxSessions \in Nat
    /\ Interrupts \in BOOLEAN

Sessions == 1..MaxSessions
Null == 0

VARIABLES
    session,     \* the field: a session number or Null
    created,     \* how many native sessions were created
    deleted,     \* those whose delete() was called
    lock,        \* the holder of sync
    alertsLoop,  \* the field: the session whose thread was started, or Null
    pc,          \* where each caller is
    task,        \* what it was called for: start, stop, restart or method
    local,       \* the session it holds in a local variable or native call
    loop,        \* where the alerts thread of each session is
    inside       \* the native session that thread is calling, or Null

vars == <<session, created, deleted, lock, alertsLoop, pc, task, local, loop, inside>>
callerVars == <<pc, task, local>>
loopVars == <<loop, inside>>

Init ==
    /\ session = Null /\ created = 0 /\ deleted = {}
    /\ lock = NoCaller /\ alertsLoop = Null
    /\ pc = [c \in Callers |-> "idle"]
    /\ task = [c \in Callers |-> "none"]
    /\ local = [c \in Callers |-> Null]
    /\ loop = [s \in Sessions |-> "none"]
    /\ inside = [s \in Sessions |-> Null]

Goto(c, label) == pc' = [pc EXCEPT ![c] = label]

\* The call returns, or throws: what it held is gone.
Return(c) ==
    /\ pc' = [pc EXCEPT ![c] = "idle"]
    /\ task' = [task EXCEPT ![c] = "none"]
    /\ local' = [local EXCEPT ![c] = Null]

\* finally { sync.unlock(); }
ReturnUnlocked(c) == Return(c) /\ lock' = NoCaller

----------------------------------------------------------------------------
(* Calls, and the checks before the lock is taken. *)

\* Bound: no more calls than there are sessions left to create.
Affordable == created + Cardinality({c \in Callers : task[c] \in {"start", "restart"}}) < MaxSessions

\* The test outside the lock: start() needs no session, stop() needs one.
Call(c, what) ==
    /\ pc[c] = "idle"
    /\ \/ what = "start" /\ session = Null
       \/ what = "stop" /\ session # Null
       \/ what = "restart"
    /\ what # "stop" => Affordable
    /\ Goto(c, "lock")
    /\ task' = [task EXCEPT ![c] = what]
    /\ UNCHANGED <<session, created, deleted, lock, alertsLoop, local, loopVars>>

Lock(c) ==
    /\ pc[c] = "lock"
    /\ lock = NoCaller
    /\ lock' = c
    /\ Goto(c, IF task[c] = "restart" THEN "state" ELSE "locked")
    /\ UNCHANGED <<session, created, deleted, alertsLoop, task, local, loopVars>>

\* restart(): session.session_state(), which throws when there is none.
RestartState(c) ==
    /\ pc[c] = "state"
    /\ \/ session = Null /\ ReturnUnlocked(c)
       \/ session # Null /\ Goto(c, "locked") /\ UNCHANGED <<task, local, lock>>
    /\ UNCHANGED <<session, created, deleted, alertsLoop, loopVars>>

\* The test inside the lock: somebody else was faster.
TooLate(c) ==
    /\ pc[c] = "locked"
    /\ \/ task[c] = "start" /\ session # Null
       \/ task[c] = "stop" /\ session = Null
    /\ ReturnUnlocked(c)
    /\ UNCHANGED <<session, created, deleted, alertsLoop, loopVars>>

----------------------------------------------------------------------------
(* start() *)

\* Wrong on purpose: the session is not tested again under the lock.
StartSessionUnchecked(c) ==
    /\ pc[c] = "locked" /\ task[c] = "start"
    /\ created' = created + 1
    /\ session' = created'
    /\ alertsLoop' = Null
    /\ Goto(c, "spawn")
    /\ UNCHANGED <<deleted, lock, task, local, loopVars>>

\* resetState(), then the field is set: the session is visible from here on.
StartSession(c) ==
    /\ pc[c] = "locked" /\ task[c] = "start" /\ session = Null
    /\ created' = created + 1
    /\ session' = created'
    /\ alertsLoop' = Null
    /\ Goto(c, "spawn")
    /\ UNCHANGED <<deleted, lock, task, local, loopVars>>

\* alertsLoop(): the thread is started and remembered.
StartLoop(c) ==
    /\ pc[c] = "spawn"
    /\ loop' = [loop EXCEPT ![session] = "check"]
    /\ alertsLoop' = session
    /\ Goto(c, "filter")
    /\ UNCHANGED <<session, created, deleted, lock, task, local, inside>>

\* session.set_port_filter(f), and start() is done.
StartFilter(c) ==
    /\ pc[c] = "filter"
    /\ session # Null
    /\ ReturnUnlocked(c)
    /\ UNCHANGED <<session, created, deleted, alertsLoop, loopVars>>

----------------------------------------------------------------------------
(* stop(), also inside restart() *)

Stopping(c) == pc[c] = "locked" /\ task[c] \in {"stop", "restart"} /\ session # Null

\* Wrong on purpose: the field is cleared only after the alerts thread ended.
StopFieldLate(c) ==
    /\ Stopping(c)
    /\ local' = [local EXCEPT ![c] = session]
    /\ Goto(c, "post")
    /\ UNCHANGED <<session, created, deleted, lock, alertsLoop, task, loopVars>>

\* s = session; session = null
StopField(c) ==
    /\ Stopping(c)
    /\ local' = [local EXCEPT ![c] = session]
    /\ session' = Null
    /\ Goto(c, "post")
    /\ UNCHANGED <<created, deleted, lock, alertsLoop, task, loopVars>>

\* s.post_session_stats() and the sleep.
StopPost(c) ==
    /\ pc[c] = "post"
    /\ Goto(c, "join")
    /\ UNCHANGED <<session, created, deleted, lock, alertsLoop, task, local, loopVars>>

\* Wrong on purpose: the sleep is trusted to be long enough.
StopNoJoin(c) ==
    /\ pc[c] = "join"
    /\ Goto(c, "delete")
    /\ alertsLoop' = Null
    /\ UNCHANGED <<session, created, deleted, lock, task, local, loopVars>>

\* alertsLoop.join() (any exception is ignored), then resetState().
StopJoin(c) ==
    /\ pc[c] = "join"
    /\ alertsLoop = Null \/ Interrupts \/ loop[alertsLoop] = "done"
    /\ Goto(c, "delete")
    /\ alertsLoop' = Null
    /\ UNCHANGED <<session, created, deleted, lock, task, local, loopVars>>

\* s.delete(); restart() goes on with start(), in the same critical section.
StopDelete(c) ==
    /\ pc[c] = "delete"
    /\ deleted' = deleted \cup {local[c]}
    /\ \/ task[c] = "stop" /\ ReturnUnlocked(c)
       \/ /\ task[c] = "restart"
          /\ Goto(c, "locked")
          /\ task' = [task EXCEPT ![c] = "start"]
          /\ local' = [local EXCEPT ![c] = Null]
          /\ UNCHANGED lock
    /\ UNCHANGED <<session, created, alertsLoop, loopVars>>

----------------------------------------------------------------------------
(* The session methods: if (session == null) return; ... session.call() *)

MethodCheck(c) ==
    /\ pc[c] = "idle" /\ session # Null
    /\ Goto(c, "use")
    /\ task' = [task EXCEPT ![c] = "method"]
    /\ UNCHANGED <<session, created, deleted, lock, alertsLoop, local, loopVars>>

\* The field is read again: null now throws, a session is called.
MethodUse(c) ==
    /\ pc[c] = "use"
    /\ \/ session = Null /\ Return(c)
       \/ /\ session # Null
          /\ Goto(c, "native")
          /\ local' = [local EXCEPT ![c] = session]
          /\ UNCHANGED task
    /\ UNCHANGED <<session, created, deleted, lock, alertsLoop, loopVars>>

\* The native call is over; the method is too, or it uses the field once more.
MethodReturn(c) ==
    /\ pc[c] = "native"
    /\ \/ Return(c)
       \/ Goto(c, "use") /\ local' = [local EXCEPT ![c] = Null] /\ UNCHANGED task
    /\ UNCHANGED <<session, created, deleted, lock, alertsLoop, loopVars>>

----------------------------------------------------------------------------
(* The alerts thread of session g; it reads the field, not g. *)

AtLoop(g, label) == loop[g] = label

LoopStep(g, label, native) ==
    /\ loop' = [loop EXCEPT ![g] = label]
    /\ inside' = [inside EXCEPT ![g] = native]
    /\ UNCHANGED <<session, created, deleted, lock, alertsLoop, callerVars>>

\* while (session != null)
LoopCheck(g) ==
    /\ AtLoop(g, "check")
    /\ LoopStep(g, IF session = Null THEN "done" ELSE "wait", Null)

\* session.wait_for_alert_ms(): null kills the thread.
LoopWait(g) ==
    /\ AtLoop(g, "wait")
    /\ LoopStep(g, IF session = Null THEN "done" ELSE "waiting", session)

\* An alert is there, or the time is up.
LoopWaited(g) == AtLoop(g, "waiting") /\ LoopStep(g, "recheck", Null)

\* Wrong on purpose: the loop also returns when the wait brought no alert.
LoopRecheckReturns(g) ==
    /\ AtLoop(g, "recheck")
    /\ \/ LoopStep(g, "done", Null)
       \/ session # Null /\ LoopStep(g, "pop", Null)

\* if (session == null) return; with no alert, on to the statistics.
LoopRecheck(g) ==
    /\ AtLoop(g, "recheck")
    /\ \/ session = Null /\ LoopStep(g, "done", Null)
       \/ session # Null /\ \E next \in {"pop", "dispatch"} : LoopStep(g, next, Null)

\* session.pop_alerts(v): null kills the thread.  The alerts belong to the
\* session for as long as they are dispatched.
LoopPop(g) ==
    /\ AtLoop(g, "pop")
    /\ \/ session = Null /\ LoopStep(g, "done", Null)
       \/ session # Null /\ LoopStep(g, "dispatch", session)

\* Listeners have been called; the statistics are due, or not.
LoopDispatch(g) ==
    /\ AtLoop(g, "dispatch")
    /\ \E next \in {"check", "stats"} : LoopStep(g, next, Null)

\* postSessionStats(), postTorrentUpdates(): methods like the others.
LoopStats(g) ==
    /\ AtLoop(g, "stats")
    /\ LoopStep(g, IF session = Null THEN "check" ELSE "post", Null)

LoopPost(g) ==
    /\ AtLoop(g, "post")
    /\ LoopStep(g, IF session = Null THEN "done" ELSE "posting", session)

LoopPosted(g) == AtLoop(g, "posting") /\ LoopStep(g, "check", Null)

----------------------------------------------------------------------------

Starting(c) == StartSession(c) \/ StartLoop(c) \/ StartFilter(c)
StoppingSteps(c) == StopField(c) \/ StopPost(c) \/ StopJoin(c) \/ StopDelete(c)
Progress(c) ==
    \/ Lock(c) \/ RestartState(c) \/ TooLate(c)
    \/ Starting(c) \/ StoppingSteps(c)
    \/ MethodUse(c) \/ MethodReturn(c)

Loop(g) == \/ LoopCheck(g) \/ LoopWait(g) \/ LoopWaited(g) \/ LoopRecheck(g)
           \/ LoopPop(g) \/ LoopDispatch(g) \/ LoopStats(g) \/ LoopPost(g) \/ LoopPosted(g)

Next ==
    \/ \E c \in Callers, what \in {"start", "stop", "restart"} : Call(c, what)
    \/ \E c \in Callers : MethodCheck(c)
    \/ \E c \in Callers : Progress(c)
    \/ \E g \in Sessions : Loop(g)

Spec == Init /\ [][Next]_vars

\* The threads run: native calls and listeners return, and a thread that keeps
\* finding the lock free gets it.
FairSpec ==
    /\ Spec
    /\ \A c \in Callers : WF_vars(Progress(c))
    /\ \A g \in Sessions : WF_vars(Loop(g))

----------------------------------------------------------------------------
(* Properties. *)

Alive(s) == s \in 1..created /\ s \notin deleted

\* stop() waits for the alerts thread: that thread is never inside a native
\* call on a session that was deleted.
AlertsThreadIsSafe ==
    \A g \in Sessions : inside[g] # Null => Alive(inside[g])

\* start() and restart() never run two native sessions side by side, and a
\* session that is neither current nor about to be deleted was deleted.
OneNativeSession ==
    /\ \A s, u \in Sessions : Alive(s) /\ Alive(u) => s = u
    /\ \A s \in Sessions : Alive(s) =>
         \/ session = s
         \/ \E c \in Callers : lock = c /\ local[c] = s /\ pc[c] \in {"post", "join", "delete"}

\* While nobody starts or stops, the current session has its alerts thread,
\* it has not died, and there is no other.
AlertsAreServed ==
    /\ \A g, h \in Sessions :
         loop[g] \notin {"none", "done"} /\ loop[h] \notin {"none", "done"} => g = h
    /\ (lock = NoCaller /\ session # Null) => loop[session] \notin {"none", "done"}

\* stop() returns: the alerts thread ends once the field is null.
StopReturns ==
    \A c \in Callers : (pc[c] \in {"post", "join", "delete"}) ~> (pc[c] = "idle" \/ task[c] = "start")

\* stop() stops the session methods: none is inside a native call on a session
\* that was deleted.
MethodsAreStopped ==
    \A c \in Callers : pc[c] = "native" => Alive(local[c])
=============================================================================
