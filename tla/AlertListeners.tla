--------------------------- MODULE AlertListeners ---------------------------
(***************************************************************************)
(* The alert listeners of a SessionManager: addListener() and              *)
(* removeListener() from any thread, the trees of AlertMulticaster, the    *)
(* alerts thread that calls the listeners, and the blocking DHT requests   *)
(* (dhtGetItem, dhtGetPeers) that register a listener for their answer     *)
(* (src/main/java/org/libtorrent4j).                                       *)
(*                                                                         *)
(* The listeners of an alert type are one immutable tree in an array slot. *)
(* modifyListeners() replaces it under the monitor; the alerts thread      *)
(* reads the slot without it and walks the tree it found.  The read is     *)
(* taken to see the latest store: the native call that gave the alert      *)
(* takes and releases locks.                                               *)
(***************************************************************************)
EXTENDS Integers, Sequences, FiniteSets

CONSTANTS
    Types,        \* alert types
    Special,      \* isSpecialType(): not sent to the all-types listeners
    Reply,        \* the alert type that answers a DHT request
    Apps,         \* listeners of the application
    Requests,     \* DHT requests; each is its thread and its listener
    TypesOf(_),   \* types() of an application listener; <<>> for null
    App,          \* the application's thread
    Alerts,       \* the alerts thread
    Null,         \* no tree, no target
    Unsettled,    \* nothing certain to expect
    MaxRegs       \* bound: registrations for one alert type

All == "all"      \* the slot listeners[NUM_ALERT_TYPES]
Slots == Types \cup {All}
Listeners == Apps \cup Requests
Threads == {App, Alerts} \cup Requests

VARIABLES
    listeners,  \* SessionManager.listeners
    inside,     \* threads in the synchronized modifyListeners()
    change,     \* per thread: the addListener or removeListener in progress
    request,    \* per request: where its thread is, the answer it has
    asked,      \* requests sent and not answered for good
    alert,      \* the alert the alerts thread is at
    due,        \* history: calls for it that each listener's types() still promise
    regs        \* history: completed registrations per slot, in order

vars == <<listeners, inside, change, request, asked, alert, due, regs>>

----------------------------------------------------------------------------
(* AlertMulticaster: a tree is null, a listener, or a pair of trees.  A listener *)
(* is always added to the right of what was there, so trees lean to the left.  *)

\* The trees of n listeners, and all of them within the bound.
TreesOf[n \in 1..MaxRegs] == IF n = 1 THEN Listeners ELSE TreesOf[n - 1] \X Listeners
Trees == {Null} \cup UNION {TreesOf[n] : n \in 1..MaxRegs}

ASSUME ListenersAssumption ==
    /\ Special \subseteq Types /\ Reply \in Types \ Special /\ All \notin Types
    /\ \A l \in Apps : TypesOf(l) \in Seq(Types)
    /\ Apps \cap Requests = {} /\ {App, Alerts} \cap Requests = {}
    /\ Null \notin Listeners /\ Unsettled \notin Int
    /\ \A n \in 2..MaxRegs : TreesOf[n] \cap (Listeners \cup {Null}) = {}
    /\ MaxRegs \in Nat \ {0}

IsMulticaster(t) == t \notin Listeners \cup {Null}

\* addInternal()
AddTree(a, b) == IF a = Null THEN b ELSE IF b = Null THEN a ELSE <<a, b>>

\* removeInternal() and remove().  The test for an unchanged pair only saves an
\* allocation: trees are compared by value here.
RemoveTree(tree, x) ==
    LET remove[t \in Trees] ==
          IF t = x \/ t = Null THEN Null
          ELSE IF ~IsMulticaster(t) THEN t
          ELSE IF x = t[1] THEN t[2]
          ELSE IF x = t[2] THEN t[1]
          ELSE AddTree(remove[t[1]], remove[t[2]])
    IN  remove[tree]

\* alert(): the order in which a tree's listeners are called.
Leaves(tree) ==
    LET leaves[t \in Trees] ==
          IF t = Null THEN <<>>
          ELSE IF ~IsMulticaster(t) THEN <<t>>
          ELSE leaves[t[1]] \o leaves[t[2]]
    IN  leaves[tree]

----------------------------------------------------------------------------

None == [add |-> FALSE, who |-> Null, slots |-> <<>>, seen |-> Null]
Quiet == [step |-> "wait", type |-> All, target |-> Null, todo |-> <<>>,
          called |-> Null, threw |-> FALSE]

Init ==
    /\ listeners = [s \in Slots |-> Null] /\ regs = [s \in Slots |-> <<>>]
    /\ inside = {} /\ change = [t \in Threads |-> None]
    /\ request = [r \in Requests |-> [at |-> "idle", result |-> FALSE]]
    /\ asked = {}
    /\ alert = Quiet
    /\ due = [l \in Listeners |-> 0]

----------------------------------------------------------------------------
(* modifyListeners(). *)

SlotsOf(l) == IF l \in Requests THEN <<Reply>>
              ELSE IF TypesOf(l) = <<>> THEN <<All>> ELSE TypesOf(l)

Count(seq, l) == Cardinality({i \in DOMAIN seq : seq[i] = l})

StartChange(t, add, l) ==
    /\ change[t] = None
    /\ change' = [change EXCEPT ![t] = [add |-> add, who |-> l, slots |-> SlotsOf(l),
                                        seen |-> Null]]

\* Within the bound.
HasRoom(t) == change[t].add => Len(regs[Head(change[t].slots)]) < MaxRegs

\* Wrong on purpose: modifyListeners is not synchronized.
EnterAnyway(t) ==
    /\ change[t] # None /\ t \notin inside
    /\ HasRoom(t)
    /\ inside' = inside \cup {t}
    /\ change' = [change EXCEPT ![t].seen = listeners[Head(change[t].slots)]]
    /\ UNCHANGED <<listeners, request, asked, alert, due, regs>>

\* synchronized: enter the monitor and load the slot ...
Enter(t) ==
    /\ change[t] # None /\ inside = {}
    /\ HasRoom(t)
    /\ inside' = inside \cup {t}
    /\ change' = [change EXCEPT ![t].seen = listeners[Head(change[t].slots)]]
    /\ UNCHANGED <<listeners, request, asked, alert, due, regs>>

\* The registration a removal takes away: the latest one.
Latest(s, x) == CHOOSE i \in DOMAIN s : s[i] = x /\ \A j \in DOMAIN s : s[j] = x => j <= i
Without(s, x) ==
    IF \E i \in DOMAIN s : s[i] = x
    THEN [i \in 1..(Len(s) - 1) |-> IF i < Latest(s, x) THEN s[i] ELSE s[i + 1]]
    ELSE s

\* ... and replace it.  The next type is another synchronized call.
Replace(t) ==
    /\ t \in inside
    /\ LET ch == change[t]
           s == Head(ch.slots)
       IN  /\ listeners' = [listeners EXCEPT ![s] =
                              IF ch.add THEN AddTree(ch.seen, ch.who)
                                        ELSE RemoveTree(ch.seen, ch.who)]
           /\ regs' = [regs EXCEPT ![s] = IF ch.add THEN Append(@, ch.who)
                                                    ELSE Without(@, ch.who)]
           /\ change' = [change EXCEPT ![t] = IF Len(ch.slots) = 1 THEN None
                                              ELSE [ch EXCEPT !.slots = Tail(@)]]
           /\ due' = IF alert = Quiet THEN due ELSE [due EXCEPT ![ch.who] = Unsettled]
    /\ inside' = inside \ {t}
    /\ UNCHANGED <<request, asked, alert>>

\* addListener(), removeListener() of the application; from the alerts thread, a
\* listener removes itself in its own call.
AppChange(t, add, l) ==
    /\ t = App \/ (~add /\ alert.called = l)
    /\ StartChange(t, add, l)
    /\ UNCHANGED <<listeners, inside, request, asked, alert, due, regs>>

----------------------------------------------------------------------------
(* dhtGetItem(), dhtGetPeers(). *)

Goes(r, from, to) == request[r].at = from /\ request' = [request EXCEPT ![r].at = to]

\* addListener(listener)
RequestAdd(r) ==
    /\ Goes(r, "idle", "add")
    /\ StartChange(r, TRUE, r)
    /\ UNCHANGED <<listeners, inside, asked, alert, due, regs>>

\* Wrong on purpose: the request is sent while the listener is being added.
RequestAskEarly(r) ==
    /\ Goes(r, "add", "await")
    /\ asked' = asked \cup {r}
    /\ UNCHANGED <<listeners, inside, change, alert, due, regs>>

\* session.dht_get_item(target): the listener is registered by now.
RequestAsk(r) ==
    /\ Goes(r, "add", "await") /\ change[r] = None
    /\ asked' = asked \cup {r}
    /\ UNCHANGED <<listeners, inside, change, alert, due, regs>>

\* The request could not be sent: on to the finally block.
RequestAskFails(r) ==
    /\ Goes(r, "add", "remove") /\ change[r] = None
    /\ UNCHANGED <<listeners, inside, change, asked, alert, due, regs>>

\* signal.await(timeout): the answer, or time is up.
RequestAwait(r) ==
    /\ Goes(r, "await", "remove")
    /\ UNCHANGED <<listeners, inside, change, asked, alert, due, regs>>

\* Wrong on purpose: no finally block.
RequestReturnsOnly(r) ==
    /\ Goes(r, "remove", "done")
    /\ UNCHANGED <<listeners, inside, change, asked, alert, due, regs>>

\* finally removeListener(listener)
RequestRemove(r) ==
    /\ Goes(r, "remove", "done")
    /\ StartChange(r, FALSE, r)
    /\ UNCHANGED <<listeners, inside, asked, alert, due, regs>>

----------------------------------------------------------------------------
(* The alerts thread. *)

\* The next alert: an answer to a request that was sent, or any other.  (The
\* add_torrent alert of a fetchMagnet() is passed over as if there were none.)
TakeAlert(type, target) ==
    /\ alert.step = "wait"
    /\ target \in asked \cup {Null} /\ (target # Null => type = Reply)
    /\ alert' = [step |-> "typed", type |-> type, target |-> target, todo |-> <<>>,
                  called |-> Null, threw |-> FALSE]
    /\ asked' = asked \ {target}
    /\ due' = [l \in Listeners |->
                 IF \E t \in Threads : change[t].who = l THEN Unsettled
                 ELSE Count(regs[type], l) + Count(regs[All], l)]
    /\ UNCHANGED <<listeners, inside, change, request, regs>>

\* fireAlert(alert, type): the tree of the slot, as it is now.
FireTyped ==
    /\ alert.step = "typed"
    /\ alert' = [alert EXCEPT !.step = "callTyped", !.todo = Leaves(listeners[alert.type])]
    /\ UNCHANGED <<listeners, inside, change, request, asked, due, regs>>

\* Wrong on purpose: the typed listeners are called a second time.
FireAllTyped ==
    /\ alert.step = "all"
    /\ alert' = [alert EXCEPT !.step = "callAll",
                   !.todo = IF alert.type \in Special THEN <<>>
                            ELSE Leaves(listeners[alert.type])]
    /\ UNCHANGED <<listeners, inside, change, request, asked, due, regs>>

\* fireAlert(alert, NUM_ALERT_TYPES), unless isSpecialType().
FireAll ==
    /\ alert.step = "all"
    /\ alert' = [alert EXCEPT !.step = "callAll",
                   !.todo = IF alert.type \in Special THEN <<>> ELSE Leaves(listeners[All])]
    /\ UNCHANGED <<listeners, inside, change, request, asked, due, regs>>

Calling == alert.step \in {"callTyped", "callAll"} /\ change[Alerts] = None

\* A listener of the tree is called; a request's keeps an answer that is its own.
Call ==
    /\ Calling /\ alert.todo # <<>>
    /\ LET l == Head(alert.todo)
       IN  /\ due' = [due EXCEPT ![l] = IF @ = Unsettled THEN @ ELSE @ - 1]
           /\ request' = IF l = alert.target
                         THEN [request EXCEPT ![l].result = TRUE] ELSE request
    /\ alert' = [alert EXCEPT !.todo = Tail(@), !.called = Head(alert.todo)]
    /\ UNCHANGED <<listeners, inside, change, asked, regs>>

\* It throws: fireAlert() logs that, and the rest of the tree is not called.
CallThrows ==
    /\ Calling /\ alert.todo # <<>> /\ Head(alert.todo) \in Apps
    /\ due' = [l \in Listeners |-> IF \E i \in DOMAIN alert.todo : alert.todo[i] = l
                                   THEN Unsettled ELSE due[l]]
    /\ alert' = [alert EXCEPT !.todo = <<>>, !.threw = TRUE, !.called = Null]
    /\ UNCHANGED <<listeners, inside, change, request, asked, regs>>

\* All called: on to the next slot, or the end.
CallsDone ==
    /\ Calling /\ alert.todo = <<>>
    /\ alert' = [alert EXCEPT !.step = IF @ = "callTyped" THEN "all" ELSE "end",
                               !.called = Null]
    /\ UNCHANGED <<listeners, inside, change, request, asked, due, regs>>

AlertEnd ==
    /\ alert.step = "end"
    /\ alert' = Quiet
    /\ due' = [l \in Listeners |-> 0]
    /\ UNCHANGED <<listeners, inside, change, request, asked, regs>>

----------------------------------------------------------------------------

Next ==
    \/ \E t \in Threads : Enter(t) \/ Replace(t)
    \/ \E t \in {App, Alerts}, add \in BOOLEAN, l \in Apps : AppChange(t, add, l)
    \/ \E r \in Requests : \/ RequestAdd(r) \/ RequestAsk(r) \/ RequestAskFails(r)
                           \/ RequestAwait(r) \/ RequestRemove(r)
    \/ \E type \in Types, target \in Requests \cup {Null} : TakeAlert(type, target)
    \/ FireTyped \/ FireAll \/ Call \/ CallThrows \/ CallsDone \/ AlertEnd

Spec == Init /\ [][Next]_vars

----------------------------------------------------------------------------
(* Properties. *)

\* Concurrent addListener() and removeListener() calls lose no registration and
\* bring none back: every slot's tree calls exactly the listeners registered for
\* that type, in the order of registration, and one removal takes one away.
RegistrationsKept == \A s \in Slots : Leaves(listeners[s]) = regs[s]

\* A listener that is registered before an alert is taken, and left alone until
\* its end, is called for it once per registration whatever the others do to the
\* tree meanwhile: typed listeners for their types, all-types listeners for
\* every type that is not special, nobody else; a listener that throws spoils it
\* only for those behind it in the same slot.  Of an all-types listener and a
\* special type it only says that there is no call too many.
DeliveredOnce ==
    alert.step = "end" =>
        \A l \in Listeners :
            \/ due[l] = Unsettled
            \/ due[l] \in 0..(IF alert.type \in Special THEN Count(regs[All], l) ELSE 0)

\* What AlertListener.types() says of null, "listen to all alerts": an all-types
\* listener that is left alone is called for every alert, the special ones too.
\* alertsLoop() passes over it when isSpecialType() holds.
AllTypesHearAll ==
    alert.step = "end" =>
        \A l \in Listeners : Count(regs[All], l) > 0 => due[l] \in {Unsettled, 0}

\* The answer to a DHT request cannot slip through: when it went past the typed
\* listeners while the request was waiting, and none of them threw, the request
\* has it.
AnswerIsCaught ==
    (alert.step = "all" /\ alert.target # Null /\ ~alert.threw) =>
        (request[alert.target].at = "await" => request[alert.target].result)

\* A DHT request that is over, by an answer, a timeout or an error, leaves no
\* listener behind.
RequestLeavesNothing ==
    \A r \in Requests :
        (request[r].at = "done" /\ change[r] = None) => Count(Leaves(listeners[Reply]), r) = 0
=============================================================================
