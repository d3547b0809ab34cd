------------------------------ MODULE SlotProxy ------------------------------
(***************************************************************************)
(* The life of a PyQtSlotProxy (qpy/QtCore/qpycore_pyqtslotproxy.cpp): the *)
(* QObject that stands between a Qt signal and a Python callable.  It is   *)
(* created by connect() or QTimer.singleShot(), kept in the global         *)
(* multi-hash proxy_slots under the address of its transmitter, invoked    *)
(* through unislot(), disabled by disconnect() or by the death of its      *)
(* transmitter, and destroyed by deleteLater().                            *)
(*                                                                         *)
(* One thread with a stack of activations: event loops (which may nest),   *)
(* Python event handlers, Python slots and signal emissions.  Qt itself    *)
(* (connections, posted events, deferred deletion) is modelled from how    *)
(* this code uses it.  Several threads are the subject of ProxyThreads.    *)
(***************************************************************************)
EXTENDS Naturals, Sequences, FiniteSets

CONSTANTS
    Transmitters,  \* addresses at which a transmitting QObject may live
    NoTx,          \* the null transmitter of a single shot proxy
    Signals,       \* the signals of a transmitter
    Destroyed,     \* QObject::destroyed
    Slots,         \* the Python callables that are connected
    MethodSlots,   \* those that are bound methods (held by weak reference)
    Proxies,       \* proxy objects, numbered in order of allocation
    MaxDepth,      \* bound: activations on the stack
    MaxQueue,      \* bound: calls posted when another emission may start
    Features       \* what the application does, see FeatureNames

FeatureNames ==
    { "nest",               \* Python code runs nested event loops
      "reenter",            \* a slot may be invoked while it is executing
      "queued",             \* connections may be Qt.QueuedConnection
      "queuedDestroyed",    \* ... those of destroyed() as well
      "noCheck",            \* connect() is given no_receiver_check
      "failConnect",        \* QObject::connect() may refuse a connection
      "disconnectDestroyed",\* tx.destroyed.disconnect() is called
      "reuse",              \* a new QObject may get a dead one's address
      "singleShot" }        \* QTimer.singleShot() is used

ASSUME SignalsAssumption == Destroyed \in Signals
ASSUME TransmittersAssumption == NoTx \notin Transmitters
ASSUME SlotsAssumption == MethodSlots \subseteq Slots /\ Slots # {}
ASSUME ProxiesAssumption == Proxies \subseteq Nat
ASSUME BoundsAssumption == MaxDepth \in Nat /\ MaxQueue \in Nat
ASSUME FeaturesAssumption == Features \subseteq FeatureNames

VARIABLES
    txState,    \* the QObject at each address
    state,      \* the C++ object of each proxy
    info,       \* its immutable members: transmitter, signature, real_slot...
    hash,       \* proxy_slots: the proxies filed under info[p].tx
    disabled,   \* those with PROXY_SLOT_DISABLED
    invoked,    \* those with PROXY_SLOT_INVOKED
    conn,       \* those whose unislot() is connected to the signal
    dconn,      \* those whose disable() is connected to destroyed()
    slotState,  \* the instance behind each slot
    cleared,    \* proxies whose callable the garbage collector has cleared
    queue,      \* posted QMetaCallEvents, oldest first
    timer,      \* single shot proxies whose timer is running
    delLevel,   \* loop level of the pending DeferredDelete event, 0 if none
    stack,      \* activations, the running one last
    heard,      \* history: connected to destroyed() when it was emitted
    ran         \* history: proxies whose Python slot has been entered

vars == <<txState, state, info, hash, disabled, invoked, conn, dconn,
          slotState, cleared, queue, timer, delLevel, stack, heard, ran>>

Info == [tx : Transmitters \cup {NoTx}, sig : Signals, slot : Slots,
         queued : BOOLEAN, single : BOOLEAN, nocheck : BOOLEAN]

NoInfo == CHOOSE i \in Info : i.tx = NoTx

Event == [kind : {"call", "disable"}, p : Proxies]

LoopFrame        == [kind |-> "loop"]
EventFrame       == [kind |-> "event"]
SlotFrame(p, ev) == [kind |-> "slot", p |-> p, ev |-> ev]
EmitFrame(t, s, todo) == [kind |-> "emit", t |-> t, s |-> s, todo |-> todo]

Frame == {LoopFrame, EventFrame}
           \cup [kind : {"slot"}, p : Proxies, ev : BOOLEAN]
           \cup [kind : {"emit"}, t : Transmitters, s : Signals,
                 todo : SUBSET Proxies]

TypeOK ==
    /\ txState \in [Transmitters -> {"alive", "dying", "dead"}]
    /\ state \in [Proxies -> {"unused", "live", "deleted"}]
    /\ info \in [Proxies -> Info]
    /\ hash \subseteq Proxies
    /\ disabled \subseteq Proxies
    /\ invoked \subseteq Proxies
    /\ conn \subseteq Proxies
    /\ dconn \subseteq Proxies
    /\ slotState \in [Slots -> {"ok", "cppGone", "collected"}]
    /\ cleared \subseteq Proxies
    /\ queue \in Seq(Event)
    /\ timer \subseteq Proxies
    /\ delLevel \in [Proxies -> Nat]
    /\ stack \in Seq(Frame) /\ stack # << >> /\ stack[1] = LoopFrame
    /\ heard \subseteq Proxies
    /\ ran \subseteq Proxies

-----------------------------------------------------------------------------
(* The running activation, and Qt's idea of how deep the thread is.        *)

Top == stack[Len(stack)]
Popped == SubSeq(stack, 1, Len(stack) - 1)
InLoop == Top.kind = "loop"
InPython == Top.kind \in {"event", "slot"}

\* QThreadData's loopLevel + scopeLevel: event loops and event deliveries.
Deepens(f) == \/ f.kind \in {"loop", "event"}
              \/ f.kind = "slot" /\ f.ev
Level == Cardinality({i \in 1..Len(stack) : Deepens(stack[i])})

\* QObject::deleteLater() on each of S.  A second call changes nothing.
DeleteLater(S, level) ==
    delLevel' = [p \in Proxies |-> IF p \in S /\ delLevel[p] = 0
                                     THEN level ELSE delLevel[p]]

\* A fault in Disable: no regard to an executing slot.
DisableAtOnce(S, level) ==
    /\ disabled' = disabled \cup S
    /\ DeleteLater(S, level)

\* PyQtSlotProxy::disable() on each of S.
Disable(S, level) ==
    /\ disabled' = disabled \cup S
    /\ DeleteLater(S \ invoked, level)

\* PyQtSlot::invoke() finds something to call.
Callable(p) ==
    LET s == info[p].slot
    IN  IF s \in MethodSlots
          THEN \/ slotState[s] = "ok"
               \/ slotState[s] = "cppGone" /\ info[p].nocheck
          ELSE p \notin cleared

\* A slot that is executing is only entered again by applications that do so.
MayEnter(S) == "reenter" \in Features \/ S \cap invoked = {}

\* Faults in Ignores: no check, and one too many.
IgnoresNothing(p) == FALSE
IgnoresDying(p) == \/ p \in disabled
                   \/ info[p].tx # NoTx /\ txState[info[p].tx] = "dying"

\* unislot() ignores the calls of a disabled proxy.
Ignores(p) == p \in disabled

\* Faults in SelfDestructs: one of its two reasons is forgotten.
SelfDestructsSingle(p) == info[p].single
SelfDestructsDisabled(p) == p \in disabled

\* unislot() self destructs when its slot has returned.
SelfDestructs(p) == info[p].single \/ p \in disabled

\* PyQtSlotProxy::unislot() called from the activations base; ev says that it
\* is called to deliver an event rather than directly by an emission.
Unislot(p, base, ev) ==
    \/ /\ Ignores(p)
       /\ stack' = base
       /\ UNCHANGED <<disabled, invoked, delLevel, ran>>
    \/ /\ ~Ignores(p)
       /\ MayEnter({p})
       /\ ~Callable(p)
       /\ disabled' = disabled \cup {p}
       /\ invoked' = invoked \ {p}
       /\ DeleteLater({p}, IF ev THEN Level + 1 ELSE Level)
       /\ stack' = base
       /\ UNCHANGED ran
    \/ /\ ~Ignores(p)
       /\ MayEnter({p})
       /\ Callable(p)
       /\ Len(base) < MaxDepth
       /\ invoked' = invoked \cup {p}
       /\ stack' = Append(base, SlotFrame(p, ev))
       /\ ran' = ran \cup {p}
       /\ UNCHANGED <<disabled, delLevel>>

-----------------------------------------------------------------------------
Init ==
    /\ txState = [t \in Transmitters |-> "alive"]
    /\ state = [p \in Proxies |-> "unused"]
    /\ info = [p \in Proxies |-> NoInfo]
    /\ hash = {} /\ disabled = {} /\ invoked = {}
    /\ conn = {} /\ dconn = {}
    /\ slotState = [s \in Slots |-> "ok"]
    /\ cleared = {}
    /\ queue = << >>
    /\ timer = {}
    /\ delLevel = [p \in Proxies |-> 0]
    /\ stack = <<LoopFrame>>
    /\ heard = {} /\ ran = {}

\* The proxies of t whose signature is s.
Filed(t, s) == {p \in hash : info[p].tx = t /\ info[p].sig = s}

\* A Python reference to the slot still exists.
Referable(slot) == slotState[slot] # "collected"

\* A findSlotProxy() that forgets about disabled proxies.
MatchesDisabled(t, s, slot) ==
    {p \in Filed(t, s) : info[p].slot = slot /\ p \notin cleared}

\* findSlotProxy(): the enabled proxies that match; PyQtSlot::operator== never
\* matches an instance or a callable that has gone.
Matches(t, s, slot) ==
    {p \in Filed(t, s) : /\ p \notin disabled
                         /\ info[p].slot = slot
                         /\ p \notin cleared}

\* QMultiHash lists the values of a key latest first.
FindSlotProxy(t, s, slot) ==
    {p \in Matches(t, s, slot) : \A q \in Matches(t, s, slot) : q <= p}

\* The next proxy to be allocated.
Fresh(p) == /\ state[p] = "unused"
            /\ \A q \in Proxies : state[q] = "unused" => p <= q

\* A constructor that does not watch its transmitter.
NewProxyUnwatched(p, i) ==
    /\ state' = [state EXCEPT ![p] = "live"]
    /\ info' = [info EXCEPT ![p] = i]
    /\ hash' = IF i.tx = NoTx THEN hash ELSE hash \cup {p}
    /\ UNCHANGED dconn

\* The constructor, for a transmitter (filed and watched) or for none.
NewProxy(p, i) ==
    /\ state' = [state EXCEPT ![p] = "live"]
    /\ info' = [info EXCEPT ![p] = i]
    /\ hash' = IF i.tx = NoTx THEN hash ELSE hash \cup {p}
    /\ dconn' = IF i.tx = NoTx THEN dconn ELSE dconn \cup {p}

\* pyqtBoundSignal_connect() of a callable that needs a proxy.  A refused
\* QObject::connect() raises an exception and leaves the new proxy behind.
Connect(t, s, slot, queued, nocheck, unique, fails) ==
    /\ InPython
    /\ txState[t] = "alive"
    /\ Referable(slot)
    /\ queued => "queued" \in Features
    /\ queued /\ s = Destroyed => "queuedDestroyed" \in Features
    /\ fails => "failConnect" \in Features
    /\ nocheck => "noCheck" \in Features
    /\ unique => FindSlotProxy(t, s, slot) = {}
    /\ \E p \in Proxies :
         /\ Fresh(p)
         /\ NewProxy(p, [tx |-> t, sig |-> s, slot |-> slot, queued |-> queued,
                         single |-> FALSE, nocheck |-> nocheck])
         /\ conn' = IF fails THEN conn ELSE conn \cup {p}
    /\ UNCHANGED <<txState, disabled, invoked, slotState, cleared, queue,
                   timer, delLevel, stack, heard, ran>>

\* QTimer.singleShot(): a proxy without a transmitter, invoked once by Qt.
SingleShot(slot) ==
    /\ InPython
    /\ "singleShot" \in Features
    /\ Referable(slot)
    /\ \E p \in Proxies, s \in Signals \ {Destroyed} :
         /\ Fresh(p)
         /\ NewProxy(p, [tx |-> NoTx, sig |-> s, slot |-> slot,
                         queued |-> FALSE, single |-> TRUE, nocheck |-> FALSE])
         /\ timer' = timer \cup {p}
    /\ UNCHANGED <<txState, disabled, invoked, conn, slotState, cleared, queue,
                   delLevel, stack, heard, ran>>

\* pyqtBoundSignal_disconnect() of a callable: the connection is cut, then the
\* proxy that was found is disabled.
Disconnect(t, s, slot) ==
    /\ InPython
    /\ txState[t] = "alive"
    /\ Referable(slot)
    /\ \E p \in FindSlotProxy(t, s, slot) :
         /\ conn' = conn \ {p}
         /\ Disable({p}, Level)
    /\ UNCHANGED <<txState, state, info, hash, invoked, dconn, slotState,
                   cleared, queue, timer, stack, heard, ran>>

\* pyqtBoundSignal_disconnect() of a QMetaObject.Connection, deleteSlotProxy().
DisconnectHandle(p) ==
    /\ InPython
    /\ p \in conn
    /\ conn' = conn \ {p}
    /\ hash' = hash \ {p}
    /\ Disable({p}, Level)
    /\ UNCHANGED <<txState, state, info, invoked, dconn, slotState, cleared,
                   queue, timer, stack, heard, ran>>

\* The proxies whose connection to the signal s of t exists.
Connected(t, s) == {p \in conn : info[p].tx = t /\ info[p].sig = s}
Watching(t) == {p \in dconn : info[p].tx = t}

\* pyqtBoundSignal_disconnect() of everything, deleteSlotProxies().  Qt's
\* disconnect(tx, destroyed, 0, 0) cuts the connections to disable() as well.
DisconnectSignal(t, s) ==
    /\ InPython
    /\ txState[t] = "alive"
    /\ s = Destroyed => "disconnectDestroyed" \in Features
    /\ conn' = conn \ Connected(t, s)
    /\ dconn' = IF s = Destroyed THEN dconn \ Watching(t) ELSE dconn
    /\ hash' = hash \ Filed(t, s)
    /\ Disable(Filed(t, s), Level)
    /\ UNCHANGED <<txState, state, info, invoked, slotState, cleared, queue,
                   timer, stack, heard, ran>>

\* qpycore_qobject_disconnect(): every signal of t.
DisconnectAll(t) ==
    /\ InPython
    /\ txState[t] = "alive"
    /\ LET filed == {p \in hash : info[p].tx = t}
       IN  /\ conn' = {p \in conn : info[p].tx # t}
           /\ dconn' = dconn \ Watching(t)
           /\ hash' = hash \ filed
           /\ Disable(filed, Level)
    /\ UNCHANGED <<txState, state, info, invoked, slotState, cleared, queue,
                   timer, stack, heard, ran>>

-----------------------------------------------------------------------------
(* Emission and the death of a transmitter.                                *)

Direct(S) == {p \in S : ~info[p].queued}

\* pyqtBoundSignal_emit() reaches QMetaObject::activate().
Emit(t, s) ==
    /\ InPython
    /\ s # Destroyed
    /\ txState[t] = "alive"
    /\ Len(stack) + 1 < MaxDepth
    /\ Len(queue) < MaxQueue
    /\ Connected(t, s) # {}
    /\ MayEnter(Direct(Connected(t, s)))
    /\ stack' = Append(stack, EmitFrame(t, s, Connected(t, s)))
    /\ UNCHANGED <<txState, state, info, hash, disabled, invoked, conn, dconn,
                   slotState, cleared, queue, timer, delLevel, heard, ran>>

\* The C++ transmitter is deleted: ~QObject() emits destroyed().
Destroy(t) ==
    /\ InPython
    /\ txState[t] = "alive"
    /\ Len(stack) + 1 < MaxDepth
    /\ MayEnter(Direct(Connected(t, Destroyed)))
    /\ txState' = [txState EXCEPT ![t] = "dying"]
    /\ stack' = Append(stack, EmitFrame(t, Destroyed,
                                Connected(t, Destroyed) \cup Watching(t)))
    /\ UNCHANGED <<state, info, hash, disabled, invoked, conn, dconn,
                   slotState, cleared, queue, timer, delLevel, heard, ran>>

\* The receivers that a step of the emission of s has to post events for: the
\* constructor's queued connection to disable() was made before the
\* connection to unislot().
Posts(p, s) ==
    (IF s = Destroyed /\ p \in dconn
       THEN <<[kind |-> "disable", p |-> p]>> ELSE << >>)
    \o
    (IF p \in conn /\ info[p].sig = s /\ info[p].queued
       THEN <<[kind |-> "call", p |-> p]>> ELSE << >>)

\* The emission reaches its next receiver, in the order of connection.  It
\* passes over connections that have been cut since it began.
EmitStep ==
    /\ Top.kind = "emit"
    /\ txState[Top.t] = (IF Top.s = Destroyed THEN "dying" ELSE "alive")
    /\ \E p \in Top.todo :
         LET base == Append(Popped, EmitFrame(Top.t, Top.s, Top.todo \ {p}))
             calls == p \in conn /\ info[p].sig = Top.s
         IN  /\ \A q \in Top.todo : p <= q
             /\ queue' = queue \o Posts(p, Top.s)
             /\ heard' = IF calls /\ Top.s = Destroyed /\ p \notin disabled
                           THEN heard \cup {p} ELSE heard
             /\ IF calls /\ ~info[p].queued
                  THEN Unislot(p, base, FALSE)
                  ELSE /\ stack' = base
                       /\ UNCHANGED <<disabled, invoked, delLevel, ran>>
    /\ UNCHANGED <<txState, state, info, hash, conn, dconn, slotState, cleared,
                   timer>>

\* The emission is over, or its transmitter has gone meanwhile.
EmitDone ==
    /\ Top.kind = "emit"
    /\ Top.s # Destroyed
    /\ Top.todo = {} \/ txState[Top.t] # "alive"
    /\ stack' = Popped
    /\ UNCHANGED <<txState, state, info, hash, disabled, invoked, conn, dconn,
                   slotState, cleared, queue, timer, delLevel, heard, ran>>

\* ~QObject() ends: nothing is connected to t any more.
DestroyDone ==
    /\ Top.kind = "emit"
    /\ Top.s = Destroyed
    /\ Top.todo = {}
    /\ txState' = [txState EXCEPT ![Top.t] = "dead"]
    /\ conn' = {p \in conn : info[p].tx # Top.t}
    /\ dconn' = dconn \ Watching(Top.t)
    /\ stack' = Popped
    /\ UNCHANGED <<state, info, hash, disabled, invoked, slotState, cleared,
                   queue, timer, delLevel, heard, ran>>

\* Another QObject is created at the address of a dead one.
Create(t) ==
    /\ InPython
    /\ "reuse" \in Features
    /\ txState[t] = "dead"
    /\ txState' = [txState EXCEPT ![t] = "alive"]
    /\ UNCHANGED <<state, info, hash, disabled, invoked, conn, dconn,
                   slotState, cleared, queue, timer, delLevel, stack, heard,
                   ran>>

-----------------------------------------------------------------------------
(* The slot and its receiver.                                              *)

\* The Python slot returns (or raises) and unislot() finishes.  If the proxy
\* has been deleted under it what follows is a write to freed memory.
SlotReturn ==
    /\ Top.kind = "slot"
    /\ LET p == Top.p
       IN  IF state[p] = "live"
             THEN /\ invoked' = invoked \ {p}
                  /\ DeleteLater(IF SelfDestructs(p) THEN {p} ELSE {}, Level)
             ELSE UNCHANGED <<invoked, delLevel>>
    /\ stack' = Popped
    /\ UNCHANGED <<txState, state, info, hash, disabled, conn, dconn,
                   slotState, cleared, queue, timer, heard, ran>>

\* The C++ instance behind a method is deleted.
LoseReceiver(slot) ==
    /\ InPython
    /\ slot \in MethodSlots
    /\ slotState[slot] = "ok"
    /\ slotState' = [slotState EXCEPT ![slot] = "cppGone"]
    /\ UNCHANGED <<txState, state, info, hash, disabled, invoked, conn, dconn,
                   cleared, queue, timer, delLevel, stack, heard, ran>>

\* The Python instance behind a method is collected; an executing method
\* keeps its own instance.
CollectReceiver(slot) ==
    /\ InPython
    /\ slot \in MethodSlots
    /\ slotState[slot] # "collected"
    /\ \A i \in 1..Len(stack) : stack[i].kind = "slot" =>
                                  info[stack[i].p].slot # slot
    /\ slotState' = [slotState EXCEPT ![slot] = "collected"]
    /\ UNCHANGED <<txState, state, info, hash, disabled, invoked, conn, dconn,
                   cleared, queue, timer, delLevel, stack, heard, ran>>

\* The garbage collector clears t's wrapper: clearSlotProxies().
ClearSlotProxies(t) ==
    /\ InPython
    /\ txState[t] = "alive"
    /\ cleared' = cleared \cup {p \in hash : /\ info[p].tx = t
                                             /\ info[p].slot \notin MethodSlots}
    /\ UNCHANGED <<txState, state, info, hash, disabled, invoked, conn, dconn,
                   slotState, queue, timer, delLevel, stack, heard, ran>>

-----------------------------------------------------------------------------
(* Event loops.                                                            *)

\* An event other than those of the proxies is handled by Python code.
PyEvent ==
    /\ InLoop
    /\ Len(stack) < MaxDepth
    /\ stack' = Append(stack, EventFrame)
    /\ UNCHANGED <<txState, state, info, hash, disabled, invoked, conn, dconn,
                   slotState, cleared, queue, timer, delLevel, heard, ran>>

EventReturn ==
    /\ Top.kind = "event"
    /\ stack' = Popped
    /\ UNCHANGED <<txState, state, info, hash, disabled, invoked, conn, dconn,
                   slotState, cleared, queue, timer, delLevel, heard, ran>>

\* exec() or processEvents() called by Python code.
EnterLoop ==
    /\ InPython
    /\ "nest" \in Features
    /\ Len(stack) < MaxDepth
    /\ stack' = Append(stack, LoopFrame)
    /\ UNCHANGED <<txState, state, info, hash, disabled, invoked, conn, dconn,
                   slotState, cleared, queue, timer, delLevel, heard, ran>>

LoopExit ==
    /\ InLoop
    /\ Len(stack) > 1
    /\ stack' = Popped
    /\ UNCHANGED <<txState, state, info, hash, disabled, invoked, conn, dconn,
                   slotState, cleared, queue, timer, delLevel, heard, ran>>

\* The loop delivers the oldest posted call: qt_metacall() of the proxy.  Qt
\* has dropped the events of an object that no longer exists.
Deliver ==
    /\ InLoop
    /\ queue # << >>
    /\ queue' = Tail(queue)
    /\ LET p == Head(queue).p
       IN  IF state[p] # "live"
             THEN UNCHANGED <<disabled, invoked, delLevel, stack, ran>>
           ELSE IF Head(queue).kind = "call"
             THEN Unislot(p, stack, TRUE)
           ELSE /\ Disable({p}, Level + 1)
                /\ UNCHANGED <<invoked, stack, ran>>
    /\ UNCHANGED <<txState, state, info, hash, conn, dconn, slotState, cleared,
                   timer, heard>>

\* The single shot timer of p expires.
TimerFire(p) ==
    /\ InLoop
    /\ p \in timer
    /\ timer' = timer \ {p}
    /\ Unislot(p, stack, TRUE)
    /\ UNCHANGED <<txState, state, info, hash, conn, dconn, slotState, cleared,
                   queue, heard>>

\* ~PyQtSlotProxy() erases its own entry from proxy_slots.
Unfiled(p) == hash \ {p}

\* The loop delivers the DeferredDelete event of p, which it does only when
\* the level that posted it has been left: ~PyQtSlotProxy().
DeferredDelete(p) ==
    /\ InLoop
    /\ delLevel[p] > Level
    /\ state' = [state EXCEPT ![p] = "deleted"]
    /\ delLevel' = [delLevel EXCEPT ![p] = 0]
    /\ hash' = Unfiled(p)
    /\ conn' = conn \ {p}
    /\ dconn' = dconn \ {p}
    /\ UNCHANGED <<txState, info, disabled, invoked, slotState, cleared, queue,
                   timer, stack, heard, ran>>

-----------------------------------------------------------------------------
Return == SlotReturn \/ EventReturn \/ LoopExit

Application ==
    \/ \E t \in Transmitters, s \in Signals :
         \/ \E slot \in Slots :
              \/ \E queued, nocheck, unique, fails \in BOOLEAN :
                   Connect(t, s, slot, queued, nocheck, unique, fails)
              \/ Disconnect(t, s, slot)
         \/ DisconnectSignal(t, s)
         \/ Emit(t, s)
    \/ \E t \in Transmitters :
         DisconnectAll(t) \/ Destroy(t) \/ Create(t) \/ ClearSlotProxies(t)
    \/ \E slot \in Slots :
         SingleShot(slot) \/ LoseReceiver(slot) \/ CollectReceiver(slot)
    \/ \E p \in Proxies : DisconnectHandle(p)
    \/ EnterLoop

EventLoop ==
    \/ PyEvent
    \/ Deliver
    \/ \E p \in Proxies : TimerFire(p) \/ DeferredDelete(p)

Next ==
    \/ Application
    \/ EventLoop
    \/ EmitStep \/ EmitDone \/ DestroyDone
    \/ Return

Spec == Init /\ [][Next]_vars

\* Every emission goes on, every handler, slot and nested loop returns in the
\* end, and a loop that keeps running handles the events posted to it.
Fairness ==
    /\ WF_vars(EmitStep \/ EmitDone \/ DestroyDone)
    /\ \A d \in 2..MaxDepth : SF_vars(Len(stack) = d /\ Return)
    /\ SF_vars(Deliver)
    /\ \A p \in Proxies : SF_vars(TimerFire(p)) /\ SF_vars(DeferredDelete(p))

FairSpec == Spec /\ Fairness
-----------------------------------------------------------------------------
(* Properties.                                                             *)

Executing(p) == \E i \in 1..Len(stack) :
                  stack[i].kind = "slot" /\ stack[i].p = p
Posted(kind, p) == \E i \in 1..Len(queue) : queue[i] = [kind |-> kind, p |-> p]

\* "We don't rely on deleteLater() providing the necessary delay because the
\* slot could process the event loop and the proxy would be deleted too soon"
\* (qpycore_pyqtslotproxy.cpp:240-243): whatever nested loops, disconnects and
\* deaths of transmitters happen while a slot executes, its proxy survives
\* until unislot() has finished with it.
ExecutingAlive ==
    \A i \in 1..Len(stack) :
      stack[i].kind = "slot" => state[stack[i].p] = "live"

\* The assertion of the destructor (qpycore_pyqtslotproxy.cpp:98): a proxy is
\* never destroyed with PROXY_SLOT_INVOKED set, and the flag is never set
\* afterwards, even by slots that are entered again while they execute.
DestructorAssert == \A p \in Proxies : state[p] = "deleted" => p \notin invoked

\* Every enabled proxy with a transmitter is still going to learn of the
\* transmitter's death: it is watching it, the emission of destroyed() has yet
\* to reach it, or disable() is on its way.  Otherwise it would leak.
NoOrphan ==
    \A p \in Proxies :
      /\ state[p] = "live"
      /\ info[p].tx # NoTx
      /\ p \notin disabled
      => p \in dconn \/ Posted("disable", p)

\* "This will leak if there is no transmitter and this is not a single shot
\* slot" (qpycore_pyqtslotproxy.cpp:51-52), so with a transmitter it does not:
\* once the transmitter is dead, a proxy that is not disabled yet has disable()
\* posted to it, the only thing left that would delete it.
NoLeak ==
    \A p \in Proxies :
      /\ state[p] = "live"
      /\ info[p].tx # NoTx
      /\ txState[info[p].tx] = "dead"
      /\ p \notin disabled
      => Posted("disable", p)

\* "Find a slot proxy connected to a transmitter" (qpycore_pyqtslotproxy.cpp:
\* 254): what findSlotProxy() finds for a living transmitter, and connect()
\* takes as proof that the connection is not unique, is connected.
FindIsConnected ==
    \A t \in Transmitters, s \in Signals, slot \in Slots :
      txState[t] = "alive" => FindSlotProxy(t, s, slot) \subseteq conn

\* The converse: a connection that can still invoke a slot is filed, under its
\* living transmitter, so that disconnect() of the slot will find its proxy
\* and the garbage collector will see the slot's references.
ConnectedIsFiled ==
    \A p \in conn \ disabled : /\ p \in hash
                               /\ txState[info[p].tx] # "dead"

\* "We use a queued connection in case the proxy is also connected to the same
\* signal and we want to make sure it has a chance to invoke the slot before
\* being destroyed" (qpycore_pyqtslotproxy.cpp:79-81): a proxy that was
\* connected to destroyed() is not disabled before its slot has run, unless
\* there is nothing left to call.
DestroyedSlotRuns ==
    \A p \in heard : p \in disabled => p \in ran \/ ~Callable(p)

\* A single shot slot is entered at most once: once it has been entered its
\* timer has gone, it is not called by any other means and when it returns
\* its deletion is already pending.
SingleShotOnce ==
    \A p \in ran : info[p].single =>
      /\ p \notin timer
      /\ Executing(p) \/ state[p] = "deleted" \/ delLevel[p] > 0

\* disable() and ~PyQtSlotProxy() are final: no step enables a proxy again,
\* enters the slot of one that was disabled, or files or connects it again.
StaysDisabled ==
    \A p \in disabled :
      /\ p \in disabled'
      /\ p \in conn' => p \in conn
      /\ p \in hash' => p \in hash
      /\ p \in ran' => p \in ran
      /\ p \in invoked' => p \in invoked

DisabledForGood == [][StaysDisabled]_vars

\* disconnect() or a transmitter's death frees the proxy in the end: as soon as
\* a proxy is disabled it is bound to be deleted, also when it was disabled
\* while its slot was executing in a nested event loop.
DisabledIsDeleted ==
    \A p \in Proxies : p \in disabled ~> state[p] = "deleted"

\* A transmitter's death disables all proxies filed under it, so none of them
\* is found under the address for ever.
DeadIsUnfiled ==
    \A p \in Proxies :
      p \in hash /\ txState[info[p].tx] = "dead" ~> p \notin hash

\* The timer of a single shot proxy is the end of it.
SingleShotReclaimed == \A p \in Proxies : p \in timer ~> state[p] = "deleted"

\* A proxy that is not disabled is known to its transmitter and is found by it.
WatchedAndFiled == NoOrphan /\ ConnectedIsFiled

\* Every proxy that has no more to do is deleted in the end.
ProxiesReclaimed == DisabledIsDeleted /\ DeadIsUnfiled /\ SingleShotReclaimed

-----------------------------------------------------------------------------
(* The inductive invariant behind DestructorAssert and ExecutingAlive.      *)

\* A proxy that does not exist yet takes part in nothing.
UnusedInert ==
    \A p \in Proxies : state[p] = "unused" =>
      /\ p \notin conn /\ p \notin timer /\ p \notin invoked /\ p \notin hash
      /\ delLevel[p] = 0
      /\ ~Posted("call", p)

\* Timers call single shot proxies, and nothing else calls those.
SingleByTimer ==
    \A p \in Proxies :
      /\ p \in timer => info[p].single
      /\ info[p].single => p \notin conn /\ ~Posted("call", p)

\* What executes exists and is not waiting for its timer.
ExecutingExists ==
    \A i \in 1..Len(stack) : stack[i].kind = "slot" =>
      state[stack[i].p] # "unused" /\ stack[i].p \notin timer

\* A proxy whose deletion is due is not executing, and nothing will call its
\* slot any more.
DoomedInert ==
    \A p \in Proxies : state[p] = "deleted" \/ delLevel[p] > 0 =>
      /\ p \notin invoked
      /\ p \in disabled \/ (info[p].single /\ p \notin timer)

\* Unless slots are entered again while they execute, PROXY_SLOT_INVOKED says
\* which are executing.
InvokedIsExecuting ==
    "reenter" \notin Features =>
      /\ \A i \in 1..Len(stack) :
           stack[i].kind = "slot" => stack[i].p \in invoked
      /\ \A i, j \in 1..Len(stack) :
           stack[i].kind = "slot" /\ stack[j].kind = "slot" /\ i # j
             => stack[i].p # stack[j].p

IInv == /\ TypeOK
        /\ UnusedInert
        /\ SingleByTimer
        /\ ExecutingExists
        /\ DoomedInert
        /\ InvokedIsExecuting

-----------------------------------------------------------------------------
(* What IInv lacks to prove the other invariants: how proxies are linked to *)
(* their transmitters.                                                      *)

\* A proxy that does not exist yet has never done anything.
UnusedNew ==
    \A p \in Proxies : state[p] = "unused" =>
      p \notin disabled /\ p \notin dconn /\ p \notin heard /\ p \notin ran

\* A proxy that no longer exists is known to nobody.
DeletedForgotten ==
    \A p \in Proxies : state[p] = "deleted" =>
      /\ p \notin conn /\ p \notin hash /\ p \notin dconn
      /\ delLevel[p] = 0

\* What is filed or connected is so under a transmitter, and what is not a
\* single shot proxy has one.
LinkedToTx ==
    /\ \A p \in Proxies : p \in hash \/ p \in conn \/ p \in dconn =>
         info[p].tx \in Transmitters
    /\ \A p \in Proxies : state[p] # "unused" =>
         (info[p].single <=> info[p].tx = NoTx)

\* Only connections to a transmitter that still exists are left.
ConnectedExists == \A p \in conn : txState[info[p].tx] # "dead"

\* An enabled proxy with a transmitter is filed under it.
EnabledFiled ==
    \A p \in Proxies :
      state[p] = "live" /\ info[p].tx # NoTx /\ p \notin disabled => p \in hash

\* ... and connected to it, unless the transmitter has gone.
FiledConnected ==
    {"reuse", "failConnect"} \cap Features = {} =>
      \A p \in hash \ disabled : txState[info[p].tx] # "dead" => p \in conn

\* The activation i is the destructor of the QObject at t.
Destroying(i, t) == /\ stack[i].kind = "emit"
                    /\ stack[i].s = Destroyed
                    /\ stack[i].t = t

\* Destructors run for dying QObjects, one for each.
DestructorsApart ==
    /\ \A i \in 1..Len(stack), t \in Transmitters :
         Destroying(i, t) => txState[t] = "dying"
    /\ \A i, j \in 1..Len(stack), t \in Transmitters :
         Destroying(i, t) /\ Destroying(j, t) => i = j

\* disable() has been posted to an enabled proxy, or it is watching its
\* transmitter and the destructor of that has not passed over it yet.
Watched ==
    "disconnectDestroyed" \notin Features =>
      \A p \in Proxies :
        state[p] = "live" /\ info[p].tx # NoTx /\ p \notin disabled =>
          \/ Posted("disable", p)
          \/ /\ p \in dconn
             /\ txState[info[p].tx] # "dead"
             /\ \A i \in 1..Len(stack) :
                  Destroying(i, info[p].tx) => p \in stack[i].todo

\* The slots of destroyed() are called at once, where there is one to call.
HeardAtOnce ==
    "queuedDestroyed" \notin Features =>
      /\ \A p \in conn : info[p].sig = Destroyed => ~info[p].queued
      /\ \A p \in heard : p \in ran \/ ~Callable(p)

LInv == /\ UnusedNew
        /\ DeletedForgotten
        /\ LinkedToTx
        /\ ConnectedExists
        /\ EnabledFiled
        /\ FiledConnected
        /\ DestructorsApart
        /\ Watched
        /\ HeardAtOnce
        /\ SingleShotOnce

\* What every step preserves: what is doomed stays inert, and proxies,
\* connections, transmitters and destructors stay linked as they should be.
InductiveInv == IInv /\ LInv

-----------------------------------------------------------------------------
(* What connections promise to the application, see Connections.            *)

StatusOf(p) ==
    CASE state[p] = "unused"  -> "none"
      [] state[p] = "deleted" -> "freed"
      [] state[p] = "live" /\ p \notin disabled /\ delLevel[p] = 0 -> "open"
      [] OTHER -> "closed"

\* The activations of the slot of p among those of s.
SlotsOf(s, p) == {i \in 1..Len(s) : s[i].kind = "slot" /\ s[i].p = p}

Promise == INSTANCE Connections WITH
    Conns <- Proxies,
    status <- [p \in Proxies |-> StatusOf(p)],
    running <- [p \in Proxies |-> Cardinality(SlotsOf(stack, p))]

\* The proxies implement the connections they stand for.
ConnectionPromise == Promise!Spec
=============================================================================
