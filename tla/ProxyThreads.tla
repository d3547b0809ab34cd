---------------------------- MODULE ProxyThreads ----------------------------
(***************************************************************************)
(* Slot proxies used by several threads: the GIL, the mutex around the     *)
(* hash of proxies, and the places where one is held and the other is not  *)
(* (qpycore_pyqtslotproxy.cpp, qpycore_pyqtboundsignal.cpp).               *)
(*                                                                         *)
(* All proxies belong to one transmitter and live in the thread Owner,     *)
(* whose event loop calls their unislot() and disable() and destroys them. *)
(* The other threads connect, emit and disconnect.  A thread is "idle"     *)
(* while it runs no Python code, and executes "python" with the GIL.  Its  *)
(* other program counters are points inside PyQt where the GIL or the      *)
(* mutex is released, awaited or held.  The life of a proxy in one thread  *)
(* is modelled in full by SlotProxy.                                       *)
(***************************************************************************)
EXTENDS Naturals, FiniteSets

CONSTANTS
    Threads,
    Owner,      \* the thread the proxies have been moved to
    NoThread,   \* holder of a free lock
    Proxies,
    NoProxy,
    MaxCalls,   \* bound: calls of one proxy that are posted at a time
    Habits      \* what the application does, see HabitNames

HabitNames == { "collect",    \* the garbage collector visits transmitters
                "connect",    \* threads other than Owner connect slots
                "disconnect"  \* threads other than Owner disconnect slots
              }

ASSUME OwnerAssumption == Owner \in Threads /\ NoThread \notin Threads
ASSUME ProxiesAssumption == NoProxy \notin Proxies
ASSUME HabitsAssumption == Habits \subseteq HabitNames /\ MaxCalls \in Nat

VARIABLES
    gil,       \* the thread that holds the GIL
    mutex,     \* the thread that holds PyQtSlotProxy::mutex
    pc,        \* what each thread is doing
    ref,       \* the PyQtSlotProxy pointer each thread is using
    hash,      \* proxy_slots
    state,     \* the C++ object of each proxy
    conn,      \* proxies whose unislot() is connected
    disabled,  \* proxies with PROXY_SLOT_DISABLED
    invoked,   \* proxies with PROXY_SLOT_INVOKED
    calls,     \* calls of unislot() posted to Owner
    disables,  \* proxies with a call of disable() posted to Owner
    doomed,    \* proxies with a DeferredDelete event
    running,   \* the proxy whose slot Owner is executing
    tx         \* the transmitter exists

objects == <<hash, state, conn, disabled, invoked, calls, disables, doomed,
             running, tx>>
vars == <<gil, mutex, pc, ref, objects>>

\* Where a thread holds the GIL, where it holds the mutex, where it accesses
\* the hash, and where it awaits each lock.
GilPCs == {"python", "findLock", "find", "allLock", "all", "walk"}
MutexPCs == {"insert", "find", "all", "erase"}
WritePCs == {"insert", "all", "erase"}
ReadPCs == {"find", "walk"}
AwaitGilPCs == {"newSlot", "made", "joined", "cutDone", "allCut", "call", "erased"}
AwaitMutexPCs == {"newLock", "findLock", "allLock", "dtorLock"}
PCs == {"idle", "joining", "cut"}
         \cup GilPCs \cup MutexPCs \cup AwaitGilPCs \cup AwaitMutexPCs

TypeOK ==
    /\ gil \in Threads \cup {NoThread}
    /\ mutex \in Threads \cup {NoThread}
    /\ pc \in [Threads -> PCs]
    /\ ref \in [Threads -> Proxies \cup {NoProxy}]
    /\ hash \subseteq Proxies
    /\ state \in [Proxies -> {"unused", "live", "dying", "deleted"}]
    /\ conn \subseteq Proxies
    /\ disabled \subseteq Proxies
    /\ invoked \subseteq Proxies
    /\ calls \in [Proxies -> 0..MaxCalls]
    /\ disables \subseteq Proxies
    /\ doomed \subseteq Proxies
    /\ running \in Proxies \cup {NoProxy}
    /\ tx \in BOOLEAN

Init ==
    /\ gil = NoThread /\ mutex = NoThread
    /\ pc = [th \in Threads |-> "idle"]
    /\ ref = [th \in Threads |-> NoProxy]
    /\ hash = {} /\ conn = {} /\ disabled = {} /\ invoked = {}
    /\ state = [p \in Proxies |-> "unused"]
    /\ calls = [p \in Proxies |-> 0]
    /\ disables = {} /\ doomed = {}
    /\ running = NoProxy
    /\ tx = TRUE

-----------------------------------------------------------------------------
(* Locks.  Each operator is a conjunct of a step of th from one program     *)
(* counter to another.                                                     *)

Goto(th, from, to) == pc[th] = from /\ pc' = [pc EXCEPT ![th] = to]
TakeGil(th) == gil = NoThread /\ gil' = th
DropGil == gil' = NoThread
PassGil == gil = NoThread /\ UNCHANGED gil \* taken, and released at once
TakeMutex(th) == mutex = NoThread /\ mutex' = th
DropMutex == mutex' = NoThread

\* A fault: disable() ignores that the slot is executing.
DisableAtOnce(S) == disabled' = disabled \cup S /\ doomed' = doomed \cup S

\* PyQtSlotProxy::disable().
Disable(S) == /\ disabled' = disabled \cup S
              /\ doomed' = doomed \cup (S \ invoked)

\* Python code gets and gives up the GIL between operations.
EnterPython(th) ==
    /\ Goto(th, "idle", "python")
    /\ TakeGil(th)
    /\ UNCHANGED <<mutex, ref, objects>>

LeavePython(th) ==
    /\ Goto(th, "python", "idle")
    /\ DropGil
    /\ UNCHANGED <<mutex, ref, objects>>

-----------------------------------------------------------------------------
(* connect(): the constructor runs without the GIL, takes it to save the   *)
(* slot and releases it before it locks the mutex.                         *)

May(th, habit) == th = Owner \/ habit \in Habits

Connect(th) ==
    /\ tx
    /\ May(th, "connect")
    /\ Goto(th, "python", "newSlot")
    /\ DropGil
    /\ \E p \in Proxies :
         /\ state[p] = "unused"
         /\ state' = [state EXCEPT ![p] = "live"]
         /\ ref' = [ref EXCEPT ![th] = p]
    /\ UNCHANGED <<mutex, hash, conn, disabled, invoked, calls, disables,
                   doomed, running, tx>>

SaveSlot(th) ==
    /\ Goto(th, "newSlot", "newLock")
    /\ PassGil
    /\ UNCHANGED <<mutex, ref, objects>>

\* A fault: the constructor does not lock the mutex.
LockToInsertNot(th) ==
    /\ Goto(th, "newLock", "insert")
    /\ UNCHANGED <<gil, mutex, ref, objects>>

LockToInsert(th) ==
    /\ Goto(th, "newLock", "insert")
    /\ TakeMutex(th)
    /\ UNCHANGED <<gil, ref, objects>>

\* A fault: the constructor returns with the mutex locked.
InsertLocked(th) ==
    /\ Goto(th, "insert", "made")
    /\ hash' = hash \cup {ref[th]}
    /\ UNCHANGED <<gil, mutex, ref, state, conn, disabled, invoked, calls,
                   disables, doomed, running, tx>>

Insert(th) ==
    /\ Goto(th, "insert", "made")
    /\ hash' = hash \cup {ref[th]}
    /\ DropMutex
    /\ UNCHANGED <<gil, ref, state, conn, disabled, invoked, calls, disables,
                   doomed, running, tx>>

Made(th) ==
    /\ Goto(th, "made", "joining")
    /\ PassGil
    /\ UNCHANGED <<mutex, ref, objects>>

\* QObject::connect() to the new proxy.  (To one that another thread has
\* disabled and Owner deleted meanwhile it is undefined: what it would do to
\* other objects is left out, here and in Cut and DisableFound.)
Join(th) ==
    /\ Goto(th, "joining", "joined")
    /\ conn' = IF state[ref[th]] = "live" THEN conn \cup {ref[th]} ELSE conn
    /\ UNCHANGED <<gil, mutex, ref, hash, state, disabled, invoked, calls,
                   disables, doomed, running, tx>>

Joined(th) ==
    /\ Goto(th, "joined", "python")
    /\ TakeGil(th)
    /\ ref' = [ref EXCEPT ![th] = NoProxy]
    /\ UNCHANGED <<mutex, objects>>

-----------------------------------------------------------------------------
(* disconnect() of a slot: the proxy is found with both locks held, the    *)
(* connection is cut with neither, and the proxy disabled with the GIL.    *)

Disconnect(th) ==
    /\ tx
    /\ May(th, "disconnect")
    /\ Goto(th, "python", "findLock")
    /\ UNCHANGED <<gil, mutex, ref, objects>>

LockToFind(th) ==
    /\ Goto(th, "findLock", "find")
    /\ TakeMutex(th)
    /\ UNCHANGED <<gil, ref, objects>>

\* A fault: the search does not move on from a disabled proxy.
FindNoneSpins(th) ==
    /\ IF hash = {} THEN Goto(th, "find", "python") /\ DropMutex
                    ELSE pc[th] = "find" /\ UNCHANGED <<pc, mutex>>
    /\ hash \subseteq disabled
    /\ UNCHANGED <<gil, ref, objects>>

FindNone(th) ==
    /\ hash \subseteq disabled
    /\ Goto(th, "find", "python")
    /\ DropMutex
    /\ UNCHANGED <<gil, ref, objects>>

Found(th) ==
    /\ Goto(th, "find", "cut")
    /\ \E p \in hash \ disabled : ref' = [ref EXCEPT ![th] = p]
    /\ DropMutex
    /\ DropGil
    /\ UNCHANGED objects

Cut(th) ==
    /\ Goto(th, "cut", "cutDone")
    /\ conn' = conn \ {ref[th]}
    /\ UNCHANGED <<gil, mutex, ref, hash, state, disabled, invoked, calls,
                   disables, doomed, running, tx>>

\* A fault: disable() deletes the proxy at once and in the thread that disconnects.
DisableFoundDeletes(th) ==
    /\ Goto(th, "cutDone", "python")
    /\ TakeGil(th)
    /\ ref' = [ref EXCEPT ![th] = NoProxy]
    /\ disabled' = disabled \cup {ref[th]}
    /\ IF ref[th] \in invoked
       THEN UNCHANGED <<hash, state, conn>>
       ELSE /\ hash' = hash \ {ref[th]} /\ conn' = conn \ {ref[th]}
            /\ state' = [state EXCEPT ![ref[th]] = "deleted"]
    /\ UNCHANGED <<mutex, invoked, calls, disables, doomed, running, tx>>

DisableFound(th) ==
    /\ Goto(th, "cutDone", "python")
    /\ TakeGil(th)
    /\ Disable({ref[th]})
    /\ ref' = [ref EXCEPT ![th] = NoProxy]
    /\ UNCHANGED <<mutex, hash, state, conn, invoked, calls, disables,
                   running, tx>>

-----------------------------------------------------------------------------
(* disconnect() of everything, deleteSlotProxies().                        *)

DisconnectAll(th) ==
    /\ tx
    /\ May(th, "disconnect")
    /\ Goto(th, "python", "allCut")
    /\ DropGil
    /\ conn' = {}
    /\ UNCHANGED <<mutex, ref, hash, state, disabled, invoked, calls,
                   disables, doomed, running, tx>>

AllCut(th) ==
    /\ Goto(th, "allCut", "allLock")
    /\ TakeGil(th)
    /\ UNCHANGED <<mutex, ref, objects>>

LockForAll(th) ==
    /\ Goto(th, "allLock", "all")
    /\ TakeMutex(th)
    /\ UNCHANGED <<gil, ref, objects>>

DeleteSlotProxies(th) ==
    /\ Goto(th, "all", "python")
    /\ hash' = {}
    /\ Disable(hash)
    /\ DropMutex
    /\ UNCHANGED <<gil, ref, state, conn, invoked, calls, disables, running,
                   tx>>

-----------------------------------------------------------------------------
(* The garbage collector: visitSlotProxies() and clearSlotProxies() read   *)
(* the hash with the GIL.                                                  *)

Walk(th) ==
    /\ "collect" \in Habits
    /\ Goto(th, "python", "walk")
    /\ UNCHANGED <<gil, mutex, ref, objects>>

Walked(th) ==
    /\ Goto(th, "walk", "python")
    /\ UNCHANGED <<gil, mutex, ref, objects>>

-----------------------------------------------------------------------------
(* The transmitter.                                                        *)

Emit(th) ==
    /\ tx
    /\ pc[th] = "python"
    /\ \E p \in conn : calls[p] < MaxCalls
    /\ calls' = [p \in Proxies |->
                   IF p \in conn /\ calls[p] < MaxCalls
                     THEN calls[p] + 1 ELSE calls[p]]
    /\ UNCHANGED <<gil, mutex, pc, ref, hash, state, conn, disabled, invoked,
                   disables, doomed, running, tx>>

\* No thread is still connecting to the transmitter when it is deleted, or
\* disconnecting from it: that would be a mistake of the application.
DestroyTx(th) ==
    /\ tx
    /\ pc[th] = "python"
    /\ \A other \in Threads \ {th} : pc[other] \in {"idle", "call", "dtorLock",
                                                    "erase", "erased"}
    /\ tx' = FALSE
    /\ conn' = {}
    /\ disables' = disables \cup {p \in Proxies : state[p] = "live"}
    /\ UNCHANGED <<gil, mutex, pc, ref, hash, state, disabled, invoked, calls,
                   doomed, running>>

-----------------------------------------------------------------------------
(* The event loop of Owner, nested in a slot or not.                       *)

\* A fault: unislot() does not look at the flag.
HandleCallAny(p) ==
    /\ pc[Owner] = "idle"
    /\ running = NoProxy
    /\ calls[p] > 0
    /\ calls' = [calls EXCEPT ![p] = @ - 1]
    /\ pc' = [pc EXCEPT ![Owner] = "call"]
    /\ ref' = [ref EXCEPT ![Owner] = p]
    /\ UNCHANGED <<gil, mutex, hash, state, conn, disabled, invoked, disables,
                   doomed, running, tx>>

\* qt_metacall() calls unislot(), which looks at the flag without the GIL.
\* That a slot is entered again is left to SlotProxy.
HandleCall(p) ==
    /\ pc[Owner] = "idle"
    /\ running = NoProxy
    /\ calls[p] > 0
    /\ calls' = [calls EXCEPT ![p] = @ - 1]
    /\ IF state[p] = "live" /\ p \notin disabled
         THEN /\ pc' = [pc EXCEPT ![Owner] = "call"]
              /\ ref' = [ref EXCEPT ![Owner] = p]
         ELSE UNCHANGED <<pc, ref>>
    /\ UNCHANGED <<gil, mutex, hash, state, conn, disabled, invoked, disables,
                   doomed, running, tx>>

\* unislot() has got the GIL and enters the slot.
BeginSlot ==
    /\ Goto(Owner, "call", "python")
    /\ TakeGil(Owner)
    /\ invoked' = invoked \cup {ref[Owner]}
    /\ running' = ref[Owner]
    /\ ref' = [ref EXCEPT ![Owner] = NoProxy]
    /\ UNCHANGED <<mutex, hash, state, conn, disabled, calls, disables,
                   doomed, tx>>

\* The slot returns and unislot() gives up the GIL.
EndSlot ==
    /\ running # NoProxy
    /\ Goto(Owner, "python", "idle")
    /\ DropGil
    /\ invoked' = invoked \ {running}
    /\ doomed' = doomed \cup ({running} \cap disabled)
    /\ running' = NoProxy
    /\ UNCHANGED <<mutex, ref, hash, state, conn, disabled, calls, disables,
                   tx>>

\* The queued call of disable() after the death of the transmitter.
HandleDisable(p) ==
    /\ pc[Owner] = "idle"
    /\ p \in disables
    /\ disables' = disables \ {p}
    /\ IF state[p] = "live" THEN Disable({p}) ELSE UNCHANGED <<disabled, doomed>>
    /\ UNCHANGED <<gil, mutex, pc, ref, hash, state, conn, invoked, calls,
                   running, tx>>

\* The DeferredDelete event: ~PyQtSlotProxy() first locks the mutex, then
\* takes the GIL to delete the saved slot.
BeginDtor(p) ==
    /\ p \in doomed
    /\ state[p] = "live"
    /\ Goto(Owner, "idle", "dtorLock")
    /\ state' = [state EXCEPT ![p] = "dying"]
    /\ doomed' = doomed \ {p}
    /\ ref' = [ref EXCEPT ![Owner] = p]
    /\ UNCHANGED <<gil, mutex, hash, conn, disabled, invoked, calls, disables,
                   running, tx>>

LockToErase ==
    /\ Goto(Owner, "dtorLock", "erase")
    /\ TakeMutex(Owner)
    /\ UNCHANGED <<gil, ref, objects>>

Erase ==
    /\ Goto(Owner, "erase", "erased")
    /\ hash' = hash \ {ref[Owner]}
    /\ DropMutex
    /\ UNCHANGED <<gil, ref, state, conn, disabled, invoked, calls, disables,
                   doomed, running, tx>>

EndDtor ==
    /\ Goto(Owner, "erased", "idle")
    /\ PassGil
    /\ state' = [state EXCEPT ![ref[Owner]] = "deleted"]
    /\ conn' = conn \ {ref[Owner]}
    /\ ref' = [ref EXCEPT ![Owner] = NoProxy]
    /\ UNCHANGED <<mutex, hash, disabled, invoked, calls, disables, doomed,
                   running, tx>>

-----------------------------------------------------------------------------
\* The steps by which an operation that has begun goes on.
Continue(th) ==
    \/ SaveSlot(th) \/ LockToInsert(th) \/ Insert(th) \/ Made(th) \/ Join(th)
    \/ Joined(th)
    \/ LockToFind(th) \/ FindNone(th) \/ Found(th) \/ Cut(th)
    \/ DisableFound(th)
    \/ AllCut(th) \/ LockForAll(th) \/ DeleteSlotProxies(th)
    \/ Walked(th)
    \/ th = Owner /\ (BeginSlot \/ LockToErase \/ Erase \/ EndDtor)

Start(th) ==
    \/ EnterPython(th) \/ LeavePython(th)
    \/ Connect(th) \/ Disconnect(th) \/ DisconnectAll(th) \/ Walk(th)
    \/ Emit(th) \/ DestroyTx(th)

Deliver == \E p \in Proxies : HandleCall(p) \/ HandleDisable(p) \/ BeginDtor(p)

Next ==
    \/ \E th \in Threads : Start(th) \/ Continue(th)
    \/ Deliver
    \/ EndSlot

Spec == Init /\ [][Next]_vars

\* A thread inside PyQt goes on and gets a lock that is free often enough;
\* Python code is made to give up the GIL by the interpreter.
Fairness ==
    \A th \in Threads : SF_vars(Continue(th)) /\ SF_vars(LeavePython(th))

FairSpec == Spec /\ Fairness

-----------------------------------------------------------------------------
(* Properties.                                                             *)

\* The locks are held where the code says so and nowhere else.
LocksHeld ==
    \A th \in Threads : /\ (gil = th) <=> (pc[th] \in GilPCs)
                        /\ (mutex = th) <=> (pc[th] \in MutexPCs)

\* "The mutex around the proxies hash" (qpycore_pyqtslotproxy.h:80): no thread
\* reads or writes the hash while another one writes it.
NoHashRace ==
    \A t1, t2 \in Threads :
      t1 # t2 /\ pc[t1] \in WritePCs => pc[t2] \notin WritePCs \cup ReadPCs

\* No thread that holds the mutex waits for the GIL while the thread that holds
\* the GIL waits for the mutex: disconnect() locks the mutex with the GIL
\* (qpycore_pyqtslotproxy.cpp:260, 316), so the constructor and the destructor
\* must not want the GIL while they hold the mutex (lines 85-87, 102-115).
NoMutualWait ==
    \A t1, t2 \in Threads :
      ~ /\ mutex = t1 /\ pc[t1] \in AwaitGilPCs
        /\ gil = t2 /\ pc[t2] \in AwaitMutexPCs

\* The proxy that Owner found, or made, and goes on to use after the GIL was
\* released (qpycore_pyqtboundsignal.cpp:379-398, 594-608) or that unislot()
\* has checked still exists, whatever the other threads disconnect meanwhile.
\* (A thread other than Owner has no such guarantee.)
OwnerRefValid ==
    pc[Owner] \in {"newSlot", "newLock", "insert", "made", "joining", "joined",
                  "cut", "cutDone", "call"} => state[ref[Owner]] = "live"

\* Q_ASSERT((proxy_flags & PROXY_SLOT_INVOKED) == 0) in the destructor
\* (qpycore_pyqtslotproxy.cpp:98).
DestructorAssert ==
    \A p \in Proxies : state[p] \in {"dying", "deleted"} => p \notin invoked

\* "If we are marked as disabled (possible if a queued signal has been
\* disconnected but there is still a signal in the event queue) then just
\* ignore the call" (qpycore_pyqtslotproxy.cpp:188-190): the slot of a disabled
\* proxy is not entered.
DisabledIgnored == [][running' # running => running' \notin disabled]_vars

\* Every operation ends: each thread that is inside PyQt gets out of it,
\* whatever the others do with the two locks.
OperationsEnd ==
    \A th \in Threads : pc[th] \notin {"idle", "python"} ~> pc[th] \in {"idle", "python"}

-----------------------------------------------------------------------------
(* The inductive invariant of ProxyThreadsProofs.                          *)

WalkersCollect == \A th \in Threads : pc[th] = "walk" => "collect" \in Habits

\* A proxy that was never created is referred to by nothing.
UnusedUntouched ==
    \A p \in Proxies : state[p] = "unused" =>
      /\ p \notin hash \cup conn \cup disables \cup doomed
      /\ calls[p] = 0 /\ running # p
      /\ \A th \in Threads : ref[th] # p

\* Only its creator knows a proxy that is not in the hash yet.
Making == {"newSlot", "newLock", "insert"}
FreshUnshared ==
    \A th \in Threads : pc[th] \in Making =>
      /\ ref[th] \in Proxies
      /\ state[ref[th]] = "live"
      /\ ref[th] \notin hash \cup conn \cup disables \cup doomed
      /\ calls[ref[th]] = 0 /\ running # ref[th]
      /\ \A other \in Threads \ {th} : ref[other] # ref[th]

Dying(p) == pc[Owner] \in {"dtorLock", "erase"} /\ ref[Owner] = p
HashedExist == \A p \in hash : state[p] = "live" \/ Dying(p)

DyingGone ==
    pc[Owner] \in {"dtorLock", "erase", "erased"} => state[ref[Owner]] = "dying"

\* A program counter at which a pointer is used goes with a pointer.
Referring == Making \cup {"made", "joining", "joined", "cut", "cutDone", "call",
                         "dtorLock", "erase", "erased"}
RefersToProxy == \A th \in Threads : pc[th] \in Referring => ref[th] \in Proxies

IInv ==
    /\ TypeOK
    /\ LocksHeld
    /\ WalkersCollect
    /\ RefersToProxy
    /\ UnusedUntouched
    /\ FreshUnshared
    /\ HashedExist
    /\ DyingGone
    /\ OwnerRefValid

\* What IInv lacks for DestructorAssert and DisabledIgnored, when only Owner
\* disconnects: who is about to call disable() is Owner, so that what
\* unislot() has seen of the flags is still true when it has got the GIL.
Disconnecting == {"findLock", "find", "cut", "cutDone", "allCut", "allLock", "all"}
OwnerDisconnects == \A th \in Threads : pc[th] \in Disconnecting => th = Owner
CallEnabled ==
    pc[Owner] = "call" => ref[Owner] \notin disabled /\ running = NoProxy
DoomedDisabled == doomed \subseteq disabled

\* PROXY_SLOT_INVOKED is that of the executing slot, whose proxy exists and is
\* not to be deleted.
InvokedRunning ==
    /\ invoked = {running} \cap Proxies
    /\ \A p \in invoked : state[p] = "live" /\ p \notin doomed

OwnerInv ==
    /\ OwnerDisconnects
    /\ CallEnabled
    /\ DoomedDisabled
    /\ InvokedRunning
=============================================================================
