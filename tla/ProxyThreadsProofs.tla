------------------------- MODULE ProxyThreadsProofs -------------------------
(***************************************************************************)
(* Proofs about ProxyThreads for any number of threads and proxies, any    *)
(* bound on the posted calls and any habits of the application.            *)
(*                                                                         *)
(* IInv is inductive by itself.  Its heart is FreshUnshared: a proxy is    *)
(* known to its creator only until the mutex protects the hash that makes  *)
(* it known to others; what is then in the hash exists because only the    *)
(* thread Owner deletes a proxy, and takes it out of the hash first.       *)
(* OwnerInv is inductive relative to IInv when only Owner disconnects.     *)
(***************************************************************************)
EXTENDS ProxyThreads, TLAPS

USE OwnerAssumption, ProxiesAssumption, HabitsAssumption

-----------------------------------------------------------------------------
\* connect(): the new proxy gets into the hash.
LEMMA ConnectSteps ==
    ASSUME IInv, NEW th \in Threads,
           \/ Connect(th) \/ SaveSlot(th) \/ LockToInsert(th)
           \/ Insert(th) \/ Made(th) \/ Join(th)
           \/ Joined(th)
    PROVE  IInv'
<1> USE DEF Goto, IInv, TypeOK, LocksHeld, WalkersCollect, RefersToProxy,
        UnusedUntouched, FreshUnshared, HashedExist, DyingGone, Dying,
        OwnerRefValid, Making, Referring, PCs, GilPCs, MutexPCs, AwaitGilPCs,
        AwaitMutexPCs, objects
<1>1. CASE Connect(th)
  BY <1>1 DEF Connect, DropGil
<1>2. CASE SaveSlot(th)
  BY <1>2 DEF SaveSlot, PassGil
<1>3. CASE LockToInsert(th)
  BY <1>3 DEF LockToInsert, TakeMutex
<1>4. CASE Insert(th)
  BY <1>4 DEF Insert, DropMutex
<1>5. CASE Made(th)
  BY <1>5 DEF Made, PassGil
<1>6. CASE Join(th)
  BY <1>6 DEF Join
<1>7. CASE Joined(th)
  BY <1>7 DEF Joined, TakeGil
<1> QED
  BY <1>1, <1>2, <1>3, <1>4, <1>5, <1>6, <1>7

\* disconnect(): a proxy in the hash exists, and Owner cannot delete it before
\* it returns to its event loop.
LEMMA DisconnectSteps ==
    ASSUME IInv, NEW th \in Threads,
           \/ Disconnect(th) \/ LockToFind(th) \/ FindNone(th)
           \/ Found(th) \/ Cut(th) \/ DisableFound(th)
           \/ DisconnectAll(th) \/ AllCut(th) \/ LockForAll(th)
           \/ DeleteSlotProxies(th)
    PROVE  IInv'
<1> USE DEF Goto, IInv, TypeOK, LocksHeld, WalkersCollect, RefersToProxy,
        UnusedUntouched, FreshUnshared, HashedExist, DyingGone, Dying,
        OwnerRefValid, Making, Referring, PCs, GilPCs, MutexPCs, AwaitGilPCs,
        AwaitMutexPCs, objects
<1>1. CASE Disconnect(th)
  BY <1>1 DEF Disconnect
<1>2. CASE LockToFind(th)
  BY <1>2 DEF LockToFind, TakeMutex
<1>3. CASE FindNone(th)
  BY <1>3 DEF FindNone, DropMutex
<1>4. CASE Found(th)
  BY <1>4 DEF Found, DropMutex, DropGil
<1>5. CASE Cut(th)
  BY <1>5 DEF Cut
<1>6. CASE DisableFound(th)
  BY <1>6 DEF DisableFound, TakeGil, Disable
<1>7. CASE DisconnectAll(th)
  BY <1>7 DEF DisconnectAll, DropGil
<1>8. CASE AllCut(th)
  BY <1>8 DEF AllCut, TakeGil
<1>9. CASE LockForAll(th)
  BY <1>9 DEF LockForAll, TakeMutex
<1>10. CASE DeleteSlotProxies(th)
  BY <1>10 DEF DeleteSlotProxies, DropMutex, Disable
<1> QED
  BY <1>1, <1>2, <1>3, <1>4, <1>5, <1>6, <1>7, <1>8, <1>9, <1>10

\* Python code, the garbage collector, and the transmitter.
LEMMA PythonSteps ==
    ASSUME IInv, NEW th \in Threads,
           \/ EnterPython(th) \/ LeavePython(th) \/ Walk(th)
           \/ Walked(th) \/ Emit(th) \/ DestroyTx(th)
    PROVE  IInv'
<1> USE DEF Goto, IInv, TypeOK, LocksHeld, WalkersCollect, RefersToProxy,
        UnusedUntouched, FreshUnshared, HashedExist, DyingGone, Dying,
        OwnerRefValid, Making, Referring, PCs, GilPCs, MutexPCs, AwaitGilPCs,
        AwaitMutexPCs, objects
<1>1. CASE EnterPython(th)
  BY <1>1 DEF EnterPython, TakeGil
<1>2. CASE LeavePython(th)
  BY <1>2 DEF LeavePython, DropGil
<1>3. CASE Walk(th)
  BY <1>3 DEF Walk, May
<1>4. CASE Walked(th)
  BY <1>4 DEF Walked
<1>5. CASE Emit(th)
  BY <1>5 DEF Emit
<1>6. CASE DestroyTx(th)
  <2>1. \A other \in Threads : pc[other] \notin Making /\ pc'[other] \notin Making
    BY <1>6 DEF DestroyTx
  <2>2. UnusedUntouched'
    BY <1>6 DEF DestroyTx
  <2>3. FreshUnshared'
    BY <2>1
  <2>4. TypeOK' /\ LocksHeld'
    BY <1>6 DEF DestroyTx
  <2>5. WalkersCollect' /\ RefersToProxy' /\ HashedExist' /\ DyingGone' /\ OwnerRefValid'
    BY <1>6 DEF DestroyTx
  <2> QED
    BY <2>2, <2>3, <2>4, <2>5
<1> QED
  BY <1>1, <1>2, <1>3, <1>4, <1>5, <1>6

\* The event loop of Owner that goes on.
LEMMA OwnerSteps ==
    ASSUME IInv,
           \/ BeginSlot \/ EndSlot \/ LockToErase
           \/ Erase \/ EndDtor
    PROVE  IInv'
<1> USE DEF Goto, IInv, TypeOK, LocksHeld, WalkersCollect, RefersToProxy,
        UnusedUntouched, FreshUnshared, HashedExist, DyingGone, Dying,
        OwnerRefValid, Making, Referring, PCs, GilPCs, MutexPCs, AwaitGilPCs,
        AwaitMutexPCs, objects
<1>1. CASE BeginSlot
  BY <1>1 DEF BeginSlot, TakeGil
<1>2. CASE EndSlot
  BY <1>2 DEF EndSlot, DropGil
<1>3. CASE LockToErase
  BY <1>3 DEF LockToErase, TakeMutex
<1>4. CASE Erase
  BY <1>4 DEF Erase, DropMutex
<1>5. CASE EndDtor
  BY <1>5 DEF EndDtor, PassGil
<1> QED
  BY <1>1, <1>2, <1>3, <1>4, <1>5

\* The event loop of Owner that gets an event.
LEMMA DeliverSteps ==
    ASSUME IInv,
           \/ (\E p \in Proxies : HandleCall(p)) \/ (\E p \in Proxies : HandleDisable(p)) \/ (\E p \in Proxies : BeginDtor(p))
    PROVE  IInv'
<1> USE DEF Goto, IInv, TypeOK, LocksHeld, WalkersCollect, RefersToProxy,
        UnusedUntouched, FreshUnshared, HashedExist, DyingGone, Dying,
        OwnerRefValid, Making, Referring, PCs, GilPCs, MutexPCs, AwaitGilPCs,
        AwaitMutexPCs, objects
<1>1. CASE (\E p \in Proxies : HandleCall(p))
  BY <1>1 DEF HandleCall
<1>2. CASE (\E p \in Proxies : HandleDisable(p))
  BY <1>2 DEF HandleDisable, Disable
<1>3. CASE (\E p \in Proxies : BeginDtor(p))
  BY <1>3 DEF BeginDtor
<1> QED
  BY <1>1, <1>2, <1>3

-----------------------------------------------------------------------------
\* Every step of every thread preserves IInv.
LEMMA Inductive == IInv /\ [Next]_vars => IInv'
<1> SUFFICES ASSUME IInv, [Next]_vars PROVE IInv'
  OBVIOUS
<1>1. CASE UNCHANGED vars
  BY <1>1 DEF vars, objects, IInv, TypeOK, LocksHeld, WalkersCollect,
       RefersToProxy, UnusedUntouched, FreshUnshared, HashedExist, DyingGone,
       Dying, OwnerRefValid
<1>2. CASE \E th \in Threads : Start(th) \/ Continue(th)
  BY <1>2, ConnectSteps, DisconnectSteps, PythonSteps, OwnerSteps
       DEF Start, Continue
<1>3. CASE Deliver
  BY <1>3, DeliverSteps DEF Deliver
<1>4. CASE EndSlot
  BY <1>4, OwnerSteps
<1> QED
  BY <1>1, <1>2, <1>3, <1>4 DEF Next

\* Nothing is connected when the module is imported.
LEMMA Initial == Init => IInv
BY DEF Init, IInv, TypeOK, LocksHeld, WalkersCollect, RefersToProxy,
       UnusedUntouched, FreshUnshared, HashedExist, DyingGone, Dying,
       OwnerRefValid, PCs, GilPCs, MutexPCs, Making, Referring

\* IInv, and with it the type invariant, holds whatever the threads do.
THEOREM ThreadsInvariance == Spec => []IInv
BY Initial, Inductive, PTL DEF Spec

\* No thread waits for the GIL with the mutex while the holder of the GIL waits
\* for the mutex: the locks of qpycore_pyqtslotproxy.cpp:85-87, 102-116,
\* 260-278 and 316-336 cannot deadlock.
THEOREM MutualWaitFree == Spec => []NoMutualWait
<1>1. IInv => NoMutualWait
  BY DEF IInv, LocksHeld, NoMutualWait, MutexPCs, AwaitGilPCs
<1> QED
  BY <1>1, ThreadsInvariance, PTL

\* Without visits of the garbage collector the mutex does protect the hash
\* (qpycore_pyqtslotproxy.h:80).
THEOREM HashProtected ==
    ASSUME "collect" \notin Habits
    PROVE  Spec => []NoHashRace
<1>1. IInv => NoHashRace
  BY DEF IInv, LocksHeld, WalkersCollect, NoHashRace, MutexPCs, WritePCs, ReadPCs
<1> QED
  BY <1>1, ThreadsInvariance, PTL

\* The pointers to proxies that Owner keeps while it does not hold the GIL are
\* valid, whatever the other threads disconnect.
THEOREM OwnerPointers == Spec => []OwnerRefValid
<1>1. IInv => OwnerRefValid
  BY DEF IInv
<1> QED
  BY <1>1, ThreadsInvariance, PTL

-----------------------------------------------------------------------------
(* When only Owner disconnects.                                             *)

\* The steps of connect(), disconnect(), Python code and destructors.
LEMMA OwnerInvOperations ==
    ASSUME "disconnect" \notin Habits, IInv, OwnerInv,
           NEW th \in Threads, Start(th) \/ Continue(th)
    PROVE  OwnerInv'
<1> USE DEF Goto, OwnerInv, OwnerDisconnects, CallEnabled, DoomedDisabled,
        InvokedRunning, Disconnecting, objects
<1>0. /\ TypeOK /\ OwnerRefValid /\ FreshUnshared /\ UnusedUntouched
      /\ RefersToProxy /\ DyingGone
  BY DEF IInv
<1>1. CASE \/ EnterPython(th) \/ LeavePython(th) \/ Walk(th) \/ Walked(th)
           \/ Emit(th) \/ DestroyTx(th)
  BY <1>0, <1>1 DEF TypeOK, EnterPython, LeavePython, Walk, Walked, Emit,
     DestroyTx
<1>2. CASE Connect(th)
  BY <1>0, <1>2 DEF TypeOK, Connect
<1>3. CASE \/ SaveSlot(th) \/ LockToInsert(th) \/ Insert(th) \/ Made(th)
           \/ Join(th) \/ Joined(th)
  BY <1>0, <1>3 DEF TypeOK, SaveSlot, LockToInsert, Insert, Made, Join, Joined
<1>4. CASE Disconnect(th) \/ DisconnectAll(th)
  BY <1>0, <1>4 DEF TypeOK, Disconnect, DisconnectAll, May
<1>5. CASE \/ LockToFind(th) \/ FindNone(th) \/ Found(th) \/ Cut(th)
           \/ AllCut(th) \/ LockForAll(th)
  BY <1>0, <1>5 DEF TypeOK, LockToFind, FindNone, Found, Cut, AllCut, LockForAll
<1>6. CASE DisableFound(th) \/ DeleteSlotProxies(th)
  BY <1>0, <1>6 DEF TypeOK, DisableFound, DeleteSlotProxies, Disable
<1>7. CASE th = Owner /\ BeginSlot
  BY <1>0, <1>7 DEF TypeOK, BeginSlot, OwnerRefValid, RefersToProxy, Referring
<1>8. CASE th = Owner /\ (LockToErase \/ Erase \/ EndDtor)
  BY <1>0, <1>8 DEF TypeOK, LockToErase, Erase, EndDtor, DyingGone
<1> QED
  BY <1>1, <1>2, <1>3, <1>4, <1>5, <1>6, <1>7, <1>8 DEF Start, Continue

\* The events that Owner gets, and the return of its slot.
LEMMA OwnerInvEvents ==
    ASSUME IInv, OwnerInv, Deliver \/ EndSlot
    PROVE  OwnerInv'
<1> USE DEF Goto, OwnerInv, OwnerDisconnects, CallEnabled, DoomedDisabled,
        InvokedRunning, Disconnecting
<1>0. TypeOK
  BY DEF IInv
<1>1. CASE \E p \in Proxies : HandleCall(p)
  BY <1>0, <1>1 DEF TypeOK, HandleCall
<1>2. CASE \E p \in Proxies : HandleDisable(p)
  BY <1>0, <1>2 DEF TypeOK, HandleDisable, Disable
<1>3. CASE \E p \in Proxies : BeginDtor(p)
  BY <1>0, <1>3 DEF TypeOK, BeginDtor
<1>4. CASE EndSlot
  BY <1>0, <1>4 DEF TypeOK, EndSlot
<1> QED
  BY <1>1, <1>2, <1>3, <1>4 DEF Deliver

LEMMA OwnerInvHolds ==
    ASSUME "disconnect" \notin Habits
    PROVE  Spec => []OwnerInv
<1>1. Init => OwnerInv
  BY ProxiesAssumption DEF Init, OwnerInv, OwnerDisconnects, CallEnabled,
     DoomedDisabled, InvokedRunning, Disconnecting
<1>2. IInv /\ OwnerInv /\ [Next]_vars => OwnerInv'
  <2> SUFFICES ASSUME IInv, OwnerInv, [Next]_vars PROVE OwnerInv'
    OBVIOUS
  <2>1. CASE UNCHANGED vars
    BY <2>1 DEF vars, objects, OwnerInv, OwnerDisconnects, CallEnabled,
       DoomedDisabled, InvokedRunning
  <2> QED
    BY <2>1, OwnerInvOperations, OwnerInvEvents DEF Next
<1> QED
  BY <1>1, <1>2, ThreadsInvariance, PTL DEF Spec

\* When only the thread that owns the proxies disconnects, the assertion of
\* the destructor (qpycore_pyqtslotproxy.cpp:98) cannot fail, whatever the
\* other threads connect, emit, collect or destroy.
THEOREM DestructorAssertHolds ==
    ASSUME "disconnect" \notin Habits
    PROVE  Spec => []DestructorAssert
<1>1. OwnerInv => DestructorAssert
  BY DEF OwnerInv, InvokedRunning, DestructorAssert
<1> QED
  BY <1>1, OwnerInvHolds, PTL
=============================================================================
