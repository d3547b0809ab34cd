--------------------------- MODULE DBusLoopProofs ---------------------------
(***************************************************************************)
(* Proofs about DBusLoop: the notifiers and timers of the helper mirror    *)
(* the watches and timeouts of libdbus, for any number of connections,     *)
(* servers, watches and timeouts and whatever libdbus does while the       *)
(* helper is handling one.                                                 *)
(***************************************************************************)
EXTENDS DBusLoop, TLAPS

USE WatchesAssumption, HabitsAssumption DEF Dirs, libdbus, mirror, data

\* What libdbus and Python do to the mirror.
LEMMA CallbackSteps == ASSUME MirrorInv, Callback PROVE MirrorInv'
<1> USE DEF MirrorInv
<1>1. ASSUME NEW o \in Conns \cup Servers, SetUp(o) PROVE MirrorInv'
  <2>1. TypeOK'
    BY <1>1 DEF TypeOK, SetUp
  <2>2. NotifiersFollow' /\ Handling'
    BY <1>1 DEF TypeOK, NotifiersFollow, Handling, SetUp
  <2>3. TimersFollow'
    BY <1>1 DEF TimersFollow, SetUp
  <2> QED
    BY <2>1, <2>2, <2>3
<1>2. ASSUME NEW w \in Watches, NEW enabled \in BOOLEAN, AddWatch(w, enabled)
      PROVE  MirrorInv'
  <2>1. TypeOK'
    BY <1>2 DEF TypeOK, AddWatch, Notifiers
  <2>2. NotifiersFollow' /\ Handling'
    BY <1>2 DEF TypeOK, NotifiersFollow, Handling, AddWatch, Notifiers
  <2>3. TimersFollow'
    BY <1>2 DEF TimersFollow, AddWatch, Notifiers
  <2> QED
    BY <2>1, <2>2, <2>3
<1>3. ASSUME NEW w \in Watches, RemoveWatch(w) PROVE MirrorInv'
  <2>1. TypeOK'
    BY <1>3 DEF TypeOK, RemoveWatch, Notifiers
  <2>2. NotifiersFollow' /\ Handling'
    BY <1>3 DEF TypeOK, NotifiersFollow, Handling, RemoveWatch, Notifiers
  <2>3. TimersFollow'
    BY <1>3 DEF TimersFollow, RemoveWatch, Notifiers
  <2> QED
    BY <2>1, <2>2, <2>3
<1>4. ASSUME NEW w \in Watches, ToggleWatch(w) PROVE MirrorInv'
  <2>1. TypeOK'
    BY <1>4 DEF TypeOK, ToggleWatch, Notifiers
  <2>2. NotifiersFollow' /\ Handling'
    BY <1>4 DEF TypeOK, NotifiersFollow, Handling, ToggleWatch, Notifiers
  <2>3. TimersFollow'
    BY <1>4 DEF TimersFollow, ToggleWatch, Notifiers
  <2> QED
    BY <2>1, <2>2, <2>3
<1>5. ASSUME NEW t \in Timeouts, NEW enabled \in BOOLEAN,
             AddTimeout(t, enabled)
      PROVE  MirrorInv'
  <2>1. TypeOK'
    <3>1. timeout' \in [Timeouts -> {"none", "on", "off"}]
      BY <1>5, Zenon DEF TypeOK, AddTimeout
    <3>2. timers' \in [Timeouts -> Nat]
      BY <1>5 DEF TypeOK, AddTimeout
    <3> QED
      BY <1>5, <3>1, <3>2 DEF TypeOK, AddTimeout
  <2>2. NotifiersFollow' /\ Handling'
    BY <1>5 DEF TypeOK, NotifiersFollow, Handling, AddTimeout
  <2>3. TimersFollow'
    BY <1>5 DEF TypeOK, TimersFollow, AddTimeout
  <2> QED
    BY <2>1, <2>2, <2>3
<1>6. ASSUME NEW t \in Timeouts, RemoveTimeout(t) PROVE MirrorInv'
  <2>1. TypeOK'
    BY <1>6 DEF TypeOK, RemoveTimeout
  <2>2. NotifiersFollow' /\ Handling'
    BY <1>6 DEF TypeOK, NotifiersFollow, Handling, RemoveTimeout
  <2>3. TimersFollow'
    BY <1>6 DEF TypeOK, TimersFollow, RemoveTimeout
  <2> QED
    BY <2>1, <2>2, <2>3
<1>7. ASSUME NEW t \in Timeouts, ToggleTimeout(t) PROVE MirrorInv'
  <2>1. TypeOK'
    <3>1. timeout' \in [Timeouts -> {"none", "on", "off"}]
      BY <1>7, Zenon DEF TypeOK, ToggleTimeout
    <3>2. timers' \in [Timeouts -> Nat]
      BY <1>7 DEF TypeOK, ToggleTimeout
    <3> QED
      BY <1>7, <3>1, <3>2 DEF TypeOK, ToggleTimeout
  <2>2. NotifiersFollow' /\ Handling'
    BY <1>7 DEF TypeOK, NotifiersFollow, Handling, ToggleTimeout
  <2>3. TimersFollow'
    <3> SUFFICES ASSUME NEW s \in Timeouts
                 PROVE  /\ timers'[s] <= (IF timeout'[s] = "on" THEN 1 ELSE 0)
                        /\ app /\ s \notin Failing /\ timeout'[s] = "on"
                           => timers'[s] = 1
      BY <1>7 DEF TimersFollow, ToggleTimeout
    <3>1. CASE s = t
      BY <1>7, <3>1 DEF TypeOK, ToggleTimeout
    <3>2. CASE s # t
      <4>1. timers'[s] = timers[s] /\ timeout'[s] = timeout[s]
        BY <1>7, <3>2 DEF TypeOK, ToggleTimeout
      <4> QED
        BY <4>1 DEF TimersFollow
    <3> QED
      BY <3>1, <3>2
  <2> QED
    BY <2>1, <2>2, <2>3
<1>8. ASSUME NEW c \in Conns, Queue(c) PROVE MirrorInv'
  <2>1. TypeOK'
    BY <1>8 DEF TypeOK, Queue
  <2>2. NotifiersFollow' /\ Handling'
    BY <1>8 DEF TypeOK, NotifiersFollow, Handling, Queue
  <2>3. TimersFollow'
    BY <1>8 DEF TimersFollow, Queue
  <2> QED
    BY <2>1, <2>2, <2>3
<1> QED
  BY <1>1, <1>2, <1>3, <1>4, <1>5, <1>6, <1>7, <1>8 DEF Callback

\* Qt calls the helper.
LEMMA LoopSteps == ASSUME MirrorInv, Loop PROVE MirrorInv'
<1> USE DEF MirrorInv
<1>1. ASSUME NEW w \in Watches, ReadSocket(w) PROVE MirrorInv'
  <2>1. TypeOK'
    BY <1>1 DEF TypeOK, ReadSocket
  <2>2. NotifiersFollow' /\ Handling'
    BY <1>1 DEF TypeOK, NotifiersFollow, Handling, ReadSocket
  <2>3. TimersFollow'
    BY <1>1 DEF TimersFollow, ReadSocket
  <2> QED
    BY <2>1, <2>2, <2>3
<1>2. ASSUME NEW w \in Watches, WriteSocket(w) PROVE MirrorInv'
  <2>1. TypeOK'
    BY <1>2 DEF TypeOK, WriteSocket
  <2>2. NotifiersFollow' /\ Handling'
    BY <1>2 DEF TypeOK, NotifiersFollow, Handling, WriteSocket
  <2>3. TimersFollow'
    BY <1>2 DEF TimersFollow, WriteSocket
  <2> QED
    BY <2>1, <2>2, <2>3
<1>3. ASSUME Wakeup PROVE MirrorInv'
  <2>1. TypeOK'
    BY <1>3 DEF TypeOK, Wakeup
  <2>2. NotifiersFollow' /\ Handling'
    BY <1>3 DEF TypeOK, NotifiersFollow, Handling, Wakeup
  <2>3. TimersFollow'
    BY <1>3 DEF TimersFollow, Wakeup
  <2> QED
    BY <2>1, <2>2, <2>3
<1>4. ASSUME NEW t \in Timeouts, TimerEvent(t) PROVE MirrorInv'
  <2>1. TypeOK'
    BY <1>4 DEF TypeOK, TimerEvent
  <2>2. NotifiersFollow' /\ Handling'
    BY <1>4 DEF TypeOK, NotifiersFollow, Handling, TimerEvent
  <2>3. TimersFollow'
    BY <1>4 DEF TimersFollow, TimerEvent
  <2> QED
    BY <2>1, <2>2, <2>3
<1> QED
  BY <1>1, <1>2, <1>3, <1>4 DEF Loop

\* The helper goes on after libdbus has returned.
LEMMA ContinueSteps == ASSUME MirrorInv, Continue PROVE MirrorInv'
<1> USE DEF MirrorInv
<1>1. ASSUME ReadDone PROVE MirrorInv'
  <2>1. TypeOK'
    BY <1>1 DEF TypeOK, Handling, ReadDone
  <2>2. NotifiersFollow' /\ Handling'
    BY <1>1 DEF TypeOK, NotifiersFollow, Handling, ReadDone
  <2>3. TimersFollow'
    BY <1>1 DEF TimersFollow, ReadDone
  <2> QED
    BY <2>1, <2>2, <2>3
<1>2. ASSUME WriteDone PROVE MirrorInv'
  <2>1. TypeOK'
    BY <1>2 DEF TypeOK, Handling, WriteDone
  <2>2. NotifiersFollow' /\ Handling'
    BY <1>2 DEF TypeOK, NotifiersFollow, Handling, WriteDone
  <2>3. TimersFollow'
    BY <1>2 DEF TimersFollow, WriteDone
  <2> QED
    BY <2>1, <2>2, <2>3
<1>3. ASSUME TimerDone PROVE MirrorInv'
  <2>1. TypeOK'
    BY <1>3 DEF TypeOK, Handling, TimerDone
  <2>2. NotifiersFollow' /\ Handling'
    BY <1>3 DEF TypeOK, NotifiersFollow, Handling, TimerDone
  <2>3. TimersFollow'
    BY <1>3 DEF TimersFollow, TimerDone
  <2> QED
    BY <2>1, <2>2, <2>3
<1>4. ASSUME Dispatch PROVE MirrorInv'
  <2>1. TypeOK'
    BY <1>4 DEF TypeOK, Dispatch
  <2>2. NotifiersFollow' /\ Handling'
    BY <1>4 DEF TypeOK, NotifiersFollow, Handling, Dispatch
  <2>3. TimersFollow'
    BY <1>4 DEF TimersFollow, Dispatch
  <2> QED
    BY <2>1, <2>2, <2>3
<1>5. ASSUME NextConn PROVE MirrorInv'
  <2>1. TypeOK'
    BY <1>5 DEF TypeOK, NextConn
  <2>2. NotifiersFollow' /\ Handling'
    BY <1>5 DEF TypeOK, NotifiersFollow, Handling, NextConn
  <2>3. TimersFollow'
    BY <1>5 DEF TimersFollow, NextConn
  <2> QED
    BY <2>1, <2>2, <2>3
<1>6. ASSUME Dispatched PROVE MirrorInv'
  <2>1. TypeOK'
    BY <1>6 DEF TypeOK, Dispatched
  <2>2. NotifiersFollow' /\ Handling'
    BY <1>6 DEF TypeOK, NotifiersFollow, Handling, Dispatched
  <2>3. TimersFollow'
    BY <1>6 DEF TimersFollow, Dispatched
  <2> QED
    BY <2>1, <2>2, <2>3
<1> QED
  BY <1>1, <1>2, <1>3, <1>4, <1>5, <1>6 DEF Continue

-----------------------------------------------------------------------------
\* Nothing is set up when the helper is created.
LEMMA Initial == Init => MirrorInv
BY DEF Init, MirrorInv, TypeOK, NotifiersFollow, TimersFollow, Handling

\* Every step of libdbus, of the loop and of the helper preserves MirrorInv.
LEMMA Inductive == MirrorInv /\ [Next]_vars => MirrorInv'
<1> SUFFICES ASSUME MirrorInv, [Next]_vars PROVE MirrorInv'
  OBVIOUS
<1>1. ASSUME NEW o \in Conns \cup Servers, Arrive(o) PROVE MirrorInv'
  BY <1>1 DEF Arrive, MirrorInv, TypeOK, NotifiersFollow, TimersFollow, Handling
<1>2. ASSUME StopApp PROVE MirrorInv'
  BY <1>2 DEF StopApp, MirrorInv, TypeOK, NotifiersFollow, TimersFollow, Handling
<1>3. ASSUME UNCHANGED vars PROVE MirrorInv'
  BY <1>3 DEF vars, MirrorInv, TypeOK, NotifiersFollow,
              TimersFollow, Handling
<1> QED
  BY <1>1, <1>2, <1>3, CallbackSteps, LoopSteps, ContinueSteps DEF Next

\* MirrorInv holds whatever libdbus does, the removal of a watch that is being
\* handled and timers that cannot be started included.
THEOREM MirrorInvariance == Spec => []MirrorInv
BY Initial, Inductive, PTL DEF Spec

\* An enabled watch has its notifiers enabled but for the one that is being
\* handled, and a removed watch has none (dbus.cpp:37-131, 265-316).
THEOREM NotifiersMirror == Spec => []NotifiersFollow
<1>1. MirrorInv => NotifiersFollow
  BY DEF MirrorInv
<1> QED
  BY <1>1, MirrorInvariance, PTL

\* A timeout has one timer while it is enabled and none otherwise
\* (dbus.cpp:134-186).
THEOREM TimersMirror == Spec => []TimersFollow
<1>1. MirrorInv => TimersFollow
  BY DEF MirrorInv
<1> QED
  BY <1>1, MirrorInvariance, PTL
=============================================================================
