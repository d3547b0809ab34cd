------------------------------ MODULE DBusLoop ------------------------------
(***************************************************************************)
(* The Qt event loop as the main loop of dbus-python (dbus/dbus.cpp): the  *)
(* helper object that mirrors libdbus's watches as socket notifiers and    *)
(* its timeouts as timers, and dispatches the messages of connections.     *)
(*                                                                         *)
(* libdbus is modelled from how the helper uses it: it may add, remove or  *)
(* toggle a watch or a timeout whenever it runs, also while it handles a   *)
(* watch or a timeout, or dispatches a message to a Python handler.  All   *)
(* of it happens in one thread.  The peer of a connection is its socket:   *)
(* a connection or server stands for its file descriptor as well.          *)
(***************************************************************************)
EXTENDS Naturals, Sequences, FiniteSets

CONSTANTS
    Conns,       \* DBusConnections
    Servers,     \* DBusServers
    Watches,     \* DBusWatches
    NoWatch,
    Fd,          \* the connection or server each watch belongs to
    Flags,       \* its DBUS_WATCH_READABLE and DBUS_WATCH_WRITABLE
    Timeouts,    \* DBusTimeouts
    Failing,     \* the timeouts whose startTimer() may fail
    MaxInbox,    \* bound: messages of a connection not dispatched yet
    MaxWakeups,  \* bound: single shot timers to call dispatch()
    Habits       \* what libdbus does, see HabitNames

Dirs == {"read", "write"}
HabitNames == { "removeHandled" }  \* a watch is removed while it is handled

ASSUME WatchesAssumption ==
    /\ NoWatch \notin Watches
    /\ Fd \in [Watches -> Conns \cup Servers]
    /\ Flags \in [Watches -> SUBSET Dirs]
ASSUME TimeoutsAssumption == Failing \subseteq Timeouts
ASSUME BoundsAssumption == MaxInbox \in Nat /\ MaxWakeups \in Nat
ASSUME HabitsAssumption == Habits \subseteq HabitNames

VARIABLES
    app,        \* QCoreApplication::instance() exists
    watch,      \* libdbus's watches
    timeout,    \* libdbus's timeouts
    up,         \* the connections and servers that have their functions set
    conns,      \* hlp->connections
    watchers,   \* hlp->watchers: the watches that have an entry
    notifying,  \* the notifiers of these that are enabled
    timers,     \* the timers that hlp->timeouts has for each timeout
    readable,   \* sockets with data to read
    inbox,      \* messages of each connection not dispatched yet
    wakeups,    \* pending calls of dispatch()
    pc,         \* what the helper is doing
    ref,        \* the entry it refers to over dbus_watch_handle(), by watch
    at          \* the connection it is dispatching, a position in conns

libdbus == <<watch, timeout>>
mirror == <<watchers, notifying, timers>>
data == <<readable, inbox, wakeups>>
vars == <<app, libdbus, up, conns, mirror, data, pc, ref, at>>

TypeOK ==
    /\ app \in BOOLEAN
    /\ watch \in [Watches -> {"none", "on", "off"}]
    /\ timeout \in [Timeouts -> {"none", "on", "off"}]
    /\ up \subseteq Conns \cup Servers
    /\ conns \in Seq(Conns)
    /\ watchers \subseteq Watches
    /\ notifying \subseteq Watches \X Dirs
    /\ timers \in [Timeouts -> Nat]
    /\ readable \subseteq Conns \cup Servers
    /\ inbox \in [Conns -> Nat]
    /\ wakeups \in Nat
    /\ pc \in {"loop", "read", "write", "dispatch", "timer"}
    /\ ref \in Watches \cup {NoWatch}
    /\ at \in Nat \ {0}

Init ==
    /\ app = TRUE
    /\ watch = [w \in Watches |-> "none"]
    /\ timeout = [t \in Timeouts |-> "none"]
    /\ up = {} /\ conns = << >>
    /\ watchers = {} /\ notifying = {}
    /\ timers = [t \in Timeouts |-> 0]
    /\ readable = {}
    /\ inbox = [c \in Conns |-> 0]
    /\ wakeups = 0
    /\ pc = "loop" /\ ref = NoWatch /\ at = 1

-----------------------------------------------------------------------------
(* Callbacks of libdbus.                                                   *)

Notifiers(w) == {w} \X Flags[w]

\* dbus_qt_conn() and dbus_qt_srv().  (Appending to the list that dispatch()
\* is iterating over is left out.)
SetUp(o) ==
    /\ o \notin up
    /\ o \in Conns => pc # "dispatch"
    /\ up' = up \cup {o}
    /\ conns' = IF o \in Conns THEN Append(conns, o) ELSE conns
    /\ UNCHANGED <<app, libdbus, mirror, data, pc, ref, at>>

AddWatch(w, enabled) ==
    /\ Fd[w] \in up
    /\ watch[w] = "none"
    /\ watch' = [watch EXCEPT ![w] = IF enabled THEN "on" ELSE "off"]
    /\ watchers' = watchers \cup {w}
    /\ notifying' = IF enabled THEN notifying \cup Notifiers(w) ELSE notifying
    /\ UNCHANGED <<app, timeout, up, conns, timers, data, pc, ref, at>>

\* A fault: the notifiers of every watch of the descriptor are deleted.
RemoveWatchAll(w) ==
    /\ watch[w] # "none"
    /\ w = ref => "removeHandled" \in Habits
    /\ watch' = [watch EXCEPT ![w] = "none"]
    /\ watchers' = watchers \ {w}
    /\ notifying' = {n \in notifying : Fd[n[1]] # Fd[w]}
    /\ ref' = IF w = ref THEN NoWatch ELSE ref
    /\ UNCHANGED <<app, timeout, up, conns, timers, data, pc, at>>

\* remove_watch() deletes the notifiers of the entry, then erases it.
RemoveWatch(w) ==
    /\ watch[w] # "none"
    /\ w = ref => "removeHandled" \in Habits
    /\ watch' = [watch EXCEPT ![w] = "none"]
    /\ watchers' = watchers \ {w}
    /\ notifying' = notifying \ Notifiers(w)
    /\ ref' = IF w = ref THEN NoWatch ELSE ref
    /\ UNCHANGED <<app, timeout, up, conns, timers, data, pc, at>>

ToggleWatch(w) ==
    /\ \/ /\ watch[w] = "off"
          /\ watch' = [watch EXCEPT ![w] = "on"]
          /\ notifying' = notifying \cup Notifiers(w)
       \/ /\ watch[w] = "on"
          /\ watch' = [watch EXCEPT ![w] = "off"]
          /\ notifying' = notifying \ Notifiers(w)
    /\ UNCHANGED <<app, timeout, up, conns, watchers, timers, data, pc, ref,
                   at>>

\* add_timeout() does nothing for a disabled timeout and pretends to be
\* successful if there is no application; otherwise it starts a timer or fails.
AddTimeout(t, enabled) ==
    /\ timeout[t] = "none"
    /\ \/ /\ ~enabled
          /\ timeout' = [timeout EXCEPT ![t] = "off"]
          /\ UNCHANGED timers
       \/ /\ enabled /\ ~app
          /\ timeout' = [timeout EXCEPT ![t] = "on"]
          /\ UNCHANGED timers
       \/ /\ enabled /\ app
          /\ timeout' = [timeout EXCEPT ![t] = "on"]
          /\ timers' = [timers EXCEPT ![t] = @ + 1]
       \/ /\ enabled /\ app /\ t \in Failing
          /\ UNCHANGED <<timeout, timers>>
    /\ UNCHANGED <<app, watch, up, conns, watchers, notifying, data, pc, ref,
                   at>>

RemoveTimeout(t) ==
    /\ timeout[t] # "none"
    /\ timeout' = [timeout EXCEPT ![t] = "none"]
    /\ timers' = [timers EXCEPT ![t] = 0]
    /\ UNCHANGED <<app, watch, up, conns, watchers, notifying, data, pc, ref,
                   at>>

\* remove_timeout() and add_timeout(), of which the result is ignored.
ToggleTimeout(t) ==
    /\ \/ /\ timeout[t] = "on"
          /\ timeout' = [timeout EXCEPT ![t] = "off"]
          /\ timers' = [timers EXCEPT ![t] = 0]
       \/ /\ timeout[t] = "off" /\ app
          /\ timeout' = [timeout EXCEPT ![t] = "on"]
          /\ timers' = [timers EXCEPT ![t] = 1]
       \/ /\ timeout[t] = "off" /\ (~app \/ t \in Failing)
          /\ timeout' = [timeout EXCEPT ![t] = "on"]
          /\ timers' = [timers EXCEPT ![t] = 0]
    /\ UNCHANGED <<app, watch, up, conns, watchers, notifying, data, pc, ref,
                   at>>

\* A message is queued by a blocking call or a timeout: wakeup_main().
Queue(c) ==
    /\ c \in up
    /\ inbox[c] < MaxInbox /\ wakeups < MaxWakeups
    /\ inbox' = [inbox EXCEPT ![c] = @ + 1]
    /\ wakeups' = wakeups + 1
    /\ UNCHANGED <<app, libdbus, up, conns, mirror, readable, pc, ref, at>>

-----------------------------------------------------------------------------
(* The event loop.                                                         *)

Arrive(o) ==
    /\ o \in up \ readable
    /\ readable' = readable \cup {o}
    /\ UNCHANGED <<app, libdbus, up, conns, mirror, inbox, wakeups, pc, ref, at>>

\* readSocket() disables the notifier of a watch and lets libdbus handle it,
\* which reads the rest of a message, several messages, or neither.
ReadSocket(w) ==
    /\ app /\ pc = "loop"
    /\ Fd[w] \in readable
    /\ <<w, "read">> \in notifying
    /\ notifying' = notifying \ {<<w, "read">>}
    /\ readable' = readable \ {Fd[w]}
    /\ \/ /\ Fd[w] \in Conns
          /\ \E n \in 1..MaxInbox :
               /\ inbox[Fd[w]] + n <= MaxInbox
               /\ inbox' = [inbox EXCEPT ![Fd[w]] = @ + n]
       \/ UNCHANGED inbox
    /\ pc' = "read"
    /\ ref' = w
    /\ UNCHANGED <<app, libdbus, up, conns, watchers, timers, wakeups, at>>

\* The notifier is enabled again, even if the watch has been disabled.  If the
\* entry has been erased what is read from it is undefined; what enabling the
\* ghost of a notifier would do to other objects is left out.
ReadDone ==
    /\ pc = "read"
    /\ notifying' = IF ref # NoWatch THEN notifying \cup {<<ref, "read">>}
                                     ELSE notifying
    /\ pc' = "dispatch" /\ at' = 1
    /\ ref' = NoWatch
    /\ UNCHANGED <<app, libdbus, up, conns, watchers, timers, data>>

\* writeSocket(): likewise, but without dispatch().  A socket can always be
\* written to.
WriteSocket(w) ==
    /\ app /\ pc = "loop"
    /\ <<w, "write">> \in notifying
    /\ notifying' = notifying \ {<<w, "write">>}
    /\ pc' = "write"
    /\ ref' = w
    /\ UNCHANGED <<app, libdbus, up, conns, watchers, timers, data, at>>

WriteDone ==
    /\ pc = "write"
    /\ notifying' = IF ref # NoWatch THEN notifying \cup {<<ref, "write">>}
                                     ELSE notifying
    /\ pc' = "loop"
    /\ ref' = NoWatch
    /\ UNCHANGED <<app, libdbus, up, conns, watchers, timers, data, at>>

\* The single shot timer of wakeup_main().
Wakeup ==
    /\ app /\ pc = "loop"
    /\ wakeups > 0
    /\ wakeups' = wakeups - 1
    /\ pc' = "dispatch" /\ at' = 1
    /\ UNCHANGED <<app, libdbus, up, conns, mirror, readable, inbox, ref>>

\* A fault: DBUS_DISPATCH_DATA_REMAINS is ignored, so that the next connection
\* gets its turn after a single message.
DispatchOnce ==
    /\ pc = "dispatch"
    /\ at <= Len(conns)
    /\ inbox[conns[at]] > 0
    /\ inbox' = [inbox EXCEPT ![conns[at]] = @ - 1]
    /\ at' = at + 1
    /\ UNCHANGED <<app, libdbus, up, conns, mirror, readable, wakeups, pc, ref>>

\* A message is handled, and there may be more (DBUS_DISPATCH_DATA_REMAINS).
Dispatch ==
    /\ pc = "dispatch"
    /\ at <= Len(conns)
    /\ inbox[conns[at]] > 0
    /\ inbox' = [inbox EXCEPT ![conns[at]] = @ - 1]
    /\ UNCHANGED <<app, libdbus, up, conns, mirror, readable, wakeups, pc, ref,
                   at>>

NextConn ==
    /\ pc = "dispatch"
    /\ at <= Len(conns)
    /\ inbox[conns[at]] = 0
    /\ at' = at + 1
    /\ UNCHANGED <<app, libdbus, up, conns, mirror, data, pc, ref>>

Dispatched ==
    /\ pc = "dispatch"
    /\ at > Len(conns)
    /\ pc' = "loop" /\ at' = 1
    /\ UNCHANGED <<app, libdbus, up, conns, mirror, data, ref>>

\* timerEvent().  The timer goes on.
TimerEvent(t) ==
    /\ app /\ pc = "loop"
    /\ timers[t] > 0
    /\ pc' = "timer"
    /\ UNCHANGED <<app, libdbus, up, conns, mirror, data, ref, at>>

TimerDone ==
    /\ pc = "timer"
    /\ pc' = "loop"
    /\ UNCHANGED <<app, libdbus, up, conns, mirror, data, ref, at>>

\* The application object is destroyed, and with it the loop.
StopApp ==
    /\ app /\ pc = "loop"
    /\ app' = FALSE
    /\ UNCHANGED <<libdbus, up, conns, mirror, data, pc, ref, at>>

-----------------------------------------------------------------------------
Callback ==
    \/ \E o \in Conns \cup Servers : SetUp(o)
    \/ \E w \in Watches : \/ \E enabled \in BOOLEAN : AddWatch(w, enabled)
                          \/ RemoveWatch(w)
                          \/ ToggleWatch(w)
    \/ \E t \in Timeouts : \/ \E enabled \in BOOLEAN : AddTimeout(t, enabled)
                           \/ RemoveTimeout(t)
                           \/ ToggleTimeout(t)
    \/ \E c \in Conns : Queue(c)

\* The helper goes on with what it is doing.
Continue == \/ ReadDone \/ WriteDone \/ TimerDone
            \/ Dispatch \/ NextConn \/ Dispatched

Loop ==
    \/ \E w \in Watches : ReadSocket(w) \/ WriteSocket(w)
    \/ Wakeup
    \/ \E t \in Timeouts : TimerEvent(t)

Next ==
    \/ Callback
    \/ \E o \in Conns \cup Servers : Arrive(o)
    \/ Loop
    \/ Continue
    \/ StopApp

Spec == Init /\ [][Next]_vars

\* The loop serves every notifier and timer that keeps asking, libdbus and the
\* Python handlers return, and the handling of a message does not for ever queue
\* another one for the same connection.
Fairness ==
    /\ WF_vars(Continue)
    /\ SF_vars(NextConn)
    /\ SF_vars(Wakeup)
    /\ \A w \in Watches : SF_vars(ReadSocket(w))

FairSpec == Spec /\ Fairness

-----------------------------------------------------------------------------
(* Properties.                                                             *)

\* "The notifier could have just been destroyed" (dbus.cpp:279, 307), and the
\* helper is going to look for it in its entry: the entry is still there.
EntryExists == pc \in {"read", "write"} => ref \in watchers

\* The notifiers follow the watches: an enabled watch has all its notifiers
\* enabled, but for the one that is being handled, so no data goes unnoticed;
\* a watch that was removed has none.
NotifiersFollow ==
    /\ \A w \in Watches, dir \in Dirs :
         /\ watch[w] = "on" /\ dir \in Flags[w]
         /\ ~ (w = ref /\ dir = pc)
         => <<w, dir>> \in notifying
    /\ \A n \in notifying : watch[n[1]] # "none" /\ n[2] \in Flags[n[1]]
    /\ watchers = {w \in Watches : watch[w] # "none"}

\* A timeout has at most one timer and only while it is enabled, however often
\* it is toggled (dbus.cpp:135-186).  While there is an application an enabled
\* timeout has its timer, unless startTimer() may have failed.
TimersFollow ==
    \A t \in Timeouts :
      /\ timers[t] <= (IF timeout[t] = "on" THEN 1 ELSE 0)
      /\ app /\ t \notin Failing /\ timeout[t] = "on" => timers[t] = 1

\* What is being handled, if it was not removed, has an entry and a notifier.
Handling ==
    /\ ref # NoWatch => /\ pc \in {"read", "write"}
                        /\ ref \in watchers
                        /\ pc \in Flags[ref]

\* The inductive invariant of DBusLoopProofs.
MirrorInv == TypeOK /\ NotifiersFollow /\ TimersFollow /\ Handling

\* Every message of a connection is dispatched in the end, whether the helper
\* read it or libdbus queued it during a blocking call, as long as there is an
\* application to run the loop.
MessagesDispatched == \A c \in Conns : inbox[c] > 0 ~> inbox[c] = 0 \/ ~app

\* Data on the socket of a watch that stays enabled is read.
DataRead ==
    \A w \in Watches :
      "read" \in Flags[w] =>
        (watch[w] = "on" /\ Fd[w] \in readable
           ~> Fd[w] \notin readable \/ watch[w] # "on" \/ ~app)

\* Nothing that arrives waits for ever.
LoopServes == MessagesDispatched /\ DataRead
=============================================================================
