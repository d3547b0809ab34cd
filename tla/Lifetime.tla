------------------------------ MODULE Lifetime ------------------------------
(***************************************************************************)
(* QObjects and their wrappers: the monitor of the instances that C++ has  *)
(* created, and the clean up at exit (qpycore_event_handlers.cpp,          *)
(* qpycore_public_api.cpp).                                                *)
(*                                                                         *)
(* An object is its address, which C++ may use again.  Dying is the time   *)
(* from the emission of destroyed() to the release of the address; slots   *)
(* of Python may get the object then.  The monitor lives in the thread     *)
(* that imported QtCore: the end of an instance that another thread        *)
(* destroys is reported to it later, by its address.                       *)
(***************************************************************************)
EXTENDS Integers, FiniteSets

CONSTANTS
    Addresses,
    Threads,    \* the addresses that are QThreads
    App,        \* the address that is the QCoreApplication
    Elsewhere,  \* those of instances that may live in other threads than the monitor
    NoParent,
    MaxReports  \* bounds the reports of an address that are on their way

VARIABLES
    cpp,        \* "none", "live", "emitting" (destroyed()) or "dying"
    byPython,   \* the instance was created by Python, so its destructor tells sip
    parent,
    wrapper,    \* "none", "valid", or "stale": without an instance
    owned,      \* the wrapper owns the instance
    late,       \* it was wrapped when it was being destroyed, or after monitoring had ended
    monitored, connected,
    enabled,
    running,    \* the threads that run
    visiting,   \* the wrappers that sipVisitWrappers() has not visited yet
    reports     \* [address -> how many queued calls of on_destroyed() are for it]

lifeVars == <<cpp, byPython, parent, wrapper, owned, late, monitored, connected, enabled, running,
              visiting, reports>>

ASSUME LifeAssumption == MaxReports \in Nat

LifeTypeOK ==
    /\ cpp \in [Addresses -> {"none", "live", "emitting", "dying"}]
    /\ byPython \in [Addresses -> BOOLEAN] /\ owned \in [Addresses -> BOOLEAN]
    /\ parent \in [Addresses -> Addresses \cup {NoParent}]
    /\ wrapper \in [Addresses -> {"none", "valid", "stale"}]
    /\ late \in [Addresses -> BOOLEAN]
    /\ monitored \subseteq Addresses /\ connected \subseteq Addresses
    /\ enabled \in BOOLEAN /\ running \subseteq Threads /\ visiting \subseteq Addresses
    /\ reports \in [Addresses -> Nat]

LifeInit ==
    /\ cpp = [a \in Addresses |-> "none"] /\ wrapper = [a \in Addresses |-> "none"]
    /\ byPython = [a \in Addresses |-> FALSE] /\ owned = [a \in Addresses |-> FALSE]
    /\ parent = [a \in Addresses |-> NoParent] /\ late = [a \in Addresses |-> FALSE]
    /\ monitored = {} /\ connected = {} /\ enabled = TRUE /\ running = {} /\ visiting = {}
    /\ reports = [a \in Addresses |-> 0]

\* An instance is created.  Python creates its wrapper with it, which takes the
\* place of any other of the address, and owns the instance if it has no parent.
Create(a, python, p) ==
    /\ cpp[a] = "none" /\ enabled
    /\ p \in Addresses => cpp[p] = "live"
    /\ cpp' = [cpp EXCEPT ![a] = "live"]
    /\ byPython' = [byPython EXCEPT ![a] = python]
    /\ parent' = [parent EXCEPT ![a] = p]
    /\ IF python
         THEN /\ wrapper' = [wrapper EXCEPT ![a] = "valid"]
              /\ owned' = [owned EXCEPT ![a] = p = NoParent]
              /\ late' = [late EXCEPT ![a] = FALSE]
         ELSE /\ wrapper' = [wrapper EXCEPT ![a] = IF @ = "stale" THEN "none" ELSE @]
              /\ UNCHANGED <<owned, late>>
    /\ UNCHANGED <<monitored, connected, enabled, running, visiting, reports>>

\* A fault: an instance that is connected already is not monitored again.
MonitorNew(a) == IF a \in connected THEN monitored ELSE monitored \cup {a}

\* PyQtMonitor::monitor(): the connection is made once.
Monitor(a) == monitored \cup {a}

\* An instance that has no wrapper is passed to Python.  What is connected while
\* destroyed() is emitted does not get that emission.
Wrap(a) ==
    /\ cpp[a] \in {"live", "emitting"} /\ wrapper[a] = "none"
    /\ cpp[a] = "live" => ~ byPython[a]
    /\ wrapper' = [wrapper EXCEPT ![a] = "valid"]
    /\ owned' = [owned EXCEPT ![a] = FALSE]
    /\ late' = [late EXCEPT ![a] = cpp[a] # "live" \/ ~ enabled]
    /\ IF enabled
         THEN /\ monitored' = Monitor(a)
              /\ connected' = IF cpp[a] = "live" THEN connected \cup {a} ELSE connected
         ELSE UNCHANGED <<monitored, connected>>
    /\ UNCHANGED <<cpp, byPython, parent, enabled, running, visiting, reports>>

\* The destructor begins.  That of a class of Python tells sip first; then
\* destroyed() is emitted.
Destroying(a) ==
    /\ cpp' = [cpp EXCEPT ![a] = "emitting"]
    /\ wrapper' = IF byPython[a] /\ wrapper[a] = "valid"
                    THEN [wrapper EXCEPT ![a] = "stale"] ELSE wrapper

\* C++ destroys an instance, which Python does not own or has a reference to.
Destroy(a) ==
    /\ cpp[a] = "live" /\ a \notin running
    /\ Destroying(a)
    /\ UNCHANGED <<byPython, parent, owned, late, monitored, connected, enabled, running, visiting,
                   reports>>

\* PyQtMonitor::on_destroyed(): an address that is monitored is not any more.
Told(a) ==
    IF a \in monitored
      THEN /\ monitored' = monitored \ {a}
           /\ wrapper' = IF wrapper[a] = "valid" THEN [wrapper EXCEPT ![a] = "stale"] ELSE wrapper
      ELSE UNCHANGED <<monitored, wrapper>>

\* The end of the emission.  The connection is automatic: the monitor is called
\* if the emission is in its thread, and the call is queued otherwise.  Children
\* live in the thread of their parents.
OnDestroyed(a) ==
    /\ cpp[a] = "emitting"
    /\ cpp' = [cpp EXCEPT ![a] = "dying"]
    /\ \/ /\ IF a \in connected THEN Told(a) ELSE UNCHANGED <<monitored, wrapper>>
          /\ UNCHANGED reports
       \/ /\ a \in Elsewhere \cap connected /\ (parent[a] \in Addresses => parent[a] \in Elsewhere)
          /\ reports[a] < MaxReports
          /\ reports' = [reports EXCEPT ![a] = @ + 1]
          /\ UNCHANGED <<monitored, wrapper>>
    /\ UNCHANGED <<byPython, parent, owned, late, connected, enabled, running, visiting>>

\* The event loop of the monitor's thread makes a call that was queued.
LateReport(a) ==
    /\ reports[a] > 0
    /\ reports' = [reports EXCEPT ![a] = @ - 1]
    /\ Told(a)
    /\ UNCHANGED <<cpp, byPython, parent, owned, late, connected, enabled, running, visiting>>

ChildrenOf(a) == {c \in Addresses : cpp[c] # "none" /\ parent[c] = a}

\* The children are destroyed, then the address is free.
DestroyChild(a, c) ==
    /\ cpp[a] = "dying" /\ c \in ChildrenOf(a) /\ cpp[c] = "live" /\ c \notin running
    /\ Destroying(c)
    /\ UNCHANGED <<byPython, parent, owned, late, monitored, connected, enabled, running, visiting,
                   reports>>

Freed(a) ==
    /\ cpp[a] = "dying" /\ ChildrenOf(a) = {}
    /\ cpp' = [cpp EXCEPT ![a] = "none"]
    /\ connected' = connected \ {a}
    /\ parent' = [parent EXCEPT ![a] = NoParent]
    /\ UNCHANGED <<byPython, wrapper, owned, late, monitored, enabled, running, visiting, reports>>

\* collecting_wrapper_eh() and the collection of a wrapper, with the instance if
\* it owns it; that of the application is destroyed when all others have been
\* visited (~QCoreApplication()).
Collect(a) ==
    /\ wrapper[a] \in {"valid", "stale"}
    /\ monitored' = IF wrapper[a] = "valid" /\ enabled THEN monitored \ {a} ELSE monitored
    /\ owned[a] /\ wrapper[a] = "valid" =>
         a \notin running /\ (a = App => ~ enabled /\ visiting = {})
    /\ IF owned[a] /\ wrapper[a] = "valid" /\ cpp[a] = "live"
         THEN cpp' = [cpp EXCEPT ![a] = "emitting"]
         ELSE UNCHANGED cpp
    /\ wrapper' = [wrapper EXCEPT ![a] = "none"]
    /\ owned' = [owned EXCEPT ![a] = FALSE]
    /\ UNCHANGED <<byPython, parent, late, connected, enabled, running, visiting, reports>>

StartThread(a) ==
    /\ a \in Threads /\ cpp[a] = "live" /\ a \notin running /\ enabled
    /\ running' = running \cup {a}
    /\ UNCHANGED <<cpp, byPython, parent, wrapper, owned, late, monitored, connected, enabled,
                   visiting, reports>>

-----------------------------------------------------------------------------
(* At exit.                                                                *)

\* pyqt6_cleanup_qobjects(): no more instances are monitored.
Cleanup ==
    /\ enabled
    /\ enabled' = FALSE
    /\ visiting' = {a \in Addresses : wrapper[a] # "none"}
    /\ UNCHANGED <<cpp, byPython, parent, wrapper, owned, late, monitored, connected, running,
                   reports>>

\* A fault: an instance is deleted for a wrapper that has lost it.
ToCleanAny(a) == owned[a] /\ a # App /\ a \notin running

\* The instance is deleted if the wrapper has one and owns it, but not the
\* application.
ToClean(a) == wrapper[a] = "valid" /\ a # App /\ owned[a] /\ a \notin running

\* cleanup_qobject(): the others are visited when the destructor has returned.
CleanupQObject(a) ==
    /\ a \in visiting
    /\ \A b \in Addresses \ Elsewhere : cpp[b] \in {"none", "live"}
    /\ visiting' = visiting \ {a}
    /\ IF ToClean(a)
         THEN /\ owned' = [owned EXCEPT ![a] = FALSE]
              /\ Destroying(a)
         ELSE UNCHANGED <<cpp, wrapper, owned>>
    /\ UNCHANGED <<byPython, parent, late, monitored, connected, enabled, running, reports>>

\* cleanup_on_exit(): then the application is deleted, if Python created it.
CleanupApplication ==
    /\ ~ enabled /\ visiting = {}
    /\ App \in Addresses /\ cpp[App] = "live" /\ byPython[App]
    /\ Destroying(App)
    /\ UNCHANGED <<byPython, parent, owned, late, monitored, connected, enabled, running, visiting,
                   reports>>

LifeNext ==
    \/ \E a \in Addresses, python \in BOOLEAN, p \in (Addresses \cup {NoParent}) :
         a # p /\ Create(a, python, p)
    \/ \E a \in Addresses : Wrap(a) \/ Destroy(a) \/ OnDestroyed(a) \/ LateReport(a) \/ Freed(a)
                            \/ Collect(a) \/ StartThread(a) \/ CleanupQObject(a)
    \/ \E a, c \in Addresses : DestroyChild(a, c)
    \/ Cleanup \/ CleanupApplication

LifeSpec == LifeInit /\ [][LifeNext]_lifeVars

-----------------------------------------------------------------------------
(* Properties.                                                             *)

\* A wrapper that has an instance has one that exists, or that was destroyed by
\* another thread and is yet to be reported, whoever destroyed it and however often
\* it was wrapped, unless it was wrapped while the instance was being destroyed
\* ("the C++ instance may be in the process of being destroyed", event_handlers.cpp
\* 70-88) or after the monitor had been disabled.
WrapperAlive ==
    \A a \in Addresses : wrapper[a] = "valid" /\ ~ late[a] /\ cpp[a] = "none" =>
                           a \in Elsewhere /\ reports[a] > 0

\* No wrapper has lost an instance that exists, unless another thread destroyed one
\* that had its address before.
NotMistaken == \A a \in Addresses \ Elsewhere : wrapper[a] = "stale" => cpp[a] # "live"

\* What Python owns is there: at exit no instance is deleted that has gone
\* already, with its parent or before (public_api.cpp 42-75).
DeletedOnce == \A a \in visiting : ToClean(a) => cpp[a] = "live"

\* At exit no instance that is owned by Python and that does not run is left, but
\* for the QCoreApplication, which goes last.
CleanedUp ==
    ~ enabled /\ visiting = {} =>
      \A a \in Addresses : wrapper[a] = "valid" /\ owned[a] => a = App \/ a \in running

\* At exit every instance that Python owns is deleted but the application, and only
\* those that are still there.
ExitCleans == DeletedOnce /\ CleanedUp

\* While the program runs wrappers are told of the end of their instances and of no
\* other, and when it exits the instances are deleted that nobody else will delete.
InstancesTended == WrapperAlive /\ NotMistaken /\ ExitCleans

-----------------------------------------------------------------------------
(* The inductive invariant of CoreProofs.                                  *)

\* A wrapper that has an instance will be told of its destruction: by the
\* destructor of a class of Python, or by the monitor, at once or later.
WillBeTold ==
    \A a \in Addresses : wrapper[a] = "valid" /\ ~ late[a] =>
      \/ cpp[a] = "live" /\ byPython[a]
      \/ cpp[a] \in {"live", "emitting"} /\ a \in monitored \cap connected
      \/ a \in Elsewhere \cap monitored /\ reports[a] > 0

\* Only the thread of the monitor is answered at once.
ReportsElsewhere == \A a \in Addresses : reports[a] > 0 => a \in Elsewhere

\* What Python owns it has created, and it is there as long as its wrapper has it.
OwnedExists ==
    \A a \in Addresses : owned[a] /\ wrapper[a] = "valid" => cpp[a] = "live" /\ byPython[a]

VisitedIsClean ==
    ~ enabled =>
      \A a \in Addresses \ visiting :
        wrapper[a] = "valid" /\ owned[a] => a = App \/ a \in running

LifeIInv ==
    LifeTypeOK /\ WillBeTold /\ ReportsElsewhere /\ NotMistaken /\ OwnedExists /\ VisitedIsClean
=============================================================================
