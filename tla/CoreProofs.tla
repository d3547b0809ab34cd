----------------------------- MODULE CoreProofs -----------------------------
(***************************************************************************)
(* Proofs about parts of QtCore for any values of their constants.         *)
(* Lifetime: a wrapper never refers to an instance that has gone, and the  *)
(* clean up at exit deletes what Python owns and nothing else.             *)
(* Signals: a slot is called once, with as many arguments as it takes, and *)
(* no overload is lost.                                                    *)
(* QObjects: what is given by name reaches what has the name, once.        *)
(* MetaObjects: a number means the same to Qt and to PyQt in each class of *)
(* a chain, and properties are in the order of their definition.           *)
(* Exceptions: a report leaves sys.stderr as it was, and an object is      *)
(* alive as long as a C++ variable holds it.                               *)
(***************************************************************************)
EXTENDS Lifetime, Signals, QObjects, MetaObjects, Exceptions, FiniteSetTheorems,
        SequenceTheorems, TLAPS

-----------------------------------------------------------------------------
(* Lifetime.                                                               *)

\* Nothing is wrapped, owned or monitored in the beginning.
LEMMA LifeInitial == LifeInit => LifeIInv
  BY DEF LifeInit, LifeIInv, LifeTypeOK, WillBeTold, ReportsElsewhere, NotMistaken, OwnedExists,
         VisitedIsClean

\* An instance is created, with a wrapper or without.
LEMMA CreateStep ==
    ASSUME LifeIInv, NEW a \in Addresses, NEW python \in BOOLEAN,
           NEW p \in Addresses \cup {NoParent}, Create(a, python, p)
    PROVE  LifeIInv'
<1>1. LifeTypeOK' BY DEF LifeIInv, LifeTypeOK, Create
<1>2. WillBeTold' BY DEF LifeIInv, LifeTypeOK, WillBeTold, Create
<1>3. ReportsElsewhere' BY DEF LifeIInv, ReportsElsewhere, Create
<1>4. NotMistaken' BY DEF LifeIInv, LifeTypeOK, NotMistaken, Create
<1>5. OwnedExists' BY DEF LifeIInv, LifeTypeOK, OwnedExists, Create
<1>6. VisitedIsClean' BY DEF LifeIInv, LifeTypeOK, VisitedIsClean, Create
<1> QED BY <1>1, <1>2, <1>3, <1>4, <1>5, <1>6 DEF LifeIInv

\* What is wrapped in time is monitored and connected.
LEMMA WrapStep == ASSUME LifeIInv, NEW a \in Addresses, Wrap(a) PROVE LifeIInv'
<1>1. LifeTypeOK' BY DEF LifeIInv, LifeTypeOK, Wrap, Monitor
<1>2. WillBeTold' BY DEF LifeIInv, LifeTypeOK, WillBeTold, Wrap, Monitor
<1>3. ReportsElsewhere' BY DEF LifeIInv, ReportsElsewhere, Wrap
<1>4. NotMistaken' BY DEF LifeIInv, LifeTypeOK, NotMistaken, Wrap
<1>5. OwnedExists' BY DEF LifeIInv, LifeTypeOK, OwnedExists, Wrap
<1>6. VisitedIsClean' BY DEF LifeIInv, LifeTypeOK, VisitedIsClean, Wrap
<1> QED BY <1>1, <1>2, <1>3, <1>4, <1>5, <1>6 DEF LifeIInv

\* The beginning of a destructor, wherever it was called: sip is told of an
\* instance of a class of Python, and the monitor has yet to be of the others.
LEMMA DestroyingStep ==
    ASSUME LifeIInv, NEW a \in Addresses, cpp[a] = "live", Destroying(a),
           UNCHANGED <<byPython, parent, late, monitored, connected, enabled, running, reports>>,
           owned' = owned \/ owned' = [owned EXCEPT ![a] = FALSE],
           visiting' = visiting \/ (visiting' = visiting \ {a} /\ ~ owned'[a])
    PROVE  LifeIInv'
<1>1. LifeTypeOK' BY DEF LifeIInv, LifeTypeOK, Destroying
<1>2. WillBeTold' BY DEF LifeIInv, LifeTypeOK, WillBeTold, Destroying
<1>3. ReportsElsewhere' BY DEF LifeIInv, ReportsElsewhere
<1>4. NotMistaken' BY DEF LifeIInv, LifeTypeOK, NotMistaken, Destroying
<1>5. OwnedExists' BY DEF LifeIInv, LifeTypeOK, OwnedExists, Destroying
<1>6. VisitedIsClean' BY DEF LifeIInv, LifeTypeOK, VisitedIsClean, Destroying
<1> QED BY <1>1, <1>2, <1>3, <1>4, <1>5, <1>6 DEF LifeIInv

\* A wrapper that is told of an end has no instance, if the instance has ended or
\* could have lived in another thread.
LEMMA ToldStep ==
    ASSUME LifeIInv, NEW a \in Addresses, Told(a)
    PROVE  /\ monitored' \subseteq Addresses
           /\ wrapper' \in [Addresses -> {"none", "valid", "stale"}]
           /\ a \notin monitored' /\ \A b \in Addresses \ {a} : b \in monitored' <=> b \in monitored
           /\ \A b \in Addresses : wrapper'[b] = wrapper[b] \/ (b = a /\ wrapper'[b] = "stale")
           /\ a \in monitored => wrapper'[a] # "valid"
  BY DEF LifeIInv, LifeTypeOK, Told

\* The emission of destroyed() ends: the monitor has been called, or will be.
LEMMA DestroyedStep ==
    ASSUME LifeIInv, NEW a \in Addresses, OnDestroyed(a)
    PROVE  LifeIInv'
<1> USE DEF LifeIInv
<1>1. /\ cpp[a] = "emitting" /\ cpp' = [cpp EXCEPT ![a] = "dying"]
      /\ UNCHANGED <<byPython, parent, owned, late, connected, enabled, running, visiting>>
  BY DEF OnDestroyed
<1>2. CASE a \in connected /\ Told(a) /\ UNCHANGED reports
  <2>1. LifeTypeOK' BY <1>1, <1>2, ToldStep DEF LifeTypeOK
  <2>2. WillBeTold' BY <1>1, <1>2, ToldStep DEF LifeTypeOK, WillBeTold
  <2>3. ReportsElsewhere' /\ NotMistaken'
    BY <1>1, <1>2, ToldStep DEF LifeTypeOK, ReportsElsewhere, NotMistaken
  <2>4. OwnedExists' /\ VisitedIsClean'
    BY <1>1, <1>2, ToldStep DEF LifeTypeOK, OwnedExists, VisitedIsClean
  <2> QED BY <2>1, <2>2, <2>3, <2>4
<1>3. CASE a \notin connected /\ UNCHANGED <<monitored, wrapper, reports>>
  BY <1>1, <1>3 DEF LifeTypeOK, WillBeTold, ReportsElsewhere, NotMistaken, OwnedExists,
                    VisitedIsClean
<1>4. CASE /\ a \in Elsewhere \cap connected /\ UNCHANGED <<monitored, wrapper>>
           /\ reports' = [reports EXCEPT ![a] = @ + 1]
  <2>1. LifeTypeOK' BY <1>1, <1>4 DEF LifeTypeOK
  <2>2. \A b \in Addresses : reports[b] > 0 => reports'[b] > 0 BY <1>4 DEF LifeTypeOK
  <2>3. reports'[a] > 0 BY <1>4 DEF LifeTypeOK
  <2>4. WillBeTold' BY <1>1, <1>4, <2>2, <2>3 DEF LifeTypeOK, WillBeTold
  <2>5. ReportsElsewhere' /\ NotMistaken' /\ OwnedExists' /\ VisitedIsClean'
    BY <1>1, <1>4 DEF LifeTypeOK, ReportsElsewhere, NotMistaken, OwnedExists, VisitedIsClean
  <2> QED BY <2>1, <2>4, <2>5
<1> QED BY <1>2, <1>3, <1>4 DEF OnDestroyed

\* A report comes from another thread, perhaps when the address is used again.
LEMMA LateReportStep ==
    ASSUME LifeIInv, NEW a \in Addresses, LateReport(a)
    PROVE  LifeIInv'
<1> USE DEF LifeIInv
<1>1. /\ reports[a] > 0 /\ reports' = [reports EXCEPT ![a] = @ - 1] /\ Told(a)
      /\ UNCHANGED <<cpp, byPython, parent, owned, late, connected, enabled, running, visiting>>
  BY DEF LateReport
<1>2. a \in Elsewhere BY <1>1 DEF ReportsElsewhere
<1>3. \A b \in Addresses \ {a} : reports'[b] = reports[b] BY <1>1 DEF LifeTypeOK
<1>4. LifeTypeOK' BY <1>1, ToldStep DEF LifeTypeOK
<1>5. WillBeTold'
  <2> SUFFICES ASSUME NEW b \in Addresses, wrapper'[b] = "valid", ~ late[b]
               PROVE  \/ cpp[b] = "live" /\ byPython[b]
                      \/ cpp[b] \in {"live", "emitting"} /\ b \in monitored' \cap connected
                      \/ b \in Elsewhere \cap monitored' /\ reports'[b] > 0
    BY <1>1 DEF WillBeTold
  <2>1. wrapper[b] = "valid" BY <1>1, ToldStep
  <2>2. CASE b = a
    <3>1. a \notin monitored BY <1>1, <2>2, ToldStep
    <3> QED BY <2>1, <2>2, <3>1 DEF WillBeTold
  <2>3. CASE b # a BY <2>1, <2>3, <1>1, <1>3, ToldStep DEF WillBeTold
  <2> QED BY <2>2, <2>3
<1>6. ReportsElsewhere' BY <1>2, <1>3 DEF ReportsElsewhere
<1>7. NotMistaken' BY <1>1, <1>2, ToldStep DEF NotMistaken
<1>8. OwnedExists' /\ VisitedIsClean' BY <1>1, ToldStep DEF OwnedExists, VisitedIsClean
<1> QED BY <1>4, <1>5, <1>6, <1>7, <1>8

\* The address is free.
LEMMA FreedStep == ASSUME LifeIInv, NEW a \in Addresses, Freed(a) PROVE LifeIInv'
<1>1. LifeTypeOK' BY DEF LifeIInv, LifeTypeOK, Freed
<1>2. WillBeTold' BY DEF LifeIInv, LifeTypeOK, WillBeTold, Freed
<1>3. ReportsElsewhere' BY DEF LifeIInv, ReportsElsewhere, Freed
<1>4. NotMistaken' BY DEF LifeIInv, LifeTypeOK, NotMistaken, Freed
<1>5. OwnedExists' BY DEF LifeIInv, LifeTypeOK, OwnedExists, Freed
<1>6. VisitedIsClean' BY DEF LifeIInv, LifeTypeOK, VisitedIsClean, Freed
<1> QED BY <1>1, <1>2, <1>3, <1>4, <1>5, <1>6 DEF LifeIInv

\* A wrapper is collected, with what it owns.
LEMMA CollectStep == ASSUME LifeIInv, NEW a \in Addresses, Collect(a) PROVE LifeIInv'
<1>1. LifeTypeOK' BY DEF LifeIInv, LifeTypeOK, Collect
<1>2. WillBeTold' BY DEF LifeIInv, LifeTypeOK, WillBeTold, Collect
<1>3. ReportsElsewhere' BY DEF LifeIInv, ReportsElsewhere, Collect
<1>4. NotMistaken' BY DEF LifeIInv, LifeTypeOK, NotMistaken, Collect
<1>5. OwnedExists' BY DEF LifeIInv, LifeTypeOK, OwnedExists, Collect
<1>6. VisitedIsClean' BY DEF LifeIInv, LifeTypeOK, VisitedIsClean, Collect
<1> QED BY <1>1, <1>2, <1>3, <1>4, <1>5, <1>6 DEF LifeIInv

\* The clean up: all wrappers are to be visited, then one after the other is, and
\* then the application is deleted.
LEMMA CleanupSteps ==
    ASSUME LifeIInv, Cleanup \/ CleanupApplication \/ \E a \in Addresses : CleanupQObject(a)
    PROVE  LifeIInv'
<1>1. CASE Cleanup
      BY <1>1 DEF LifeIInv, LifeTypeOK, WillBeTold, ReportsElsewhere, NotMistaken, OwnedExists,
                  VisitedIsClean, Cleanup
<1>2. ASSUME NEW a \in Addresses, CleanupQObject(a) PROVE LifeIInv'
  <2>1. CASE ToClean(a)
    <3>1. cpp[a] = "live" BY <2>1 DEF LifeIInv, OwnedExists, ToClean
    <3>2. /\ Destroying(a) /\ owned' = [owned EXCEPT ![a] = FALSE] /\ visiting' = visiting \ {a}
          /\ UNCHANGED <<byPython, parent, late, monitored, connected, enabled, running, reports>>
          BY <1>2, <2>1 DEF CleanupQObject
    <3>3. ~ owned'[a] BY <3>2 DEF LifeIInv, LifeTypeOK
    <3> QED BY <3>1, <3>2, <3>3, DestroyingStep
  <2>2. CASE ~ ToClean(a)
        BY <1>2, <2>2 DEF LifeIInv, LifeTypeOK, WillBeTold, ReportsElsewhere, NotMistaken,
                          OwnedExists, VisitedIsClean, CleanupQObject, ToClean
  <2> QED BY <2>1, <2>2
<1>3. CASE CleanupApplication BY <1>3, DestroyingStep DEF CleanupApplication
<1> QED BY <1>1, <1>2, <1>3

\* The invariant is inductive.
LEMMA LifeInductive == LifeIInv /\ [LifeNext]_lifeVars => LifeIInv'
<1> SUFFICES ASSUME LifeIInv, [LifeNext]_lifeVars PROVE LifeIInv'
    OBVIOUS
<1>1. ASSUME NEW a \in Addresses, NEW python \in BOOLEAN, NEW p \in Addresses \cup {NoParent},
             Create(a, python, p)
      PROVE  LifeIInv'
      BY <1>1, CreateStep
<1>2. ASSUME NEW a \in Addresses, Destroy(a) PROVE LifeIInv'
      BY <1>2, DestroyingStep DEF Destroy
<1>3. ASSUME NEW a \in Addresses, NEW c \in Addresses, DestroyChild(a, c) PROVE LifeIInv'
      BY <1>3, DestroyingStep DEF DestroyChild
<1>4. ASSUME NEW a \in Addresses, StartThread(a) PROVE LifeIInv'
      BY <1>4 DEF LifeIInv, LifeTypeOK, WillBeTold, ReportsElsewhere, NotMistaken, OwnedExists,
                  VisitedIsClean, StartThread
<1>5. CASE UNCHANGED lifeVars
      BY <1>5 DEF LifeIInv, LifeTypeOK, WillBeTold, ReportsElsewhere, NotMistaken, OwnedExists,
                  VisitedIsClean, lifeVars
<1> QED BY <1>1, <1>2, <1>3, <1>4, <1>5, WrapStep, DestroyedStep, LateReportStep, FreedStep,
           CollectStep, CleanupSteps
        DEF LifeNext

\* Every wrapper with an instance is told of its end or will be, what Python owns
\* exists, and what has been visited at exit is clean.
THEOREM LifeInvariance == LifeSpec => []LifeIInv
<1>1. LifeInit => LifeIInv BY LifeInitial
<1>2. LifeIInv /\ [LifeNext]_lifeVars => LifeIInv' BY LifeInductive
<1> QED BY <1>1, <1>2, PTL DEF LifeSpec

\* A wrapper that is valid, unless it was made too late, has an instance that
\* exists or whose end another thread has reported (qpycore_event_handlers.cpp
\* 40-123).
THEOREM WrappersAlive == LifeSpec => []WrapperAlive
<1>1. LifeIInv => WrapperAlive BY DEF LifeIInv, WillBeTold, WrapperAlive
<1> QED BY <1>1, LifeInvariance, PTL

\* The clean up at exit deletes only what is still there, and all of it that
\* Python owns but for running threads and the application
\* (qpycore_public_api.cpp 39-82).
THEOREM ExitIsClean == LifeSpec => []ExitCleans
<1>1. ASSUME LifeIInv PROVE DeletedOnce
  <2> SUFFICES ASSUME NEW a \in visiting, ToClean(a) PROVE cpp[a] = "live"
    BY DEF DeletedOnce
  <2> QED BY <1>1 DEF LifeIInv, LifeTypeOK, OwnedExists, ToClean
<1>2. ASSUME LifeIInv PROVE CleanedUp
      BY <1>2 DEF LifeIInv, LifeTypeOK, VisitedIsClean, CleanedUp
<1>3. LifeIInv => ExitCleans BY <1>1, <1>2 DEF ExitCleans
<1> QED BY <1>3, LifeInvariance, PTL

\* Wrappers, and the instances they own, are tended from their making to the exit
\* of the program.
THEOREM InstancesAreTended == LifeSpec => []InstancesTended
<1>1. LifeIInv => NotMistaken BY DEF LifeIInv
<1>2. WrapperAlive /\ NotMistaken /\ ExitCleans => InstancesTended BY DEF InstancesTended
<1> QED BY <1>1, <1>2, LifeInvariance, WrappersAlive, ExitIsClean, PTL

-----------------------------------------------------------------------------
(* Exceptions that are reported.                                           *)

\* A slot raises an exception: it is reported if no other one is.
LEMMA RaiseStep ==
    ASSUME ReportsAlone, StderrTaken, NEW t \in PyThreads, Raise(t)
    PROVE  ReportsAlone' /\ StderrTaken'
<1> DEFINE Frames == [exc : Nat, old : {0}, pc : {"print", "fatal"}]
           frame == [exc |-> raised + 1, old |-> stderr, pc |-> "print"]
<1>1. CASE recursing
  <2>1. UNCHANGED <<recursing, stack, stderr, hook>> /\ raised' = raised + 1
    BY <1>1 DEF Raise, Reports
  <2> QED BY <2>1 DEF ReportsAlone, StderrTaken, Top
<1>2. CASE ~ recursing
  <2>1. \A u \in PyThreads : stack[u] = << >>
    BY <1>2 DEF ReportsAlone
  <2>2. stderr = 0 BY <2>1 DEF StderrTaken
  <2>3. /\ raised' = raised + 1 /\ recursing' = TRUE /\ hook' = hook
        /\ stack' = [stack EXCEPT ![t] = Append(@, frame)]
        /\ stderr' = IF hook THEN stderr ELSE raised + 1
    BY <1>2 DEF Raise, Reports
  <2>4. frame \in Frames BY <2>2 DEF ReportsAlone
  <2>5. Append(<< >>, frame) = <<frame>> OBVIOUS
  <2>6. stack'[t] = <<frame>> /\ \A u \in PyThreads \ {t} : stack'[u] = << >>
    BY <2>1, <2>3, <2>5 DEF ReportsAlone
  <2>7. <<frame>> \in Seq(Frames) /\ Len(<<frame>>) = 1 /\ <<frame>>[1] = frame /\ <<frame>> # << >>
    <3> HIDE DEF frame, Frames
    <3> QED BY <2>4
  <2>8. stack' \in [PyThreads -> Seq(Frames)]
    <3>1. DOMAIN stack' = PyThreads BY <2>3 DEF ReportsAlone
    <3>2. \A u \in PyThreads : stack'[u] \in Seq(Frames)
      <4> HIDE DEF Frames, frame
      <4> QED BY <2>6, <2>7, EmptySeq
    <3>3. stack' = [u \in PyThreads |-> stack'[u]] BY <2>3 DEF ReportsAlone
    <3> QED BY <3>2, <3>3
  <2>9. ReportsAlone'
    BY <2>3, <2>6, <2>7, <2>8 DEF ReportsAlone
  <2>10. Top(t)' = frame BY <2>6, <2>7 DEF Top
  <2>11. StderrTaken'
    BY <2>2, <2>3, <2>6, <2>7, <2>10 DEF StderrTaken
  <2> QED BY <2>9, <2>11
<1> QED BY <1>1, <1>2 DEF ReportsAlone

\* The exception that is at the top of the stack has been printed: the text
\* goes to qFatal() and sys.stderr is what it was.
LEMMA ReportStep ==
    ASSUME ReportsAlone, StderrTaken, NEW t \in PyThreads, Report(t)
    PROVE  ReportsAlone' /\ StderrTaken'
<1> DEFINE Frames == [exc : Nat, old : {0}, pc : {"print", "fatal"}]
           frame == stack[t][1]
           printed_ == [frame EXCEPT !.pc = "fatal"]
<1>1. Len(stack[t]) = 1 /\ stack[t] \in Seq(Frames) /\ recursing
  BY DEF Report, ReportsAlone
<1>2. frame \in Frames
  <2> HIDE DEF Frames
  <2> QED BY <1>1
<1>3. Top(t) = frame BY <1>1 DEF Top
<1>4. printed_ \in Frames BY <1>2
<1>5. stack' = [stack EXCEPT ![t] = [stack[t] EXCEPT ![1] = printed_]]
  BY <1>1 DEF Report
<1>6. /\ stack'[t] \in Seq(Frames) /\ Len(stack'[t]) = 1 /\ stack'[t][1] = printed_
      /\ stack'[t] # << >>
  <2> HIDE DEF Frames, printed_
  <2>1. stack'[t] = [stack[t] EXCEPT ![1] = printed_] BY <1>5 DEF ReportsAlone
  <2>2. 1 \in 1..Len(stack[t]) BY <1>1
  <2>3. /\ stack'[t] \in Seq(Frames) /\ Len(stack'[t]) = 1
        /\ \A j \in 1..Len(stack[t]) : stack'[t][j] = IF j = 1 THEN printed_ ELSE stack[t][j]
    BY <1>1, <1>4, <2>1, <2>2, ExceptSeq
  <2> QED BY <2>2, <2>3, EmptySeq
<1>7. \A u \in PyThreads \ {t} : stack'[u] = stack[u] /\ stack[u] = << >>
  BY <1>1, <1>5 DEF ReportsAlone, Report
<1>8. stack' \in [PyThreads -> Seq(Frames)]
  <2>1. \A u \in PyThreads : stack'[u] \in Seq(Frames) BY <1>6, <1>7 DEF ReportsAlone
  <2>2. stack' = [u \in PyThreads |-> stack'[u]] BY <1>5 DEF ReportsAlone
  <2> QED BY <2>1, <2>2
<1>9. UNCHANGED <<raised, recursing, hook>> BY DEF Report
<1>10. ReportsAlone' BY <1>1, <1>6, <1>7, <1>8, <1>9 DEF ReportsAlone
<1>11. Top(t)'.pc = "fatal" BY <1>2, <1>6 DEF Top
<1>12. stderr' = 0
  <2>1. CASE hook BY <2>1 DEF Report, StderrTaken
  <2>2. CASE ~ hook BY <1>2, <1>3, <2>2 DEF Report
  <2> QED BY <2>1, <2>2
<1>13. StderrTaken' BY <1>7, <1>11, <1>12 DEF StderrTaken
<1> QED BY <1>10, <1>13

\* pyqt6_err_print() returns.
LEMMA ReturnStep ==
    ASSUME ReportsAlone, StderrTaken, NEW t \in PyThreads, Return(t)
    PROVE  ReportsAlone' /\ StderrTaken'
<1> DEFINE Frames == [exc : Nat, old : {0}, pc : {"print", "fatal"}]
<1>1. Len(stack[t]) = 1 BY DEF Return, ReportsAlone
<1>2. \A u \in PyThreads \ {t} : stack[u] = << >> BY DEF Return, ReportsAlone
<1>3. stderr = 0 BY <1>2 DEF Return, StderrTaken
<1>4. SubSeq(stack[t], 1, Len(stack[t]) - 1) = << >> BY <1>1, SubSeqEmpty
<1>5. \A u \in PyThreads : stack'[u] = << >>
  BY <1>2, <1>4 DEF Return, Pop, ReportsAlone
<1>6. stack' \in [PyThreads -> Seq(Frames)]
  <2> HIDE DEF Frames
  <2>1. << >> \in Seq(Frames) BY EmptySeq
  <2>2. stack' = [u \in PyThreads |-> stack'[u]] BY DEF Return, Pop, ReportsAlone
  <2> QED BY <1>5, <2>1, <2>2
<1>7. UNCHANGED <<raised, hook, stderr>> /\ recursing' = FALSE BY DEF Return, RecursingAfter
<1>8. ReportsAlone' BY <1>5, <1>6, <1>7 DEF ReportsAlone
<1>9. StderrTaken' BY <1>3, <1>5, <1>7 DEF StderrTaken
<1> QED BY <1>8, <1>9

\* sys.stderr is the application's when no exception is reported, and no text
\* of an exception goes to that of another one, however many threads raise
\* them (public_api.cpp 118-190).
THEOREM StderrIsRestored == ExcSpec => []StderrRestored
<1>1. ExcInit => ReportsAlone /\ StderrTaken
  <2> SUFFICES ASSUME ExcInit PROVE ReportsAlone /\ StderrTaken OBVIOUS
  <2> DEFINE Frames == [exc : Nat, old : {0}, pc : {"print", "fatal"}]
  <2>1. stack = [t \in PyThreads |-> << >>] BY DEF ExcInit
  <2>2. stack \in [PyThreads -> Seq(Frames)]
    <3> HIDE DEF Frames
    <3> QED BY <2>1, EmptySeq
  <2>3. \A t \in PyThreads : stack[t] = << >> BY <2>1
  <2>4. ReportsAlone BY <2>2, <2>3 DEF ExcInit, ReportsAlone
  <2>5. StderrTaken BY <2>3 DEF ExcInit, StderrTaken
  <2> QED BY <2>4, <2>5
<1>2. ReportsAlone /\ StderrTaken /\ [ExcNext]_excVars => (ReportsAlone /\ StderrTaken)'
  <2> SUFFICES ASSUME ReportsAlone, StderrTaken, [ExcNext]_excVars
               PROVE  ReportsAlone' /\ StderrTaken'
    OBVIOUS
  <2>1. CASE UNCHANGED excVars
    BY <2>1 DEF excVars, ReportsAlone, StderrTaken, Top
  <2> QED BY <2>1, RaiseStep, ReportStep, ReturnStep DEF ExcNext
<1>3. ReportsAlone /\ StderrTaken => StderrRestored
  BY DEF StderrTaken, StderrRestored
<1> QED BY <1>1, <1>2, <1>3, PTL DEF ExcSpec

-----------------------------------------------------------------------------
(* Python objects that are held by C++ variables.                          *)

HoldersOf(o) == {h \in Holders : holds[h] = o}

LEMMA HoldersFinite ==
    \A o : IsFiniteSet(HoldersOf(o)) /\ Cardinality(HoldersOf(o)) \in Nat
<1> SUFFICES ASSUME NEW o PROVE IsFiniteSet(HoldersOf(o)) /\ Cardinality(HoldersOf(o)) \in Nat
  OBVIOUS
<1>1. HoldersOf(o) \in SUBSET Holders BY DEF HoldersOf
<1>2. IsFiniteSet(HoldersOf(o)) BY <1>1, HoldersAssumption, FS_Subset
<1> QED BY <1>2, FS_CardinalityType

\* A variable gets another value, and with it a reference of its own.
LEMMA AssignStep ==
    ASSUME RefTypeOK, HeldIsAlive, NEW h \in Holders, NEW x \in PyObjs \cup {Nothing},
           holds' = [holds EXCEPT ![h] = x], refs' = More(x)
    PROVE  HeldIsAlive'
<1> SUFFICES ASSUME NEW o \in PyObjs PROVE refs'[o] >= Cardinality(HoldersOf(o)')
  BY DEF HeldIsAlive, HoldersOf
<1>1. /\ refs[o] >= Cardinality(HoldersOf(o)) /\ refs[o] \in Int
      /\ IsFiniteSet(HoldersOf(o)) /\ Cardinality(HoldersOf(o)) \in Nat
  BY HoldersFinite DEF HeldIsAlive, HoldersOf, RefTypeOK
<1>2. CASE x = o
  <2>1. HoldersOf(o)' = HoldersOf(o) \cup {h} BY <1>2 DEF HoldersOf, RefTypeOK
  <2>2. Cardinality(HoldersOf(o)') <= Cardinality(HoldersOf(o)) + 1
    <3>1. Cardinality(HoldersOf(o) \cup {h}) =
            IF h \in HoldersOf(o) THEN Cardinality(HoldersOf(o)) ELSE Cardinality(HoldersOf(o)) + 1
      BY <1>1, FS_AddElement
    <3> QED BY <1>1, <2>1, <3>1
  <2>3. refs'[o] = refs[o] + 1 BY <1>2, HoldersAssumption DEF More, RefTypeOK
  <2>4. Cardinality(HoldersOf(o)') \in Nat
    BY <1>1, <2>1, FS_AddElement, FS_CardinalityType
  <2> QED BY <1>1, <2>2, <2>3, <2>4
<1>3. CASE x # o
  <2>1. HoldersOf(o)' \in SUBSET HoldersOf(o) BY <1>3 DEF HoldersOf, RefTypeOK
  <2>2. /\ Cardinality(HoldersOf(o)') <= Cardinality(HoldersOf(o))
        /\ Cardinality(HoldersOf(o)') \in Nat
    BY <1>1, <2>1, FS_Subset, FS_CardinalityType
  <2>3. refs'[o] = refs[o] BY <1>3 DEF More, RefTypeOK
  <2> QED BY <1>1, <2>2, <2>3
<1> QED BY <1>2, <1>3

\* A variable loses its value: it gives its reference up, or keeps it.
LEMMA ClearStep ==
    ASSUME RefTypeOK, HeldIsAlive, NEW h \in Holders,
           holds' = [holds EXCEPT ![h] = Nothing],
           refs' = Less(holds[h]) \/ refs' = refs
    PROVE  HeldIsAlive'
<1> SUFFICES ASSUME NEW o \in PyObjs PROVE refs'[o] >= Cardinality(HoldersOf(o)')
  BY DEF HeldIsAlive, HoldersOf
<1>1. /\ refs[o] >= Cardinality(HoldersOf(o)) /\ refs[o] \in Int
      /\ IsFiniteSet(HoldersOf(o)) /\ Cardinality(HoldersOf(o)) \in Nat
  BY HoldersFinite DEF HeldIsAlive, HoldersOf, RefTypeOK
<1>2. HoldersOf(o)' = HoldersOf(o) \ {h}
  BY HoldersAssumption DEF HoldersOf, RefTypeOK
<1>3. Cardinality(HoldersOf(o)') =
        IF h \in HoldersOf(o) THEN Cardinality(HoldersOf(o)) - 1 ELSE Cardinality(HoldersOf(o))
  BY <1>1, <1>2, FS_RemoveElement
<1>4. CASE h \in HoldersOf(o)
  <2>1. refs'[o] = refs[o] - 1 \/ refs'[o] = refs[o]
    BY <1>4, HoldersAssumption DEF HoldersOf, Less, RefTypeOK
  <2> QED BY <1>1, <1>3, <1>4, <2>1
<1>5. CASE h \notin HoldersOf(o)
  <2>1. refs'[o] = refs[o] BY <1>5 DEF HoldersOf, Less, RefTypeOK
  <2> QED BY <1>1, <1>3, <1>5, <2>1
<1> QED BY <1>4, <1>5

LEMMA RefTypeStep ==
    ASSUME RefTypeOK, RefNext PROVE RefTypeOK'
<1> DEFINE Values == PyObjs \cup {Nothing}
<1>0. \A o \in Values : More(o) \in [PyObjs -> Int] /\ Less(o) \in [PyObjs -> Int]
  BY DEF More, Less, RefTypeOK
<1>1. ASSUME stream # << >> PROVE Head(stream) \in Values /\ Tail(stream) \in Seq(Values)
  <2> HIDE DEF Values
  <2>1. stream \in Seq(Values) BY DEF RefTypeOK, Values
  <2> QED BY <1>1, <2>1, HeadTailProperties
<1>2. ASSUME NEW h \in Holders, NEW o \in PyObjs, WrapObject(h, o) PROVE RefTypeOK'
  BY <1>0, <1>2 DEF RefTypeOK, WrapObject
<1>3. ASSUME NEW h \in Holders, NEW from \in Holders, CopyHolder(h, from) PROVE RefTypeOK'
  BY <1>0, <1>3 DEF RefTypeOK, CopyHolder
<1>4. ASSUME NEW h \in Holders, DestroyHolder(h) PROVE RefTypeOK'
  BY <1>0, <1>4 DEF RefTypeOK, DestroyHolder
<1>5. ASSUME NEW h \in Holders, NEW works \in BOOLEAN, Serialise(h, works) PROVE RefTypeOK'
  <2>1. holds[h] \in Values BY DEF RefTypeOK
  <2>2. stream' \in Seq(Values)
    <3>1. stream \in Seq(Values) BY DEF RefTypeOK
    <3>2. Nothing \in Values OBVIOUS
    <3> HIDE DEF Values
    <3> QED BY <1>5, <2>1, <3>1, <3>2 DEF Serialise
  <2> QED BY <1>5, <2>2 DEF RefTypeOK, Serialise
<1>6. ASSUME NEW h \in Holders, NEW works \in BOOLEAN, Deserialise(h, works) PROVE RefTypeOK'
  <2>1. Head(stream) \in Values /\ stream' \in Seq(Values) BY <1>1, <1>6 DEF Deserialise
  <2>2. refs' = refs \/ refs' = More(Head(stream)) BY <1>6 DEF Deserialise
  <2>3. refs' \in [PyObjs -> Int] BY <1>0, <2>1, <2>2 DEF RefTypeOK
  <2>4. holds' = holds \/ holds' = [holds EXCEPT ![h] = Head(stream)]
        \/ holds' = [holds EXCEPT ![h] = Nothing]
    BY <1>6 DEF Deserialise
  <2>5. holds' \in [Holders -> Values]
    <3>1. Nothing \in Values OBVIOUS
    <3>2. holds \in [Holders -> Values] BY DEF RefTypeOK
    <3> HIDE DEF Values
    <3> QED BY <2>1, <2>4, <3>1, <3>2
  <2> QED BY <2>1, <2>3, <2>5 DEF RefTypeOK
<1>7. ASSUME NEW o \in PyObjs, Forget(o) PROVE RefTypeOK'
  BY <1>0, <1>7 DEF RefTypeOK, Forget
<1>8. CASE PythonGoes BY <1>8 DEF RefTypeOK, PythonGoes
<1> QED BY <1>2, <1>3, <1>4, <1>5, <1>6, <1>7, <1>8 DEF RefNext

\* Every operation of PyQt_PyObject keeps the count right.
LEMMA HeldStep ==
    ASSUME RefTypeOK, HeldIsAlive, RefNext PROVE HeldIsAlive'
<1>1. ASSUME NEW h \in Holders, NEW o \in PyObjs, WrapObject(h, o) PROVE HeldIsAlive'
  BY <1>1, AssignStep DEF WrapObject
<1>2. ASSUME NEW h \in Holders, NEW from \in Holders, CopyHolder(h, from) PROVE HeldIsAlive'
  <2>1. holds[from] \in PyObjs \cup {Nothing} BY DEF RefTypeOK
  <2> QED BY <1>2, <2>1, AssignStep DEF CopyHolder
<1>3. ASSUME NEW h \in Holders, DestroyHolder(h) PROVE HeldIsAlive'
  BY <1>3, ClearStep DEF DestroyHolder
<1>4. ASSUME NEW h \in Holders, NEW works \in BOOLEAN, Serialise(h, works) PROVE HeldIsAlive'
  BY <1>4 DEF Serialise, HeldIsAlive
<1>5. ASSUME NEW h \in Holders, NEW works \in BOOLEAN, Deserialise(h, works) PROVE HeldIsAlive'
  <2>1. CASE Head(stream) = Nothing BY <1>5, <2>1 DEF Deserialise, HeldIsAlive
  <2>2. CASE Head(stream) # Nothing /\ works
    <3>1. stream \in Seq(PyObjs \cup {Nothing}) /\ stream # << >> BY <1>5 DEF RefTypeOK, Deserialise
    <3>2. Head(stream) \in PyObjs \cup {Nothing} BY <3>1, HeadTailProperties
    <3>3. holds' = [holds EXCEPT ![h] = Head(stream)] /\ refs' = More(Head(stream))
      BY <1>5, <2>2 DEF Deserialise
    <3> QED BY <3>2, <3>3, AssignStep
  <2>3. CASE Head(stream) # Nothing /\ ~ works
    BY <1>5, <2>3, ClearStep DEF Deserialise
  <2> QED BY <2>1, <2>2, <2>3
<1>6. ASSUME NEW o \in PyObjs, Forget(o) PROVE HeldIsAlive'
  <2>1. refs[o] \in Int /\ Cardinality(HoldersOf(o)) \in Nat /\ refs[o] > Cardinality(HoldersOf(o))
    BY <1>6, HoldersFinite DEF Forget, HoldersOf, RefTypeOK
  <2>2. refs' = [refs EXCEPT ![o] = @ - 1] /\ holds' = holds
    BY <1>6, HoldersAssumption DEF Forget, Less
  <2>3. refs[o] - 1 >= Cardinality(HoldersOf(o)) BY <2>1
  <2> QED BY <2>2, <2>3 DEF HeldIsAlive, HoldersOf, RefTypeOK
<1>7. CASE PythonGoes BY <1>7 DEF HeldIsAlive, PythonGoes
<1> QED BY <1>1, <1>2, <1>3, <1>4, <1>5, <1>6, <1>7 DEF RefNext

\* An object has a reference for each QVariant or other C++ variable that holds it,
\* whatever is copied, assigned, written and read, and whether Python has gone or
\* not when they are destroyed (pyqtpyobject.cpp 33-90).
THEOREM HeldObjectsLive == RefSpec => []HeldIsAlive
<1>1. RefInit => RefTypeOK /\ HeldIsAlive
  <2> SUFFICES ASSUME RefInit PROVE RefTypeOK /\ HeldIsAlive OBVIOUS
  <2>1. RefTypeOK
    <3>1. << >> \in Seq(PyObjs \cup {Nothing}) BY EmptySeq
    <3> QED BY <3>1 DEF RefInit, RefTypeOK
  <2>2. \A o \in PyObjs : HoldersOf(o) = {} BY HoldersAssumption DEF RefInit, HoldersOf
  <2>3. HeldIsAlive
    <3>1. ASSUME NEW o \in PyObjs PROVE refs[o] = 1 /\ Cardinality(HoldersOf(o)) = 0
      BY <2>2, FS_EmptySet DEF RefInit
    <3> QED BY <2>2, <3>1 DEF HeldIsAlive, HoldersOf
  <2> QED BY <2>1, <2>3
<1>2. RefTypeOK /\ HeldIsAlive /\ [RefNext]_refVars => (RefTypeOK /\ HeldIsAlive)'
  <2> SUFFICES ASSUME RefTypeOK, HeldIsAlive, [RefNext]_refVars
               PROVE  RefTypeOK' /\ HeldIsAlive'
    OBVIOUS
  <2>1. CASE UNCHANGED refVars BY <2>1 DEF refVars, RefTypeOK, HeldIsAlive
  <2> QED BY <2>1, RefTypeStep, HeldStep
<1> QED BY <1>1, <1>2, PTL DEF RefSpec

\* What a run checks of both: reporting and copying leave sys.stderr and the
\* objects as the application expects them.
THEOREM StateIsKept == ExcSpec /\ RefSpec => []ReportsKeepState
<1>1. StderrRestored /\ HeldIsAlive => ReportsKeepState BY DEF ReportsKeepState
<1> QED BY <1>1, StderrIsRestored, HeldObjectsLive, PTL

-----------------------------------------------------------------------------
(* Signals.                                                                *)

\* A set of numbers up to n has a greatest one: the interval from there to n
\* is the smallest of its kind.
LEMMA GreatestNumber ==
    ASSUME NEW n \in Nat, NEW S \in SUBSET (0..n), S # {}
    PROVE  Max(S) \in S /\ \A m \in S : m <= Max(S)
<1> DEFINE T == {x..n : x \in S}
           R == StrictSubsetOrdering(0..n)
<1>1. IsWellFoundedOn(R, FiniteSubsetsOf(0..n))
  BY FS_StrictSubsetOrderingWellFounded
<1>2. T \subseteq FiniteSubsetsOf(0..n)
  <2> SUFFICES ASSUME NEW x \in S PROVE x..n \in FiniteSubsetsOf(0..n)
    OBVIOUS
  <2>1. x \in Int /\ n \in Int /\ x..n \subseteq 0..n OBVIOUS
  <2>2. IsFiniteSet(x..n) BY <2>1, FS_Interval
  <2> QED BY <2>1, <2>2 DEF FiniteSubsetsOf
<1>3. T # {} OBVIOUS
<1>4. PICK t \in T : \A u \in T : <<u, t>> \notin R
  <2> HIDE DEF T, R
  <2> QED BY <1>1, <1>2, <1>3, WFMin
<1>5. PICK x \in S : t = x..n OBVIOUS
<1>6. ASSUME NEW y \in S PROVE y <= x
  <2> SUFFICES ASSUME y > x PROVE FALSE
    OBVIOUS
  <2>1. y..n \subseteq x..n /\ y..n \subseteq 0..n /\ x..n \subseteq 0..n OBVIOUS
  <2>2. x \in x..n /\ x \notin y..n OBVIOUS
  <2>3. <<y..n, x..n>> \in R BY <2>1, <2>2 DEF StrictSubsetOrdering
  <2> QED BY <2>3, <1>4, <1>5
<1>7. \A y \in S : x >= y BY <1>6
<1> HIDE DEF T, R
<1>8. Max(S) \in S /\ \A y \in S : Max(S) >= y
  BY <1>7, Zenon DEF Max
<1> QED BY <1>8

\* It has a least one, too.
LEMMA LeastNumber ==
    ASSUME NEW n \in Nat, NEW S \in SUBSET (0..n), S # {}
    PROVE  Min(S) \in S /\ \A m \in S : Min(S) <= m
<1> DEFINE T == {n - x : x \in S}
<1>1. T \in SUBSET (0..n)
  <2> SUFFICES ASSUME NEW x \in S PROVE n - x \in 0..n
    OBVIOUS
  <2>1. x \in 0..n OBVIOUS
  <2> QED BY <2>1
<1>a. T # {} OBVIOUS
<1>2. Max(T) \in T /\ \A m \in T : m <= Max(T)
  <2> HIDE DEF T
  <2> QED BY <1>1, <1>a, GreatestNumber
<1>3. PICK x \in S : Max(T) = n - x BY <1>2
<1>4. ASSUME NEW y \in S PROVE x <= y
  <2>1. n - y \in T OBVIOUS
  <2>2. n - y <= n - x BY <2>1, <1>2, <1>3
  <2> QED BY <2>2
<1> HIDE DEF T
<1>5. \A y \in S : x =< y BY <1>4
<1>6. Min(S) \in S /\ \A y \in S : Min(S) =< y
  BY <1>5, Zenon DEF Min
<1> QED BY <1>6

\* A call goes on with one argument less as long as it is to be tried again.
LEMMA AttemptsMade ==
    ASSUME NEW callable, NEW n \in Nat
    PROVE  \E last \in 0..n :
             /\ Attempts(callable, n) = [i \in 1..(n - last + 1) |-> Attempt(callable, n - i + 1)]
             /\ ~ TryAgain(Attempt(callable, last))
             /\ \A k \in (last + 1)..n : TryAgain(Attempt(callable, k))
<1> DEFINE S == {k \in 0..n : ~ TryAgain(Attempt(callable, k))}
<1>1. Attempt(callable, 0).n = 0 BY DEF Attempt
<1>2. ~ TryAgain(Attempt(callable, 0)) BY <1>1 DEF TryAgain
<1>3. S \in SUBSET (0..n) /\ 0 \in S BY <1>2
<1>4. Max(S) \in S /\ \A m \in S : m <= Max(S)
  <2> HIDE DEF S
  <2> QED BY <1>3, GreatestNumber
<1>5. Max(S) \in 0..n /\ ~ TryAgain(Attempt(callable, Max(S))) BY <1>4
<1>6. ASSUME NEW k \in (Max(S) + 1)..n PROVE TryAgain(Attempt(callable, k))
  <2>1. k \in 0..n /\ k > Max(S) BY <1>5
  <2>2. k \notin S BY <2>1, <1>4, <1>5
  <2> QED BY <2>1, <2>2
<1>7. Attempts(callable, n) =
        [i \in 1..(n - Max(S) + 1) |-> Attempt(callable, n - i + 1)]
  BY DEF Attempts
<1> HIDE DEF S
<1> QED BY <1>5, <1>6, <1>7

\* What is attempted, tried again and reported of a call of a callable that takes
\* some numbers of arguments.
LEMMA CallMade ==
    ASSUME NEW callable \in Callables, NEW n \in Nat
    PROVE  LET attempts == Attempts(callable, n)
           IN  \E last \in 0..n :
             /\ DOMAIN attempts = 1..(n - last + 1)
             /\ Len(attempts) = n - last + 1
             /\ \A i \in DOMAIN attempts : attempts[i] = Attempt(callable, n - i + 1)
             /\ Head(attempts) = Attempt(callable, n)
             /\ Last(attempts) = Attempt(callable, last)
             /\ ~ TryAgain(Attempt(callable, last))
             /\ \A k \in (last + 1)..n : TryAgain(Attempt(callable, k))
<1> DEFINE attempts == Attempts(callable, n)
<1>1. PICK last \in 0..n :
        /\ attempts = [i \in 1..(n - last + 1) |-> Attempt(callable, n - i + 1)]
        /\ ~ TryAgain(Attempt(callable, last))
        /\ \A k \in (last + 1)..n : TryAgain(Attempt(callable, k))
  BY AttemptsMade
<1> HIDE DEF attempts
<1>2. n - last + 1 \in Nat /\ n - last + 1 >= 1 OBVIOUS
<1>3. DOMAIN attempts = 1..(n - last + 1) BY <1>1
<1>4. \A i \in DOMAIN attempts : attempts[i] = Attempt(callable, n - i + 1) BY <1>1
<1>5. Len(attempts) = n - last + 1
  <2> DEFINE V == {Attempt(callable, n - i + 1) : i \in 1..(n - last + 1)}
  <2>1. attempts \in [1..(n - last + 1) -> V] BY <1>1
  <2>2. attempts \in Seq(V)
    <3> HIDE DEF V
    <3> QED BY <2>1, <1>2
  <2> HIDE DEF V
  <2>3. Len(attempts) \in Nat /\ DOMAIN attempts = 1..Len(attempts) BY <2>2, LenProperties
  <2> QED BY <2>3, <1>3, <1>2
<1>6. Head(attempts) = attempts[1] /\ 1 \in DOMAIN attempts /\ n - 1 + 1 = n
  BY <1>3, <1>2
<1>7. Last(attempts) = attempts[n - last + 1] /\ n - last + 1 \in DOMAIN attempts
  BY <1>3, <1>5, <1>2 DEF Last
<1>8. n - (n - last + 1) + 1 = last OBVIOUS
<1>9. Head(attempts) = Attempt(callable, n) BY <1>6, <1>4
<1>10. Last(attempts) = Attempt(callable, last) BY <1>7, <1>8, <1>4
<1> QED BY <1>1, <1>3, <1>4, <1>5, <1>9, <1>10 DEF attempts

\* What is tried again did not enter a Python function; what succeeds did.
LEMMA AttemptEnds ==
    ASSUME NEW callable \in Callables, NEW n \in Nat
    PROVE  /\ Attempt(callable, n).n = n
           /\ Attempt(callable, n).entered <=> n \in callable.accepts
           /\ Attempt(callable, n).traceback => Attempt(callable, n).entered
           /\ Attempt(callable, n).raised = "" => Attempt(callable, n).entered
           /\ Attempt(callable, n).entered /\ callable.python =>
                /\ ~ TryAgain(Attempt(callable, n))
                /\ Attempt(callable, n).raised # "" => Attempt(callable, n).traceback
           /\ Attempt(callable, n).entered /\ callable.inside = "" =>
                /\ ~ TryAgain(Attempt(callable, n))
                /\ Attempt(callable, n).raised = ""
           /\ ~ Attempt(callable, n).entered /\ n > 0 => TryAgain(Attempt(callable, n))
<1> /\ callable.inside \in {"", "TypeError", "ValueError"}
    /\ callable.python \in BOOLEAN
  BY DEF Callables
<1>1. CASE n \notin callable.accepts
  <2>1. /\ Attempt(callable, n).n = n /\ Attempt(callable, n).entered = FALSE
        /\ Attempt(callable, n).raised = "TypeError" /\ Attempt(callable, n).traceback = FALSE
    BY <1>1 DEF Attempt
  <2> QED BY <2>1, <1>1 DEF TryAgain
<1>2. CASE n \in callable.accepts
  <2>1. Attempt(callable, n).n = n BY <1>2 DEF Attempt
  <2>2. Attempt(callable, n).raised = callable.inside BY <1>2 DEF Attempt
  <2>3. Attempt(callable, n).entered = TRUE BY <1>2 DEF Attempt
  <2>4. Attempt(callable, n).traceback <=> (callable.inside # "" /\ callable.python)
    BY <1>2 DEF Attempt
  <2> QED BY <2>1, <2>2, <2>3, <2>4, <1>2 DEF TryAgain
<1> QED BY <1>1, <1>2

\* A Python function is entered once at most, by the last attempt, and the error
\* of a call that fails is its own or that of all the arguments.
LEMMA CalledOnce ==
    ASSUME NEW callable \in Callables, NEW args, Len(args) \in Nat
    PROVE  LET is == Invoke(callable, args)
               entered == {i \in DOMAIN is.attempts : is.attempts[i].entered}
           IN  /\ callable.python => Cardinality(entered) <= 1
               /\ is.result = "Failed" =>
                    /\ entered = {} => is.error = <<Len(args)>>
                    /\ callable.python => \A i \in entered : is.error = <<is.attempts[i].n>>
<1> DEFINE n == Len(args)
           attempts == Attempts(callable, n)
           is == Invoke(callable, args)
           entered == {i \in DOMAIN is.attempts : is.attempts[i].entered}
<1>1. CASE callable.gone
  <2>1. is.result = "Ignored" /\ is.attempts = << >> BY <1>1 DEF Invoke
  <2>2. entered = {} BY <2>1
  <2>3. Cardinality(entered) = 0 BY <2>2, FS_EmptySet
  <2>4. Cardinality(entered) <= 1 BY <2>3
  <2> QED BY <2>1, <2>4
<1>2. CASE ~ callable.gone
  <2>1. PICK last \in 0..n :
          /\ DOMAIN attempts = 1..(n - last + 1)
          /\ Len(attempts) = n - last + 1
          /\ \A i \in DOMAIN attempts : attempts[i] = Attempt(callable, n - i + 1)
          /\ Head(attempts) = Attempt(callable, n)
          /\ Last(attempts) = Attempt(callable, last)
          /\ ~ TryAgain(Attempt(callable, last))
          /\ \A k \in (last + 1)..n : TryAgain(Attempt(callable, k))
    BY CallMade
  <2>2. /\ is.attempts = attempts
        /\ is.result = "Failed" =>
             /\ Last(attempts).raised # ""
             /\ is.error = <<Reported(attempts).n>>
    BY <1>2 DEF Invoke
  <2>7. entered = {i \in DOMAIN attempts : attempts[i].entered} BY <2>2
  <2> HIDE DEF attempts, is, entered
  <2>3. ASSUME callable.python, NEW i \in entered PROVE i = n - last + 1
    <3>1. i \in 1..(n - last + 1) /\ attempts[i] = Attempt(callable, n - i + 1)
      BY <2>1, <2>7
    <3>2. n - i + 1 \in Nat /\ n - i + 1 <= n /\ n - i + 1 >= last BY <3>1
    <3>3. Attempt(callable, n - i + 1).entered BY <2>7, <3>1
    <3>4. ~ TryAgain(Attempt(callable, n - i + 1)) BY <2>3, <3>2, <3>3, AttemptEnds
    <3>5. n - i + 1 \notin (last + 1)..n BY <3>4, <2>1
    <3>6. n - i + 1 = last BY <3>2, <3>5
    <3> QED BY <3>1, <3>6
  <2>4. ASSUME callable.python PROVE Cardinality(entered) <= 1
    <3>1. entered \subseteq {n - last + 1} BY <2>3, <2>4
    <3>2. IsFiniteSet({n - last + 1}) /\ Cardinality({n - last + 1}) = 1 BY FS_Singleton
    <3>3. Cardinality(entered) <= Cardinality({n - last + 1}) BY <3>1, <3>2, FS_Subset
    <3> QED BY <3>2, <3>3
  <2>5. ASSUME is.result = "Failed", entered = {} PROVE is.error = <<n>>
    <3>1. n - last + 1 \in DOMAIN attempts /\ n - (n - last + 1) + 1 = last BY <2>1
    <3>2. ~ Attempt(callable, last).entered BY <2>5, <2>7, <2>1, <3>1
    <3>6. last \in Nat OBVIOUS
    <3>3. ~ Last(attempts).traceback BY <3>2, <3>6, <2>1, AttemptEnds
    <3>4. Reported(attempts) = Attempt(callable, n) BY <3>3, <2>1 DEF Reported
    <3>5. Reported(attempts).n = n BY <3>4, AttemptEnds
    <3> QED BY <3>5, <2>2, <2>5
  <2>6. ASSUME is.result = "Failed", callable.python, NEW i \in entered
        PROVE  is.error = <<is.attempts[i].n>>
    <3>1. i = n - last + 1 /\ n - i + 1 = last /\ i \in DOMAIN attempts
      BY <2>3, <2>6, <2>7, <2>1
    <3>2. attempts[i] = Attempt(callable, last) /\ attempts[i].entered BY <3>1, <2>1, <2>7
    <3>5. last \in Nat OBVIOUS
    <3>6. Last(attempts).entered /\ Last(attempts).raised # "" BY <3>2, <2>1, <2>2, <2>6
    <3>7. Attempt(callable, last).entered /\ Attempt(callable, last).raised # ""
      BY <3>6, <2>1
    <3>8. callable.python BY <2>6
    <3>9. Attempt(callable, last).traceback BY <3>5, <3>7, <3>8, AttemptEnds
    <3>3. Last(attempts).traceback BY <3>9, <2>1
    <3>4. Reported(attempts) = attempts[i] BY <3>2, <3>3, <2>1 DEF Reported
    <3> QED BY <3>4, <2>2, <2>6
  <2> QED BY <2>4, <2>5, <2>6 DEF entered, is
<1> QED BY <1>1, <1>2

\* A signature is a short sequence of types.
LEMMA SignatureIsSequence ==
    ASSUME NEW s \in Signatures
    PROVE  s \in Seq(Types) /\ Len(s) \in 0..MaxArgs /\ s # <<"none">>
<1>1. MaxArgs \in Nat /\ "none" \notin Types BY SignalsAssumption
<1>2. PICK m \in 0..MaxArgs : s \in [1..m -> Types] BY DEF Signatures, SeqOf
<1>3. m \in Nat BY <1>1, <1>2
<1>4. s \in Seq(Types) BY <1>2, <1>3
<1>5. Len(s) \in Nat /\ DOMAIN s = 1..Len(s) BY <1>4, LenProperties
<1>6. Len(s) = m BY <1>2, <1>3, <1>5
<1>7. ASSUME s = <<"none">> PROVE FALSE
  <2>1. Len(s) = 1 /\ s[1] = "none" BY <1>7
  <2>2. 1 \in 1..Len(s) BY <2>1
  <2>3. s[1] \in Types BY <2>2, <1>4, ElementOfSeq
  <2> QED BY <2>1, <2>3, <1>1
<1> QED BY <1>2, <1>4, <1>6, <1>7

\* If one signature is as long as all others, it has the most arguments.
LEMMA LongestHasMost ==
    ASSUME NEW D \in SUBSET Signatures, NEW d \in D, \A e \in D : Len(e) <= Len(d)
    PROVE  Max({Len(e) : e \in D}) = Len(d)
<1> DEFINE L == {Len(e) : e \in D}
<1>1. \A e \in D : Len(e) \in 0..MaxArgs BY SignatureIsSequence
<1>2. L \in SUBSET (0..MaxArgs) /\ Len(d) \in L BY <1>1
<1>3. \A l \in L : l <= Len(d) OBVIOUS
<1> HIDE DEF L
<1>4. Max(L) \in L /\ \A l \in L : l <= Max(L) BY <1>2, GreatestNumber, SignalsAssumption
<1>5. Max(L) <= Len(d) /\ Len(d) <= Max(L) BY <1>2, <1>3, <1>4
<1>7. Max(L) \in 0..MaxArgs /\ Len(d) \in 0..MaxArgs /\ MaxArgs \in Nat
  BY <1>2, <1>4, SignalsAssumption
<1>6. Max(L) = Len(d) BY <1>5, <1>7
<1> QED BY <1>6 DEF L

\* The decoration that is chosen fits and is the longest of those that do.
LEMMA DecorationChosen ==
    ASSUME NEW signal \in Signatures, NEW decorations \in SeqOf(Signatures, 2)
    PROVE  LET D == {e \in Range(decorations) : Fits(e, signal)}
               d == SlotFromDecorations(decorations, signal)
           IN  IF D = {} THEN d = <<"none">>
               ELSE d \in D /\ \A e \in D : Len(e) <= Len(d)
<1> DEFINE D == {e \in Range(decorations) : Fits(e, signal)}
           fit == {i \in DOMAIN decorations : Fits(decorations[i], signal)}
           best == {i \in fit : \A j \in fit : Len(decorations[j]) <= Len(decorations[i])}
           d == SlotFromDecorations(decorations, signal)
           L == {Len(decorations[i]) : i \in fit}
<1>1. PICK n \in 0..2 : decorations \in [1..n -> Signatures] BY DEF SeqOf
<1>2. n \in Nat /\ fit \in SUBSET (0..n) /\ best \in SUBSET (0..n) BY <1>1
<1>3. \A i \in fit : decorations[i] \in Signatures BY <1>1
<1>4. \A i \in fit : Len(decorations[i]) \in 0..MaxArgs BY <1>3, SignatureIsSequence
<1>5. D = {decorations[i] : i \in fit} BY DEF Range
<1>6. CASE fit = {}
  <2>1. D = {} BY <1>5, <1>6
  <2>2. d = <<"none">> BY <1>6 DEF SlotFromDecorations
  <2> QED BY <2>1, <2>2
<1>7. CASE fit # {}
  <2>1. L \in SUBSET (0..MaxArgs) /\ L # {} BY <1>4, <1>7
  <2>2. Max(L) \in L /\ \A l \in L : l <= Max(L)
    <3> HIDE DEF L
    <3> QED BY <2>1, GreatestNumber, SignalsAssumption
  <2>3. PICK i \in fit : Max(L) = Len(decorations[i]) BY <2>2
  <2>4. \A j \in fit : Len(decorations[j]) <= Len(decorations[i]) BY <2>2, <2>3
  <2>5. i \in best BY <2>4
  <2>6. Min(best) \in best
    <3> HIDE DEF best
    <3> QED BY <2>5, <1>2, LeastNumber
  <2>7. d = decorations[Min(best)] BY <1>7 DEF SlotFromDecorations
  <2>8. Min(best) \in fit /\ \A j \in fit : Len(decorations[j]) <= Len(d) BY <2>6, <2>7
  <2>9. d \in D BY <2>7, <2>8, <1>5
  <2> QED BY <2>8, <2>9, <1>5
<1> QED BY <1>6, <1>7

\* A slot of Qt that fits is the longest prefix of the signal among those there are.
LEMMA QtSlotChosen ==
    ASSUME NEW signal \in Signatures, NEW slots \in SUBSET Signatures
    PROVE  LET D == {e \in slots : Fits(e, signal)}
               d == QtSlot(slots, signal)
           IN  IF D = {} THEN d = <<"none">>
               ELSE d \in D /\ \A e \in D : Len(e) <= Len(d)
<1> DEFINE D == {e \in slots : Fits(e, signal)}
           from == {n \in 0..Len(signal) : SubSeq(signal, 1, n) \in slots}
           d == QtSlot(slots, signal)
<1>1. signal \in Seq(Types) /\ Len(signal) \in Nat BY SignatureIsSequence, SignalsAssumption
<1>2. \A n \in 0..Len(signal) : Len(SubSeq(signal, 1, n)) = n
  <2> SUFFICES ASSUME NEW n \in 0..Len(signal) PROVE Len(SubSeq(signal, 1, n)) = n
    OBVIOUS
  <2>1. n \in Nat /\ n <= Len(signal) BY <1>1
  <2> QED BY <1>1, <2>1, SubSeqProperties
<1>3. \A n \in from : SubSeq(signal, 1, n) \in D /\ Len(SubSeq(signal, 1, n)) = n
  <2> SUFFICES ASSUME NEW n \in from
               PROVE  SubSeq(signal, 1, n) \in D /\ Len(SubSeq(signal, 1, n)) = n
    OBVIOUS
  <2>1. n \in 0..Len(signal) /\ SubSeq(signal, 1, n) \in slots OBVIOUS
  <2>2. Len(SubSeq(signal, 1, n)) = n /\ n <= Len(signal) BY <2>1, <1>1, <1>2
  <2>3. Fits(SubSeq(signal, 1, n), signal) BY <2>2 DEF Fits
  <2> QED BY <2>1, <2>2, <2>3
<1>4. \A e \in D : Len(e) \in from /\ SubSeq(signal, 1, Len(e)) = e
  <2> SUFFICES ASSUME NEW e \in D PROVE Len(e) \in from /\ SubSeq(signal, 1, Len(e)) = e
    OBVIOUS
  <2>1. e \in Signatures /\ Len(e) \in Nat BY SignatureIsSequence, SignalsAssumption
  <2>2. e \in slots /\ Len(e) <= Len(signal) /\ SubSeq(signal, 1, Len(e)) = e
    BY DEF Fits
  <2>3. Len(e) \in 0..Len(signal) BY <2>1, <2>2, <1>1
  <2> QED BY <2>2, <2>3
<1>5. CASE from = {}
  <2>1. D = {} BY <1>4, <1>5
  <2>2. d = <<"none">> BY <1>5 DEF QtSlot
  <2> QED BY <2>1, <2>2
<1>6. CASE from # {}
  <2>1. Max(from) \in from /\ \A n \in from : n <= Max(from)
    <3>1. from \in SUBSET (0..Len(signal)) OBVIOUS
    <3> HIDE DEF from
    <3> QED BY <3>1, <1>6, <1>1, GreatestNumber
  <2>2. d = SubSeq(signal, 1, Max(from)) BY <1>6 DEF QtSlot
  <2>3. d \in D /\ Len(d) = Max(from) BY <2>1, <2>2, <1>3
  <2>4. \A e \in D : Len(e) <= Len(d) BY <2>1, <2>3, <1>4
  <2> QED BY <2>3, <2>4
<1> QED BY <1>5, <1>6

\* What may be connected.
LEMMA ReceiverKinds ==
    ASSUME NEW slot \in Receivers
    PROVE  /\ slot.kind \in {"signal", "not callable", "decorated", "wrapped", "callable"}
           /\ slot.kind = "decorated" => slot.decorations \in SeqOf(Signatures, 2)
           /\ slot.kind = "wrapped" => slot.slots \in SUBSET Signatures
<1> DEFINE D == {d \in SeqOf(Signatures, 2) : d # << >>}
           W == {s \in SUBSET Signatures : Cardinality(s) <= 2}
<1>1. D \subseteq SeqOf(Signatures, 2) OBVIOUS
<1>2. W \subseteq SUBSET Signatures OBVIOUS
<1> DEFINE R1 == [kind : {"signal"}, args : Signatures]
           R2 == [kind : {"decorated"}, decorations : D, qobject : BOOLEAN]
           R3 == [kind : {"wrapped"}, slots : W, qobject : BOOLEAN]
           R4 == {[kind |-> "callable"], [kind |-> "not callable"]}
<1>9. Receivers = R1 \cup R2 \cup R3 \cup R4 BY Zenon DEF Receivers
<1>10. slot \in R1 \/ slot \in R2 \/ slot \in R3 \/ slot \in R4
  <2> HIDE DEF R1, R2, R3, R4
  <2> QED BY <1>9
<1>3. \/ slot \in [kind : {"signal"}, args : Signatures]
      \/ slot \in [kind : {"decorated"}, decorations : D, qobject : BOOLEAN]
      \/ slot \in [kind : {"wrapped"}, slots : W, qobject : BOOLEAN]
      \/ slot = [kind |-> "callable"] \/ slot = [kind |-> "not callable"]
  BY <1>10, Zenon
<1> HIDE DEF D, W
<1>4. CASE slot \in [kind : {"signal"}, args : Signatures] BY <1>4
<1>5. CASE slot \in [kind : {"decorated"}, decorations : D, qobject : BOOLEAN] BY <1>1, <1>5
<1>6. CASE slot \in [kind : {"wrapped"}, slots : W, qobject : BOOLEAN] BY <1>2, <1>6
<1>7. CASE slot = [kind |-> "callable"] BY <1>7
<1>8. CASE slot = [kind |-> "not callable"] BY <1>8
<1> QED BY <1>3, <1>4, <1>5, <1>6, <1>7, <1>8

\* What is connected takes as many arguments as the best signature of the slot.
LEMMA ConnectedToBest ==
    ASSUME NEW signal \in Signatures, NEW slot \in Receivers,
           ConnectTo(signal, slot).error = "", ConnectTo(signal, slot).to # "signal"
    PROVE  LET c == ConnectTo(signal, slot)
           IN  Len(c.args) \in 0..MaxArgs /\ Len(c.args) = MostArguments(signal, slot, c.to)
<1> DEFINE c == ConnectTo(signal, slot)
           fits(slots) == {e \in slots : Fits(e, signal)}
<1>1. Len(signal) \in 0..MaxArgs BY SignatureIsSequence
<1>2. CASE slot.kind = "signal"
  <2>1. c.to = "signal" \/ c.error = "connect() failed" BY <1>2 DEF ConnectTo
  <2> QED BY <2>1
<1>3. CASE slot.kind = "not callable"
  <2>1. c.error = "bad callable" BY <1>3 DEF ConnectTo
  <2> QED BY <2>1
<1>4. CASE slot.kind = "decorated"
  <2> DEFINE d == SlotFromDecorations(slot.decorations, signal)
  <2>1. slot.decorations \in SeqOf(Signatures, 2) BY <1>4, ReceiverKinds
  <2>2. Range(slot.decorations) \subseteq Signatures 
    <3>1. PICK m \in 0..2 : slot.decorations \in [1..m -> Signatures] BY <2>1 DEF SeqOf
    <3> QED BY <3>1 DEF Range
  <2>3. d # <<"none">> /\ c.args = d
    BY <1>4 DEF ConnectTo
  <2>4. d \in fits(Range(slot.decorations))
        /\ \A e \in fits(Range(slot.decorations)) : Len(e) <= Len(d)
    BY <2>1, <2>3, DecorationChosen
  <2>5. fits(Range(slot.decorations)) \in SUBSET Signatures BY <2>2
  <2>6. Max({Len(e) : e \in fits(Range(slot.decorations))}) = Len(d)
    BY <2>4, <2>5, LongestHasMost
  <2>7. MostArguments(signal, slot, c.to) = Len(d) BY <1>4, <2>6 DEF MostArguments
  <2>8. d \in Signatures BY <2>4, <2>5
  <2>9. Len(d) \in 0..MaxArgs BY <2>8, SignatureIsSequence
  <2> QED BY <2>3, <2>7, <2>9
<1>5. CASE slot.kind = "wrapped"
  <2> DEFINE d == QtSlot(slot.slots, signal)
  <2>1. slot.slots \in SUBSET Signatures BY <1>5, ReceiverKinds
  <2>2. CASE c.to = "slot"
    <3>1. d # <<"none">> /\ c.args = d BY <1>5, <2>2 DEF ConnectTo
    <3>2. d \in fits(slot.slots) /\ \A e \in fits(slot.slots) : Len(e) <= Len(d)
      BY <2>1, <3>1, QtSlotChosen
    <3>3. fits(slot.slots) \in SUBSET Signatures BY <2>1
    <3>4. Max({Len(e) : e \in fits(slot.slots)}) = Len(d) BY <3>2, <3>3, LongestHasMost
    <3>5. MostArguments(signal, slot, c.to) = Len(d) BY <1>5, <2>2, <3>4 DEF MostArguments
    <3>6. d \in Signatures BY <3>2, <3>3
    <3>7. Len(d) \in 0..MaxArgs BY <3>6, SignatureIsSequence
    <3> QED BY <3>1, <3>5, <3>7
  <2>3. CASE c.to # "slot"
    <3>1. c.args = signal BY <1>5, <2>3 DEF ConnectTo
    <3>2. MostArguments(signal, slot, c.to) = Len(signal) BY <1>5, <2>3 DEF MostArguments
    <3> QED BY <3>1, <3>2, <1>1
  <2> QED BY <2>2, <2>3
<1>6. CASE slot.kind = "callable"
  <2>1. c.args = signal BY <1>6 DEF ConnectTo
  <2>2. MostArguments(signal, slot, c.to) = Len(signal) BY <1>6 DEF MostArguments
  <2> QED BY <2>1, <2>2, <1>1
<1>7. slot.kind \in {"signal", "not callable", "decorated", "wrapped", "callable"}
  BY ReceiverKinds
<1> QED BY <1>2, <1>3, <1>4, <1>5, <1>6, <1>7

\* A callable that has no error of its own is given as many arguments as it takes.
LEMMA PrefixGiven ==
    ASSUME NEW callable \in Callables, NEW n \in Nat
    PROVE  callable.inside = "" =>
             LET taken == {m \in 0..n : m \in callable.accepts}
                 final == Last(Attempts(callable, n))
             IN  IF taken = {} THEN final.raised # ""
                 ELSE final.raised = "" /\ final.n = Max(taken)
<1> DEFINE attempts == Attempts(callable, n)
           taken == {m \in 0..n : m \in callable.accepts}
<1>1. SUFFICES ASSUME callable.inside = ""
               PROVE  IF taken = {} THEN Last(attempts).raised # ""
                      ELSE Last(attempts).raised = "" /\ Last(attempts).n = Max(taken)
  OBVIOUS
<1>2. \A m \in Nat : m > 0 => (TryAgain(Attempt(callable, m)) <=> m \notin callable.accepts)
  BY <1>1, AttemptEnds
<1>3. PICK last \in 0..n :
        /\ Last(attempts) = Attempt(callable, last)
        /\ ~ TryAgain(Attempt(callable, last))
        /\ \A k \in (last + 1)..n : TryAgain(Attempt(callable, k))
  BY CallMade
<1> HIDE DEF attempts
<1>4. last \in Nat /\ n \in Nat OBVIOUS
<1>5. ASSUME NEW m \in taken PROVE m <= last
  <2>1. m \in Nat /\ m <= n /\ m \in callable.accepts OBVIOUS
  <2>2. ASSUME m > last PROVE FALSE
    <3>1. m \in (last + 1)..n /\ m > 0 BY <2>1, <2>2, <1>4
    <3> QED BY <3>1, <2>1, <1>2, <1>3
  <2> QED BY <2>1, <2>2, <1>4
<1>6. CASE last \in callable.accepts
  <2>1. Last(attempts).n = last /\ Last(attempts).raised = ""
    <3>1. Attempt(callable, last).entered /\ Attempt(callable, last).n = last
      BY <1>4, <1>6, AttemptEnds
    <3>2. Attempt(callable, last).raised = "" BY <3>1, <1>1, <1>4, AttemptEnds
    <3> QED BY <3>1, <3>2, <1>3
  <2>2. last \in taken BY <1>6
  <2>3. taken \in SUBSET (0..n) OBVIOUS
  <2>4. Max(taken) = last
    <3> HIDE DEF taken
    <3>1. Max(taken) \in taken /\ last <= Max(taken) BY <2>2, <2>3, GreatestNumber
    <3>2. Max(taken) <= last BY <3>1, <1>5
    <3>3. Max(taken) \in 0..n BY <3>1, <2>3
    <3> QED BY <3>1, <3>2, <3>3, <1>4
  <2> QED BY <2>1, <2>2, <2>4
<1>7. CASE last \notin callable.accepts
  <2>1. Last(attempts).raised # "" BY <1>3, <1>4, <1>7, AttemptEnds
  <2>2. last = 0 BY <1>2, <1>3, <1>4, <1>7
  <2>3. ASSUME NEW m \in taken PROVE FALSE
    <3>1. m \in Nat /\ m \in callable.accepts /\ m <= 0 BY <2>2, <1>5
    <3>2. m = last BY <3>1, <2>2
    <3> QED BY <3>1, <3>2, <1>7
  <2>4. taken = {} BY <2>3
  <2> QED BY <2>1, <2>4
<1> QED BY <1>6, <1>7

\* What the application asks for of a signal, by its kind.
LEMMA AskedIs ==
    ASSUME Asked
    PROVE  /\ asked.what \in {"table", "declare", "connect", "emit", "call"}
           /\ asked.what = "connect" =>
                /\ asked.signal \in Signatures /\ asked.slot \in Receivers
                /\ asked.callable \in Callables
                /\ asked.callable.inside = "" /\ ~ asked.callable.gone
           /\ asked.what = "call" =>
                asked.args \in Signatures /\ asked.callable \in Callables
<1> DEFINE C == [accepts : SUBSET (0..MaxArgs), inside : {""}, python : {TRUE}, gone : {FALSE}]
           O == SeqOf(Unchecked, MaxTable) \ {<< >>}
<1>1. \A c \in C : c \in Callables /\ c.inside = "" /\ ~ c.gone BY DEF Callables
<1>2. \/ asked \in [what : {"table"}, table : Tables]
      \/ asked \in [what : {"declare"}, overloads : O, name : {"", "given"}]
      \/ asked \in [what : {"connect"}, signal : Signatures, slot : Receivers, callable : C]
      \/ asked \in [what : {"emit"}, signal : Signatures, values : Signatures,
                    blocked : BOOLEAN, known : BOOLEAN]
      \/ asked \in [what : {"call"}, args : Signatures, callable : Callables]
  BY Zenon DEF Asked
<1> HIDE DEF C, O
<1>3. CASE asked \in [what : {"table"}, table : Tables] BY <1>3
<1>4. CASE asked \in [what : {"declare"}, overloads : O, name : {"", "given"}] BY <1>4
<1>5. CASE asked \in [what : {"connect"}, signal : Signatures, slot : Receivers, callable : C]
  <2>1. /\ asked.what = "connect" /\ asked.signal \in Signatures /\ asked.slot \in Receivers
        /\ asked.callable \in C
    BY <1>5
  <2>2. /\ asked.callable \in Callables /\ asked.callable.inside = ""
        /\ ~ asked.callable.gone
    BY <2>1, <1>1
  <2> QED BY <2>1, <2>2
<1>6. CASE asked \in [what : {"emit"}, signal : Signatures, values : Signatures,
                      blocked : BOOLEAN, known : BOOLEAN]
  BY <1>6
<1>7. CASE asked \in [what : {"call"}, args : Signatures, callable : Callables] BY <1>7
<1> QED BY <1>2, <1>3, <1>4, <1>5, <1>6, <1>7

\* The outcome of what is asked for: of a connection and of a call of a slot.
LEMMA SlotCalledStep ==
    ASSUME Asked, SlotCalledOnce, [SigNext]_sigVars
    PROVE  Asked' /\ SlotCalledOnce'
<1>1. CASE UNCHANGED sigVars
  BY <1>1 DEF sigVars, Asked, SlotCalledOnce, PrefixDelivered, EnteredOnce, ErrorIsTheSlots
<1>2. CASE SigNext
  <2>1. Asked' /\ asked' = asked BY <1>2 DEF SigNext, Asked
  <2>2. PrefixDelivered'
    <3> DEFINE a == asked
               c == ConnectTo(a.signal, a.slot)
               most == MostArguments(a.signal, a.slot, c.to)
               taken == {n \in 0..most : n \in a.callable.accepts}
               call == Invoke(a.callable, c.args)
    <3> SUFFICES ASSUME a.what = "connect", Len(answer'.is.call) = 2
                 PROVE  /\ answer'.is.call[2] = call
                        /\ answer'.is.connection = c
                        /\ IF taken = {} THEN call.result = "Failed"
                           ELSE call.result = "Succeeded" /\ Last(call.attempts).n = Max(taken)
      BY <2>1 DEF PrefixDelivered
    <3>1. answer'.is = Delivered(a) BY <1>2 DEF SigNext
    <3>2. c.error = "" /\ c.to # "signal"
      <4>1. ASSUME c.error # "" \/ c.to = "signal" PROVE FALSE
        <5>1. answer'.is = [connection |-> c, call |-> <<"none">>]
          BY <3>1, <4>1, Zenon DEF Delivered
        <5>2. answer'.is.call = <<"none">> BY <5>1
        <5> QED BY <5>2
      <4> QED BY <4>1
    <3>3. answer'.is.call = <<"made", call>> /\ answer'.is.connection = c
      <4>1. answer'.is = [connection |-> c, call |-> <<"made", call>>]
        BY <3>1, <3>2, Zenon DEF Delivered
      <4> HIDE DEF c, call
      <4> QED BY <4>1
    <3>4. /\ a.signal \in Signatures /\ a.slot \in Receivers /\ a.callable \in Callables
          /\ a.callable.inside = "" /\ ~ a.callable.gone
      BY AskedIs
    <3>5. Len(c.args) \in 0..MaxArgs /\ Len(c.args) = most BY <3>2, <3>4, ConnectedToBest
    <3>6. most \in Nat BY <3>5, SignalsAssumption
    <3>7. IF taken = {} THEN Last(Attempts(a.callable, most)).raised # ""
          ELSE /\ Last(Attempts(a.callable, most)).raised = ""
               /\ Last(Attempts(a.callable, most)).n = Max(taken)
      <4> HIDE DEF most
      <4> QED BY <3>4, <3>6, PrefixGiven
    <3>8. /\ call.result = IF Last(Attempts(a.callable, most)).raised = "" THEN "Succeeded"
                           ELSE "Failed"
          /\ call.attempts = Attempts(a.callable, most)
      <4> HIDE DEF most, c
      <4> QED BY <3>4, <3>5 DEF Invoke
    <3>9. answer'.is.call[2] = call BY <3>3
    <3> HIDE DEF most, c, call, taken
    <3> QED BY <3>3, <3>7, <3>8, <3>9
  <2>3. ASSUME asked.what = "call"
        PROVE  /\ answer'.is = Invoke(asked.callable, asked.args)
               /\ asked.callable \in Callables /\ Len(asked.args) \in Nat
    <3>1. answer'.is = Invoke(asked.callable, asked.args) BY <1>2, <2>3 DEF SigNext
    <3>2. asked.args \in Signatures /\ asked.callable \in Callables BY <2>3, AskedIs
    <3>3. Len(asked.args) \in Nat BY <3>2, SignatureIsSequence, SignalsAssumption
    <3> QED BY <3>1, <3>2, <3>3
  <2>4. EnteredOnce' BY <2>1, <2>3, CalledOnce DEF EnteredOnce
  <2>5. ErrorIsTheSlots'
    <3> SUFFICES ASSUME asked.what = "call"
                 PROVE  LET is == Invoke(asked.callable, asked.args)
                            entered == {i \in DOMAIN is.attempts : is.attempts[i].entered}
                        IN  is.result = "Failed" =>
                              /\ entered = {} => is.error = <<Len(asked.args)>>
                              /\ asked.callable.python =>
                                   \A i \in entered : is.error = <<is.attempts[i].n>>
      BY <2>1, <2>3 DEF ErrorIsTheSlots
    <3> QED BY <2>3, CalledOnce
  <2> QED BY <2>1, <2>2, <2>4, <2>5 DEF SlotCalledOnce
<1> QED BY <1>1, <1>2

\* An emission reaches a slot once, with as many of its arguments as the slot
\* takes, and an error is the one that the slot is to blame for (PyQtSlot::call(),
\* PyQtSlot::invoke() and what connect() finds).
THEOREM SlotsAreCalledOnce == SigSpec => []SlotCalledOnce
<1>1. SigInit => Asked /\ SlotCalledOnce
  BY DEF SigInit, SlotCalledOnce, PrefixDelivered, EnteredOnce, ErrorIsTheSlots
<1>2. (Asked /\ SlotCalledOnce) /\ [SigNext]_sigVars => (Asked /\ SlotCalledOnce)'
  BY SlotCalledStep
<1> QED BY <1>1, <1>2, PTL DEF SigSpec

-----------------------------------------------------------------------------
(* Loops over numbers, and the overloads of signals.                       *)

\* Induction up to a number, for sets: what holds of 0 and goes on from each
\* number to the next holds of all of them.
LEMMA CountedUp ==
    ASSUME NEW n \in Nat, NEW S, 0 \in S, \A i \in 0..(n - 1) : i \in S => i + 1 \in S
    PROVE  0..n \subseteq S
<1> DEFINE D == {x \in 0..n : 0..x \subseteq S}
           T == {x..n : x \in D}
           R == StrictSubsetOrdering(0..n)
<1>1. IsWellFoundedOn(R, FiniteSubsetsOf(0..n))
  BY FS_StrictSubsetOrderingWellFounded
<1>2. T \subseteq FiniteSubsetsOf(0..n)
  <2> SUFFICES ASSUME NEW x \in D PROVE x..n \in FiniteSubsetsOf(0..n)
    OBVIOUS
  <2>1. x \in Int /\ n \in Int /\ x..n \subseteq 0..n OBVIOUS
  <2>2. IsFiniteSet(x..n) BY <2>1, FS_Interval
  <2> QED BY <2>1, <2>2 DEF FiniteSubsetsOf
<1>3. T # {}
  <2>1. 0..0 = {0} OBVIOUS
  <2>2. 0 \in D BY <2>1
  <2> QED BY <2>2
<1>4. PICK t \in T : \A u \in T : <<u, t>> \notin R
  <2> HIDE DEF T, R
  <2> QED BY <1>1, <1>2, <1>3, WFMin
<1>5. PICK x \in D : t = x..n OBVIOUS
<1>6. CASE x = n BY <1>6
<1>7. CASE x # n
  <2>1. x \in 0..(n - 1) /\ x \in S BY <1>7
  <2>2. x + 1 \in S /\ 0..(x + 1) = (0..x) \cup {x + 1} BY <2>1
  <2>3. x + 1 \in D BY <2>1, <2>2
  <2>4. (x + 1)..n \subseteq x..n /\ (x + 1)..n \subseteq 0..n /\ x..n \subseteq 0..n OBVIOUS
  <2>5. x \in x..n /\ x \notin (x + 1)..n OBVIOUS
  <2>6. <<(x + 1)..n, x..n>> \in R BY <2>4, <2>5 DEF StrictSubsetOrdering
  <2> QED BY <2>3, <2>6, <1>4, <1>5
<1> QED BY <1>6, <1>7

\* What OverloadsIn() has after each signal.
LEMMA OverloadsAre ==
    ASSUME NEW S, NEW table \in Seq(S), NEW name
    PROVE  /\ OverloadsIn(table, name)[0] = << >>
           /\ \A n \in 1..Len(table) :
                OverloadsIn(table, name)[n] =
                  IF table[n].name = name /\ Parses(table[n].args)
                    THEN Append(OverloadsIn(table, name)[n - 1], table[n])
                    ELSE OverloadsIn(table, name)[n - 1]
<1> DEFINE Op(s, n) == IF table[n].name = name /\ Parses(table[n].args)
                         THEN Append(s, table[n]) ELSE s
           Step(h, k) == [n \in 0..k |->
                            IF n = 0 THEN << >>
                            ELSE IF table[n].name = name /\ Parses(table[n].args)
                                   THEN Append(h[n - 1], table[n]) ELSE h[n - 1]]
<1>1. PICK len : len = Len(table) OBVIOUS
<1>2. len \in Nat BY <1>1, LenProperties
<1>3. PICK e : e = << >> OBVIOUS
<1>4. \E f : f = Step(f, len)
  <2> DEFINE Q == {k \in 0..len : \E f : f = Step(f, k)}
  <2>1. \A h, k : Step(h, k) = [n \in 0..k |-> IF n = 0 THEN e ELSE Op(h[n - 1], n)]
    BY <1>3
  <2> HIDE DEF Step, Op
  <2>2. 0 \in Q
    <3>1. PICK f : f = [n \in 0..0 |-> e] OBVIOUS
    <3>2. \A n \in 0..0 : n = 0 OBVIOUS
    <3>3. f = [n \in 0..0 |-> IF n = 0 THEN e ELSE Op(f[n - 1], n)] BY <3>1, <3>2
    <3>4. 0 \in 0..len BY <1>2
    <3> QED BY <3>3, <3>4, <2>1
  <2>3. ASSUME NEW k \in 0..(len - 1), k \in Q PROVE k + 1 \in Q
    <3>1. PICK f : f = Step(f, k) BY <2>3
    <3>2. DOMAIN f = 0..k /\ \A n \in 0..k : f[n] = IF n = 0 THEN e ELSE Op(f[n - 1], n)
      BY <3>1, <2>1
    <3>3. PICK g : g = [n \in 0..(k + 1) |-> IF n = k + 1 THEN Op(f[k], k + 1) ELSE f[n]]
      OBVIOUS
    <3>4. k \in Nat /\ k + 1 # 0 /\ k + 1 \in 0..len /\ (k + 1) - 1 = k BY <1>2
    <3>5. \A n \in 0..k : g[n] = f[n] BY <3>3, <3>4
    <3>6. ASSUME NEW n \in 0..(k + 1)
          PROVE  g[n] = IF n = 0 THEN e ELSE Op(g[n - 1], n)
      <4>1. CASE n = k + 1
        <5>1. k \in 0..k /\ g[k] = f[k] BY <3>4, <3>5
        <5>2. g[n] = Op(f[k], k + 1) BY <4>1, <3>3
        <5> QED BY <4>1, <5>1, <5>2, <3>4
      <4>2. CASE n # k + 1
        <5>1. n \in 0..k BY <4>2, <3>4
        <5>2. n # 0 => n - 1 \in 0..k /\ g[n - 1] = f[n - 1] BY <5>1, <3>4, <3>5
        <5> QED BY <5>1, <5>2, <3>2, <3>5
      <4> QED BY <4>1, <4>2
    <3>7. g = [n \in 0..(k + 1) |-> g[n]] BY <3>3
    <3>8. g = [n \in 0..(k + 1) |-> IF n = 0 THEN e ELSE Op(g[n - 1], n)] BY <3>6, <3>7
    <3> QED BY <3>4, <3>8, <2>1
  <2>4. 0..len \subseteq Q
    <3> HIDE DEF Q
    <3> QED BY <1>2, <2>2, <2>3, CountedUp
  <2>5. len \in 0..len BY <1>2
  <2> QED BY <2>4, <2>5
<1>5. PICK g : g = CHOOSE h : h = Step(h, len) OBVIOUS
<1>6. OverloadsIn(table, name) = g BY <1>1, <1>5 DEF OverloadsIn
<1>7. g[0] = << >>
  <2>1. g = Step(g, len)
    <3> HIDE DEF Step
    <3> QED BY <1>4, <1>5
  <2>2. 0 \in 0..len BY <1>2
  <2> QED BY <2>1, <2>2
<1>8. \A n \in 1..len : n \in 0..len /\ n # 0 BY <1>2
<1>9. \A n \in 1..len : g[n] = IF table[n].name = name /\ Parses(table[n].args)
                                THEN Append(g[n - 1], table[n]) ELSE g[n - 1]
  <2>1. g = Step(g, len)
    <3> HIDE DEF Step
    <3> QED BY <1>4, <1>5
  <2>2. g = [n \in 0..len |-> IF n = 0 THEN e ELSE Op(g[n - 1], n)] BY <2>1, <1>3
  <2> HIDE DEF Op
  <2>3. \A n \in 1..len : g[n] = Op(g[n - 1], n) BY <2>2, <1>8
  <2> USE DEF Op
  <2> QED BY <2>3, Zenon
<1> HIDE DEF Op, Step
<1> QED BY <1>1, <1>6, <1>7, <1>9

\* What has been collected of a table: a dictionary of sequences of its signals and
\* those of the name that comes last.
Dicts(N, A) == UNION {[D -> Seq([name : N, args : A])] : D \in SUBSET N}
Collected(N, A) == [dict : Dicts(N, A), open : Seq([name : N, args : A])]

\* Signals that are saved are put into the dictionary under the name of the first.
LEMMA SavedIs ==
    ASSUME NEW N, NEW A, NEW attr \in Collected(N, A), NEW s, s = Saved(attr)
    PROVE  /\ s \in Collected(N, A)
           /\ s.open = << >>
           /\ attr.open = << >> => s.dict = attr.dict
           /\ attr.open # << >> =>
                /\ attr.open[1] \in [name : N, args : A]
                /\ DOMAIN s.dict = DOMAIN attr.dict \cup {attr.open[1].name}
                /\ s.dict[attr.open[1].name] = attr.open
                /\ \A x \in DOMAIN attr.dict :
                     x # attr.open[1].name => s.dict[x] = attr.dict[x]
<1> DEFINE S == [name : N, args : A]
<1>1. attr.dict \in Dicts(N, A) /\ attr.open \in Seq(S) BY DEF Collected
<1>2. CASE attr.open = << >> BY <1>2 DEF Saved
<1>3. CASE attr.open # << >>
  <2>1. PICK len : len = Len(attr.open) OBVIOUS
  <2>2. 1 \in 1..Len(attr.open) BY <1>1, <1>3, LenProperties, EmptySeq
  <2>3. attr.open[1] \in S BY <2>2, <1>1, ElementOfSeq
  <2>4. PICK x : x = attr.open[1].name OBVIOUS
  <2>5. x \in N BY <2>3, <2>4
  <2>6. PICK D \in SUBSET N : attr.dict \in [D -> Seq(S)] BY <1>1 DEF Dicts
  <2>7. PICK dict : dict = Given(attr.dict, x, attr.open) OBVIOUS
  <2>8. dict \in [D \cup {x} -> Seq(S)]
    <3> HIDE DEF S
    <3> QED BY <2>6, <2>7, <1>1 DEF Given
  <2>9. dict \in Dicts(N, A) BY <2>8, <2>5 DEF Dicts
  <2>10. /\ DOMAIN dict = DOMAIN attr.dict \cup {x} /\ dict[x] = attr.open
         /\ \A y \in DOMAIN attr.dict : y # x => dict[y] = attr.dict[y]
    BY <2>7 DEF Given
  <2>11. s = [dict |-> dict, open |-> << >>] BY <1>3, <2>4, <2>7 DEF Saved
  <2>12. s \in Collected(N, A) BY <2>11, <2>9, EmptySeq DEF Collected
  <2> QED BY <2>12, <2>11, <2>10, <2>4, <2>3, <1>3
<1> QED BY <1>2, <1>3

\* What has been collected after n signals of a table: the signals of every name
\* that can be parsed, those of the last one apart.
CollectedAt(N, A, table, n, attr) ==
    /\ attr \in Collected(N, A)
    /\ attr.open # << >> =>
         /\ n # 0 /\ attr.open[1].name = table[n].name
         /\ attr.open = OverloadsIn(table, table[n].name)[n]
    /\ \A x : OverloadsIn(table, x)[n] # << >> <=>
                x \in DOMAIN attr.dict \/ (attr.open # << >> /\ x = attr.open[1].name)
    /\ \A x \in DOMAIN attr.dict :
         /\ attr.dict[x] = OverloadsIn(table, x)[n]
         /\ n # 0 /\ table[n].name # x
         /\ \E i \in 1..n : table[i].name = x

\* The same before the n-th signal is added and after the last ones are saved.
ReadyFor(N, A, table, n, attr) ==
    /\ attr \in Collected(N, A)
    /\ attr.open = OverloadsIn(table, table[n].name)[n - 1]
    /\ \A x : x # table[n].name =>
                (OverloadsIn(table, x)[n - 1] # << >> <=> x \in DOMAIN attr.dict)
    /\ \A x \in DOMAIN attr.dict :
         /\ attr.dict[x] = OverloadsIn(table, x)[n - 1]
         /\ table[n].name # x
         /\ \E i \in 1..n : table[i].name = x

\* Signals of a name that comes again have not been saved.
LEMMA ReadyForSignal ==
    ASSUME NEW N, NEW A, NEW table \in Seq([name : N, args : A]), Together(table),
           NEW n \in 1..Len(table), NEW attr, CollectedAt(N, A, table, n - 1, attr)
    PROVE  ReadyFor(N, A, table, n,
                    IF attr.open # << >> /\ attr.open[1].name # table[n].name
                      THEN Saved(attr) ELSE attr)
<1>1. PICK len : len = Len(table) OBVIOUS
<1>2. len \in Nat /\ DOMAIN table = 1..len BY <1>1, LenProperties
<1>3. n \in 1..len BY <1>1
<1>4. PICK m : m = n - 1 OBVIOUS
<1>5. m \in 0..len /\ n = m + 1 /\ m < n BY <1>2, <1>3, <1>4
<1>6. PICK x0 : x0 = table[n].name OBVIOUS
<1>7. CollectedAt(N, A, table, m, attr) BY <1>4
<1>8. ASSUME NEW x, m # 0, table[m].name # x, NEW i \in 1..m, table[i].name = x
      PROVE  x0 # x
  <2>1. i <= m /\ m <= n /\ i \in 1..len /\ m \in 1..len BY <1>2, <1>5, <1>8
  <2>2. table[i].name = table[n].name => table[m].name = table[i].name
    BY <2>1, <1>2, <1>3 DEF Together
  <2> QED BY <2>2, <1>8, <1>6
<1>9. \A x \in DOMAIN attr.dict : x0 # x
  <2> SUFFICES ASSUME NEW x \in DOMAIN attr.dict PROVE x0 # x
    OBVIOUS
  <2>1. m # 0 /\ table[m].name # x /\ \E i \in 1..m : table[i].name = x
    BY <1>7 DEF CollectedAt
  <2> QED BY <2>1, <1>8
<1>10. \A x \in DOMAIN attr.dict : \E i \in 1..n : table[i].name = x
  <2>1. 1..m \subseteq 1..n BY <1>5
  <2> QED BY <2>1, <1>7 DEF CollectedAt
<1>11. CASE attr.open # << >> /\ attr.open[1].name # table[n].name
  <2>1. PICK s : s = Saved(attr) OBVIOUS
  <2>2. PICK y : y = attr.open[1].name OBVIOUS
  <2>3. attr \in Collected(N, A) BY <1>7 DEF CollectedAt
  <2>4. /\ s \in Collected(N, A) /\ s.open = << >>
        /\ DOMAIN s.dict = DOMAIN attr.dict \cup {y} /\ s.dict[y] = attr.open
        /\ \A x \in DOMAIN attr.dict : x # y => s.dict[x] = attr.dict[x]
    BY <2>1, <2>2, <2>3, <1>11, SavedIs
  <2>5. m # 0 /\ y = table[m].name /\ attr.open = OverloadsIn(table, y)[m]
    BY <1>7, <1>11, <2>2 DEF CollectedAt
  <2>6. \A x : OverloadsIn(table, x)[m] # << >> <=> x \in DOMAIN s.dict
    BY <1>7, <1>11, <2>2, <2>4 DEF CollectedAt
  <2>7. x0 # y BY <1>11, <2>2, <1>6
  <2>8. x0 \notin DOMAIN s.dict BY <2>4, <2>7, <1>9
  <2>9. s.open = OverloadsIn(table, x0)[m] BY <2>4, <2>6, <2>8
  <2>10. \A x \in DOMAIN s.dict : s.dict[x] = OverloadsIn(table, x)[m]
    <3>1. \A x \in DOMAIN attr.dict : attr.dict[x] = OverloadsIn(table, x)[m]
      BY <1>7 DEF CollectedAt
    <3> QED BY <3>1, <2>4, <2>5
  <2>11. m \in 1..n BY <2>5, <1>5, <1>2
  <2>12. \A x \in DOMAIN s.dict : \E i \in 1..n : table[i].name = x
    BY <2>11, <2>4, <2>5, <1>10
  <2>13. \A x \in DOMAIN s.dict : x0 # x BY <2>8
  <2>14. ReadyFor(N, A, table, n, s)
    BY <2>4, <2>6, <2>9, <2>10, <2>12, <2>13, <1>4, <1>6 DEF ReadyFor
  <2> QED BY <2>1, <2>14, <1>11
<1>12. CASE ~ (attr.open # << >> /\ attr.open[1].name # table[n].name)
  <2>1. attr \in Collected(N, A) BY <1>7 DEF CollectedAt
  <2>2. attr.open # << >> => attr.open[1].name = x0 BY <1>12, <1>6
  <2>3. attr.open = OverloadsIn(table, x0)[m]
    <3>1. CASE attr.open = << >>
      <4>1. ~ (OverloadsIn(table, x0)[m] # << >>) BY <3>1, <1>7, <1>9 DEF CollectedAt
      <4> QED BY <4>1, <3>1
    <3>2. CASE attr.open # << >>
      <4>1. attr.open[1].name = table[m].name /\ attr.open = OverloadsIn(table, table[m].name)[m]
        BY <3>2, <1>7 DEF CollectedAt
      <4> QED BY <4>1, <3>2, <2>2
    <3> QED BY <3>1, <3>2
  <2>4. \A x : x # x0 => (OverloadsIn(table, x)[m] # << >> <=> x \in DOMAIN attr.dict)
    BY <2>2, <1>7 DEF CollectedAt
  <2>5. \A x \in DOMAIN attr.dict : attr.dict[x] = OverloadsIn(table, x)[m]
    BY <1>7 DEF CollectedAt
  <2>6. ReadyFor(N, A, table, n, attr)
    BY <2>1, <2>3, <2>4, <2>5, <1>9, <1>10, <1>4, <1>6 DEF ReadyFor
  <2> QED BY <2>6, <1>12
<1> QED BY <1>11, <1>12

\* The next signal of the table is collected, unless it cannot be parsed.
LEMMA NextCollected ==
    ASSUME NEW N, NEW A, NEW table \in Seq([name : N, args : A]), Together(table),
           NEW n \in 1..Len(table), NEW attr, CollectedAt(N, A, table, n - 1, attr)
    PROVE  CollectedAt(N, A, table, n, LazySignal(attr, table[n]))
<1> DEFINE S == [name : N, args : A]
<1>1. PICK sig : sig = table[n] OBVIOUS
<1>2. sig \in S BY <1>1, ElementOfSeq
<1>3. PICK done : done = IF attr.open # << >> /\ attr.open[1].name # table[n].name
                           THEN Saved(attr) ELSE attr
  OBVIOUS
<1>4. ReadyFor(N, A, table, n, done) BY <1>3, ReadyForSignal
<1>5. done \in Collected(N, A) /\ done.open \in Seq(S) BY <1>4 DEF ReadyFor, Collected
<1>a. done.open # << >> => done.open[1].name = sig.name
  <2>1. CASE attr.open # << >> /\ attr.open[1].name # table[n].name
    <3>1. done = Saved(attr) BY <2>1, <1>3
    <3>2. done.open = << >> BY <3>1, <2>1 DEF Saved
    <3> QED BY <3>2
  <2>2. CASE ~ (attr.open # << >> /\ attr.open[1].name # table[n].name)
    BY <2>2, <1>3, <1>1
  <2> QED BY <2>1, <2>2
<1>6. \A x : OverloadsIn(table, x)[n] =
               IF sig.name = x /\ Parses(sig.args)
                 THEN Append(OverloadsIn(table, x)[n - 1], sig)
                 ELSE OverloadsIn(table, x)[n - 1]
  <2> SUFFICES ASSUME NEW x
               PROVE  OverloadsIn(table, x)[n] =
                        IF sig.name = x /\ Parses(sig.args)
                          THEN Append(OverloadsIn(table, x)[n - 1], sig)
                          ELSE OverloadsIn(table, x)[n - 1]
    OBVIOUS
  <2>1. \A k \in 1..Len(table) :
          OverloadsIn(table, x)[k] =
            IF table[k].name = x /\ Parses(table[k].args)
              THEN Append(OverloadsIn(table, x)[k - 1], table[k])
              ELSE OverloadsIn(table, x)[k - 1]
    <3> HIDE DEF S
    <3> QED BY OverloadsAre
  <2> QED BY <1>1, <2>1
<1>7. n \in Int /\ n # 0 BY LenProperties
<1>8. PICK new : new = LazySignal(attr, table[n]) OBVIOUS
<1>9. new = IF Parses(sig.args) THEN [done EXCEPT !.open = Append(@, sig)] ELSE done
  BY <1>8, <1>1, <1>3 DEF LazySignal
<1>10. PICK open : open = Append(done.open, sig) OBVIOUS
<1>11. open \in Seq(S) /\ open # << >> /\ open[1].name = sig.name
  <2>1. /\ open \in Seq(S) /\ Len(open) = Len(done.open) + 1
        /\ open[Len(done.open) + 1] = sig
        /\ \A i \in 1..Len(done.open) : open[i] = done.open[i]
    BY <1>10, <1>2, <1>5, AppendProperties
  <2>2. Len(done.open) \in Nat BY <1>5, LenProperties
  <2>3. open # << >>
    <3>1. Len(open) # 0 BY <2>1, <2>2
    <3> QED BY <3>1
  <2>4. CASE done.open = << >>
    <3>1. Len(done.open) = 0 BY <2>4
    <3>2. open[1] = sig BY <3>1, <2>1
    <3> QED BY <3>2, <2>1, <2>3
  <2>5. CASE done.open # << >>
    <3>1. 1 \in 1..Len(done.open) BY <2>5, <2>2, <1>5, EmptySeq
    <3>2. open[1] = done.open[1] BY <3>1, <2>1
    <3> QED BY <3>2, <1>a, <2>5, <2>1, <2>3
  <2> QED BY <2>4, <2>5
<1>12. CASE Parses(sig.args)
  <2>1. new.open = open /\ new.dict = done.dict /\ new \in Collected(N, A)
    BY <1>12, <1>9, <1>10, <1>11, <1>5 DEF Collected
  <2>2. new.open = OverloadsIn(table, sig.name)[n]
    BY <2>1, <1>10, <1>6, <1>12, <1>4, <1>1 DEF ReadyFor
  <2>3. \A x : x # sig.name => OverloadsIn(table, x)[n] = OverloadsIn(table, x)[n - 1]
    BY <1>6
  <2>4. \A x : OverloadsIn(table, x)[n] # << >> <=>
                 x \in DOMAIN new.dict \/ (new.open # << >> /\ x = new.open[1].name)
    <3> SUFFICES ASSUME NEW x
                 PROVE  OverloadsIn(table, x)[n] # << >> <=>
                          x \in DOMAIN new.dict \/ (new.open # << >> /\ x = new.open[1].name)
      OBVIOUS
    <3>1. CASE x = sig.name BY <3>1, <2>1, <2>2, <1>11
    <3>2. CASE x # sig.name BY <3>2, <2>1, <2>3, <1>11, <1>4, <1>1 DEF ReadyFor
    <3> QED BY <3>1, <3>2
  <2>5. \A x \in DOMAIN new.dict :
          /\ new.dict[x] = OverloadsIn(table, x)[n] /\ table[n].name # x
          /\ \E i \in 1..n : table[i].name = x
    BY <2>1, <2>3, <1>4, <1>1 DEF ReadyFor
  <2> QED BY <2>1, <2>2, <2>4, <2>5, <1>11, <1>7, <1>8, <1>1 DEF CollectedAt
<1>13. CASE ~ Parses(sig.args)
  <2>1. new = done BY <1>13, <1>9
  <2>2. \A x : OverloadsIn(table, x)[n] = OverloadsIn(table, x)[n - 1] BY <1>13, <1>6
  <2>3. new.open # << >> => new.open[1].name = sig.name BY <2>1, <1>a
  <2>4. new.open = OverloadsIn(table, sig.name)[n]
    BY <2>1, <2>2, <1>4, <1>1 DEF ReadyFor
  <2>5. \A x : OverloadsIn(table, x)[n] # << >> <=>
                 x \in DOMAIN new.dict \/ (new.open # << >> /\ x = new.open[1].name)
    <3> SUFFICES ASSUME NEW x
                 PROVE  OverloadsIn(table, x)[n] # << >> <=>
                          x \in DOMAIN new.dict \/ (new.open # << >> /\ x = new.open[1].name)
      OBVIOUS
    <3>1. CASE x = sig.name BY <3>1, <2>1, <2>3, <2>4, <1>4, <1>1 DEF ReadyFor
    <3>2. CASE x # sig.name BY <3>2, <2>1, <2>2, <2>3, <1>4, <1>1 DEF ReadyFor
    <3> QED BY <3>1, <3>2
  <2>6. \A x \in DOMAIN new.dict :
          /\ new.dict[x] = OverloadsIn(table, x)[n] /\ table[n].name # x
          /\ \E i \in 1..n : table[i].name = x
    BY <2>1, <2>2, <1>4, <1>1 DEF ReadyFor
  <2> QED BY <2>1, <2>3, <2>4, <2>5, <2>6, <1>5, <1>7, <1>8, <1>1 DEF CollectedAt
<1> QED BY <1>12, <1>13

\* What has been collected after every signal of a table.
LEMMA LazySignalsAre ==
    ASSUME NEW S, NEW table \in Seq(S)
    PROVE  /\ LazySignals(table)[0] = [dict |-> << >>, open |-> << >>]
           /\ \A n \in 1..Len(table) :
                LazySignals(table)[n] = LazySignal(LazySignals(table)[n - 1], table[n])
<1> DEFINE Op(s, n) == LazySignal(s, table[n])
           Step(h, k) == [n \in 0..k |->
                             IF n = 0 THEN [dict |-> << >>, open |-> << >>] ELSE LazySignal(h[n - 1], table[n])]
<1>1. PICK len : len = Len(table) OBVIOUS
<1>2. len \in Nat BY <1>1, LenProperties
<1>3. PICK e : e = [dict |-> << >>, open |-> << >>] OBVIOUS
<1>4. \E f : f = Step(f, len)
  <2> DEFINE Q == {k \in 0..len : \E f : f = Step(f, k)}
  <2>1. \A h, k : Step(h, k) = [n \in 0..k |-> IF n = 0 THEN e ELSE Op(h[n - 1], n)]
    BY <1>3
  <2> HIDE DEF Step, Op
  <2>2. 0 \in Q
    <3>1. PICK f : f = [n \in 0..0 |-> e] OBVIOUS
    <3>2. \A n \in 0..0 : n = 0 OBVIOUS
    <3>3. f = [n \in 0..0 |-> IF n = 0 THEN e ELSE Op(f[n - 1], n)] BY <3>1, <3>2
    <3>4. 0 \in 0..len BY <1>2
    <3> QED BY <3>3, <3>4, <2>1
  <2>3. ASSUME NEW k \in 0..(len - 1), k \in Q PROVE k + 1 \in Q
    <3>1. PICK f : f = Step(f, k) BY <2>3
    <3>2. DOMAIN f = 0..k /\ \A n \in 0..k : f[n] = IF n = 0 THEN e ELSE Op(f[n - 1], n)
      BY <3>1, <2>1
    <3>3. PICK g : g = [n \in 0..(k + 1) |-> IF n = k + 1 THEN Op(f[k], k + 1) ELSE f[n]]
      OBVIOUS
    <3>4. k \in Nat /\ k + 1 # 0 /\ k + 1 \in 0..len /\ (k + 1) - 1 = k BY <1>2
    <3>5. \A n \in 0..k : g[n] = f[n] BY <3>3, <3>4
    <3>6. ASSUME NEW n \in 0..(k + 1)
          PROVE  g[n] = IF n = 0 THEN e ELSE Op(g[n - 1], n)
      <4>1. CASE n = k + 1
        <5>1. k \in 0..k /\ g[k] = f[k] BY <3>4, <3>5
        <5>2. g[n] = Op(f[k], k + 1) BY <4>1, <3>3
        <5> QED BY <4>1, <5>1, <5>2, <3>4
      <4>2. CASE n # k + 1
        <5>1. n \in 0..k BY <4>2, <3>4
        <5>2. n # 0 => n - 1 \in 0..k /\ g[n - 1] = f[n - 1] BY <5>1, <3>4, <3>5
        <5> QED BY <5>1, <5>2, <3>2, <3>5
      <4> QED BY <4>1, <4>2
    <3>7. g = [n \in 0..(k + 1) |-> g[n]] BY <3>3
    <3>8. g = [n \in 0..(k + 1) |-> IF n = 0 THEN e ELSE Op(g[n - 1], n)] BY <3>6, <3>7
    <3> QED BY <3>4, <3>8, <2>1
  <2>4. 0..len \subseteq Q
    <3> HIDE DEF Q
    <3> QED BY <1>2, <2>2, <2>3, CountedUp
  <2>5. len \in 0..len BY <1>2
  <2> QED BY <2>4, <2>5
<1>5. PICK g : g = CHOOSE h : h = Step(h, len) OBVIOUS
<1>6. LazySignals(table) = g BY <1>1, <1>5 DEF LazySignals
<1>7. g[0] = [dict |-> << >>, open |-> << >>]
  <2>1. g = Step(g, len)
    <3> HIDE DEF Step
    <3> QED BY <1>4, <1>5
  <2>2. 0 \in 0..len BY <1>2
  <2> QED BY <2>1, <2>2
<1>8. \A n \in 1..len : n \in 0..len /\ n # 0 BY <1>2
<1>9. \A n \in 1..len : g[n] = LazySignal(g[n - 1], table[n])
  <2>1. g = Step(g, len)
    <3> HIDE DEF Step
    <3> QED BY <1>4, <1>5
  <2>2. g = [n \in 0..len |-> IF n = 0 THEN e ELSE Op(g[n - 1], n)] BY <2>1, <1>3
  <2> HIDE DEF Op
  <2>3. \A n \in 1..len : g[n] = Op(g[n - 1], n) BY <2>2, <1>8
  <2> USE DEF Op
  <2> QED BY <2>3, Zenon
<1> HIDE DEF Op, Step
<1> QED BY <1>1, <1>6, <1>7, <1>9

\* All of a table is collected.
LEMMA AllCollected ==
    ASSUME NEW N, NEW A, NEW table \in Seq([name : N, args : A]), Together(table)
    PROVE  CollectedAt(N, A, table, Len(table), LazySignals(table)[Len(table)])
<1>1. PICK len : len = Len(table) OBVIOUS
<1>a. PICK S : table \in Seq(S) OBVIOUS
<1>2. len \in Nat BY <1>1, LenProperties
<1> DEFINE T == {n \in 0..len : CollectedAt(N, A, table, n, LazySignals(table)[n])}
<1>3. 0 \in T
  <2>1. PICK attr : attr = LazySignals(table)[0] OBVIOUS
  <2>2. attr = [dict |-> << >>, open |-> << >>] BY <2>1, <1>a, LazySignalsAre
  <2>3. PICK f : f = << >> OBVIOUS
  <2>4. f \in [{} -> Seq([name : N, args : A])] /\ DOMAIN f = {} BY <2>3
  <2>5. f \in Dicts(N, A) BY <2>4 DEF Dicts
  <2>6. f \in Seq([name : N, args : A]) BY <2>3, EmptySeq
  <2>7. attr.dict = f /\ attr.open = f BY <2>2, <2>3
  <2>8. attr \in Collected(N, A) BY <2>2, <2>3, <2>5, <2>6 DEF Collected
  <2>9. \A x : OverloadsIn(table, x)[0] = << >>
    <3> SUFFICES ASSUME NEW x PROVE OverloadsIn(table, x)[0] = << >>
      OBVIOUS
    <3> QED BY OverloadsAre
  <2>10. CollectedAt(N, A, table, 0, attr)
    BY <2>3, <2>4, <2>7, <2>8, <2>9 DEF CollectedAt
  <2>11. 0 \in 0..len BY <1>2
  <2> QED BY <2>1, <2>10, <2>11
<1>4. ASSUME NEW k \in 0..(len - 1), k \in T PROVE k + 1 \in T
  <2>1. PICK n : n = k + 1 OBVIOUS
  <2>2. n \in 1..len /\ n \in 0..len /\ n - 1 = k BY <1>2, <2>1
  <2>3. PICK attr : attr = LazySignals(table)[k] OBVIOUS
  <2>4. CollectedAt(N, A, table, n - 1, attr) BY <1>4, <2>2, <2>3
  <2>5. n \in 1..Len(table) BY <2>2, <1>1
  <2>6. CollectedAt(N, A, table, n, LazySignal(attr, table[n])) BY <2>4, <2>5, NextCollected
  <2>7. LazySignals(table)[n] = LazySignal(attr, table[n])
    <3>1. \A i \in 1..Len(table) :
            LazySignals(table)[i] = LazySignal(LazySignals(table)[i - 1], table[i])
      BY <1>a, LazySignalsAre
    <3> QED BY <3>1, <2>2, <2>3, <2>5
  <2> QED BY <2>1, <2>2, <2>6, <2>7
<1>5. 0..len \subseteq T
  <2> HIDE DEF T
  <2> QED BY <1>2, <1>3, <1>4, CountedUp
<1>6. len \in 0..len BY <1>2
<1> QED BY <1>1, <1>5, <1>6

\* The attribute of a name, if there is one, has these overloads.
AttributeHas(dict, x, overloads) ==
    IF overloads = << >> THEN x \notin DOMAIN dict ELSE x \in DOMAIN dict /\ dict[x] = overloads

\* What is saved in the end has all signals of all names.
LEMMA TableKept ==
    ASSUME NEW N, NEW A, NEW table \in Seq([name : N, args : A]), Together(table), NEW x
    PROVE  AttributeHas(GetLazyAttr(table), x, OverloadsIn(table, x)[Len(table)])
<1>1. PICK len : len = Len(table) OBVIOUS
<1>2. PICK attr : attr = LazySignals(table)[len] OBVIOUS
<1>3. CollectedAt(N, A, table, len, attr) BY <1>1, <1>2, AllCollected
<1>4. PICK s : s = Saved(attr) OBVIOUS
<1>5. attr \in Collected(N, A) BY <1>3 DEF CollectedAt
<1>6. GetLazyAttr(table) = s.dict BY <1>1, <1>2, <1>4 DEF GetLazyAttr
<1>7. OverloadsIn(table, x)[len] # << >> <=> x \in DOMAIN s.dict
  <2>1. CASE attr.open = << >>
    <3>1. s.dict = attr.dict BY <2>1, <1>4, <1>5, SavedIs
    <3> QED BY <3>1, <2>1, <1>3 DEF CollectedAt
  <2>2. CASE attr.open # << >>
    <3>1. DOMAIN s.dict = DOMAIN attr.dict \cup {attr.open[1].name}
      BY <2>2, <1>4, <1>5, SavedIs
    <3> QED BY <3>1, <2>2, <1>3 DEF CollectedAt
  <2> QED BY <2>1, <2>2
<1>8. ASSUME x \in DOMAIN s.dict PROVE s.dict[x] = OverloadsIn(table, x)[len]
  <2>1. CASE attr.open = << >>
    <3>1. s.dict = attr.dict BY <2>1, <1>4, <1>5, SavedIs
    <3> QED BY <3>1, <1>8, <1>3 DEF CollectedAt
  <2>2. CASE attr.open # << >>
    <3>1. PICK y : y = attr.open[1].name OBVIOUS
    <3>2. /\ DOMAIN s.dict = DOMAIN attr.dict \cup {y} /\ s.dict[y] = attr.open
          /\ \A z \in DOMAIN attr.dict : z # y => s.dict[z] = attr.dict[z]
      BY <3>1, <2>2, <1>4, <1>5, SavedIs
    <3>3. y = table[len].name /\ attr.open = OverloadsIn(table, y)[len]
      BY <3>1, <2>2, <1>3 DEF CollectedAt
    <3>4. \A z \in DOMAIN attr.dict : attr.dict[z] = OverloadsIn(table, z)[len]
      BY <1>3 DEF CollectedAt
    <3> QED BY <3>2, <3>3, <3>4, <1>8
  <2> QED BY <2>1, <2>2
<1> QED BY <1>1, <1>6, <1>7, <1>8 DEF AttributeHas

\* What SeqOf() has are sequences.
LEMMA SequenceOf ==
    ASSUME NEW S, NEW n \in Nat, NEW s \in SeqOf(S, n)
    PROVE  s \in Seq(S) /\ DOMAIN s = 1..Len(s) /\ Len(s) \in Nat
<1>1. PICK m \in 0..n : s \in [1..m -> S] BY DEF SeqOf
<1>2. m \in Nat OBVIOUS
<1>3. s \in Seq(S) BY <1>1, <1>2
<1> QED BY <1>3, LenProperties

\* The tables that are tried have the overloads of a name together.
LEMMA TableIsTogether ==
    ASSUME NEW table \in Tables
    PROVE  table \in Seq([name : SignalNames, args : Unchecked]) /\ Together(table)
<1> DEFINE S == [name : SignalNames, args : Unchecked]
<1>1. MaxTable \in Nat BY SignalsAssumption
<1>2. table \in SeqOf(S, MaxTable) /\ Together(table) BY DEF Tables
<1>3. table \in Seq(S)
  <2> HIDE DEF S
  <2> QED BY <1>1, <1>2, SequenceOf
<1> QED BY <1>2, <1>3

\* The first overload with some arguments is found.
LEMMA OverloadIsFound ==
    ASSUME NEW S, NEW signals \in Seq(S), NEW from, NEW i \in DOMAIN signals
    PROVE  /\ FindSignal(signals, from, signals[i].args) \in DOMAIN signals
           /\ signals[FindSignal(signals, from, signals[i].args)].args = signals[i].args
<1>1. PICK n : n = Len(signals) OBVIOUS
<1>2. n \in Nat /\ DOMAIN signals = 1..n BY <1>1, LenProperties
<1> DEFINE I == {k \in 1..Len(signals) : signals[k].args = signals[i].args}
<1>3. i \in I BY <1>1, <1>2
<1>4. FindSignal(signals, from, signals[i].args) = Min(I)
  BY <1>3 DEF FindSignal, SelectInSeq
<1>5. I \in SUBSET (0..n) BY <1>1, <1>2
<1>6. Min(I) \in I
  <2> HIDE DEF I
  <2> QED BY <1>2, <1>3, <1>5, LeastNumber
<1>7. PICK k : k = Min(I) OBVIOUS
<1>8. k \in 1..n /\ signals[k].args = signals[i].args BY <1>6, <1>7, <1>1
<1> QED BY <1>4, <1>7, <1>8, <1>2

\* Overloads that are named as they were given, or as the attribute is.
NamedAs(overloads, given, x, attribute, S) ==
    LET signals == SetSignalName(DeclareSignal(given, overloads, x).signals, attribute)
    IN  /\ signals \in Seq(S)
        /\ DOMAIN signals = DOMAIN overloads
        /\ \A i \in DOMAIN overloads :
             /\ signals[i].name = IF given = "" THEN attribute ELSE given
             /\ signals[i].args = overloads[i]

\* The overloads of a signal that is declared have its name or that of the attribute.
LEMMA OverloadsNamed ==
    ASSUME NEW A, NEW overloads \in Seq(A), overloads # << >>, NEW given, NEW x,
           NEW attribute, \A i \in DOMAIN overloads : Parses(overloads[i])
    PROVE  \E S : NamedAs(overloads, given, x, attribute, S)
<1>1. PICK n : n = Len(overloads) OBVIOUS
<1>2. n \in Nat /\ DOMAIN overloads = 1..n BY <1>1, LenProperties
<1>3. 1 \in 1..n BY <1>1, <1>2, EmptySeq
<1>4. PICK d : d = DeclareSignal(given, overloads, x) OBVIOUS
<1>5. PICK names : names = [i \in 1..n |-> IF i = 1 THEN x ELSE << >>] OBVIOUS
<1>6. PICK made : made = [i \in 1..n |-> [name |-> given, args |-> overloads[i],
                                          names |-> names[i]]]
  OBVIOUS
<1>7. d.signals = made
  <2>1. ~ \E i \in DOMAIN overloads : ~ Parses(overloads[i]) OBVIOUS
  <2>2. d.signals = [i \in DOMAIN overloads |->
                       [name |-> given, args |-> overloads[i],
                        names |-> IF i = 1 THEN x ELSE << >>]]
    BY <2>1, <1>4 DEF DeclareSignal
  <2>3. \A i \in 1..n : names[i] = IF i = 1 THEN x ELSE << >> BY <1>5
  <2> QED BY <2>2, <2>3, <1>2, <1>6
<1>8. DOMAIN made = 1..n
      /\ \A i \in 1..n : made[i] = [name |-> given, args |-> overloads[i], names |-> names[i]]
  BY <1>6
<1>9. PICK name : name = IF given = "" THEN attribute ELSE given OBVIOUS
<1>10. PICK signals : signals = SetSignalName(d.signals, attribute) OBVIOUS
<1>11. DOMAIN signals = 1..n /\ signals = [i \in 1..n |-> signals[i]]
       /\ \A i \in 1..n : signals[i].name = name /\ signals[i].args = overloads[i]
  <2>1. made[1].name = given BY <1>8, <1>3
  <2>2. CASE given # ""
    <3>1. signals = made BY <2>1, <2>2, <1>7, <1>10 DEF SetSignalName
    <3>2. made = [i \in 1..n |-> made[i]] BY <1>6
    <3>3. name = given BY <2>2, <1>9
    <3>4. ASSUME NEW i \in 1..n
          PROVE  signals[i].name = name /\ signals[i].args = overloads[i]
      BY <3>1, <3>3, <1>8
    <3> QED BY <3>1, <3>2, <3>4, <1>8
  <2>3. CASE given = ""
    <3>1. signals = [i \in 1..n |-> [made[i] EXCEPT !.name = attribute]]
      BY <2>1, <2>3, <1>7, <1>10, <1>8 DEF SetSignalName
    <3>2. ASSUME NEW i \in 1..n
          PROVE  signals[i].name = attribute /\ signals[i].args = overloads[i]
      <4>1. signals[i] = [made[i] EXCEPT !.name = attribute] BY <3>1
      <4>2. made[i] = [name |-> given, args |-> overloads[i], names |-> names[i]] BY <1>8
      <4> QED BY <4>1, <4>2
    <3> QED BY <3>1, <3>2, <2>3, <1>9
  <2> QED BY <2>2, <2>3
<1>12. PICK S : S = {signals[i] : i \in 1..n} OBVIOUS
<1>13. signals \in Seq(S)
  <2>1. signals \in [1..n -> S] BY <1>11, <1>12
  <2> QED BY <2>1, <1>2
<1> QED BY <1>2, <1>4, <1>9, <1>10, <1>11, <1>13 DEF NamedAs

\* Whichever overload of such a signal is asked, each is found.
LEMMA SignalDeclared ==
    ASSUME NEW a, NEW A, a.overloads \in Seq(A), a.overloads # << >>,
           \A i \in DOMAIN a.overloads : Parses(a.overloads[i])
    PROVE  \A i \in DOMAIN Declared(a).signals :
             /\ Declared(a).signals[i].name = IF a.name = "" THEN "attribute" ELSE a.name
             /\ \A from \in DOMAIN Declared(a).signals :
                  /\ Declared(a).found[from][i] # 0
                  /\ Declared(a).signals[Declared(a).found[from][i]].args = a.overloads[i]
<1>1. PICK overloads : overloads = a.overloads OBVIOUS
<1>2. PICK given : given = a.name OBVIOUS
<1>3. PICK x : x = <<"x">> OBVIOUS
<1>4. PICK attribute : attribute = "attribute" OBVIOUS
<1>5. PICK d : d = DeclareSignal(given, overloads, x) OBVIOUS
<1>6. d.error = ""
  <2>1. ~ \E i \in DOMAIN overloads : ~ Parses(overloads[i]) BY <1>1
  <2> QED BY <2>1, <1>5 DEF DeclareSignal
<1>7. PICK signals : signals = SetSignalName(d.signals, attribute) OBVIOUS
<1>8. PICK S : /\ signals \in Seq(S)
               /\ DOMAIN signals = DOMAIN overloads
               /\ \A i \in DOMAIN overloads :
                    /\ signals[i].name = IF given = "" THEN attribute ELSE given
                    /\ signals[i].args = overloads[i]
  <2>1. overloads \in Seq(A) /\ overloads # << >>
        /\ \A i \in DOMAIN overloads : Parses(overloads[i])
    BY <1>1
  <2>2. \E S : NamedAs(overloads, given, x, attribute, S) BY <2>1, OverloadsNamed
  <2> QED BY <2>2, <1>5, <1>7 DEF NamedAs
<1>9. /\ Declared(a).signals = signals
      /\ Declared(a).found =
           [from \in DOMAIN signals |->
              [i \in DOMAIN signals |-> FindSignal(signals, from, signals[i].args)]]
  BY <1>1, <1>2, <1>3, <1>4, <1>5, <1>6, <1>7 DEF Declared
<1>10. 0 \notin DOMAIN signals
  <2>1. DOMAIN signals = 1..Len(signals) /\ Len(signals) \in Nat BY <1>8, LenProperties
  <2> QED BY <2>1
<1>11. ASSUME NEW i \in DOMAIN signals, NEW from \in DOMAIN signals
       PROVE  /\ Declared(a).found[from][i] \in DOMAIN signals
              /\ signals[Declared(a).found[from][i]].args = signals[i].args
  <2>1. Declared(a).found[from][i] = FindSignal(signals, from, signals[i].args)
    <3>1. PICK found : found = Declared(a).found OBVIOUS
    <3>2. found[from] = [k \in DOMAIN signals |-> FindSignal(signals, from, signals[k].args)]
      BY <3>1, <1>9
    <3> QED BY <3>1, <3>2
  <2>2. /\ FindSignal(signals, from, signals[i].args) \in DOMAIN signals
        /\ signals[FindSignal(signals, from, signals[i].args)].args = signals[i].args
    BY <1>8, OverloadIsFound
  <2> QED BY <2>1, <2>2
<1>12. ASSUME NEW i \in DOMAIN signals, NEW from \in DOMAIN signals
       PROVE  /\ Declared(a).found[from][i] # 0
              /\ signals[Declared(a).found[from][i]].args = overloads[i]
  BY <1>8, <1>10, <1>11
<1>13. \A i \in DOMAIN signals : signals[i].name = IF given = "" THEN attribute ELSE given
  BY <1>8
<1> QED BY <1>1, <1>2, <1>4, <1>9, <1>12, <1>13

\* What is asked of a class: tables, or sequences of overloads.
LEMMA AskedOfClass ==
    ASSUME Asked
    PROVE  /\ asked.what = "table" => asked.table \in Tables
           /\ asked.what = "declare" =>
                /\ asked.overloads \in Seq(Unchecked)
                /\ asked.overloads # << >>
<1> DEFINE C == [accepts : SUBSET (0..MaxArgs), inside : {""}, python : {TRUE}, gone : {FALSE}]
           O == SeqOf(Unchecked, MaxTable) \ {<< >>}
<1>1. \/ asked \in [what : {"table"}, table : Tables]
      \/ asked \in [what : {"declare"}, overloads : O, name : {"", "given"}]
      \/ asked \in [what : {"connect"}, signal : Signatures, slot : Receivers, callable : C]
      \/ asked \in [what : {"emit"}, signal : Signatures, values : Signatures,
                    blocked : BOOLEAN, known : BOOLEAN]
      \/ asked \in [what : {"call"}, args : Signatures, callable : Callables]
  BY Zenon DEF Asked
<1>2. \A o \in O : o \in Seq(Unchecked) /\ o # << >> BY SequenceOf, SignalsAssumption
<1> HIDE DEF C, O
<1>3. CASE asked \in [what : {"table"}, table : Tables] BY <1>3
<1>4. CASE asked \in [what : {"declare"}, overloads : O, name : {"", "given"}]
  <2>1. asked.what = "declare" /\ asked.overloads \in O BY <1>4
  <2> QED BY <2>1, <1>2
<1>5. CASE asked \in [what : {"connect"}, signal : Signatures, slot : Receivers, callable : C]
  BY <1>5
<1>6. CASE asked \in [what : {"emit"}, signal : Signatures, values : Signatures,
                      blocked : BOOLEAN, known : BOOLEAN]
  BY <1>6
<1>7. CASE asked \in [what : {"call"}, args : Signatures, callable : Callables] BY <1>7
<1> QED BY <1>1, <1>3, <1>4, <1>5, <1>6, <1>7

\* The answer to what is asked of a class.
LEMMA OverloadsStep ==
    ASSUME Asked, OverloadsKept, [SigNext]_sigVars
    PROVE  (Asked /\ OverloadsKept)'
<1>1. CASE UNCHANGED sigVars
  BY <1>1 DEF sigVars, Asked, OverloadsKept, LazyComplete, OverloadsFound
<1>2. CASE SigNext
  <2>1. asked' = asked BY <1>2 DEF SigNext
  <2>2. Asked' BY <2>1 DEF Asked
  <2>3. answer'.done /\ answer'.is = CASE asked.what = "table" -> GetLazyAttr(asked.table)
           [] asked.what = "declare" -> Declared(asked)
           [] asked.what = "connect" -> Delivered(asked)
           [] asked.what = "emit" -> Emit(asked)
           [] asked.what = "call" -> Invoke(asked.callable, asked.args)
    BY <1>2 DEF SigNext
  <2>4. LazyComplete'
    <3> SUFFICES ASSUME asked.what = "table" PROVE LazyComplete'
      BY <2>1 DEF LazyComplete
    <3>1. PICK t : t = asked.table OBVIOUS
    <3>2. t \in Tables BY <3>1, AskedOfClass
    <3>3. answer'.is = GetLazyAttr(t) BY <3>1, <2>3
    <3>4. PICK A : A = Unchecked OBVIOUS
    <3>5. t \in Seq([name : SignalNames, args : A]) /\ Together(t)
      BY <3>2, <3>4, TableIsTogether
    <3>6. ASSUME NEW x PROVE AttributeHas(GetLazyAttr(t), x, OverloadsIn(t, x)[Len(t)])
      <4>1. PICK N : N = SignalNames OBVIOUS
      <4>2. t \in Seq([name : N, args : A]) /\ Together(t) BY <3>5, <4>1
      <4> QED BY <4>2, TableKept
    <3>7. asked'.table = t BY <2>1, <3>1
    <3> QED BY <3>3, <3>6, <3>7 DEF LazyComplete, AttributeHas
  <2>5. OverloadsFound'
    <3> SUFFICES ASSUME asked.what = "declare", answer'.is.error = "" PROVE OverloadsFound'
      BY <2>1 DEF OverloadsFound
    <3>1. PICK a : a = asked OBVIOUS
    <3>2. answer'.is = Declared(a) BY <3>1, <2>3
    <3>3. PICK A : A = Unchecked OBVIOUS
    <3>4. a.overloads \in Seq(A) /\ a.overloads # << >> BY <3>1, <3>3, AskedOfClass
    <3>5. \A i \in DOMAIN a.overloads : Parses(a.overloads[i])
      <4> SUFFICES ASSUME \E i \in DOMAIN a.overloads : ~ Parses(a.overloads[i]) PROVE FALSE
        OBVIOUS
      <4>1. DeclareSignal(a.name, a.overloads, <<"x">>).error = "TypeError" BY DEF DeclareSignal
      <4>2. Declared(a).error = "TypeError" BY <4>1 DEF Declared
      <4> QED BY <4>2, <3>2
    <3>6. \A i \in DOMAIN Declared(a).signals :
             /\ Declared(a).signals[i].name = IF a.name = "" THEN "attribute" ELSE a.name
             /\ \A from \in DOMAIN Declared(a).signals :
                  /\ Declared(a).found[from][i] # 0
                  /\ Declared(a).signals[Declared(a).found[from][i]].args = a.overloads[i]
      BY <3>4, <3>5, SignalDeclared
    <3>7. asked' = a BY <2>1, <3>1
    <3>8. PICK is : is = Declared(a) OBVIOUS
    <3>9. \A i \in DOMAIN is.signals :
             is.signals[i].name = IF a.name = "" THEN "attribute" ELSE a.name
      BY <3>6, <3>8
    <3>10. \A from, i \in DOMAIN is.signals :
             /\ is.found[from][i] # 0
             /\ is.signals[is.found[from][i]].args = a.overloads[i]
      BY <3>6, <3>8
    <3>11. answer'.is = is BY <3>2, <3>8
    <3> QED BY <3>7, <3>9, <3>10, <3>11, Zenon DEF OverloadsFound
  <2> QED BY <2>2, <2>4, <2>5 DEF OverloadsKept
<1> QED BY <1>1, <1>2

\* No overload is lost or out of reach, for any types and names and any numbers of
\* arguments and overloads: those of a generated table that has the overloads of a
\* name together are all in the dictionary of the class, whatever cannot be parsed,
\* and those of pyqtSignal() are found by their arguments whichever of them is asked
\* (qpycore_get_lazy_attr(), pyqtSignal_init(), find_signal()).
THEOREM NoOverloadIsLost == SigSpec => []OverloadsKept
<1>1. SigInit => Asked /\ OverloadsKept
  BY DEF SigInit, OverloadsKept, LazyComplete, OverloadsFound
<1>2. (Asked /\ OverloadsKept) /\ [SigNext]_sigVars => (Asked /\ OverloadsKept)'
  BY OverloadsStep
<1> QED BY <1>1, <1>2, PTL DEF SigSpec

-----------------------------------------------------------------------------
(* QObjects by name: keywords, methods without a wrapper, connectSlotsByName() *)
(* and the arguments of the application.  Each of the loops is a recursive  *)
(* function of how far it has come; CountedUp carries what is true of it.   *)

\* What pyqtConfigure() has done after each keyword.
ConfigureBy(g, keywords) ==
    /\ Configure(keywords) = g[Len(keywords)]
    /\ g[0] = Unapplied(keywords)
    /\ \A n \in 1..Len(keywords) : g[n] = ConfigureOne(g[n - 1], keywords[n])

\* It has done something after each.
LEMMA ConfigureRuns ==
    ASSUME NEW K, NEW keywords \in Seq(K)
    PROVE  \E g : ConfigureBy(g, keywords)
<1> DEFINE Op(s, n) == ConfigureOne(s, keywords[n])
           Step(h, k) == [n \in 0..k |->
                             IF n = 0 THEN Unapplied(keywords) ELSE ConfigureOne(h[n - 1], keywords[n])]
<1>1. PICK len : len = Len(keywords) OBVIOUS
<1>2. len \in Nat BY <1>1, LenProperties
<1>3. PICK e : e = Unapplied(keywords) OBVIOUS
<1>4. \E f : f = Step(f, len)
  <2> DEFINE S == {k \in 0..len : \E f : f = Step(f, k)}
  <2>1. \A h, k : Step(h, k) = [n \in 0..k |-> IF n = 0 THEN e ELSE Op(h[n - 1], n)]
    BY <1>3
  <2> HIDE DEF Step, Op
  <2>2. 0 \in S
    <3>1. PICK f : f = [n \in 0..0 |-> e] OBVIOUS
    <3>2. \A n \in 0..0 : n = 0 OBVIOUS
    <3>3. f = [n \in 0..0 |-> IF n = 0 THEN e ELSE Op(f[n - 1], n)] BY <3>1, <3>2
    <3>4. 0 \in 0..len BY <1>2
    <3> QED BY <3>3, <3>4, <2>1
  <2>3. ASSUME NEW k \in 0..(len - 1), k \in S PROVE k + 1 \in S
    <3>1. PICK f : f = Step(f, k) BY <2>3
    <3>2. DOMAIN f = 0..k /\ \A n \in 0..k : f[n] = IF n = 0 THEN e ELSE Op(f[n - 1], n)
      BY <3>1, <2>1
    <3>3. PICK g : g = [n \in 0..(k + 1) |-> IF n = k + 1 THEN Op(f[k], k + 1) ELSE f[n]]
      OBVIOUS
    <3>4. k \in Nat /\ k + 1 # 0 /\ k + 1 \in 0..len /\ (k + 1) - 1 = k BY <1>2
    <3>5. \A n \in 0..k : g[n] = f[n] BY <3>3, <3>4
    <3>6. ASSUME NEW n \in 0..(k + 1)
          PROVE  g[n] = IF n = 0 THEN e ELSE Op(g[n - 1], n)
      <4>1. CASE n = k + 1
        <5>1. k \in 0..k /\ g[k] = f[k] BY <3>4, <3>5
        <5>2. g[n] = Op(f[k], k + 1) BY <4>1, <3>3
        <5> QED BY <4>1, <5>1, <5>2, <3>4
      <4>2. CASE n # k + 1
        <5>1. n \in 0..k BY <4>2, <3>4
        <5>2. n # 0 => n - 1 \in 0..k /\ g[n - 1] = f[n - 1] BY <5>1, <3>4, <3>5
        <5> QED BY <5>1, <5>2, <3>2, <3>5
      <4> QED BY <4>1, <4>2
    <3>7. g = [n \in 0..(k + 1) |-> g[n]] BY <3>3
    <3>8. g = [n \in 0..(k + 1) |-> IF n = 0 THEN e ELSE Op(g[n - 1], n)] BY <3>6, <3>7
    <3> QED BY <3>4, <3>8, <2>1
  <2>4. 0..len \subseteq S
    <3> HIDE DEF S
    <3> QED BY <1>2, <2>2, <2>3, CountedUp
  <2>5. len \in 0..len BY <1>2
  <2> QED BY <2>4, <2>5
<1>5. PICK g : g = CHOOSE h : h = Step(h, len) OBVIOUS
<1>6. Configure(keywords) = g[len] BY <1>1, <1>5 DEF Configure
<1>7. g[0] = Unapplied(keywords)
  <2>1. g = Step(g, len)
    <3> HIDE DEF Step
    <3> QED BY <1>4, <1>5
  <2>2. 0 \in 0..len BY <1>2
  <2> QED BY <2>1, <2>2
<1>8. \A n \in 1..len : n \in 0..len /\ n # 0 BY <1>2
<1>9. \A n \in 1..len : g[n] = ConfigureOne(g[n - 1], keywords[n])
  <2>1. g = Step(g, len)
    <3> HIDE DEF Step
    <3> QED BY <1>4, <1>5
  <2>2. g = [n \in 0..len |-> IF n = 0 THEN e ELSE Op(g[n - 1], n)] BY <2>1, <1>3
  <2> HIDE DEF Op
  <2>3. \A n \in 1..len : g[n] = Op(g[n - 1], n) BY <2>2, <1>8
  <2> USE DEF Op
  <2> QED BY <2>3, Zenon
<1> HIDE DEF Op, Step
<1> QED BY <1>1, <1>6, <1>7, <1>9, Zenon DEF ConfigureBy

\* What the constructor has done after each keyword.
FinalisationBy(g, keywords) ==
    /\ Finalisation(keywords) = g[Len(keywords)]
    /\ g[0] = Unapplied(keywords)
    /\ \A n \in 1..Len(keywords) : g[n] = FinalisationOne(g[n - 1], keywords[n])

\* It has done something after each.
LEMMA FinalisationRuns ==
    ASSUME NEW K, NEW keywords \in Seq(K)
    PROVE  \E g : FinalisationBy(g, keywords)
<1> DEFINE Op(s, n) == FinalisationOne(s, keywords[n])
           Step(h, k) == [n \in 0..k |->
                             IF n = 0 THEN Unapplied(keywords) ELSE FinalisationOne(h[n - 1], keywords[n])]
<1>1. PICK len : len = Len(keywords) OBVIOUS
<1>2. len \in Nat BY <1>1, LenProperties
<1>3. PICK e : e = Unapplied(keywords) OBVIOUS
<1>4. \E f : f = Step(f, len)
  <2> DEFINE S == {k \in 0..len : \E f : f = Step(f, k)}
  <2>1. \A h, k : Step(h, k) = [n \in 0..k |-> IF n = 0 THEN e ELSE Op(h[n - 1], n)]
    BY <1>3
  <2> HIDE DEF Step, Op
  <2>2. 0 \in S
    <3>1. PICK f : f = [n \in 0..0 |-> e] OBVIOUS
    <3>2. \A n \in 0..0 : n = 0 OBVIOUS
    <3>3. f = [n \in 0..0 |-> IF n = 0 THEN e ELSE Op(f[n - 1], n)] BY <3>1, <3>2
    <3>4. 0 \in 0..len BY <1>2
    <3> QED BY <3>3, <3>4, <2>1
  <2>3. ASSUME NEW k \in 0..(len - 1), k \in S PROVE k + 1 \in S
    <3>1. PICK f : f = Step(f, k) BY <2>3
    <3>2. DOMAIN f = 0..k /\ \A n \in 0..k : f[n] = IF n = 0 THEN e ELSE Op(f[n - 1], n)
      BY <3>1, <2>1
    <3>3. PICK g : g = [n \in 0..(k + 1) |-> IF n = k + 1 THEN Op(f[k], k + 1) ELSE f[n]]
      OBVIOUS
    <3>4. k \in Nat /\ k + 1 # 0 /\ k + 1 \in 0..len /\ (k + 1) - 1 = k BY <1>2
    <3>5. \A n \in 0..k : g[n] = f[n] BY <3>3, <3>4
    <3>6. ASSUME NEW n \in 0..(k + 1)
          PROVE  g[n] = IF n = 0 THEN e ELSE Op(g[n - 1], n)
      <4>1. CASE n = k + 1
        <5>1. k \in 0..k /\ g[k] = f[k] BY <3>4, <3>5
        <5>2. g[n] = Op(f[k], k + 1) BY <4>1, <3>3
        <5> QED BY <4>1, <5>1, <5>2, <3>4
      <4>2. CASE n # k + 1
        <5>1. n \in 0..k BY <4>2, <3>4
        <5>2. n # 0 => n - 1 \in 0..k /\ g[n - 1] = f[n - 1] BY <5>1, <3>4, <3>5
        <5> QED BY <5>1, <5>2, <3>2, <3>5
      <4> QED BY <4>1, <4>2
    <3>7. g = [n \in 0..(k + 1) |-> g[n]] BY <3>3
    <3>8. g = [n \in 0..(k + 1) |-> IF n = 0 THEN e ELSE Op(g[n - 1], n)] BY <3>6, <3>7
    <3> QED BY <3>4, <3>8, <2>1
  <2>4. 0..len \subseteq S
    <3> HIDE DEF S
    <3> QED BY <1>2, <2>2, <2>3, CountedUp
  <2>5. len \in 0..len BY <1>2
  <2> QED BY <2>4, <2>5
<1>5. PICK g : g = CHOOSE h : h = Step(h, len) OBVIOUS
<1>6. Finalisation(keywords) = g[len] BY <1>1, <1>5 DEF Finalisation
<1>7. g[0] = Unapplied(keywords)
  <2>1. g = Step(g, len)
    <3> HIDE DEF Step
    <3> QED BY <1>4, <1>5
  <2>2. 0 \in 0..len BY <1>2
  <2> QED BY <2>1, <2>2
<1>8. \A n \in 1..len : n \in 0..len /\ n # 0 BY <1>2
<1>9. \A n \in 1..len : g[n] = FinalisationOne(g[n - 1], keywords[n])
  <2>1. g = Step(g, len)
    <3> HIDE DEF Step
    <3> QED BY <1>4, <1>5
  <2>2. g = [n \in 0..len |-> IF n = 0 THEN e ELSE Op(g[n - 1], n)] BY <2>1, <1>3
  <2> HIDE DEF Op
  <2>3. \A n \in 1..len : g[n] = Op(g[n - 1], n) BY <2>2, <1>8
  <2> USE DEF Op
  <2> QED BY <2>3, Zenon
<1> HIDE DEF Op, Step
<1> QED BY <1>1, <1>6, <1>7, <1>9, Zenon DEF FinalisationBy

\* What has been parsed after each argument.
ParsedBy(g, parameters) ==
    /\ ParseArgs(parameters) = g[Len(parameters)]
    /\ g[0] = [failed |-> FALSE, allocated |-> 0]
    /\ \A n \in 1..Len(parameters) : g[n] = ParseOne(g[n - 1], parameters[n])

\* Something has been after each.
LEMMA ArgsParsed ==
    ASSUME NEW P, NEW parameters \in Seq(P)
    PROVE  \E g : ParsedBy(g, parameters)
<1> DEFINE Op(s, n) == ParseOne(s, parameters[n])
           Step(h, k) == [n \in 0..k |->
                             IF n = 0 THEN [failed |-> FALSE, allocated |-> 0] ELSE ParseOne(h[n - 1], parameters[n])]
<1>1. PICK len : len = Len(parameters) OBVIOUS
<1>2. len \in Nat BY <1>1, LenProperties
<1>3. PICK e : e = [failed |-> FALSE, allocated |-> 0] OBVIOUS
<1>4. \E f : f = Step(f, len)
  <2> DEFINE S == {k \in 0..len : \E f : f = Step(f, k)}
  <2>1. \A h, k : Step(h, k) = [n \in 0..k |-> IF n = 0 THEN e ELSE Op(h[n - 1], n)]
    BY <1>3
  <2> HIDE DEF Step, Op
  <2>2. 0 \in S
    <3>1. PICK f : f = [n \in 0..0 |-> e] OBVIOUS
    <3>2. \A n \in 0..0 : n = 0 OBVIOUS
    <3>3. f = [n \in 0..0 |-> IF n = 0 THEN e ELSE Op(f[n - 1], n)] BY <3>1, <3>2
    <3>4. 0 \in 0..len BY <1>2
    <3> QED BY <3>3, <3>4, <2>1
  <2>3. ASSUME NEW k \in 0..(len - 1), k \in S PROVE k + 1 \in S
    <3>1. PICK f : f = Step(f, k) BY <2>3
    <3>2. DOMAIN f = 0..k /\ \A n \in 0..k : f[n] = IF n = 0 THEN e ELSE Op(f[n - 1], n)
      BY <3>1, <2>1
    <3>3. PICK g : g = [n \in 0..(k + 1) |-> IF n = k + 1 THEN Op(f[k], k + 1) ELSE f[n]]
      OBVIOUS
    <3>4. k \in Nat /\ k + 1 # 0 /\ k + 1 \in 0..len /\ (k + 1) - 1 = k BY <1>2
    <3>5. \A n \in 0..k : g[n] = f[n] BY <3>3, <3>4
    <3>6. ASSUME NEW n \in 0..(k + 1)
          PROVE  g[n] = IF n = 0 THEN e ELSE Op(g[n - 1], n)
      <4>1. CASE n = k + 1
        <5>1. k \in 0..k /\ g[k] = f[k] BY <3>4, <3>5
        <5>2. g[n] = Op(f[k], k + 1) BY <4>1, <3>3
        <5> QED BY <4>1, <5>1, <5>2, <3>4
      <4>2. CASE n # k + 1
        <5>1. n \in 0..k BY <4>2, <3>4
        <5>2. n # 0 => n - 1 \in 0..k /\ g[n - 1] = f[n - 1] BY <5>1, <3>4, <3>5
        <5> QED BY <5>1, <5>2, <3>2, <3>5
      <4> QED BY <4>1, <4>2
    <3>7. g = [n \in 0..(k + 1) |-> g[n]] BY <3>3
    <3>8. g = [n \in 0..(k + 1) |-> IF n = 0 THEN e ELSE Op(g[n - 1], n)] BY <3>6, <3>7
    <3> QED BY <3>4, <3>8, <2>1
  <2>4. 0..len \subseteq S
    <3> HIDE DEF S
    <3> QED BY <1>2, <2>2, <2>3, CountedUp
  <2>5. len \in 0..len BY <1>2
  <2> QED BY <2>4, <2>5
<1>5. PICK g : g = CHOOSE h : h = Step(h, len) OBVIOUS
<1>6. ParseArgs(parameters) = g[len] BY <1>1, <1>5 DEF ParseArgs
<1>7. g[0] = [failed |-> FALSE, allocated |-> 0]
  <2>1. g = Step(g, len)
    <3> HIDE DEF Step
    <3> QED BY <1>4, <1>5
  <2>2. 0 \in 0..len BY <1>2
  <2> QED BY <2>1, <2>2
<1>8. \A n \in 1..len : n \in 0..len /\ n # 0 BY <1>2
<1>9. \A n \in 1..len : g[n] = ParseOne(g[n - 1], parameters[n])
  <2>1. g = Step(g, len)
    <3> HIDE DEF Step
    <3> QED BY <1>4, <1>5
  <2>2. g = [n \in 0..len |-> IF n = 0 THEN e ELSE Op(g[n - 1], n)] BY <2>1, <1>3
  <2> HIDE DEF Op
  <2>3. \A n \in 1..len : g[n] = Op(g[n - 1], n) BY <2>2, <1>8
  <2> USE DEF Op
  <2> QED BY <2>3, Zenon
<1> HIDE DEF Op, Step
<1> QED BY <1>1, <1>6, <1>7, <1>9, Zenon DEF ParsedBy

\* What is left of the list after each argument that there was.
UpdatedBy(g, list, copy, argv) ==
    /\ UpdateArgv(list, copy, argv) = g[Len(copy)].list
    /\ g[0] = [list |-> list, na |-> 1]
    /\ \A n \in 1..Len(copy) : g[n] = UpdateOne(argv, g[n - 1], copy[n])

\* Something is after each.
LEMMA ArgvUpdated ==
    ASSUME NEW list, NEW P, NEW copy \in Seq(P), NEW argv
    PROVE  \E g : UpdatedBy(g, list, copy, argv)
<1> DEFINE Op(s, n) == UpdateOne(argv, s, copy[n])
           Step(h, k) == [n \in 0..k |->
                             IF n = 0 THEN [list |-> list, na |-> 1] ELSE UpdateOne(argv, h[n - 1], copy[n])]
<1>1. PICK len : len = Len(copy) OBVIOUS
<1>2. len \in Nat BY <1>1, LenProperties
<1>3. PICK e : e = [list |-> list, na |-> 1] OBVIOUS
<1>4. \E f : f = Step(f, len)
  <2> DEFINE S == {k \in 0..len : \E f : f = Step(f, k)}
  <2>1. \A h, k : Step(h, k) = [n \in 0..k |-> IF n = 0 THEN e ELSE Op(h[n - 1], n)]
    BY <1>3
  <2> HIDE DEF Step, Op
  <2>2. 0 \in S
    <3>1. PICK f : f = [n \in 0..0 |-> e] OBVIOUS
    <3>2. \A n \in 0..0 : n = 0 OBVIOUS
    <3>3. f = [n \in 0..0 |-> IF n = 0 THEN e ELSE Op(f[n - 1], n)] BY <3>1, <3>2
    <3>4. 0 \in 0..len BY <1>2
    <3> QED BY <3>3, <3>4, <2>1
  <2>3. ASSUME NEW k \in 0..(len - 1), k \in S PROVE k + 1 \in S
    <3>1. PICK f : f = Step(f, k) BY <2>3
    <3>2. DOMAIN f = 0..k /\ \A n \in 0..k : f[n] = IF n = 0 THEN e ELSE Op(f[n - 1], n)
      BY <3>1, <2>1
    <3>3. PICK g : g = [n \in 0..(k + 1) |-> IF n = k + 1 THEN Op(f[k], k + 1) ELSE f[n]]
      OBVIOUS
    <3>4. k \in Nat /\ k + 1 # 0 /\ k + 1 \in 0..len /\ (k + 1) - 1 = k BY <1>2
    <3>5. \A n \in 0..k : g[n] = f[n] BY <3>3, <3>4
    <3>6. ASSUME NEW n \in 0..(k + 1)
          PROVE  g[n] = IF n = 0 THEN e ELSE Op(g[n - 1], n)
      <4>1. CASE n = k + 1
        <5>1. k \in 0..k /\ g[k] = f[k] BY <3>4, <3>5
        <5>2. g[n] = Op(f[k], k + 1) BY <4>1, <3>3
        <5> QED BY <4>1, <5>1, <5>2, <3>4
      <4>2. CASE n # k + 1
        <5>1. n \in 0..k BY <4>2, <3>4
        <5>2. n # 0 => n - 1 \in 0..k /\ g[n - 1] = f[n - 1] BY <5>1, <3>4, <3>5
        <5> QED BY <5>1, <5>2, <3>2, <3>5
      <4> QED BY <4>1, <4>2
    <3>7. g = [n \in 0..(k + 1) |-> g[n]] BY <3>3
    <3>8. g = [n \in 0..(k + 1) |-> IF n = 0 THEN e ELSE Op(g[n - 1], n)] BY <3>6, <3>7
    <3> QED BY <3>4, <3>8, <2>1
  <2>4. 0..len \subseteq S
    <3> HIDE DEF S
    <3> QED BY <1>2, <2>2, <2>3, CountedUp
  <2>5. len \in 0..len BY <1>2
  <2> QED BY <2>4, <2>5
<1>5. PICK g : g = CHOOSE h : h = Step(h, len) OBVIOUS
<1>6. UpdateArgv(list, copy, argv) = g[len].list BY <1>1, <1>5 DEF UpdateArgv
<1>7. g[0] = [list |-> list, na |-> 1]
  <2>1. g = Step(g, len)
    <3> HIDE DEF Step
    <3> QED BY <1>4, <1>5
  <2>2. 0 \in 0..len BY <1>2
  <2> QED BY <2>1, <2>2
<1>8. \A n \in 1..len : n \in 0..len /\ n # 0 BY <1>2
<1>9. \A n \in 1..len : g[n] = UpdateOne(argv, g[n - 1], copy[n])
  <2>1. g = Step(g, len)
    <3> HIDE DEF Step
    <3> QED BY <1>4, <1>5
  <2>2. g = [n \in 0..len |-> IF n = 0 THEN e ELSE Op(g[n - 1], n)] BY <2>1, <1>3
  <2> HIDE DEF Op
  <2>3. \A n \in 1..len : g[n] = Op(g[n - 1], n) BY <2>2, <1>8
  <2> USE DEF Op
  <2> QED BY <2>3, Zenon
<1> HIDE DEF Op, Step
<1> QED BY <1>1, <1>6, <1>7, <1>9, Zenon DEF UpdatedBy

\* The first elements of a sequence with the next one.
LEMMA PartGrows ==
    ASSUME NEW K, NEW s \in Seq(K), NEW n \in 1..Len(s)
    PROVE  /\ SubSeq(s, 1, n) = Append(SubSeq(s, 1, n - 1), s[n])
           /\ SubSeq(s, 1, n) \in Seq(K) /\ Len(SubSeq(s, 1, n)) = n
           /\ SubSeq(s, 1, n - 1) \in Seq(K) /\ Len(SubSeq(s, 1, n - 1)) = n - 1
<1>1. PICK len : len = Len(s) OBVIOUS
<1>2. len \in Nat /\ n \in 1..len /\ \A i \in 1..len : s[i] \in K
  BY <1>1, LenProperties, ElementOfSeq
<1>3. PICK m : m = n - 1 OBVIOUS
<1>4. m \in 0..len /\ m \in Int /\ n = m + 1 /\ n \in Int /\ 1 \in Int BY <1>2, <1>3
<1>5. PICK a : a = SubSeq(s, 1, m) OBVIOUS
<1>6. PICK b : b = SubSeq(s, 1, n) OBVIOUS
<1>7. \A i \in 1..m : s[i] \in K BY <1>2, <1>4
<1>8. \A i \in 1..n : s[i] \in K BY <1>2, <1>4
<1>9. a \in Seq(K) /\ Len(a) = m /\ \A i \in 1..m : a[i] = s[i]
  <2>1. /\ a \in Seq(K) /\ Len(a) = IF 1 <= m THEN m - 1 + 1 ELSE 0
        /\ \A i \in 1..(m - 1 + 1) : a[i] = s[1 + i - 1]
    BY <1>4, <1>5, <1>7, SubSeqProperties
  <2> QED BY <2>1, <1>4
<1>10. b \in Seq(K) /\ Len(b) = n /\ \A i \in 1..n : b[i] = s[i]
  <2>1. /\ b \in Seq(K) /\ Len(b) = IF 1 <= n THEN n - 1 + 1 ELSE 0
        /\ \A i \in 1..(n - 1 + 1) : b[i] = s[1 + i - 1]
    BY <1>4, <1>6, <1>8, SubSeqProperties
  <2> QED BY <2>1, <1>4
<1>11. PICK c : c = Append(a, s[n]) OBVIOUS
<1>12. c \in Seq(K) /\ Len(c) = n /\ \A i \in 1..n : c[i] = s[i]
  <2>1. s[n] \in K BY <1>2
  <2>2. /\ c \in Seq(K) /\ Len(c) = Len(a) + 1
        /\ \A i \in 1..Len(a) : c[i] = a[i]
        /\ c[Len(a) + 1] = s[n]
    BY <1>9, <1>11, <2>1, AppendProperties
  <2> QED BY <2>2, <1>4, <1>9
<1>13. b = c
  <2>1. \A i \in 1..Len(b) : b[i] = c[i] BY <1>10, <1>12
  <2> QED BY <2>1, <1>10, <1>12, SeqEqual
<1> QED BY <1>3, <1>5, <1>6, <1>9, <1>10, <1>11, <1>13

\* What a call with keywords has done.
RunsOf(K) == [applied : Seq(K), unused : SUBSET K, error : {"", "TypeError", "AttributeError"}]

\* Nothing in the beginning.
LEMMA NothingApplied ==
    ASSUME NEW K, NEW keywords \in Seq(K), NEW run, run = Unapplied(keywords)
    PROVE  run \in RunsOf(K) /\ run.applied = << >> /\ run.unused = Range(keywords) /\ run.error = ""
<1>1. PICK a : a = << >> OBVIOUS
<1>2. a \in Seq(K) BY <1>1, EmptySeq
<1>3. PICK u : u = Range(keywords) OBVIOUS
<1>4. u \subseteq K
  <2>1. \A i \in DOMAIN keywords : keywords[i] \in K BY LenProperties, ElementOfSeq
  <2> QED BY <1>3, <2>1 DEF Range
<1>5. PICK error : error = "" OBVIOUS
<1>6. PICK E : E = {"", "TypeError", "AttributeError"} OBVIOUS
<1>a. error \in E BY <1>5, <1>6
<1>7. run = [applied |-> a, unused |-> u, error |-> error]
  BY <1>1, <1>3, <1>5 DEF Unapplied
<1>8. run.applied = a /\ run.unused = u /\ run.error = error BY <1>7
<1>9. run \in RunsOf(K)
  <2>1. run \in [applied : Seq(K), unused : SUBSET K, error : E] BY <1>2, <1>4, <1>a, <1>7
  <2> QED BY <2>1, <1>6 DEF RunsOf
<1> QED BY <1>1, <1>3, <1>5, <1>8, <1>9, Zenon

\* A keyword that is handled is added.
LEMMA RunGoesOn ==
    ASSUME NEW K, NEW run \in RunsOf(K), NEW k \in K, NEW new, new = Applied(run, k)
    PROVE  /\ new \in RunsOf(K) /\ new.applied = Append(run.applied, k)
           /\ new.unused = run.unused /\ new.error = run.error
<1>1. PICK a : a = Append(run.applied, k) OBVIOUS
<1>2. run.applied \in Seq(K) BY DEF RunsOf
<1>3. a \in Seq(K) BY <1>1, <1>2, AppendProperties
<1>4. new = [run EXCEPT !.applied = a] BY <1>1 DEF Applied
<1>5. /\ new \in RunsOf(K) /\ new.applied = a
      /\ new.unused = run.unused /\ new.error = run.error
  BY <1>3, <1>4 DEF RunsOf
<1> QED BY <1>1, <1>5

\* What fails adds nothing.
LEMMA RunFails ==
    ASSUME NEW K, NEW run \in RunsOf(K), NEW error \in {"TypeError", "AttributeError"},
           NEW new, new = [run EXCEPT !.error = error]
    PROVE  /\ new \in RunsOf(K) /\ new.applied = run.applied
           /\ new.unused = run.unused /\ new.error # ""
  BY DEF RunsOf

\* pyqtConfigure() after n keywords: it has applied the first ones, all of them or
\* those before one that it could not handle.
ConfiguredUpTo(K, keywords, n, run) ==
    /\ run \in RunsOf(K)
    /\ \E m \in 0..n :
         /\ run.applied = SubSeq(keywords, 1, m) /\ Len(run.applied) = m
         /\ run.error = "" => m = n
         /\ run.error # "" => m < n /\ HandleArgument(keywords[m + 1]) # "AsHandled"

\* That is what it goes on to have.
LEMMA KeywordConfigured ==
    ASSUME NEW K, NEW keywords \in Seq(K), NEW n \in 1..Len(keywords),
           NEW run, ConfiguredUpTo(K, keywords, n - 1, run)
    PROVE  ConfiguredUpTo(K, keywords, n, ConfigureOne(run, keywords[n]))
<1>1. n \in Int /\ n >= 1 BY LenProperties
<1>2. run \in RunsOf(K) BY DEF ConfiguredUpTo
<1>3. PICK m \in 0..(n - 1) :
        /\ run.applied = SubSeq(keywords, 1, m) /\ Len(run.applied) = m
        /\ run.error = "" => m = n - 1
        /\ run.error # "" => m < n - 1 /\ HandleArgument(keywords[m + 1]) # "AsHandled"
  BY DEF ConfiguredUpTo
<1>4. m \in Int /\ m \in 0..n /\ m < n BY <1>1
<1>5. PICK k : k = keywords[n] OBVIOUS
<1>6. k \in K BY <1>5, ElementOfSeq
<1>7. PICK new : new = ConfigureOne(run, k) OBVIOUS
<1>8. CASE run.error # ""
  <2>1. new = run BY <1>7, <1>8 DEF ConfigureOne
  <2>2. ConfiguredUpTo(K, keywords, n, run) BY <1>2, <1>3, <1>4, <1>8 DEF ConfiguredUpTo
  <2> QED BY <2>1, <2>2, <1>5, <1>7
<1>9. CASE run.error = "" /\ HandleArgument(k) = "AsHandled"
  <2>1. new = Applied(run, k) BY <1>7, <1>9 DEF ConfigureOne
  <2>2. m = n - 1 BY <1>9, <1>3
  <2>3. SubSeq(keywords, 1, n) = Append(SubSeq(keywords, 1, n - 1), k)
        /\ Len(SubSeq(keywords, 1, n)) = n
    BY <1>5, PartGrows
  <2>4. new \in RunsOf(K) /\ new.applied = SubSeq(keywords, 1, n) /\ new.error = ""
    <3>1. new \in RunsOf(K) /\ new.applied = Append(run.applied, k) /\ new.error = run.error
      BY <2>1, <1>2, <1>6, RunGoesOn
    <3>2. run.applied = SubSeq(keywords, 1, n - 1) BY <2>2, <1>3
    <3>3. new.applied = SubSeq(keywords, 1, n) BY <3>1, <3>2, <2>3, Zenon
    <3> QED BY <3>1, <3>3, <1>9
  <2>5. n \in 0..n BY <1>1
  <2>6. ConfiguredUpTo(K, keywords, n, new) BY <2>3, <2>4, <2>5 DEF ConfiguredUpTo
  <2> QED BY <2>6, <1>5, <1>7
<1>10. CASE run.error = "" /\ HandleArgument(k) # "AsHandled"
  <2>1. PICK error \in {"TypeError", "AttributeError"} : new = [run EXCEPT !.error = error]
    BY <1>7, <1>10 DEF ConfigureOne
  <2>2. new \in RunsOf(K) /\ new.applied = run.applied /\ new.error # ""
    BY <2>1, <1>2, RunFails
  <2>3. m = n - 1 BY <1>10, <1>3
  <2>4. m + 1 = n BY <2>3, <1>1
  <2>5. ConfiguredUpTo(K, keywords, n, new)
    BY <2>2, <2>4, <1>3, <1>4, <1>5, <1>10 DEF ConfiguredUpTo
  <2> QED BY <2>5, <1>5, <1>7
<1> QED BY <1>8, <1>9, <1>10

\* pyqtConfigure() has applied the keywords up to one that it could not handle.
LEMMA AllConfigured ==
    ASSUME NEW K, NEW keywords \in Seq(K)
    PROVE  ConfiguredUpTo(K, keywords, Len(keywords), Configure(keywords))
<1>1. PICK len : len = Len(keywords) OBVIOUS
<1>2. len \in Nat BY <1>1, LenProperties
<1>3. PICK g : ConfigureBy(g, keywords) BY ConfigureRuns
<1>4. /\ g[0] = Unapplied(keywords) /\ Configure(keywords) = g[len]
      /\ \A n \in 1..len : g[n] = ConfigureOne(g[n - 1], keywords[n])
  BY <1>1, <1>3 DEF ConfigureBy
<1> DEFINE T == {n \in 0..len : ConfiguredUpTo(K, keywords, n, g[n])}
<1>5. 0 \in T
  <2>1. PICK run : run = Unapplied(keywords) OBVIOUS
  <2>2. run \in RunsOf(K) /\ run.applied = << >> /\ run.error = "" BY <2>1, NothingApplied
  <2>3. SubSeq(keywords, 1, 0) = << >> BY SubSeqEmpty
  <2>4. Len(run.applied) = 0
    <3>1. PICK a : a = << >> OBVIOUS
    <3>2. Len(a) = 0 BY <3>1
    <3>3. run.applied = a BY <2>2, <3>1, Zenon
    <3> QED BY <3>2, <3>3
  <2>5. 0 \in 0..0 /\ 0 \in 0..len BY <1>2
  <2>6. ConfiguredUpTo(K, keywords, 0, run) BY <2>2, <2>3, <2>4, <2>5 DEF ConfiguredUpTo
  <2> QED BY <2>1, <2>5, <2>6, <1>4
<1>6. ASSUME NEW i \in 0..(len - 1), i \in T PROVE i + 1 \in T
  <2>1. PICK n : n = i + 1 OBVIOUS
  <2>2. n \in 1..len /\ n \in 0..len /\ n - 1 = i BY <1>2, <2>1
  <2>3. ConfiguredUpTo(K, keywords, n - 1, g[i]) BY <1>6, <2>2
  <2>4. ConfiguredUpTo(K, keywords, n, ConfigureOne(g[i], keywords[n]))
    BY <2>2, <2>3, <1>1, KeywordConfigured
  <2>5. g[n] = ConfigureOne(g[i], keywords[n]) BY <2>2, <1>4
  <2> QED BY <2>1, <2>2, <2>4, <2>5
<1>7. 0..len \subseteq T
  <2> HIDE DEF T
  <2> QED BY <1>2, <1>5, <1>6, CountedUp
<1>8. len \in 0..len BY <1>2
<1> QED BY <1>1, <1>4, <1>7, <1>8

\* The constructor after n keywords: each was applied or is passed on, and those
\* that are passed on are no properties and no signals if nothing has failed.
FinalisedUpTo(K, keywords, n, run) ==
    /\ run \in RunsOf(K)
    /\ Range(run.applied) \cap run.unused = {}
    /\ Range(run.applied) \cup run.unused = Range(keywords)
    /\ run.error = "" =>
         \A i \in 1..n : keywords[i] \in run.unused => HandleArgument(keywords[i]) = "AsUnknown"

\* What is appended is in the range.
LEMMA RangeAppended ==
    ASSUME NEW K, NEW s \in Seq(K), NEW k \in K
    PROVE  Range(Append(s, k)) = Range(s) \cup {k}
<1>1. PICK a : a = Append(s, k) OBVIOUS
<1>2. PICK len : len = Len(s) OBVIOUS
<1>3. /\ len \in Nat /\ DOMAIN s = 1..len
      /\ a \in Seq(K) /\ Len(a) = len + 1
      /\ \A i \in 1..len : a[i] = s[i]
      /\ a[len + 1] = k
  BY <1>1, <1>2, LenProperties, AppendProperties
<1>4. DOMAIN a = 1..(len + 1) BY <1>3, LenProperties
<1>5. 1..(len + 1) = (1..len) \cup {len + 1} BY <1>3
<1>6. Range(s) = {s[i] : i \in 1..len} BY <1>3 DEF Range
<1>7. Range(a) = {a[i] : i \in (1..len) \cup {len + 1}} BY <1>4, <1>5 DEF Range
<1>8. Range(a) = Range(s) \cup {k} BY <1>3, <1>6, <1>7
<1> QED BY <1>1, <1>8

\* The next keyword is applied and not passed on, or it is passed on.
LEMMA KeywordFinalised ==
    ASSUME NEW K, NEW keywords \in Seq(K), NEW n \in 1..Len(keywords),
           NEW run, FinalisedUpTo(K, keywords, n - 1, run)
    PROVE  FinalisedUpTo(K, keywords, n, FinalisationOne(run, keywords[n]))
<1>1. n \in Int /\ n >= 1 /\ 1..n = (1..(n - 1)) \cup {n} BY LenProperties
<1>2. run \in RunsOf(K) BY DEF FinalisedUpTo
<1>3. run.applied \in Seq(K) /\ run.unused \subseteq K BY <1>2 DEF RunsOf
<1>4. /\ Range(run.applied) \cap run.unused = {}
      /\ Range(run.applied) \cup run.unused = Range(keywords)
  BY DEF FinalisedUpTo
<1>5. run.error = "" =>
        \A i \in 1..(n - 1) : keywords[i] \in run.unused => HandleArgument(keywords[i]) = "AsUnknown"
  BY DEF FinalisedUpTo
<1>6. PICK k : k = keywords[n] OBVIOUS
<1>7. k \in K /\ k \in Range(keywords)
  <2>1. k \in K BY <1>6, ElementOfSeq
  <2>2. n \in DOMAIN keywords BY LenProperties
  <2> QED BY <2>1, <2>2, <1>6 DEF Range
<1>8. PICK new : new = FinalisationOne(run, k) OBVIOUS
<1>9. CASE run.error # ""
  <2>1. new = run BY <1>8, <1>9 DEF FinalisationOne
  <2> QED BY <2>1, <1>2, <1>4, <1>6, <1>8, <1>9 DEF FinalisedUpTo
<1>10. CASE run.error = "" /\ HandleArgument(k) = "AsHandled"
  <2>1. new = [Applied(run, k) EXCEPT !.unused = @ \ {k}]
    BY <1>8, <1>10 DEF FinalisationOne
  <2>2. PICK a : a = Applied(run, k) OBVIOUS
  <2>3. /\ a \in RunsOf(K) /\ a.applied = Append(run.applied, k)
        /\ a.unused = run.unused /\ a.error = run.error
    BY <2>2, <1>2, <1>7, RunGoesOn
  <2>4. PICK u : u = run.unused \ {k} OBVIOUS
  <2>5. u \subseteq K BY <2>4, <1>3
  <2>6. new = [a EXCEPT !.unused = u] BY <2>1, <2>2, <2>3, <2>4
  <2>7. new \in RunsOf(K) /\ new.applied = a.applied /\ new.unused = u /\ new.error = a.error
    BY <2>3, <2>5, <2>6 DEF RunsOf
  <2>8. Range(new.applied) = Range(run.applied) \cup {k}
    BY <2>3, <2>7, <1>3, <1>7, RangeAppended
  <2>9. Range(new.applied) \cap new.unused = {} BY <2>4, <2>7, <2>8, <1>4
  <2>10. Range(new.applied) \cup new.unused = Range(keywords)
    BY <2>4, <2>7, <2>8, <1>4, <1>7
  <2>11. \A i \in 1..n : keywords[i] \in new.unused => HandleArgument(keywords[i]) = "AsUnknown"
    <3>1. \A i \in 1..n : i # n => i \in 1..(n - 1) BY <1>1
    <3>2. keywords[n] \notin new.unused BY <2>4, <2>7, <1>6
    <3>3. \A i \in 1..n : keywords[i] \in new.unused => keywords[i] \in run.unused
      BY <2>4, <2>7
    <3> QED BY <3>1, <3>2, <3>3, <1>5, <1>10
  <2> QED BY <2>7, <2>9, <2>10, <2>11, <1>6, <1>8 DEF FinalisedUpTo
<1>11. CASE run.error = "" /\ HandleArgument(k) = "AsError"
  <2>1. new = [run EXCEPT !.error = "TypeError"] BY <1>8, <1>11 DEF FinalisationOne
  <2>2. /\ new \in RunsOf(K) /\ new.applied = run.applied /\ new.unused = run.unused
        /\ new.error # ""
    BY <2>1, <1>2, RunFails
  <2> QED BY <2>2, <1>4, <1>6, <1>8 DEF FinalisedUpTo
<1>12. CASE run.error = "" /\ HandleArgument(k) = "AsUnknown"
  <2>1. new = run BY <1>8, <1>12 DEF FinalisationOne
  <2>2. \A i \in 1..n : keywords[i] \in run.unused => HandleArgument(keywords[i]) = "AsUnknown"
    <3>1. \A i \in 1..n : i # n => i \in 1..(n - 1) BY <1>1
    <3> QED BY <3>1, <1>5, <1>6, <1>12
  <2> QED BY <2>1, <2>2, <1>2, <1>4, <1>6, <1>8 DEF FinalisedUpTo
<1>13. HandleArgument(k) \in {"AsHandled", "AsError", "AsUnknown"}
  <2>1. CASE k.kind \in {"property", "signal"} /\ k.good BY <2>1 DEF HandleArgument
  <2>2. CASE k.kind \in {"property", "signal"} /\ ~ k.good BY <2>2 DEF HandleArgument
  <2>3. CASE k.kind \notin {"property", "signal"} BY <2>3 DEF HandleArgument
  <2> QED BY <2>1, <2>2, <2>3
<1> QED BY <1>9, <1>10, <1>11, <1>12, <1>13

\* The constructor has applied or passes on each of the keywords.
LEMMA AllFinalised ==
    ASSUME NEW K, NEW keywords \in Seq(K)
    PROVE  FinalisedUpTo(K, keywords, Len(keywords), Finalisation(keywords))
<1>1. PICK len : len = Len(keywords) OBVIOUS
<1>2. len \in Nat BY <1>1, LenProperties
<1>3. PICK g : FinalisationBy(g, keywords) BY FinalisationRuns
<1>4. /\ g[0] = Unapplied(keywords) /\ Finalisation(keywords) = g[len]
      /\ \A n \in 1..len : g[n] = FinalisationOne(g[n - 1], keywords[n])
  BY <1>1, <1>3 DEF FinalisationBy
<1> DEFINE T == {n \in 0..len : FinalisedUpTo(K, keywords, n, g[n])}
<1>5. 0 \in T
  <2>1. PICK run : run = Unapplied(keywords) OBVIOUS
  <2>2. /\ run \in RunsOf(K) /\ run.applied = << >> /\ run.unused = Range(keywords)
        /\ run.error = ""
    BY <2>1, NothingApplied
  <2>3. Range(run.applied) = {}
    <3>1. PICK a : a = << >> OBVIOUS
    <3>2. DOMAIN a = {} BY <3>1
    <3>3. run.applied = a BY <2>2, <3>1, Zenon
    <3>4. Range(a) = {} BY <3>2 DEF Range
    <3> QED BY <3>3, <3>4
  <2>4. 0 \in 0..len /\ \A i \in 1..0 : FALSE BY <1>2
  <2>5. FinalisedUpTo(K, keywords, 0, run) BY <2>2, <2>3, <2>4 DEF FinalisedUpTo
  <2> QED BY <2>1, <2>4, <2>5, <1>4
<1>6. ASSUME NEW i \in 0..(len - 1), i \in T PROVE i + 1 \in T
  <2>1. PICK n : n = i + 1 OBVIOUS
  <2>2. n \in 1..len /\ n \in 0..len /\ n - 1 = i BY <1>2, <2>1
  <2>3. FinalisedUpTo(K, keywords, n - 1, g[i]) BY <1>6, <2>2
  <2>4. FinalisedUpTo(K, keywords, n, FinalisationOne(g[i], keywords[n]))
    BY <2>2, <2>3, <1>1, KeywordFinalised
  <2>5. g[n] = FinalisationOne(g[i], keywords[n]) BY <2>2, <1>4
  <2> QED BY <2>1, <2>2, <2>4, <2>5
<1>7. 0..len \subseteq T
  <2> HIDE DEF T
  <2> QED BY <1>2, <1>5, <1>6, CountedUp
<1>8. len \in 0..len BY <1>2
<1> QED BY <1>1, <1>4, <1>7, <1>8

\* The methods of a name.
MethodsOf(methods, name) ==
    {i \in DOMAIN methods : methods[i].name = name /\ methods[i].kind # "constructor"}

\* The last of them is found.
LEMMA MethodFound ==
    ASSUME NEW M, NEW methods \in Seq(M), NEW name,
           NEW of, of = MethodsOf(methods, name),
           NEW i, i = MethodIndex(methods, name)
    PROVE  IF of = {} THEN i = 0 ELSE i = Max(of) /\ i \in of /\ i # 0
<1>1. PICK n : n = Len(methods) OBVIOUS
<1>2. n \in Nat /\ DOMAIN methods = 1..n BY <1>1, LenProperties
<1> DEFINE I == {j \in 1..Len(methods) : methods[j].kind # "constructor" /\ methods[j].name = name}
<1>3. MethodIndex(methods, name) = IF I # {} THEN Max(I) ELSE 0
  BY DEF MethodIndex, SelectLastInSeq
<1>4. I = of BY <1>1, <1>2 DEF MethodsOf
<1> HIDE DEF I
<1>5. CASE of = {} BY <1>3, <1>4, <1>5
<1>6. CASE of # {}
  <2>1. of \in SUBSET (0..n) /\ of \subseteq 1..n BY <1>2 DEF MethodsOf
  <2>2. Max(of) \in of BY <2>1, <1>2, <1>6, GreatestNumber
  <2>3. i = Max(of) BY <1>3, <1>4, <1>6
  <2>4. i \in of BY <2>2, <2>3
  <2>5. i # 0 BY <2>1, <2>4, <1>2
  <2> QED BY <2>3, <2>4, <2>5, <1>6
<1> QED BY <1>5, <1>6

\* What is found of a name is the last method.
LEMMA LatestFound ==
    ASSUME NEW M, NEW methods \in Seq(M), NEW name,
           NEW of, of = MethodsOf(methods, name),
           NEW is, is = GetAttr(methods, name)
    PROVE  IF is.is = "AttributeError"
             THEN of = {} \/ (name = "private" /\ methods[Max(of)].kind # "signal")
           ELSE is.index = Max(of) /\ (is.is = "signal" <=> methods[Max(of)].kind = "signal")
<1>1. PICK i : i = MethodIndex(methods, name) OBVIOUS
<1>2. IF of = {} THEN i = 0 ELSE i = Max(of) /\ i \in of /\ i # 0
  BY <1>1, MethodFound
<1>3. CASE i # 0 /\ methods[i].kind = "signal"
  <2>1. is.is = "signal" /\ is.index = i BY <1>1, <1>3 DEF GetAttr
  <2> QED BY <2>1, <1>2, <1>3
<1>4. CASE i # 0 /\ methods[i].kind # "signal" /\ name # "private"
  <2>1. is.is = "proxy" /\ is.index = i BY <1>1, <1>4 DEF GetAttr
  <2> QED BY <2>1, <1>2, <1>4
<1>5. CASE i = 0 \/ (methods[i].kind # "signal" /\ name = "private")
  <2>1. is.is = "AttributeError" BY <1>1, <1>5 DEF GetAttr
  <2> QED BY <2>1, <1>2, <1>5
<1> QED BY <1>3, <1>4, <1>5

\* Storage is allocated for each of the arguments if none has failed.
LEMMA AllParsed ==
    ASSUME NEW P, NEW parameters \in Seq(P), NEW parse, parse = ParseArgs(parameters)
    PROVE  /\ parse.failed \in BOOLEAN /\ parse.allocated \in Nat
           /\ ~ parse.failed => parse.allocated = Len(parameters)
<1>1. PICK len : len = Len(parameters) OBVIOUS
<1>2. len \in Nat BY <1>1, LenProperties
<1>3. PICK g : ParsedBy(g, parameters) BY ArgsParsed
<1>4. /\ g[0] = [failed |-> FALSE, allocated |-> 0] /\ parse = g[len]
      /\ \A n \in 1..len : g[n] = ParseOne(g[n - 1], parameters[n])
  BY <1>1, <1>3 DEF ParsedBy
<1> DEFINE T == {n \in 0..len : /\ g[n] \in [failed : BOOLEAN, allocated : Nat]
                                /\ ~ g[n].failed => g[n].allocated = n}
<1>5. 0 \in T
  <2>1. 0 \in 0..len BY <1>2
  <2>2. g[0].allocated = 0 BY <1>4
  <2>3. g[0] \in [failed : BOOLEAN, allocated : Nat]
    <3>1. PICK f : f = FALSE OBVIOUS
    <3>2. f \in BOOLEAN BY <3>1, Zenon
    <3>3. g[0] = [failed |-> f, allocated |-> 0] BY <1>4, <3>1
    <3> QED BY <3>2, <3>3
  <2> QED BY <2>1, <2>2, <2>3
<1>6. ASSUME NEW i \in 0..(len - 1), i \in T PROVE i + 1 \in T
  <2>1. PICK n : n = i + 1 OBVIOUS
  <2>2. n \in 1..len /\ n \in 0..len /\ n - 1 = i BY <1>2, <2>1
  <2>3. PICK s : s = g[i] OBVIOUS
  <2>4. s \in [failed : BOOLEAN, allocated : Nat] /\ (~ s.failed => s.allocated = i)
    BY <1>6, <2>3
  <2>5. PICK t : t = g[n] OBVIOUS
  <2>6. t = ParseOne(s, parameters[n]) BY <2>2, <2>3, <2>5, <1>4
  <2>7. t \in [failed : BOOLEAN, allocated : Nat] /\ (~ t.failed => t.allocated = n)
    <3>1. CASE s.failed
      <4>1. t = s BY <3>1, <2>6 DEF ParseOne
      <4> QED BY <4>1, <3>1, <2>4
    <3>2. CASE ~ s.failed /\ parameters[n] = "bad"
      <4>1. t = [s EXCEPT !.failed = TRUE] BY <3>2, <2>6 DEF ParseOne
      <4>2. t.failed = TRUE BY <4>1, <2>4
      <4>3. t \in [failed : BOOLEAN, allocated : Nat] BY <4>1, <2>4, Zenon
      <4> QED BY <4>2, <4>3
    <3>3. CASE ~ s.failed /\ parameters[n] # "bad"
      <4>1. PICK m : m = s.allocated + 1 OBVIOUS
      <4>2. m \in Nat /\ m = n BY <4>1, <2>4, <3>3, <2>1
      <4>3. t = [s EXCEPT !.allocated = m] BY <3>3, <2>6, <4>1 DEF ParseOne
      <4>4. t \in [failed : BOOLEAN, allocated : Nat] /\ t.allocated = m BY <4>2, <4>3, <2>4
      <4> QED BY <4>2, <4>4
    <3> QED BY <3>1, <3>2, <3>3
  <2> QED BY <2>1, <2>2, <2>5, <2>7
<1>7. 0..len \subseteq T
  <2> HIDE DEF T
  <2> QED BY <1>2, <1>5, <1>6, CountedUp
<1>8. len \in 0..len BY <1>2
<1> QED BY <1>1, <1>4, <1>7, <1>8

\* A call releases what it has allocated, and Qt gets all the arguments.
LEMMA CallIsReleased ==
    ASSUME NEW P, NEW given \in Seq(P), NEW parameters, NEW return, NEW fails,
           NEW is, is = ProxyCall(parameters, given, return, fails)
    PROVE  /\ is.released = is.allocated
           /\ is.called => is.allocated = Len(parameters) + IF return = "known" THEN 1 ELSE 0
<1>1. PICK parse : parse = ParseArgs(given) OBVIOUS
<1>2. /\ parse.failed \in BOOLEAN /\ parse.allocated \in Nat
      /\ ~ parse.failed => parse.allocated = Len(given)
  BY <1>1, AllParsed
<1>3. PICK storage : storage = IF return = "known" THEN 1 ELSE 0 OBVIOUS
<1>4. CASE Len(given) # Len(parameters)
  <2>1. is.called = FALSE /\ is.allocated = 0 /\ is.released = 0 BY <1>4 DEF ProxyCall
  <2> QED BY <2>1
<1>5. CASE Len(given) = Len(parameters) /\ return = "unknown"
  <2>1. is.called = FALSE /\ is.allocated = 0 /\ is.released = 0 BY <1>5 DEF ProxyCall
  <2> QED BY <2>1
<1>6. CASE Len(given) = Len(parameters) /\ return # "unknown"
  <2>1. /\ is.called = (~ parse.failed /\ ~ fails)
        /\ is.allocated = parse.allocated + storage /\ is.released = Released(parse, storage)
    BY <1>1, <1>3, <1>6 DEF ProxyCall
  <2>2. is.released = is.allocated BY <2>1 DEF Released
  <2>3. is.called => parse.allocated = Len(parameters) BY <2>1, <1>2, <1>6
  <2> QED BY <2>1, <2>2, <2>3, <1>3
<1> QED BY <1>4, <1>5, <1>6

\* A name is put together of a word, the name of an object and that of a signal.
NameOf(word, n, m) == <<word>> \o n \o m

\* These are its words.
LEMMA NamePutTogether ==
    ASSUME NEW W, NEW word \in W, NEW n \in Seq(W), NEW m \in Seq(W), Len(m) = 1,
           NEW q, q = NameOf(word, n, m)
    PROVE  /\ q \in Seq(W) /\ Len(q) = Len(n) + 2 /\ q[1] = word
           /\ \A i \in 1..Len(n) : q[i + 1] = n[i]
           /\ q[Len(n) + 2] = m[1]
<1>1. PICK a : a = Len(n) OBVIOUS
<1>2. a \in Nat BY <1>1, LenProperties
<1>3. PICK w : w = <<word>> OBVIOUS
<1>4. w \in Seq(W) /\ Len(w) = 1 /\ w[1] = word BY <1>3
<1>5. PICK p : p = w \o n OBVIOUS
<1>6. /\ p \in Seq(W) /\ Len(p) = 1 + a
      /\ \A i \in 1..(1 + a) : p[i] = IF i <= 1 THEN w[i] ELSE n[i - 1]
  <2>1. /\ p \in Seq(W) /\ Len(p) = Len(w) + Len(n)
        /\ \A i \in 1..(Len(w) + Len(n)) : p[i] = IF i <= Len(w) THEN w[i] ELSE n[i - Len(w)]
    <3>1. w \in Seq(W) BY <1>4
    <3> QED BY <3>1, <1>5, ConcatProperties
  <2> QED BY <2>1, <1>1, <1>4
<1>7. q = p \o m BY <1>3, <1>5 DEF NameOf
<1>8. /\ q \in Seq(W) /\ Len(q) = Len(p) + Len(m)
      /\ \A i \in 1..(Len(p) + Len(m)) : q[i] = IF i <= Len(p) THEN p[i] ELSE m[i - Len(p)]
  <2>1. p \in Seq(W) BY <1>6
  <2>2. /\ p \o m \in Seq(W) /\ Len(p \o m) = Len(p) + Len(m)
        /\ \A i \in 1..(Len(p) + Len(m)) :
             (p \o m)[i] = IF i <= Len(p) THEN p[i] ELSE m[i - Len(p)]
    BY <2>1, ConcatProperties
  <2> QED BY <2>2, <1>7, Zenon
<1>9. Len(p) = a + 1 /\ Len(p) + Len(m) = a + 2 BY <1>2, <1>6
<1>10. q \in Seq(W) /\ Len(q) = a + 2
       /\ \A i \in 1..(a + 2) : q[i] = IF i <= a + 1 THEN p[i] ELSE m[i - (a + 1)]
  BY <1>8, <1>9
<1>11. q[1] = word
  <2>1. 1 \in 1..(a + 2) /\ 1 <= a + 1 /\ 1 \in 1..(1 + a) /\ 1 <= 1 BY <1>2
  <2>2. q[1] = p[1] BY <2>1, <1>10
  <2>3. p[1] = w[1] BY <2>1, <1>6
  <2> QED BY <2>2, <2>3, <1>4
<1>12. \A i \in 1..a : q[i + 1] = n[i]
  <2> SUFFICES ASSUME NEW i \in 1..a PROVE q[i + 1] = n[i]
    OBVIOUS
  <2>1. PICK j : j = i + 1 OBVIOUS
  <2>2. j \in 1..(a + 2) /\ j <= a + 1 /\ j \in 1..(1 + a) /\ ~ (j <= 1) /\ j - 1 = i
    BY <2>1, <1>2
  <2>3. q[j] = p[j] BY <2>2, <1>10
  <2>4. p[j] = n[j - 1] BY <2>2, <1>6
  <2> QED BY <2>1, <2>2, <2>3, <2>4
<1>13. q[a + 2] = m[1]
  <2>1. PICK j : j = a + 2 OBVIOUS
  <2>2. j \in 1..(a + 2) /\ ~ (j <= a + 1) /\ j - (a + 1) = 1 BY <2>1, <1>2
  <2>3. q[j] = m[j - (a + 1)] BY <2>2, <1>10
  <2> QED BY <2>1, <2>2, <2>3
<1> QED BY <1>1, <1>10, <1>11, <1>12, <1>13

\* It is split in the same way.
LEMMA NameIsSplit ==
    ASSUME NEW W, NEW word \in W, NEW n \in Seq(W), n # << >>, NEW m \in Seq(W), Len(m) = 1,
           NEW name \in Seq(W)
    PROVE  name = NameOf(word, n, m) <=>
             /\ Len(name) >= 3 /\ name[1] = word
             /\ SplitName(name)[1] = n /\ SplitName(name)[2] = m
<1>1. PICK a : a = Len(n) OBVIOUS
<1>2. a \in Nat /\ a >= 1
  <2>1. a \in Nat BY <1>1, LenProperties
  <2>2. a # 0 BY <1>1, EmptySeq
  <2> QED BY <2>1, <2>2
<1>3. PICK q : q = NameOf(word, n, m) OBVIOUS
<1>4. /\ q \in Seq(W) /\ Len(q) = a + 2 /\ q[1] = word
      /\ \A i \in 1..a : q[i + 1] = n[i]
      /\ q[a + 2] = m[1]
  <2>1. q \in Seq(W) /\ Len(q) = Len(n) + 2 BY <1>3, NamePutTogether
  <2>2. q[1] = word BY <1>3, NamePutTogether
  <2>3. \A i \in 1..Len(n) : q[i + 1] = n[i] BY <1>3, NamePutTogether
  <2>4. q[Len(n) + 2] = m[1] BY <1>3, NamePutTogether
  <2> QED BY <2>1, <2>2, <2>3, <2>4, <1>1
<1>5. PICK l : l = Len(name) OBVIOUS
<1>6. l \in Nat /\ \A i \in 1..l : name[i] \in W BY <1>5, LenProperties, ElementOfSeq
<1>7. PICK b : b = SubSeq(name, 2, l - 1) OBVIOUS
<1>8. PICK c : c = SubSeq(name, l, l) OBVIOUS
<1>9. SplitName(name)[1] = b /\ SplitName(name)[2] = c BY <1>5, <1>7, <1>8 DEF SplitName
<1>10. ASSUME l >= 3
       PROVE  /\ b \in Seq(W) /\ Len(b) = l - 2 /\ \A i \in 1..(l - 2) : b[i] = name[i + 1]
              /\ c \in Seq(W) /\ Len(c) = 1 /\ c[1] = name[l]
  <2>1. 2 \in Int /\ l - 1 \in Int /\ l \in Int /\ 2 <= l - 1
        /\ 2..(l - 1) \subseteq 1..l /\ l..l \subseteq 1..l
    BY <1>6, <1>10
  <2>2. /\ b \in Seq(W) /\ Len(b) = IF 2 <= l - 1 THEN l - 1 - 2 + 1 ELSE 0
        /\ \A i \in 1..(l - 1 - 2 + 1) : b[i] = name[2 + i - 1]
    <3>1. \A i \in 2..(l - 1) : name[i] \in W BY <2>1, <1>6
    <3> QED BY <2>1, <3>1, <1>7, SubSeqProperties
  <2>3. /\ c \in Seq(W) /\ Len(c) = IF l <= l THEN l - l + 1 ELSE 0
        /\ \A i \in 1..(l - l + 1) : c[i] = name[l + i - 1]
    <3>1. \A i \in l..l : name[i] \in W BY <2>1, <1>6
    <3> QED BY <2>1, <3>1, <1>8, SubSeqProperties
  <2>4. Len(b) = l - 2 /\ Len(c) = 1 BY <2>1, <2>2, <2>3
  <2>5. \A i \in 1..(l - 2) : b[i] = name[i + 1]
    <3>1. l - 1 - 2 + 1 = l - 2 BY <2>1
    <3>2. \A i \in 1..(l - 2) : 2 + i - 1 = i + 1 BY <2>1
    <3> QED BY <2>2, <3>1, <3>2
  <2>6. c[1] = name[l]
    <3>1. 1 \in 1..(l - l + 1) /\ l + 1 - 1 = l BY <2>1
    <3> QED BY <2>3, <3>1
  <2> QED BY <2>2, <2>3, <2>4, <2>5, <2>6
<1>11. ASSUME name = q
       PROVE  l >= 3 /\ name[1] = word /\ b = n /\ c = m
  <2>1. l = a + 2 /\ l >= 3 /\ l - 2 = a BY <1>2, <1>4, <1>5, <1>11
  <2>2. /\ b \in Seq(W) /\ Len(b) = a /\ \A i \in 1..a : b[i] = name[i + 1]
        /\ c \in Seq(W) /\ Len(c) = 1 /\ c[1] = name[a + 2]
    BY <2>1, <1>10
  <2>3. b = n
    <3>1. \A i \in 1..Len(b) : b[i] = n[i] BY <2>2, <1>4, <1>11
    <3> QED BY <3>1, <2>2, <1>1, SeqEqual
  <2>4. c = m
    <3>1. c[1] = m[1] BY <2>2, <1>4, <1>11
    <3>2. Len(c) = Len(m) /\ c \in Seq(W) BY <2>2
    <3>3. \A i \in 1..Len(c) : i = 1
      <4>1. Len(c) = 1 BY <2>2
      <4> QED BY <4>1
    <3>4. \A i \in 1..Len(c) : c[i] = m[i] BY <3>1, <3>3
    <3> QED BY <3>2, <3>4, SeqEqual
  <2> QED BY <2>1, <2>3, <2>4, <1>4, <1>11
<1>12. ASSUME l >= 3, name[1] = word, b = n, c = m
       PROVE  name = q
  <2>1. l - 2 = a /\ l = a + 2 BY <1>1, <1>6, <1>10, <1>12
  <2>2. \A i \in 1..a : name[i + 1] = n[i] BY <2>1, <1>10, <1>12
  <2>3. name[a + 2] = m[1] BY <2>1, <1>10, <1>12
  <2>4. ASSUME NEW i \in 1..l PROVE name[i] = q[i]
    <3>1. CASE i = 1 BY <3>1, <1>4, <1>12
    <3>2. CASE i = a + 2 BY <3>2, <2>3, <1>4
    <3>3. CASE i # 1 /\ i # a + 2
      <4>1. i - 1 \in 1..a /\ (i - 1) + 1 = i BY <3>3, <2>1, <1>2
      <4>2. name[(i - 1) + 1] = n[i - 1] /\ q[(i - 1) + 1] = n[i - 1] BY <4>1, <2>2, <1>4
      <4> QED BY <4>1, <4>2
    <3> QED BY <3>1, <3>2, <3>3
  <2> QED BY <2>1, <2>4, <1>4, <1>5, SeqEqual
<1> QED BY <1>3, <1>5, <1>9, <1>11, <1>12

\* Children whose names differ, and signals whose names are a word.
NamesDiffer(W, children) ==
    /\ \A c \in DOMAIN children :
         /\ children[c].name \in Seq(W) /\ children[c].name # << >>
         /\ \A s \in children[c].signals : s.name \in Seq(W) /\ Len(s.name) = 1
    /\ \A c, d \in DOMAIN children : children[c].name = children[d].name => c = d

\* A name, with the signature of a decoration if there is one, connects a signal.
Connects(child, name, args, s) ==
    /\ s \in child.signals
    /\ name = NameOf("on", child.name, s.name)
    /\ args # << >> => <<s.args>> = args

\* A name connects the signals of the one child whose name and signal it has.
LEMMA ConnectedByName ==
    ASSUME NEW W, "on" \in W, NEW C, NEW children \in Seq(C), NamesDiffer(W, children),
           NEW name \in Seq(W), NEW args, NEW c \in DOMAIN children, NEW s
    PROVE  <<c, s>> \in ConnectByName(children, name, args) <=> Connects(children[c], name, args, s)
<1> SUFFICES <<c, s>> \in ConnectByName(children, name, args) <=>
               /\ s \in children[c].signals
               /\ name = NameOf("on", children[c].name, s.name)
               /\ args # << >> => <<s.args>> = args
  BY Zenon DEF Connects
<1>1. PICK n : n = Len(children) OBVIOUS
<1>2. n \in Nat /\ DOMAIN children = 1..n BY <1>1, LenProperties
<1>3. PICK parts : parts = SplitName(name) OBVIOUS
<1> DEFINE I == {i \in 1..Len(children) : children[i].name = parts[1]}
<1>4. PICK child : child = SelectInSeq(children, LAMBDA i : i.name = parts[1]) OBVIOUS
<1>5. child = IF I # {} THEN Min(I) ELSE 0 BY <1>4 DEF SelectInSeq
<1>6. child = c <=> children[c].name = parts[1]
  <2>1. I \in SUBSET (0..n) /\ c \in 1..n /\ c # 0 BY <1>1, <1>2
  <2>2. CASE I = {}
    <3>1. child = 0 BY <2>2, <1>5
    <3>2. c \notin I BY <2>2
    <3> QED BY <3>1, <3>2, <2>1, <1>1
  <2>3. CASE I # {}
    <3>1. Min(I) \in I
      <4> HIDE DEF I
      <4> QED BY <2>1, <2>3, <1>2, LeastNumber
    <3>2. child \in I BY <3>1, <2>3, <1>5
    <3>3. child \in DOMAIN children /\ children[child].name = parts[1] BY <3>2, <1>1, <1>2
    <3>4. children[c].name = children[child].name => c = child BY <3>3 DEF NamesDiffer
    <3> QED BY <3>3, <3>4
  <2> QED BY <2>2, <2>3
<1>7. CASE Len(name) < 3 \/ name[1] # "on"
  <2>1. ConnectByName(children, name, args) = {} BY <1>7 DEF ConnectByName
  <2>2. ASSUME s \in children[c].signals, name = NameOf("on", children[c].name, s.name)
        PROVE  FALSE
    <3>1. children[c].name \in Seq(W) /\ children[c].name # << >>
          /\ s.name \in Seq(W) /\ Len(s.name) = 1
      BY <2>2 DEF NamesDiffer
    <3>2. Len(name) >= 3 /\ name[1] = "on"
      <4>1. PICK m : m = s.name OBVIOUS
      <4>2. PICK k : k = children[c].name OBVIOUS
      <4>3. PICK word : word = "on" OBVIOUS
      <4>4. word \in W /\ k \in Seq(W) /\ k # << >> /\ m \in Seq(W) /\ Len(m) = 1
        BY <3>1, <4>1, <4>2, <4>3
      <4>5. name = NameOf(word, k, m) BY <2>2, <4>1, <4>2, <4>3
      <4>6. Len(name) >= 3 /\ name[1] = word BY <4>4, <4>5, NameIsSplit
      <4> QED BY <4>3, <4>6
    <3>3. Len(name) \in Nat BY LenProperties
    <3> QED BY <3>2, <3>3, <1>7
  <2> QED BY <2>1, <2>2
<1>8. CASE ~ (Len(name) < 3 \/ name[1] # "on")
  <2>1. Len(name) >= 3 /\ name[1] = "on"
    <3>1. Len(name) \in Nat BY LenProperties
    <3> QED BY <3>1, <1>8
  <2> DEFINE T == {t \in children[child].signals :
                     t.name = parts[2] /\ (args # << >> => <<t.args>> = args)}
  <2>2. ConnectByName(children, name, args) = IF child = 0 THEN {} ELSE {<<child, t>> : t \in T}
    BY <1>3, <1>4, <1>8 DEF ConnectByName
  <2>3. c # 0 BY <1>2
  <2>4. <<c, s>> \in ConnectByName(children, name, args) <=> child = c /\ s \in T
    <3> HIDE DEF T
    <3> QED BY <2>2, <2>3
  <2>5. ASSUME s \in children[c].signals
        PROVE  name = NameOf("on", children[c].name, s.name) <=>
                 children[c].name = parts[1] /\ s.name = parts[2]
    <3>1. PICK m : m = s.name OBVIOUS
    <3>2. PICK k : k = children[c].name OBVIOUS
    <3>3. k \in Seq(W) /\ k # << >> /\ m \in Seq(W) /\ Len(m) = 1
      BY <2>5, <3>1, <3>2 DEF NamesDiffer
    <3>4. PICK word : word = "on" OBVIOUS
    <3>5. name = NameOf(word, k, m) <=>
            /\ Len(name) >= 3 /\ name[1] = word
            /\ SplitName(name)[1] = k /\ SplitName(name)[2] = m
      <4>1. word \in W BY <3>4
      <4> QED BY <3>3, <4>1, NameIsSplit
    <3> QED BY <3>1, <3>2, <3>4, <3>5, <2>1, <1>3
  <2> QED BY <2>4, <2>5, <1>6
<1> QED BY <1>7, <1>8

\* The words that names are made of.
Words == {"on", "ok", "box", "clicked", "toggled", "none"}

\* One, two and three words are a name.
LEMMA WordsAreName ==
    ASSUME NEW W, NEW a \in W, NEW b \in W, NEW c \in W, NEW d \in W
    PROVE  /\ <<a>> \in Seq(W) /\ Len(<<a>>) = 1 /\ <<a>> # << >>
           /\ <<a, b>> \in Seq(W) /\ Len(<<a, b>>) = 2 /\ <<a, b>> # << >>
           /\ <<a, b, c>> \in Seq(W) /\ <<a, b, c, d>> \in Seq(W)
  OBVIOUS

\* The children have names of their own, and their signals have a word as a name.
LEMMA ChildrenDiffer == Children \in Seq(Range(Children)) /\ NamesDiffer(Words, Children)
<1>1. PICK ok : ok = <<"ok">> OBVIOUS
<1>2. PICK box : box = <<"ok", "box">> OBVIOUS
<1>3. PICK clicked : clicked = <<"clicked">> OBVIOUS
<1>4. PICK toggled : toggled = <<"toggled">> OBVIOUS
<1>5. /\ ok \in Seq(Words) /\ Len(ok) = 1 /\ ok # << >>
      /\ clicked \in Seq(Words) /\ Len(clicked) = 1
      /\ toggled \in Seq(Words) /\ Len(toggled) = 1
      /\ box \in Seq(Words) /\ Len(box) = 2 /\ box # << >>
  <2>1. "ok" \in Words /\ "box" \in Words /\ "clicked" \in Words /\ "toggled" \in Words
    BY DEF Words
  <2> QED BY <2>1, <1>1, <1>2, <1>3, <1>4, WordsAreName
<1>6. ok # box
  <2>1. Len(ok) = 1 /\ Len(box) = 2 BY <1>5
  <2>2. PICK l, k : l = Len(ok) /\ k = Len(box) OBVIOUS
  <2>3. l # k BY <2>1, <2>2
  <2> QED BY <2>2, <2>3, Zenon
<1>7. PICK S : S = {[name |-> clicked, args |-> "()"], [name |-> clicked, args |-> "(bool)"]} OBVIOUS
<1>8. PICK T : T = {[name |-> clicked, args |-> "(bool)"], [name |-> toggled, args |-> "(bool)"]} OBVIOUS
<1>9. \A s \in S \cup T : s.name \in {clicked, toggled} BY <1>7, <1>8
<1>10. PICK first : first = [name |-> ok, signals |-> S] OBVIOUS
<1>11. PICK second : second = [name |-> box, signals |-> T] OBVIOUS
<1>12. Children = <<first, second>>
  BY <1>1, <1>2, <1>3, <1>4, <1>7, <1>8, <1>10, <1>11 DEF Children
<1>13. /\ DOMAIN Children = {1, 2} /\ Children[1] = first /\ Children[2] = second
       /\ Range(Children) = {first, second} /\ Children \in Seq({first, second})
  <2>1. DOMAIN Children = {1, 2} /\ Children[1] = first /\ Children[2] = second BY <1>12
  <2>2. Children \in Seq({first, second}) BY <1>12
  <2>3. Range(Children) = {first, second} BY <2>1 DEF Range
  <2> QED BY <2>1, <2>2, <2>3
<1>14. /\ first.name = ok /\ first.signals = S
       /\ second.name = box /\ second.signals = T
  BY <1>10, <1>11
<1>15. \A s \in S \cup T : s.name \in Seq(Words) /\ Len(s.name) = 1 BY <1>5, <1>9
<1>16. \A c \in DOMAIN Children :
         /\ Children[c].name \in Seq(Words) /\ Children[c].name # << >>
         /\ \A s \in Children[c].signals : s.name \in Seq(Words) /\ Len(s.name) = 1
  BY <1>5, <1>13, <1>14, <1>15
<1>17. \A c, d \in DOMAIN Children : Children[c].name = Children[d].name => c = d
  BY <1>6, <1>13, <1>14
<1> QED BY <1>13, <1>16, <1>17 DEF NamesDiffer

\* A name connects the signals of the one of these children that it names.
LEMMA ChildConnected ==
    ASSUME NEW x \in Seq(Words), NEW args, NEW c \in DOMAIN Children, NEW s
    PROVE  <<c, s>> \in ConnectByName(Children, x, args) <=> Connects(Children[c], x, args, s)
<1>1. PICK W : W = Words OBVIOUS
<1>2. PICK C : C = Range(Children) OBVIOUS
<1>3. PICK children : children = Children OBVIOUS
<1>4. "on" \in W BY <1>1 DEF Words
<1>5. children \in Seq(C) /\ NamesDiffer(W, children) BY <1>1, <1>2, <1>3, ChildrenDiffer
<1>6. x \in Seq(W) /\ c \in DOMAIN children BY <1>1, <1>3
<1>7. <<c, s>> \in ConnectByName(children, x, args) <=> Connects(children[c], x, args, s)
  BY <1>4, <1>5, <1>6, ConnectedByName
<1> QED BY <1>3, <1>7

\* A method is connected to what has one of its names.
LEMMA ConnectedToNamed ==
    ASSUME NEW r, r.name \in Names, r.signatures \in Decorations,
           NEW c \in DOMAIN Children, NEW s, NEW name, name = NameOf("on", Children[c].name, s.name)
    PROVE  <<c, s>> \in AutoConnected(Children, r) <=>
             /\ s \in Children[c].signals
             /\ IF r.signatures = {} THEN r.name = name
                ELSE [name |-> name, args |-> s.args] \in r.signatures
<1> DEFINE N == {<<"on", "ok", "clicked">>, <<"on", "ok", "box", "clicked">>}
<1>1. "on" \in Words BY DEF Words
<1>2. Names \subseteq Seq(Words) /\ N \subseteq Seq(Words)
  <2>1. /\ "on" \in Words /\ "ok" \in Words /\ "box" \in Words /\ "clicked" \in Words
        /\ "toggled" \in Words /\ "none" \in Words
    BY DEF Words
  <2>2. /\ <<"on", "ok", "clicked">> \in Seq(Words)
        /\ <<"on", "ok", "box", "clicked">> \in Seq(Words)
        /\ <<"on", "ok", "box", "toggled">> \in Seq(Words)
        /\ <<"on", "clicked">> \in Seq(Words)
        /\ <<"ok", "ok", "clicked">> \in Seq(Words)
        /\ <<"on", "none", "clicked">> \in Seq(Words)
    BY <2>1, WordsAreName
  <2> QED BY <2>2, Zenon DEF Names
<1>3. \A x \in Seq(Words) : \A args :
        <<c, s>> \in ConnectByName(Children, x, args) <=>
          /\ s \in Children[c].signals /\ x = name
          /\ args # << >> => <<s.args>> = args
  <2>1. \A x \in Seq(Words) : \A args :
          <<c, s>> \in ConnectByName(Children, x, args) <=> Connects(Children[c], x, args, s)
    BY ChildConnected
  <2> QED BY <2>1, Zenon DEF Connects
<1>4. CASE r.signatures = {}
  <2>1. AutoConnected(Children, r) = ConnectByName(Children, r.name, << >>)
    BY <1>4 DEF AutoConnected
  <2>2. r.name \in Seq(Words) BY <1>2
  <2>3. PICK none : none = << >> OBVIOUS
  <2>4. <<c, s>> \in ConnectByName(Children, r.name, none) <=>
          s \in Children[c].signals /\ r.name = name
    BY <2>2, <2>3, <1>3
  <2> QED BY <2>1, <2>3, <2>4, <1>4
<1>5. CASE r.signatures # {}
  <2>1. AutoConnected(Children, r) =
          UNION {ConnectByName(Children, d.name, <<d.args>>) : d \in r.signatures}
    BY <1>5 DEF AutoConnected
  <2>2. \A d \in r.signatures : d.name \in Seq(Words) /\ d = [name |-> d.name, args |-> d.args]
    <3>1. PICK A : A = {"()", "(bool)"} OBVIOUS
    <3>2. r.signatures \subseteq [name : N, args : A] BY <3>1 DEF Decorations
    <3> HIDE DEF N
    <3>3. \A d \in [name : N, args : A] : d.name \in N /\ d = [name |-> d.name, args |-> d.args]
      OBVIOUS
    <3> QED BY <3>2, <3>3, <1>2
  <2>3. ASSUME NEW d \in r.signatures
        PROVE  <<c, s>> \in ConnectByName(Children, d.name, <<d.args>>) <=>
                 s \in Children[c].signals /\ d = [name |-> name, args |-> s.args]
    <3>1. PICK args : args = <<d.args>> OBVIOUS
    <3>2. args # << >> BY <3>1
    <3>3. <<s.args>> = args <=> s.args = d.args BY <3>1
    <3>4. <<c, s>> \in ConnectByName(Children, d.name, args) <=>
            s \in Children[c].signals /\ d.name = name /\ s.args = d.args
      BY <2>2, <3>2, <3>3, <1>3
    <3>5. d.name = name /\ s.args = d.args <=> d = [name |-> name, args |-> s.args]
      BY <2>2
    <3> QED BY <3>1, <3>4, <3>5
  <2>4. <<c, s>> \in AutoConnected(Children, r) <=>
          \E d \in r.signatures : <<c, s>> \in ConnectByName(Children, d.name, <<d.args>>)
    BY <2>1
  <2>5. <<c, s>> \in AutoConnected(Children, r) <=>
          s \in Children[c].signals /\ [name |-> name, args |-> s.args] \in r.signatures
    BY <2>3, <2>4
  <2> QED BY <2>5, <1>5
<1> QED BY <1>4, <1>5

\* How many of K there are up to a number.
CountTo(K, k) == Cardinality({j \in K : j <= k})

\* The count goes on by one at each of them.
LEMMA CountGoesOn ==
    ASSUME NEW n \in Nat, NEW K \in SUBSET (1..n)
    PROVE  /\ CountTo(K, 0) = 0 /\ CountTo(K, n) = Cardinality(K)
           /\ \A k \in 0..n : CountTo(K, k) \in Nat
           /\ \A k \in K : CountTo(K, k) = CountTo(K, k - 1) + 1
           /\ \A k \in (1..n) \ K : CountTo(K, k) = CountTo(K, k - 1)
           /\ \A i, k \in 0..n : i <= k => CountTo(K, i) <= CountTo(K, k)
<1> DEFINE U(k) == {j \in K : j <= k}
<1>0. \A j \in K : j \in Int /\ 1 <= j /\ j <= n OBVIOUS
<1>1. IsFiniteSet(K)
  <2>1. IsFiniteSet(1..n)
    <3>1. 1 \in Int /\ n \in Int OBVIOUS
    <3> QED BY <3>1, FS_Interval
  <2> QED BY <2>1, FS_Subset
<1>2. \A k \in 0..n : IsFiniteSet(U(k))
  <2> SUFFICES ASSUME NEW k \in 0..n PROVE IsFiniteSet(U(k))
    OBVIOUS
  <2>1. U(k) \in SUBSET K OBVIOUS
  <2> QED BY <2>1, <1>1, FS_Subset
<1>3. \A k \in 0..n : CountTo(K, k) = Cardinality(U(k)) BY DEF CountTo
<1>4. CountTo(K, 0) = 0
  <2>1. U(0) = {}
    <3> SUFFICES ASSUME NEW x \in U(0) PROVE FALSE
      OBVIOUS
    <3>1. x \in K /\ x <= 0 OBVIOUS
    <3> QED BY <3>1, <1>0
  <2>2. 0 \in 0..n OBVIOUS
  <2> QED BY <2>1, <2>2, <1>3, FS_EmptySet
<1>5. CountTo(K, n) = Cardinality(K)
  <2>1. U(n) = K BY <1>0
  <2>2. n \in 0..n OBVIOUS
  <2> QED BY <2>1, <2>2, <1>3
<1>6. \A k \in 0..n : CountTo(K, k) \in Nat
  <2> HIDE DEF U
  <2> QED BY <1>2, <1>3, FS_CardinalityType
<1>7. ASSUME NEW k \in 1..n
      PROVE  CountTo(K, k) = CountTo(K, k - 1) + (IF k \in K THEN 1 ELSE 0)
  <2>1. k \in 0..n /\ k - 1 \in 0..n OBVIOUS
  <2>2. CASE k \in K
    <3>1. U(k) = U(k - 1) \cup {k}
      <4>1. \A x \in K : x <= k <=> x <= k - 1 \/ x = k BY <1>0
      <4> QED BY <4>1, <2>2
    <3>2. k \notin U(k - 1) OBVIOUS
    <3>3. Cardinality(U(k - 1) \cup {k}) = Cardinality(U(k - 1)) + 1
      <4> HIDE DEF U
      <4> QED BY <3>2, <2>1, <1>2, FS_AddElement
    <3> HIDE DEF U
    <3> QED BY <3>1, <3>3, <2>1, <2>2, <1>3
  <2>3. CASE k \notin K
    <3>1. U(k) = U(k - 1)
      <4>1. \A x \in K : x <= k <=> x <= k - 1 BY <2>3, <1>0
      <4> QED BY <4>1
    <3> HIDE DEF U
    <3> QED BY <3>1, <2>1, <2>3, <1>3, <1>6
  <2> QED BY <2>2, <2>3
<1>8. ASSUME NEW i \in 0..n, NEW k \in 0..n, i <= k
      PROVE  CountTo(K, i) <= CountTo(K, k)
  <2>1. U(i) \in SUBSET U(k)
    <3>1. \A x \in K : x <= i => x <= k BY <1>8, <1>0
    <3> QED BY <3>1
  <2> HIDE DEF U
  <2> QED BY <2>1, <1>2, <1>3, FS_Subset
<1>9. \A k \in K : CountTo(K, k) = CountTo(K, k - 1) + 1
  <2>1. \A k \in K : k \in 1..n OBVIOUS
  <2> QED BY <2>1, <1>7
<1>10. ASSUME NEW k \in (1..n) \ K PROVE CountTo(K, k) = CountTo(K, k - 1)
  <2>1. CountTo(K, k - 1) \in Nat
    <3>1. k - 1 \in 0..n OBVIOUS
    <3> QED BY <3>1, <1>6
  <2>2. CountTo(K, k) = CountTo(K, k - 1) + 0 BY <1>7
  <2> QED BY <2>1, <2>2
<1> QED BY <1>4, <1>5, <1>6, <1>8, <1>9, <1>10

\* Each of them has a number of its own, and each number is that of one of them.
LEMMA CountNumbers ==
    ASSUME NEW n \in Nat, NEW K \in SUBSET (1..n)
    PROVE  /\ \A i, j \in K : CountTo(K, i) = CountTo(K, j) => i = j
           /\ \A i \in K : CountTo(K, i) \in 1..Cardinality(K)
           /\ \A m \in 1..Cardinality(K) : \E i \in K : CountTo(K, i) = m
<1>1. PICK c : c = [k \in 0..n |-> CountTo(K, k)] OBVIOUS
<1>2. /\ c[0] = 0 /\ c[n] = Cardinality(K)
      /\ \A k \in 0..n : c[k] \in Nat
      /\ \A k \in K : c[k] = c[k - 1] + 1
      /\ \A k \in (1..n) \ K : c[k] = c[k - 1]
      /\ \A i, k \in 0..n : i <= k => c[i] <= c[k]
  <2>1. 0 \in 0..n /\ n \in 0..n /\ \A k \in 1..n : k \in 0..n /\ k - 1 \in 0..n OBVIOUS
  <2>2. \A k \in K : k \in 1..n OBVIOUS
  <2> QED BY <2>1, <2>2, <1>1, CountGoesOn
<1>3. \A i \in K : c[i] = CountTo(K, i) BY <1>1
<1>4. ASSUME NEW i \in K, NEW j \in K, i < j PROVE c[i] < c[j]
  <2>1. i \in 0..n /\ j \in 1..n /\ j - 1 \in 0..n /\ i <= j - 1 BY <1>4
  <2>2. c[i] <= c[j - 1] BY <2>1, <1>2
  <2>3. c[j] = c[j - 1] + 1 BY <2>1, <1>2
  <2>4. c[i] \in Nat /\ c[j - 1] \in Nat BY <2>1, <1>2
  <2> QED BY <2>2, <2>3, <2>4
<1>5. ASSUME NEW i \in K, NEW j \in K, c[i] = c[j] PROVE i = j
  <2>1. c[i] \in Nat /\ c[j] \in Nat /\ i \in Nat /\ j \in Nat BY <1>2
  <2>2. ~ (i < j) BY <2>1, <1>4, <1>5
  <2>3. ~ (j < i) BY <2>1, <1>4, <1>5
  <2> QED BY <2>1, <2>2, <2>3
<1>6. ASSUME NEW i \in K PROVE c[i] \in 1..Cardinality(K)
  <2>1. i \in 1..n /\ i \in 0..n /\ i - 1 \in 0..n /\ n \in 0..n /\ i <= n OBVIOUS
  <2>2. c[i] = c[i - 1] + 1 BY <2>1, <1>2
  <2>3. c[i] <= c[n] BY <2>1, <1>2
  <2>4. c[i - 1] \in Nat /\ c[n] \in Nat BY <2>1, <1>2
  <2> QED BY <2>2, <2>3, <2>4, <1>2
<1>7. \A m \in 1..Cardinality(K) : \E i \in K : c[i] = m
  <2> DEFINE S == {k \in 0..n : \A m \in 1..c[k] : \E i \in K : c[i] = m}
  <2>1. 0 \in S
    <3>1. 0 \in 0..n /\ 1..0 = {} OBVIOUS
    <3> QED BY <3>1, <1>2
  <2>2. ASSUME NEW k \in 0..(n - 1), k \in S PROVE k + 1 \in S
    <3>1. k + 1 \in 0..n /\ k + 1 \in 1..n /\ (k + 1) - 1 = k /\ k \in 0..n OBVIOUS
    <3>2. c[k] \in Nat /\ (c[k + 1] = IF k + 1 \in K THEN c[k] + 1 ELSE c[k]) BY <3>1, <1>2
    <3>3. ASSUME NEW m \in 1..c[k + 1] PROVE \E i \in K : c[i] = m
      <4>1. CASE m \in 1..c[k] BY <4>1, <2>2
      <4>2. CASE m \notin 1..c[k]
        <5>1. k + 1 \in K /\ m = c[k + 1] BY <4>2, <3>2
        <5> QED BY <5>1
      <4> QED BY <4>1, <4>2
    <3> QED BY <3>1, <3>3
  <2>3. 0..n \subseteq S
    <3> HIDE DEF S
    <3> QED BY <2>1, <2>2, CountedUp
  <2>4. n \in 0..n OBVIOUS
  <2> QED BY <2>3, <2>4, <1>2
<1> QED BY <1>3, <1>5, <1>6, <1>7

\* What follows what is removed moves up.
LEMMA Removed ==
    ASSUME NEW V, NEW s \in Seq(V), NEW i \in 1..Len(s), NEW q, q = RemoveAt(s, i)
    PROVE  /\ q \in Seq(V) /\ Len(q) = Len(s) - 1
           /\ \A j \in 1..(Len(s) - 1) : q[j] = IF j < i THEN s[j] ELSE s[j + 1]
<1>1. PICK l : l = Len(s) OBVIOUS
<1>2. l \in Nat /\ i \in 1..l /\ \A j \in 1..l : s[j] \in V BY <1>1, LenProperties, ElementOfSeq
<1>3. PICK b : b = SubSeq(s, 1, i - 1) OBVIOUS
<1>4. PICK c : c = SubSeq(s, i + 1, l) OBVIOUS
<1>5. q = b \o c BY <1>1, <1>3, <1>4 DEF RemoveAt
<1>6. b \in Seq(V) /\ Len(b) = i - 1 /\ \A j \in 1..(i - 1) : b[j] = s[j]
  <2>1. 1 \in Int /\ i - 1 \in Int /\ \A j \in 1..(i - 1) : s[j] \in V BY <1>2
  <2>2. /\ b \in Seq(V) /\ Len(b) = IF 1 <= i - 1 THEN i - 1 - 1 + 1 ELSE 0
        /\ \A j \in 1..(i - 1 - 1 + 1) : b[j] = s[1 + j - 1]
    BY <2>1, <1>3, SubSeqProperties
  <2>3. Len(b) = i - 1 BY <1>2, <2>2
  <2>4. i - 1 - 1 + 1 = i - 1 /\ \A j \in 1..(i - 1) : 1 + j - 1 = j BY <1>2
  <2> QED BY <2>2, <2>3, <2>4
<1>7. c \in Seq(V) /\ Len(c) = l - i /\ \A j \in 1..(l - i) : c[j] = s[i + j]
  <2>1. i + 1 \in Int /\ l \in Int /\ \A j \in (i + 1)..l : s[j] \in V BY <1>2
  <2>2. /\ c \in Seq(V) /\ Len(c) = IF i + 1 <= l THEN l - (i + 1) + 1 ELSE 0
        /\ \A j \in 1..(l - (i + 1) + 1) : c[j] = s[i + 1 + j - 1]
    BY <2>1, <1>4, SubSeqProperties
  <2>3. Len(c) = l - i
    <3>1. CASE i + 1 <= l
      <4>1. Len(c) = l - (i + 1) + 1 BY <2>2, <3>1
      <4> QED BY <4>1, <1>2
    <3>2. CASE ~ (i + 1 <= l)
      <4>1. Len(c) = 0 BY <2>2, <3>2
      <4>2. l - i = 0 BY <1>2, <3>2
      <4> QED BY <4>1, <4>2
    <3> QED BY <3>1, <3>2
  <2>4. l - (i + 1) + 1 = l - i /\ \A j \in 1..(l - i) : i + 1 + j - 1 = i + j BY <1>2
  <2> QED BY <2>2, <2>3, <2>4
<1>8. /\ q \in Seq(V) /\ Len(q) = Len(b) + Len(c)
      /\ \A j \in 1..(Len(b) + Len(c)) : q[j] = IF j <= Len(b) THEN b[j] ELSE c[j - Len(b)]
  <2>1. /\ b \o c \in Seq(V) /\ Len(b \o c) = Len(b) + Len(c)
        /\ \A j \in 1..(Len(b) + Len(c)) :
             (b \o c)[j] = IF j <= Len(b) THEN b[j] ELSE c[j - Len(b)]
    BY <1>6, <1>7, ConcatProperties
  <2> QED BY <2>1, <1>5, Zenon
<1>9. Len(b) = i - 1 /\ Len(b) + Len(c) = l - 1 BY <1>2, <1>6, <1>7
<1>10. ASSUME NEW j \in 1..(l - 1) PROVE q[j] = IF j < i THEN s[j] ELSE s[j + 1]
  <2>1. q[j] = IF j <= i - 1 THEN b[j] ELSE c[j - (i - 1)] BY <1>8, <1>9
  <2>2. CASE j < i
    <3>1. j <= i - 1 /\ j \in 1..(i - 1) BY <2>2, <1>2
    <3> QED BY <3>1, <2>1, <2>2, <1>6
  <2>3. CASE ~ (j < i)
    <3>1. ~ (j <= i - 1) /\ j - (i - 1) \in 1..(l - i) /\ i + (j - (i - 1)) = j + 1
      BY <2>3, <1>2
    <3> QED BY <3>1, <2>1, <2>3, <1>7
  <2> QED BY <2>2, <2>3
<1> QED BY <1>1, <1>8, <1>9, <1>10

\* What Qt keeps is found by its number.
LEMMA NthIsKept ==
    ASSUME NEW n \in Nat, NEW r, NEW K, K = KeptArgs(r), K \in SUBSET (1..n)
    PROVE  /\ \A i \in K : NthKept(r, CountTo(K, i)) = i
           /\ \A m \in 1..Cardinality(K) : NthKept(r, m) \in K /\ CountTo(K, NthKept(r, m)) = m
<1>1. /\ \A i, j \in K : CountTo(K, i) = CountTo(K, j) => i = j
      /\ \A i \in K : CountTo(K, i) \in 1..Cardinality(K)
      /\ \A m \in 1..Cardinality(K) : \E i \in K : CountTo(K, i) = m
  <2>1. PICK S : S = K OBVIOUS
  <2>2. S \in SUBSET (1..n) BY <2>1
  <2>3. /\ \A i, j \in S : CountTo(S, i) = CountTo(S, j) => i = j
        /\ \A i \in S : CountTo(S, i) \in 1..Cardinality(S)
        /\ \A m \in 1..Cardinality(S) : \E i \in S : CountTo(S, i) = m
    BY <2>2, CountNumbers
  <2> QED BY <2>1, <2>3, Zenon
<1>2. \A m : NthKept(r, m) = CHOOSE i \in K : CountTo(K, i) = m
  BY Zenon DEF NthKept, CountTo
<1>3. ASSUME NEW m \in 1..Cardinality(K)
      PROVE  NthKept(r, m) \in K /\ CountTo(K, NthKept(r, m)) = m
  <2>1. \E i \in K : CountTo(K, i) = m BY <1>1
  <2>2. PICK q : q = NthKept(r, m) OBVIOUS
  <2>3. q = CHOOSE i \in K : CountTo(K, i) = m BY <2>2, <1>2
  <2>4. q \in K /\ CountTo(K, q) = m BY <2>1, <2>3, Zenon
  <2> QED BY <2>2, <2>4
<1>4. ASSUME NEW i \in K PROVE NthKept(r, CountTo(K, i)) = i
  <2>1. PICK m : m = CountTo(K, i) OBVIOUS
  <2>2. m \in 1..Cardinality(K) BY <2>1, <1>1
  <2>3. NthKept(r, m) \in K /\ CountTo(K, NthKept(r, m)) = m BY <2>2, <1>3
  <2> QED BY <2>1, <2>3, <1>1
<1> QED BY <1>3, <1>4

\* Each pointer that Qt has kept is the next of argv, and no other is.
LEMMA NextIsKept ==
    ASSUME NEW V, NEW n \in Nat, NEW list \in [1..n -> V], Len(list) = n,
           NEW r, r.list = list, NEW K, K = KeptArgs(r),
           NEW argv, argv = ArgvAfterQt(r), NEW copy, copy = FromArgv(list), NEW k \in 1..n
    PROVE  NextArgv(argv, CountTo(K, k - 1) + 1, copy[k]) <=> k \in K
<1>1. K \in SUBSET (1..n) /\ \A i \in 1..n : list[i] = "other" => i \in K BY DEF KeptArgs
<1>2. \A i \in 1..n : copy[i] = IF list[i] = "other" THEN 0 ELSE i BY DEF FromArgv
<1>3. PICK c : c = Cardinality(K) OBVIOUS
<1>4. c \in Nat
  <2>1. CountTo(K, n) = c /\ \A i \in 0..n : CountTo(K, i) \in Nat BY <1>1, <1>3, CountGoesOn
  <2>2. n \in 0..n OBVIOUS
  <2> QED BY <2>1, <2>2
<1>5. argv = [m \in 1..c |-> copy[NthKept(r, m)]] BY <1>3 DEF ArgvAfterQt
<1>6. Len(argv) = c /\ \A m \in 1..c : argv[m] = copy[NthKept(r, m)]
  <2>1. DOMAIN argv = 1..c /\ \A m \in 1..c : argv[m] = copy[NthKept(r, m)] BY <1>5
  <2>2. Len(argv) = c BY <1>4, <1>5
  <2> QED BY <2>1, <2>2
<1>7. PICK p : p = CountTo(K, k - 1) OBVIOUS
<1>8. p \in Nat /\ (k \in K => CountTo(K, k) = p + 1)
  <2>1. k - 1 \in 0..n OBVIOUS
  <2>2. /\ \A i \in 0..n : CountTo(K, i) \in Nat
        /\ \A i \in K : CountTo(K, i) = CountTo(K, i - 1) + 1
        /\ \A i \in (1..n) \ K : CountTo(K, i) = CountTo(K, i - 1)
    <3>1. PICK S : S = K OBVIOUS
    <3>2. S \in SUBSET (1..n) BY <1>1, <3>1
    <3>3. \A i \in 0..n : CountTo(S, i) \in Nat BY <3>2, CountGoesOn
    <3>4. \A i \in S : CountTo(S, i) = CountTo(S, i - 1) + 1 BY <3>2, CountGoesOn
    <3>5. \A i \in (1..n) \ S : CountTo(S, i) = CountTo(S, i - 1) BY <3>2, CountGoesOn
    <3> QED BY <3>1, <3>3, <3>4, <3>5, Zenon
  <2> QED BY <2>1, <2>2, <1>7
<1>9. CASE k \in K
  <2>1. CountTo(K, k) = p + 1 BY <1>8, <1>9
  <2>2. p + 1 \in 1..c
    <3>1. \A i \in K : CountTo(K, i) \in 1..Cardinality(K) BY <1>1, CountNumbers, Zenon
    <3> QED BY <3>1, <2>1, <1>3, <1>9
  <2>3. NthKept(r, p + 1) = k BY <2>1, <1>1, <1>9, NthIsKept
  <2>4. argv[p + 1] = copy[k] BY <2>2, <2>3, <1>6
  <2>5. p + 1 <= Len(argv) BY <2>2, <1>6
  <2> QED BY <2>4, <2>5, <1>7, <1>9 DEF NextArgv
<1>10. CASE k \notin K
  <2>1. copy[k] = k /\ k # 0 BY <1>1, <1>2, <1>10
  <2>2. ASSUME p + 1 <= c PROVE argv[p + 1] # copy[k]
    <3>1. p + 1 \in 1..c BY <2>2, <1>4, <1>8
    <3>2. PICK q : q = NthKept(r, p + 1) OBVIOUS
    <3>3. q \in K BY <3>1, <3>2, <1>1, <1>3, NthIsKept
    <3>4. argv[p + 1] = copy[q] BY <3>1, <3>2, <1>6
    <3>5. copy[q] \in {0, q} BY <3>3, <1>1, <1>2
    <3> QED BY <3>3, <3>4, <3>5, <2>1, <1>10
  <2> QED BY <2>2, <1>6, <1>7, <1>10 DEF NextArgv
<1> QED BY <1>9, <1>10

\* When k arguments have been looked at, those that Qt keeps come first and those
\* that follow have moved up.
KeptSoFar(s, list, K, n, k, V) ==
    /\ s.na = CountTo(K, k) + 1
    /\ s.list \in Seq(V) /\ Len(s.list) = CountTo(K, k) + n - k
    /\ \A i \in K : i <= k => s.list[CountTo(K, i)] = list[i]
    /\ \A i \in (k + 1)..n : s.list[CountTo(K, k) + i - k] = list[i]

\* The argument that is looked at stays if it is the next of argv.
LEMMA ArgumentKept ==
    ASSUME NEW V, NEW n \in Nat, NEW list, NEW K \in SUBSET (1..n), NEW k \in 1..n,
           NEW s, KeptSoFar(s, list, K, n, k - 1, V), NEW argv, NEW p,
           NextArgv(argv, CountTo(K, k - 1) + 1, p) <=> k \in K,
           NEW t, t = UpdateOne(argv, s, p), s = [list |-> s.list, na |-> s.na]
    PROVE  KeptSoFar(t, list, K, n, k, V) /\ t = [list |-> t.list, na |-> t.na]
<1>1. PICK c : c = CountTo(K, k - 1) OBVIOUS
<1>2. PICK d : d = CountTo(K, k) OBVIOUS
<1>3. /\ c \in Nat /\ d \in Nat
      /\ k \in K => d = c + 1
      /\ k \notin K => d = c
      /\ \A i \in K : i < k => CountTo(K, i) \in Nat /\ CountTo(K, i) <= c /\ CountTo(K, i) >= 1
  <2>1. k - 1 \in 0..n /\ k \in 0..n OBVIOUS
  <2>2. /\ \A i \in 0..n : CountTo(K, i) \in Nat
        /\ \A i \in K : CountTo(K, i) = CountTo(K, i - 1) + 1
        /\ \A i \in (1..n) \ K : CountTo(K, i) = CountTo(K, i - 1)
        /\ \A i, j \in 0..n : i <= j => CountTo(K, i) <= CountTo(K, j)
    BY CountGoesOn
  <2>3. ASSUME NEW i \in K, i < k
        PROVE  CountTo(K, i) \in Nat /\ CountTo(K, i) <= c /\ CountTo(K, i) >= 1
    <3>1. i \in 0..n /\ i - 1 \in 0..n /\ i <= k - 1 BY <2>3
    <3>2. CountTo(K, i) <= CountTo(K, k - 1) BY <3>1, <2>1, <2>2
    <3>3. CountTo(K, i) = CountTo(K, i - 1) + 1 BY <2>2
    <3>4. CountTo(K, i) \in Nat /\ CountTo(K, i - 1) \in Nat BY <3>1, <2>2
    <3> QED BY <3>2, <3>3, <3>4, <1>1
  <2>4. c \in Nat /\ d \in Nat BY <2>1, <2>2, <1>1, <1>2
  <2>5. (k \in K => d = c + 1) /\ (k \notin K => d = c) BY <2>2, <1>1, <1>2
  <2> QED BY <2>3, <2>4, <2>5
<1>4. PICK l : l = s.list OBVIOUS
<1>5. /\ s.na = c + 1 /\ l \in Seq(V) /\ Len(l) = c + n - (k - 1)
      /\ \A i \in K : i <= k - 1 => l[CountTo(K, i)] = list[i]
      /\ \A i \in (k - 1 + 1)..n : l[c + i - (k - 1)] = list[i]
  BY <1>1, <1>4 DEF KeptSoFar
<1>6. s = [list |-> l, na |-> c + 1] BY <1>4, <1>5
<1>7. NextArgv(argv, s.na, p) <=> k \in K BY <1>1, <1>5
<1>8. \A i \in k..n : l[c + i - (k - 1)] = list[i]
  <2>1. k - 1 + 1 = k OBVIOUS
  <2> QED BY <2>1, <1>5
<1>9. CASE k \in K
  <2>1. t = [list |-> l, na |-> c + 1 + 1] BY <1>6, <1>7, <1>9 DEF UpdateOne
  <2>2. t.list = l /\ t.na = d + 1 /\ t = [list |-> t.list, na |-> t.na]
    BY <2>1, <1>3, <1>9
  <2>3. Len(l) = d + n - k BY <1>3, <1>5, <1>9
  <2>4. ASSUME NEW i \in K, i <= k PROVE l[CountTo(K, i)] = list[i]
    <3>1. CASE i = k
      <4>1. k \in k..n /\ c + k - (k - 1) = d BY <1>3, <1>9
      <4>2. l[d] = list[k] BY <4>1, <1>8
      <4> QED BY <4>2, <3>1, <1>2
    <3>2. CASE i # k
      <4>1. i <= k - 1 BY <3>2, <2>4
      <4> QED BY <4>1, <1>5
    <3> QED BY <3>1, <3>2
  <2>5. ASSUME NEW i \in (k + 1)..n PROVE l[d + i - k] = list[i]
    <3>1. i \in k..n /\ d + i - k = c + i - (k - 1) BY <1>3, <1>9
    <3> QED BY <3>1, <1>8
  <2> QED BY <2>2, <2>3, <2>4, <2>5, <1>2, <1>5 DEF KeptSoFar
<1>10. CASE k \notin K
  <2>1. PICK q : q = RemoveAt(l, c + 1) OBVIOUS
  <2>2. t = [list |-> q, na |-> c + 1] BY <2>1, <1>6, <1>7, <1>10 DEF UpdateOne
  <2>3. t.list = q /\ t.na = d + 1 /\ t = [list |-> t.list, na |-> t.na]
    BY <2>2, <1>3, <1>10
  <2>4. /\ q \in Seq(V) /\ Len(q) = d + n - k
        /\ \A j \in 1..(d + n - k) : q[j] = IF j < c + 1 THEN l[j] ELSE l[j + 1]
    <3>1. c + 1 \in 1..Len(l) /\ Len(l) - 1 = d + n - k BY <1>3, <1>5, <1>10
    <3>2. PICK at : at = c + 1 OBVIOUS
    <3>3. /\ q \in Seq(V) /\ Len(q) = Len(l) - 1
          /\ \A j \in 1..(Len(l) - 1) : q[j] = IF j < at THEN l[j] ELSE l[j + 1]
      <4>1. l \in Seq(V) /\ at \in 1..Len(l) /\ q = RemoveAt(l, at) BY <3>1, <3>2, <2>1, <1>5
      <4> QED BY <4>1, Removed
    <3> QED BY <3>1, <3>2, <3>3
  <2>5. ASSUME NEW i \in K, i <= k PROVE q[CountTo(K, i)] = list[i]
    <3>1. i < k /\ i <= k - 1 BY <2>5, <1>10
    <3>2. PICK j : j = CountTo(K, i) OBVIOUS
    <3>3. j \in 1..(d + n - k) /\ j < c + 1 BY <3>1, <3>2, <1>3, <1>10
    <3>4. q[j] = l[j] BY <3>3, <2>4
    <3>5. l[j] = list[i] BY <3>1, <3>2, <1>5
    <3> QED BY <3>2, <3>4, <3>5
  <2>6. ASSUME NEW i \in (k + 1)..n PROVE q[d + i - k] = list[i]
    <3>1. PICK j : j = d + i - k OBVIOUS
    <3>2. j \in 1..(d + n - k) /\ ~ (j < c + 1) /\ j + 1 = c + i - (k - 1) /\ i \in k..n
      BY <3>1, <1>3, <1>10
    <3>3. q[j] = l[j + 1] BY <3>2, <2>4
    <3>4. l[j + 1] = list[i] BY <3>2, <1>8
    <3> QED BY <3>1, <3>3, <3>4
  <2> QED BY <2>3, <2>4, <2>5, <2>6, <1>2 DEF KeptSoFar
<1> QED BY <1>9, <1>10

\* What Qt keeps of a list, in its order.
KeptOf(list, r) == [m \in 1..Cardinality(KeptArgs(r)) |-> list[NthKept(r, m)]]

\* In the end there is what Qt keeps, in its order.
LEMMA ArgvIsKept ==
    ASSUME NEW V, NEW n \in Nat, NEW list \in [1..n -> V], NEW r, r.list = list,
           NEW is, is = UpdateArgv(list, FromArgv(list), ArgvAfterQt(r))
    PROVE  is = KeptOf(list, r)
<1>1. PICK K : K = KeptArgs(r) OBVIOUS
<1>2. K \in SUBSET (1..n) BY <1>1 DEF KeptArgs
<1>3. list \in Seq(V) /\ Len(list) = n
  <2>1. list \in Seq(V) OBVIOUS
  <2>2. Len(list) = n OBVIOUS
  <2> QED BY <2>1, <2>2
<1>4. PICK copy : copy = FromArgv(list) OBVIOUS
<1>5. copy \in Seq(Nat) /\ Len(copy) = n
  <2>1. copy = [i \in 1..n |-> IF list[i] = "other" THEN 0 ELSE i] BY <1>3, <1>4 DEF FromArgv
  <2>2. copy \in [1..n -> Nat] BY <2>1
  <2>3. copy \in Seq(Nat) BY <2>2
  <2>4. Len(copy) = n BY <2>2
  <2> QED BY <2>3, <2>4
<1>6. PICK argv : argv = ArgvAfterQt(r) OBVIOUS
<1>7. PICK g : UpdatedBy(g, list, copy, argv) BY <1>5, ArgvUpdated
<1>8. /\ is = g[n].list
      /\ g[0] = [list |-> list, na |-> 1]
      /\ \A k \in 1..n : g[k] = UpdateOne(argv, g[k - 1], copy[k])
  BY <1>4, <1>5, <1>6, <1>7 DEF UpdatedBy
<1>9. \A k \in 1..n : NextArgv(argv, CountTo(K, k - 1) + 1, copy[k]) <=> k \in K
  BY <1>1, <1>3, <1>4, <1>6, NextIsKept
<1> DEFINE S == {k \in 0..n : KeptSoFar(g[k], list, K, n, k, V)
                              /\ g[k] = [list |-> g[k].list, na |-> g[k].na]}
<1>10. 0 \in S
  <2>1. g[0].list = list /\ g[0].na = 1 /\ g[0] = [list |-> g[0].list, na |-> g[0].na] BY <1>8
  <2>2. CountTo(K, 0) = 0 BY <1>2, CountGoesOn
  <2>3. \A i \in K : ~ (i <= 0) BY <1>2
  <2>4. \A i \in (0 + 1)..n : 0 + i - 0 = i OBVIOUS
  <2>5. 0 + n - 0 = n /\ 0 + 1 = 1 /\ 0 \in 0..n OBVIOUS
  <2>6. KeptSoFar(g[0], list, K, n, 0, V)
    BY <2>1, <2>2, <2>3, <2>4, <2>5, <1>3 DEF KeptSoFar
  <2> QED BY <2>1, <2>5, <2>6
<1>11. ASSUME NEW k \in 0..(n - 1), k \in S PROVE k + 1 \in S
  <2>1. PICK j : j = k + 1 OBVIOUS
  <2>2. j \in 1..n /\ j \in 0..n /\ j - 1 = k BY <2>1
  <2>3. PICK s : s = g[k] OBVIOUS
  <2>4. KeptSoFar(s, list, K, n, j - 1, V) /\ s = [list |-> s.list, na |-> s.na]
    BY <2>2, <2>3, <1>11
  <2>5. PICK t : t = g[j] OBVIOUS
  <2>6. t = UpdateOne(argv, s, copy[j]) BY <2>2, <2>3, <2>5, <1>8
  <2>7. PICK p : p = copy[j] OBVIOUS
  <2>8. NextArgv(argv, CountTo(K, j - 1) + 1, p) <=> j \in K BY <2>2, <2>7, <1>9
  <2>9. KeptSoFar(t, list, K, n, j, V) /\ t = [list |-> t.list, na |-> t.na]
    BY <2>2, <2>4, <2>6, <2>7, <2>8, <1>2, ArgumentKept
  <2> QED BY <2>1, <2>2, <2>5, <2>9
<1>12. KeptSoFar(g[n], list, K, n, n, V)
  <2>1. 0..n \subseteq S
    <3> HIDE DEF S
    <3> QED BY <1>10, <1>11, CountedUp
  <2>2. n \in 0..n OBVIOUS
  <2> QED BY <2>1, <2>2
<1>13. PICK c : c = Cardinality(K) OBVIOUS
<1>14. CountTo(K, n) = c /\ c \in Nat
  <2>1. CountTo(K, n) = c /\ \A k \in 0..n : CountTo(K, k) \in Nat BY <1>2, <1>13, CountGoesOn
  <2>2. n \in 0..n OBVIOUS
  <2> QED BY <2>1, <2>2
<1>15. is \in Seq(V) /\ Len(is) = c /\ \A i \in K : is[CountTo(K, i)] = list[i]
  <2>1. /\ is \in Seq(V) /\ Len(is) = CountTo(K, n) + n - n
        /\ \A i \in K : i <= n => is[CountTo(K, i)] = list[i]
    BY <1>8, <1>12 DEF KeptSoFar
  <2>2. \A i \in K : i <= n BY <1>2
  <2>3. c + n - n = c BY <1>14
  <2> QED BY <2>1, <2>2, <2>3, <1>14
<1>16. ASSUME NEW m \in 1..c PROVE is[m] = list[NthKept(r, m)]
  <2>1. PICK q : q = NthKept(r, m) OBVIOUS
  <2>2. q \in K /\ CountTo(K, q) = m
    <3>1. \A i \in 1..Cardinality(K) : NthKept(r, i) \in K /\ CountTo(K, NthKept(r, i)) = i
      BY <1>1, <1>2, NthIsKept
    <3> QED BY <2>1, <3>1, <1>13
  <2> QED BY <2>1, <2>2, <1>15
<1>17. is = [m \in 1..c |-> is[m]]
  <2>1. is \in [1..c -> V]
    <3>1. is \in Seq(V) /\ Len(is) = c BY <1>15
    <3> QED BY ONLY <3>1, LenProperties
  <2> QED BY <2>1
<1>18. is = [m \in 1..c |-> list[NthKept(r, m)]] BY <1>16, <1>17
<1> QED BY <1>1, <1>13, <1>18 DEF KeptOf

\* What is requested has the sequences that it is about.
LEMMA RequestIsMade ==
    ASSUME Requested
    PROVE  /\ request.what \in {"configure", "create"} => request.keywords \in Seq(Keywords)
           /\ request.what = "getattr" => \E M : request.methods \in Seq(M)
           /\ request.what = "call" => \E P : request.given \in Seq(P)
           /\ request.what = "autoconnect" =>
                request.name \in Names /\ request.signatures \in Decorations
           /\ request.what = "argv" => \E n \in Nat : \E V : request.list \in [1..n -> V]
<1> DEFINE M == [name : {"a", "b", "private"}, kind : {"method", "signal", "constructor"}]
           P == SeqOf({"p"}, MaxParameters)
           G == SeqOf({"good", "bad"}, MaxParameters)
           V == {"a", "b", "other"}
           RS == {"none", "known", "unknown"}
<1>1. MaxKeywords \in Nat /\ MaxMethods \in Nat /\ MaxParameters \in Nat /\ MaxArgv \in Nat
  BY ObjectsAssumption
<1>2. \/ request \in [what : {"configure", "create"}, keywords : KeywordLists]
      \/ request \in [what : {"getattr"}, methods : Methods3, name : {"a", "private"}]
      \/ request \in [what : {"call"}, parameters : P, given : G, return : RS, fails : BOOLEAN]
      \/ request \in [what : {"autoconnect"}, name : Names, signatures : Decorations]
      \/ \E n \in 0..MaxArgv : request \in [what : {"argv"}, list : [1..n -> V], kept : SUBSET (1..n)]
  BY Zenon DEF Requested
<1>3. \A l \in KeywordLists : l \in Seq(Keywords)
  <2>1. \A l \in KeywordLists : l \in SeqOf(Keywords, MaxKeywords) BY DEF KeywordLists
  <2> QED BY <2>1, <1>1, SequenceOf
<1>4. \A m \in Methods3 : m \in Seq(M)
  <2> HIDE DEF M
  <2>1. Methods3 = SeqOf(M, MaxMethods) BY DEF Methods3, M
  <2> QED BY <2>1, <1>1, SequenceOf
<1>5. \A g \in G : g \in Seq({"good", "bad"})
  <2> SUFFICES ASSUME NEW g \in G PROVE g \in Seq({"good", "bad"})
    OBVIOUS
  <2>1. PICK S : S = {"good", "bad"} OBVIOUS
  <2>2. g \in SeqOf(S, MaxParameters) BY <2>1
  <2>3. g \in Seq(S) BY <2>2, <1>1, SequenceOf
  <2> QED BY <2>1, <2>3
<1>6. CASE request \in [what : {"configure", "create"}, keywords : KeywordLists]
  <2>1. request.what \in {"configure", "create"} /\ request.keywords \in KeywordLists BY <1>6
  <2> QED BY <2>1, <1>3
<1>7. CASE request \in [what : {"getattr"}, methods : Methods3, name : {"a", "private"}]
  <2>1. request.what = "getattr" /\ request.methods \in Methods3 BY <1>7
  <2> HIDE DEF M
  <2> QED BY <2>1, <1>4
<1>8. CASE request \in [what : {"call"}, parameters : P, given : G, return : RS, fails : BOOLEAN]
  <2> HIDE DEF P, G, RS
  <2>1. request.what = "call" /\ request.given \in G BY <1>8
  <2> QED BY <2>1, <1>5
<1>9. CASE request \in [what : {"autoconnect"}, name : Names, signatures : Decorations]
  <2>1. /\ request.what = "autoconnect" /\ request.name \in Names
        /\ request.signatures \in Decorations
    BY <1>9
  <2> QED BY <2>1
<1>10. CASE \E n \in 0..MaxArgv : request \in [what : {"argv"}, list : [1..n -> V], kept : SUBSET (1..n)]
  <2> HIDE DEF V
  <2>1. PICK n \in 0..MaxArgv : request \in [what : {"argv"}, list : [1..n -> V], kept : SUBSET (1..n)]
    BY <1>10
  <2>2. n \in Nat BY <1>1
  <2>3. request.what = "argv" /\ request.list \in [1..n -> V] BY <2>1
  <2> QED BY <2>2, <2>3
<1> HIDE DEF M, P, G, V, RS
<1> QED BY <1>2, <1>6, <1>7, <1>8, <1>9, <1>10

\* The outcome of a request is what its operation gives.
LEMMA OutcomeOf ==
    ASSUME ObjNext
    PROVE  /\ request' = request /\ outcome'.done
           /\ request.what = "configure" => outcome'.is = Configure(request.keywords)
           /\ request.what = "create" => outcome'.is = Finalisation(request.keywords)
           /\ request.what = "getattr" => outcome'.is = GetAttr(request.methods, request.name)
           /\ request.what = "call" =>
                outcome'.is = ProxyCall(request.parameters, request.given, request.return,
                                        request.fails)
           /\ request.what = "autoconnect" => outcome'.is = AutoConnected(Children, request)
           /\ request.what = "argv" =>
                outcome'.is = UpdateArgv(request.list, FromArgv(request.list), ArgvAfterQt(request))
<1>1. PICK what : what = request.what OBVIOUS
<1>2. PICK o : o = outcome' OBVIOUS
<1>3. /\ request' = request
      /\ o = [done |-> TRUE, is |->
           CASE what = "configure" -> Configure(request.keywords)
             [] what = "create" -> Finalisation(request.keywords)
             [] what = "getattr" -> GetAttr(request.methods, request.name)
             [] what = "call" ->
                  ProxyCall(request.parameters, request.given, request.return, request.fails)
             [] what = "autoconnect" -> AutoConnected(Children, request)
             [] what = "argv" ->
                  UpdateArgv(request.list, FromArgv(request.list), ArgvAfterQt(request))]
  BY <1>1, <1>2 DEF ObjNext
<1>4. o.done /\ o.is =
           CASE what = "configure" -> Configure(request.keywords)
             [] what = "create" -> Finalisation(request.keywords)
             [] what = "getattr" -> GetAttr(request.methods, request.name)
             [] what = "call" ->
                  ProxyCall(request.parameters, request.given, request.return, request.fails)
             [] what = "autoconnect" -> AutoConnected(Children, request)
             [] what = "argv" ->
                  UpdateArgv(request.list, FromArgv(request.list), ArgvAfterQt(request))
  BY <1>3
<1>5. what = "configure" => o.is = Configure(request.keywords) BY <1>4
<1>6. what = "create" => o.is = Finalisation(request.keywords) BY <1>4
<1>7. what = "getattr" => o.is = GetAttr(request.methods, request.name) BY <1>4
<1>8. what = "call" =>
        o.is = ProxyCall(request.parameters, request.given, request.return, request.fails)
  BY <1>4
<1>9. what = "autoconnect" => o.is = AutoConnected(Children, request) BY <1>4
<1>10. what = "argv" =>
         o.is = UpdateArgv(request.list, FromArgv(request.list), ArgvAfterQt(request))
  BY <1>4
<1> QED BY <1>1, <1>2, <1>3, <1>4, <1>5, <1>6, <1>7, <1>8, <1>9, <1>10, Zenon

\* A constructor is given keywords.
LEMMA KeywordsStep == ASSUME Requested, ObjNext PROVE EachKeywordOnce' /\ ConfiguredInOrder'
<1>1. EachKeywordOnce'
  <2> SUFFICES ASSUME request.what = "create" PROVE EachKeywordOnce'
    BY OutcomeOf DEF EachKeywordOnce
  <2>1. PICK keywords : keywords = request.keywords OBVIOUS
  <2>2. PICK K : K = Keywords OBVIOUS
  <2>3. keywords \in Seq(K) BY <2>1, <2>2, RequestIsMade
  <2>4. PICK is : is = outcome'.is OBVIOUS
  <2>5. is = Finalisation(keywords) /\ request' = request BY <2>1, <2>4, OutcomeOf
  <2>6. FinalisedUpTo(K, keywords, Len(keywords), Finalisation(keywords)) BY <2>3, AllFinalised
  <2>7. /\ Range(is.applied) \cap is.unused = {}
        /\ Range(is.applied) \cup is.unused = Range(keywords)
        /\ is.error = "" => \A i \in 1..Len(keywords) :
                              keywords[i] \in is.unused => HandleArgument(keywords[i]) = "AsUnknown"
    BY <2>5, <2>6 DEF FinalisedUpTo
  <2>8. ASSUME is.error = "", NEW k \in is.unused PROVE k.kind = "other"
    <3>1. k \in Range(keywords) BY <2>7
    <3>2. PICK i \in DOMAIN keywords : k = keywords[i] BY <3>1 DEF Range
    <3>3. i \in 1..Len(keywords) BY <2>3, LenProperties
    <3>4. HandleArgument(k) = "AsUnknown" BY <2>7, <2>8, <3>2, <3>3
    <3>5. k \in Keywords BY <2>2, <2>3, <3>2, <3>3, ElementOfSeq
    <3>6. k.kind \in {"property", "signal", "other"} /\ k.good \in BOOLEAN
      BY <3>5 DEF Keywords
    <3> QED BY <3>4, <3>6 DEF HandleArgument
  <2>9. request'.keywords = keywords BY <2>1, <2>5
  <2> QED BY <2>4, <2>7, <2>8, <2>9 DEF EachKeywordOnce
<1>2. ConfiguredInOrder'
  <2> SUFFICES ASSUME request.what = "configure" PROVE ConfiguredInOrder'
    BY OutcomeOf DEF ConfiguredInOrder
  <2>1. PICK keywords : keywords = request.keywords OBVIOUS
  <2>2. PICK K : K = Keywords OBVIOUS
  <2>3. keywords \in Seq(K) BY <2>1, <2>2, RequestIsMade
  <2>4. PICK is : is = outcome'.is OBVIOUS
  <2>5. is = Configure(keywords) /\ request' = request BY <2>1, <2>4, OutcomeOf
  <2>6. ConfiguredUpTo(K, keywords, Len(keywords), Configure(keywords)) BY <2>3, AllConfigured
  <2>7. PICK m \in 0..Len(keywords) :
          /\ is.applied = SubSeq(keywords, 1, m) /\ Len(is.applied) = m
          /\ is.error = "" => m = Len(keywords)
          /\ is.error # "" => m < Len(keywords) /\ HandleArgument(keywords[m + 1]) # "AsHandled"
    BY <2>5, <2>6 DEF ConfiguredUpTo
  <2>8. request'.keywords = keywords BY <2>1, <2>5
  <2>9. /\ is.applied = SubSeq(keywords, 1, Len(is.applied))
        /\ is.error = "" => Len(is.applied) = Len(keywords)
        /\ is.error # "" => /\ Len(is.applied) < Len(keywords)
                            /\ HandleArgument(keywords[Len(is.applied) + 1]) # "AsHandled"
    BY <2>7
  <2> QED BY <2>4, <2>8, <2>9 DEF ConfiguredInOrder
<1> QED BY <1>1, <1>2

\* A method is looked up, or called.
LEMMA MethodsStep == ASSUME Requested, ObjNext PROVE LatestMethod' /\ CallReleases'
<1>1. LatestMethod'
  <2> SUFFICES ASSUME request.what = "getattr" PROVE LatestMethod'
    BY OutcomeOf DEF LatestMethod
  <2>1. PICK methods : methods = request.methods OBVIOUS
  <2>2. PICK name : name = request.name OBVIOUS
  <2>3. PICK is : is = outcome'.is OBVIOUS
  <2>4. is = GetAttr(methods, name) /\ request' = request BY <2>1, <2>2, <2>3, OutcomeOf
  <2>5. PICK of : of = MethodsOf(methods, name) OBVIOUS
  <2>6. PICK M : methods \in Seq(M) BY <2>1, RequestIsMade
  <2>7. IF is.is = "AttributeError"
          THEN of = {} \/ (name = "private" /\ methods[Max(of)].kind # "signal")
        ELSE is.index = Max(of) /\ (is.is = "signal" <=> methods[Max(of)].kind = "signal")
    BY <2>4, <2>5, <2>6, LatestFound
  <2>8. request'.methods = methods /\ request'.name = name BY <2>1, <2>2, <2>4
  <2>9. of = {i \in DOMAIN methods : methods[i].name = name /\ methods[i].kind # "constructor"}
    BY <2>5 DEF MethodsOf
  <2> QED BY <2>3, <2>7, <2>8, <2>9, Zenon DEF LatestMethod
<1>2. CallReleases'
  <2> SUFFICES ASSUME request.what = "call" PROVE CallReleases'
    BY OutcomeOf DEF CallReleases
  <2>1. PICK P : request.given \in Seq(P) BY RequestIsMade
  <2>2. PICK is : is = outcome'.is OBVIOUS
  <2>3. /\ is = ProxyCall(request.parameters, request.given, request.return, request.fails)
        /\ request' = request
    BY <2>2, OutcomeOf
  <2>4. PICK given, parameters, return, fails :
          given = request.given /\ parameters = request.parameters
          /\ return = request.return /\ fails = request.fails
    OBVIOUS
  <2>5. is = ProxyCall(parameters, given, return, fails) /\ given \in Seq(P) BY <2>1, <2>3, <2>4
  <2>6. /\ is.released = is.allocated
        /\ is.called => is.allocated = Len(parameters) + IF return = "known" THEN 1 ELSE 0
    BY <2>5, CallIsReleased
  <2> QED BY <2>2, <2>3, <2>4, <2>6, Zenon DEF CallReleases
<1> QED BY <1>1, <1>2

\* Methods are connected by name, or the arguments of the application updated.
LEMMA ApplicationStep == ASSUME Requested, ObjNext PROVE AutoConnects' /\ ArgvKept'
<1>1. AutoConnects'
  <2> SUFFICES ASSUME request.what = "autoconnect" PROVE AutoConnects'
    BY OutcomeOf DEF AutoConnects
  <2>1. PICK r : r = request OBVIOUS
  <2>2. PICK is : is = outcome'.is OBVIOUS
  <2>3. is = AutoConnected(Children, r) /\ request' = r BY <2>1, <2>2, OutcomeOf
  <2>4. r.name \in Names /\ r.signatures \in Decorations BY <2>1, RequestIsMade
  <2>5. \A c \in DOMAIN Children : \A s :
          LET name == NameOf("on", Children[c].name, s.name)
          IN  <<c, s>> \in is <=>
                /\ s \in Children[c].signals
                /\ IF r.signatures = {} THEN r.name = name
                   ELSE [name |-> name, args |-> s.args] \in r.signatures
    <3> SUFFICES ASSUME NEW c \in DOMAIN Children, NEW s
                 PROVE  LET name == NameOf("on", Children[c].name, s.name)
                        IN  <<c, s>> \in is <=>
                              /\ s \in Children[c].signals
                              /\ IF r.signatures = {} THEN r.name = name
                                 ELSE [name |-> name, args |-> s.args] \in r.signatures
      OBVIOUS
    <3>1. PICK name : name = NameOf("on", Children[c].name, s.name) OBVIOUS
    <3>2. <<c, s>> \in AutoConnected(Children, r) <=>
            /\ s \in Children[c].signals
            /\ IF r.signatures = {} THEN r.name = name
               ELSE [name |-> name, args |-> s.args] \in r.signatures
      BY <2>4, <3>1, ConnectedToNamed
    <3> QED BY <2>3, <3>1, <3>2, Zenon
  <2> QED BY <2>2, <2>3, <2>5, Zenon DEF AutoConnects, NameOf
<1>2. ArgvKept'
  <2> SUFFICES ASSUME request.what = "argv" PROVE ArgvKept'
    BY OutcomeOf DEF ArgvKept
  <2>1. PICK r : r = request OBVIOUS
  <2>2. PICK list : list = r.list OBVIOUS
  <2>3. PICK is : is = outcome'.is OBVIOUS
  <2>4. is = UpdateArgv(list, FromArgv(list), ArgvAfterQt(r)) /\ request' = r
    BY <2>1, <2>2, <2>3, OutcomeOf
  <2>5. PICK n \in Nat : \E V : list \in [1..n -> V] BY <2>1, <2>2, RequestIsMade
  <2>6. PICK V : list \in [1..n -> V] BY <2>5
  <2>7. is = KeptOf(list, r)
    BY <2>2, <2>4, <2>6, ArgvIsKept
  <2> QED BY <2>2, <2>3, <2>4, <2>7, Zenon DEF ArgvKept, KeptOf
<1> QED BY <1>1, <1>2

\* The outcome of whatever is requested.
LEMMA NamesStep ==
    ASSUME Requested, NamesResolved, [ObjNext]_objVars
    PROVE  (Requested /\ NamesResolved)'
<1>1. CASE UNCHANGED objVars
  <2>1. request' = request /\ outcome' = outcome BY <1>1 DEF objVars
  <2>2. Requested' BY <2>1 DEF Requested
  <2>3. EachKeywordOnce' /\ ConfiguredInOrder' /\ LatestMethod'
    BY <2>1, Zenon DEF NamesResolved, EachKeywordOnce, ConfiguredInOrder, LatestMethod
  <2>4. CallReleases' /\ AutoConnects' /\ ArgvKept'
    BY <2>1, Zenon DEF NamesResolved, CallReleases, AutoConnects, ArgvKept
  <2> QED BY <2>2, <2>3, <2>4 DEF NamesResolved
<1>2. CASE ObjNext
  <2>1. Requested' BY <1>2 DEF ObjNext, Requested
  <2> QED BY <2>1, <1>2, KeywordsStep, MethodsStep, ApplicationStep DEF NamesResolved
<1> QED BY <1>1, <1>2

\* What the application gives by name reaches what has the name, once: keywords
\* are applied in their order or passed on, the last method of a name is called
\* and releases what it allocates, a method is connected to the signals that it
\* names, and Qt's arguments alone leave sys.argv.
THEOREM NamesAreResolved == ObjSpec => []NamesResolved
<1>1. ObjInit => Requested /\ NamesResolved
  BY DEF ObjInit, NamesResolved, EachKeywordOnce, ConfiguredInOrder, LatestMethod,
     CallReleases, AutoConnects, ArgvKept
<1>2. (Requested /\ NamesResolved) /\ [ObjNext]_objVars => (Requested /\ NamesResolved)'
  BY NamesStep
<1> QED BY <1>1, <1>2, PTL DEF ObjSpec

-----------------------------------------------------------------------------
(* MetaObjects.                                                            *)

\* The body of a class after each statement.
LEMMA BodiesAre ==
    ASSUME NEW S, NEW what \in Seq(S), NEW of, NEW next
    PROVE  /\ Bodies(of, what, next)[0] = [dict |-> << >>, next |-> next, of |-> of]
           /\ \A n \in 1..Len(what) :
                Bodies(of, what, next)[n] = Defined(Bodies(of, what, next)[n - 1], what[n])
<1> DEFINE Op(s, n) == Defined(s, what[n])
           Step(h, k) == [n \in 0..k |->
                             IF n = 0 THEN [dict |-> << >>, next |-> next, of |-> of] ELSE Defined(h[n - 1], what[n])]
<1>1. PICK len : len = Len(what) OBVIOUS
<1>2. len \in Nat BY <1>1, LenProperties
<1>3. PICK e : e = [dict |-> << >>, next |-> next, of |-> of] OBVIOUS
<1>4. \E f : f = Step(f, len)
  <2> DEFINE Q == {k \in 0..len : \E f : f = Step(f, k)}
  <2>1. \A h, k : Step(h, k) = [n \in 0..k |-> IF n = 0 THEN e ELSE Op(h[n - 1], n)]
    BY <1>3
  <2> HIDE DEF Step, Op
  <2>2. 0 \in Q
    <3>1. PICK f : f = [n \in 0..0 |-> e] OBVIOUS
    <3>2. \A n \in 0..0 : n = 0 OBVIOUS
    <3>3. f = [n \in 0..0 |-> IF n = 0 THEN e ELSE Op(f[n - 1], n)] BY <3>1, <3>2
    <3>4. 0 \in 0..len BY <1>2
    <3> QED BY <3>3, <3>4, <2>1
  <2>3. ASSUME NEW k \in 0..(len - 1), k \in Q PROVE k + 1 \in Q
    <3>1. PICK f : f = Step(f, k) BY <2>3
    <3>2. DOMAIN f = 0..k /\ \A n \in 0..k : f[n] = IF n = 0 THEN e ELSE Op(f[n - 1], n)
      BY <3>1, <2>1
    <3>3. PICK g : g = [n \in 0..(k + 1) |-> IF n = k + 1 THEN Op(f[k], k + 1) ELSE f[n]]
      OBVIOUS
    <3>4. k \in Nat /\ k + 1 # 0 /\ k + 1 \in 0..len /\ (k + 1) - 1 = k BY <1>2
    <3>5. \A n \in 0..k : g[n] = f[n] BY <3>3, <3>4
    <3>6. ASSUME NEW n \in 0..(k + 1)
          PROVE  g[n] = IF n = 0 THEN e ELSE Op(g[n - 1], n)
      <4>1. CASE n = k + 1
        <5>1. k \in 0..k /\ g[k] = f[k] BY <3>4, <3>5
        <5>2. g[n] = Op(f[k], k + 1) BY <4>1, <3>3
        <5> QED BY <4>1, <5>1, <5>2, <3>4
      <4>2. CASE n # k + 1
        <5>1. n \in 0..k BY <4>2, <3>4
        <5>2. n # 0 => n - 1 \in 0..k /\ g[n - 1] = f[n - 1] BY <5>1, <3>4, <3>5
        <5> QED BY <5>1, <5>2, <3>2, <3>5
      <4> QED BY <4>1, <4>2
    <3>7. g = [n \in 0..(k + 1) |-> g[n]] BY <3>3
    <3>8. g = [n \in 0..(k + 1) |-> IF n = 0 THEN e ELSE Op(g[n - 1], n)] BY <3>6, <3>7
    <3> QED BY <3>4, <3>8, <2>1
  <2>4. 0..len \subseteq Q
    <3> HIDE DEF Q
    <3> QED BY <1>2, <2>2, <2>3, CountedUp
  <2>5. len \in 0..len BY <1>2
  <2> QED BY <2>4, <2>5
<1>5. PICK g : g = CHOOSE h : h = Step(h, len) OBVIOUS
<1>6. Bodies(of, what, next) = g BY <1>1, <1>5 DEF Bodies
<1>7. g[0] = [dict |-> << >>, next |-> next, of |-> of]
  <2>1. g = Step(g, len)
    <3> HIDE DEF Step
    <3> QED BY <1>4, <1>5
  <2>2. 0 \in 0..len BY <1>2
  <2> QED BY <2>1, <2>2
<1>8. \A n \in 1..len : n \in 0..len /\ n # 0 BY <1>2
<1>9. \A n \in 1..len : g[n] = Defined(g[n - 1], what[n])
  <2>1. g = Step(g, len)
    <3> HIDE DEF Step
    <3> QED BY <1>4, <1>5
  <2>2. g = [n \in 0..len |-> IF n = 0 THEN e ELSE Op(g[n - 1], n)] BY <2>1, <1>3
  <2> HIDE DEF Op
  <2>3. \A n \in 1..len : g[n] = Op(g[n - 1], n) BY <2>2, <1>8
  <2> USE DEF Op
  <2> QED BY <2>3, Zenon
<1> HIDE DEF Op, Step
<1> QED BY <1>1, <1>6, <1>7, <1>9, Zenon

\* What is found of a class after each attribute.
LEMMA TrawlsAre ==
    ASSUME NEW S, NEW c, Trawled(c) \in Seq(S)
    PROVE  /\ TrawlType(c)[0] = [signals |-> << >>, slots |-> << >>]
           /\ \A n \in 1..Len(Trawled(c)) :
                TrawlType(c)[n] = TrawlOne(TrawlType(c)[n - 1], c, Trawled(c)[n])
<1> DEFINE Op(s, n) == TrawlOne(s, c, Trawled(c)[n])
           Step(h, k) == [n \in 0..k |->
                             IF n = 0 THEN [signals |-> << >>, slots |-> << >>] ELSE TrawlOne(h[n - 1], c, Trawled(c)[n])]
<1>1. PICK len : len = Len(Trawled(c)) OBVIOUS
<1>2. len \in Nat BY <1>1, LenProperties
<1>3. PICK e : e = [signals |-> << >>, slots |-> << >>] OBVIOUS
<1>4. \E f : f = Step(f, len)
  <2> DEFINE Q == {k \in 0..len : \E f : f = Step(f, k)}
  <2>1. \A h, k : Step(h, k) = [n \in 0..k |-> IF n = 0 THEN e ELSE Op(h[n - 1], n)]
    BY <1>3
  <2> HIDE DEF Step, Op
  <2>2. 0 \in Q
    <3>1. PICK f : f = [n \in 0..0 |-> e] OBVIOUS
    <3>2. \A n \in 0..0 : n = 0 OBVIOUS
    <3>3. f = [n \in 0..0 |-> IF n = 0 THEN e ELSE Op(f[n - 1], n)] BY <3>1, <3>2
    <3>4. 0 \in 0..len BY <1>2
    <3> QED BY <3>3, <3>4, <2>1
  <2>3. ASSUME NEW k \in 0..(len - 1), k \in Q PROVE k + 1 \in Q
    <3>1. PICK f : f = Step(f, k) BY <2>3
    <3>2. DOMAIN f = 0..k /\ \A n \in 0..k : f[n] = IF n = 0 THEN e ELSE Op(f[n - 1], n)
      BY <3>1, <2>1
    <3>3. PICK g : g = [n \in 0..(k + 1) |-> IF n = k + 1 THEN Op(f[k], k + 1) ELSE f[n]]
      OBVIOUS
    <3>4. k \in Nat /\ k + 1 # 0 /\ k + 1 \in 0..len /\ (k + 1) - 1 = k BY <1>2
    <3>5. \A n \in 0..k : g[n] = f[n] BY <3>3, <3>4
    <3>6. ASSUME NEW n \in 0..(k + 1)
          PROVE  g[n] = IF n = 0 THEN e ELSE Op(g[n - 1], n)
      <4>1. CASE n = k + 1
        <5>1. k \in 0..k /\ g[k] = f[k] BY <3>4, <3>5
        <5>2. g[n] = Op(f[k], k + 1) BY <4>1, <3>3
        <5> QED BY <4>1, <5>1, <5>2, <3>4
      <4>2. CASE n # k + 1
        <5>1. n \in 0..k BY <4>2, <3>4
        <5>2. n # 0 => n - 1 \in 0..k /\ g[n - 1] = f[n - 1] BY <5>1, <3>4, <3>5
        <5> QED BY <5>1, <5>2, <3>2, <3>5
      <4> QED BY <4>1, <4>2
    <3>7. g = [n \in 0..(k + 1) |-> g[n]] BY <3>3
    <3>8. g = [n \in 0..(k + 1) |-> IF n = 0 THEN e ELSE Op(g[n - 1], n)] BY <3>6, <3>7
    <3> QED BY <3>4, <3>8, <2>1
  <2>4. 0..len \subseteq Q
    <3> HIDE DEF Q
    <3> QED BY <1>2, <2>2, <2>3, CountedUp
  <2>5. len \in 0..len BY <1>2
  <2> QED BY <2>4, <2>5
<1>5. PICK g : g = CHOOSE h : h = Step(h, len) OBVIOUS
<1>6. TrawlType(c) = g BY <1>1, <1>5 DEF TrawlType
<1>7. g[0] = [signals |-> << >>, slots |-> << >>]
  <2>1. g = Step(g, len)
    <3> HIDE DEF Step
    <3> QED BY <1>4, <1>5
  <2>2. 0 \in 0..len BY <1>2
  <2> QED BY <2>1, <2>2
<1>8. \A n \in 1..len : n \in 0..len /\ n # 0 BY <1>2
<1>9. \A n \in 1..len : g[n] = TrawlOne(g[n - 1], c, Trawled(c)[n])
  <2>1. g = Step(g, len)
    <3> HIDE DEF Step
    <3> QED BY <1>4, <1>5
  <2>2. g = [n \in 0..len |-> IF n = 0 THEN e ELSE Op(g[n - 1], n)] BY <2>1, <1>3
  <2> HIDE DEF Op
  <2>3. \A n \in 1..len : g[n] = Op(g[n - 1], n) BY <2>2, <1>8
  <2> USE DEF Op
  <2> QED BY <2>3, Zenon
<1> HIDE DEF Op, Step
<1> QED BY <1>1, <1>6, <1>7, <1>9, Zenon

\* Bases and super classes come before a class, so that each chain has an end.
ChainsEnd ==
    /\ Len(classes) \in Nat
    /\ \A c \in 1..Len(classes) :
         /\ classes[c].base \in Nat /\ classes[c].base <= c - 1
         /\ qo[c].built \in BOOLEAN
         /\ qo[c].built => qo[c].super \in Nat /\ qo[c].super <= c - 1

\* What each class of a chain makes of a call.
LEMMA WorkedAre ==
    ASSUME ChainsEnd, NEW call, NEW id
    PROVE  /\ Worked(call, id)[0] = [id |-> id - Statics(call), does |-> << >>]
           /\ \A c \in 1..Len(classes) :
                Worked(call, id)[c] = Worker(Worked(call, id)[classes[c].base], c, call)
<1> DEFINE Op(s, n) == Worker(s, n, call)
           Step(h, k) == [n \in 0..k |->
                             IF n = 0 THEN [id |-> id - Statics(call), does |-> << >>] ELSE Worker(h[classes[n].base], n, call)]
<1>1. PICK len : len = Len(classes) OBVIOUS
<1>2. len \in Nat BY <1>1 DEF ChainsEnd
<1>3. PICK e : e = [id |-> id - Statics(call), does |-> << >>] OBVIOUS
<1>0. PICK b : b = [n \in 1..len |-> classes[n].base] OBVIOUS
<1>a. \A n \in 1..len : b[n] \in Nat /\ b[n] <= n - 1 BY <1>0, <1>1, <1>2 DEF ChainsEnd
<1>b. \A k \in 0..len : \A h : Step(h, k) = [n \in 0..k |-> IF n = 0 THEN e ELSE Op(h[b[n]], n)]
  <2> SUFFICES ASSUME NEW k \in 0..len, NEW h
               PROVE  Step(h, k) = [n \in 0..k |-> IF n = 0 THEN e ELSE Op(h[b[n]], n)]
    OBVIOUS
  <2>1. ASSUME NEW n \in 0..k
        PROVE  (IF n = 0 THEN [id |-> id - Statics(call), does |-> << >>] ELSE Worker(h[classes[n].base], n, call)) =
               IF n = 0 THEN e ELSE Op(h[b[n]], n)
    <3>1. CASE n = 0 BY <3>1, <1>3
    <3>2. CASE n # 0
      <4>1. n \in 1..len BY <3>2, <1>2
      <4>2. b[n] = classes[n].base BY <4>1, <1>0
      <4> QED BY <3>2, <4>2, Zenon
    <3> QED BY <3>1, <3>2
  <2> HIDE DEF Op
  <2> QED BY <2>1, Zenon
<1>4. \E f : f = Step(f, len)
  <2> DEFINE S == {k \in 0..len : \E f : f = Step(f, k)}
  <2> HIDE DEF Step, Op
  <2>2. 0 \in S
    <3>1. PICK f : f = [n \in 0..0 |-> e] OBVIOUS
    <3>2. \A n \in 0..0 : n = 0 OBVIOUS
    <3>3. f = [n \in 0..0 |-> IF n = 0 THEN e ELSE Op(f[b[n]], n)] BY <3>1, <3>2
    <3>4. 0 \in 0..len BY <1>2
    <3> QED BY <3>3, <3>4, <1>b
  <2>3. ASSUME NEW k \in 0..(len - 1), k \in S PROVE k + 1 \in S
    <3>4. /\ k \in Nat /\ k + 1 # 0 /\ k + 1 \in 0..len /\ k + 1 \in 1..len /\ k \in 0..len
          /\ (k + 1) - 1 = k
      BY <1>2
    <3>1. PICK f : f = Step(f, k) BY <2>3
    <3>2. DOMAIN f = 0..k /\ \A n \in 0..k : f[n] = IF n = 0 THEN e ELSE Op(f[b[n]], n)
      BY <3>1, <3>4, <1>b
    <3>3. PICK g : g = [n \in 0..(k + 1) |-> IF n = k + 1 THEN Op(f[b[k + 1]], k + 1) ELSE f[n]]
      OBVIOUS
    <3>5. \A n \in 0..k : g[n] = f[n] BY <3>3, <3>4
    <3>6. ASSUME NEW n \in 0..(k + 1)
          PROVE  g[n] = IF n = 0 THEN e ELSE Op(g[b[n]], n)
      <4>0. n # 0 => n \in 1..len /\ b[n] \in Nat /\ b[n] <= n - 1 BY <1>a, <1>2, <3>4
      <4>1. CASE n = k + 1
        <5>1. b[n] \in 0..k /\ g[b[n]] = f[b[n]] BY <4>0, <4>1, <3>4, <3>5
        <5>2. g[n] = Op(f[b[k + 1]], k + 1) BY <4>1, <3>3
        <5> QED BY <4>1, <5>1, <5>2, <3>4
      <4>2. CASE n # k + 1
        <5>1. n \in 0..k BY <4>2, <3>4
        <5>2. n # 0 => b[n] \in 0..k /\ g[b[n]] = f[b[n]] BY <4>0, <5>1, <3>4, <3>5
        <5> QED BY <5>1, <5>2, <3>2, <3>5
      <4> QED BY <4>1, <4>2
    <3>7. g = [n \in 0..(k + 1) |-> g[n]] BY <3>3
    <3>8. g = [n \in 0..(k + 1) |-> IF n = 0 THEN e ELSE Op(g[b[n]], n)] BY <3>6, <3>7
    <3>9. Step(g, k + 1) = [n \in 0..(k + 1) |-> IF n = 0 THEN e ELSE Op(g[b[n]], n)]
      BY <3>4, <1>b
    <3>10. g = Step(g, k + 1) BY <3>8, <3>9, Zenon
    <3> QED BY <3>4, <3>10, Zenon
  <2>4. 0..len \subseteq S
    <3> HIDE DEF S
    <3> QED BY <1>2, <2>2, <2>3, CountedUp
  <2>5. len \in 0..len BY <1>2
  <2> QED BY <2>4, <2>5
<1>5. PICK g : g = CHOOSE h : h = Step(h, len) OBVIOUS
<1>6. Worked(call, id) = g BY <1>1, <1>5 DEF Worked
<1>8. g = [n \in 0..len |-> IF n = 0 THEN e ELSE Op(g[b[n]], n)]
  <2>1. g = Step(g, len)
    <3> HIDE DEF Step
    <3> QED BY <1>4, <1>5
  <2>2. len \in 0..len BY <1>2
  <2> HIDE DEF Step, Op
  <2> QED BY <2>1, <2>2, <1>b
<1>7. g[0] = [id |-> id - Statics(call), does |-> << >>]
  <2>1. 0 \in 0..len BY <1>2
  <2> HIDE DEF Op
  <2> QED BY <2>1, <1>8, <1>3
<1>9. \A n \in 1..len : g[n] = Worker(g[classes[n].base], n, call)
  <2>1. \A n \in 1..len : n \in 0..len /\ n # 0 /\ b[n] = classes[n].base BY <1>2, <1>0
  <2> HIDE DEF Op
  <2>3. \A n \in 1..len : g[n] = Op(g[b[n]], n) BY <2>1, <1>8
  <2>4. \A n \in 1..len : g[n] = Op(g[classes[n].base], n) BY <2>1, <2>3, Zenon
  <2> USE DEF Op
  <2> QED BY <2>4, Zenon
<1> HIDE DEF Op, Step
<1> QED BY <1>1, <1>6, <1>7, <1>9, Zenon

\* The entries up to each class of a chain.
LEMMA EntriesToAre ==
    ASSUME ChainsEnd, NEW call
    PROVE  /\ EntriesTo(call)[0] = 0
           /\ \A c \in 1..Len(classes) :
                EntriesTo(call)[c] =
                  IF qo[c].built THEN EntriesTo(call)[qo[c].super] + Len(Entries(c, call)) ELSE 0
<1> DEFINE Op(s, n) == IF qo[n].built THEN s + Len(Entries(n, call)) ELSE 0
           Step(h, k) == [n \in 0..k |->
                             IF n = 0 THEN 0 ELSE IF qo[n].built THEN h[qo[n].super] + Len(Entries(n, call)) ELSE 0]
<1>1. PICK len : len = Len(classes) OBVIOUS
<1>2. len \in Nat BY <1>1 DEF ChainsEnd
<1>3. PICK e : e = 0 OBVIOUS
<1>0. PICK b : b = [n \in 1..len |-> IF qo[n].built THEN qo[n].super ELSE 0] OBVIOUS
<1>a. \A n \in 1..len : b[n] \in Nat /\ b[n] <= n - 1 BY <1>0, <1>1, <1>2 DEF ChainsEnd
<1>b. \A k \in 0..len : \A h : Step(h, k) = [n \in 0..k |-> IF n = 0 THEN e ELSE Op(h[b[n]], n)]
  <2> SUFFICES ASSUME NEW k \in 0..len, NEW h
               PROVE  Step(h, k) = [n \in 0..k |-> IF n = 0 THEN e ELSE Op(h[b[n]], n)]
    OBVIOUS
  <2>1. ASSUME NEW n \in 0..k
        PROVE  (IF n = 0 THEN 0 ELSE IF qo[n].built THEN h[qo[n].super] + Len(Entries(n, call)) ELSE 0) =
               IF n = 0 THEN e ELSE Op(h[b[n]], n)
    <3>1. CASE n = 0 BY <3>1, <1>3
    <3>2. CASE n # 0
      <4>1. n \in 1..len BY <3>2, <1>2
      <4>2. b[n] = IF qo[n].built THEN qo[n].super ELSE 0 BY <4>1, <1>0
      <4> QED BY <3>2, <4>2, Zenon
    <3> QED BY <3>1, <3>2
  <2> HIDE DEF Op
  <2> QED BY <2>1, Zenon
<1>4. \E f : f = Step(f, len)
  <2> DEFINE S == {k \in 0..len : \E f : f = Step(f, k)}
  <2> HIDE DEF Step, Op
  <2>2. 0 \in S
    <3>1. PICK f : f = [n \in 0..0 |-> e] OBVIOUS
    <3>2. \A n \in 0..0 : n = 0 OBVIOUS
    <3>3. f = [n \in 0..0 |-> IF n = 0 THEN e ELSE Op(f[b[n]], n)] BY <3>1, <3>2
    <3>4. 0 \in 0..len BY <1>2
    <3> QED BY <3>3, <3>4, <1>b
  <2>3. ASSUME NEW k \in 0..(len - 1), k \in S PROVE k + 1 \in S
    <3>4. /\ k \in Nat /\ k + 1 # 0 /\ k + 1 \in 0..len /\ k + 1 \in 1..len /\ k \in 0..len
          /\ (k + 1) - 1 = k
      BY <1>2
    <3>1. PICK f : f = Step(f, k) BY <2>3
    <3>2. DOMAIN f = 0..k /\ \A n \in 0..k : f[n] = IF n = 0 THEN e ELSE Op(f[b[n]], n)
      BY <3>1, <3>4, <1>b
    <3>3. PICK g : g = [n \in 0..(k + 1) |-> IF n = k + 1 THEN Op(f[b[k + 1]], k + 1) ELSE f[n]]
      OBVIOUS
    <3>5. \A n \in 0..k : g[n] = f[n] BY <3>3, <3>4
    <3>6. ASSUME NEW n \in 0..(k + 1)
          PROVE  g[n] = IF n = 0 THEN e ELSE Op(g[b[n]], n)
      <4>0. n # 0 => n \in 1..len /\ b[n] \in Nat /\ b[n] <= n - 1 BY <1>a, <1>2, <3>4
      <4>1. CASE n = k + 1
        <5>1. b[n] \in 0..k /\ g[b[n]] = f[b[n]] BY <4>0, <4>1, <3>4, <3>5
        <5>2. g[n] = Op(f[b[k + 1]], k + 1) BY <4>1, <3>3
        <5> QED BY <4>1, <5>1, <5>2, <3>4
      <4>2. CASE n # k + 1
        <5>1. n \in 0..k BY <4>2, <3>4
        <5>2. n # 0 => b[n] \in 0..k /\ g[b[n]] = f[b[n]] BY <4>0, <5>1, <3>4, <3>5
        <5> QED BY <5>1, <5>2, <3>2, <3>5
      <4> QED BY <4>1, <4>2
    <3>7. g = [n \in 0..(k + 1) |-> g[n]] BY <3>3
    <3>8. g = [n \in 0..(k + 1) |-> IF n = 0 THEN e ELSE Op(g[b[n]], n)] BY <3>6, <3>7
    <3>9. Step(g, k + 1) = [n \in 0..(k + 1) |-> IF n = 0 THEN e ELSE Op(g[b[n]], n)]
      BY <3>4, <1>b
    <3>10. g = Step(g, k + 1) BY <3>8, <3>9, Zenon
    <3> QED BY <3>4, <3>10, Zenon
  <2>4. 0..len \subseteq S
    <3> HIDE DEF S
    <3> QED BY <1>2, <2>2, <2>3, CountedUp
  <2>5. len \in 0..len BY <1>2
  <2> QED BY <2>4, <2>5
<1>5. PICK g : g = CHOOSE h : h = Step(h, len) OBVIOUS
<1>6. EntriesTo(call) = g BY <1>1, <1>5 DEF EntriesTo
<1>8. g = [n \in 0..len |-> IF n = 0 THEN e ELSE Op(g[b[n]], n)]
  <2>1. g = Step(g, len)
    <3> HIDE DEF Step
    <3> QED BY <1>4, <1>5
  <2>2. len \in 0..len BY <1>2
  <2> HIDE DEF Step, Op
  <2> QED BY <2>1, <2>2, <1>b
<1>7. g[0] = 0
  <2>1. 0 \in 0..len BY <1>2
  <2> HIDE DEF Op
  <2> QED BY <2>1, <1>8, <1>3
<1>9. \A n \in 1..len :
        g[n] = IF qo[n].built THEN g[IF qo[n].built THEN qo[n].super ELSE 0] + Len(Entries(n, call)) ELSE 0
  <2>1. \A n \in 1..len : n \in 0..len /\ n # 0 /\ b[n] = IF qo[n].built THEN qo[n].super ELSE 0
    BY <1>2, <1>0
  <2> HIDE DEF Op
  <2>3. \A n \in 1..len : g[n] = Op(g[b[n]], n) BY <2>1, <1>8
  <2>4. \A n \in 1..len : g[n] = Op(g[IF qo[n].built THEN qo[n].super ELSE 0], n)
    BY <2>1, <2>3, Zenon
  <2> USE DEF Op
  <2> QED BY <2>4, Zenon
<1> HIDE DEF Op, Step
<1> QED BY <1>1, <1>6, <1>7, <1>9, Zenon

\* The classes of a chain.
LEMMA AncestorsAre ==
    ASSUME ChainsEnd
    PROVE  /\ Ancestors[0] = {}
           /\ \A c \in 1..Len(classes) :
                Ancestors[c] = IF qo[c].built THEN {c} \cup Ancestors[qo[c].super] ELSE {}
<1> DEFINE Op(s, n) == IF qo[n].built THEN {n} \cup s ELSE {}
           Step(h, k) == [n \in 0..k |->
                             IF n = 0 THEN {} ELSE IF qo[n].built THEN {n} \cup h[qo[n].super] ELSE {}]
<1>1. PICK len : len = Len(classes) OBVIOUS
<1>2. len \in Nat BY <1>1 DEF ChainsEnd
<1>3. PICK e : e = {} OBVIOUS
<1>0. PICK b : b = [n \in 1..len |-> IF qo[n].built THEN qo[n].super ELSE 0] OBVIOUS
<1>a. \A n \in 1..len : b[n] \in Nat /\ b[n] <= n - 1 BY <1>0, <1>1, <1>2 DEF ChainsEnd
<1>b. \A k \in 0..len : \A h : Step(h, k) = [n \in 0..k |-> IF n = 0 THEN e ELSE Op(h[b[n]], n)]
  <2> SUFFICES ASSUME NEW k \in 0..len, NEW h
               PROVE  Step(h, k) = [n \in 0..k |-> IF n = 0 THEN e ELSE Op(h[b[n]], n)]
    OBVIOUS
  <2>1. ASSUME NEW n \in 0..k
        PROVE  (IF n = 0 THEN {} ELSE IF qo[n].built THEN {n} \cup h[qo[n].super] ELSE {}) =
               IF n = 0 THEN e ELSE Op(h[b[n]], n)
    <3>1. CASE n = 0 BY <3>1, <1>3
    <3>2. CASE n # 0
      <4>1. n \in 1..len BY <3>2, <1>2
      <4>2. b[n] = IF qo[n].built THEN qo[n].super ELSE 0 BY <4>1, <1>0
      <4> QED BY <3>2, <4>2, Zenon
    <3> QED BY <3>1, <3>2
  <2> HIDE DEF Op
  <2> QED BY <2>1, Zenon
<1>4. \E f : f = Step(f, len)
  <2> DEFINE S == {k \in 0..len : \E f : f = Step(f, k)}
  <2> HIDE DEF Step, Op
  <2>2. 0 \in S
    <3>1. PICK f : f = [n \in 0..0 |-> e] OBVIOUS
    <3>2. \A n \in 0..0 : n = 0 OBVIOUS
    <3>3. f = [n \in 0..0 |-> IF n = 0 THEN e ELSE Op(f[b[n]], n)] BY <3>1, <3>2
    <3>4. 0 \in 0..len BY <1>2
    <3> QED BY <3>3, <3>4, <1>b
  <2>3. ASSUME NEW k \in 0..(len - 1), k \in S PROVE k + 1 \in S
    <3>4. /\ k \in Nat /\ k + 1 # 0 /\ k + 1 \in 0..len /\ k + 1 \in 1..len /\ k \in 0..len
          /\ (k + 1) - 1 = k
      BY <1>2
    <3>1. PICK f : f = Step(f, k) BY <2>3
    <3>2. DOMAIN f = 0..k /\ \A n \in 0..k : f[n] = IF n = 0 THEN e ELSE Op(f[b[n]], n)
      BY <3>1, <3>4, <1>b
    <3>3. PICK g : g = [n \in 0..(k + 1) |-> IF n = k + 1 THEN Op(f[b[k + 1]], k + 1) ELSE f[n]]
      OBVIOUS
    <3>5. \A n \in 0..k : g[n] = f[n] BY <3>3, <3>4
    <3>6. ASSUME NEW n \in 0..(k + 1)
          PROVE  g[n] = IF n = 0 THEN e ELSE Op(g[b[n]], n)
      <4>0. n # 0 => n \in 1..len /\ b[n] \in Nat /\ b[n] <= n - 1 BY <1>a, <1>2, <3>4
      <4>1. CASE n = k + 1
        <5>1. b[n] \in 0..k /\ g[b[n]] = f[b[n]] BY <4>0, <4>1, <3>4, <3>5
        <5>2. g[n] = Op(f[b[k + 1]], k + 1) BY <4>1, <3>3
        <5> QED BY <4>1, <5>1, <5>2, <3>4
      <4>2. CASE n # k + 1
        <5>1. n \in 0..k BY <4>2, <3>4
        <5>2. n # 0 => b[n] \in 0..k /\ g[b[n]] = f[b[n]] BY <4>0, <5>1, <3>4, <3>5
        <5> QED BY <5>1, <5>2, <3>2, <3>5
      <4> QED BY <4>1, <4>2
    <3>7. g = [n \in 0..(k + 1) |-> g[n]] BY <3>3
    <3>8. g = [n \in 0..(k + 1) |-> IF n = 0 THEN e ELSE Op(g[b[n]], n)] BY <3>6, <3>7
    <3>9. Step(g, k + 1) = [n \in 0..(k + 1) |-> IF n = 0 THEN e ELSE Op(g[b[n]], n)]
      BY <3>4, <1>b
    <3>10. g = Step(g, k + 1) BY <3>8, <3>9, Zenon
    <3> QED BY <3>4, <3>10, Zenon
  <2>4. 0..len \subseteq S
    <3> HIDE DEF S
    <3> QED BY <1>2, <2>2, <2>3, CountedUp
  <2>5. len \in 0..len BY <1>2
  <2> QED BY <2>4, <2>5
<1>5. PICK g : g = CHOOSE h : h = Step(h, len) OBVIOUS
<1>6. Ancestors = g BY <1>1, <1>5 DEF Ancestors
<1>8. g = [n \in 0..len |-> IF n = 0 THEN e ELSE Op(g[b[n]], n)]
  <2>1. g = Step(g, len)
    <3> HIDE DEF Step
    <3> QED BY <1>4, <1>5
  <2>2. len \in 0..len BY <1>2
  <2> HIDE DEF Step, Op
  <2> QED BY <2>1, <2>2, <1>b
<1>7. g[0] = {}
  <2>1. 0 \in 0..len BY <1>2
  <2> HIDE DEF Op
  <2> QED BY <2>1, <1>8, <1>3
<1>9. \A n \in 1..len :
        g[n] = IF qo[n].built THEN {n} \cup g[IF qo[n].built THEN qo[n].super ELSE 0] ELSE {}
  <2>1. \A n \in 1..len : n \in 0..len /\ n # 0 /\ b[n] = IF qo[n].built THEN qo[n].super ELSE 0
    BY <1>2, <1>0
  <2> HIDE DEF Op
  <2>3. \A n \in 1..len : g[n] = Op(g[b[n]], n) BY <2>1, <1>8
  <2>4. \A n \in 1..len : g[n] = Op(g[IF qo[n].built THEN qo[n].super ELSE 0], n)
    BY <2>1, <2>3, Zenon
  <2> USE DEF Op
  <2> QED BY <2>4, Zenon
<1> HIDE DEF Op, Step
<1> QED BY <1>1, <1>6, <1>7, <1>9, Zenon

\* A sequence of whatever.
IsSequence(s) == \E S : s \in Seq(S)

\* What is read of a meta-object that is built: its methods are its signals and then
\* its slots, and it goes on with that of its base.
BuiltRight(q) ==
    /\ q.signals \in Nat /\ IsSequence(q.slots) /\ IsSequence(q.pprops)
    /\ IsSequence(q.methods) /\ Len(q.methods) = q.signals + Len(q.slots)
    /\ \A j \in 1..q.signals : q.methods[j].is = "signal"
    /\ \A j \in 1..Len(q.slots) :
         q.methods[q.signals + j] = q.slots[j] /\ q.slots[j].is = "slot"

MetaObjectsRight == \A c \in 1..Len(classes) : qo[c].built => BuiltRight(qo[c])

\* A class takes as many numbers as its meta-object has entries, and does with each
\* what the entry says.
LEMMA NumbersOfClass ==
    ASSUME NEW c, BuiltRight(qo[c]), NEW call \in {"method", "property"}
    PROVE  /\ Len(Entries(c, call)) \in Nat /\ Count(c, call) = Len(Entries(c, call))
           /\ DOMAIN Entries(c, call) = 1..Len(Entries(c, call))
           /\ \A j \in 1..Len(Entries(c, call)) : Handled(c, call, j - 1) = Says(c, call, j)
<1>1. PICK q : q = qo[c] OBVIOUS
<1>2. /\ q.signals \in Nat /\ Len(q.slots) \in Nat /\ Len(q.pprops) \in Nat
      /\ Len(q.methods) = q.signals + Len(q.slots)
      /\ DOMAIN q.methods = 1..Len(q.methods) /\ DOMAIN q.pprops = 1..Len(q.pprops)
  <2>1. BuiltRight(q) BY <1>1
  <2>2. PICK S : q.slots \in Seq(S) BY <2>1 DEF BuiltRight, IsSequence
  <2>3. PICK T : q.pprops \in Seq(T) BY <2>1 DEF BuiltRight, IsSequence
  <2>4. PICK U : q.methods \in Seq(U) BY <2>1 DEF BuiltRight, IsSequence
  <2>5. Len(q.slots) \in Nat BY <2>2, LenProperties
  <2>6. Len(q.pprops) \in Nat /\ DOMAIN q.pprops = 1..Len(q.pprops) BY <2>3, LenProperties
  <2>7. DOMAIN q.methods = 1..Len(q.methods) BY <2>4, LenProperties
  <2> QED BY <2>1, <2>5, <2>6, <2>7 DEF BuiltRight
<1>3. CASE call = "method"
  <2>1. Entries(c, call) = q.methods BY <1>1, <1>3 DEF Entries
  <2>2. Count(c, call) = q.signals + Len(q.slots) BY <1>1, <1>3 DEF Count
  <2>3. ASSUME NEW j \in 1..Len(q.methods)
        PROVE  Handled(c, call, j - 1) = Says(c, call, j)
    <3>1. call # "property" BY <1>3
    <3>2. j \in Nat /\ (j - 1) - q.signals + 1 = j - q.signals BY <1>2
    <3>3. CASE j <= q.signals
      <4>1. j - 1 < q.signals /\ j \in 1..q.signals BY <3>3, <1>2
      <4>2. q.methods[j].is = "signal" BY <4>1, <1>1 DEF BuiltRight
      <4>3. q.methods[j].is # "slot" BY <4>2
      <4>4. Handled(c, call, j - 1) = <<"activate", c, j - 1>> BY <4>1, <3>1, <1>1, Zenon DEF Handled
      <4>5. Says(c, call, j) = <<"activate", c, j - 1>> BY <4>3, <3>1, <2>1, Zenon DEF Says
      <4> QED BY <4>4, <4>5
    <3>4. CASE ~ (j <= q.signals)
      <4>0. PICK i : i = j - q.signals OBVIOUS
      <4>1. ~ (j - 1 < q.signals) /\ i \in 1..Len(q.slots) BY <4>0, <3>4, <1>2
      <4>2. q.signals + i = j BY <4>0, <1>2
      <4>a. q.methods[q.signals + i] = q.slots[i] /\ q.slots[i].is = "slot"
        BY <4>1, <1>1 DEF BuiltRight
      <4>3. q.methods[j] = q.slots[j - q.signals] /\ q.methods[j].is = "slot"
        BY <4>0, <4>2, <4>a
      <4>4. Handled(c, call, j - 1) = <<"invoke", q.slots[(j - 1) - q.signals + 1]>>
        BY <4>1, <3>1, <1>1, Zenon DEF Handled
      <4>5. Says(c, call, j) = <<"invoke", q.methods[j]>> BY <4>3, <3>1, <2>1, Zenon DEF Says
      <4> QED BY <4>3, <4>4, <4>5, <3>2
    <3> QED BY <3>3, <3>4
  <2> QED BY <2>1, <2>2, <2>3, <1>2
<1>4. CASE call = "property"
  <2>1. Entries(c, call) = q.pprops BY <1>1, <1>4 DEF Entries
  <2>2. Count(c, call) = Len(q.pprops) BY <1>1, <1>4 DEF Count
  <2>3. ASSUME NEW j \in 1..Len(q.pprops)
        PROVE  Handled(c, call, j - 1) = Says(c, call, j)
    <3>1. (j - 1) + 1 = j BY <1>2
    <3>2. Handled(c, call, j - 1) = <<"property", q.pprops[(j - 1) + 1].name>>
      BY <1>4, <1>1, Zenon DEF Handled
    <3>3. Says(c, call, j) = <<"property", q.pprops[j].name>> BY <1>4, <2>1, Zenon DEF Says
    <3> QED BY <3>1, <3>2, <3>3
  <2> QED BY <2>1, <2>2, <2>3, <1>2
<1> QED BY <1>3, <1>4

\* What is left of a number and what has been done.
Left(id, does) == [id |-> id, does |-> does]

\* What a class makes of what its base has left.
LEMMA WorkerMakes ==
    ASSUME NEW c, NEW call, NEW left, left.id \in Int, Count(c, call) \in Nat
    PROVE  /\ left.id < 0 => Worker(left, c, call) = left
           /\ left.id >= Count(c, call) =>
                Worker(left, c, call) = Left(left.id - Count(c, call), left.does)
           /\ 0 <= left.id /\ left.id < Count(c, call) =>
                Worker(left, c, call) =
                  Left(left.id - Count(c, call), Append(left.does, Handled(c, call, left.id)))
<1>1. left.id < 0 => Worker(left, c, call) = left BY Zenon DEF Worker
<1>2. ASSUME left.id >= Count(c, call)
      PROVE  Worker(left, c, call) = Left(left.id - Count(c, call), left.does)
  <2>1. ~ (left.id < 0) /\ ~ (left.id < Count(c, call)) BY <1>2
  <2> QED BY <2>1, Zenon DEF Worker, Left
<1>3. ASSUME 0 <= left.id, left.id < Count(c, call)
      PROVE  Worker(left, c, call) =
               Left(left.id - Count(c, call), Append(left.does, Handled(c, call, left.id)))
  <2>1. ~ (left.id < 0) BY <1>3
  <2> QED BY <2>1, <1>3, Zenon DEF Worker, Left
<1> QED BY <1>1, <1>2, <1>3

\* What is to be shown of a class: a number beyond its entries is left for the classes
\* below, without the entries; the number of an entry is used up and the entry done.
Passes(c, call, id) ==
    id - Statics(call) >= EntriesTo(call)[c] =>
      Worked(call, id)[c] = [id |-> id - Statics(call) - EntriesTo(call)[c], does |-> << >>]
Does(c, call, id) ==
    \A k \in Ancestors[c] : \A j \in 1..Len(Entries(k, call)) :
      id = Statics(call) + EntriesTo(call)[qo[k].super] + j - 1 =>
        \E rest \in Int : rest < 0 /\ Worked(call, id)[c] = [id |-> rest, does |-> <<Says(k, call, j)>>]
Dispatched(c, call, id) ==
    /\ EntriesTo(call)[c] \in Nat
    /\ Passes(c, call, id) /\ Does(c, call, id)

\* If it is so for the base it is so for the class.
LEMMA ClassDispatches ==
    ASSUME MetaAssumption, ChainsEnd, MetaObjectsRight,
           NEW call \in {"method", "property"}, NEW id \in Int,
           NEW c \in 1..Len(classes), qo[c].built, qo[c].super = classes[c].base,
           Dispatched(classes[c].base, call, id)
    PROVE  Dispatched(c, call, id)
<1>1. PICK s : s = classes[c].base OBVIOUS
<1>2. PICK off : off = EntriesTo(call)[s] OBVIOUS
<1>3. PICK n : n = Len(Entries(c, call)) OBVIOUS
<1>4. PICK x : x = id - Statics(call) OBVIOUS
<1>5. x \in Int /\ Statics(call) \in Nat
  <2>1. Statics(call) \in Nat BY DEF Statics, MetaAssumption
  <2> QED BY <2>1, <1>4
<1>6. off \in Nat BY <1>1, <1>2 DEF Dispatched
<1>7. /\ n \in Nat /\ Count(c, call) = n
      /\ \A j \in 1..n : Handled(c, call, j - 1) = Says(c, call, j)
  <2>1. BuiltRight(qo[c]) BY DEF MetaObjectsRight
  <2> QED BY <2>1, <1>3, NumbersOfClass
<1>8. EntriesTo(call)[c] = off + n BY <1>1, <1>2, <1>3, EntriesToAre
<1>9. Ancestors[c] = {c} \cup Ancestors[s] BY <1>1, AncestorsAre
<1>10. PICK left : left = Worked(call, id)[s] OBVIOUS
<1>11. Worked(call, id)[c] = Worker(left, c, call) BY <1>1, <1>10, WorkedAre
<1>12. x >= off => left = [id |-> x - off, does |-> << >>]
  BY <1>1, <1>2, <1>4, <1>10 DEF Dispatched, Passes
<1>13. Passes(c, call, id)
  <2> SUFFICES ASSUME x >= off + n
               PROVE  Worker(left, c, call) = [id |-> x - (off + n), does |-> << >>]
    BY <1>4, <1>8, <1>11 DEF Passes
  <2>1. x >= off /\ x - off \in Int /\ x - off >= n /\ (x - off) - n = x - (off + n)
    BY <1>5, <1>6, <1>7
  <2>2. left.id = x - off /\ left.does = << >> BY <2>1, <1>12
  <2>3. left.id \in Int /\ left.id >= Count(c, call) /\ Count(c, call) \in Nat
    BY <2>1, <2>2, <1>7
  <2>4. Worker(left, c, call) = Left(left.id - Count(c, call), left.does)
    BY <2>3, WorkerMakes
  <2> QED BY <2>1, <2>2, <2>4, <1>7 DEF Left
<1>14. Does(c, call, id)
  <2> SUFFICES ASSUME NEW k \in Ancestors[c], NEW j \in 1..Len(Entries(k, call)),
                      id = Statics(call) + EntriesTo(call)[qo[k].super] + j - 1
               PROVE  \E rest \in Int : /\ rest < 0
                                        /\ Worker(left, c, call) = [id |-> rest, does |-> <<Says(k, call, j)>>]
    BY <1>11 DEF Does
  <2>1. CASE k \in Ancestors[s]
    <3>1. PICK rest \in Int : rest < 0 /\ left = [id |-> rest, does |-> <<Says(k, call, j)>>]
      BY <2>1, <1>1, <1>10 DEF Dispatched, Does
    <3>a. left.id \in Int /\ left.id < 0 /\ Count(c, call) \in Nat BY <3>1, <1>7
    <3>2. Worker(left, c, call) = left BY <3>a, WorkerMakes
    <3> QED BY <3>1, <3>2
  <2>2. CASE k = c
    <3>a. EntriesTo(call)[qo[k].super] = off BY <2>2, <1>1, <1>2
    <3>b. j \in 1..n BY <2>2, <1>3
    <3>c. j \in Int BY <3>b, <1>7
    <3>h. PICK st : st = Statics(call) OBVIOUS
    <3>i. st \in Nat /\ id = st + off + j - 1 /\ x = id - st BY <3>h, <3>a, <1>4, <1>5
    <3>1. x = off + j - 1 /\ j \in 1..n /\ j \in Int BY <3>i, <3>b, <3>c, <1>6
    <3>2. x >= off /\ x - off = j - 1 /\ 0 <= j - 1 /\ j - 1 < n /\ j - 1 \in Int
      BY <3>1, <1>6, <1>7
    <3>3. left.id = j - 1 /\ left.does = << >> BY <3>2, <1>12
    <3>4. PICK h : h = Handled(c, call, j - 1) OBVIOUS
    <3>d. left.id \in Int /\ 0 <= left.id /\ left.id < Count(c, call) /\ Count(c, call) \in Nat
      BY <3>2, <3>3, <1>7
    <3>e. Worker(left, c, call) =
            Left(left.id - Count(c, call), Append(left.does, Handled(c, call, left.id)))
      BY <3>d, WorkerMakes
    <3>5. Worker(left, c, call) = [id |-> (j - 1) - n, does |-> Append(<< >>, h)]
      BY <3>e, <3>3, <3>4, <1>7 DEF Left
    <3>6. h = Says(k, call, j) BY <3>1, <3>4, <2>2, <1>7
    <3>7. Append(<< >>, h) = <<h>> OBVIOUS
    <3>8. (j - 1) - n \in Int /\ (j - 1) - n < 0 BY <3>2, <1>7
    <3> QED BY <3>5, <3>6, <3>7, <3>8
  <2> QED BY <2>1, <2>2, <1>9
<1>15. EntriesTo(call)[c] \in Nat BY <1>6, <1>7, <1>8
<1> QED BY <1>13, <1>14, <1>15 DEF Dispatched

\* So it is for all classes, from Qt's down.
LEMMA ClassesDispatch ==
    ASSUME MetaAssumption, ChainsEnd, MetaObjectsRight, ChainIsBuilt, IsSequence(classes),
           NEW call \in {"method", "property"}, NEW id \in Int,
           NEW c \in 1..Len(classes), qo[c].built
    PROVE  Dispatched(c, call, id)
<1>1. PICK n : n = Len(classes) OBVIOUS
<1>2. n \in Nat BY <1>1 DEF ChainsEnd
<1> DEFINE S == {m \in 0..n : \A k \in 0..m : k = 0 \/ qo[k].built => Dispatched(k, call, id)}
<1>3. Dispatched(0, call, id)
  <2>1. EntriesTo(call)[0] = 0 BY EntriesToAre
  <2>2. Ancestors[0] = {} BY AncestorsAre
  <2>3. Worked(call, id)[0] = [id |-> id - Statics(call), does |-> << >>] BY WorkedAre
  <2>4. id - Statics(call) - 0 = id - Statics(call)
    <3>1. Statics(call) \in Nat BY DEF Statics, MetaAssumption
    <3> QED BY <3>1
  <2> QED BY <2>1, <2>2, <2>3, <2>4 DEF Dispatched, Passes, Does
<1>4. 0 \in S
  <2>1. 0 \in 0..n /\ \A k \in 0..0 : k = 0 BY <1>2
  <2> QED BY <2>1, <1>3
<1>5. ASSUME NEW m \in 0..(n - 1), m \in S PROVE m + 1 \in S
  <2>1. m + 1 \in 0..n /\ m + 1 \in 1..n BY <1>2
  <2>2. ASSUME qo[m + 1].built PROVE Dispatched(m + 1, call, id)
    <3>1. PICK d : d = m + 1 OBVIOUS
    <3>2. d \in 1..Len(classes) /\ d \in DOMAIN classes
      <4>1. PICK T : classes \in Seq(T) BY DEF IsSequence
      <4> QED BY <4>1, <3>1, <2>1, <1>1, LenProperties
    <3>3. /\ qo[d].built /\ qo[d].super = classes[d].base
          /\ classes[d].base # 0 => qo[classes[d].base].built
      BY <2>2, <3>1, <3>2 DEF ChainIsBuilt
    <3>4. classes[d].base \in 0..m
      <4>1. classes[d].base \in Nat /\ classes[d].base <= d - 1 BY <3>2 DEF ChainsEnd
      <4> QED BY <4>1, <3>1, <1>2
    <3>5. Dispatched(classes[d].base, call, id) BY <3>3, <3>4, <1>5
    <3>6. Dispatched(d, call, id) BY <3>2, <3>3, <3>5, ClassDispatches
    <3> QED BY <3>1, <3>6
  <2>3. \A k \in 0..(m + 1) : k \in 0..m \/ (k = m + 1 /\ k # 0) BY <1>2
  <2> HIDE DEF Dispatched
  <2> QED BY <2>1, <2>2, <2>3, <1>5
<1>6. 0..n \subseteq S
  <2> HIDE DEF S
  <2> QED BY <1>2, <1>4, <1>5, CountedUp
<1>7. n \in 0..n /\ c \in 0..n BY <1>1, <1>2
<1> QED BY <1>6, <1>7

\* The classes of a chain are built.
LEMMA AncestorsBuilt ==
    ASSUME ChainsEnd, NEW c \in 1..Len(classes)
    PROVE  \A k \in Ancestors[c] : k \in 1..Len(classes) /\ qo[k].built
<1>1. PICK n : n = Len(classes) OBVIOUS
<1>2. n \in Nat BY <1>1 DEF ChainsEnd
<1> DEFINE B(k) == k \in 1..n /\ qo[k].built
           S == {m \in 0..n : \A d \in 0..m : \A k \in Ancestors[d] : B(k)}
<1>3. 0 \in S
  <2>1. 0 \in 0..n /\ \A k \in 0..0 : k = 0 BY <1>2
  <2>2. Ancestors[0] = {} BY AncestorsAre
  <2> QED BY <2>1, <2>2
<1>4. ASSUME NEW m \in 0..(n - 1), m \in S PROVE m + 1 \in S
  <2>1. m + 1 \in 0..n /\ m + 1 \in 1..n BY <1>2
  <2>2. PICK d : d = m + 1 OBVIOUS
  <2>3. Ancestors[d] = IF qo[d].built THEN {d} \cup Ancestors[qo[d].super] ELSE {}
    BY <2>1, <2>2, <1>1, AncestorsAre
  <2>4. ASSUME NEW k \in Ancestors[d] PROVE B(k)
    <3>1. qo[d].built /\ (k = d \/ k \in Ancestors[qo[d].super]) BY <2>3
    <3>2. qo[d].super \in 0..m
      <4>1. qo[d].super \in Nat /\ qo[d].super <= d - 1 BY <3>1, <2>1, <2>2, <1>1 DEF ChainsEnd
      <4> QED BY <4>1, <2>2, <1>2
    <3> QED BY <3>1, <3>2, <2>1, <2>2, <1>4
  <2>5. \A k \in 0..(m + 1) : k \in 0..m \/ k = m + 1 BY <1>2
  <2> HIDE DEF B
  <2> QED BY <2>1, <2>2, <2>4, <2>5, <1>4
<1>5. 0..n \subseteq S
  <2> HIDE DEF S
  <2> QED BY <1>2, <1>3, <1>4, CountedUp
<1>6. n \in 0..n /\ c \in 0..n BY <1>1, <1>2
<1> QED BY <1>1, <1>5, <1>6

\* A number of Qt means the same in the call.
LEMMA MetaIsMatched ==
    ASSUME MetaAssumption, ChainsEnd, MetaObjectsRight, ChainIsBuilt, IsSequence(classes)
    PROVE  DispatchMatchesMeta
<1> SUFFICES ASSUME NEW c \in DOMAIN classes, NEW call \in {"method", "property"}, qo[c].built
             PROVE  /\ \A k \in Ancestors[c] : \A j \in DOMAIN Entries(k, call) :
                         LET id == Statics(call) + EntriesTo(call)[qo[k].super] + j - 1
                         IN  Metacall(c, call, id).does = <<Says(k, call, j)>>
                    /\ Metacall(c, call, Statics(call) + EntriesTo(call)[c]) = [id |-> 0, does |-> << >>]
  BY DEF DispatchMatchesMeta
<1>1. c \in 1..Len(classes) /\ \A k \in 1..Len(classes) : k \in DOMAIN classes
  <2>1. PICK T : classes \in Seq(T) BY DEF IsSequence
  <2> QED BY <2>1, LenProperties
<1>2. PICK st : st = Statics(call) OBVIOUS
<1>3. st \in Nat BY <1>2 DEF Statics, MetaAssumption
<1>4. ASSUME NEW k \in Ancestors[c], NEW j \in DOMAIN Entries(k, call)
      PROVE  Metacall(c, call, st + EntriesTo(call)[qo[k].super] + j - 1).does = <<Says(k, call, j)>>
  <2>1. PICK id : id = st + EntriesTo(call)[qo[k].super] + j - 1 OBVIOUS
  <2>2. k \in 1..Len(classes) /\ qo[k].built BY <1>1, AncestorsBuilt
  <2>3. j \in 1..Len(Entries(k, call)) /\ Len(Entries(k, call)) \in Nat
    BY <2>2, NumbersOfClass DEF MetaObjectsRight
  <2>4. EntriesTo(call)[qo[k].super] \in Nat
    <3>1. /\ qo[k].super \in Nat /\ qo[k].super <= k - 1
          /\ qo[k].super # 0 => qo[qo[k].super].built
      BY <2>2, <1>1 DEF ChainsEnd, ChainIsBuilt
    <3>2. CASE qo[k].super = 0 BY <3>2, EntriesToAre
    <3>3. CASE qo[k].super # 0
      <4>1. qo[k].super \in 1..Len(classes) BY <3>1, <3>3, <2>2 DEF ChainsEnd
      <4>2. Dispatched(qo[k].super, call, 0) BY <4>1, <3>1, <3>3, ClassesDispatch
      <4> QED BY <4>2 DEF Dispatched
    <3> QED BY <3>2, <3>3
  <2>5. id \in Int BY <2>1, <2>3, <2>4, <1>3
  <2>6. Does(c, call, id) BY <2>5, <1>1, ClassesDispatch DEF Dispatched
  <2>7. PICK rest \in Int : Worked(call, id)[c] = [id |-> rest, does |-> <<Says(k, call, j)>>]
    BY <2>1, <2>3, <2>6, <1>2 DEF Does
  <2>8. Metacall(c, call, id).does = <<Says(k, call, j)>> BY <2>7 DEF Metacall
  <2> QED BY <2>1, <2>8
<1>5. Metacall(c, call, st + EntriesTo(call)[c]) = [id |-> 0, does |-> << >>]
  <2>1. PICK n : n = EntriesTo(call)[c] OBVIOUS
  <2>2. n \in Nat
    <3>1. Dispatched(c, call, 0) BY <1>1, ClassesDispatch
    <3> QED BY <3>1, <2>1 DEF Dispatched
  <2>3. PICK id : id = st + n OBVIOUS
  <2>4. id \in Int /\ id - st >= n /\ id - st - n = 0 BY <2>2, <2>3, <1>3
  <2>5. Passes(c, call, id) BY <2>4, <1>1, ClassesDispatch DEF Dispatched
  <2>6. Worked(call, id)[c] = [id |-> 0, does |-> << >>] BY <2>1, <2>4, <2>5, <1>2 DEF Passes
  <2>7. Metacall(c, call, id) = [id |-> 0, does |-> << >>] BY <2>6 DEF Metacall
  <2>8. id = st + EntriesTo(call)[c] BY <2>1, <2>3
  <2> QED BY <2>7, <2>8
<1> QED BY <1>2, <1>4, <1>5

\* An attribute, with the number of a property between lo and hi.
Property(lo, hi, a) ==
    /\ a.kind = "property" /\ {"kind", "seq", "notify", "set"} \subseteq DOMAIN a
    /\ a.seq \in Nat /\ lo <= a.seq /\ a.seq < hi
Described(lo, hi, a) ==
    /\ a.kind \in {"signal", "slot", "property", "enum"}
    /\ a.kind = "signal" => a.overloads \in Nat
    /\ a.kind = "property" => Property(lo, hi, a)

DictRight(lo, hi, dict) ==
    IsSequence(dict) /\ \A i \in 1..Len(dict) : Described(lo, hi, dict[i])

\* A body as it is executed.
BodyState(dict, next, of) == [dict |-> dict, next |-> next, of |-> of]
BodyRight(lo, dict, next) == next \in Nat /\ lo <= next /\ DictRight(lo, next, dict)

\* A statement adds an attribute, changes a property or does nothing.
Adds(lo, dict, next, new, of) ==
    \E a : Described(lo, next, a) /\ a.kind # "property" /\ new = BodyState(Append(dict, a), next, of)
AddsProperty(lo, dict, next, new, of, notify) ==
    \E a : /\ Property(lo, next + 1, a) /\ a.seq = next /\ a.notify = notify
           /\ new = BodyState(Append(dict, a), next + 1, of)
Renames(lo, dict, next, new, of) ==
    \E i \in Properties(dict) : \E a :
      /\ Property(lo, next, a) /\ a.notify = dict[i].notify
      /\ new = BodyState(Append(dict, a), next, of)
Changes(lo, dict, next, new, of) ==
    \E i \in Properties(dict) : \E a :
      /\ Property(lo, next, a) /\ a.seq = dict[i].seq /\ a.notify = dict[i].notify
      /\ new = BodyState([dict EXCEPT ![i] = a], next, of)

\* The property that was defined last.
LEMMA LastProperty ==
    ASSUME NEW S, NEW dict \in Seq(S), Properties(dict) # {}
    PROVE  Max(Properties(dict)) \in Properties(dict) /\ Max(Properties(dict)) # 0
<1>1. Len(dict) \in Nat /\ DOMAIN dict = 1..Len(dict) BY LenProperties
<1>2. Properties(dict) \in SUBSET (0..Len(dict)) BY <1>1 DEF Properties
<1>3. Max(Properties(dict)) \in Properties(dict) BY <1>1, <1>2, GreatestNumber
<1> QED BY <1>1, <1>3 DEF Properties

LEMMA Statement ==
    ASSUME NEW lo \in Nat, NEW dict, NEW next, BodyRight(lo, dict, next), NEW of,
           NEW what \in AttributeKinds,
           NEW new, new = Defined(BodyState(dict, next, of), what)
    PROVE  \/ new = BodyState(dict, next, of)
           \/ Adds(lo, dict, next, new, of)
           \/ what = "property" /\ AddsProperty(lo, dict, next, new, of, FALSE)
           \/ what = "badNotify" /\ AddsProperty(lo, dict, next, new, of, TRUE)
           \/ Changes(lo, dict, next, new, of)
           \/ what = "renamed" /\ Renames(lo, dict, next, new, of)
<1>1. PICK st : st = BodyState(dict, next, of) OBVIOUS
<1>2. /\ st.dict = dict /\ st.next = next /\ st.of = of
      /\ \A d : [st EXCEPT !.dict = d] = BodyState(d, next, of)
  BY <1>1 DEF BodyState
<1>3. PICK name : name = <<of, Len(dict) + 1>> OBVIOUS
<1>4. PICK S : dict \in Seq(S) BY DEF BodyRight, DictRight, IsSequence
<1>5. next \in Nat /\ lo <= next /\ \A i \in Properties(dict) : Property(lo, next, dict[i])
  <2>1. DOMAIN dict = 1..Len(dict) BY <1>4, LenProperties
  <2> QED BY <2>1 DEF BodyRight, DictRight, Described, Properties
<1>6. CASE what = "signal"
  <2>1. PICK a : a = [kind |-> "signal", name |-> name, overloads |-> 1] OBVIOUS
  <2>2. new = [st EXCEPT !.dict = Append(dict, a)] BY <2>1, <1>1, <1>2, <1>3, <1>6 DEF Defined
  <2>3. Described(lo, next, a) /\ a.kind # "property" BY <2>1 DEF Described
  <2>4. new = BodyState(Append(dict, a), next, of) BY <2>2, <1>2, Zenon
  <2> QED BY <2>3, <2>4 DEF Adds
<1>7. CASE what = "overloaded"
  <2>1. PICK a : a = [kind |-> "signal", name |-> name, overloads |-> 2] OBVIOUS
  <2>2. new = [st EXCEPT !.dict = Append(dict, a)] BY <2>1, <1>1, <1>2, <1>3, <1>7 DEF Defined
  <2>3. Described(lo, next, a) /\ a.kind # "property" BY <2>1 DEF Described
  <2>4. new = BodyState(Append(dict, a), next, of) BY <2>2, <1>2, Zenon
  <2> QED BY <2>3, <2>4 DEF Adds
<1>8. CASE what = "slot"
  <2>1. PICK a : a = [kind |-> "slot", signature |-> "slot()"] OBVIOUS
  <2>2. new = [st EXCEPT !.dict = Append(dict, a)] BY <2>1, <1>1, <1>2, <1>8 DEF Defined
  <2>3. Described(lo, next, a) /\ a.kind # "property" BY <2>1 DEF Described
  <2>4. new = BodyState(Append(dict, a), next, of) BY <2>2, <1>2, Zenon
  <2> QED BY <2>3, <2>4 DEF Adds
<1>9. CASE what = "enum"
  <2>1. PICK a : a = [kind |-> "enum", name |-> name] OBVIOUS
  <2>2. new = [st EXCEPT !.dict = Append(dict, a)] BY <2>1, <1>1, <1>2, <1>3, <1>9 DEF Defined
  <2>3. Described(lo, next, a) /\ a.kind # "property" BY <2>1 DEF Described
  <2>4. new = BodyState(Append(dict, a), next, of) BY <2>2, <1>2, Zenon
  <2> QED BY <2>3, <2>4 DEF Adds
<1>10. CASE what = "property"
  <2>1. PICK a : a = NewProperty(name, next, FALSE) OBVIOUS
  <2>2. new = BodyState(Append(dict, a), next + 1, of)
    BY <2>1, <1>1, <1>2, <1>3, <1>10 DEF Defined, BodyState
  <2>3. Property(lo, next + 1, a) /\ a.seq = next /\ a.notify = FALSE
    BY <2>1, <1>5 DEF Property, NewProperty
  <2> QED BY <2>2, <2>3, <1>10 DEF AddsProperty
<1>13. CASE what = "badNotify"
  <2>1. PICK a : a = NewProperty(name, next, TRUE) OBVIOUS
  <2>2. new = BodyState(Append(dict, a), next + 1, of)
    BY <2>1, <1>1, <1>2, <1>3, <1>13 DEF Defined, BodyState
  <2>3. Property(lo, next + 1, a) /\ a.seq = next /\ a.notify = TRUE
    BY <2>1, <1>5 DEF Property, NewProperty
  <2> QED BY <2>2, <2>3, <1>13 DEF AddsProperty
<1> DEFINE last == Max(Properties(dict))
<1>11. CASE what \in {"setter", "renamed"} /\ Properties(dict) = {}
  <2>1. new = st BY <1>1, <1>2, <1>11 DEF Defined
  <2> QED BY <2>1, <1>1
<1>12. CASE what \in {"setter", "renamed"} /\ Properties(dict) # {}
  <2>1. last \in Properties(dict) /\ last # 0 BY <1>4, <1>12, LastProperty
  <2>2. PICK i : i = last OBVIOUS
  <2>3. PICK a : a = Clone(dict[i], "set") OBVIOUS
  <2>4. Property(lo, next, dict[i]) BY <2>1, <2>2, <1>5
  <2>5. Property(lo, next, a) /\ a.seq = dict[i].seq /\ a.notify = dict[i].notify
    BY <2>3, <2>4 DEF Property, Clone
  <2>6. CASE what = "setter"
    <3>1. new = [st EXCEPT !.dict[i] = a]
      BY <2>1, <2>2, <2>3, <2>6, <1>1, <1>2, <1>12 DEF Defined
    <3>2. new = BodyState([dict EXCEPT ![i] = a], next, of) BY <3>1, <1>1 DEF BodyState
    <3> QED BY <3>2, <2>1, <2>2, <2>5 DEF Changes
  <2>7. CASE what = "renamed"
    <3>1. PICK r : r = [a EXCEPT !.name = name] OBVIOUS
    <3>2. new = [st EXCEPT !.dict = Append(dict, r)]
      BY <3>1, <2>1, <2>2, <2>3, <2>7, <1>1, <1>2, <1>3, <1>12 DEF Defined
    <3>3. Property(lo, next, r) /\ r.notify = dict[i].notify BY <3>1, <2>5 DEF Property
    <3>4. new = BodyState(Append(dict, r), next, of) BY <3>2, <1>2, Zenon
    <3> QED BY <3>3, <3>4, <2>1, <2>2, <2>7 DEF Renames
  <2> QED BY <2>6, <2>7, <1>12
<1> QED BY <1>6, <1>7, <1>8, <1>9, <1>10, <1>11, <1>12, <1>13 DEF AttributeKinds

\* Properties have greater numbers than those before them.
InSequence(dict) ==
    \A i, j \in Properties(dict) : i < j => dict[i].seq < dict[j].seq

\* No property has a notify signal that there is not.
Silent(dict) == \A i \in Properties(dict) : dict[i].notify = FALSE

\* A statement leaves a body as it should be.
LEMMA StatementRight ==
    ASSUME NEW lo \in Nat, NEW dict, NEW next, BodyRight(lo, dict, next), NEW of,
           NEW what \in AttributeKinds,
           NEW new, new = Defined(BodyState(dict, next, of), what)
    PROVE  /\ new = BodyState(new.dict, new.next, of) /\ BodyRight(lo, new.dict, new.next)
           /\ InSequence(dict) /\ what # "renamed" => InSequence(new.dict)
           /\ Silent(dict) /\ what # "badNotify" => Silent(new.dict)
<1>1. PICK S : dict \in Seq(S) BY DEF BodyRight, DictRight, IsSequence
<1>2. PICK len : len = Len(dict) OBVIOUS
<1>3. len \in Nat /\ DOMAIN dict = 1..len BY <1>1, <1>2, LenProperties
<1>4. /\ next \in Nat /\ lo <= next
      /\ \A i \in 1..len : Described(lo, next, dict[i])
  BY <1>2 DEF BodyRight, DictRight
<1>5. ASSUME NEW d, NEW n, new = BodyState(d, n, of)
      PROVE  new.dict = d /\ new.next = n
  BY <1>5 DEF BodyState
<1>6. ASSUME NEW a, NEW n \in Nat, next <= n, Described(lo, n, a), new = BodyState(Append(dict, a), n, of),
             what = "renamed" \/ (a.kind = "property" => a.seq = next),
             Silent(dict) /\ what # "badNotify" => (a.kind = "property" => a.notify = FALSE)
      PROVE  /\ BodyRight(lo, new.dict, new.next)
             /\ InSequence(dict) /\ what # "renamed" => InSequence(new.dict)
             /\ Silent(dict) /\ what # "badNotify" => Silent(new.dict)
  <2>1. PICK d : d = Append(dict, a) OBVIOUS
  <2>2. new.dict = d /\ new.next = n BY <2>1, <1>5, <1>6
  <2>3. PICK T : T = S \cup {a} OBVIOUS
  <2>4. dict \in Seq(T) /\ a \in T BY <2>3, <1>1
  <2>5. /\ d \in Seq(T) /\ Len(d) = len + 1
        /\ \A i \in 1..len : d[i] = dict[i] /\ d[len + 1] = a
    BY <2>1, <2>4, <1>2, AppendProperties
  <2>6. ASSUME NEW i \in 1..(len + 1)
        PROVE  Described(lo, n, d[i])
    <3>1. CASE i = len + 1
      <4>1. d[i] = a BY <3>1, <2>1, <2>4, <1>2, AppendProperties
      <4> QED BY <4>1, <1>6
    <3>2. CASE i # len + 1
      <4>1. i \in 1..len BY <3>2, <1>3
      <4>2. d[i] = dict[i] /\ Described(lo, next, dict[i]) BY <4>1, <2>5, <1>4
      <4> QED BY <4>2, <1>4, <1>6 DEF Described, Property
    <3> QED BY <3>1, <3>2
  <2>7. BodyRight(lo, new.dict, new.next)
    <3>1. lo <= n BY <1>4, <1>6
    <3> QED BY <3>1, <2>2, <2>5, <2>6, <1>6 DEF BodyRight, DictRight, IsSequence
  <2>8. ASSUME InSequence(dict), what # "renamed", NEW i \in Properties(d), NEW j \in Properties(d), i < j
        PROVE  d[i].seq < d[j].seq
    <3>1. i \in 1..(len + 1) /\ j \in 1..(len + 1) /\ d[i].kind = "property" /\ d[j].kind = "property"
      <4>1. DOMAIN d = 1..(len + 1) BY <2>5, LenProperties
      <4> QED BY <4>1 DEF Properties
    <3>2. i \in 1..len /\ d[i] = dict[i] BY <3>1, <2>5, <2>8, <1>3
    <3>3. i \in Properties(dict) BY <3>1, <3>2, <1>3 DEF Properties
    <3>4. CASE j = len + 1
      <4>1. d[j] = a BY <3>4, <2>1, <2>4, <1>2, AppendProperties
      <4>2. a.seq = next BY <4>1, <3>1, <2>8, <1>6
      <4>3. dict[i].seq < next BY <3>1, <3>2, <1>4 DEF Described, Property
      <4> QED BY <4>1, <4>2, <4>3, <3>2
    <3>5. CASE j # len + 1
      <4>1. j \in 1..len /\ d[j] = dict[j] BY <3>1, <3>5, <2>5, <1>3
      <4>2. j \in Properties(dict) BY <4>1, <3>1, <1>3 DEF Properties
      <4> QED BY <4>1, <4>2, <3>2, <3>3, <2>8 DEF InSequence
    <3> QED BY <3>4, <3>5
  <2>9. InSequence(dict) /\ what # "renamed" => InSequence(new.dict) BY <2>2, <2>8 DEF InSequence
  <2>10. ASSUME Silent(dict), what # "badNotify", NEW i \in Properties(d)
         PROVE  d[i].notify = FALSE
    <3>1. i \in 1..(len + 1) /\ d[i].kind = "property"
      <4>1. DOMAIN d = 1..(len + 1) BY <2>5, LenProperties
      <4> QED BY <4>1 DEF Properties
    <3>2. CASE i = len + 1
      <4>1. d[i] = a BY <3>2, <2>1, <2>4, <1>2, AppendProperties
      <4> QED BY <4>1, <3>1, <2>10, <1>6
    <3>3. CASE i # len + 1
      <4>1. i \in 1..len /\ d[i] = dict[i] BY <3>1, <3>3, <2>5, <1>3
      <4>2. i \in Properties(dict) BY <4>1, <3>1, <1>3 DEF Properties
      <4> QED BY <4>1, <4>2, <2>10 DEF Silent
    <3> QED BY <3>2, <3>3
  <2>11. Silent(dict) /\ what # "badNotify" => Silent(new.dict) BY <2>2, <2>10 DEF Silent
  <2> QED BY <2>7, <2>9, <2>11
<1>7. CASE new = BodyState(dict, next, of) BY <1>5, <1>7
<1>8. CASE Adds(lo, dict, next, new, of)
  <2>1. PICK a : Described(lo, next, a) /\ a.kind # "property" /\ new = BodyState(Append(dict, a), next, of)
    BY <1>8 DEF Adds
  <2>2. new = BodyState(new.dict, new.next, of) BY <2>1, <1>5
  <2>3. what = "renamed" \/ (a.kind = "property" => a.seq = next) BY <2>1
  <2>4. Silent(dict) /\ what # "badNotify" => (a.kind = "property" => a.notify = FALSE) BY <2>1
  <2>5. next <= next BY <1>4
  <2> QED BY <2>1, <2>2, <2>3, <2>4, <2>5, <1>4, <1>6
<1>9. ASSUME NEW notify, AddsProperty(lo, dict, next, new, of, notify),
             what # "badNotify" => notify = FALSE
      PROVE  /\ new = BodyState(new.dict, new.next, of) /\ BodyRight(lo, new.dict, new.next)
             /\ InSequence(dict) /\ what # "renamed" => InSequence(new.dict)
             /\ Silent(dict) /\ what # "badNotify" => Silent(new.dict)
  <2>1. PICK a : /\ Property(lo, next + 1, a) /\ a.seq = next /\ a.notify = notify
                 /\ new = BodyState(Append(dict, a), next + 1, of)
    BY <1>9 DEF AddsProperty
  <2>2. new = BodyState(new.dict, new.next, of) BY <2>1, <1>5
  <2>3. PICK n : n = next + 1 OBVIOUS
  <2>4. Described(lo, n, a) BY <2>1, <2>3 DEF Described, Property
  <2>5. n \in Nat /\ next <= n BY <2>3, <1>4
  <2> QED BY <2>1, <2>2, <2>3, <2>4, <2>5, <1>6, <1>9
<1>10. CASE what = "renamed" /\ Renames(lo, dict, next, new, of)
  <2>0. PICK k \in Properties(dict) :
          \E a : /\ Property(lo, next, a) /\ a.notify = dict[k].notify
                 /\ new = BodyState(Append(dict, a), next, of)
    BY <1>10 DEF Renames
  <2>1. PICK a : /\ Property(lo, next, a) /\ a.notify = dict[k].notify
                 /\ new = BodyState(Append(dict, a), next, of)
    BY <2>0
  <2>3. Silent(dict) => a.notify = FALSE BY <2>1 DEF Silent
  <2>2. new = BodyState(new.dict, new.next, of) BY <2>1, <1>5
  <2>4. Described(lo, next, a) BY <2>1 DEF Described, Property
  <2>5. what = "renamed" \/ (a.kind = "property" => a.seq = next) BY <1>10
  <2>6. Silent(dict) /\ what # "badNotify" => (a.kind = "property" => a.notify = FALSE) BY <2>3
  <2>7. next <= next BY <1>4
  <2> QED BY <2>1, <2>2, <2>4, <2>5, <2>6, <2>7, <1>4, <1>6
<1>11. CASE Changes(lo, dict, next, new, of)
  <2>0. PICK k \in Properties(dict) :
          \E a : /\ Property(lo, next, a) /\ a.seq = dict[k].seq /\ a.notify = dict[k].notify
                 /\ new = BodyState([dict EXCEPT ![k] = a], next, of)
    BY <1>11 DEF Changes
  <2>1. PICK a : /\ Property(lo, next, a) /\ a.seq = dict[k].seq /\ a.notify = dict[k].notify
                 /\ new = BodyState([dict EXCEPT ![k] = a], next, of)
    BY <2>0
  <2>2. PICK d : d = [dict EXCEPT ![k] = a] OBVIOUS
  <2>3. new = BodyState(d, next, of) /\ new.dict = d /\ new.next = next BY <2>1, <2>2, <1>5
  <2>4. k \in 1..len /\ dict[k].kind = "property" BY <1>3 DEF Properties
  <2>5. d \in Seq(S \cup {a}) /\ Len(d) = len
    <3>1. dict \in Seq(S \cup {a}) BY <1>1
    <3> QED BY <3>1, <2>2, <2>4, <1>2
  <2>6. \A i \in 1..len : d[i] = IF i = k THEN a ELSE dict[i] BY <2>2, <1>3
  <2>7. BodyRight(lo, d, next)
    <3>1. \A i \in 1..len : Described(lo, next, d[i])
      <4>1. Described(lo, next, a) BY <2>1 DEF Described, Property
      <4> QED BY <4>1, <2>6, <1>4
    <3> QED BY <3>1, <2>5, <1>4 DEF BodyRight, DictRight, IsSequence
  <2>8. (InSequence(dict) => InSequence(d)) /\ (Silent(dict) => Silent(d))
    <3>1. Properties(d) = Properties(dict)
      <4>1. DOMAIN d = 1..len BY <2>2, <1>3
      <4>2. \A i \in 1..len : d[i].kind = "property" <=> dict[i].kind = "property"
        BY <2>1, <2>4, <2>6 DEF Property
      <4> QED BY <4>1, <4>2, <1>3 DEF Properties
    <3>2. \A i \in Properties(dict) : d[i].seq = dict[i].seq
      <4>1. \A i \in Properties(dict) : i \in 1..len BY <1>3 DEF Properties
      <4> QED BY <4>1, <2>1, <2>6
    <3>3. Silent(dict) => Silent(d)
      <4>1. \A i \in Properties(dict) : i \in 1..len BY <1>3 DEF Properties
      <4>2. Silent(dict) => a.notify = FALSE BY <2>1 DEF Silent
      <4> QED BY <4>1, <4>2, <3>1, <2>6 DEF Silent
    <3> QED BY <3>1, <3>2, <3>3 DEF InSequence
  <2> QED BY <2>3, <2>7, <2>8
<1> QED BY <1>7, <1>8, <1>9, <1>10, <1>11, Statement

\* So does the whole body.
LEMMA BodyIsRight ==
    ASSUME NEW lo \in Nat, NEW of, NEW what \in Seq(AttributeKinds)
    PROVE  /\ BodyRight(lo, Body(of, what, lo).dict, Body(of, what, lo).next)
           /\ "renamed" \notin Range(what) => InSequence(Body(of, what, lo).dict)
           /\ "badNotify" \notin Range(what) => Silent(Body(of, what, lo).dict)
<1>1. PICK len : len = Len(what) OBVIOUS
<1>2. len \in Nat /\ DOMAIN what = 1..len BY <1>1, LenProperties
<1>3. PICK g : g = Bodies(of, what, lo) OBVIOUS
<1>4. g[0] = BodyState(<< >>, lo, of) /\ \A n \in 1..len : g[n] = Defined(g[n - 1], what[n])
  BY <1>1, <1>3, BodiesAre DEF BodyState
<1> DEFINE Right(st) ==
             /\ st = BodyState(st.dict, st.next, of) /\ BodyRight(lo, st.dict, st.next)
             /\ "renamed" \notin Range(what) => InSequence(st.dict)
             /\ "badNotify" \notin Range(what) => Silent(st.dict)
           Q == {n \in 0..len : Right(g[n])}
<1>5. 0 \in Q
  <2>1. PICK st : st = g[0] OBVIOUS
  <2>2. PICK none : none = << >> OBVIOUS
  <2>3. st = BodyState(none, lo, of) BY <2>1, <2>2, <1>4
  <2>4. st.dict = none /\ st.next = lo BY <2>3 DEF BodyState
  <2>5. none \in Seq({}) /\ Len(none) = 0 /\ DOMAIN none = {} BY <2>2
  <2>6. DictRight(lo, lo, none) BY <2>5 DEF DictRight, IsSequence
  <2>7. InSequence(none) /\ Silent(none) BY <2>5 DEF InSequence, Silent, Properties
  <2>8. BodyRight(lo, none, lo) BY <2>6 DEF BodyRight
  <2>9. Right(st) BY <2>3, <2>4, <2>7, <2>8
  <2> QED BY <2>1, <2>9, <1>2
<1>6. ASSUME NEW n \in 0..(len - 1), n \in Q PROVE n + 1 \in Q
  <2>1. n + 1 \in 0..len /\ n + 1 \in 1..len /\ (n + 1) - 1 = n BY <1>2
  <2>2. PICK st : st = g[n] OBVIOUS
  <2>3. PICK new : new = g[n + 1] OBVIOUS
  <2>4. PICK w : w = what[n + 1] OBVIOUS
  <2>5. Right(st) BY <2>2, <1>6
  <2>6. w \in AttributeKinds /\ w \in Range(what)
    <3>1. w \in AttributeKinds BY <2>1, <2>4, <1>1, ElementOfSeq
    <3>2. w \in Range(what) BY <2>1, <2>4, <1>2 DEF Range
    <3> QED BY <3>1, <3>2
  <2>7. new = Defined(BodyState(st.dict, st.next, of), w)
    BY <2>1, <2>2, <2>3, <2>4, <2>5, <1>4
  <2>8. /\ new = BodyState(new.dict, new.next, of) /\ BodyRight(lo, new.dict, new.next)
        /\ InSequence(st.dict) /\ w # "renamed" => InSequence(new.dict)
        /\ Silent(st.dict) /\ w # "badNotify" => Silent(new.dict)
    BY <2>5, <2>6, <2>7, StatementRight
  <2>9. Right(new) BY <2>5, <2>6, <2>8
  <2> QED BY <2>1, <2>3, <2>9
<1>7. 0..len \subseteq Q
  <2> HIDE DEF Q
  <2> QED BY <1>2, <1>5, <1>6, CountedUp
<1>8. len \in 0..len BY <1>2
<1>9. Right(g[len]) BY <1>7, <1>8
<1>10. Body(of, what, lo) = g[len] BY <1>1, <1>3 DEF Body
<1> QED BY <1>9, <1>10

\* The numbers of the properties that are found: there are finitely many.
LEMMA PropertiesAreSequence ==
    ASSUME NEW S, NEW dict \in Seq(S)
    PROVE  IsSequence(PropertiesOf(dict)) /\ Len(PropertiesOf(dict)) = Cardinality(Numbers(dict))
<1>1. Len(dict) \in Nat /\ DOMAIN dict = 1..Len(dict) BY LenProperties
<1>2. IsFiniteSet(Properties(dict))
  <2>1. IsFiniteSet(1..Len(dict))
    <3>1. 1 \in Int /\ Len(dict) \in Int BY <1>1
    <3> QED BY <3>1, FS_Interval
  <2>2. Properties(dict) \subseteq 1..Len(dict) BY <1>1 DEF Properties
  <2> QED BY <2>1, <2>2, FS_Subset
<1>3. IsFiniteSet(Numbers(dict))
  <2>1. PICK f : f = [i \in Properties(dict) |-> dict[i].seq] OBVIOUS
  <2>2. f \in Surjection(Properties(dict), Numbers(dict))
    BY <2>1 DEF Surjection, Numbers
  <2> QED BY <2>2, <1>2, FS_Surjection
<1>4. PICK n : n = Cardinality(Numbers(dict)) OBVIOUS
<1>5. n \in Nat BY <1>3, <1>4, FS_CardinalityType
<1>6. PICK q : q = PropertiesOf(dict) OBVIOUS
<1>7. DOMAIN q = 1..n /\ q = [k \in 1..n |-> q[k]] BY <1>4, <1>6 DEF PropertiesOf
<1>8. q \in Seq({q[k] : k \in 1..n}) BY <1>5, <1>7
<1>9. Len(q) = n BY <1>5, <1>7, <1>8, LenProperties
<1> QED BY <1>4, <1>6, <1>8, <1>9 DEF IsSequence

\* The properties of two bodies are among those of the two in the other order.
AreAmong(d, m) ==
    \A i \in Properties(d \o m) : \E j \in Properties(m \o d) : (m \o d)[j] = (d \o m)[i]

LEMMA SameAttributes ==
    ASSUME NEW S, NEW d \in Seq(S), NEW m \in Seq(S)
    PROVE  AreAmong(d, m)
<1>1. PICK p : p = d \o m OBVIOUS
<1>2. PICK q : q = m \o d OBVIOUS
<1>3. PICK a : a = Len(d) OBVIOUS
<1>4. PICK b : b = Len(m) OBVIOUS
<1>5. a \in Nat /\ b \in Nat BY <1>3, <1>4, LenProperties
<1>6. /\ p \in Seq(S) /\ Len(p) = a + b
      /\ \A i \in 1..(a + b) : p[i] = IF i <= a THEN d[i] ELSE m[i - a]
  BY <1>1, <1>2, <1>3, <1>4, ConcatProperties
<1>7. /\ q \in Seq(S) /\ Len(q) = b + a
      /\ \A i \in 1..(b + a) : q[i] = IF i <= b THEN m[i] ELSE d[i - b]
  BY <1>1, <1>2, <1>3, <1>4, ConcatProperties
<1>8. DOMAIN p = 1..(a + b) /\ DOMAIN q = 1..(b + a) BY <1>6, <1>7, LenProperties
<1>9. ASSUME NEW i \in Properties(p) PROVE \E j \in Properties(q) : q[j] = p[i]
  <2>1. i \in 1..(a + b) /\ p[i].kind = "property" BY <1>8 DEF Properties
  <2>2. PICK j : j = IF i <= a THEN b + i ELSE i - a OBVIOUS
  <2>3. j \in 1..(b + a) BY <2>1, <2>2, <1>5
  <2>4. q[j] = p[i]
    <3>1. CASE i <= a
      <4>1. ~ (j <= b) /\ j - b = i BY <3>1, <2>1, <2>2, <1>5
      <4> QED BY <4>1, <3>1, <2>1, <2>3, <1>6, <1>7
    <3>2. CASE ~ (i <= a)
      <4>1. j <= b /\ j = i - a BY <3>2, <2>1, <2>2, <1>5
      <4> QED BY <4>1, <3>2, <2>1, <2>3, <1>6, <1>7
    <3> QED BY <3>1, <3>2
  <2> QED BY <2>1, <2>3, <2>4, <1>8 DEF Properties
<1> QED BY <1>9, <1>1, <1>2, Zenon DEF AreAmong

\* As many elements as those that they are mapped to one to one.
LEMMA MappedOneToOne ==
    ASSUME NEW A, IsFiniteSet(A), NEW f, f = [x \in A |-> f[x]],
           NEW B, B = {f[x] : x \in A}, \A x, y \in A : f[x] = f[y] => x = y
    PROVE  Cardinality(A) = Cardinality(B)
<1>1. f \in [A -> B] OBVIOUS
<1>2. f \in Surjection(A, B)
  <2>1. \A y \in B : \E x \in A : f[x] = y OBVIOUS
  <2> QED BY <1>1, <2>1 DEF Surjection
<1>3. f \in Injection(A, B)
  <2>1. DOMAIN f = A OBVIOUS
  <2>2. IsInjective(f) BY <2>1 DEF IsInjective
  <2> QED BY <1>1, <2>2 DEF Injection
<1> QED BY <1>2, <1>3, FS_Surjection

\* Properties in the order of their numbers are counted alike.
LEMMA CountedAlike ==
    ASSUME NEW S, NEW dict \in Seq(S), InSequence(dict),
           \A i \in Properties(dict) : dict[i].seq \in Nat
    PROVE  /\ \A i, j \in Properties(dict) : dict[i].seq = dict[j].seq => i = j
           /\ Cardinality(Numbers(dict)) = Cardinality(Properties(dict))
           /\ \A i \in Properties(dict) :
                CountTo(Numbers(dict), dict[i].seq) = CountTo(Properties(dict), i)
<1>1. PICK P : P = Properties(dict) OBVIOUS
<1>2. PICK N : N = Numbers(dict) OBVIOUS
<1>3. PICK f : f = [i \in P |-> dict[i].seq] OBVIOUS
<1>4. N = {f[i] : i \in P} BY <1>1, <1>2, <1>3 DEF Numbers
<1>5. Len(dict) \in Nat /\ P \subseteq 1..Len(dict)
  <2>1. Len(dict) \in Nat /\ DOMAIN dict = 1..Len(dict) BY LenProperties
  <2> QED BY <2>1, <1>1 DEF Properties
<1>6. IsFiniteSet(P)
  <2>1. 1 \in Int /\ Len(dict) \in Int BY <1>5
  <2>2. IsFiniteSet(1..Len(dict)) BY <2>1, FS_Interval
  <2> QED BY <2>2, <1>5, FS_Subset
<1>7. \A i, j \in P : f[i] \in Nat /\ i \in Nat /\ (i < j => f[i] < f[j])
  <2>1. \A i \in P : i \in 1..Len(dict) BY <1>5
  <2>2. \A i \in P : i \in Nat BY <2>1, <1>5
  <2> QED BY <2>2, <1>1, <1>3 DEF InSequence
<1>8. ASSUME NEW i \in P, NEW j \in P PROVE i <= j <=> f[i] <= f[j]
  <2>1. CASE i < j BY <2>1, <1>7
  <2>2. CASE j < i BY <2>2, <1>7
  <2>3. CASE i = j BY <2>3, <1>7
  <2> QED BY <2>1, <2>2, <2>3, <1>7
<1>9. \A i, j \in P : f[i] = f[j] => i = j
  <2> SUFFICES ASSUME NEW i \in P, NEW j \in P, f[i] = f[j] PROVE i = j
    OBVIOUS
  <2>1. i <= j /\ j <= i BY <1>7, <1>8
  <2> QED BY <2>1, <1>7
<1>10. Cardinality(N) = Cardinality(P)
  <2>1. f = [i \in P |-> f[i]] BY <1>3
  <2> QED BY <2>1, <1>4, <1>6, <1>9, MappedOneToOne
<1>11. ASSUME NEW i \in P PROVE CountTo(N, f[i]) = CountTo(P, i)
  <2>1. PICK A : A = {j \in P : j <= i} OBVIOUS
  <2>2. PICK B : B = {n \in N : n <= f[i]} OBVIOUS
  <2>3. PICK g : g = [j \in A |-> f[j]] OBVIOUS
  <2>4. B = {g[j] : j \in A}
    <3>1. \A j \in A : j \in P /\ g[j] = f[j] /\ f[j] \in N /\ f[j] <= f[i]
      BY <2>1, <2>3, <1>4, <1>8
    <3>2. ASSUME NEW n \in B PROVE \E j \in A : n = g[j]
      <4>1. n \in N /\ n <= f[i] BY <2>2
      <4>2. PICK j \in P : n = f[j] BY <4>1, <1>4
      <4>3. j <= i BY <4>1, <4>2, <1>8
      <4> QED BY <4>2, <4>3, <2>1, <2>3
    <3> QED BY <3>1, <3>2, <2>2
  <2>5. \A j, k \in A : g[j] = g[k] => j = k BY <2>1, <2>3, <1>9
  <2>6. g = [j \in A |-> g[j]] BY <2>3
  <2>7. IsFiniteSet(A) BY <2>1, <1>6, FS_Subset
  <2>8. Cardinality(A) = Cardinality(B) BY <2>4, <2>5, <2>6, <2>7, MappedOneToOne
  <2> QED BY <2>1, <2>2, <2>8 DEF CountTo
<1>12. \A i \in P : f[i] = dict[i].seq BY <1>3
<1> QED BY <1>1, <1>2, <1>9, <1>10, <1>11, <1>12

\* The properties of a class and of its mixin in the order of their definition.
KeptInOrder(m, d) ==
    /\ Len(PropertiesOf(d \o m)) = Cardinality(Properties(m \o d))
    /\ \A i \in Properties(m \o d) :
         PropertiesOf(d \o m)[CountTo(Properties(m \o d), i)] = (m \o d)[i]

LEMMA PropertiesAreInSequence ==
    ASSUME NEW S, NEW d \in Seq(S), NEW m \in Seq(S),
           InSequence(m \o d), \A i \in Properties(m \o d) : (m \o d)[i].seq \in Nat
    PROVE  KeptInOrder(m, d)
<1>0. PICK defined : defined = m \o d OBVIOUS
<1>1. PICK t : t = d \o m OBVIOUS
<1>2. PICK P : P = Properties(defined) OBVIOUS
<1>3. PICK N : N = Numbers(t) OBVIOUS
<1>4. /\ defined \in Seq(S) /\ Len(defined) \in Nat /\ DOMAIN defined = 1..Len(defined)
      /\ t \in Seq(S) /\ Len(t) \in Nat /\ DOMAIN t = 1..Len(t)
  BY <1>0, <1>1, ConcatProperties, LenProperties
<1>5. \A i \in Properties(t) : \E j \in P : defined[j] = t[i]
  <2>1. AreAmong(d, m) BY SameAttributes
  <2> QED BY <2>1, <1>0, <1>1, <1>2, Zenon DEF AreAmong
<1>6. \A i \in P : \E j \in Properties(t) : t[j] = defined[i]
  <2>1. AreAmong(m, d) BY SameAttributes
  <2> QED BY <2>1, <1>0, <1>1, <1>2, Zenon DEF AreAmong
<1>7. Numbers(defined) = N
  <2>1. PICK M : M = Numbers(defined) OBVIOUS
  <2>2. M = {defined[i].seq : i \in P} BY <2>1, <1>2 DEF Numbers
  <2>3. N = {t[i].seq : i \in Properties(t)} BY <1>3 DEF Numbers
  <2>4. ASSUME NEW n \in M PROVE n \in N
    <3>1. PICK i \in P : n = defined[i].seq BY <2>2, <2>4
    <3>2. PICK j \in Properties(t) : t[j] = defined[i] BY <1>6
    <3> QED BY <3>1, <3>2, <2>3
  <2>5. ASSUME NEW n \in N PROVE n \in M
    <3>1. PICK i \in Properties(t) : n = t[i].seq BY <2>3, <2>5
    <3>2. PICK j \in P : defined[j] = t[i] BY <1>5
    <3> QED BY <3>1, <3>2, <2>2
  <2> QED BY <2>1, <2>4, <2>5
<1>8. /\ \A i, j \in P : defined[i].seq = defined[j].seq => i = j
      /\ Cardinality(N) = Cardinality(P)
      /\ \A i \in P : CountTo(N, defined[i].seq) = CountTo(P, i)
  <2>1. InSequence(defined) /\ \A i \in Properties(defined) : defined[i].seq \in Nat BY <1>0
  <2> QED BY <2>1, <1>2, <1>4, <1>7, CountedAlike
<1>9. P \in SUBSET (1..Len(defined)) BY <1>2, <1>4 DEF Properties
<1>10. /\ \A i, j \in P : CountTo(P, i) = CountTo(P, j) => i = j
       /\ \A i \in P : CountTo(P, i) \in 1..Cardinality(P)
  BY <1>4, <1>9, CountNumbers
<1>11. ASSUME NEW i \in P PROVE NthNumber(t, CountTo(P, i)) = defined[i].seq
  <2>1. PICK k : k = CountTo(P, i) OBVIOUS
  <2>2. PICK n : n = NthNumber(t, k) OBVIOUS
  <2>3. n = CHOOSE x \in N : CountTo(N, x) = k BY <2>2, <1>3, Zenon DEF NthNumber, CountTo
  <2>4. defined[i].seq \in N /\ CountTo(N, defined[i].seq) = k
    <3>1. defined[i].seq \in Numbers(defined) BY <1>2 DEF Numbers
    <3> QED BY <3>1, <2>1, <1>7, <1>8
  <2>5. n \in N /\ CountTo(N, n) = k BY <2>3, <2>4, Zenon
  <2>6. PICK j \in P : n = defined[j].seq
    <3>1. n \in Numbers(defined) BY <2>5, <1>7
    <3> QED BY <3>1, <1>2 DEF Numbers
  <2>7. CountTo(P, j) = CountTo(P, i) BY <2>1, <2>5, <2>6, <1>8
  <2>8. j = i BY <2>7, <1>10
  <2> QED BY <2>1, <2>2, <2>6, <2>8
<1>12. ASSUME NEW i \in P PROVE t[Latest(t, defined[i].seq)] = defined[i]
  <2>1. PICK n : n = defined[i].seq OBVIOUS
  <2>2. PICK X : X = {x \in Properties(t) : t[x].seq = n} OBVIOUS
  <2>3. X # {} BY <2>1, <2>2, <1>6
  <2>4. X \in SUBSET (0..Len(t)) BY <2>2, <1>4 DEF Properties
  <2>5. Max(X) \in X BY <2>3, <2>4, <1>4, GreatestNumber
  <2>6. PICK x : x = Max(X) OBVIOUS
  <2>7. x \in Properties(t) /\ t[x].seq = n BY <2>2, <2>5, <2>6
  <2>8. PICK j \in P : defined[j] = t[x] BY <2>7, <1>5
  <2>9. j = i BY <2>1, <2>7, <2>8, <1>8
  <2>10. Latest(t, n) = x BY <2>2, <2>6 DEF Latest
  <2> QED BY <2>1, <2>8, <2>9, <2>10
<1>13. ASSUME NEW i \in P PROVE PropertiesOf(t)[CountTo(P, i)] = defined[i]
  <2>1. PICK k : k = CountTo(P, i) OBVIOUS
  <2>2. k \in 1..Cardinality(Numbers(t)) BY <2>1, <1>3, <1>8, <1>10
  <2>3. PropertiesOf(t)[k] = t[Latest(t, NthNumber(t, k))] BY <2>2 DEF PropertiesOf
  <2> QED BY <2>1, <2>3, <1>11, <1>12
<1>14. Len(PropertiesOf(t)) = Cardinality(P) BY <1>3, <1>4, <1>8, PropertiesAreSequence
<1> QED BY <1>0, <1>1, <1>2, <1>13, <1>14 DEF KeptInOrder

\* What has been found of signals and slots.
FoundRight(found) ==
    /\ found = [signals |-> found.signals, slots |-> found.slots]
    /\ IsSequence(found.signals) /\ \A i \in 1..Len(found.signals) : found.signals[i].is = "signal"
    /\ IsSequence(found.slots) /\ \A i \in 1..Len(found.slots) : found.slots[i].is = "slot"

\* One attribute leaves it right.
LEMMA AttributeFound ==
    ASSUME NEW found, FoundRight(found), NEW c, NEW a, a.kind = "signal" => a.overloads \in Nat
    PROVE  FoundRight(TrawlOne(found, c, a))
<1>1. PICK new : new = TrawlOne(found, c, a) OBVIOUS
<1>2. PICK sigs : sigs = found.signals OBVIOUS
<1>3. PICK slots : slots = found.slots OBVIOUS
<1>4. PICK S : sigs \in Seq(S) BY <1>2 DEF FoundRight, IsSequence
<1>5. PICK T : slots \in Seq(T) BY <1>3 DEF FoundRight, IsSequence
<1>6. /\ found = [signals |-> sigs, slots |-> slots]
      /\ \A i \in 1..Len(sigs) : sigs[i].is = "signal"
      /\ \A i \in 1..Len(slots) : slots[i].is = "slot"
  BY <1>2, <1>3 DEF FoundRight
<1>7. Len(sigs) \in Nat /\ Len(slots) \in Nat BY <1>4, <1>5, LenProperties
<1>8. CASE a.kind = "signal"
  <2>1. PICK more : more = [o \in 1..a.overloads |->
                              [is |-> "signal", name |-> a.name, overload |-> o]]
    OBVIOUS
  <2>2. PICK all : all = sigs \o more OBVIOUS
  <2>3. new = [found EXCEPT !.signals = all] BY <2>1, <2>2, <1>1, <1>2, <1>8, Zenon DEF TrawlOne
  <2>4. new = [signals |-> all, slots |-> slots] BY <2>3, <1>6
  <2>5. PICK n : n = a.overloads OBVIOUS
  <2>6. n \in Nat BY <2>5, <1>8
  <2>7. DOMAIN more = 1..n /\ \A o \in 1..n : more[o].is = "signal" BY <2>1, <2>5
  <2>8. PICK U : U = {more[o] : o \in 1..n} OBVIOUS
  <2>9. more \in Seq(U) /\ Len(more) = n
    <3>1. more = [o \in 1..n |-> more[o]] BY <2>1, <2>5
    <3>2. more \in [1..n -> U] BY <3>1, <2>8
    <3>3. more \in Seq(U) BY <3>2, <2>6
    <3> QED BY <3>3, <2>6, <2>7, LenProperties
  <2>10. PICK W : W = S \cup U OBVIOUS
  <2>11. sigs \in Seq(W) /\ more \in Seq(W) BY <2>9, <2>10, <1>4
  <2>12. PICK l : l = Len(sigs) OBVIOUS
  <2>13. /\ all \in Seq(W) /\ Len(all) = l + n
         /\ \A i \in 1..(l + n) : all[i] = IF i <= l THEN sigs[i] ELSE more[i - l]
    BY <2>2, <2>9, <2>11, <2>12, ConcatProperties
  <2>14. ASSUME NEW i \in 1..(l + n) PROVE all[i].is = "signal"
    <3>1. l \in Nat BY <2>12, <1>7
    <3>2. CASE i <= l
      <4>1. i \in 1..l BY <3>1, <3>2, <2>6
      <4> QED BY <4>1, <3>2, <2>12, <2>13, <1>6
    <3>3. CASE ~ (i <= l)
      <4>1. i - l \in 1..n BY <3>1, <3>3, <2>6
      <4> QED BY <4>1, <3>3, <2>7, <2>13
    <3> QED BY <3>2, <3>3
  <2> QED BY <2>4, <2>13, <2>14, <1>1, <1>5, <1>6 DEF FoundRight, IsSequence
<1>9. CASE new = [found EXCEPT !.slots = Append(@, [is |-> "slot", class |-> c, signature |-> a.signature])]
  <2>1. PICK s : s = [is |-> "slot", class |-> c, signature |-> a.signature] OBVIOUS
  <2>2. PICK all : all = Append(slots, s) OBVIOUS
  <2>3. new = [signals |-> sigs, slots |-> all] BY <2>1, <2>2, <1>6, <1>9
  <2>4. slots \in Seq(T \cup {s}) /\ s \in T \cup {s} BY <1>5
  <2>5. /\ all \in Seq(T \cup {s}) /\ Len(all) = Len(slots) + 1
        /\ \A i \in 1..Len(slots) : all[i] = slots[i]
        /\ all[Len(slots) + 1] = s
    BY <2>2, <2>4, AppendProperties
  <2>6. ASSUME NEW i \in 1..Len(all) PROVE all[i].is = "slot"
    <3>1. i = Len(slots) + 1 \/ i \in 1..Len(slots) BY <2>5, <1>7
    <3>2. s.is = "slot" BY <2>1
    <3> QED BY <3>1, <3>2, <2>5, <1>6
  <2> QED BY <2>3, <2>5, <2>6, <1>1, <1>4, <1>6 DEF FoundRight, IsSequence
<1>10. CASE new = found BY <1>1, <1>10
<1>11. CASE a.kind # "signal"
  <2>1. new = found \/ new = [found EXCEPT !.slots = Append(@, [is |-> "slot", class |-> c, signature |-> a.signature])]
    BY <1>1, <1>11, Zenon DEF TrawlOne
  <2> QED BY <2>1, <1>9, <1>10
<1> QED BY <1>8, <1>11

\* All of a class is found.
LEMMA MethodsFound ==
    ASSUME NEW S, NEW c, Trawled(c) \in Seq(S),
           \A i \in 1..Len(Trawled(c)) : Trawled(c)[i].kind = "signal" => Trawled(c)[i].overloads \in Nat
    PROVE  /\ IsSequence(Signals(c)) /\ \A i \in 1..Len(Signals(c)) : Signals(c)[i].is = "signal"
           /\ IsSequence(Slots(c)) /\ \A i \in 1..Len(Slots(c)) : Slots(c)[i].is = "slot"
<1>1. PICK t : t = Trawled(c) OBVIOUS
<1>2. PICK len : len = Len(t) OBVIOUS
<1>3. len \in Nat BY <1>1, <1>2, LenProperties
<1>4. PICK g : g = TrawlType(c) OBVIOUS
<1>5. g[0] = [signals |-> << >>, slots |-> << >>] /\ \A n \in 1..len : g[n] = TrawlOne(g[n - 1], c, t[n])
  BY <1>1, <1>2, <1>4, TrawlsAre
<1> DEFINE Q == {n \in 0..len : FoundRight(g[n])}
<1>6. 0 \in Q
  <2>1. PICK found : found = g[0] OBVIOUS
  <2>2. PICK none : none = << >> OBVIOUS
  <2>3. found = [signals |-> none, slots |-> none] BY <2>1, <2>2, <1>5
  <2>4. none \in Seq({}) /\ Len(none) = 0 BY <2>2
  <2>5. FoundRight(found) BY <2>3, <2>4 DEF FoundRight, IsSequence
  <2> QED BY <2>1, <2>5, <1>3
<1>7. ASSUME NEW n \in 0..(len - 1), n \in Q PROVE n + 1 \in Q
  <2>1. n + 1 \in 0..len /\ n + 1 \in 1..len /\ (n + 1) - 1 = n BY <1>3
  <2>2. g[n + 1] = TrawlOne(g[n], c, t[n + 1]) BY <2>1, <1>5
  <2>3. t[n + 1].kind = "signal" => t[n + 1].overloads \in Nat BY <2>1, <1>1, <1>2
  <2>4. FoundRight(g[n + 1]) BY <2>2, <2>3, <1>7, AttributeFound
  <2> QED BY <2>1, <2>4
<1>8. 0..len \subseteq Q
  <2> HIDE DEF Q
  <2> QED BY <1>3, <1>6, <1>7, CountedUp
<1>9. len \in 0..len BY <1>3
<1>10. FoundRight(g[len]) BY <1>8, <1>9
<1>11. Signals(c) = g[len].signals /\ Slots(c) = g[len].slots BY <1>1, <1>2, <1>4 DEF Signals, Slots
<1> QED BY <1>10, <1>11 DEF FoundRight


\* Signals that notify are those of the class.
NotifiesOwn ==
    "badNotify" \notin Attributes /\ \A m \in MixinBodies : "badNotify" \notin Range(m)

\* No property is given another name.
NoneRenamed ==
    "renamed" \notin Attributes /\ \A m \in MixinBodies : "renamed" \notin Range(m)

\* The numbers of a mixin are before those of the class.
ClassRight(k) ==
    \E lo, mid, hi \in Nat : DictRight(lo, mid, k.mixin) /\ DictRight(mid, hi, k.dict)

\* A meta-object that is built has what its class and its mixin define.
MetaRight(c) ==
    qo[c].built => BuiltRight(qo[c]) /\ qo[c].pprops = PropertiesOf(Trawled(c))

\* A class can be built, and its meta-object goes on with that of the base.
ChainRight(c) ==
    /\ Silent(classes[c].mixin) /\ Silent(classes[c].dict)
    /\ qo[c].built =>
         /\ qo[c].super = classes[c].base
         /\ classes[c].base # 0 => qo[classes[c].base].built

MetaTypeOK ==
    /\ IsSequence(classes) /\ IsSequence(qo) /\ Len(qo) = Len(classes) /\ sequence \in Nat
    /\ \A c \in 1..Len(classes) :
         /\ classes[c].base \in Nat /\ classes[c].base <= c - 1
         /\ ClassRight(classes[c]) /\ qo[c].built \in BOOLEAN

MetaIInv == MetaTypeOK /\ \A c \in 1..Len(classes) : MetaRight(c)

ChainsBuilt == \A c \in 1..Len(classes) : ChainRight(c)

NumbersInOrder ==
    \A c \in 1..Len(classes) : InSequence(classes[c].mixin) /\ InSequence(classes[c].dict)

\* What is trawled is described, and comes from the class or from its mixin.
LEMMA TrawledRight ==
    ASSUME NEW c, ClassRight(classes[c])
    PROVE  /\ \E S : Trawled(c) \in Seq(S)
           /\ \A i \in 1..Len(Trawled(c)) : \E lo, hi \in Nat : Described(lo, hi, Trawled(c)[i])
<1>1. PICK d : d = classes[c].dict OBVIOUS
<1>2. PICK m : m = classes[c].mixin OBVIOUS
<1>3. PICK lo, mid, hi \in Nat : DictRight(lo, mid, m) /\ DictRight(mid, hi, d)
  BY <1>1, <1>2 DEF ClassRight
<1>4. PICK A : d \in Seq(A) BY <1>3 DEF DictRight, IsSequence
<1>5. PICK B : m \in Seq(B) BY <1>3 DEF DictRight, IsSequence
<1>6. PICK S : S = A \cup B OBVIOUS
<1>7. d \in Seq(S) /\ m \in Seq(S) BY <1>4, <1>5, <1>6
<1>8. PICK t : t = d \o m OBVIOUS
<1>9. PICK a : a = Len(d) OBVIOUS
<1>10. PICK b : b = Len(m) OBVIOUS
<1>11. a \in Nat /\ b \in Nat BY <1>7, <1>9, <1>10, LenProperties
<1>12. /\ t \in Seq(S) /\ Len(t) = a + b
       /\ \A i \in 1..(a + b) : t[i] = IF i <= a THEN d[i] ELSE m[i - a]
  BY <1>7, <1>8, <1>9, <1>10, ConcatProperties
<1>13. ASSUME NEW i \in 1..Len(t) PROVE \E x, y \in Nat : Described(x, y, t[i])
  <2>1. i \in 1..(a + b) BY <1>12
  <2>2. CASE i <= a
    <3>1. i \in 1..a BY <2>1, <2>2, <1>11
    <3>2. Described(mid, hi, d[i]) BY <3>1, <1>3, <1>9 DEF DictRight
    <3> QED BY <3>2, <2>1, <2>2, <1>3, <1>12
  <2>3. CASE ~ (i <= a)
    <3>1. i - a \in 1..b BY <2>1, <2>3, <1>11
    <3>2. Described(lo, mid, m[i - a]) BY <3>1, <1>3, <1>10 DEF DictRight
    <3> QED BY <3>2, <2>1, <2>3, <1>3, <1>12
  <2> QED BY <2>2, <2>3
<1>14. Trawled(c) = t BY <1>1, <1>2, <1>8 DEF Trawled
<1> QED BY <1>12, <1>13, <1>14

\* A class without such a signal can be built.
LEMMA SilentBuilds ==
    ASSUME NEW c, ClassRight(classes[c]), Silent(classes[c].mixin), Silent(classes[c].dict)
    PROVE  Builds(c)
<1>1. PICK d : d = classes[c].dict OBVIOUS
<1>2. PICK m : m = classes[c].mixin OBVIOUS
<1>3. PICK A : d \in Seq(A) BY <1>1 DEF ClassRight, DictRight, IsSequence
<1>4. PICK B : m \in Seq(B) BY <1>2 DEF ClassRight, DictRight, IsSequence
<1>5. PICK S : S = A \cup B OBVIOUS
<1>6. d \in Seq(S) /\ m \in Seq(S) BY <1>3, <1>4, <1>5
<1>7. PICK t : t = d \o m OBVIOUS
<1>8. PICK a : a = Len(d) OBVIOUS
<1>9. PICK b : b = Len(m) OBVIOUS
<1>10. a \in Nat /\ b \in Nat /\ DOMAIN d = 1..a /\ DOMAIN m = 1..b
  BY <1>6, <1>8, <1>9, LenProperties
<1>11. /\ t \in Seq(S) /\ Len(t) = a + b
       /\ \A i \in 1..(a + b) : t[i] = IF i <= a THEN d[i] ELSE m[i - a]
  BY <1>6, <1>7, <1>8, <1>9, ConcatProperties
<1>12. DOMAIN t = 1..(a + b) BY <1>11, LenProperties
<1>13. ASSUME NEW i \in Properties(t) PROVE t[i].notify = FALSE
  <2>1. i \in 1..(a + b) /\ t[i].kind = "property" BY <1>12 DEF Properties
  <2>2. CASE i <= a
    <3>1. i \in 1..a /\ t[i] = d[i] BY <2>1, <2>2, <1>10, <1>11
    <3>2. i \in Properties(d) BY <3>1, <2>1, <1>10 DEF Properties
    <3> QED BY <3>1, <3>2, <1>1 DEF Silent
  <2>3. CASE ~ (i <= a)
    <3>1. PICK j : j = i - a OBVIOUS
    <3>2. j \in 1..b BY <3>1, <2>1, <2>3, <1>10
    <3>3. t[i] = m[j] BY <3>1, <2>1, <2>3, <1>11
    <3>4. j \in Properties(m) BY <3>2, <3>3, <2>1, <1>10 DEF Properties
    <3> QED BY <3>3, <3>4, <1>2 DEF Silent
  <2> QED BY <2>2, <2>3
<1>14. Trawled(c) = t BY <1>1, <1>2, <1>7 DEF Trawled
<1> QED BY <1>13, <1>14 DEF Builds

\* The meta-object of a class is what calls need.
LEMMA BuildRight ==
    ASSUME NEW c, ClassRight(classes[c]), NEW super
    PROVE  /\ Build(c, super).built = TRUE /\ Build(c, super).super = super
           /\ BuiltRight(Build(c, super))
           /\ Build(c, super).pprops = PropertiesOf(Trawled(c))
<1>1. PICK t : t = Trawled(c) OBVIOUS
<1>2. PICK S : t \in Seq(S) BY <1>1, TrawledRight
<1>3. \A i \in 1..Len(t) : \E lo, hi \in Nat : Described(lo, hi, t[i]) BY <1>1, TrawledRight
<1>4. PICK q : q = Build(c, super) OBVIOUS
<1>5. PICK sigs : sigs = Signals(c) OBVIOUS
<1>6. PICK slots : slots = Slots(c) OBVIOUS
<1>7. PICK props : props = PropertiesOf(t) OBVIOUS
<1>8. PICK methods : methods = sigs \o slots OBVIOUS
<1>9. /\ q.built = TRUE /\ q.super = super /\ q.signals = Len(sigs) /\ q.slots = slots
       /\ q.methods = methods /\ q.pprops = props
  BY <1>1, <1>4, <1>5, <1>6, <1>7, <1>8 DEF Build, Methods
<1>10. /\ IsSequence(sigs) /\ \A i \in 1..Len(sigs) : sigs[i].is = "signal"
       /\ IsSequence(slots) /\ \A i \in 1..Len(slots) : slots[i].is = "slot"
  <2>1. \A i \in 1..Len(t) : t[i].kind = "signal" => t[i].overloads \in Nat BY <1>3 DEF Described
  <2> QED BY <2>1, <1>1, <1>2, <1>5, <1>6, MethodsFound
<1>11. IsSequence(props) BY <1>2, <1>7, PropertiesAreSequence
<1>12. BuiltRight(q)
  <2>1. PICK A : sigs \in Seq(A) BY <1>10 DEF IsSequence
  <2>2. PICK B : slots \in Seq(B) BY <1>10 DEF IsSequence
  <2>3. PICK U : U = A \cup B OBVIOUS
  <2>4. sigs \in Seq(U) /\ slots \in Seq(U) BY <2>1, <2>2, <2>3
  <2>5. PICK a : a = Len(sigs) OBVIOUS
  <2>6. PICK b : b = Len(slots) OBVIOUS
  <2>7. a \in Nat /\ b \in Nat BY <2>4, <2>5, <2>6, LenProperties
  <2>8. /\ methods \in Seq(U) /\ Len(methods) = a + b
        /\ \A i \in 1..(a + b) : methods[i] = IF i <= a THEN sigs[i] ELSE slots[i - a]
    BY <2>4, <2>5, <2>6, <1>8, ConcatProperties
  <2>9. \A j \in 1..a : methods[j].is = "signal"
    <3>1. \A j \in 1..a : j \in 1..(a + b) /\ j <= a BY <2>7
    <3> QED BY <3>1, <2>5, <2>8, <1>10
  <2>10. ASSUME NEW j \in 1..b PROVE methods[a + j] = slots[j]
    <3>1. a + j \in 1..(a + b) /\ ~ (a + j <= a) /\ (a + j) - a = j BY <2>7
    <3> QED BY <3>1, <2>8
  <2> QED BY <2>5, <2>6, <2>7, <2>8, <2>9, <2>10, <1>9, <1>10, <1>11 DEF BuiltRight, IsSequence
<1> QED BY <1>1, <1>4, <1>7, <1>9, <1>12

\* Nothing is defined in the beginning.
LEMMA MetaInitial == MetaInit => MetaIInv /\ ChainsBuilt /\ NumbersInOrder
<1> SUFFICES ASSUME MetaInit PROVE MetaIInv /\ ChainsBuilt /\ NumbersInOrder
  OBVIOUS
<1>1. PICK none : none = << >> OBVIOUS
<1>2. classes = none /\ qo = none /\ sequence = 0 BY <1>1 DEF MetaInit
<1>3. none \in Seq({}) /\ Len(none) = 0 BY <1>1
<1>4. \A c \in 1..Len(none) : FALSE BY <1>3
<1> QED BY <1>2, <1>3, <1>4 DEF MetaIInv, MetaTypeOK, IsSequence, ChainsBuilt, NumbersInOrder

\* A class is defined with its mixin.
LEMMA DefineClassStep ==
    ASSUME MetaAssumption, MetaIInv,
           NEW base \in 0..MaxClasses, NEW what \in SeqOf(Attributes, MaxAttributes),
           NEW mixin \in MixinBodies, DefineClass(base, what, mixin)
    PROVE  /\ MetaIInv'
           /\ NotifiesOwn /\ ChainsBuilt => ChainsBuilt'
           /\ NoneRenamed /\ NumbersInOrder => NumbersInOrder'
<1>1. PICK n : n = Len(classes) OBVIOUS
<1>2. PICK T : classes \in Seq(T) BY DEF MetaIInv, MetaTypeOK, IsSequence
<1>3. PICK Q : qo \in Seq(Q) BY DEF MetaIInv, MetaTypeOK, IsSequence
<1>4. n \in Nat /\ Len(qo) = n BY <1>1, <1>2, LenProperties DEF MetaIInv, MetaTypeOK
<1>5. PICK m : m = Body(<<"mixin", n + 1>>, mixin, sequence) OBVIOUS
<1>6. PICK b : b = Body(<<"class", n + 1>>, what, m.next) OBVIOUS
<1>7. PICK k : k = [base |-> base, dict |-> b.dict, mixin |-> m.dict] OBVIOUS
<1>8. PICK q : q = [built |-> FALSE] OBVIOUS
<1>9. /\ base < n + 1 /\ classes' = Append(classes, k) /\ qo' = Append(qo, q)
      /\ sequence' = b.next
  BY <1>1, <1>5, <1>6, <1>7, <1>8 DEF DefineClass
<1>10. k.base = base /\ k.dict = b.dict /\ k.mixin = m.dict /\ q.built = FALSE BY <1>7, <1>8
<1>11. PICK lo : lo = sequence OBVIOUS
<1>12. lo \in Nat BY <1>11 DEF MetaIInv, MetaTypeOK
<1>13. /\ BodyRight(lo, m.dict, m.next)
       /\ NoneRenamed => InSequence(m.dict)
       /\ NotifiesOwn => Silent(m.dict)
  <2>1. mixin \in Seq(AttributeKinds) BY DEF MetaAssumption
  <2>2. NoneRenamed => "renamed" \notin Range(mixin) BY DEF NoneRenamed
  <2>3. NotifiesOwn => "badNotify" \notin Range(mixin) BY DEF NotifiesOwn
  <2> QED BY <2>1, <2>2, <2>3, <1>5, <1>11, <1>12, BodyIsRight
<1>14. PICK mid : mid = m.next OBVIOUS
<1>15. mid \in Nat /\ DictRight(lo, mid, m.dict) BY <1>13, <1>14 DEF BodyRight
<1>16. /\ BodyRight(mid, b.dict, b.next)
       /\ NoneRenamed => InSequence(b.dict)
       /\ NotifiesOwn => Silent(b.dict)
  <2>1. Attributes \subseteq AttributeKinds /\ MaxAttributes \in Nat BY DEF MetaAssumption
  <2>2. what \in Seq(Attributes) /\ DOMAIN what = 1..Len(what) BY <2>1, SequenceOf
  <2>3. what \in Seq(AttributeKinds) BY <2>1, <2>2
  <2>4. Range(what) \subseteq Attributes
    <3>1. \A i \in 1..Len(what) : what[i] \in Attributes BY <2>2, ElementOfSeq
    <3> QED BY <3>1, <2>2 DEF Range
  <2>5. NoneRenamed => "renamed" \notin Range(what) BY <2>4 DEF NoneRenamed
  <2>6. NotifiesOwn => "badNotify" \notin Range(what) BY <2>4 DEF NotifiesOwn
  <2> QED BY <2>3, <2>5, <2>6, <1>6, <1>14, <1>15, BodyIsRight
<1>17. b.next \in Nat /\ DictRight(mid, b.next, b.dict) BY <1>16 DEF BodyRight
<1>18. ClassRight(k) BY <1>10, <1>12, <1>15, <1>17 DEF ClassRight
<1>19. /\ classes' \in Seq(T \cup {k}) /\ Len(classes') = n + 1 /\ classes'[n + 1] = k
       /\ \A c \in 1..n : classes'[c] = classes[c]
  <2>1. classes \in Seq(T \cup {k}) /\ k \in T \cup {k} BY <1>2
  <2> QED BY <2>1, <1>1, <1>9, AppendProperties
<1>20. /\ qo' \in Seq(Q \cup {q}) /\ Len(qo') = n + 1 /\ qo'[n + 1] = q
       /\ \A c \in 1..n : qo'[c] = qo[c]
  <2>1. PICK R : R = Q \cup {q} OBVIOUS
  <2>2. PICK new : new = qo' OBVIOUS
  <2>3. qo \in Seq(R) /\ q \in R BY <2>1, <1>3
  <2>4. new = Append(qo, q) BY <2>2, <1>9
  <2>5. /\ new \in Seq(R) /\ Len(new) = n + 1 /\ new[n + 1] = q
        /\ \A c \in 1..n : new[c] = qo[c]
    BY <2>3, <2>4, <1>4, AppendProperties
  <2> QED BY <2>1, <2>2, <2>5
<1>21. MetaTypeOK'
  <2>1. ASSUME NEW c \in 1..(n + 1)
        PROVE  /\ classes'[c].base \in Nat /\ classes'[c].base <= c - 1
               /\ ClassRight(classes'[c]) /\ qo'[c].built \in BOOLEAN
    <3>1. CASE c = n + 1
      <4>1. base \in Nat /\ base <= c - 1 BY <3>1, <1>4, <1>9
      <4> QED BY <4>1, <3>1, <1>10, <1>18, <1>19, <1>20
    <3>2. CASE c # n + 1
      <4>1. c \in 1..n BY <3>2, <1>4
      <4>2. /\ classes[c].base \in Nat /\ classes[c].base <= c - 1
            /\ ClassRight(classes[c]) /\ qo[c].built \in BOOLEAN
        BY <4>1, <1>1 DEF MetaIInv, MetaTypeOK
      <4> QED BY <4>1, <4>2, <1>19, <1>20
    <3> QED BY <3>1, <3>2
  <2>2. IsSequence(classes') /\ IsSequence(qo') BY <1>19, <1>20 DEF IsSequence
  <2>3. sequence' \in Nat BY <1>9, <1>17
  <2>4. Len(qo') = Len(classes') BY <1>19, <1>20
  <2>5. 1..Len(classes') = 1..(n + 1) BY <1>19
  <2> QED BY <2>1, <2>2, <2>3, <2>4, <2>5 DEF MetaTypeOK, IsSequence, ClassRight
<1>22. ASSUME NEW c \in 1..(n + 1) PROVE MetaRight(c)'
  <2>1. CASE c = n + 1
    <3>1. ~ qo'[c].built BY <2>1, <1>10, <1>20
    <3> QED BY <3>1 DEF MetaRight
  <2>2. CASE c # n + 1
    <3>1. c \in 1..n BY <2>2, <1>4
    <3>2. classes'[c] = classes[c] /\ qo'[c] = qo[c] BY <3>1, <1>19, <1>20
    <3>3. Trawled(c)' = Trawled(c) BY <3>2 DEF Trawled
    <3>4. MetaRight(c) BY <3>1, <1>1 DEF MetaIInv
    <3>5. PICK p : p = PropertiesOf(Trawled(c)) OBVIOUS
    <3>6. PropertiesOf(Trawled(c))' = p
      BY <3>3, <3>5 DEF PropertiesOf, Numbers, NthNumber, Latest, Properties
    <3>7. PropertiesOf(Trawled(c)) = p BY <3>5
    <3> QED BY <3>2, <3>4, <3>6, <3>7 DEF MetaRight
  <2> QED BY <2>1, <2>2
<1>23. ASSUME NotifiesOwn, ChainsBuilt, NEW c \in 1..(n + 1) PROVE ChainRight(c)'
  <2>1. CASE c = n + 1
    <3>1. ~ qo'[c].built BY <2>1, <1>10, <1>20
    <3>2. Silent(m.dict) /\ Silent(b.dict) BY <1>13, <1>16, <1>23
    <3>3. classes'[c].mixin = m.dict /\ classes'[c].dict = b.dict BY <2>1, <1>10, <1>19
    <3> QED BY <3>1, <3>2, <3>3 DEF ChainRight, Silent, Properties
  <2>2. CASE c # n + 1
    <3>1. c \in 1..n BY <2>2, <1>4
    <3>2. classes'[c] = classes[c] /\ qo'[c] = qo[c] BY <3>1, <1>19, <1>20
    <3>3. classes[c].base # 0 => qo'[classes[c].base] = qo[classes[c].base]
      <4>1. classes[c].base \in Nat /\ classes[c].base <= c - 1
        BY <3>1, <1>1 DEF MetaIInv, MetaTypeOK
      <4>2. classes[c].base # 0 => classes[c].base \in 1..n BY <3>1, <4>1, <1>4
      <4> QED BY <4>2, <1>20
    <3>4. ChainRight(c) BY <3>1, <1>1, <1>23 DEF ChainsBuilt
    <3> QED BY <3>2, <3>3, <3>4 DEF ChainRight, Silent, Properties
  <2> QED BY <2>1, <2>2
<1>24. NotifiesOwn /\ ChainsBuilt => ChainsBuilt' BY <1>19, <1>23 DEF ChainsBuilt
<1>25. ASSUME NoneRenamed, NumbersInOrder, NEW c \in 1..(n + 1)
       PROVE  InSequence(classes'[c].mixin) /\ InSequence(classes'[c].dict)
  <2>1. CASE c = n + 1 BY <2>1, <1>10, <1>13, <1>16, <1>19, <1>25
  <2>2. CASE c # n + 1
    <3>1. c \in 1..n BY <2>2, <1>4
    <3> QED BY <3>1, <1>1, <1>19, <1>25 DEF NumbersInOrder
  <2> QED BY <2>1, <2>2
<1>26. NoneRenamed /\ NumbersInOrder => NumbersInOrder'
  BY <1>19, <1>25 DEF NumbersInOrder, InSequence, Properties
<1> QED BY <1>19, <1>21, <1>22, <1>26, <1>24 DEF MetaIInv

\* The meta-object of a class is built after that of its base.
LEMMA BuildStep ==
    ASSUME MetaIInv, NEW c \in DOMAIN classes, GetDynamicMetaobject(c)
    PROVE  /\ MetaIInv'
           /\ ChainsBuilt => ChainsBuilt'
           /\ NumbersInOrder => NumbersInOrder'
<1>1. PICK n : n = Len(classes) OBVIOUS
<1>2. PICK T : classes \in Seq(T) BY DEF MetaIInv, MetaTypeOK, IsSequence
<1>3. PICK Q : qo \in Seq(Q) BY DEF MetaIInv, MetaTypeOK, IsSequence
<1>4. /\ n \in Nat /\ Len(qo) = n /\ c \in 1..n /\ DOMAIN qo = 1..n
  BY <1>1, <1>2, <1>3, LenProperties DEF MetaIInv, MetaTypeOK
<1>5. \A d \in 1..n : /\ ClassRight(classes[d]) /\ classes[d].base \in Nat
                       /\ classes[d].base <= d - 1 /\ qo[d].built \in BOOLEAN
  BY <1>1 DEF MetaIInv, MetaTypeOK
<1>6. PICK base : base = classes[c].base OBVIOUS
<1>7. PICK super : super = IF base # 0 /\ qo[base].built THEN base ELSE 0 OBVIOUS
<1>8. PICK q : q = Build(c, super) OBVIOUS
<1>9. q.built = TRUE /\ q.super = super /\ BuiltRight(q) /\ q.pprops = PropertiesOf(Trawled(c))
  BY <1>4, <1>5, <1>8, BuildRight
<1>10. /\ qo' = IF Builds(c) THEN [qo EXCEPT ![c] = q] ELSE qo
       /\ classes' = classes /\ sequence' = sequence
  BY <1>6, <1>7, <1>8 DEF GetDynamicMetaobject
<1>11. \A d \in 1..n : qo'[d] = qo[d] \/ (d = c /\ qo'[d] = q) BY <1>4, <1>10
<1>12. qo' \in Seq(Q \cup {q}) /\ Len(qo') = n
  <2>1. PICK R : R = Q \cup {q} OBVIOUS
  <2>2. qo \in Seq(R) /\ q \in R BY <2>1, <1>3
  <2>3. [qo EXCEPT ![c] = q] \in Seq(R) /\ Len([qo EXCEPT ![c] = q]) = n BY <2>2, <1>4
  <2> QED BY <2>1, <2>2, <2>3, <1>4, <1>10
<1>13. MetaTypeOK'
  <2>1. \A d \in 1..n : qo'[d].built \in BOOLEAN BY <1>5, <1>9, <1>11
  <2>2. IsSequence(qo') /\ IsSequence(classes) /\ sequence \in Nat
    BY <1>12 DEF IsSequence, MetaIInv, MetaTypeOK
  <2> QED BY <2>1, <2>2, <1>1, <1>5, <1>10, <1>12 DEF MetaTypeOK, IsSequence, ClassRight
<1>14. ASSUME NEW d \in 1..n PROVE MetaRight(d)'
  <2>1. PropertiesOf(Trawled(d))' = PropertiesOf(Trawled(d))
    BY <1>10 DEF PropertiesOf, Numbers, NthNumber, Latest, Properties, Trawled
  <2>2. CASE d = c /\ qo'[d] = q BY <2>1, <2>2, <1>9 DEF MetaRight
  <2>3. CASE qo'[d] = qo[d]
    <3>1. MetaRight(d) BY <1>1 DEF MetaIInv
    <3> QED BY <2>1, <2>3, <3>1 DEF MetaRight
  <2> QED BY <2>2, <2>3, <1>11
<1>15. ASSUME ChainsBuilt, NEW d \in 1..n PROVE ChainRight(d)'
  <2>1. base # 0 => base \in 1..n /\ qo[base].built
    <3> SUFFICES ASSUME base # 0 PROVE base \in 1..n /\ qo[base].built
      OBVIOUS
    <3>1. base \in 1..n BY <1>4, <1>5, <1>6
    <3>2. Silent(classes[base].mixin) /\ Silent(classes[base].dict)
      BY <3>1, <1>1, <1>15 DEF ChainsBuilt, ChainRight
    <3>3. Builds(base) BY <3>1, <3>2, <1>5, SilentBuilds
    <3>4. BaseFirst(base) BY <1>6 DEF GetDynamicMetaobject
    <3> QED BY <3>1, <3>3, <3>4 DEF BaseFirst
  <2>2. super = base BY <2>1, <1>7
  <2>3. \A e \in 1..n : qo[e].built => qo'[e].built BY <1>9, <1>11
  <2>4. ChainRight(d) BY <1>1, <1>15 DEF ChainsBuilt
  <2>5. (Silent(classes[d].mixin) /\ Silent(classes[d].dict))' BY <2>4, <1>10 DEF ChainRight, Silent, Properties
  <2>6. CASE d = c /\ qo'[d] = q
    <3>1. base # 0 => qo'[base].built BY <2>1, <2>3
    <3> QED BY <2>2, <2>5, <2>6, <3>1, <1>6, <1>9, <1>10 DEF ChainRight
  <2>7. CASE qo'[d] = qo[d]
    <3>1. classes[d].base # 0 => classes[d].base \in 1..n BY <1>4, <1>5
    <3> QED BY <2>3, <2>4, <2>5, <2>7, <3>1, <1>10 DEF ChainRight
  <2> QED BY <2>6, <2>7, <1>11
<1>16. ChainsBuilt => ChainsBuilt' BY <1>1, <1>10, <1>15 DEF ChainsBuilt
<1>17. NumbersInOrder => NumbersInOrder' BY <1>10 DEF NumbersInOrder, InSequence, Properties
<1> QED BY <1>1, <1>10, <1>13, <1>14, <1>16, <1>17 DEF MetaIInv

LEMMA MetaInductive ==
    ASSUME MetaAssumption, MetaIInv, [MetaNext]_metaVars
    PROVE  /\ MetaIInv'
           /\ NotifiesOwn /\ ChainsBuilt => ChainsBuilt'
           /\ NoneRenamed /\ NumbersInOrder => NumbersInOrder'
<1>1. CASE UNCHANGED metaVars
  <2>1. classes' = classes /\ qo' = qo /\ sequence' = sequence BY <1>1 DEF metaVars
  <2>2. MetaTypeOK' BY <2>1 DEF MetaIInv, MetaTypeOK, IsSequence, ClassRight
  <2>3. ASSUME NEW c \in 1..Len(classes) PROVE MetaRight(c)'
    <3>1. PropertiesOf(Trawled(c))' = PropertiesOf(Trawled(c))
      BY <2>1 DEF PropertiesOf, Numbers, NthNumber, Latest, Properties, Trawled
    <3>2. MetaRight(c) BY DEF MetaIInv
    <3> QED BY <2>1, <3>1, <3>2 DEF MetaRight
  <2>4. ChainsBuilt => ChainsBuilt' BY <2>1 DEF ChainsBuilt, ChainRight, Silent, Properties
  <2>5. NumbersInOrder => NumbersInOrder' BY <2>1 DEF NumbersInOrder, InSequence, Properties
  <2> QED BY <2>1, <2>2, <2>3, <2>4, <2>5 DEF MetaIInv
<1>2. CASE \E base \in 0..MaxClasses, what \in SeqOf(Attributes, MaxAttributes), mixin \in MixinBodies :
             DefineClass(base, what, mixin)
  BY <1>2, DefineClassStep
<1>3. CASE \E c \in DOMAIN classes : GetDynamicMetaobject(c)
  BY <1>3, BuildStep
<1> QED BY <1>1, <1>2, <1>3 DEF MetaNext

\* Numbers mean the same to Qt and to PyQt in every class of a chain, whatever is
\* defined and in whichever order the meta-objects are built (qpycore_types.cpp
\* 64-365, qpycore_qobject_helpers.cpp 72-199), as long as all can be built.
THEOREM NumbersAgree == ASSUME NotifiesOwn PROVE MetaSpec => []DispatchAgrees
<1>1. MetaIInv /\ ChainsBuilt /\ [MetaNext]_metaVars => MetaIInv' /\ ChainsBuilt'
  BY MetaAssumption, MetaInductive
<1>2. ASSUME MetaIInv, ChainsBuilt PROVE DispatchAgrees
  <2>1. PICK n : n = Len(classes) OBVIOUS
  <2>2. PICK T : classes \in Seq(T) BY <1>2 DEF MetaIInv, MetaTypeOK, IsSequence
  <2>3. n \in Nat /\ DOMAIN classes = 1..n BY <2>1, <2>2, LenProperties
  <2>4. \A c \in 1..n : /\ classes[c].base \in Nat /\ classes[c].base <= c - 1
                        /\ qo[c].built \in BOOLEAN /\ MetaRight(c) /\ ChainRight(c)
    BY <1>2, <2>1 DEF MetaIInv, MetaTypeOK, ChainsBuilt
  <2>5. ChainsEnd BY <2>1, <2>3, <2>4 DEF ChainsEnd, ChainRight
  <2>6. MetaObjectsRight BY <2>1, <2>4 DEF MetaObjectsRight, MetaRight
  <2>7. ChainIsBuilt BY <2>3, <2>4 DEF ChainIsBuilt, ChainRight
  <2>8. IsSequence(classes) BY <2>2 DEF IsSequence
  <2>9. DispatchMatchesMeta BY <2>5, <2>6, <2>7, <2>8, MetaAssumption, MetaIsMatched
  <2> QED BY <2>7, <2>9 DEF DispatchAgrees
<1> QED BY <1>1, <1>2, MetaInitial, PTL DEF MetaSpec

\* The numbers of the class go on where those of its mixin end.
LEMMA DefinedInSequence ==
    ASSUME NEW lo \in Nat, NEW mid \in Nat, NEW hi \in Nat, NEW m, NEW d,
           DictRight(lo, mid, m), DictRight(mid, hi, d), InSequence(m), InSequence(d),
           NEW t, t = m \o d
    PROVE  InSequence(t) /\ \A i \in Properties(t) : t[i].seq \in Nat
<1>1. PICK A : d \in Seq(A) BY DEF DictRight, IsSequence
<1>2. PICK B : m \in Seq(B) BY DEF DictRight, IsSequence
<1>3. PICK S : S = A \cup B OBVIOUS
<1>4. d \in Seq(S) /\ m \in Seq(S) BY <1>1, <1>2, <1>3
<1>5. PICK a : a = Len(m) OBVIOUS
<1>6. PICK b : b = Len(d) OBVIOUS
<1>7. /\ a \in Nat /\ b \in Nat /\ DOMAIN m = 1..a /\ DOMAIN d = 1..b
  BY <1>4, <1>5, <1>6, LenProperties
<1>8. /\ t \in Seq(S) /\ Len(t) = a + b
      /\ \A i \in 1..(a + b) : t[i] = IF i <= a THEN m[i] ELSE d[i - a]
  BY <1>4, <1>5, <1>6, ConcatProperties
<1>9. DOMAIN t = 1..(a + b) BY <1>8, LenProperties
<1>10. ASSUME NEW i \in Properties(t)
       PROVE  i \in 1..(a + b) /\ t[i].kind = "property"
  BY <1>9 DEF Properties
<1>11. ASSUME NEW i \in Properties(t), i <= a
       PROVE  i \in Properties(m) /\ t[i] = m[i] /\ t[i].seq \in Nat /\ t[i].seq < mid
  <2>1. i \in 1..a /\ t[i] = m[i] BY <1>7, <1>8, <1>10, <1>11
  <2>2. Described(lo, mid, m[i]) BY <2>1, <1>5 DEF DictRight
  <2>3. i \in Properties(m) BY <2>1, <1>7, <1>10 DEF Properties
  <2> QED BY <2>1, <2>2, <2>3, <1>10 DEF Described, Property
<1>12. ASSUME NEW i \in Properties(t), ~ (i <= a)
       PROVE  \E x \in Properties(d) :
                /\ x \in Nat /\ i = x + a
                /\ t[i] = d[x] /\ t[i].seq \in Nat /\ mid <= t[i].seq
  <2>1. PICK x : x = i - a OBVIOUS
  <2>2. x \in 1..b /\ i = x + a /\ t[i] = d[x]
    <3>1. i \in 1..(a + b) BY <1>10
    <3>2. t[i] = d[i - a] BY <3>1, <1>8, <1>12
    <3> QED BY <3>1, <3>2, <2>1, <1>7, <1>12
  <2>3. Described(mid, hi, d[x]) BY <2>2, <1>6 DEF DictRight
  <2>4. x \in Properties(d) BY <2>2, <1>7, <1>10 DEF Properties
  <2>5. t[i].seq \in Nat /\ mid <= t[i].seq BY <2>2, <2>3, <1>10 DEF Described, Property
  <2> QED BY <2>2, <2>4, <2>5, <1>7
<1>13. ASSUME NEW i \in Properties(t), NEW j \in Properties(t), i < j
       PROVE  t[i].seq < t[j].seq
  <2>1. i \in Nat /\ j \in Nat BY <1>7, <1>10
  <2>2. CASE j <= a
    <3>1. i <= a BY <2>1, <2>2, <1>7, <1>13
    <3>2. i \in Properties(m) /\ t[i] = m[i] BY <3>1, <1>11
    <3>3. j \in Properties(m) /\ t[j] = m[j] BY <2>2, <1>11
    <3> QED BY <3>2, <3>3, <1>13 DEF InSequence
  <2>3. CASE ~ (i <= a)
    <3>1. ~ (j <= a) BY <2>1, <2>3, <1>7, <1>13
    <3>2. PICK x \in Properties(d) : x \in Nat /\ i = x + a /\ t[i] = d[x] BY <2>3, <1>12
    <3>3. PICK y \in Properties(d) : y \in Nat /\ j = y + a /\ t[j] = d[y] BY <3>1, <1>12
    <3>4. x < y BY <3>2, <3>3, <1>7, <1>13
    <3> QED BY <3>2, <3>3, <3>4 DEF InSequence
  <2>4. CASE ~ (j <= a) /\ i <= a
    <3>1. PICK x : x = t[i].seq OBVIOUS
    <3>2. PICK y : y = t[j].seq OBVIOUS
    <3>3. x \in Nat /\ x < mid BY <3>1, <2>4, <1>11
    <3>4. y \in Nat /\ mid <= y BY <3>2, <2>4, <1>12
    <3>5. x < y BY <3>3, <3>4
    <3> QED BY <3>1, <3>2, <3>5
  <2> QED BY <2>2, <2>3, <2>4
<1>14. ASSUME NEW i \in Properties(t) PROVE t[i].seq \in Nat BY <1>11, <1>12
<1> QED BY <1>13, <1>14 DEF InSequence

\* The properties of a class and of its mixin are in the order of their definition,
\* whichever functions were added later (qpycore_types.cpp 435-459,
\* qpycore_pyqtproperty.cpp 144-147), as long as none is renamed.
THEOREM PropertiesKeepOrder ==
    ASSUME NoneRenamed PROVE MetaSpec => []PropertiesInOrder
<1>1. MetaIInv /\ NumbersInOrder /\ [MetaNext]_metaVars => MetaIInv' /\ NumbersInOrder'
  BY MetaAssumption, MetaInductive
<1>2. ASSUME MetaIInv, NumbersInOrder PROVE PropertiesInOrder
  <2> SUFFICES ASSUME NEW c \in DOMAIN classes, qo[c].built, NEW defined,
                      defined = classes[c].mixin \o classes[c].dict
               PROVE  /\ Len(qo[c].pprops) = Cardinality(Properties(defined))
                      /\ \A i \in Properties(defined) :
                           qo[c].pprops[CountTo(Properties(defined), i)] = defined[i]
    BY DEF PropertiesInOrder, CountTo
  <2>1. PICK T : classes \in Seq(T) BY <1>2 DEF MetaIInv, MetaTypeOK, IsSequence
  <2>2. c \in 1..Len(classes) BY <2>1, LenProperties
  <2>3. PICK m : m = classes[c].mixin OBVIOUS
  <2>4. PICK d : d = classes[c].dict OBVIOUS
  <2>5. InSequence(m) /\ InSequence(d) BY <2>2, <2>3, <2>4, <1>2 DEF NumbersInOrder
  <2>6. PICK lo, mid, hi \in Nat : DictRight(lo, mid, m) /\ DictRight(mid, hi, d)
    BY <2>2, <2>3, <2>4, <1>2 DEF MetaIInv, MetaTypeOK, ClassRight
  <2>7. defined = m \o d BY <2>3, <2>4
  <2>8. InSequence(defined) /\ \A i \in Properties(defined) : defined[i].seq \in Nat
    BY <2>5, <2>6, <2>7, DefinedInSequence
  <2>9. PICK A : d \in Seq(A) BY <2>6 DEF DictRight, IsSequence
  <2>10. PICK B : m \in Seq(B) BY <2>6 DEF DictRight, IsSequence
  <2>11. PICK S : S = A \cup B OBVIOUS
  <2>12. d \in Seq(S) /\ m \in Seq(S) BY <2>9, <2>10, <2>11
  <2>13. PICK p : p = PropertiesOf(d \o m) OBVIOUS
  <2>14. qo[c].pprops = p
    <3>1. MetaRight(c) BY <2>2, <1>2 DEF MetaIInv
    <3> QED BY <3>1, <2>3, <2>4, <2>13 DEF MetaRight, Trawled
  <2>15. /\ Len(p) = Cardinality(Properties(defined))
         /\ \A i \in Properties(defined) : p[CountTo(Properties(defined), i)] = defined[i]
    <3>1. KeptInOrder(m, d) BY <2>7, <2>8, <2>12, PropertiesAreInSequence
    <3> QED BY <3>1, <2>7, <2>13 DEF KeptInOrder
  <2> QED BY <2>14, <2>15
<1> QED BY <1>1, <1>2, MetaInitial, PTL DEF MetaSpec
=============================================================================
