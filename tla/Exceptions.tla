----------------------------- MODULE Exceptions -----------------------------
(***************************************************************************)
(* Exceptions that leave Python code which Qt has called, and the wrappers *)
(* of Python objects that Qt copies (pyqt6_err_print() of qpycore_public   *)
(* _api.cpp; qpycore_pyqtpyobject.cpp).                                    *)
(*                                                                         *)
(* A thread has a stack of the calls of err_print that it is in: while an  *)
(* exception is printed Python runs, other threads run too, and what runs  *)
(* may call a slot that raises the next one.  Between two steps of a       *)
(* thread the interpreter may be released.                                 *)
(***************************************************************************)
EXTENDS Integers, FiniteSets, Sequences

CONSTANTS
    PyThreads,
    MaxExceptions,  \* bound: exceptions that are raised
    Holders,        \* variables, members and QVariants that hold a Python object
    PyObjs,         \* Python objects
    Nothing,        \* no Python object
    MaxRefs,        \* bound: references to an object
    MaxStream       \* bound: objects in a stream

ASSUME HoldersAssumption == IsFiniteSet(Holders) /\ Nothing \notin PyObjs

VARIABLES
    raised,     \* number of exceptions so far
    recursing,
    hook,       \* the application has a hook of its own
    stack,      \* for each thread the calls of err_print: [exc, old, pc]
    stderr,     \* sys.stderr: 0 or the exception whose text it takes
    printed,    \* exceptions that were passed to qFatal() or to the hook
    dropped,    \* those that were not
    holds, refs, stream,
    initialized \* Python has not gone yet

excVars == <<raised, recursing, hook, stack, stderr, printed, dropped>>
refVars == <<holds, refs, stream, initialized>>

ExcInit ==
    /\ raised = 0 /\ recursing = FALSE /\ hook \in BOOLEAN
    /\ stack = [t \in PyThreads |-> << >>] /\ stderr = 0
    /\ printed = {} /\ dropped = {}

Top(t) == stack[t][Len(stack[t])]
Pop(t) == [stack EXCEPT ![t] = SubSeq(@, 1, Len(@) - 1)]

\* A fault: the flag is not looked at.
ReportsAll == TRUE

Reports == ~ recursing

\* A slot raises an exception: in a thread that runs, while another exception is
\* printed, or in a handler of the message that qFatal() gives.  Nothing is done
\* while an exception is being reported.
Raise(t) ==
    /\ raised < MaxExceptions
    /\ stack[t] # << >> /\ hook => Top(t).pc = "print"
    /\ raised' = raised + 1
    /\ IF Reports
         THEN /\ recursing' = TRUE
              /\ stack' = [stack EXCEPT ![t] = Append(@, [exc |-> raised + 1, old |-> stderr, pc |-> "print"])]
              /\ stderr' = IF hook THEN stderr ELSE raised + 1
              /\ UNCHANGED dropped
         ELSE /\ dropped' = dropped \cup {raised + 1}
              /\ UNCHANGED <<recursing, stack, stderr>>
    /\ UNCHANGED <<hook, printed>>

\* PyErr_Print() has returned: sys.stderr is restored and the text passed on.
\* qFatal() may return, if there is a handler of messages.
Report(t) ==
    /\ stack[t] # << >> /\ Top(t).pc = "print"
    /\ printed' = printed \cup {Top(t).exc}
    /\ IF hook THEN UNCHANGED stderr ELSE stderr' = Top(t).old
    /\ stack' = [stack EXCEPT ![t][Len(stack[t])].pc = "fatal"]
    /\ UNCHANGED <<raised, recursing, hook, dropped>>

\* A fault: the flag is not reset if the hook is the application's.
RecursingAfterHook == hook

RecursingAfter == FALSE

Return(t) ==
    /\ stack[t] # << >> /\ Top(t).pc = "fatal"
    /\ stack' = Pop(t)
    /\ recursing' = RecursingAfter
    /\ UNCHANGED <<raised, hook, stderr, printed, dropped>>

ExcNext == \E t \in PyThreads : Raise(t) \/ Report(t) \/ Return(t)

\* A thread goes on with what it reports; that a slot raises is up to the
\* application.
ExcFairness == \A t \in PyThreads : WF_excVars(Report(t)) /\ WF_excVars(Return(t))

-----------------------------------------------------------------------------
(* PyQt_PyObject.                                                          *)

RefInit ==
    /\ holds = [h \in Holders |-> Nothing]
    /\ refs = [o \in PyObjs |-> 1]
    /\ stream = << >>
    /\ initialized = TRUE

More(o) == IF o = Nothing THEN refs ELSE [refs EXCEPT ![o] = @ + 1]
Less(o) == IF o = Nothing THEN refs ELSE [refs EXCEPT ![o] = @ - 1]
MayHave(o) == o \in PyObjs => refs[o] < MaxRefs
Alive(o) == o \in PyObjs => refs[o] > 0

\* A Python object is wrapped, or a wrapper is copied or assigned.  An
\* assignment keeps the reference to what the wrapper had (81-90).
WrapObject(h, o) ==
    /\ initialized
    /\ holds[h] = Nothing /\ Alive(o) /\ MayHave(o)
    /\ holds' = [holds EXCEPT ![h] = o] /\ refs' = More(o)
    /\ UNCHANGED <<stream, initialized>>

CopyHolder(h, from) ==
    /\ initialized
    /\ MayHave(holds[from])
    /\ holds' = [holds EXCEPT ![h] = holds[from]] /\ refs' = More(holds[from])
    /\ UNCHANGED <<stream, initialized>>

\* "Qt can still be tidying up after Python has gone" (67): then the reference
\* is not given up.
DestroyHolder(h) ==
    /\ holds' = [holds EXCEPT ![h] = Nothing]
    /\ refs' = IF initialized THEN Less(holds[h]) ELSE refs
    /\ UNCHANGED <<stream, initialized>>

\* Python is finalized, and nothing but destructors runs.
PythonGoes ==
    /\ initialized /\ initialized' = FALSE
    /\ UNCHANGED <<holds, refs, stream>>

\* The application drops its reference.
Forget(o) ==
    /\ initialized
    /\ refs[o] > Cardinality({h \in Holders : holds[h] = o})
    /\ refs' = Less(o)
    /\ UNCHANGED <<holds, stream, initialized>>

\* operator<<: the object is pickled; no bytes are written if it cannot be.
Serialise(h, works) ==
    /\ initialized
    /\ Len(stream) < MaxStream
    /\ stream' = Append(stream, IF works THEN holds[h] ELSE Nothing)
    /\ UNCHANGED <<holds, refs, initialized>>

\* operator>>: a new object is made of the bytes, if there are any and if it
\* works, and what the wrapper had keeps its reference.  The copy stands for the
\* original here.
Deserialise(h, works) ==
    /\ initialized
    /\ stream # << >>
    /\ MayHave(Head(stream))
    /\ IF Head(stream) = Nothing THEN UNCHANGED <<holds, refs>>
       ELSE /\ holds' = [holds EXCEPT ![h] = IF works THEN Head(stream) ELSE Nothing]
            /\ refs' = IF works THEN More(Head(stream)) ELSE refs
    /\ stream' = Tail(stream)
    /\ UNCHANGED initialized

RefNext ==
    \/ \E h \in Holders, o \in PyObjs : WrapObject(h, o)
    \/ \E h, from \in Holders : CopyHolder(h, from)
    \/ \E h \in Holders : DestroyHolder(h)
    \/ \E h \in Holders, works \in BOOLEAN : Serialise(h, works) \/ Deserialise(h, works)
    \/ \E o \in PyObjs : Forget(o)
    \/ PythonGoes

-----------------------------------------------------------------------------
(* Properties.                                                             *)

\* sys.stderr is the application's whenever no exception is being reported, and
\* the text of an exception never goes to the one of another (public_api.cpp
\* 118-190).
StderrRestored ==
    /\ (\A t \in PyThreads : stack[t] = << >>) => stderr = 0
    /\ \A t \in PyThreads : stack[t] # << >> /\ Top(t).pc = "print" /\ ~ hook => stderr = Top(t).exc

\* "A replacement for PyErr_Print() that passes the exception to qFatal()"
\* (public_api.cpp 83): one that is raised while another is reported is not
\* reported at all.
EveryExceptionReported == dropped = {}

\* Once no more exceptions are raised, every one that is being reported has been,
\* and the next can be (84-231).
ReportingEnds == []<>(~ recursing)

\* An object has a reference for each wrapper that holds it: none is given up
\* twice, or before its wrapper is destroyed (pyqtpyobject.cpp 33-90).
HeldIsAlive ==
    \A o \in PyObjs : refs[o] >= Cardinality({h \in Holders : holds[h] = o})

\* Reporting and copying leave sys.stderr and the objects as the application
\* expects them.
ReportsKeepState == StderrRestored /\ HeldIsAlive

-----------------------------------------------------------------------------
(* What the proofs of CoreProofs need besides.                             *)

ExcSpec == ExcInit /\ [][ExcNext]_excVars
RefSpec == RefInit /\ [][RefNext]_refVars

\* An exception is reported by one thread, which has one report on its stack,
\* and sys.stderr has been the application's before.
ReportsAlone ==
    /\ raised \in Nat /\ recursing \in BOOLEAN /\ hook \in BOOLEAN
    /\ stack \in [PyThreads -> Seq([exc : Nat, old : {0}, pc : {"print", "fatal"}])]
    /\ \A t \in PyThreads : stack[t] # << >> => recursing /\ Len(stack[t]) = 1
    /\ \A t, u \in PyThreads : stack[t] # << >> /\ stack[u] # << >> => t = u

\* sys.stderr takes a text from the beginning of a report to its end.
StderrTaken ==
    /\ \A t \in PyThreads : stack[t] # << >> /\ Top(t).pc = "print" /\ ~ hook => stderr = Top(t).exc
    /\ (\A t \in PyThreads : stack[t] = << >> \/ Top(t).pc # "print" \/ hook) => stderr = 0

RefTypeOK ==
    /\ holds \in [Holders -> PyObjs \cup {Nothing}]
    /\ refs \in [PyObjs -> Int]
    /\ stream \in Seq(PyObjs \cup {Nothing})
=============================================================================
