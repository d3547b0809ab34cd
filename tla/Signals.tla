------------------------------ MODULE Signals -------------------------------
(***************************************************************************)
(* Signals and slots as Python sees them: how overloads are declared and   *)
(* found, what a slot is connected as, what is emitted, and how a callable *)
(* is called that takes fewer arguments than the signal has                *)
(* (qpycore_pyqtsignal.cpp, qpycore_pyqtboundsignal.cpp, qpycore_pyqtslot  *)
(* .cpp).  The proxies themselves are in SlotProxy.                        *)
(*                                                                         *)
(* A signature is the sequence of its types.  A signal is [name, args];    *)
(* "" is no name.  asked is what the application does, answer the outcome. *)
(***************************************************************************)
EXTENDS Integers, FiniteSets, SequencesExt, Dictionaries

CONSTANTS
    Types,      \* types of arguments
    BadType,    \* a type that cannot be parsed (a forward declaration)
    MaxArgs,    \* bound: arguments of a signal
    SignalNames,
    MaxTable    \* bound: overloads in a table or a declaration

ASSUME SignalsAssumption == MaxArgs \in Nat /\ MaxTable \in Nat /\ "none" \notin Types

VARIABLES asked, answer

sigVars == <<asked, answer>>

Signatures == SeqOf(Types, MaxArgs)
Parses(args) == BadType \notin Range(args)

-----------------------------------------------------------------------------
(* Overloads.  The first of a sequence of signals is the default.          *)

\* A fault: the signals of the last name are not saved.
SavedNotLast(attr) == [attr EXCEPT !.open = << >>]

\* The signals that are being collected are put into the dictionary.
Saved(attr) ==
    IF attr.open = << >> THEN attr
    ELSE [dict |-> Given(attr.dict, attr.open[1].name, attr.open), open |-> << >>]

\* The next signal of the class in the generated table.  One that cannot be
\* parsed (only if another class is not yet defined) is left out.
LazySignal(attr, sig) ==
    LET done == IF attr.open # << >> /\ attr.open[1].name # sig.name THEN Saved(attr) ELSE attr
    IN  IF Parses(sig.args) THEN [done EXCEPT !.open = Append(@, sig)] ELSE done

\* What has been collected after each signal of the table.
LazySignals(table) ==
    LET lazy[n \in 0..Len(table)] ==
          IF n = 0 THEN [dict |-> << >>, open |-> << >>] ELSE LazySignal(lazy[n - 1], table[n])
    IN  lazy

\* qpycore_get_lazy_attr(): the table has the overloads of a name together.
GetLazyAttr(table) == Saved(LazySignals(table)[Len(table)]).dict

\* pyqtSignal(): types, or sequences of types if the first is one.  Only the
\* default has the names of the parameters.
DeclareSignal(name, overloads, names) ==
    IF \E i \in DOMAIN overloads : ~ Parses(overloads[i])
      THEN [error |-> "TypeError", signals |-> << >>]
      ELSE [error |-> "",
            signals |-> [i \in DOMAIN overloads |->
                           [name |-> name, args |-> overloads[i],
                            names |-> IF i = 1 THEN names ELSE << >>]]]

\* The metaclass gives a signal the name of the attribute, unless it has one.
SetSignalName(signals, name) ==
    IF signals[1].name # "" THEN signals
    ELSE [i \in DOMAIN signals |-> [signals[i] EXCEPT !.name = name]]

\* The overload with the arguments of the subscript, 0 (KeyError) if none.  from
\* is the overload that it is asked of.
FindSignal(signals, from, args) == SelectInSeq(signals, LAMBDA s : s.args = args)

-----------------------------------------------------------------------------
(* Connecting.                                                             *)

Fits(args, signal) == Len(args) <= Len(signal) /\ SubSeq(signal, 1, Len(args)) = args

\* The first of the decorations that fit with the most arguments.
SlotFromDecorations(decorations, signal) ==
    LET fit == {i \in DOMAIN decorations : Fits(decorations[i], signal)}
        best == {i \in fit : \A j \in fit : Len(decorations[j]) <= Len(decorations[i])}
    IN  IF fit = {} THEN <<"none">> ELSE decorations[Min(best)]

\* The Qt slot of the same name that takes the most of the arguments.
QtSlot(slots, signal) ==
    LET from == {n \in 0..Len(signal) : SubSeq(signal, 1, n) \in slots}
    IN  IF from = {} THEN <<"none">> ELSE SubSeq(signal, 1, Max(from))

\* What a signal is connected to: itself a signal, a slot of a QObject or a
\* proxy, and the arguments that Qt passes to it.  A decorated method of an
\* object that is no QObject has a signature but no receiver.
ConnectTo(signal, slot) ==
    LET connected(to, args) == [error |-> "", to |-> to, args |-> args]
        failed(error) == [error |-> error, to |-> "none", args |-> << >>]
        proxy == connected("proxy", signal)
    IN  CASE slot.kind = "signal" ->
               IF Fits(slot.args, signal) THEN connected("signal", slot.args)
               ELSE failed("connect() failed")
          [] slot.kind = "not callable" -> failed("bad callable")
          [] slot.kind = "decorated" ->
               LET d == SlotFromDecorations(slot.decorations, signal)
               IN  IF d = <<"none">> THEN failed("no compatible signature")
                   ELSE IF ~ slot.qobject THEN failed("connect() failed")
                   ELSE connected("slot", d)
          [] slot.kind = "wrapped" ->
               LET s == QtSlot(slot.slots, signal)
               IN  IF ~ slot.qobject \/ s = <<"none">> THEN proxy ELSE connected("slot", s)
          [] OTHER -> proxy

-----------------------------------------------------------------------------
(* Emitting.                                                               *)

\* A value has the type it can be converted to.  The storage of those that were
\* converted is freed in any case.
Emit(emission) ==
    LET nothing(error) == [error |-> error, passed |-> << >>, activated |-> FALSE]
        values == emission.values
        signal == emission.signal
    IN  CASE emission.blocked -> nothing("")
          [] ~ emission.blocked /\ ~ emission.known -> nothing("AttributeError")
          [] ~ emission.blocked /\ emission.known /\ values # signal -> nothing("TypeError")
          [] OTHER -> [error |-> "", passed |-> values, activated |-> TRUE]

-----------------------------------------------------------------------------
(* Calling a slot.  A callable takes some numbers of arguments; inside says *)
(* what happens once it has been entered.                                  *)

\* An attempt with n arguments.  An exception that is raised by a Python
\* function has a traceback, one about its arguments has none.
Attempt(callable, n) ==
    IF n \notin callable.accepts
      THEN [n |-> n, entered |-> FALSE, raised |-> "TypeError", traceback |-> FALSE]
      ELSE [n |-> n, entered |-> TRUE, raised |-> callable.inside,
            traceback |-> callable.inside # "" /\ callable.python]

\* A fault: every TypeError is taken for one about the arguments.
TryAgainAny(a) == a.raised = "TypeError" /\ a.n > 0

TryAgain(a) == a.raised = "TypeError" /\ ~ a.traceback /\ a.n > 0

\* PyQtSlot::call(): again and again with one argument less, up to the first
\* attempt after which it does not try again.
Attempts(callable, n) ==
    LET last == Max({k \in 0..n : ~ TryAgain(Attempt(callable, k))})
    IN  [i \in 1..(n - last + 1) |-> Attempt(callable, n - i + 1)]

\* The attempt whose exception is reported.
Reported(attempts) == IF Last(attempts).traceback THEN Last(attempts) ELSE Head(attempts)

\* PyQtSlot::invoke(): nothing is done for an object that has gone.
Invoke(callable, args) ==
    IF callable.gone THEN [result |-> "Ignored", attempts |-> << >>, error |-> <<"none">>]
    ELSE LET attempts == Attempts(callable, Len(args))
         IN  IF Last(attempts).raised = ""
               THEN [result |-> "Succeeded", attempts |-> attempts, error |-> <<"none">>]
               ELSE [result |-> "Failed", attempts |-> attempts,
                     error |-> <<Reported(attempts).n>>]

-----------------------------------------------------------------------------
(* What is tried.                                                          *)

Unchecked == SeqOf(Types \cup {BadType}, MaxArgs)

\* The generated tables have the overloads of a name together.
Together(table) ==
    \A i, j, k \in DOMAIN table : i <= j /\ j <= k /\ table[i].name = table[k].name =>
                                    table[j].name = table[i].name
Tables == {t \in SeqOf([name : SignalNames, args : Unchecked], MaxTable) : Together(t)}

Callables ==
    [accepts : SUBSET (0..MaxArgs), inside : {"", "TypeError", "ValueError"},
     python : BOOLEAN, gone : BOOLEAN]
Receivers ==
    [kind : {"signal"}, args : Signatures]
    \cup [kind : {"decorated"}, decorations : {d \in SeqOf(Signatures, 2) : d # << >>},
          qobject : BOOLEAN]
    \cup [kind : {"wrapped"}, slots : {s \in SUBSET Signatures : Cardinality(s) <= 2},
          qobject : BOOLEAN]
    \cup {[kind |-> "callable"], [kind |-> "not callable"]}

Asked ==
    \/ asked \in [what : {"table"}, table : Tables]
    \/ asked \in [what : {"declare"}, overloads : SeqOf(Unchecked, MaxTable) \ {<< >>},
                  name : {"", "given"}]
    \/ asked \in [what : {"connect"}, signal : Signatures, slot : Receivers, callable :
                    [accepts : SUBSET (0..MaxArgs), inside : {""}, python : {TRUE}, gone : {FALSE}]]
    \/ asked \in [what : {"emit"}, signal : Signatures, values : Signatures,
                  blocked : BOOLEAN, known : BOOLEAN]
    \/ asked \in [what : {"call"}, args : Signatures, callable : Callables]

SigInit == answer = [done |-> FALSE] /\ Asked

\* A class with a signal is declared; then its overloads are asked for from
\* each other.
Declared(a) ==
    LET d == DeclareSignal(a.name, a.overloads, <<"x">>)
    IN  IF d.error # "" THEN [error |-> d.error, signals |-> << >>, found |-> << >>]
        ELSE LET signals == SetSignalName(d.signals, "attribute")
             IN  [error |-> "", signals |-> signals,
                  found |-> [from \in DOMAIN signals |->
                               [i \in DOMAIN signals |->
                                  FindSignal(signals, from, signals[i].args)]]]

\* A signal is connected and emitted, and the callable is called with what Qt
\* passes on.
Delivered(a) ==
    LET c == ConnectTo(a.signal, a.slot)
    IN  IF c.error # "" \/ c.to = "signal" THEN [connection |-> c, call |-> <<"none">>]
        ELSE [connection |-> c, call |-> <<"made", Invoke(a.callable, c.args)>>]

SigNext ==
    /\ ~ answer.done
    /\ answer' = [done |-> TRUE, is |->
         CASE asked.what = "table" -> GetLazyAttr(asked.table)
           [] asked.what = "declare" -> Declared(asked)
           [] asked.what = "connect" -> Delivered(asked)
           [] asked.what = "emit" -> Emit(asked)
           [] asked.what = "call" -> Invoke(asked.callable, asked.args)]
    /\ UNCHANGED asked

SigSpec == SigInit /\ [][SigNext]_sigVars

-----------------------------------------------------------------------------
(* Properties.                                                             *)

\* The signals of a name that can be parsed among the first of a table.
OverloadsIn(table, name) ==
    LET kept[n \in 0..Len(table)] ==
          IF n = 0 THEN << >>
          ELSE IF table[n].name = name /\ Parses(table[n].args)
                 THEN Append(kept[n - 1], table[n]) ELSE kept[n - 1]
    IN  kept

\* Every signal of a class that can be parsed is there under its name, in the
\* order of the table, and nothing else is (qpycore_pyqtsignal.cpp 640-703).
LazyComplete ==
    asked.what = "table" /\ answer.done =>
      LET dict == answer.is
          of(name) == OverloadsIn(asked.table, name)[Len(asked.table)]
      IN  \A name \in SignalNames :
            IF of(name) = << >> THEN name \notin DOMAIN dict
            ELSE name \in DOMAIN dict /\ dict[name] = of(name)

\* Whichever overload is asked, every overload is found by its arguments; all
\* have a name, the one they were given or that of the attribute (470-545,
\* 590-615).
OverloadsFound ==
    asked.what = "declare" /\ answer.done /\ answer.is.error = "" =>
      LET signals == answer.is.signals
      IN  /\ \A i \in DOMAIN signals :
               signals[i].name = IF asked.name = "" THEN "attribute" ELSE asked.name
          /\ \A from, i \in DOMAIN signals :
               LET found == answer.is.found[from][i]
               IN  found # 0 /\ signals[found].args = asked.overloads[i]

\* How many arguments the best signature of a slot has, as it is connected.
MostArguments(signal, slot, to) ==
    CASE slot.kind = "decorated" ->
           Max({Len(d) : d \in {e \in Range(slot.decorations) : Fits(e, signal)}})
      [] slot.kind = "wrapped" /\ to = "slot" ->
           Max({Len(d) : d \in {e \in slot.slots : Fits(e, signal)}})
      [] OTHER -> Len(signal)

\* A callable that is not decorated gets, once, the first of the signal's
\* arguments, as many as it takes ("emulates the Qt ability of the slot to
\* accept fewer arguments than a signal provides", pyqtslot.cpp 228-231); a
\* decorated one gets at most what its decoration says, the longest that fits
\* (boundsignal.cpp 929-980).
PrefixDelivered ==
    asked.what = "connect" /\ answer.done /\ Len(answer.is.call) = 2 =>
      LET most == MostArguments(asked.signal, asked.slot, answer.is.connection.to)
          taken == {n \in 0..most : n \in asked.callable.accepts}
          call == answer.is.call[2]
      IN  IF taken = {} THEN call.result = "Failed"
          ELSE /\ call.result = "Succeeded"
               /\ Last(call.attempts).n = Max(taken)

\* A Python function is entered at most once for an emission, even if it raises
\* a TypeError itself; the error that is reported is its own, or else the one
\* for all the arguments (pyqtslot.cpp 233-323).
EnteredOnce ==
    asked.what = "call" /\ asked.callable.python /\ answer.done =>
      Cardinality({i \in DOMAIN answer.is.attempts : answer.is.attempts[i].entered}) <= 1

ErrorIsTheSlots ==
    asked.what = "call" /\ answer.done /\ answer.is.result = "Failed" =>
      LET attempts == answer.is.attempts
          entered == {i \in DOMAIN attempts : attempts[i].entered}
      IN  /\ entered = {} => answer.is.error = <<Len(asked.args)>>
          /\ asked.callable.python =>
               \A i \in entered : answer.is.error = <<attempts[i].n>>

\* No overload is lost or out of reach, whether it comes from the table of the
\* generated code or from pyqtSignal().
OverloadsKept == LazyComplete /\ OverloadsFound

\* An emission reaches a slot once, with the arguments that it takes, and if it
\* fails the error is the one that the slot is to blame for.
SlotCalledOnce == PrefixDelivered /\ EnteredOnce /\ ErrorIsTheSlots
=============================================================================
