----------------------------- MODULE QmlProxies -----------------------------
(***************************************************************************)
(* Python types in QML (qpyqml_register_type.cpp, qpyqmlobject.cpp and, by  *)
(* the same code, qpyqmlmodel.cpp and qpyqmlvalidator.cpp).  QML creates a  *)
(* proxy, which creates the Python object and stands for it: it delegates   *)
(* calls to the object and relays the object's signals to QML.              *)
(*                                                                         *)
(* A QObject is an address.  An address is used again when its object has   *)
(* been destroyed.                                                          *)
(***************************************************************************)
EXTENDS Naturals, Sequences, FiniteSets

CONSTANTS
    QObjects,       \* addresses of QObjects
    NoQObject,      \* the null pointer
    PyQmlTypes,     \* Python types: "V" is a validator, "M" a model
    NrOfTypes,      \* Python types of a kind that can be registered
    MaxRegistrations, \* bound: calls of qmlRegisterType()
    QmlSignals,     \* the signals of a Python object
    MaxListeners,   \* bound: connections that QML makes to a signal
    ParserStatusTypes \* Python types that implement QQmlParserStatus

ASSUME QmlAssumption ==
    /\ NoQObject \notin QObjects
    /\ NrOfTypes \in Nat /\ MaxListeners \in Nat

VARIABLES
    pyqtTypes,      \* [kind -> the Python types, by number], pyqt_types
    registered,     \* what QML knows: kinds, numbers and the types meant
    qobject,        \* [address -> what is there]
    proxies,        \* [kind -> addresses], the set of proxies in existence
    proxied,        \* [proxy -> the Python object or NoQObject], a QPointer
    making,         \* [proxy -> the Python object whose __init__() runs]
    maker,          \* [Python object -> the proxy that created it], for the properties
    madeOf,         \* [Python object -> <<type QML asked for, its type>>], for the properties
    deferred,       \* Python objects with a DeferredDelete event
    relays,         \* [proxy, signal -> connections from the Python object]
    listeners,      \* [proxy, signal -> connections made by QML]
    parsed,         \* [proxy -> how far QML is with it]
    told            \* [Python object -> the last call of QQmlParserStatus it has got]

qmlVars == <<pyqtTypes, registered, qobject, proxies, proxied, making, maker, madeOf, deferred,
             relays, listeners, parsed, told>>

\* There is a class of proxies for models, one for validators and one for any
\* other QObject.
Kinds == {"object", "model", "validator"}
KindOf(t) ==
    CASE t = "V" -> "validator"
      [] t = "M" -> "model"
      [] OTHER -> "object"

ParserStages == {"new", "classBegin", "setTarget", "componentComplete"}
Unconnected == [s \in QmlSignals |-> 0]
IsProxy(a) == qobject[a] \in Kinds

-----------------------------------------------------------------------------

QmlInit ==
    /\ pyqtTypes = [k \in Kinds |-> << >>]
    /\ registered = {}
    /\ qobject = [a \in QObjects |-> "none"]
    /\ proxies = [k \in Kinds |-> {}]
    /\ proxied = [a \in QObjects |-> NoQObject]
    /\ making = [a \in QObjects |-> NoQObject]
    /\ maker = [a \in QObjects |-> NoQObject]
    /\ madeOf = [a \in QObjects |-> << >>]
    /\ deferred = {}
    /\ relays = [a \in QObjects |-> Unconnected]
    /\ listeners = [a \in QObjects |-> Unconnected]
    /\ parsed = [a \in QObjects |-> "new"]
    /\ told = [p \in QObjects |-> "new"]

\* addType(): the next number.
TypeNr(kind) == Len(pyqtTypes[kind]) + 1

\* qmlRegisterType(): the number is used up even if there is no class for it,
\* or if QML does not accept the type.
RegisterType(t, accepted) ==
    LET kind == KindOf(t)
    IN  /\ Len(pyqtTypes["object"]) + Len(pyqtTypes["model"]) + Len(pyqtTypes["validator"])
             < MaxRegistrations
        /\ pyqtTypes' = [pyqtTypes EXCEPT ![kind] = Append(@, t)]
        /\ registered' = IF TypeNr(kind) <= NrOfTypes /\ accepted
                           THEN registered \cup {<<kind, TypeNr(kind), t>>} ELSE registered
        /\ UNCHANGED <<qobject, proxies, proxied, making, maker, madeOf, deferred, relays,
                       listeners, parsed, told>>

\* The constructor of a proxy enters it and calls the Python type, which creates
\* the Python object and runs its __init__().
NewQmlProxy(a, p, r) ==
    /\ a # p /\ qobject[a] = "none" /\ qobject[p] = "none"
    /\ qobject' = [qobject EXCEPT ![a] = r[1], ![p] = "python"]
    /\ proxies' = [proxies EXCEPT ![r[1]] = @ \cup {a}]
    /\ making' = [making EXCEPT ![a] = p]
    /\ maker' = [maker EXCEPT ![p] = a]
    /\ madeOf' = [madeOf EXCEPT ![p] = <<r[3], pyqtTypes[r[1]][r[2]]>>]
    /\ UNCHANGED <<pyqtTypes, registered, proxied, deferred, relays, listeners, parsed, told>>

\* The Python object has been created.
PyObjectCreated(a) ==
    /\ making[a] # NoQObject
    /\ proxied' = [proxied EXCEPT ![a] = making[a]]
    /\ making' = [making EXCEPT ![a] = NoQObject]
    /\ UNCHANGED <<pyqtTypes, registered, qobject, proxies, maker, madeOf, deferred, relays,
                   listeners, parsed, told>>

\* An exception: it is reported, the object goes and the proxy stands for nothing.
PyObjectFails(a) ==
    /\ making[a] # NoQObject
    /\ qobject' = [qobject EXCEPT ![making[a]] = "none"]
    /\ maker' = [maker EXCEPT ![making[a]] = NoQObject]
    /\ madeOf' = [madeOf EXCEPT ![making[a]] = << >>]
    /\ making' = [making EXCEPT ![a] = NoQObject]
    /\ UNCHANGED <<pyqtTypes, registered, proxies, proxied, deferred, relays, listeners,
                   parsed, told>>

\* A fault: the proxy is not taken out of its set.
Removed(a) == proxies
Remaining(a) == [k \in Kinds |-> proxies[k] \ {a}]

\* What is deleted with a proxy: the Python object of a validator at once, any
\* other by the event loop ("Deleting it now can cause a crash").
DeletedNow(a) == IF qobject[a] = "validator" THEN {proxied[a]} ELSE {}
DeletedLater(a) == IF qobject[a] = "validator" THEN {} ELSE {proxied[a]} \ {NoQObject}

\* ~QPyQmlObjectProxy(): QML destroys a proxy.
DestroyQmlProxy(a) ==
    LET now == DeletedNow(a)
        later == DeletedLater(a)
    IN  /\ IsProxy(a) /\ making[a] = NoQObject
        /\ qobject' = [b \in QObjects |-> IF b = a \/ b \in now THEN "none" ELSE qobject[b]]
        /\ proxies' = Remaining(a)
        /\ proxied' = [proxied EXCEPT ![a] = NoQObject]
        /\ maker' = [p \in QObjects |-> IF maker[p] = a THEN NoQObject ELSE maker[p]]
        /\ deferred' = (deferred \ now) \cup later
        /\ relays' = [relays EXCEPT ![a] = Unconnected]
        /\ listeners' = [listeners EXCEPT ![a] = Unconnected]
        /\ madeOf' = [p \in QObjects |-> IF p \in now THEN << >> ELSE madeOf[p]]
        /\ parsed' = [parsed EXCEPT ![a] = "new"]
        /\ told' = [p \in QObjects |-> IF p \in now THEN "new" ELSE told[p]]
        /\ UNCHANGED <<pyqtTypes, registered, making>>

\* A Python object is destroyed: Qt clears the pointers to it and disconnects it.
PyObjectDies(p) ==
    /\ qobject[p] = "python" /\ \A a \in QObjects : making[a] # p
    /\ qobject' = [qobject EXCEPT ![p] = "none"]
    /\ proxied' = [a \in QObjects |-> IF proxied[a] = p THEN NoQObject ELSE proxied[a]]
    /\ relays' = [a \in QObjects |-> IF proxied[a] = p THEN Unconnected ELSE relays[a]]
    /\ maker' = [maker EXCEPT ![p] = NoQObject]
    /\ madeOf' = [madeOf EXCEPT ![p] = << >>]
    /\ deferred' = deferred \ {p}
    /\ told' = [told EXCEPT ![p] = "new"]
    /\ UNCHANGED <<pyqtTypes, registered, proxies, making, listeners, parsed>>

\* By sip.delete() or its parent, or by the event loop.
DeletePyObject(p) == PyObjectDies(p)
DeferredDeletePyObject(p) == p \in deferred /\ PyObjectDies(p)

\* Any other QObject.
NewQObject(a) ==
    /\ qobject[a] = "none"
    /\ qobject' = [qobject EXCEPT ![a] = "plain"]
    /\ UNCHANGED <<pyqtTypes, registered, proxies, proxied, making, maker, madeOf, deferred,
                   relays,
                   listeners, parsed, told>>

DeleteQObject(a) ==
    /\ qobject[a] = "plain"
    /\ qobject' = [qobject EXCEPT ![a] = "none"]
    /\ UNCHANGED <<pyqtTypes, registered, proxies, proxied, making, maker, madeOf, deferred,
                   relays,
                   listeners, parsed, told>>

\* connectNotify(): the first connection of QML connects the Python object, once
\* for all views; there is no disconnectNotify().
RelaysAfter(a, s) ==
    IF proxied[a] = NoQObject THEN relays ELSE [relays EXCEPT ![a][s] = 1]

QmlConnects(a, s) ==
    /\ IsProxy(a) /\ making[a] = NoQObject /\ listeners[a][s] < MaxListeners
    /\ listeners' = [listeners EXCEPT ![a][s] = @ + 1]
    /\ relays' = RelaysAfter(a, s)
    /\ UNCHANGED <<pyqtTypes, registered, qobject, proxies, proxied, making, maker, madeOf,
                   deferred, parsed, told>>

QmlDisconnects(a, s) ==
    /\ listeners[a][s] > 0
    /\ listeners' = [listeners EXCEPT ![a][s] = @ - 1]
    /\ UNCHANGED <<pyqtTypes, registered, qobject, proxies, proxied, making, maker, madeOf,
                   deferred, relays, parsed, told>>

\* The engine goes through the QML of a proxy.  The Python object gets the calls of
\* QQmlParserStatus and QQmlPropertyValueSource, if there is one; what they raise,
\* or return instead of None, is reported and changes nothing here.
ParserCall(a, from, call) ==
    /\ IsProxy(a) /\ making[a] = NoQObject /\ parsed[a] \in from
    /\ proxied[a] # NoQObject => madeOf[proxied[a]][2] \in ParserStatusTypes
    /\ parsed' = [parsed EXCEPT ![a] = call]
    /\ told' = IF proxied[a] = NoQObject THEN told ELSE [told EXCEPT ![proxied[a]] = call]
    /\ UNCHANGED <<pyqtTypes, registered, qobject, proxies, proxied, making, maker, madeOf,
                   deferred, relays, listeners>>

ClassBegin(a) == ParserCall(a, {"new"}, "classBegin")
SetTarget(a) == ParserCall(a, {"classBegin"}, "setTarget")
ComponentComplete(a) == ParserCall(a, {"classBegin", "setTarget"}, "componentComplete")

QmlNext ==
    \/ \E t \in PyQmlTypes, accepted \in BOOLEAN : RegisterType(t, accepted)
    \/ \E a, p \in QObjects, r \in registered : NewQmlProxy(a, p, r)
    \/ \E a \in QObjects :
         \/ PyObjectCreated(a) \/ PyObjectFails(a) \/ DestroyQmlProxy(a)
         \/ DeletePyObject(a) \/ DeferredDeletePyObject(a)
         \/ NewQObject(a) \/ DeleteQObject(a)
         \/ ClassBegin(a) \/ SetTarget(a) \/ ComponentComplete(a)
         \/ \E s \in QmlSignals : QmlConnects(a, s) \/ QmlDisconnects(a, s)

QmlSpec == QmlInit /\ [][QmlNext]_qmlVars

-----------------------------------------------------------------------------
(* What is asked of the proxies.                                           *)

\* resolveProxy(): only the resolver of the proxies of plain objects is
\* registered with sip.
Resolved(a) == IF a \in proxies["object"] THEN proxied[a] ELSE a

\* qpyqml_find_proxy_for(): any proxy that stands for the object.
FoundFor(p) == {a \in UNION {proxies[k] : k \in Kinds} : proxied[a] = p}

\* qt_metacall() with a signal of the Python object: how often a listener of the
\* proxy is called when the Python object emits it.
Relayed(p, a, s) == IF a \in FoundFor(p) THEN relays[a][s] ELSE 0

\* Virtual methods of models and validators that say whether something was done,
\* may be done or is right: without a Python object, none of it.
Refusing == {"hasChildren", "setData", "setHeaderData", "setItemData", "canDropMimeData",
             "dropMimeData", "insertRows", "insertColumns", "removeRows", "removeColumns",
             "moveRows", "moveColumns", "canFetchMore", "validate"}
DefaultAnswer(virtual) == IF virtual \in Refusing THEN "no" ELSE "nothing"

\* Any other answer is that of the Python object.
AnswerOf(a, virtual) == IF proxied[a] = NoQObject THEN DefaultAnswer(virtual) ELSE proxied[a]

-----------------------------------------------------------------------------
(* Properties.                                                             *)

QmlTypeOK ==
    /\ pyqtTypes \in [Kinds -> Seq(PyQmlTypes)]
    /\ registered \subseteq Kinds \X (Nat \ {0}) \X PyQmlTypes
    /\ qobject \in [QObjects -> {"none", "plain", "python"} \cup Kinds]
    /\ proxies \in [Kinds -> SUBSET QObjects]
    /\ proxied \in [QObjects -> QObjects \cup {NoQObject}]
    /\ making \in [QObjects -> QObjects \cup {NoQObject}]
    /\ maker \in [QObjects -> QObjects \cup {NoQObject}]
    /\ madeOf \in [QObjects -> {<< >>} \cup (PyQmlTypes \X PyQmlTypes)]
    /\ deferred \subseteq QObjects
    /\ relays \in [QObjects -> [QmlSignals -> Nat]]
    /\ listeners \in [QObjects -> [QmlSignals -> Nat]]
    /\ parsed \in [QObjects -> ParserStages]
    /\ told \in [QObjects -> ParserStages]

\* The sets have the proxies that are there, and no address at which there is
\* something else by now ("the set of proxies in existence", qpyqmlobject.h 61).
ProxiesExist == \A k \in Kinds : proxies[k] = {a \in QObjects : qobject[a] = k}

\* A proxy and its Python object stand for each other until one of them goes.
ProxiedIsMade ==
    \A a \in QObjects : proxied[a] # NoQObject =>
      IsProxy(a) /\ making[a] = NoQObject /\ qobject[proxied[a]] = "python" /\ maker[proxied[a]] = a

MakingIsMade ==
    \A a \in QObjects : making[a] # NoQObject =>
      IsProxy(a) /\ proxied[a] = NoQObject /\ qobject[making[a]] = "python" /\ maker[making[a]] = a

MakerKnows ==
    \A p \in QObjects : maker[p] # NoQObject =>
      qobject[p] = "python" /\ (proxied[maker[p]] = p \/ making[maker[p]] = p)

ProxyAndProxied == ProxiedIsMade /\ MakingIsMade /\ MakerKnows

\* A QObject that is given to Python from QML is the Python object itself, if it
\* is a proxy of one, and the proxy that is found for an object is the one that
\* created it (register_type.cpp 452-494, qpyqmlobject.cpp 168-180).
PythonSees ==
    /\ \A a \in QObjects : qobject[a] \in {"plain", "python"} => Resolved(a) = a
    /\ \A p \in QObjects : qobject[p] = "python" =>
         FoundFor(p) = IF \E a \in QObjects : making[a] = p THEN {} ELSE {maker[p]} \ {NoQObject}
    /\ \A p \in QObjects : maker[p] # NoQObject /\ qobject[maker[p]] = "object" =>
         Resolved(maker[p]) \in {p, NoQObject}

\* Every listener hears a signal of the Python object once, however often and
\* from how many views QML has connected ("Use Qt::UniqueConnection in case the
\* object (ie. model) is used in more than one view", qpyqmlobject.cpp 78-80).
HeardOnce ==
    \A p, a \in QObjects, s \in QmlSignals :
      a \in FoundFor(p) /\ listeners[a][s] > 0 => Relayed(p, a, s) = 1

\* A number stands for the type that was registered with it, after failures too,
\* and the object that QML gets is of that type.
TypeAsked ==
    /\ \A r \in registered :
         r[2] <= NrOfTypes /\ r[2] <= Len(pyqtTypes[r[1]]) /\ pyqtTypes[r[1]][r[2]] = r[3]
    /\ \A p \in QObjects : madeOf[p] # << >> => madeOf[p][1] = madeOf[p][2]

\* The Python object has got every call that the proxy has got, and no other object
\* has ("Invoked when a class parse begins", qpyqmlobject.cpp 216).
CallsArrive == \A a \in QObjects : proxied[a] # NoQObject => told[proxied[a]] = parsed[a]

\* An answer is that of an object that is there and was made for the proxy; if
\* there is none nothing is done (qpyqmlmodel.cpp 451-705, qpyqmlvalidator.cpp
\* 392-407).
AnswersTrue ==
    \A a \in QObjects :
      /\ \A v \in Refusing : AnswerOf(a, v) # "no" =>
           qobject[AnswerOf(a, v)] = "python" /\ maker[AnswerOf(a, v)] = a
      /\ ~ IsProxy(a) => \A v \in Refusing : AnswerOf(a, v) = "no"

QmlFaithful == PythonSees /\ HeardOnce /\ TypeAsked /\ CallsArrive /\ AnswersTrue

-----------------------------------------------------------------------------
(* The inductive invariant of QmlProofs.                                   *)

\* QML connects to proxies that are complete, and those are connected to their
\* Python objects once.
ListenersRelayed ==
    \A a \in QObjects, s \in QmlSignals : listeners[a][s] > 0 =>
      /\ IsProxy(a) /\ making[a] = NoQObject
      /\ proxied[a] # NoQObject => relays[a][s] = 1

\* What waits to be deleted is a Python object that no proxy stands for any more.
DeferredExist == \A p \in deferred : qobject[p] = "python" /\ maker[p] = NoQObject

\* A proxy whose Python object is still being made has got no call, and what is
\* made at an address starts anew.
ParsedAnew ==
    /\ \A a \in QObjects : ~ IsProxy(a) \/ making[a] # NoQObject => parsed[a] = "new"
    /\ \A a \in QObjects : making[a] # NoQObject => told[making[a]] = "new"
    /\ \A p \in QObjects : qobject[p] # "python" => told[p] = "new"

QmlIInv ==
    /\ QmlTypeOK /\ ProxiesExist /\ ProxyAndProxied /\ TypeAsked /\ ListenersRelayed
    /\ DeferredExist /\ CallsArrive /\ ParsedAnew

\* The comment's promise for every kind of proxy: "Resolve any proxy"
\* (qpyqmlobject.cpp 168, qpyqmlmodel.cpp 181, qpyqmlvalidator.cpp 172).
ResolvesAny ==
    \A a \in QObjects : IsProxy(a) => Resolved(a) = proxied[a]
=============================================================================
