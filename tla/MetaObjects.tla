---------------------------- MODULE MetaObjects -----------------------------
(***************************************************************************)
(* The meta-objects that are made for Python classes that extend QObject,  *)
(* and the calls that Qt makes by their indexes (qpycore_types.cpp,        *)
(* qpycore_qobject_helpers.cpp, qpycore_pyqtproperty.cpp, qpycore_enums    *)
(* _flags.cpp, qpycore_classinfo.cpp, qpycore_decorators.cpp).             *)
(*                                                                         *)
(* Class 0 is a class of Qt.  The attributes of a Python class are in the  *)
(* order of their definition; those of its mixins, which do not extend     *)
(* QObject, follow.                                                        *)
(***************************************************************************)
EXTENDS Integers, FiniteSets, SequencesExt

CONSTANTS
    Attributes,     \* what a class may define: "signal", "overloaded", "slot", "property",
                    \* "setter", "enum", "renamed" or "badNotify"
    MixinBodies,    \* sequences of what mixins define
    MaxAttributes,  \* bound: attributes of a class
    MaxClasses,     \* bound: Python classes
    StaticMethods,  \* methods of the class of Qt
    StaticProperties

VARIABLES
    classes,    \* the Python classes
    sequence,   \* pyqtprop_sequence_nr
    enumsHash,  \* enums_hash: the decorated enums that no meta-object has yet
    infoHash,   \* class_info_hash: for each class the information, latest first
    qo          \* the dynamic meta-objects

AttributeKinds == {"signal", "overloaded", "slot", "property", "setter", "enum", "renamed", "badNotify"}

ASSUME MetaAssumption ==
    /\ Attributes \subseteq AttributeKinds /\ MixinBodies \subseteq Seq(AttributeKinds)
    /\ {MaxAttributes, MaxClasses, StaticMethods, StaticProperties} \subseteq Nat

metaVars == <<classes, sequence, enumsHash, infoHash, qo>>

-----------------------------------------------------------------------------
(* Properties of Python classes (qpycore_pyqtproperty.cpp).                *)

NewProperty(name, seq, notify) ==
    [kind |-> "property", name |-> name, seq |-> seq, get |-> TRUE, set |-> FALSE,
     reset |-> FALSE, notify |-> notify]

\* A copy with another function has the number of the first, and none is used up.
Clone(p, function) == [p EXCEPT ![function] = TRUE]

-----------------------------------------------------------------------------
(* The body of a class is executed.                                        *)

Properties(dict) == {i \in DOMAIN dict : dict[i].kind = "property"}

\* One more attribute of the class.  next is the next sequence number.  The
\* setter of a property has the property's name, and so takes its place.
Defined(state, what) ==
    LET dict == state.dict
        new == Len(dict) + 1
        last == IF Properties(dict) = {} THEN 0 ELSE Max(Properties(dict))
        setter == Clone(dict[last], "set")
        property(notify) == [dict |-> Append(dict, NewProperty(<<state.of, new>>, state.next, notify)),
                             next |-> state.next + 1, of |-> state.of]
        add(attr) == [state EXCEPT !.dict = Append(dict, attr)]
    IN  CASE what = "signal" -> add([kind |-> "signal", name |-> <<state.of, new>>, overloads |-> 1])
          [] what = "overloaded" -> add([kind |-> "signal", name |-> <<state.of, new>>,
                                         overloads |-> 2])
          [] what = "slot" -> add([kind |-> "slot", signature |-> "slot()"])
          [] what = "property" -> property(FALSE)
          [] what = "badNotify" -> property(TRUE)
          [] what = "setter" -> IF last = 0 THEN state
                                ELSE [state EXCEPT !.dict[last] = setter]
          [] what = "renamed" -> IF last = 0 THEN state
                                 ELSE add([setter EXCEPT !.name = <<state.of, new>>])
          [] what = "enum" -> add([kind |-> "enum", name |-> <<state.of, new>>])

\* The body after each of its statements.
Bodies(of, what, next) ==
    LET body[n \in 0..Len(what)] ==
          IF n = 0 THEN [dict |-> << >>, next |-> next, of |-> of] ELSE Defined(body[n - 1], what[n])
    IN  body

Body(of, what, next) == Bodies(of, what, next)[Len(what)]

Enums(dict) == {dict[i].name : i \in {j \in DOMAIN dict : dict[j].kind = "enum"}}

MetaInit ==
    /\ classes = << >> /\ qo = << >>
    /\ sequence = 0 /\ enumsHash = {} /\ infoHash = << >>

\* A mixin is defined before the class.  Its decorators and those of its enums
\* leave what they have been given in the hashes; the class is decorated twice,
\* from the lower one to the upper one.
DefineClass(base, what, mixin) ==
    LET c == Len(classes) + 1
        m == Body(<<"mixin", c>>, mixin, sequence)
        b == Body(<<"class", c>>, what, m.next)
    IN  /\ Len(classes) < MaxClasses /\ base < c
        /\ classes' = Append(classes, [base |-> base, dict |-> b.dict, mixin |-> m.dict])
        /\ sequence' = b.next
        /\ enumsHash' = enumsHash \cup Enums(b.dict) \cup Enums(m.dict)
        /\ infoHash' = Append(infoHash, <<"upper", "lower">>)
        /\ qo' = Append(qo, [built |-> FALSE])

-----------------------------------------------------------------------------
(* Meta-objects (qpycore_types.cpp).                                       *)

Trawled(c) == classes[c].dict \o classes[c].mixin

\* One attribute: all overloads of a signal, or a slot unless one of its signature
\* is there, as with mixins that are extended.
TrawlOne(found, c, a) ==
    IF a.kind = "signal"
      THEN [found EXCEPT !.signals = @ \o [o \in 1..a.overloads |->
                                            [is |-> "signal", name |-> a.name, overload |-> o]]]
    ELSE IF a.kind = "slot" /\ ~ \E i \in DOMAIN found.slots : found.slots[i].signature = a.signature
      THEN [found EXCEPT !.slots = Append(@, [is |-> "slot", class |-> c, signature |-> a.signature])]
    ELSE found

\* What is found up to each attribute.
TrawlType(c) ==
    LET trawl[n \in 0..Len(Trawled(c))] ==
          IF n = 0 THEN [signals |-> << >>, slots |-> << >>]
          ELSE TrawlOne(trawl[n - 1], c, Trawled(c)[n])
    IN  trawl

Signals(c) == TrawlType(c)[Len(Trawled(c))].signals
Slots(c) == TrawlType(c)[Len(Trawled(c))].slots

\* A fault: the properties are in the order they are found in.
PropertiesFound(dict) == SelectSeq(dict, LAMBDA a : a.kind = "property")

\* The properties by their sequence numbers; of two with the same number only
\* the last one that is found is there.
Numbers(dict) == {dict[i].seq : i \in Properties(dict)}
Latest(dict, n) == Max({i \in Properties(dict) : dict[i].seq = n})
NthNumber(dict, k) ==
    CHOOSE n \in Numbers(dict) : Cardinality({m \in Numbers(dict) : m <= n}) = k

PropertiesOf(dict) ==
    [k \in 1..Cardinality(Numbers(dict)) |-> dict[Latest(dict, NthNumber(dict, k))]]

\* A fault: the slots of a class come before its signals.
MethodsSlotsFirst(c) == Slots(c) \o Signals(c)

\* The order in which the builder is given methods.
Methods(c) == Signals(c) \o Slots(c)

Access(p) == [readable |-> p.get, writable |-> p.set, resettable |-> p.reset]

\* A notifying signal must be one of the class.
Builds(c) == ~ \E i \in Properties(Trawled(c)) : Trawled(c)[i].notify

\* The base has its meta-object first, unless it cannot be built.
BaseFirst(base) == base # 0 => qo[base].built \/ ~ Builds(base)

Build(c, super) ==
    [built |-> TRUE, super |-> super, signals |-> Len(Signals(c)), slots |-> Slots(c),
     methods |-> Methods(c), pprops |-> PropertiesOf(Trawled(c)),
     access |-> [i \in DOMAIN PropertiesOf(Trawled(c)) |-> Access(PropertiesOf(Trawled(c))[i])],
     enums |-> SelectSeq(Trawled(c), LAMBDA a : a.kind = "enum" /\ a.name \in enumsHash),
     infos |-> infoHash[c]]

\* The first time that the meta-object of a class is needed it is built, that
\* of its base first.  A failure leaves the enums without one and the next time
\* it is tried again; the static meta-object is used then.
GetDynamicMetaobject(c) ==
    LET base == classes[c].base
    IN  /\ ~ qo[c].built
        /\ BaseFirst(base)
        /\ enumsHash' = enumsHash \ Enums(Trawled(c))
        /\ IF Builds(c)
             THEN /\ qo' = [qo EXCEPT ![c] = Build(c, IF base # 0 /\ qo[base].built THEN base ELSE 0)]
                  /\ infoHash' = [infoHash EXCEPT ![c] = << >>]
             ELSE UNCHANGED <<qo, infoHash>>
        /\ UNCHANGED <<classes, sequence>>

MetaNext ==
    \/ \E base \in 0..MaxClasses, what \in SeqOf(Attributes, MaxAttributes), mixin \in MixinBodies :
         DefineClass(base, what, mixin)
    \/ \E c \in DOMAIN classes : GetDynamicMetaobject(c)

MetaSpec == MetaInit /\ [][MetaNext]_metaVars

-----------------------------------------------------------------------------
(* Calls by index (qpycore_qobject_helpers.cpp).                           *)

\* How many of the numbers of a call a class takes.
Count(c, call) ==
    IF call = "method" THEN qo[c].signals + Len(qo[c].slots) ELSE Len(qo[c].pprops)

\* What a class does with a number that is its own.
Handled(c, call, id) ==
    IF call = "property" THEN <<"property", qo[c].pprops[id + 1].name>>
    ELSE IF id < qo[c].signals THEN <<"activate", c, id>>
    ELSE <<"invoke", qo[c].slots[id - qo[c].signals + 1]>>

\* qt_metacall_worker(): each class takes off what its base has left.
Worker(state, c, call) ==
    IF state.id < 0 THEN state
    ELSE [id |-> state.id - Count(c, call),
          does |-> IF state.id < Count(c, call) THEN Append(state.does, Handled(c, call, state.id))
                   ELSE state.does]

Statics(call) == IF call = "method" THEN StaticMethods ELSE StaticProperties

\* What is left and done in each class: a class lets its base go first, down from
\* the class of Qt.
Worked(call, id) ==
    LET worked[c \in 0..Len(classes)] ==
          IF c = 0 THEN [id |-> id - Statics(call), does |-> << >>]
          ELSE Worker(worked[classes[c].base], c, call)
    IN  worked

\* A call of Qt.
Metacall(c, call, id) == Worked(call, id)[c]

-----------------------------------------------------------------------------
(* Properties.                                                             *)

\* The entries of a meta-object, and how many it has with all of its super classes,
\* which Qt counts first.
Entries(c, call) == IF call = "method" THEN qo[c].methods ELSE qo[c].pprops
EntriesTo(call) ==
    LET counted[c \in 0..Len(classes)] ==
          IF c = 0 THEN 0
          ELSE IF qo[c].built THEN counted[qo[c].super] + Len(Entries(c, call)) ELSE 0
    IN  counted

\* A class and those that its meta-object has as super classes.
Ancestors ==
    LET above[c \in 0..Len(classes)] ==
          IF c = 0 THEN {} ELSE IF qo[c].built THEN {c} \cup above[qo[c].super] ELSE {}
    IN  above

\* What is to be done according to an entry.
Says(c, call, j) ==
    LET entry == Entries(c, call)[j]
    IN  IF call = "property" THEN <<"property", entry.name>>
        ELSE IF entry.is = "slot" THEN <<"invoke", entry>>
        ELSE <<"activate", c, j - 1>>

\* What Qt means by a number, according to the meta-object, is what the call
\* does: one thing, in the class that it belongs to, however many classes are
\* above it; and nothing beyond the last number (types.cpp 147-190 and 284-286
\* against qobject_helpers.cpp 72-199).
DispatchMatchesMeta ==
    \A c \in DOMAIN classes, call \in {"method", "property"} : qo[c].built =>
      /\ \A k \in Ancestors[c] : \A j \in DOMAIN Entries(k, call) :
           LET id == Statics(call) + EntriesTo(call)[qo[k].super] + j - 1
           IN  Metacall(c, call, id).does = <<Says(k, call, j)>>
      /\ Metacall(c, call, Statics(call) + EntriesTo(call)[c]) = [id |-> 0, does |-> << >>]

\* Every property that a class or a mixin has is in the meta-object, and in the
\* order of their definition ("this ensures that properties appear in the
\* QMetaObject in the same order that they are defined in Python",
\* pyqtproperty.cpp 144-146), whichever functions were added later.
PropertiesInOrder ==
    \A c \in DOMAIN classes : qo[c].built =>
      LET defined == classes[c].mixin \o classes[c].dict
          properties == Properties(defined)
          nth(i) == Cardinality({j \in properties : j <= i})
      IN  /\ Len(qo[c].pprops) = Cardinality(properties)
          /\ \A i \in properties : qo[c].pprops[nth(i)] = defined[i]

\* The super class of a meta-object is the base of the class, and has one itself, so
\* a call finds one in each class of a chain (types.cpp 86-90, qobject_helpers.cpp
\* 88-95).
ChainIsBuilt ==
    \A c \in DOMAIN classes : qo[c].built =>
      LET base == classes[c].base IN qo[c].super = base /\ (base # 0 => qo[base].built)

\* Numbers mean the same to Qt and to PyQt in every class of a chain.
DispatchAgrees == ChainIsBuilt /\ DispatchMatchesMeta
=============================================================================
