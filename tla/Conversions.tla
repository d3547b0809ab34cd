---------------------------- MODULE Conversions -----------------------------
(***************************************************************************)
(* Conversions between Python objects, C++ values and QVariants            *)
(* (qpycore_chimera.cpp, qpycore_chimera_storage.cpp, qpycore_qvariant     *)
(* _value.cpp, qpycore_qvariant.cpp, qpycore_pyqtmethodproxy.cpp).         *)
(*                                                                         *)
(* A Python object is a pair of its type and what it is.  A name of a C++  *)
(* type is a pair of its base and whether it is a pointer.  A QVariant is a *)
(* pair of its type and its value.  A chimera is what a type has been      *)
(* parsed to.  Integers have few bits, in the order of their real widths.  *)
(***************************************************************************)
EXTENDS Integers, FiniteSets, SequencesExt

CONSTANTS
    ShortBits, IntBits, LongBits,   \* widths of the integers of C++
    MaxLength                       \* bound: characters of a list of arguments

VARIABLES given, converted

convVars == <<given, converted>>

Error == <<"error">>
Ok(v) == <<"ok", v>>
IsOk(r) == r[1] = "ok"

None == <<"None", 0>>

\* The classes that are wrapped: a QObject, one with a value that Qt knows, one
\* that cannot be copied and a Python class that extends it.
Wrapped == {"QWidget", "QPoint", "QItem", "PyItem"}
WrappedAs(t) == IF t = "PyItem" THEN "QItem" ELSE t
IsSubtype(t, u) == t = u \/ (t = "PyItem" /\ u = "QItem")
Copied(t) == t = "QPoint"

Bits == [Short |-> ShortBits, UShort |-> ShortBits, int |-> IntBits, uint |-> IntBits,
         long |-> LongBits, ulong |-> LongBits, qlonglong |-> LongBits, qulonglong |-> LongBits]
SignedTypes == {"Short", "int", "long", "qlonglong"}
IntegerTypes == DOMAIN Bits

\* A registered meta-type of Qt.
KnownToQt == {<<t, FALSE>> : t \in IntegerTypes \cup
                {"bool", "double", "char", "char16_t", "QString", "QVariantList", "QVariantMap",
                 "QVariant", "QPoint", "RegisteredEnum", "PyEnum", "PyQt_PyObject"}}
             \cup {<<"void", TRUE>>, <<"QObject", TRUE>>}
FromName(name) == IF name \in KnownToQt THEN name ELSE <<"unknown", FALSE>>
PyObjectType == <<"PyQt_PyObject", FALSE>>
IntType == <<"int", FALSE>>
QObjectStar == <<"QObject", TRUE>>

\* The enums of Qt that sip wraps: one that is registered, and one of each base
\* that is not, such as QDataStream.Status (enum.Enum) and QDataStream.Version
\* (enum.IntEnum).
SipEnums == {"RegisteredEnum", "OtherEnum", "OtherIntEnum"}
KnownToSip == {WrappedAs(t) : t \in Wrapped} \cup SipEnums \cup {"QString", "QVariant", "QVariantList"}

-----------------------------------------------------------------------------
(* Types.                                                                  *)

Chimera(meta, sip, py, name, inexact) ==
    [meta |-> meta, sip |-> sip, py |-> py, name |-> name, inexact |-> inexact, charStar |-> FALSE]

\* Classes that cannot be copied are passed as pointers.
PyName(t) == <<WrappedAs(t), ~ Copied(t)>>

WrappedType(t) ==
    LET name == PyName(t)
    IN  CASE FromName(name)[1] # "unknown" -> Chimera(FromName(name), WrappedAs(t), t, name, FALSE)
          [] FromName(name)[1] = "unknown" /\ t = "QWidget" ->
               Chimera(QObjectStar, "QWidget", t, name, FALSE)
          [] FromName(name)[1] = "unknown" /\ t = "PyItem" ->
               Chimera(PyObjectType, "none", t, PyObjectType, FALSE)
          [] OTHER -> Chimera(PyObjectType, WrappedAs(t), t, name, FALSE)

\* The type that a Python type stands for.  An enum that is not registered is an
\* integer; anything else is passed as it is.
ParsePyType(t) ==
    LET meta(m) == Chimera(<<m, FALSE>>, "none", t, <<m, FALSE>>, FALSE)
    IN  CASE t \in Wrapped -> WrappedType(t)
          [] t = "QVariant" -> Chimera(<<t, FALSE>>, "QVariant", t, <<t, FALSE>>, FALSE)
          [] t \in SipEnums ->
               Chimera(IF <<t, FALSE>> \in KnownToQt THEN <<t, FALSE>> ELSE IntType, t, t,
                       <<t, FALSE>>, FALSE)
          [] t = "list" -> meta("QVariantList")
          [] t = "str" -> [meta("QString") EXCEPT !.sip = "QString"]
          [] t = "bool" -> meta("bool")
          [] t = "int" -> [meta("int") EXCEPT !.inexact = TRUE]
          [] t = "float" -> meta("double")
          [] t = "PyEnum" -> meta("PyEnum")
          [] OTHER -> meta("PyQt_PyObject")

\* The type that a C++ name stands for.
ParseCppType(name) ==
    LET base == name[1]
        known == FromName(name)
        meta == IF known[1] = "unknown" THEN PyObjectType ELSE known
        chimera(m, sip) == Ok(Chimera(m, sip, "", name, FALSE))
    IN  IF base \notin KnownToSip
          THEN CASE meta = <<"void", TRUE>> \/ (meta # PyObjectType /\ ~ name[2]) \/ name = PyObjectType ->
                      chimera(meta, "none")
                 [] name = <<"char", TRUE>> ->
                      Ok([Chimera(meta, "none", "", name, FALSE) EXCEPT !.charStar = TRUE])
                 [] OTHER -> Error
        ELSE IF base \in SipEnums
          THEN IF name[2] THEN chimera(meta, "none")
               ELSE chimera(IF known[1] = "unknown" THEN IntType ELSE meta, base)
        ELSE chimera(IF name = <<"QWidget", TRUE>> THEN QObjectStar ELSE meta, base)

\* A fault: templates are not taken into account.
LevelFlat(level, ch) == 0

Level(level, ch) == IF ch = "<" THEN level + 1 ELSE IF ch = ">" THEN level - 1 ELSE level

\* Chimera::parse(): the arguments of a signature, which may be templates with
\* more than one.  The loop ends at the first end that an argument precedes.
SplitArguments(args) ==
    LET step(s, i) ==
          LET ch == IF i > Len(args) THEN "end" ELSE args[i]
              level == Level(s.level, ch)
              arg == SubSeq(args, s.from, i - 1)
              ends == ch = "end" \/ (ch = "," /\ level = 0)
          IN  IF s.over THEN s
              ELSE [from |-> IF ch = "," /\ ends THEN i + 1 ELSE s.from, level |-> level,
                    over |-> ch = "end" /\ arg # << >>,
                    parsed |-> IF ends /\ arg # << >> THEN Append(s.parsed, arg) ELSE s.parsed]
    IN  FoldLeft(step, [from |-> 1, level |-> 0, over |-> FALSE, parsed |-> << >>],
                 [i \in 1..(Len(args) + 1) |-> i])

-----------------------------------------------------------------------------
(* Numbers and characters.                                                 *)

Signed(n, bits) == ((n + 2 ^ (bits - 1)) % 2 ^ bits) - 2 ^ (bits - 1)
FitsSigned(n, bits) == Signed(n, bits) = n
FitsUnsigned(n, bits) == n \in 0..(2 ^ bits - 1)

\* PyLong_AsLong() and PyFloat_AsDouble() take members of an enum.IntEnum, and refuse
\* those of an enum.Enum (TypeError).
IsNumber(py) == py[1] \in {"int", "bool", "OtherIntEnum"}
Number(py) == IF py[1] = "bool" THEN IF py[2] THEN 1 ELSE 0 ELSE py[2]

\* Python's functions read a long; sip's takes the bits of an unsigned one.
AsLong(py) ==
    IF IsNumber(py) /\ FitsSigned(Number(py), LongBits) THEN Ok(Number(py)) ELSE Error

Width(t) == Bits[t]

ToInteger(t, py) ==
    CASE t \in SignedTypes ->
           IF IsOk(AsLong(py)) THEN Ok(Signed(Number(py), Width(t))) ELSE Error
      [] t = "qulonglong" ->
           IF IsNumber(py) /\ FitsUnsigned(Number(py), LongBits) THEN Ok(Number(py)) ELSE Error
      [] OTHER -> IF IsNumber(py) THEN Ok(Number(py) % 2 ^ Width(t)) ELSE Error

\* A string of one character.  Of one that needs a surrogate the first half is
\* taken.
ToChar16(py) ==
    CASE py = <<"str", "a">> -> Ok("a")
      [] py = <<"str", "wide">> -> Ok("surrogate")
      [] OTHER -> Error

\* One byte of the two is decoded, which Python refuses.
FromChar16(ch) == Error

-----------------------------------------------------------------------------
(* From Python.                                                            *)

\* A wrapped object for a pointer, or the value of one.
ToWrapped(ct, py) ==
    CASE ct.name[2] /\ py = None -> Ok(<<"null", 0>>)
      [] py # None /\ IsSubtype(py[1], ct.sip) -> Ok(py)
      [] OTHER -> Error


\* The least type that an integer fits into, or the object itself.
Fitted(n) ==
    CASE FitsSigned(n, IntBits) -> <<IntType, n>>
      [] ~ FitsSigned(n, IntBits) /\ FitsUnsigned(n, IntBits) -> <<<<"uint", FALSE>>, n>>
      [] ~ FitsUnsigned(n, IntBits) /\ ~ FitsSigned(n, IntBits) /\ FitsSigned(n, LongBits) ->
           <<<<"qlonglong", FALSE>>, n>>
      [] ~ FitsSigned(n, LongBits) /\ FitsUnsigned(n, LongBits) -> <<<<"qulonglong", FALSE>>, n>>
      [] OTHER -> <<PyObjectType, <<"int", n>>>>

\* Chimera::keep_as_pyobject().
Kept(py) == Ok(<<PyObjectType, py>>)

\* Numbers and characters.
NumberValue(t, py) ==
    CASE t \in IntegerTypes -> ToInteger(t, py)
      [] t = "bool" -> IF IsOk(AsLong(py)) THEN Ok(Number(py) # 0) ELSE Error
      [] t = "double" -> IF IsNumber(py) THEN Ok(<<"whole", Number(py)>>)
                         ELSE IF py[1] = "float" THEN Ok(py[2]) ELSE Error
      [] t = "char" -> IF py = <<"bytes", "b">> THEN Ok("b") ELSE Error
      [] t = "char16_t" -> ToChar16(py)

\* An object and what it contains.
ObjectsIn(py) ==
    {py} \cup (CASE py[1] = "list" -> {py[2][i] : i \in DOMAIN py[2]}
                [] py[1] = "dict" -> {py[2][i][2] : i \in DOMAIN py[2]}
                [] OTHER -> {})

\* Objects of Qt and containers.  each has the values of what a container has.
ContainerValue(t, py, each) ==
    CASE t = "QObject" -> IF py[1] = "QWidget" \/ py = None THEN Ok(py) ELSE Error
      [] t = "QVariantList" ->
           IF py[1] = "list" /\ \A i \in DOMAIN py[2] : IsOk(each[py[2][i]])
             THEN Ok([i \in DOMAIN py[2] |-> each[py[2][i]][2]]) ELSE Error
      [] t = "QVariantMap" ->
           IF py[1] = "dict" /\ \A i \in DOMAIN py[2] :
                py[2][i][1][1] = "str" /\ IsOk(each[py[2][i][2]])
             THEN Ok([i \in DOMAIN py[2] |-> <<py[2][i][1], each[py[2][i][2]][2]>>]) ELSE Error

\* Types that sip knows, and enums of Python.
ClassValue(ct, py) ==
    CASE ct.sip = "QString" -> IF py[1] = "str" THEN Ok(py[2])
                               ELSE IF py = None THEN Ok("") ELSE Error
      [] ct.sip \in SipEnums -> IF py[1] = ct.sip THEN Ok(py[2]) ELSE Error
      [] ct.sip \in {WrappedAs(u) : u \in Wrapped} -> ToWrapped(ct, py)
      [] ct.meta[1] = "PyEnum" -> IF py[1] = "PyEnum" THEN Ok(py[2]) ELSE Error
      [] OTHER -> Error

\* Chimera::fromPyObject(): the C++ value of a Python object.
CppValue(ct, py, each) ==
    LET t == ct.meta[1]
    IN  CASE ct.charStar ->
               IF py[1] = "bytes" THEN Ok(py[2]) ELSE IF py = None THEN Ok("null") ELSE Error
          [] ~ ct.charStar /\ t \in IntegerTypes \cup {"bool", "double", "char", "char16_t"} ->
               NumberValue(t, py)
          [] ct.meta = QObjectStar \/ t \in {"QVariantList", "QVariantMap"} ->
               ContainerValue(t, py, each)
          [] OTHER -> ClassValue(ct, py)

\* The object is not converted, but it has to be of the type if there is one.
KeptOf(ct, py) ==
    IF ct.py # "" /\ py[1] # ct.py /\ ct.py # "object" THEN Error ELSE Kept(py)

\* What goes into a QVariant: the same cases again.
VariantData(ct, py, each) == CppValue(ct, py, each)

\* A QVariant of the type.
AsVariant(ct, value) == IF IsOk(value) THEN Ok(<<ct.meta, value[2]>>) ELSE Error

\* Chimera::fromPyObject() for a QVariant.
Variant(ct, py, strict, each) ==
    LET value == VariantData(ct, py, each)
    IN  CASE ct.sip # "QVariant" /\ ct.meta = PyObjectType -> KeptOf(ct, py)
          [] ct.sip = "QVariant" -> each[py]
          [] ct.meta = IntType /\ ct.inexact ->
               IF IsNumber(py) THEN Ok(Fitted(Number(py))) ELSE Error
          [] ct.meta[1] = "QVariantMap" /\ ~ IsOk(value) /\ ~ strict -> Kept(py)
          [] OTHER -> AsVariant(ct, value)

\* Chimera::fromAnyPyObject(): by the type of the object.  None is an invalid
\* QVariant.  depth bounds how containers are nested.
Invalid == <<<<"invalid", FALSE>>, 0>>
FromAnyPyObject(py) ==
    LET leaf(o) == IF o = None THEN Ok(Invalid)
                   ELSE Variant(ParsePyType(o[1]), o, FALSE, [e \in ObjectsIn(o) |-> Error])
        ct == IF py[1] = "dict" THEN [ParsePyType("dict") EXCEPT !.meta = <<"QVariantMap", FALSE>>]
              ELSE ParsePyType(py[1])
    IN  IF py = None THEN Ok(Invalid) ELSE Variant(ct, py, FALSE, [o \in ObjectsIn(py) |-> leaf(o)])

AnyOf(py) == [o \in ObjectsIn(py) |-> FromAnyPyObject(o)]

-----------------------------------------------------------------------------
(* To Python.                                                              *)

\* A value of C++ and what it contains.
VariantsIn(var) ==
    {var} \cup (CASE var[1][1] = "QVariantList" -> {var[2][i] : i \in DOMAIN var[2]}
                 [] var[1][1] = "QVariantMap" -> {var[2][i][2] : i \in DOMAIN var[2]}
                 [] OTHER -> {})

\* Strings, enums and wrapped objects.
PyClassValue(t, v) ==
    CASE t = "QString" -> Ok(<<"str", v>>)
      [] t \in SipEnums \cup {"PyEnum"} -> Ok(<<t, v>>)
      [] OTHER -> Ok(v)

\* Chimera::toPyObject(): the Python object for a C++ value.
PyValue(ct, v, each) ==
    LET t == ct.meta[1]
    IN  CASE ct.meta = PyObjectType ->
               CASE ct.charStar -> Ok(IF v = "null" THEN None ELSE <<"bytes", v>>)
                 [] ~ ct.charStar /\ v = <<"null", 0>> -> Ok(None)
                 [] OTHER -> Ok(v)
          [] t \in IntegerTypes -> Ok(<<"int", v>>)
          [] t = "bool" -> Ok(<<"bool", v>>)
          [] t = "double" -> Ok(<<"float", v>>)
          [] t = "char" -> Ok(<<"bytes", v>>)
          [] t = "char16_t" -> FromChar16(v)
          [] t = "QVariantList" -> Ok(<<"list", [i \in DOMAIN v |-> each[v[i]][2]]>>)
          [] t = "QVariantMap" -> Ok(<<"dict", [i \in DOMAIN v |-> <<v[i][1], each[v[i][2]][2]>>]>>)
          [] OTHER -> PyClassValue(t, v)

SameType(ct, var) == ct.meta = var[1]

\* Chimera::toPyObject() for a QVariant.
FromVariant(ct, var, each) ==
    IF ct.sip = "QVariant" THEN each[var]
    ELSE IF ct.meta = PyObjectType /\ ct.py = "dict" /\ var[1] = <<"QVariantMap", FALSE>>
      THEN PyValue([ct EXCEPT !.meta = var[1]], var[2], each)
    ELSE IF SameType(ct, var) THEN PyValue(ct, var[2], each) ELSE Error

\* Chimera::toAnyPyObject(): by the type of the value.
ToAnyPyObject(var) ==
    LET ct(w) == Chimera(w[1], IF w[1][1] \in KnownToSip THEN w[1][1] ELSE "none", "", w[1], FALSE)
        leaf(w) == IF w = Invalid THEN Ok(None)
                   ELSE FromVariant(ct(w), w, [e \in VariantsIn(w) |-> Error])
    IN  IF var = Invalid THEN Ok(None)
        ELSE FromVariant(ct(var), var, [w \in VariantsIn(var) |-> leaf(w)])

AnyOfVariant(var) == [w \in VariantsIn(var) |-> ToAnyPyObject(w)]

-----------------------------------------------------------------------------
(* The storage of the arguments and the results of calls.                  *)

Garbage == <<"garbage", 0>>
IsPointerType(ct) == ct.sip \notin SipEnums /\ ct.meta = PyObjectType /\ ct.sip # "none"

\* Chimera::Storage: the value or, for a pointer, the object itself.
FromPyObjectToStorage(ct, py) ==
    LET var == Variant(ct, py, TRUE, AnyOf(py))
    IN  IF ~ IsOk(var) \/ (IsPointerType(ct) /\ py # None /\ ~ IsSubtype(py[1], ct.sip))
          THEN Error
        ELSE Ok([ct |-> ct, var |-> var[2],
                 ptr |-> IF IsPointerType(ct) /\ py # None THEN py ELSE <<"null", 0>>])

\* What Qt reads at the address: the type is the parsed one, whatever type the
\* value has that is there.
Read(storage) ==
    LET t == storage.ct.meta[1]
        var == storage.var
    IN  CASE IsPointerType(storage.ct) -> Ok(storage.ptr)
          [] ~ storage.ct.charStar /\ var[1] = storage.ct.meta /\ ~ IsPointerType(storage.ct) -> Ok(var[2])
          [] t \in IntegerTypes /\ var[1] # storage.ct.meta /\ var[1][1] \in IntegerTypes ->
               Ok(Signed(var[2], Bits[t]))
          [] OTHER -> Error

\* What a call of the method or a slot of it gets, and Python from what it
\* returns.
Passed(ct, py) ==
    LET s == FromPyObjectToStorage(ct, py)
    IN  IF ~ IsOk(s) THEN Error
        ELSE IF s[2].ct.sip = "QVariant" THEN ToAnyPyObject(s[2].var)
        ELSE IF ~ IsOk(Read(s[2])) THEN Ok(Garbage)
        ELSE PyValue(ct, Read(s[2])[2], AnyOfVariant(<<ct.meta, Read(s[2])[2]>>))

-----------------------------------------------------------------------------
(* QSettings.value(), QJSValue and others: a value of a type that is given. *)

\* QVariant::convert(), as far as it is needed here.
Converted(var, meta) ==
    CASE var[1] = meta -> var
      [] var = <<<<"QString", FALSE>>, "1">> /\ meta = IntType -> <<meta, 1>>
      [] var[1] # meta /\ var[1][1] \in IntegerTypes /\ meta = IntType ->
           <<meta, Signed(var[2], IntBits)>>
      [] var[1] # meta /\ var[1][1] \in IntegerTypes /\ meta = <<"double", FALSE>> ->
           <<meta, <<"whole", var[2]>>>>
      [] var[1] = <<"bool", FALSE>> /\ meta = IntType -> <<meta, IF var[2] THEN 1 ELSE 0>>
      [] OTHER -> var

Default(t) ==
    CASE t = "int" -> <<"int", 0>>
      [] t = "float" -> <<"float", <<"whole", 0>>>>
      [] t = "str" -> <<"str", "">>
      [] t = "list" -> <<"list", << >>>>
      [] t = "bool" -> <<"bool", FALSE>>
      [] t = "dict" -> <<"dict", << >>>>
      [] OTHER -> <<t, "default">>

\* pyqt6_from_qvariant_by_type().
FromVariantByType(var, t) ==
    LET ct == ParsePyType(t)
        one(w) == LET value == Converted(w, ct.meta) IN FromVariant(ct, value, AnyOfVariant(value))
        builtin == ct.meta[1] \notin {"PyQt_PyObject", "PyEnum", "RegisteredEnum"}
    IN  CASE var = Invalid -> Ok(Default(t))
          [] var # Invalid /\ ~ builtin -> FromVariant(ct, var, AnyOfVariant(var))
          [] var # Invalid /\ builtin /\ var[1][1] = "QVariantList" /\ ct.meta # var[1] ->
               IF \A i \in DOMAIN var[2] : IsOk(one(var[2][i]))
                 THEN Ok(<<"list", [i \in DOMAIN var[2] |-> one(var[2][i])[2]]>>) ELSE Error
          [] var # Invalid /\ builtin /\ var[1][1] = "QVariantMap" /\ ct.meta # var[1] ->
               IF \A i \in DOMAIN var[2] : IsOk(one(var[2][i][2]))
                 THEN Ok(<<"dict", [i \in DOMAIN var[2] |-> <<var[2][i][1], one(var[2][i][2])[2]>>]>>)
                 ELSE Error
          [] OTHER -> one(var)

-----------------------------------------------------------------------------
(* What is tried.                                                          *)

Ints == {<<"int", n>> : n \in (-(2 ^ (LongBits - 1)) - 2)..(2 ^ LongBits + 1)}
Atoms == Ints \cup {<<"bool", b>> : b \in BOOLEAN}
    \cup {<<"float", "half">>, <<"str", "">>, <<"str", "a">>, <<"str", "1">>, <<"str", "wide">>,
          <<"bytes", "b">>, <<"bytes", "bb">>, None, <<"object", 1>>}
    \cup {<<t, 1>> : t \in Wrapped \cup SipEnums \cup {"PyEnum"}}
Few == {<<"int", -1>>, <<"int", 2 ^ LongBits>>, <<"str", "1">>, <<"bool", TRUE>>, None}
Containers ==
    {<<"list", l>> : l \in SeqOf(Few, 2)}
    \cup {<<"dict", d>> : d \in {<<>>} \cup {<<<<k, v>>>> : k \in {<<"str", "a">>, <<"int", 1>>}, v \in Few}}
Objects == Atoms \cup Containers

PyTypes == Wrapped \cup SipEnums \cup
    {"PyEnum", "list", "dict", "str", "bool", "int", "float", "bytes", "object", "QVariant"}
CppNames == KnownToQt \cup {<<t, s>> : t \in {"QWidget", "QItem", "char", "OtherEnum", "OtherIntEnum", "unknown"},
                                       s \in BOOLEAN}

ConvInit ==
    /\ converted = [done |-> FALSE]
    /\ \/ given \in [what : {"any"}, py : Objects]
       \/ given \in [what : {"py"}, type : PyTypes, py : Objects]
       \/ given \in [what : {"cpp"}, name : CppNames, py : Objects]
       \/ given \in [what : {"split"}, args : SeqOf({"t", ",", "<", ">"}, MaxLength)]

ThroughAny(py) ==
    LET var == FromAnyPyObject(py)
    IN  [var |-> var, back |-> IF IsOk(var) THEN ToAnyPyObject(var[2]) ELSE Error,
         by |-> [t \in PyTypes |-> IF IsOk(var) THEN FromVariantByType(var[2], t) ELSE Error]]

\* An object is passed for a type, as an argument and as a result.
ThroughType(ct, py) ==
    [ct |-> ct, passed |-> Passed(ct, py), cpp |-> CppValue(ct, py, AnyOf(py))]

ConvNext ==
    /\ ~ converted.done
    /\ converted' = [done |-> TRUE, is |->
         CASE given.what = "any" -> ThroughAny(given.py)
           [] given.what = "py" -> [known |-> TRUE] @@ ThroughType(ParsePyType(given.type), given.py)
           [] given.what = "cpp" ->
                LET ct == ParseCppType(given.name)
                IN  IF IsOk(ct) THEN [known |-> TRUE] @@ ThroughType(ct[2], given.py)
                    ELSE [known |-> FALSE]
           [] given.what = "split" -> SplitArguments(given.args)]
    /\ UNCHANGED given

-----------------------------------------------------------------------------
(* Properties.                                                             *)

\* What is equal for Python.
PyEqual(a, b) ==
    \/ a = b
    \/ /\ IsNumber(a) /\ b[1] \in {"int", "bool", "float"}
       /\ IF b[1] = "float" THEN b[2] = <<"whole", Number(a)>> ELSE Number(a) = Number(b)

\* A member of an enum.Enum that Qt does not know.
PlainMember(py) == py[1] = "OtherEnum"

\* An object that is put into a QVariant is the same when it is taken out, whatever
\* its size or type; only members of an enum.Enum that Qt does not know cannot be
\* put there.
VariantKeeps ==
    given.what = "any" /\ converted.done =>
      IF PlainMember(given.py) THEN ~ IsOk(converted.is.var)
      ELSE IsOk(converted.is.back) /\ PyEqual(given.py, converted.is.back[2])

\* "otherwise it is left as a Python object ... (The type of the object will never
\* be the cause of an error.)" (qpycore_qvariant.cpp 37-41).
VariantOfAny == given.what = "any" /\ converted.done => IsOk(converted.is.var)

\* A value that is asked for by a type is of that type, or a container of such
\* values if a container is there, except for the types that have none in C++;
\* what was of that type comes back as it was (qpycore_qvariant_value.cpp 37-100).
OfType(py, t) ==
    \/ ParsePyType(t).meta = PyObjectType \/ t = "QVariant"
    \/ IsSubtype(py[1], t)
    \/ t \in SipEnums \ {"RegisteredEnum"} /\ py[1] = "int"
SettingTyped ==
    given.what = "any" /\ converted.done =>
      \A t \in PyTypes :
        LET value == converted.is.by[t]
        IN  /\ IsOk(value) =>
                 \/ OfType(value[2], t)
                 \/ value[2][1] = "list" /\ \A i \in DOMAIN value[2][2] : OfType(value[2][2][i], t)
                 \/ value[2][1] = "dict" /\ \A i \in DOMAIN value[2][2] : OfType(value[2][2][i][2], t)
            /\ given.py[1] = t /\ ~ PlainMember(given.py) /\ (t = "int" => FitsSigned(given.py[2], IntBits)) =>
                 IsOk(value) /\ PyEqual(given.py, value[2])

\* The values that a C++ integer has; others are not stored in it.
InRange(ct, py) ==
    /\ ct.meta[1] \in IntegerTypes =>
         IF ct.meta[1] \in SignedTypes THEN FitsSigned(Number(py), Bits[ct.meta[1]])
         ELSE FitsUnsigned(Number(py), Bits[ct.meta[1]])
    /\ ct.meta[1] = "bool" => Number(py) \in {0, 1}
    /\ ~ ct.charStar /\ ct.meta[1] # "char16_t"

\* An argument that is accepted for a type arrives as it was sent, if the type
\* has the value at all (qpycore_chimera.cpp 800-1052, 1451-1721).
ArgumentArrives ==
    given.what \in {"py", "cpp"} /\ converted.done =>
      (converted.is.known /\ IsOk(converted.is.passed) => LET ct == converted.is.ct IN
         InRange(ct, given.py) /\ given.py # None =>
           PyEqual(given.py, converted.is.passed[2]))

\* A type that was given as a Python type and is given again by its C++ name, as
\* it is in every signature, converts all objects to the same values (470-575
\* against 708-799).
SameByName ==
    given.what = "py" /\ converted.done =>
      LET ct == ParseCppType(converted.is.ct.name)
      IN  /\ IsOk(ct)
          /\ ct[2].meta = converted.is.ct.meta
          /\ CppValue(ct[2], given.py, AnyOf(given.py)) = converted.is.cpp

\* The loop over the arguments ends with the arguments, templates whole, unless
\* the last one is missing (321-366).
Depth(args, i) == Cardinality({j \in 1..i : args[j] = "<"}) - Cardinality({j \in 1..i : args[j] = ">"})
ArgumentsSplit ==
    given.what = "split" /\ converted.done =>
      LET args == given.args
          balanced == \A i \in 0..Len(args) : Depth(args, i) >= 0
          commas == {i \in DOMAIN args : args[i] = "," /\ Depth(args, i) = 0}
          missing == \E i \in commas \cup {0} : i = Len(args) \/ i + 1 \in commas
      IN  balanced /\ Depth(args, Len(args)) = 0 /\ ~ missing =>
            /\ converted.is.over
            /\ Len(converted.is.parsed) = Cardinality(commas) + 1

\* "Convert a Python object to C++, allocating storage as necessary. Return 0 if
\* there was an error" (qpycore_chimera.h 185-187): the storage that is passed to
\* Qt for a type has a value of that type.
StorageOfType ==
    given.what \in {"py", "cpp"} /\ converted.done /\ converted.is.known =>
      converted.is.passed # Ok(Garbage)


\* The types of a signature are the same whether they are given as objects of
\* Python or by the names that PyQt itself writes, and all of them are read.
SignaturesAgree == SameByName /\ ArgumentsSplit
=============================================================================
