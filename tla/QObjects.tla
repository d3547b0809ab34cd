------------------------------ MODULE QObjects ------------------------------
(***************************************************************************)
(* What Python does with a QObject through its meta-object: the keywords   *)
(* of a constructor and of pyqtConfigure(), methods that have no wrapper,  *)
(* connectSlotsByName() and the list of arguments of the application       *)
(* (qpycore_pyqtconfigure.cpp, qpycore_qobject_getattr.cpp, qpycore_pyqt   *)
(* methodproxy.cpp, qpycore_qmetaobject_helpers.cpp, qpycore_public_api    *)
(* .cpp).                                                                  *)
(*                                                                         *)
(* A name is a sequence of words: on_ok_button_clicked has four.           *)
(***************************************************************************)
EXTENDS Integers, FiniteSets, SequencesExt

CONSTANTS
    MaxKeywords,    \* bound: keywords of a call
    MaxMethods,     \* bound: methods of a meta-object
    MaxParameters,  \* bound: parameters of a method
    MaxArgv         \* bound: arguments of the application

ASSUME ObjectsAssumption == {MaxKeywords, MaxMethods, MaxParameters, MaxArgv} \subseteq Nat

VARIABLES request, outcome

objVars == <<request, outcome>>

-----------------------------------------------------------------------------
(* Keywords.  A keyword is the name of a property, of a signal or of neither; *)
(* good says that its value converts, or that its slot can be connected.   *)

HandleArgument(k) ==
    CASE k.kind \in {"property", "signal"} /\ k.good -> "AsHandled"
      [] k.kind \in {"property", "signal"} /\ ~ k.good -> "AsError"
      [] OTHER -> "AsUnknown"

Applied(run, k) == [run EXCEPT !.applied = Append(@, k)]

\* pyqtConfigure(): the first keyword that cannot be handled is an error; those
\* before it have been.
ConfigureOne(run, k) ==
    CASE run.error # "" -> run
      [] run.error = "" /\ HandleArgument(k) = "AsHandled" -> Applied(run, k)
      [] run.error = "" /\ HandleArgument(k) = "AsError" -> [run EXCEPT !.error = "TypeError"]
      [] OTHER -> [run EXCEPT !.error = "AttributeError"]

\* The constructor: what is handled is removed from what is passed on.
FinalisationOne(run, k) ==
    CASE run.error # "" -> run
      [] run.error = "" /\ HandleArgument(k) = "AsHandled" ->
           [Applied(run, k) EXCEPT !.unused = @ \ {k}]
      [] run.error = "" /\ HandleArgument(k) = "AsError" -> [run EXCEPT !.error = "TypeError"]
      [] OTHER -> run

Unapplied(keywords) == [applied |-> << >>, unused |-> Range(keywords), error |-> ""]

Configure(keywords) ==
    LET run[n \in 0..Len(keywords)] ==
          IF n = 0 THEN Unapplied(keywords) ELSE ConfigureOne(run[n - 1], keywords[n])
    IN  run[Len(keywords)]

Finalisation(keywords) ==
    LET run[n \in 0..Len(keywords)] ==
          IF n = 0 THEN Unapplied(keywords) ELSE FinalisationOne(run[n - 1], keywords[n])
    IN  run[Len(keywords)]

-----------------------------------------------------------------------------
(* Methods that have no wrapper.                                           *)

\* The last method of a name, "to allow overrides" (qobject_getattr.cpp 42).
MethodIndex(methods, name) ==
    SelectLastInSeq(methods, LAMBDA m : m.kind # "constructor" /\ m.name = name)

\* QObject.__getattr__(): a signal, a proxy or nothing.
GetAttr(methods, name) ==
    LET i == MethodIndex(methods, name)
    IN  CASE i # 0 /\ methods[i].kind = "signal" -> [is |-> "signal", index |-> i]
          [] i # 0 /\ methods[i].kind # "signal" /\ name # "private" ->
               [is |-> "proxy", index |-> i]
          [] OTHER -> [is |-> "AttributeError", index |-> 0]

\* The arguments are converted one after the other until one fails.
ParseOne(s, p) ==
    IF s.failed THEN s
    ELSE IF p = "bad" THEN [s EXCEPT !.failed = TRUE] ELSE [s EXCEPT !.allocated = @ + 1]

ParseArgs(parameters) ==
    LET parse[n \in 0..Len(parameters)] ==
          IF n = 0 THEN [failed |-> FALSE, allocated |-> 0]
          ELSE ParseOne(parse[n - 1], parameters[n])
    IN  parse[Len(parameters)]

\* All storage is released, that of the result too.
Released(parse, return) == parse.allocated + return

\* pyqtMethodProxy_call(): return says whether the type of the result is
\* missing, unknown, or one that there is storage for; fails whether Qt refuses.
ProxyCall(parameters, given, return, fails) ==
    LET refused(error) == [error |-> error, called |-> FALSE, allocated |-> 0, released |-> 0]
        storage == IF return = "known" THEN 1 ELSE 0
        parse == ParseArgs(given)
    IN  IF Len(given) # Len(parameters) THEN refused("number of arguments")
        ELSE IF return = "unknown" THEN refused("type of the result")
        ELSE [error |-> IF parse.failed THEN "argument" ELSE IF fails THEN "invocation" ELSE "",
              called |-> ~ parse.failed /\ ~ fails,
              allocated |-> parse.allocated + storage, released |-> Released(parse, storage)]

-----------------------------------------------------------------------------
(* connectSlotsByName().                                                   *)

\* A fault: the name of the object is the first word after "on".
SplitNameFirst(name) == <<SubSeq(name, 2, 2), SubSeq(name, 3, Len(name))>>

\* The names of the object and of the signal: the last word is the signal.
SplitName(name) == <<SubSeq(name, 2, Len(name) - 1), SubSeq(name, Len(name), Len(name))>>

\* The connections of a method for one of its names.  args is << >> if it is not
\* decorated.
ConnectByName(children, name, args) ==
    IF Len(name) < 3 \/ name[1] # "on" THEN {}
    ELSE LET parts == SplitName(name)
             child == SelectInSeq(children, LAMBDA c : c.name = parts[1])
         IN  IF child = 0 THEN {}
             ELSE {<<child, s>> : s \in {t \in children[child].signals :
                     t.name = parts[2] /\ (args # << >> => <<t.args>> = args)}}

\* A method is decorated with some signatures, each with a name, or with none.
AutoConnected(children, method) ==
    IF method.signatures = {} THEN ConnectByName(children, method.name, << >>)
    ELSE UNION {ConnectByName(children, s.name, <<s.args>>) : s \in method.signatures}

-----------------------------------------------------------------------------
(* The arguments of the application.                                       *)

\* pyqt6_from_argv_list(): each argument that is a string is a pointer of its
\* own; all others are the same one.  There are two copies, each with its end.
FromArgv(list) ==
    LET pointer(i) == IF list[i] = "other" THEN 0 ELSE i
    IN  [i \in 1..Len(list) |-> pointer(i)]

\* The argument was not removed by Qt.
NextArgv(argv, na, p) == na <= Len(argv) /\ argv[na] = p

\* pyqt6_update_argv_list(): what is no more in argv is removed from the list.
UpdateOne(argv, s, p) ==
    IF NextArgv(argv, s.na, p) THEN [s EXCEPT !.na = @ + 1]
    ELSE [s EXCEPT !.list = RemoveAt(@, s.na)]

UpdateArgv(list, copy, argv) ==
    LET update[n \in 0..Len(copy)] ==
          IF n = 0 THEN [list |-> list, na |-> 1] ELSE UpdateOne(argv, update[n - 1], copy[n])
    IN  update[Len(copy)].list

-----------------------------------------------------------------------------
(* What is tried.                                                          *)

Keywords == {k \in [id : 1..MaxKeywords, kind : {"property", "signal", "other"}, good : BOOLEAN] :
               k.kind = "other" => k.good}
KeywordLists == {l \in SeqOf(Keywords, MaxKeywords) : \A i \in DOMAIN l : l[i].id = i}

Methods3 == SeqOf([name : {"a", "b", "private"}, kind : {"method", "signal", "constructor"}], MaxMethods)

\* The child of a child has a name that goes on with the name of the first.
Children == <<[name |-> <<"ok">>, signals |-> {[name |-> <<"clicked">>, args |-> "()"],
                                               [name |-> <<"clicked">>, args |-> "(bool)"]}],
              [name |-> <<"ok", "box">>, signals |-> {[name |-> <<"clicked">>, args |-> "(bool)"],
                                                     [name |-> <<"toggled">>, args |-> "(bool)"]}]>>
Names == {<<"on", "ok", "clicked">>, <<"on", "ok", "box", "clicked">>, <<"on", "ok", "box", "toggled">>,
          <<"on", "clicked">>, <<"ok", "ok", "clicked">>, <<"on", "none", "clicked">>}
Decorations == SUBSET [name : {<<"on", "ok", "clicked">>, <<"on", "ok", "box", "clicked">>},
                       args : {"()", "(bool)"}]

Requested ==
    \/ request \in [what : {"configure", "create"}, keywords : KeywordLists]
    \/ request \in [what : {"getattr"}, methods : Methods3, name : {"a", "private"}]
    \/ request \in [what : {"call"}, parameters : SeqOf({"p"}, MaxParameters),
                    given : SeqOf({"good", "bad"}, MaxParameters),
                    return : {"none", "known", "unknown"}, fails : BOOLEAN]
    \/ request \in [what : {"autoconnect"}, name : Names, signatures : Decorations]
    \/ \E n \in 0..MaxArgv : request \in [what : {"argv"}, list : [1..n -> {"a", "b", "other"}],
                                         kept : SUBSET (1..n)]

ObjInit == outcome = [done |-> FALSE] /\ Requested

\* Qt removes arguments, never one that is no string, and moves the others up: those
\* that it keeps are counted.
KeptArgs(r) == {i \in DOMAIN r.list : i \in r.kept \/ r.list[i] = "other"}
NthKept(r, n) == CHOOSE i \in KeptArgs(r) : Cardinality({j \in KeptArgs(r) : j <= i}) = n
ArgvAfterQt(r) == [n \in 1..Cardinality(KeptArgs(r)) |-> FromArgv(r.list)[NthKept(r, n)]]

ObjNext ==
    /\ ~ outcome.done
    /\ outcome' = [done |-> TRUE, is |->
         CASE request.what = "configure" -> Configure(request.keywords)
           [] request.what = "create" -> Finalisation(request.keywords)
           [] request.what = "getattr" -> GetAttr(request.methods, request.name)
           [] request.what = "call" ->
                ProxyCall(request.parameters, request.given, request.return, request.fails)
           [] request.what = "autoconnect" -> AutoConnected(Children, request)
           [] request.what = "argv" ->
                UpdateArgv(request.list, FromArgv(request.list), ArgvAfterQt(request))]
    /\ UNCHANGED request

ObjSpec == ObjInit /\ [][ObjNext]_objVars

-----------------------------------------------------------------------------
(* Properties.                                                             *)

\* A keyword of a constructor is applied or passed on, never both and never
\* neither, unless an earlier one has failed (pyqtconfigure.cpp 84-134).
EachKeywordOnce ==
    request.what = "create" /\ outcome.done =>
      LET is == outcome.is
      IN  /\ Range(is.applied) \cap is.unused = {}
          /\ Range(is.applied) \cup is.unused = Range(request.keywords)
          /\ is.error = "" => \A k \in is.unused : k.kind = "other"

\* pyqtConfigure() applies the keywords in their order, up to the first that it
\* cannot handle (pyqtconfigure.cpp 50-89).
ConfiguredInOrder ==
    request.what = "configure" /\ outcome.done =>
      LET applied == outcome.is.applied
          keywords == request.keywords
      IN  /\ applied = SubSeq(keywords, 1, Len(applied))
          /\ IF outcome.is.error = "" THEN Len(applied) = Len(keywords)
             ELSE /\ Len(applied) < Len(keywords)
                  /\ HandleArgument(keywords[Len(applied) + 1]) # "AsHandled"

\* The method that is called is the one that overrides the others of its name,
\* and only one that is a signal gives a signal (qobject_getattr.cpp 33-131).
LatestMethod ==
    request.what = "getattr" /\ outcome.done =>
      LET methods == request.methods
          of == {i \in DOMAIN methods : methods[i].name = request.name /\ methods[i].kind # "constructor"}
      IN  IF outcome.is.is = "AttributeError"
            THEN of = {} \/ (request.name = "private" /\ methods[Max(of)].kind # "signal")
          ELSE outcome.is.index = Max(of) /\ (outcome.is.is = "signal" <=> methods[Max(of)].kind = "signal")

\* Whatever fails, each storage that was allocated for a call is released, and Qt
\* is called only with all the arguments (pyqtmethodproxy.cpp 85-199).
CallReleases ==
    request.what = "call" /\ outcome.done =>
      /\ outcome.is.released = outcome.is.allocated
      /\ outcome.is.called =>
           outcome.is.allocated = Len(request.parameters) + IF request.return = "known" THEN 1 ELSE 0

\* A method that is not decorated is connected to every overload of the signal of
\* its name; one that is decorated to those of its signatures only, of any name
\* that it is given (qmetaobject_helpers.cpp 42-159).
AutoConnects ==
    request.what = "autoconnect" /\ outcome.done =>
      \A c \in DOMAIN Children, s \in UNION {Children[d].signals : d \in DOMAIN Children} :
        LET name == <<"on">> \o Children[c].name \o s.name
        IN  <<c, s>> \in outcome.is <=>
              /\ s \in Children[c].signals
              /\ IF request.signatures = {} THEN request.name = name
                 ELSE [name |-> name, args |-> s.args] \in request.signatures

\* What Qt has taken is removed from sys.argv, and nothing else, even if two
\* arguments are alike (public_api.cpp 234-270, 423-440).
ArgvKept ==
    request.what = "argv" /\ outcome.done =>
      outcome.is = [n \in 1..Cardinality(KeptArgs(request)) |-> request.list[NthKept(request, n)]]

\* What the application gives by name reaches what has the name, once.
NamesResolved ==
    EachKeywordOnce /\ ConfiguredInOrder /\ LatestMethod /\ CallReleases
    /\ AutoConnects /\ ArgvKept
=============================================================================
