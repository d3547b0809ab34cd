------------------------- MODULE MCTranslationFile -------------------------
(***************************************************************************)
(* pylupdate6 for TLC: a .ts file that is kept up to date, and a Python    *)
(* source file that is scanned.  part says which of the two a behaviour is *)
(* about; the other stays as it is.                                        *)
(***************************************************************************)
EXTENDS TranslationFile, PythonSource

VARIABLE part

TwoContexts == <<"Dialog", "Window">>
TwoFiles == <<"main.py", "window.ui">>

\* The same text in two contexts, and in one of them with two comments, of which
\* one has an extra field without a value.
SomeMessages ==
    [context : {"Dialog"}, source : Sources, comment : Comments]
      \cup [context : {"Window"}, source : Sources, comment : {"c1"}]

\* Calls that can be used and calls that cannot, alone and in each other.
Call(function, args) ==
    [function |-> function, method |-> function = "tr", args |-> args, keywords |-> << >>]
Method(call) == [call EXCEPT !.method = TRUE]
WithKeywords(call) == [call EXCEPT !.keywords = [n |-> OtherNode, disambiguation |-> NoneNode]]
SomeCallLines ==
    {<<c>> : c \in
       {Call("tr", <<"s">>), WithKeywords(Call("tr", <<"s">>)),
        Call("tr", <<"s", NoneNode, OtherNode>>), Call("translate", <<"A", "s", "d">>),
        Call("translate", <<"A", "">>), Call("QT_TR_NOOP", <<"s">>),
        Call("QT_TRANSLATE_NOOP", <<"A", "s">>), Method(Call("QT_TR_NOOP", <<"s">>)),
        WithKeywords(Call("QT_TR_NOOP", <<"s">>))}}
    \cup {<<Call("tr", <<"s", OtherNode>>), Call("translate", <<"A", "s">>)>>,
          <<Call("translate", <<"A", "s">>), Call("tr", <<"s">>)>>}

MCInit == part \in {"file", "source"} /\ Init /\ ScanInit

MCNext ==
    /\ UNCHANGED part
    /\ \/ part = "file" /\ Next /\ UNCHANGED scanVars
       \/ part = "source" /\ ScanNext /\ UNCHANGED vars

MCSpec == MCInit /\ [][MCNext]_<<vars, scanVars, part>>
=============================================================================
