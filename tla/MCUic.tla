------------------------------- MODULE MCUic -------------------------------
(***************************************************************************)
(* pyuic6 for TLC.  The parser, the code generator and the program do not  *)
(* depend on each other's variables: part says which of them a behaviour   *)
(* is about, and the others stay as they are.  The modules without         *)
(* variables are checked with them.                                        *)
(***************************************************************************)
EXTENDS UiParser, UiCompiler, UiObjects, UiProperties, UiTool

VARIABLE part

\* Names as they are given in a file; a suffix is a part of its own.
PlainNames == {<<"foo">>}
NumberedNames == {<<"foo">>, <<"foo", 1>>}
ButtonGroups == {<<"buttonGroup">>}

Plugin(type, name, classes) ==
    [raises |-> "", type |-> type, name |-> name, classes |-> classes]
Plugins ==
    <<[Plugin("MODULE", <<"PyQt6", "QAxContainer">>, {"Custom1"}) EXCEPT !.raises = "ImportError"],
      Plugin("MODULE", <<"PyQt6", "QtCharts">>, {"QChartView"}),
      [raises |-> "", type |-> "CW_FILTER", class |-> "OldCustom",
       as |-> [class |-> "Custom2", base |-> "QLabel", module |-> <<"app">>]]>>
CustomModulesDef == {<<"app">>, <<"", "app">>}
UiFilesDef == <<"a.ui", "b.ui", "c.ui">>

Init ==
    /\ part \in {"parser", "compiler", "objects", "properties", "tool"}
    /\ UiInit /\ (part # "parser" => obj[1].class = "QWidget")
    /\ GenInit /\ ObjInit
    /\ IF part = "properties" THEN PropInit ELSE given = OtherElements[1] /\ made = Unhandled
    /\ ToolInit
    /\ part # "tool" => ask = [input |-> "file", output |-> "file", preview |-> FALSE,
                               workers |-> 0]

Next ==
    /\ UNCHANGED part
    /\ \/ part = "parser" /\ UiNext /\ UNCHANGED <<genVars, objVars, propVars, toolVars>>
       \/ part = "compiler" /\ GenNext /\ UNCHANGED <<uiVars, objVars, propVars, toolVars>>
       \/ part = "objects" /\ ObjNext /\ UNCHANGED <<uiVars, genVars, propVars, toolVars>>
       \/ part = "properties" /\ Handle /\ UNCHANGED <<uiVars, genVars, objVars, toolVars>>
       \/ part = "tool" /\ ToolNext /\ UNCHANGED <<uiVars, genVars, objVars, propVars>>

Spec == Init /\ [][Next]_<<uiVars, genVars, objVars, propVars, toolVars, part>>
=============================================================================
