------------------------------- MODULE MCCore -------------------------------
(***************************************************************************)
(* The parts of the system that depend on none of each other's variables,  *)
(* for TLC: part says which of them a behaviour is about, and the others   *)
(* stay as they are.                                                       *)
(***************************************************************************)
EXTENDS Signals, MetaObjects, Conversions, QObjects, Lifetime, Exceptions, QmlProxies, QmlLists,
        OpenGLArrays, PluginLoaders

CONSTANT Parts
VARIABLE part

Mixins == {<< >>, <<"slot", "property">>}
Calls == {<<"VertexAttribPointer", 0>>, <<"VertexAttribPointer", 1>>}

\* A vector, sequences of floats and of what is no float, and something else.
GLItems == {[type |-> "QVector2D", values |-> <<"0", "1">>], [type |-> "other", values |-> << >>]}
           \cup {[type |-> "floats", values |-> s] : s \in {<<"2">>, <<"3", "4">>, <<"5", "6">>, <<"7", "bad">>}}

\* What is imported once though it is there twice, a directory without plugins, and
\* plugins that two directories have; a widget that one module imports from another.
Files(names, ext) == [i \in 1..Len(names) |-> [base |-> names[i], ext |-> ext]]
Dirs == <<Files(<<"aplugin", "bplugin">>, "py") \o Files(<<"aplugin">>, "pyc"),
          Files(<<"readme", "aplugin">>, "txt"),
          Files(<<"widget", "aplugin", "cplugin">>, "py")>>
ModuleTypes == [place \in (1..3) \X {"aplugin", "bplugin", "cplugin"} |->
                  CASE place = <<1, "aplugin">> -> <<"Base", "A">>
                    [] place = <<1, "bplugin">> -> <<"B", "A">>
                    [] place = <<3, "aplugin">> -> <<"A3">>
                    [] place = <<3, "cplugin">> -> <<"C", "C2">>
                    [] OTHER -> << >>]

unasked == [what |-> "nothing"]
unanswered == [done |-> FALSE]

Init ==
    /\ part \in Parts
    /\ IF part = "signals" THEN SigInit ELSE asked = unasked /\ answer = unanswered
    /\ IF part = "conversions" THEN ConvInit ELSE given = unasked /\ converted = unanswered
    /\ IF part = "objects" THEN ObjInit ELSE request = unasked /\ outcome = unanswered
    /\ MetaInit /\ LifeInit /\ RefInit
    /\ ExcInit /\ (part # "exceptions" => ~ hook)
    /\ QmlInit /\ GLInit /\ (part # "opengl" => keeper)
    /\ QmlListInit /\ (part # "qml lists" => style = "list")
    /\ PluginsInit /\ (interp => part \in {"designer plugins", "qml plugins"})

Next ==
    /\ UNCHANGED part
    /\ \/ /\ part = "signals" /\ SigNext
          /\ UNCHANGED <<metaVars, convVars, objVars, lifeVars, excVars, refVars, qmlVars, listVars, glVars, pluginVars>>
       \/ /\ part = "metaobjects" /\ MetaNext
          /\ UNCHANGED <<sigVars, convVars, objVars, lifeVars, excVars, refVars, qmlVars, listVars, glVars, pluginVars>>
       \/ /\ part = "conversions" /\ ConvNext
          /\ UNCHANGED <<sigVars, metaVars, objVars, lifeVars, excVars, refVars, qmlVars, listVars, glVars, pluginVars>>
       \/ /\ part = "objects" /\ ObjNext
          /\ UNCHANGED <<sigVars, metaVars, convVars, lifeVars, excVars, refVars, qmlVars, listVars, glVars, pluginVars>>
       \/ /\ part = "lifetime" /\ LifeNext
          /\ UNCHANGED <<sigVars, metaVars, convVars, objVars, excVars, refVars, qmlVars, listVars, glVars, pluginVars>>
       \/ /\ part = "exceptions" /\ ExcNext
          /\ UNCHANGED <<sigVars, metaVars, convVars, objVars, lifeVars, refVars, qmlVars, listVars, glVars, pluginVars>>
       \/ /\ part = "references" /\ RefNext
          /\ UNCHANGED <<sigVars, metaVars, convVars, objVars, lifeVars, excVars, qmlVars, listVars, glVars, pluginVars>>
       \/ /\ part = "qml" /\ QmlNext
          /\ UNCHANGED <<sigVars, metaVars, convVars, objVars, lifeVars, excVars, refVars, listVars, glVars, pluginVars>>
       \/ /\ part = "qml lists" /\ QmlListNext
          /\ UNCHANGED <<sigVars, metaVars, convVars, objVars, lifeVars, excVars, refVars, qmlVars, glVars, pluginVars>>
       \/ /\ \/ part = "opengl" /\ ValuesNext
             \/ part = "shader" /\ ShaderNext
          /\ UNCHANGED <<sigVars, metaVars, convVars, objVars, lifeVars, excVars, refVars, qmlVars, listVars, pluginVars>>
       \/ /\ \/ part = "designer plugins" /\ DesignerNext
             \/ part = "qml plugins" /\ QmlPluginNext
          /\ UNCHANGED <<sigVars, metaVars, convVars, objVars, lifeVars, excVars, refVars, qmlVars, listVars, glVars>>

Spec ==
    /\ Init
    /\ [][Next]_<<sigVars, metaVars, convVars, objVars, lifeVars, excVars, refVars, qmlVars, listVars, glVars, pluginVars, part>>
    /\ ExcFairness
=============================================================================
