----------------------------- MODULE UiObjects ------------------------------
(***************************************************************************)
(* How pyuic6 and loadUi() find the class of an object: in QtGui, in       *)
(* QtWidgets, in the modules that plugins describe, or among the custom    *)
(* widgets of the file (uic/objcreator.py and the qobjectcreator.py of the *)
(* compiler and of the loader).                                            *)
(*                                                                         *)
(* Custom widgets are a sequence of [class, base, module] as in the file;  *)
(* a module is a sequence of parts, the first of which is "" if it is      *)
(* relative to the package of the application.                             *)
(***************************************************************************)
EXTENDS Integers, FiniteSets, SequencesExt

CONSTANTS
    QtClasses,      \* the classes of QtGui and QtWidgets
    WidgetClasses,  \* those of QtWidgets
    PluginFiles,    \* sequence of [raises, type, of]: the plugins that are found
    CustomClasses,
    CustomModules,  \* modules of custom widgets
    MaxTries,       \* how far up a custom widget's base class is looked for
    MaxWidgets      \* bound: custom widgets of a file

VARIABLES
    customWidgets,  \* the custom widgets the file has declared so far
    used,           \* those that an object was created of
    stopped         \* an error has ended it

objVars == <<customWidgets, used, stopped>>

\* The outcome of a search: error is "" unless it fails.
Failure(reason) == [error |-> reason, from |-> << >>, base |-> ""]
Found(from, base) == [error |-> "", from |-> from, base |-> base]

-----------------------------------------------------------------------------
(* Plugins and filters (objcreator.py).                                    *)

\* What a plugin file is loaded as.  One that cannot import what it is about
\* is passed over.
LoadPlugin(plugin) ==
    CASE plugin.raises = "ImportError" -> "ignored"
      [] plugin.raises = "" /\ plugin.type = "MODULE" -> "module"
      [] plugin.raises = "" /\ plugin.type = "CW_FILTER" -> "filter"
      [] OTHER -> "WidgetPluginError"

\* The plugins that are used, unless one of them is an error.
LoadedPlugins(plugins) ==
    IF \E i \in DOMAIN plugins : LoadPlugin(plugins[i]) = "WidgetPluginError"
      THEN [error |-> "WidgetPluginError", modules |-> << >>, filters |-> << >>]
      ELSE [error |-> "",
            modules |-> SelectSeq(plugins, LAMBDA p : LoadPlugin(p) = "module"),
            filters |-> SelectSeq(plugins, LAMBDA p : LoadPlugin(p) = "filter")]

\* The first filter that matches has its way.
Filtered(filters, widget) ==
    LET i == SelectInSeq(filters, LAMBDA f : f.class = widget.class)
    IN  IF i = 0 THEN widget ELSE filters[i].as

Custom(ws, class) == SelectInSeq(ws, LAMBDA w : w.class = class)

\* The place of a plugin's module among all of them, 0 if none has the class.
PluginModules == LoadedPlugins(PluginFiles).modules
InPlugin(class) == SelectInSeq(PluginModules, LAMBDA m : class \in m.classes)

\* The order in which the modules are asked.
Search(ws, class, custom) ==
    IF class \in QtClasses THEN Found(<<"PyQt6">>, class)
    ELSE IF InPlugin(class) # 0 THEN Found(PluginModules[InPlugin(class)].name, "QWidget")
    ELSE IF Custom(ws, class) = 0 THEN Failure("NoSuchWidgetError")
    ELSE custom

-----------------------------------------------------------------------------
(* The compiler.                                                           *)

\* One class up from a class, as long as that is possible.
BaseOf(ws, class) ==
    IF class \in QtClasses \/ Custom(ws, class) = 0 THEN class
    ELSE ws[Custom(ws, class)].base

\* A fault: only the base class itself is looked for.
ResolveBaseclassOnce(ws, class) == IF class \in WidgetClasses THEN class ELSE ""

\* The classes that are tried for a class.
Tried(ws, class) ==
    LET up[n \in 0..(MaxTries - 1)] == IF n = 0 THEN class ELSE BaseOf(ws, up[n - 1])
    IN  up

\* The class of QtWidgets that a class is or extends, "" if it is not found in a
\* number of tries.  One of QtGui is none.
ResolveBaseclass(ws, class) ==
    LET base == Tried(ws, class)[MaxTries - 1] IN IF base \in WidgetClasses THEN base ELSE ""

\* What the compiler takes a class for: where its code is imported from, and
\* the Qt class whose members it is known to have.
CompilerFinds(ws, class) ==
    LET w == ws[Custom(ws, class)]
        base == ResolveBaseclass(ws, w.base)
    IN  Search(ws, class,
               IF base = "" THEN Failure("ValueError") ELSE Found(w.module, base))

\* The imports that end the generated code: a statement for each module of a
\* custom widget that was used.
Imports(ws, names) ==
    {[module |-> m, classes |-> {c \in names : ws[Custom(ws, c)].module = m}] :
       m \in {ws[Custom(ws, c)].module : c \in names}}

-----------------------------------------------------------------------------
(* The loader.                                                             *)

Relative(module) == module # << >> /\ Head(module) = ""

\* The module that is imported; one that is relative needs a package that is
\* not.
Qualified(module, package) ==
    IF ~ Relative(module) THEN Found(module, "")
    ELSE IF package = << >> \/ Relative(package) THEN Failure("ImportError")
    ELSE Found(package \o Tail(module), "")

\* The loader asks nothing about bases.
LoaderFinds(ws, class, package) ==
    Search(ws, class, Qualified(ws[Custom(ws, class)].module, package))

-----------------------------------------------------------------------------
(* A file: first its custom widgets, then the objects that are created.    *)

ObjInit == customWidgets = << >> /\ used = {} /\ stopped = FALSE

Widget == [class : CustomClasses, base : CustomClasses \cup QtClasses, module : CustomModules]

\* A custom widget is not a class of Qt, and filters make custom widgets.
ASSUME ObjAssumption ==
    /\ CustomClasses \cap QtClasses = {} /\ "" \notin QtClasses
    /\ WidgetClasses \subseteq QtClasses
    /\ CustomModules \subseteq Seq(STRING)
    /\ MaxTries \in Nat \ {0} /\ MaxWidgets \in Nat
    /\ \A w \in Widget : Filtered(LoadedPlugins(PluginFiles).filters, w) \in Widget

\* The same class twice is an error (an assertion).
AddCustomWidget(filters, w) ==
    LET new == Filtered(filters, w)
    IN  /\ ~ stopped /\ used = {} /\ Len(customWidgets) < MaxWidgets
        /\ stopped' = (Custom(customWidgets, new.class) # 0)
        /\ customWidgets' = IF Custom(customWidgets, new.class) # 0
                             THEN customWidgets ELSE Append(customWidgets, new)
        /\ UNCHANGED used

CreateQtObject(class) ==
    LET found == CompilerFinds(customWidgets, class)
    IN  /\ ~ stopped
        /\ stopped' = (found.error # "")
        /\ used' = IF found.error = "" /\ class \in CustomClasses /\ InPlugin(class) = 0
                     THEN used \cup {class} ELSE used
        /\ UNCHANGED customWidgets

ObjNext ==
    \/ \E w \in Widget : AddCustomWidget(LoadedPlugins(PluginFiles).filters, w)
    \/ \E class \in CustomClasses : CreateQtObject(class)

ObjSpec == ObjInit /\ [][ObjNext]_objVars

-----------------------------------------------------------------------------
(* Properties.                                                             *)

\* The classes of QtWidgets that a class is or extends, through however many custom
\* widgets.
ClosedUp(S) ==
    \A i \in DOMAIN customWidgets : customWidgets[i].class \in S => customWidgets[i].base \in S

Above(c) ==
    {q \in WidgetClasses : \A S \in SUBSET (CustomClasses \cup QtClasses) :
                             c \in S /\ ClosedUp(S) => q \in S}

\* A custom widget has the members of the one class of QtWidgets that it extends
\* through however many others, and is an error only if there is none: the search ends
\* even if widgets extend each other (Compiler/qobjectcreator.py 111-131).
BaseResolved ==
    \A c \in {customWidgets[i].class : i \in DOMAIN customWidgets} : InPlugin(c) = 0 =>
      LET found == CompilerFinds(customWidgets, c)
      IN  Above(c) = IF found.error = "" THEN {found.base} ELSE {}

\* The generated code imports every custom widget it uses, from where the loader
\* takes it (100-102 and 133-142 there, Loader/qobjectcreator.py 98-128).
ImportsCoverUsed ==
    \A c \in used, package \in {<< >>, <<"package">>} :
      LET from == {i.module : i \in {j \in Imports(customWidgets, used) : c \in j.classes}}
          loaded == LoaderFinds(customWidgets, c, package)
      IN  /\ Cardinality(from) = 1
          /\ \A m \in from :
               IF ~ Relative(m) THEN loaded.from = m
               ELSE IF package = << >> THEN loaded.error = "ImportError"
               ELSE Len(loaded.from) = Len(m) /\ Head(loaded.from) = "package"

\* Custom widgets are what they extend, and come from where they are imported,
\* whether they are compiled or loaded.
ClassesFound == BaseResolved /\ ImportsCoverUsed
=============================================================================
