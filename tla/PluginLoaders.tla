--------------------------- MODULE PluginLoaders ----------------------------
(***************************************************************************)
(* The C++ plugins that load plugins written in Python: that of Designer   *)
(* (designer/pluginloader.cpp), which collects custom widgets, and that of *)
(* qmlscene (qmlscene/pluginloader.cpp), of which QML makes one for each   *)
(* module.  Either starts the interpreter if nobody has.                   *)
(***************************************************************************)
EXTENDS Naturals, SequencesExt

CONSTANTS
    PluginDirs,     \* for each directory its files by name: [base, ext]
    PluginNames,    \* the base names that end in "plugin"
    Contents,       \* [directory, base name -> the types of the module, in order]
    WidgetTypes,    \* those that derive from QPyDesignerCustomWidgetPlugin
    QmlModules,     \* the QML modules that have the plugin
    MaxEngines      \* bounds the engines that a plugin is told of

ASSUME PluginAssumption ==
    /\ PluginDirs \in Seq(Seq([base : STRING, ext : STRING]))
    /\ Contents \in [(1..Len(PluginDirs)) \X PluginNames -> Seq(STRING)]

VARIABLES
    interp,         \* is the interpreter running?
    gil,            \* does the loader hold the GIL?
    loader,         \* what the constructor of PyCustomWidgets does: "dirs", "import", "types",
                    \* and "done", "given up" after a fatal error
    dirNo,          \* the directory it has come to
    sysPath,        \* the directories added to sys.path
    fetched,        \* sys.path, unwrapinstance and QPyDesignerCustomWidgetPlugin, once found
    plugins,        \* the plugins of the directory that are left, by their places
    types,          \* the types of the module that are left
    imported,       \* [imported module -> the directory it was found in]
    raisers,        \* modules and types that raised an exception, for the properties
    widgets,        \* the types of the instances that Designer is given
    qmlPlugin       \* [QML module -> its C++ plugin]

designerVars == <<loader, dirNo, sysPath, fetched, plugins, types, imported, raisers, widgets>>
pluginVars == <<interp, gil, designerVars, qmlPlugin>>

NoPlugin == [made |-> FALSE, sip |-> FALSE, object |-> FALSE, asked |-> 0, told |-> 0]

PluginsInit ==
    /\ interp \in BOOLEAN /\ gil = FALSE
    /\ loader = "dirs" /\ dirNo = 0
    /\ sysPath = << >> /\ fetched = {}
    /\ plugins = {} /\ types = << >> /\ imported = << >> /\ raisers = {} /\ widgets = << >>
    /\ qmlPlugin = [m \in QmlModules |-> NoPlugin]

-----------------------------------------------------------------------------
(* Designer.                                                               *)

\* The plugins of a directory are the files that are named as plugins, by the place
\* in the list: a source and what is compiled of it are one.
IsPlugin(file) == file.ext \in {"py", "pyc", "pyd"} /\ file.base \in PluginNames

PluginsOf(d) ==
    LET files == PluginDirs[d]
    IN  {i \in 1..Len(files) :
           /\ IsPlugin(files[i])
           /\ \A j \in 1..(i - 1) : ~ (IsPlugin(files[j]) /\ files[j].base = files[i].base)}

NamesIn(d) == {PluginDirs[d][i].base : i \in PluginsOf(d)}

\* The constructor comes to a directory with plugins, and needs the interpreter.
\* It gives up if there is none to be had.
NextDirectory(starts) ==
    /\ loader = "dirs" /\ dirNo < Len(PluginDirs)
    /\ dirNo' = dirNo + 1
    /\ IF PluginsOf(dirNo + 1) = {}
         THEN UNCHANGED <<interp, gil, loader, plugins>>
         ELSE IF interp \/ starts
           THEN /\ interp' = TRUE /\ gil' = TRUE
                /\ loader' = "import" /\ plugins' = PluginsOf(dirNo + 1)
           ELSE loader' = "given up" /\ UNCHANGED <<interp, gil, plugins>>
    /\ UNCHANGED <<sysPath, fetched, types, imported, raisers, widgets, qmlPlugin>>

\* What has been found is not looked for again.
GetModuleAttrs(attributes, found) == attributes \subseteq fetched \/ found

\* The directory is added to sys.path.
AddDirectory(found, appended) ==
    /\ loader = "import" /\ dirNo \notin Range(sysPath)
    /\ IF GetModuleAttrs({"path", "unwrapinstance"}, found)
         THEN /\ fetched' = fetched \cup {"path", "unwrapinstance"}
              /\ IF appended
                   THEN sysPath' = Append(sysPath, dirNo) /\ UNCHANGED <<gil, loader, plugins>>
                   ELSE gil' = FALSE /\ loader' = "dirs" /\ plugins' = {} /\ UNCHANGED sysPath
         ELSE gil' = FALSE /\ loader' = "given up" /\ UNCHANGED <<fetched, sysPath, plugins>>
    /\ UNCHANGED <<interp, dirNo, types, imported, raisers, widgets, qmlPlugin>>

\* Where Python finds a module: it was imported before, or the first directory of
\* sys.path has it.
FoundIn(name, home) ==
    IF name \in DOMAIN imported THEN home = imported[name]
    ELSE \E i \in 1..Len(sysPath) :
           /\ home = sysPath[i] /\ name \in NamesIn(home)
           /\ \A j \in 1..(i - 1) : name \notin NamesIn(sysPath[j])

\* A fault: one that cannot be imported ends it all.
AfterExceptionFatal == "given up"

\* An exception is printed, and the next one imported.
AfterException == "import"

\* The next plugin of the directory.  The base class is looked for after the first
\* import, "to allow that plugin to change any API versions".
ImportPlugin(i, home, imports, found) ==
    /\ loader = "import" /\ dirNo \in Range(sysPath)
    /\ i \in plugins /\ \A j \in plugins : i <= j
    /\ LET name == PluginDirs[dirNo][i].base
       IN  /\ FoundIn(name, home)
           /\ IF name \in DOMAIN imported \/ imports
                THEN /\ imported' = [n \in DOMAIN imported \cup {name} |->
                                     IF n = name THEN home ELSE imported[n]]
                     /\ raisers' = raisers
                     /\ IF GetModuleAttrs({"custom"}, found)
                          THEN /\ fetched' = fetched \cup {"custom"}
                               /\ types' = Contents[<<home, name>>] /\ loader' = "types" /\ gil' = gil
                          ELSE loader' = "given up" /\ gil' = FALSE /\ UNCHANGED <<fetched, types>>
                ELSE /\ raisers' = raisers \cup {name}
                     /\ loader' = AfterException /\ gil' = (AfterException = "import")
                     /\ UNCHANGED <<imported, fetched, types>>
    /\ plugins' = plugins \ {i}
    /\ UNCHANGED <<interp, dirNo, sysPath, widgets, qmlPlugin>>

\* Each type that implements a widget is called, and its instance kept for good.
CreateCustomWidget(created) ==
    /\ loader = "types" /\ types # << >>
    /\ types' = Tail(types)
    /\ widgets' = IF Head(types) \in WidgetTypes /\ created
                    THEN Append(widgets, Head(types)) ELSE widgets
    /\ raisers' = IF Head(types) \in WidgetTypes /\ ~ created
                   THEN raisers \cup {Head(types)} ELSE raisers
    /\ UNCHANGED <<interp, gil, loader, dirNo, sysPath, fetched, plugins, imported, qmlPlugin>>

ModuleDone ==
    /\ loader = "types" /\ types = << >> /\ loader' = "import"
    /\ UNCHANGED <<interp, gil, dirNo, sysPath, fetched, plugins, types, imported, raisers,
                   widgets, qmlPlugin>>

DirectoryDone ==
    /\ loader = "import" /\ dirNo \in Range(sysPath) /\ plugins = {}
    /\ gil' = FALSE /\ loader' = "dirs"
    /\ UNCHANGED <<interp, dirNo, sysPath, fetched, plugins, types, imported, raisers, widgets,
                   qmlPlugin>>

Constructed ==
    /\ loader = "dirs" /\ dirNo = Len(PluginDirs) /\ loader' = "done"
    /\ UNCHANGED <<interp, gil, dirNo, sysPath, fetched, plugins, types, imported, raisers,
                   widgets, qmlPlugin>>

DesignerNext ==
    \/ \E ok, found \in BOOLEAN :
         \/ NextDirectory(ok) \/ AddDirectory(found, ok) \/ CreateCustomWidget(ok)
         \/ \E i \in plugins, home \in Range(sysPath) : ImportPlugin(i, home, ok, found)
    \/ ModuleDone \/ DirectoryDone \/ Constructed

-----------------------------------------------------------------------------
(* qmlscene.                                                               *)

\* The constructor gets the sip API only if it has started the interpreter.
GetsSipApi(starts, hasApi) == ~ interp /\ starts /\ hasApi

NewQmlPlugin(m, starts, hasApi) ==
    /\ ~ qmlPlugin[m].made
    /\ interp' = (interp \/ starts)
    /\ qmlPlugin' = [qmlPlugin EXCEPT ![m] =
                       [NoPlugin EXCEPT !.made = TRUE, !.sip = GetsSipApi(starts, hasApi)]]
    /\ UNCHANGED <<gil, designerVars>>

\* The steps of registerTypes(): its file is looked for, its directory is added to
\* sys.path, and of what it imports the first type is called that derives from
\* QQmlExtensionPlugin, then registerTypes() of the instance, which returns None.
Finding == {"file"}
AddingToSysPath == {"sys.path", "append"}
CallingRegisterTypes == {"import", "QQmlExtensionPlugin", "type", "instance", "call", "result"}
RegisterSteps == Finding \cup AddingToSysPath \cup CallingRegisterTypes

\* The instance is kept if no step fails; if one does, the exception is printed,
\* except that a missing file is none.  (Without an interpreter asking for the GIL
\* ends the process.)
RegisterTypes(m, fails) ==
    /\ qmlPlugin[m].made /\ interp /\ ~ qmlPlugin[m].object /\ qmlPlugin[m].asked = 0
    /\ qmlPlugin' = [qmlPlugin EXCEPT ![m].object = fails \notin RegisterSteps]
    /\ UNCHANGED <<interp, gil, designerVars>>

\* initializeEngine() for one of at most MaxEngines engines that QtQml can wrap.  What the Python plugin
\* raises or returns is reported and changes nothing.
InitializeEngine(m, converts) ==
    /\ qmlPlugin[m].made /\ qmlPlugin[m].asked < MaxEngines
    /\ LET p == qmlPlugin[m]
           tells == interp /\ p.object /\ p.sip /\ converts
       IN  qmlPlugin' = [qmlPlugin EXCEPT ![m].asked = IF converts THEN @ + 1 ELSE @,
                                          ![m].told = IF tells THEN @ + 1 ELSE @]
    /\ UNCHANGED <<interp, gil, designerVars>>

\* The destructor gives the reference up.
DeleteQmlPlugin(m) ==
    /\ qmlPlugin[m].made
    /\ qmlPlugin' = [qmlPlugin EXCEPT ![m] = NoPlugin]
    /\ UNCHANGED <<interp, gil, designerVars>>

QmlPluginNext ==
    \E m \in QmlModules :
      \/ \E ok, api \in BOOLEAN : NewQmlPlugin(m, ok, api) \/ InitializeEngine(m, ok)
      \/ \E fails \in RegisterSteps \cup {"nothing"} : RegisterTypes(m, fails)
      \/ DeleteQmlPlugin(m)

DesignerSpec == PluginsInit /\ [][DesignerNext]_pluginVars
QmlPluginSpec == PluginsInit /\ [][QmlPluginNext]_pluginVars

-----------------------------------------------------------------------------
(* Properties.                                                             *)

\* The GIL is held while Python is used, and given up whatever fails ("Import the
\* plugins with the GIL held", designer/pluginloader.cpp 146).
GilHeld == (gil <=> loader \in {"import", "types"}) /\ (gil => interp)

\* In the end every plugin has been imported, and every widget of it created, or
\* it has raised an exception of its own: that of one stops no other.
EveryPluginTried ==
    loader = "done" =>
      /\ \A d \in Range(sysPath) : NamesIn(d) \subseteq DOMAIN imported \cup raisers
      /\ \A n \in DOMAIN imported : \A t \in Range(Contents[<<imported[n], n>>]) \cap WidgetTypes :
           t \in Range(widgets) \cup raisers

\* Nothing is given up but for want of an interpreter, of what is needed of sys and
\* sip, or of the base class once a plugin has been imported.
OnlyFatalErrors ==
    loader = "given up" =>
      \/ ~ interp
      \/ ~ {"path", "unwrapinstance"} \subseteq fetched
      \/ "custom" \notin fetched /\ DOMAIN imported # {}

\* What Designer is given are widgets of plugins, and a plugin is that of the first
\* directory that has it, also when a later one has another of its name.
WidgetsOfPlugins ==
    /\ \A t \in Range(widgets) : t \in WidgetTypes /\
         \E n \in DOMAIN imported : t \in Range(Contents[<<imported[n], n>>])
    /\ \A n \in DOMAIN imported, d \in Range(sysPath) :
         n \in NamesIn(d) => imported[n] \in Range(sysPath) /\ imported[n] <= d

\* The plugin that started the interpreter has its Python plugin initialize every
\* engine, once its types are registered, and never before.
EnginesTold ==
    \A m \in QmlModules :
      LET p == qmlPlugin[m]
      IN  /\ p.told > 0 => p.object /\ p.sip /\ interp
          /\ p.object /\ p.sip => p.told = p.asked

PluginsLoaded ==
    GilHeld /\ EveryPluginTried /\ OnlyFatalErrors /\ WidgetsOfPlugins /\ EnginesTold

-----------------------------------------------------------------------------
(* The inductive invariant of ToolsProofs.                                 *)

PluginTypeOK ==
    /\ interp \in BOOLEAN /\ gil \in BOOLEAN
    /\ loader \in {"dirs", "import", "types", "done", "given up"}
    /\ dirNo \in 0..Len(PluginDirs)
    /\ sysPath \in Seq(1..Len(PluginDirs))
    /\ fetched \subseteq {"path", "unwrapinstance", "custom"}
    /\ types \in Seq(STRING) /\ widgets \in Seq(STRING)
    /\ imported \in [DOMAIN imported -> Range(sysPath)] /\ DOMAIN imported \subseteq PluginNames
    /\ qmlPlugin \in [QmlModules -> [made : BOOLEAN, sip : BOOLEAN, object : BOOLEAN,
                                     asked : Nat, told : Nat]]

\* The directories come to sys.path in their order.
DirectoriesInOrder ==
    /\ \A i, j \in 1..Len(sysPath) : i < j => sysPath[i] < sysPath[j]
    /\ \A d \in Range(sysPath) : d <= dirNo

\* What is left of the directory are plugins of it, and all of them until it is in
\* sys.path.
LeftOfDirectory ==
    IF loader \in {"import", "types"}
      THEN /\ dirNo > 0 /\ plugins \subseteq PluginsOf(dirNo)
           /\ dirNo \notin Range(sysPath) => loader = "import" /\ plugins = PluginsOf(dirNo)
      ELSE loader # "given up" => plugins = {}

\* A plugin has been tried or is left.
TriedOrLeft ==
    loader # "given up" =>
      \A d \in Range(sysPath) : \A i \in PluginsOf(d) :
        PluginDirs[d][i].base \in DOMAIN imported \cup raisers \/ (d = dirNo /\ i \in plugins)

\* So has a widget of one that has been imported.
MadeOrLeft ==
    loader # "given up" =>
      \A n \in DOMAIN imported : \A t \in Range(Contents[<<imported[n], n>>]) \cap WidgetTypes :
        t \in Range(widgets) \cup raisers \/ (loader = "types" /\ t \in Range(types))

\* What is gone through are the types of a plugin.
TypesOfPlugin ==
    loader = "types" => \E n \in DOMAIN imported : Range(types) \subseteq Range(Contents[<<imported[n], n>>])

PluginIInv ==
    /\ PluginTypeOK /\ GilHeld /\ OnlyFatalErrors /\ WidgetsOfPlugins /\ EnginesTold
    /\ DirectoriesInOrder /\ LeftOfDirectory /\ TriedOrLeft /\ MadeOrLeft /\ TypesOfPlugin
    /\ \A m \in QmlModules : qmlPlugin[m].object => interp

-----------------------------------------------------------------------------
(* What the code does not see to.                                          *)

\* What the header has the plugins for: any of them that has registered its types
\* initializes the engines (qmlscene/pluginloader.h 43).
EnginesReached ==
    \A m \in QmlModules : qmlPlugin[m].object => qmlPlugin[m].told = qmlPlugin[m].asked

\* Every widget is there once.
WidgetsOnce == \A i, j \in 1..Len(widgets) : widgets[i] = widgets[j] => i = j
=============================================================================
