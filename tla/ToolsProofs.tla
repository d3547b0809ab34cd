---------------------------- MODULE ToolsProofs -----------------------------
(***************************************************************************)
(* Proofs about the tools written in Python and about those that load      *)
(* plugins written in it, for any values of the constants.                 *)
(* UiTool: what the exit status of pyuic6 says of the modules it was asked *)
(* for.  PluginLoaders: which plugins of Python are imported, created and  *)
(* told of engines.  UiCompiler: the generated code sets what it is asked  *)
(* to, and again when it is translated.  UiParser: the objects, their      *)
(* names and places are those of the file.  UiObjects: what custom widgets *)
(* extend, and where they are imported from.                               *)
(***************************************************************************)
EXTENDS UiParser, UiTool, UiCompiler, UiObjects, PluginLoaders, FiniteSetTheorems,
        SequenceTheorems, TLAPS

-----------------------------------------------------------------------------
(* UiTool.                                                                 *)

\* A sequence that is not empty is its first element and the others.
LEMMA HeadAndTail ==
    ASSUME NEW S, NEW s \in Seq(S), s # << >>
    PROVE  /\ Head(s) \in S /\ Tail(s) \in Seq(S)
           /\ Range(s) = {Head(s)} \cup Range(Tail(s))
<1>1. Len(s) \in Nat \ {0} /\ DOMAIN s = 1..Len(s)
  BY EmptySeq, LenProperties
<1>2. Head(s) = s[1] /\ Head(s) \in S /\ Tail(s) \in Seq(S) /\ Len(Tail(s)) = Len(s) - 1
  BY HeadTailProperties, ElementOfSeq, <1>1
<1>3. \A i \in 1..(Len(s) - 1) : Tail(s)[i] = s[i + 1]
  BY HeadTailProperties, <1>1, <1>2
<1>4. DOMAIN Tail(s) = 1..(Len(s) - 1) BY <1>2, LenProperties
<1>5. ASSUME NEW x \in Range(s) PROVE x \in {Head(s)} \cup Range(Tail(s))
  <2>1. PICK i \in 1..Len(s) : s[i] = x BY <1>1, <1>5 DEF Range
  <2>2. CASE i = 1 BY <2>1, <2>2, <1>2
  <2>3. CASE i # 1
    <3>1. i - 1 \in 1..(Len(s) - 1) /\ (i - 1) + 1 = i BY <2>3, <1>1
    <3>2. Tail(s)[i - 1] = x BY <3>1, <2>1, <1>3
    <3> QED BY <3>1, <3>2, <1>4 DEF Range
  <2> QED BY <2>2, <2>3
<1>6. ASSUME NEW x \in {Head(s)} \cup Range(Tail(s)) PROVE x \in Range(s)
  <2>1. CASE x = Head(s)
    <3>1. 1 \in 1..Len(s) BY <1>1
    <3> QED BY <3>1, <2>1, <1>1, <1>2 DEF Range
  <2>2. CASE x \in Range(Tail(s))
    <3>1. PICK i \in 1..(Len(s) - 1) : Tail(s)[i] = x BY <1>4, <2>2 DEF Range
    <3>2. i + 1 \in 1..Len(s) BY <1>1
    <3>3. s[i + 1] = x BY <3>1, <1>3
    <3> QED BY <3>2, <3>3, <1>1 DEF Range
  <2> QED BY <1>6, <2>1, <2>2
<1> QED BY <1>2, <1>5, <1>6

\* What is asked for is to be done, unless it cannot be or the file is only
\* shown.
LEMMA ToolBegins == ToolInit => ToolInv
<1> SUFFICES ASSUME ToolInit PROVE ToolInv
  OBVIOUS
<1> USE DEF ToolInit
<1>1. /\ UiFiles \in Seq(Range(UiFiles)) /\ UiFiles # << >>
      /\ Head(UiFiles) \in Range(UiFiles)
  BY UiFilesAssumption, HeadAndTail
<1>2. <<Head(UiFiles)>> \in Seq(Range(UiFiles)) /\ Range(<<Head(UiFiles)>>) = {Head(UiFiles)}
  BY <1>1 DEF Range
<1>3. << >> \in Seq(Range(UiFiles)) BY EmptySeq
<1>4. jobs \in Seq(Range(UiFiles)) BY <1>1, <1>2, <1>3
<1>5. ToolTypeOK BY <1>4 DEF ToolTypeOK
<1>6. ASSUME status # 1, ~ ask.preview, NEW f \in Range(UiFiles), Wanted(f)
      PROVE  f \in Range(jobs)
  <2>1. Accepted(ask) # "error" BY <1>6
  <2>2. CASE ask.input = "dir"
    <3>1. Accepted(ask) = "all" BY <2>1, <2>2, <1>6 DEF Accepted
    <3> QED BY <3>1, <1>6
  <2>3. CASE ask.input # "dir"
    <3>1. Accepted(ask) = "one" BY <2>1, <2>3, <1>6 DEF Accepted
    <3>2. f = Head(UiFiles) BY <2>3, <1>6 DEF Wanted
    <3> QED BY <3>1, <3>2, <1>2
  <2> QED BY <2>2, <2>3
<1>7. NothingForgotten BY <1>6 DEF NothingForgotten
<1>8. \A f \in Range(UiFiles) : module[f] = "old" OBVIOUS
<1>9. BadIncomplete BY <1>1, <1>8 DEF BadIncomplete
<1>10. status # 0 OBVIOUS
<1> QED BY <1>5, <1>7, <1>9, <1>10 DEF ToolInv

\* A file that is begun was to be done.
LEMMA RunJobKeeps == ASSUME ToolInv, RunJob PROVE ToolInv'
<1> USE DEF ToolInv, RunJob
<1>1. /\ Head(jobs) \in Range(UiFiles) /\ Tail(jobs) \in Seq(Range(UiFiles))
      /\ Range(jobs) = {Head(jobs)} \cup Range(Tail(jobs))
  BY HeadAndTail DEF ToolTypeOK
<1>2. ToolTypeOK' BY <1>1 DEF ToolTypeOK
<1>3. \A f \in Range(UiFiles) :
        /\ f # Head(jobs) => module'[f] = module[f]
        /\ f = Head(jobs) => module'[f] = "partial" /\ f \in running'
  BY DEF ToolTypeOK
<1>4. NothingForgotten' BY <1>1, <1>3 DEF NothingForgotten, Heard, Wanted
<1>5. BadIncomplete'
  <2>1. \A f \in Range(UiFiles) \cap BadFiles : module'[f] # "complete"
    BY <1>3 DEF BadIncomplete
  <2> QED BY <2>1 DEF BadIncomplete
<1> QED BY <1>2, <1>4, <1>5

\* A file that cannot be converted ends the program if it is heard of, and
\* leaves its module incomplete.
LEMMA CompileUiKeeps ==
    ASSUME ToolInv, NEW f \in Range(UiFiles), CompileUi(f)
    PROVE  ToolInv'
<1> USE DEF ToolInv, CompileUi
<1>1. ToolTypeOK' BY DEF ToolTypeOK, AfterFailure
<1>2. CASE f \in BadFiles
  <2>1. module' = module /\ status' = IF Heard THEN 1 ELSE status
    BY <1>2 DEF AfterFailure, Heard
  <2>2. NothingForgotten' BY <2>1 DEF NothingForgotten, Heard
  <2>3. module[f] # "complete" BY <1>2 DEF BadIncomplete
  <2>4. BadIncomplete' BY <2>1, <2>3 DEF BadIncomplete
  <2>5. status' # 0 BY <2>1
  <2> QED BY <1>1, <2>2, <2>4, <2>5
<1>3. CASE f \notin BadFiles
  <2>1. /\ status' = status
        /\ \A g \in Range(UiFiles) :
             /\ g # f => module'[g] = module[g]
             /\ g = f => module'[g] = "complete"
    BY <1>3 DEF ToolTypeOK
  <2>2. NothingForgotten' BY <2>1 DEF NothingForgotten, Heard, Wanted
  <2>3. BadIncomplete' BY <2>1, <1>3 DEF BadIncomplete
  <2> QED BY <1>1, <2>1, <2>2, <2>3
<1> QED BY <1>2, <1>3

\* The program ends when nothing is left to do.
LEMMA ToolExitKeeps == ASSUME ToolInv, ToolExit PROVE ToolInv'
BY DEF ToolInv, ToolExit, ToolTypeOK, NothingForgotten, BadIncomplete, Heard, Wanted

\* ToolInv holds throughout.
LEMMA ToolInvHolds == ToolSpec => []ToolInv
<1>1. ASSUME ToolInv, [ToolNext]_toolVars PROVE ToolInv'
  <2>1. CASE UNCHANGED toolVars
    BY <1>1, <2>1
       DEF toolVars, ToolInv, ToolTypeOK, NothingForgotten, BadIncomplete, Heard, Wanted
  <2> QED BY <1>1, <2>1, RunJobKeeps, CompileUiKeeps, ToolExitKeeps DEF ToolNext
<1> QED BY <1>1, ToolBegins, PTL DEF ToolSpec

\* For any files of the directory, any of them bad, and any numbers of workers:
\* without workers success means that every file that was asked for has its
\* module, and failure always means that one has not (pyuic.py 62-100,
\* compile_ui.py 116-123).
THEOREM StatusIsTrue == ToolSpec => []StatusTells
<1>1. ToolInv => StatusTells
  <2> SUFFICES ASSUME ToolInv PROVE StatusTells
    OBVIOUS
  <2>1. status = 0 => Range(jobs) = {} /\ running = {}
    BY DEF ToolInv, Range
  <2>2. status = 0 => status # 1 OBVIOUS
  <2>3. NothingForgotten /\ BadIncomplete BY DEF ToolInv
  <2> QED BY <2>1, <2>2, <2>3
       DEF StatusTells, NothingForgotten, BadIncomplete, Heard, Wanted
<1> QED BY <1>1, ToolInvHolds, PTL

-----------------------------------------------------------------------------
(* PluginLoaders.                                                          *)

\* What a sequence ranges over.
LEMMA WhatIsInSeq ==
    ASSUME NEW S, NEW s \in Seq(S)
    PROVE  /\ \A x : x \in Range(s) <=> \E i \in 1..Len(s) : s[i] = x
           /\ \A x \in Range(s) : x \in S
           /\ Len(s) \in Nat
<1>1. DOMAIN s = 1..Len(s) /\ Len(s) \in Nat BY LenProperties
<1>2. \A i \in 1..Len(s) : s[i] \in S BY ElementOfSeq
<1>3. \A x : x \in Range(s) <=> \E i \in 1..Len(s) : s[i] = x BY <1>1 DEF Range
<1>4. \A x \in Range(s) : x \in S BY <1>2, <1>3
<1> QED BY <1>1, <1>3, <1>4

\* What a sequence ranges over once something has been appended.
LEMMA WhatIsAppended ==
    ASSUME NEW S, NEW s \in Seq(S), NEW x \in S
    PROVE  /\ Append(s, x) \in Seq(S) /\ Range(Append(s, x)) = Range(s) \cup {x}
           /\ Len(Append(s, x)) = Len(s) + 1 /\ Append(s, x)[Len(s) + 1] = x
           /\ \A i \in 1..Len(s) : Append(s, x)[i] = s[i]
<1>1. PICK a : a = Append(s, x) OBVIOUS
<1>2. /\ a \in Seq(S) /\ Len(a) = Len(s) + 1 /\ a[Len(s) + 1] = x
      /\ \A i \in 1..Len(s) : a[i] = s[i]
  BY <1>1, AppendProperties
<1>3. Len(s) \in Nat BY LenProperties
<1>4. \A y : y \in Range(a) <=> \E i \in 1..Len(a) : a[i] = y BY <1>2, WhatIsInSeq
<1>5. \A y : y \in Range(s) <=> \E i \in 1..Len(s) : s[i] = y BY WhatIsInSeq
<1>6. 1..Len(a) = (1..Len(s)) \cup {Len(s) + 1} BY <1>2, <1>3
<1>7. Range(a) = Range(s) \cup {x} BY <1>2, <1>4, <1>5, <1>6
<1> QED BY <1>1, <1>2, <1>7

\* There are finitely many.
LEMMA NumberOfDirectories == Len(PluginDirs) \in Nat
<1> DEFINE F == Seq([base : STRING, ext : STRING])
<1>1. PluginDirs \in Seq(F) BY PluginAssumption
<1> HIDE DEF F
<1> QED BY <1>1, LenProperties

\* Before the first directory, and before the first engine.
LEMMA PluginsInitial == PluginsInit => PluginIInv
<1> SUFFICES ASSUME PluginsInit PROVE PluginIInv OBVIOUS
<1> USE DEF PluginsInit
<1>1. << >> \in Seq(1..Len(PluginDirs)) /\ << >> \in Seq(STRING) BY EmptySeq
<1>2. Len(PluginDirs) \in Nat BY NumberOfDirectories
<1>3. Range(<< >>) = {} BY DEF Range
<1>4. Range(sysPath) = {} /\ Range(widgets) = {} BY <1>3
<1>5. DOMAIN imported = {} BY <1>1, LenProperties
<1>6. PluginTypeOK
  <2>1. imported \in [DOMAIN imported -> Range(sysPath)] BY <1>1, <1>5, LenProperties, EmptySeq
  <2>2. qmlPlugin \in [QmlModules -> [made : BOOLEAN, sip : BOOLEAN, object : BOOLEAN,
                                     asked : Nat, told : Nat]]
    BY DEF NoPlugin
  <2>3. interp \in BOOLEAN /\ gil \in BOOLEAN OBVIOUS
  <2>4. loader \in {"dirs", "import", "types", "done", "given up"} /\ fetched = {} OBVIOUS
  <2>5. sysPath \in Seq(1..Len(PluginDirs)) /\ types \in Seq(STRING) /\ widgets \in Seq(STRING)
    BY <1>1
  <2> QED BY <1>2, <1>5, <2>1, <2>2, <2>3, <2>4, <2>5 DEF PluginTypeOK
<1>7. DirectoriesInOrder BY <1>4 DEF DirectoriesInOrder
<1> QED BY <1>3, <1>4, <1>5, <1>6, <1>7
        DEF PluginIInv, GilHeld, OnlyFatalErrors, WidgetsOfPlugins, EnginesTold, LeftOfDirectory,
            TriedOrLeft, MadeOrLeft, TypesOfPlugin, NoPlugin

\* A directory is passed over, or its plugins are the next.
LEMMA NextDirectoryStep ==
    ASSUME PluginIInv, NEW starts \in BOOLEAN, NextDirectory(starts)
    PROVE  PluginIInv'
<1> USE DEF PluginIInv, NextDirectory
<1>1. Len(PluginDirs) \in Nat BY NumberOfDirectories
<1>2. dirNo \in Nat /\ dirNo' = dirNo + 1 /\ dirNo' \in 1..Len(PluginDirs)
  <2>1. dirNo \in 0..Len(PluginDirs) BY DEF PluginTypeOK
  <2>2. dirNo < Len(PluginDirs) /\ dirNo' = dirNo + 1 OBVIOUS
  <2> HIDE DEF PluginIInv, NextDirectory
  <2> QED BY <1>1, <2>1, <2>2
<1>3. PluginTypeOK'
  <2>1. dirNo' \in 0..Len(PluginDirs)
    <3> HIDE DEF PluginIInv, NextDirectory
    <3> QED BY <1>1, <1>2
  <2>2. loader' \in {"dirs", "import", "types", "done", "given up"} /\ interp' \in BOOLEAN
        /\ gil' \in BOOLEAN
    BY DEF PluginTypeOK
  <2> QED BY <2>1, <2>2 DEF PluginTypeOK
<1>4. \A d \in Range(sysPath) : d <= dirNo BY DEF DirectoriesInOrder
<1>5. \A d \in Range(sysPath) : d \in Nat /\ d <= dirNo' /\ d # dirNo'
  <2>1. \A d \in Range(sysPath) : d \in 1..Len(PluginDirs) BY WhatIsInSeq DEF PluginTypeOK
  <2> HIDE DEF PluginIInv, NextDirectory
  <2> QED BY <1>1, <1>2, <1>4, <2>1
<1>6. DirectoriesInOrder' BY <1>5 DEF DirectoriesInOrder
<1>7. LeftOfDirectory'
  <2>1. sysPath' = sysPath /\ dirNo + 1 = dirNo' OBVIOUS
  <2>4. dirNo' > 0 /\ dirNo' \notin Range(sysPath)
    <3> HIDE DEF PluginIInv, NextDirectory
    <3> QED BY <1>2, <1>5
  <2>2. loader = "dirs" /\ plugins = {} BY DEF LeftOfDirectory
  <2>3. \/ UNCHANGED <<loader, plugins>>
        \/ loader' = "import" /\ plugins' = PluginsOf(dirNo')
        \/ loader' = "given up"
    BY <2>1
  <2> QED BY <2>1, <2>2, <2>3, <2>4, Zenon DEF LeftOfDirectory
<1>8. TriedOrLeft' BY DEF TriedOrLeft, LeftOfDirectory
<1>9. MadeOrLeft' BY DEF MadeOrLeft
<1>10. GilHeld' BY DEF GilHeld, PluginTypeOK
<1>11. OnlyFatalErrors' BY DEF OnlyFatalErrors, PluginTypeOK
<1>12. EnginesTold' /\ \A m \in QmlModules : qmlPlugin'[m].object => interp'
  BY DEF EnginesTold, PluginTypeOK
<1>13. TypesOfPlugin' BY DEF TypesOfPlugin
<1>14. WidgetsOfPlugins' BY DEF WidgetsOfPlugins
<1> QED BY <1>3, <1>6, <1>7, <1>8, <1>9, <1>10, <1>11, <1>12, <1>13, <1>14

\* The directory comes to sys.path, unless that fails.
LEMMA AddDirectoryStep ==
    ASSUME PluginIInv, NEW found \in BOOLEAN, NEW appended \in BOOLEAN,
           AddDirectory(found, appended)
    PROVE  PluginIInv'
<1> USE DEF PluginIInv, AddDirectory
<1>1. Len(PluginDirs) \in Nat BY NumberOfDirectories
<1>2. dirNo \in 1..Len(PluginDirs) /\ dirNo' = dirNo
  <2>1. dirNo \in 0..Len(PluginDirs) BY DEF PluginTypeOK
  <2>2. dirNo > 0 /\ dirNo' = dirNo BY DEF LeftOfDirectory
  <2> HIDE DEF PluginIInv, AddDirectory
  <2> QED BY <1>1, <2>1, <2>2
<1>3. /\ \A d \in Range(sysPath) : d \in 1..Len(PluginDirs)
      /\ \A d : d \in Range(sysPath) <=> \E i \in 1..Len(sysPath) : sysPath[i] = d
      /\ Len(sysPath) \in Nat
  <2>1. sysPath \in Seq(1..Len(PluginDirs)) BY DEF PluginTypeOK
  <2> HIDE DEF PluginIInv, AddDirectory
  <2> QED BY <2>1, WhatIsInSeq
<1>4. fetched' \subseteq {"path", "unwrapinstance", "custom"} BY DEF PluginTypeOK
<1>5. plugins = PluginsOf(dirNo) /\ loader = "import" BY DEF LeftOfDirectory
<1>6. CASE UNCHANGED sysPath
  <2>1. PluginTypeOK' BY <1>4, <1>6 DEF PluginTypeOK
  <2>2. DirectoriesInOrder' BY <1>6 DEF DirectoriesInOrder
  <2>3. LeftOfDirectory' BY <1>6, <1>2, <1>5 DEF LeftOfDirectory
  <2>4. TriedOrLeft' BY <1>6, <1>5 DEF TriedOrLeft
  <2>5. MadeOrLeft' BY <1>6, <1>5 DEF MadeOrLeft
  <2>6. TypesOfPlugin' BY <1>5 DEF TypesOfPlugin
  <2>7. OnlyFatalErrors' BY <1>5 DEF OnlyFatalErrors, GetModuleAttrs
  <2>8. GilHeld' BY <1>5, <1>6 DEF GilHeld
  <2>9. WidgetsOfPlugins' BY <1>6 DEF WidgetsOfPlugins
  <2>10. EnginesTold' /\ \A m \in QmlModules : qmlPlugin'[m].object => interp' BY DEF EnginesTold
  <2> QED BY <2>1, <2>2, <2>3, <2>4, <2>5, <2>6, <2>7, <2>8, <2>9, <2>10
<1>7. CASE sysPath' = Append(sysPath, dirNo) /\ UNCHANGED <<gil, loader, plugins>>
  <2>1. /\ sysPath' \in Seq(1..Len(PluginDirs)) /\ Range(sysPath') = Range(sysPath) \cup {dirNo}
        /\ Len(sysPath') = Len(sysPath) + 1 /\ sysPath'[Len(sysPath) + 1] = dirNo
        /\ \A i \in 1..Len(sysPath) : sysPath'[i] = sysPath[i]
    <3>1. sysPath \in Seq(1..Len(PluginDirs)) BY DEF PluginTypeOK
    <3> QED BY <3>1, <1>2, <1>7, WhatIsAppended
  <2>2. imported' = imported /\ imported \in [DOMAIN imported -> Range(sysPath')]
    BY <2>1 DEF PluginTypeOK
  <2>3. PluginTypeOK' BY <2>1, <2>2, <1>4, <1>7 DEF PluginTypeOK
  <2>4. \A i \in 1..Len(sysPath) : sysPath[i] \in Nat /\ sysPath[i] < dirNo
    <3>1. \A i \in 1..Len(sysPath) : sysPath[i] \in Range(sysPath) BY <1>3, Zenon
    <3>2. \A d \in Range(sysPath) : d <= dirNo /\ d # dirNo BY DEF DirectoriesInOrder
    <3> HIDE DEF PluginIInv, AddDirectory
    <3>3. \A d \in Range(sysPath) : d \in Nat /\ d < dirNo BY <3>2, <1>1, <1>2, <1>3
    <3> QED BY <3>1, <3>3
  <2>5. DirectoriesInOrder'
    <3>1. ASSUME NEW i \in 1..Len(sysPath'), NEW j \in 1..Len(sysPath'), i < j
          PROVE  sysPath'[i] < sysPath'[j]
      <4>1. i \in 1..Len(sysPath) /\ (j \in 1..Len(sysPath) \/ j = Len(sysPath) + 1)
        <5> HIDE DEF PluginIInv, AddDirectory
        <5>1. Len(sysPath') = Len(sysPath) + 1 /\ Len(sysPath) \in Nat BY <2>1, <1>3
        <5> QED BY <5>1, <3>1
      <4>2. CASE j \in 1..Len(sysPath) BY <4>1, <4>2, <3>1, <2>1 DEF DirectoriesInOrder
      <4>3. CASE j = Len(sysPath) + 1 BY <4>1, <4>3, <2>1, <2>4
      <4> QED BY <4>1, <4>2, <4>3
    <3>2. \A d \in Range(sysPath') : d <= dirNo'
      <4>1. \A d \in Range(sysPath) : d <= dirNo BY DEF DirectoriesInOrder
      <4> HIDE DEF PluginIInv, AddDirectory
      <4>2. dirNo <= dirNo BY <1>1, <1>2
      <4> QED BY <4>1, <4>2, <2>1, <1>2
    <3> QED BY <3>1, <3>2 DEF DirectoriesInOrder
  <2>6. LeftOfDirectory' BY <1>2, <1>5, <1>7, <2>1 DEF LeftOfDirectory
  <2>7. TriedOrLeft' BY <1>2, <1>5, <1>7, <2>1 DEF TriedOrLeft
  <2>8. MadeOrLeft' BY <1>5, <1>7 DEF MadeOrLeft
  <2>9. WidgetsOfPlugins'
    <3>1. \A n \in DOMAIN imported : imported[n] \in Range(sysPath) /\ imported[n] <= dirNo
      BY DEF PluginTypeOK, DirectoriesInOrder
    <3>2. UNCHANGED <<widgets, imported>> OBVIOUS
    <3> QED BY <2>1, <3>1, <3>2 DEF WidgetsOfPlugins
  <2>10. TypesOfPlugin' /\ GilHeld' /\ OnlyFatalErrors' /\ EnginesTold'
    BY <1>5, <1>7 DEF TypesOfPlugin, GilHeld, OnlyFatalErrors, EnginesTold
  <2> QED BY <2>3, <2>5, <2>6, <2>7, <2>8, <2>9, <2>10
<1> QED BY <1>6, <1>7

\* A plugin is imported, or raises an exception of its own.
LEMMA ImportPluginStep ==
    ASSUME PluginIInv, NEW i \in plugins, NEW home \in Range(sysPath),
           NEW imports \in BOOLEAN, NEW found \in BOOLEAN, ImportPlugin(i, home, imports, found)
    PROVE  PluginIInv'
<1> DEFINE name == PluginDirs[dirNo][i].base
           new == [n \in DOMAIN imported \cup {name} |-> IF n = name THEN home ELSE imported[n]]
<1>1. /\ loader = "import" /\ dirNo \in Range(sysPath) /\ i \in PluginsOf(dirNo)
      /\ FoundIn(name, home) /\ plugins' = plugins \ {i}
      /\ UNCHANGED <<interp, dirNo, sysPath, widgets, qmlPlugin>>
  BY DEF ImportPlugin, PluginIInv, LeftOfDirectory
<1>2. gil /\ interp BY <1>1 DEF PluginIInv, GilHeld
<1>3. \/ /\ imported' = new /\ raisers' = raisers
         /\ \/ /\ fetched' = fetched \cup {"custom"}
               /\ types' = Contents[<<home, name>>] /\ loader' = "types" /\ gil' = gil
            \/ /\ ~ GetModuleAttrs({"custom"}, found)
               /\ loader' = "given up" /\ gil' = FALSE /\ UNCHANGED <<fetched, types>>
      \/ /\ raisers' = raisers \cup {name} /\ loader' = "import" /\ gil' = TRUE
         /\ UNCHANGED <<imported, fetched, types>>
  BY DEF ImportPlugin, AfterException
<1>4. name \in PluginNames /\ name \in NamesIn(dirNo) BY <1>1 DEF PluginsOf, IsPlugin, NamesIn
<1>5. sysPath \in Seq(1..Len(PluginDirs)) BY DEF PluginIInv, PluginTypeOK
<1>6. /\ \A d \in Range(sysPath) : d \in 1..Len(PluginDirs)
      /\ \A d : d \in Range(sysPath) <=> \E k \in 1..Len(sysPath) : sysPath[k] = d
      /\ Len(sysPath) \in Nat
  BY <1>5, WhatIsInSeq
<1>7. Contents[<<home, name>>] \in Seq(STRING)
  <2>1. <<home, name>> \in (1..Len(PluginDirs)) \X PluginNames BY <1>4, <1>6
  <2> QED BY <2>1, PluginAssumption
<1>8. /\ imported \in [DOMAIN imported -> Range(sysPath)] /\ DOMAIN imported \subseteq PluginNames
      /\ \A n \in DOMAIN imported : imported[n] \in Range(sysPath)
  BY DEF PluginIInv, PluginTypeOK
<1>9. /\ DOMAIN new = DOMAIN imported \cup {name} /\ new[name] = home
      /\ \A n \in DOMAIN imported : new[n] = imported[n]
      /\ new \in [DOMAIN new -> Range(sysPath)] /\ DOMAIN new \subseteq PluginNames
  BY <1>1, <1>4, <1>8 DEF FoundIn
<1>10. ASSUME NEW d \in Range(sysPath), name \in NamesIn(d) PROVE home <= d
  <2>1. CASE name \in DOMAIN imported
    BY <2>1, <1>1, <1>10 DEF FoundIn, PluginIInv, WidgetsOfPlugins
  <2>2. CASE name \notin DOMAIN imported
    <3>1. PICK k \in 1..Len(sysPath) :
            home = sysPath[k] /\ \A j \in 1..(k - 1) : name \notin NamesIn(sysPath[j])
      BY <2>2, <1>1 DEF FoundIn
    <3>2. PICK j \in 1..Len(sysPath) : sysPath[j] = d BY <1>6
    <3>3. ~ (j \in 1..(k - 1)) BY <1>10, <3>1, <3>2
    <3>4. j = k \/ k < j BY <1>6, <3>3
    <3>5. k < j => sysPath[k] < sysPath[j] BY DEF PluginIInv, DirectoriesInOrder
    <3>6. home \in Nat /\ d \in Nat BY <1>6
    <3> QED BY <3>1, <3>2, <3>4, <3>5, <3>6
  <2> QED BY <2>1, <2>2
<1> HIDE DEF new, name
<1>11. /\ DOMAIN imported \subseteq DOMAIN imported' /\ raisers \subseteq raisers'
       /\ \A n \in DOMAIN imported : imported'[n] = imported[n]
       /\ imported' \in [DOMAIN imported' -> Range(sysPath)] /\ DOMAIN imported' \subseteq PluginNames
       /\ \A n \in DOMAIN imported' : n \in DOMAIN imported \/ (n = name /\ imported'[n] = home)
       /\ name \in DOMAIN imported' \cup raisers'
  BY <1>3, <1>8, <1>9
<1>12. PluginTypeOK'
  <2>1. types' \in Seq(STRING) BY <1>3, <1>7 DEF PluginIInv, PluginTypeOK
  <2>2. fetched' \subseteq {"path", "unwrapinstance", "custom"} BY <1>3 DEF PluginIInv, PluginTypeOK
  <2>3. gil' \in BOOLEAN /\ loader' \in {"dirs", "import", "types", "done", "given up"}
    BY <1>2, <1>3
  <2> QED BY <1>1, <1>11, <2>1, <2>2, <2>3 DEF PluginIInv, PluginTypeOK
<1>13. DirectoriesInOrder' BY <1>1 DEF PluginIInv, DirectoriesInOrder
<1>14. GilHeld' BY <1>1, <1>2, <1>3 DEF GilHeld
<1>15. OnlyFatalErrors'
  <2>1. loader' = "given up" => "custom" \notin fetched' /\ name \in DOMAIN imported'
    BY <1>3, <1>9 DEF GetModuleAttrs
  <2> QED BY <2>1 DEF OnlyFatalErrors
<1>16. LeftOfDirectory'
  <2>1. dirNo > 0 /\ plugins \subseteq PluginsOf(dirNo) BY <1>1 DEF PluginIInv, LeftOfDirectory
  <2>2. loader' \in {"import", "types", "given up"} BY <1>3
  <2> QED BY <1>1, <2>1, <2>2 DEF LeftOfDirectory
<1>17. TriedOrLeft'
  <2> SUFFICES ASSUME NEW d \in Range(sysPath), NEW j \in PluginsOf(d)
               PROVE  \/ PluginDirs[d][j].base \in DOMAIN imported' \cup raisers'
                      \/ d = dirNo /\ j \in plugins \ {i}
      BY <1>1 DEF TriedOrLeft
  <2>1. \/ PluginDirs[d][j].base \in DOMAIN imported \cup raisers
        \/ d = dirNo /\ j \in plugins
      BY <1>1 DEF PluginIInv, TriedOrLeft
  <2>2. CASE d = dirNo /\ j = i BY <2>2, <1>11 DEF name
  <2> QED BY <2>1, <2>2, <1>11
<1>18. MadeOrLeft'
  <2> SUFFICES ASSUME loader' # "given up", NEW n \in DOMAIN imported',
                      NEW t \in Range(Contents[<<imported'[n], n>>]) \cap WidgetTypes
               PROVE  t \in Range(widgets) \cup raisers' \/ (loader' = "types" /\ t \in Range(types'))
      BY <1>1 DEF MadeOrLeft
  <2>1. CASE n \in DOMAIN imported /\ n # name
    <3>1. t \in Range(widgets) \cup raisers
      BY <1>1, <1>11, <2>1 DEF PluginIInv, MadeOrLeft
    <3> QED BY <3>1, <1>11
  <2>2. CASE loader' = "types"
    <3>1. types' = Contents[<<home, name>>] /\ imported' = new BY <2>2, <1>3
    <3>2. CASE n = name BY <3>1, <3>2, <2>2, <1>9
    <3> QED BY <3>2, <2>1, <1>11
  <2>3. CASE loader' = "import"
    <3>1. imported' = imported /\ raisers \subseteq raisers' BY <2>3, <1>3, <1>11
    <3>2. t \in Range(widgets) \cup raisers BY <1>1, <3>1 DEF PluginIInv, MadeOrLeft
    <3> QED BY <3>1, <3>2
  <2> QED BY <2>2, <2>3, <1>3
<1>19. TypesOfPlugin'
  <2>1. CASE loader' = "types"
    <3>1. types' = Contents[<<home, name>>] /\ imported' = new BY <2>1, <1>3
    <3> QED BY <3>1, <1>9 DEF TypesOfPlugin
  <2> QED BY <2>1 DEF TypesOfPlugin
<1>20. WidgetsOfPlugins'
  <2>1. ASSUME NEW t \in Range(widgets)
        PROVE  t \in WidgetTypes /\ \E n \in DOMAIN imported' : t \in Range(Contents[<<imported'[n], n>>])
    <3>1. PICK n \in DOMAIN imported : t \in Range(Contents[<<imported[n], n>>])
      BY <2>1 DEF PluginIInv, WidgetsOfPlugins
    <3>2. n \in DOMAIN imported' /\ imported'[n] = imported[n] BY <1>11
    <3>3. t \in WidgetTypes BY <2>1 DEF PluginIInv, WidgetsOfPlugins
    <3> QED BY <3>1, <3>2, <3>3
  <2>2. ASSUME NEW n \in DOMAIN imported', NEW d \in Range(sysPath), n \in NamesIn(d)
        PROVE  imported'[n] \in Range(sysPath) /\ imported'[n] <= d
    <3>1. CASE n \in DOMAIN imported
      BY <3>1, <1>11, <2>2 DEF PluginIInv, WidgetsOfPlugins
    <3>2. CASE n = name /\ imported'[n] = home BY <3>2, <1>10, <2>2
    <3> QED BY <3>1, <3>2, <1>11
  <2> QED BY <1>1, <2>1, <2>2 DEF WidgetsOfPlugins
<1>21. EnginesTold' /\ \A m \in QmlModules : qmlPlugin'[m].object => interp'
  BY <1>1 DEF PluginIInv, EnginesTold
<1> QED BY <1>12, <1>13, <1>14, <1>15, <1>16, <1>17, <1>18, <1>19, <1>20, <1>21 DEF PluginIInv

\* A type of the module is looked at, and a widget created of it.
LEMMA CreateWidgetStep ==
    ASSUME PluginIInv, NEW created \in BOOLEAN, CreateCustomWidget(created)
    PROVE  PluginIInv'
<1> DEFINE t == Head(types)
<1>1. /\ loader = "types" /\ types # << >> /\ types' = Tail(types)
      /\ UNCHANGED <<interp, gil, loader, dirNo, sysPath, fetched, plugins, imported, qmlPlugin>>
      /\ widgets' = IF t \in WidgetTypes /\ created THEN Append(widgets, t) ELSE widgets
      /\ raisers' = IF t \in WidgetTypes /\ ~ created THEN raisers \cup {t} ELSE raisers
  BY DEF CreateCustomWidget
<1>2. t \in STRING /\ Tail(types) \in Seq(STRING) /\ Range(types) = {t} \cup Range(Tail(types))
  <2>1. types \in Seq(STRING) BY DEF PluginIInv, PluginTypeOK
  <2> QED BY <2>1, <1>1, HeadAndTail
<1> HIDE DEF t
<1>3. /\ widgets' \in Seq(STRING) /\ Range(widgets) \subseteq Range(widgets')
      /\ Range(widgets') \subseteq Range(widgets) \cup ({t} \cap WidgetTypes)
      /\ raisers \subseteq raisers'
      /\ t \in WidgetTypes => t \in Range(widgets') \cup raisers'
  <2>1. widgets \in Seq(STRING) BY DEF PluginIInv, PluginTypeOK
  <2>2. Append(widgets, t) \in Seq(STRING) /\ Range(Append(widgets, t)) = Range(widgets) \cup {t}
    <3>1. PICK S : S = STRING OBVIOUS
    <3>2. widgets \in Seq(S) /\ t \in S BY <2>1, <1>2, <3>1
    <3>3. Append(widgets, t) \in Seq(S) /\ Range(Append(widgets, t)) = Range(widgets) \cup {t}
      BY <3>2, WhatIsAppended
    <3> QED BY <3>1, <3>3
  <2> QED BY <1>1, <2>1, <2>2
<1>4. PluginTypeOK' BY <1>1, <1>2, <1>3 DEF PluginIInv, PluginTypeOK
<1>5. MadeOrLeft'
  <2> SUFFICES ASSUME NEW n \in DOMAIN imported,
                      NEW u \in Range(Contents[<<imported[n], n>>]) \cap WidgetTypes
               PROVE  u \in Range(widgets') \cup raisers' \/ u \in Range(types')
      BY <1>1 DEF MadeOrLeft
  <2>1. u \in Range(widgets) \cup raisers \/ u \in Range(types)
      BY <1>1 DEF PluginIInv, MadeOrLeft
  <2> QED BY <2>1, <1>1, <1>2, <1>3
<1>6. PICK n \in DOMAIN imported : Range(types) \subseteq Range(Contents[<<imported[n], n>>])
  BY <1>1 DEF PluginIInv, TypesOfPlugin
<1>7. TypesOfPlugin' BY <1>1, <1>2, <1>6 DEF TypesOfPlugin
<1>8. WidgetsOfPlugins'
  <2>1. ASSUME NEW u \in Range(widgets')
        PROVE  u \in WidgetTypes /\ \E k \in DOMAIN imported : u \in Range(Contents[<<imported[k], k>>])
    <3>1. CASE u \in Range(widgets) BY <3>1 DEF PluginIInv, WidgetsOfPlugins
    <3>2. CASE u = t /\ t \in WidgetTypes
      <4>1. t \in Range(Contents[<<imported[n], n>>]) BY <1>2, <1>6
      <4> QED BY <4>1, <3>2
    <3> QED BY <3>1, <3>2, <1>3
  <2> QED BY <1>1, <2>1 DEF PluginIInv, WidgetsOfPlugins
<1>9. DirectoriesInOrder' /\ LeftOfDirectory' BY <1>1 DEF PluginIInv, DirectoriesInOrder, LeftOfDirectory
<1>10. TriedOrLeft' BY <1>1, <1>3 DEF PluginIInv, TriedOrLeft
<1>11. GilHeld' /\ OnlyFatalErrors' BY <1>1 DEF PluginIInv, GilHeld, OnlyFatalErrors
<1>12. EnginesTold' /\ \A m \in QmlModules : qmlPlugin'[m].object => interp'
  BY <1>1 DEF PluginIInv, EnginesTold
<1> QED BY <1>4, <1>5, <1>7, <1>8, <1>9, <1>10, <1>11, <1>12 DEF PluginIInv

\* A module, a directory or all of them are done.
LEMMA DoneSteps ==
    ASSUME PluginIInv, ModuleDone \/ DirectoryDone \/ Constructed
    PROVE  PluginIInv'
<1>1. /\ loader \in {"dirs", "import", "types"}
      /\ UNCHANGED <<interp, dirNo, sysPath, fetched, plugins, types, imported, raisers, widgets,
                     qmlPlugin>>
      /\ \/ loader = "types" /\ types = << >> /\ loader' = "import" /\ gil' = gil
         \/ /\ loader = "import" /\ dirNo \in Range(sysPath) /\ plugins = {}
            /\ loader' = "dirs" /\ gil' = FALSE
         \/ loader = "dirs" /\ loader' = "done" /\ gil' = gil
  BY DEF ModuleDone, DirectoryDone, Constructed
<1>2. Range(<< >>) = {} BY DEF Range
<1>3. PluginTypeOK' BY <1>1 DEF PluginIInv, PluginTypeOK
<1>4. GilHeld' /\ OnlyFatalErrors'
  <2>1. GilHeld /\ OnlyFatalErrors BY DEF PluginIInv
  <2>2. loader' # "given up" BY <1>1
  <2>3. GilHeld' BY <1>1, <2>1 DEF GilHeld
  <2> QED BY <2>2, <2>3 DEF OnlyFatalErrors
<1>5. LeftOfDirectory'
  <2>1. loader = "types" => dirNo > 0 /\ plugins \subseteq PluginsOf(dirNo) /\ dirNo \in Range(sysPath)
    BY DEF PluginIInv, LeftOfDirectory
  <2>2. loader = "dirs" => plugins = {} BY DEF PluginIInv, LeftOfDirectory
  <2> QED BY <1>1, <2>1, <2>2 DEF LeftOfDirectory
<1>6. DirectoriesInOrder' /\ TriedOrLeft' BY <1>1 DEF PluginIInv, DirectoriesInOrder, TriedOrLeft
<1>7. MadeOrLeft' BY <1>1, <1>2 DEF PluginIInv, MadeOrLeft
<1>8. WidgetsOfPlugins' /\ TypesOfPlugin' BY <1>1 DEF PluginIInv, WidgetsOfPlugins, TypesOfPlugin
<1>9. EnginesTold' /\ \A m \in QmlModules : qmlPlugin'[m].object => interp'
  BY <1>1 DEF PluginIInv, EnginesTold
<1> QED BY <1>3, <1>4, <1>5, <1>6, <1>7, <1>8, <1>9 DEF PluginIInv

\* The plugins of QML modules touch nothing that is Designer's, and have told their
\* plugin of the engines.
LEMMA QmlPluginRecords ==
    ASSUME PluginIInv, QmlPluginNext
    PROVE  /\ UNCHANGED <<gil, designerVars>> /\ PluginTypeOK' /\ (interp => interp')
           /\ EnginesTold' /\ \A k \in QmlModules : qmlPlugin'[k].object => interp'
<1> DEFINE Records == [made : BOOLEAN, sip : BOOLEAN, object : BOOLEAN, asked : Nat, told : Nat]
           Tended(p, python) ==
             /\ p.told > 0 => p.object /\ p.sip
             /\ p.object /\ p.sip => p.told = p.asked
             /\ p.object => python
<1>1. PICK m \in QmlModules :
        \/ \E ok, api \in BOOLEAN : NewQmlPlugin(m, ok, api) \/ InitializeEngine(m, ok)
        \/ \E fails \in RegisterSteps \cup {"nothing"} : RegisterTypes(m, fails)
        \/ DeleteQmlPlugin(m)
  BY DEF QmlPluginNext
<1>2. /\ UNCHANGED <<gil, designerVars>> /\ interp' \in BOOLEAN /\ (interp => interp')
  BY <1>1 DEF NewQmlPlugin, InitializeEngine, RegisterTypes, DeleteQmlPlugin, PluginIInv, PluginTypeOK
<1>3. /\ qmlPlugin \in [QmlModules -> Records] /\ \A k \in QmlModules : qmlPlugin[k] \in Records
      /\ \A k \in QmlModules : Tended(qmlPlugin[k], interp)
  BY DEF PluginIInv, PluginTypeOK, EnginesTold
<1>4. PICK p \in Records : qmlPlugin' = [qmlPlugin EXCEPT ![m] = p] /\ Tended(p, interp')
  <2> DEFINE q == qmlPlugin[m]
  <2>1. CASE \E ok, api \in BOOLEAN : NewQmlPlugin(m, ok, api)
    <3>1. PICK ok, api \in BOOLEAN : NewQmlPlugin(m, ok, api) BY <2>1
    <3> DEFINE r == [NoPlugin EXCEPT !.made = TRUE, !.sip = GetsSipApi(ok, api)]
    <3>2. PICK api2 \in BOOLEAN : api2 = GetsSipApi(ok, api) BY DEF GetsSipApi
    <3>7. r.told = 0 /\ ~ (0 > 0) BY DEF NoPlugin
    <3>4. r \in Records BY <3>2 DEF NoPlugin
    <3>5. r.object = FALSE BY DEF NoPlugin
    <3>6. Tended(r, interp') BY <3>5, <3>7, Zenon
    <3>3. qmlPlugin' = [qmlPlugin EXCEPT ![m] = r] BY <3>1 DEF NewQmlPlugin
    <3> QED BY <3>3, <3>4, <3>6
  <2>2. CASE \E ok \in BOOLEAN : InitializeEngine(m, ok)
    <3>1. PICK ok \in BOOLEAN : InitializeEngine(m, ok) BY <2>2
    <3> DEFINE tells == interp /\ q.object /\ q.sip /\ ok
               r == [q EXCEPT !.asked = IF ok THEN @ + 1 ELSE @, !.told = IF tells THEN @ + 1 ELSE @]
    <3>2. q \in Records /\ Tended(q, interp) BY <1>3
    <3>3. interp' = interp BY <3>1 DEF InitializeEngine
    <3>7. PICK asked, told \in Nat :
            /\ asked = (IF ok THEN q.asked + 1 ELSE q.asked)
            /\ told = (IF tells THEN q.told + 1 ELSE q.told)
      BY <3>2
    <3>4. r \in Records BY <3>2, <3>7
    <3>5. Tended(r, interp') BY <3>2, <3>3
    <3>6. qmlPlugin' = [qmlPlugin EXCEPT ![m] = r]
      BY <3>1, <1>3 DEF InitializeEngine
    <3> QED BY <3>4, <3>5, <3>6
  <2>3. CASE \E fails \in RegisterSteps \cup {"nothing"} : RegisterTypes(m, fails)
    <3>1. PICK fails \in RegisterSteps \cup {"nothing"} : RegisterTypes(m, fails) BY <2>3
    <3> DEFINE r == [q EXCEPT !.object = fails \notin RegisterSteps]
    <3>2. q \in Records /\ Tended(q, interp) BY <1>3
    <3>3. interp' = interp /\ interp /\ q.asked = 0 /\ ~ q.object BY <3>1 DEF RegisterTypes
    <3>6. r.made = q.made /\ r.sip = q.sip /\ r.asked = 0 /\ r.told = q.told
      BY <3>2, <3>3
    <3>7. q.told = 0
      <4>1. q.told \in Nat BY <3>2
      <4>2. ~ (q.told > 0) BY <3>2, <3>3, Zenon
      <4> QED BY <4>1, <4>2
    <3>8. r.object \in BOOLEAN /\ Tended(r, interp') BY <3>2, <3>3, <3>6, <3>7
    <3>4. r \in Records /\ Tended(r, interp') BY <3>2, <3>6, <3>8
    <3>5. qmlPlugin' = [qmlPlugin EXCEPT ![m] = r] BY <3>1, <1>3 DEF RegisterTypes
    <3> QED BY <3>4, <3>5
  <2>4. CASE DeleteQmlPlugin(m)
    <3>1. NoPlugin \in Records BY DEF NoPlugin
    <3>3. NoPlugin.told = 0 /\ ~ (0 > 0) BY DEF NoPlugin
    <3>4. NoPlugin.object = FALSE BY DEF NoPlugin
    <3>2. Tended(NoPlugin, interp') BY <3>3, <3>4, Zenon
    <3> QED BY <3>1, <3>2, <2>4 DEF DeleteQmlPlugin
  <2> QED BY <1>1, <2>1, <2>2, <2>3, <2>4
<1>5. qmlPlugin' \in [QmlModules -> Records] BY <1>3, <1>4
<1>6. \A k \in QmlModules : Tended(qmlPlugin'[k], interp')
  BY <1>2, <1>3, <1>4
<1>7. EnginesTold' /\ \A k \in QmlModules : qmlPlugin'[k].object => interp' BY <1>6 DEF EnginesTold
<1>8. PluginTypeOK' BY <1>2, <1>5 DEF designerVars, PluginIInv, PluginTypeOK
<1> QED BY <1>2, <1>7, <1>8

\* They are made where nothing loads the plugins of Designer.
LEMMA QmlPluginStep ==
    ASSUME PluginIInv, QmlPluginNext, loader = "dirs"
    PROVE  PluginIInv' /\ loader' = "dirs"
<1>1. /\ UNCHANGED <<gil, designerVars>> /\ PluginTypeOK' /\ (interp => interp')
      /\ EnginesTold' /\ \A k \in QmlModules : qmlPlugin'[k].object => interp'
  BY QmlPluginRecords
<1>2. DirectoriesInOrder' /\ LeftOfDirectory' /\ TriedOrLeft' /\ MadeOrLeft' /\ TypesOfPlugin'
  BY <1>1 DEF designerVars, PluginIInv, DirectoriesInOrder, LeftOfDirectory, TriedOrLeft, MadeOrLeft,
              TypesOfPlugin
<1>3. GilHeld' BY <1>1 DEF designerVars, PluginIInv, GilHeld
<1>4. OnlyFatalErrors' /\ WidgetsOfPlugins'
  BY <1>1 DEF designerVars, PluginIInv, OnlyFatalErrors, WidgetsOfPlugins
<1> QED BY <1>1, <1>2, <1>3, <1>4 DEF PluginIInv, designerVars

\* Designer's plugins and those of QML modules.
THEOREM DesignerInvariance == DesignerSpec => []PluginIInv
<1>1. PluginsInit => PluginIInv BY PluginsInitial
<1>2. PluginIInv /\ [DesignerNext]_pluginVars => PluginIInv'
  <2> SUFFICES ASSUME PluginIInv, [DesignerNext]_pluginVars PROVE PluginIInv' OBVIOUS
  <2>1. CASE DesignerNext
    BY <2>1, NextDirectoryStep, AddDirectoryStep, CreateWidgetStep, ImportPluginStep, DoneSteps
       DEF DesignerNext
  <2>2. CASE UNCHANGED pluginVars
    BY <2>2 DEF pluginVars, designerVars, PluginIInv, PluginTypeOK, GilHeld, OnlyFatalErrors,
                WidgetsOfPlugins, EnginesTold, DirectoriesInOrder, LeftOfDirectory, TriedOrLeft,
                MadeOrLeft, TypesOfPlugin
  <2> QED BY <2>1, <2>2
<1> QED BY <1>1, <1>2, PTL DEF DesignerSpec

\* The same of qmlscene, which creates no widgets.
LEMMA QmlPluginInvariance == QmlPluginSpec => [](PluginIInv /\ loader = "dirs")
<1>1. PluginsInit => PluginIInv /\ loader = "dirs" BY PluginsInitial DEF PluginsInit
<1>2. PluginIInv /\ loader = "dirs" /\ [QmlPluginNext]_pluginVars => (PluginIInv /\ loader = "dirs")'
  <2> SUFFICES ASSUME PluginIInv, loader = "dirs", [QmlPluginNext]_pluginVars
               PROVE  PluginIInv' /\ loader' = "dirs"
      OBVIOUS
  <2>1. CASE QmlPluginNext BY <2>1, QmlPluginStep
  <2>2. CASE UNCHANGED pluginVars
    BY <2>2 DEF pluginVars, designerVars, PluginIInv, PluginTypeOK, GilHeld, OnlyFatalErrors,
                WidgetsOfPlugins, EnginesTold, DirectoriesInOrder, LeftOfDirectory, TriedOrLeft,
                MadeOrLeft, TypesOfPlugin
  <2> QED BY <2>1, <2>2
<1> QED BY <1>1, <1>2, PTL DEF QmlPluginSpec

\* Whatever can be imported and created, in whatever directories: an exception in one
\* plugin stops no other, the GIL is given up, and what Designer gets are widgets of
\* the plugin that Python finds first (designer/pluginloader.cpp); and the plugin that
\* started the interpreter tells its Python plugin of every engine
\* (qmlscene/pluginloader.cpp).
THEOREM PluginsAreLoaded == DesignerSpec \/ QmlPluginSpec => []PluginsLoaded
<1>1. PluginIInv => PluginsLoaded
  <2> SUFFICES ASSUME PluginIInv PROVE PluginsLoaded OBVIOUS
  <2>1. GilHeld /\ OnlyFatalErrors /\ WidgetsOfPlugins /\ EnginesTold BY DEF PluginIInv
  <2>2. EveryPluginTried
    <3> SUFFICES ASSUME loader = "done" PROVE EveryPluginTried BY DEF EveryPluginTried
    <3>1. plugins = {} BY DEF PluginIInv, LeftOfDirectory
    <3>2. \A d \in Range(sysPath) : \A i \in PluginsOf(d) :
            PluginDirs[d][i].base \in DOMAIN imported \cup raisers
      BY <3>1 DEF PluginIInv, TriedOrLeft
    <3>3. \A d \in Range(sysPath) : NamesIn(d) \subseteq DOMAIN imported \cup raisers
      BY <3>2 DEF NamesIn
    <3>4. \A n \in DOMAIN imported : \A t \in Range(Contents[<<imported[n], n>>]) \cap WidgetTypes :
            t \in Range(widgets) \cup raisers
      BY DEF PluginIInv, MadeOrLeft
    <3> QED BY <3>3, <3>4 DEF EveryPluginTried
  <2> QED BY <2>1, <2>2 DEF PluginsLoaded
<1>2. DesignerSpec => []PluginsLoaded BY <1>1, DesignerInvariance, PTL
<1>3. QmlPluginSpec => []PluginsLoaded BY <1>1, QmlPluginInvariance, PTL
<1> QED BY <1>2, <1>3

-----------------------------------------------------------------------------
(* UiCompiler.                                                             *)

\* A sequence of statements and one more.
LEMMA OneMore ==
    ASSUME NEW s \in Seq(Statement), NEW st \in Statement
    PROVE  /\ Append(s, st) \in Seq(Statement) /\ Len(s) \in Nat
           /\ Len(Append(s, st)) = Len(s) + 1 /\ Append(s, st)[Len(s) + 1] = st
           /\ DOMAIN s = 1..Len(s) /\ DOMAIN Append(s, st) = 1..(Len(s) + 1)
           /\ \A i \in DOMAIN s : Append(s, st)[i] = s[i]
           /\ s \o <<st>> = Append(s, st) /\ s \o << >> = s
OBVIOUS

\* What is before a statement stays.
LEMMA BeforeStays ==
    ASSUME NEW s \in Seq(Statement), NEW st \in Statement, NEW i \in 1..(Len(s) + 1), NEW do
    PROVE  /\ \A j : LastBefore(s, i, j, do) <=> LastBefore(Append(s, st), i, j, do)
           /\ \A place : ItemBefore(s, i, place) <=> ItemBefore(Append(s, st), i, place)
           /\ \A v : SavedBefore(s, i, v) <=> SavedBefore(Append(s, st), i, v)
<1>1. /\ Len(s) \in Nat /\ DOMAIN s = 1..Len(s)
      /\ \A k \in 1..(i - 1) : k \in DOMAIN s /\ Append(s, st)[k] = s[k]
  BY OneMore
<1>2. \A j : j \in 1..(i - 1) => \A k \in (j + 1)..(i - 1) : k \in 1..(i - 1) BY <1>1
<1>3. ASSUME NEW d, NEW j
      PROVE  LastBefore(s, i, j, d) <=> LastBefore(Append(s, st), i, j, d)
  BY <1>1, <1>2 DEF LastBefore
<1>4. \A place : ItemBefore(s, i, place) <=> ItemBefore(Append(s, st), i, place)
  BY <1>1, <1>3 DEF ItemBefore
<1>5. \A v : SavedBefore(s, i, v) <=> SavedBefore(Append(s, st), i, v)
  BY <1>1, <1>3 DEF SavedBefore
<1> QED BY <1>3, <1>4, <1>5

\* The last statement of a kind stays the last if another kind follows.
LEMMA LastStays ==
    ASSUME NEW s \in Seq(Statement), NEW st \in Statement
    PROVE  LET t == Append(s, st)
           IN  /\ st.do # "item" =>
                    \A place : ItemBefore(s, Len(s) + 1, place) => ItemBefore(t, Len(t) + 1, place)
               /\ st.do # "save" =>
                    \A v : SavedBefore(s, Len(s) + 1, v) => SavedBefore(t, Len(t) + 1, v)
               /\ st.do = "item" => ItemBefore(t, Len(t) + 1, <<st.view, st.row>>)
               /\ st.do = "save" => SavedBefore(t, Len(t) + 1, st.view)
<1> DEFINE t == Append(s, st)
           n == Len(s)
<1>1. /\ n \in Nat /\ Len(t) = n + 1 /\ t[n + 1] = st /\ DOMAIN s = 1..n
      /\ \A i \in 1..n : t[i] = s[i]
  BY OneMore
<1> HIDE DEF t, n
<1>2. ASSUME NEW do, st.do # do, NEW j, LastBefore(s, n + 1, j, do)
      PROVE  LastBefore(t, Len(t) + 1, j, do) /\ t[j] = s[j] /\ j \in 1..(Len(t) + 1 - 1)
  BY <1>1, <1>2 DEF LastBefore
<1>3. LastBefore(t, Len(t) + 1, n + 1, st.do) BY <1>1 DEF LastBefore
<1>4. n + 1 \in 1..(Len(t) + 1 - 1) BY <1>1
<1>5. ASSUME st.do # "item", NEW place, ItemBefore(s, n + 1, place)
      PROVE  ItemBefore(t, Len(t) + 1, place)
  <2>1. PICK j : LastBefore(s, n + 1, j, "item") /\ s[j].view = place[1] /\ s[j].row = place[2]
    BY <1>5 DEF ItemBefore
  <2> QED BY <1>2, <1>5, <2>1 DEF ItemBefore
<1>6. ASSUME st.do # "save", NEW v, SavedBefore(s, n + 1, v)
      PROVE  SavedBefore(t, Len(t) + 1, v)
  <2>1. PICK j : LastBefore(s, n + 1, j, "save") /\ s[j].view = v BY <1>6 DEF SavedBefore
  <2> QED BY <1>2, <1>6, <2>1 DEF SavedBefore
<1>7. st.do = "item" => ItemBefore(t, Len(t) + 1, <<st.view, st.row>>)
  BY <1>1, <1>3, <1>4 DEF ItemBefore
<1>8. st.do = "save" => SavedBefore(t, Len(t) + 1, st.view)
  BY <1>1, <1>3, <1>4 DEF SavedBefore
<1> QED BY <1>5, <1>6, <1>7, <1>8 DEF t, n

\* A statement that is right is added to others that are.
LEMMA RightAdded ==
    ASSUME NEW s \in Seq(Statement), NEW st \in Statement, NEW texts, NEW items, NEW views,
           StatementsRight(s, texts, items, views),
           st.do = "text" =>
             /\ st.key \in DOMAIN texts /\ texts[st.key] = "translated"
             /\ \/ st.by = <<"object", st.key[1]>>
                \/ /\ st.by = <<"row", st.key[1]>> /\ st.key[1][1] \in DOMAIN items
                   /\ st.key[1][2] \in DOMAIN items[st.key[1][1]]
                \/ st.by = <<"local", "item">> /\ ItemBefore(s, Len(s) + 1, st.key[1]),
           st.do = "item" => st.view \in DOMAIN items /\ st.row \in DOMAIN items[st.view],
           st.do = "sort" => /\ st.value = "on" => st.view \in views
                             /\ st.value = "saved" => SavedBefore(s, Len(s) + 1, st.view)
    PROVE  /\ StatementsRight(Append(s, st), texts, items, views)
           /\ \A key : IsPutOff(s, key) => IsPutOff(Append(s, st), key)
           /\ st.do = "text" => IsPutOff(Append(s, st), st.key)
<1> DEFINE t == Append(s, st)
           n == Len(s)
<1>1. /\ n \in Nat /\ Len(t) = n + 1 /\ t[n + 1] = st /\ DOMAIN s = 1..n
      /\ \A i \in 1..n : t[i] = s[i] /\ DOMAIN t = 1..(n + 1)
      /\ DOMAIN t = 1..(n + 1)
  BY OneMore
<1>2. \A i \in 1..(n + 1) :
        /\ \A place : ItemBefore(s, i, place) <=> ItemBefore(t, i, place)
        /\ \A v : SavedBefore(s, i, v) <=> SavedBefore(t, i, v)
  BY BeforeStays
<1> HIDE DEF t, n
<1>3. ASSUME NEW i \in DOMAIN t
      PROVE  TextRight(t, i, texts, items) /\ ItemRight(t, i, items) /\ SortRight(t, i, views)
  <2>1. CASE i \in 1..n
    <3>1. TextRight(s, i, texts, items) /\ ItemRight(s, i, items) /\ SortRight(s, i, views)
      BY <1>1, <2>1 DEF StatementsRight
    <3>2. t[i] = s[i] /\ i \in 1..(n + 1) BY <1>1, <2>1
    <3> QED BY <3>1, <3>2, <1>2 DEF TextRight, ItemRight, SortRight
  <2>2. CASE i = n + 1
    <3>1. t[i] = st /\ i \in 1..(n + 1) BY <1>1, <2>2
    <3>2. \A place : ItemBefore(s, i, place) <=> ItemBefore(t, i, place) BY <1>2, <3>1
    <3>3. \A v : SavedBefore(s, i, v) <=> SavedBefore(t, i, v) BY <1>2, <3>1
    <3>4. i = Len(s) + 1 BY <2>2 DEF n
    <3>5. TextRight(t, i, texts, items) BY <3>1, <3>2, <3>4 DEF TextRight
    <3>6. ItemRight(t, i, items) /\ SortRight(t, i, views)
      BY <3>1, <3>3, <3>4 DEF ItemRight, SortRight
    <3> QED BY <3>5, <3>6
  <2> QED BY <1>1, <2>1, <2>2
<1>4. \A key : IsPutOff(s, key) => IsPutOff(t, key) BY <1>1 DEF IsPutOff
<1>5. st.do = "text" => IsPutOff(t, st.key) BY <1>1 DEF IsPutOff
<1> QED BY <1>3, <1>4, <1>5 DEF StatementsRight, t

\* What was right stays right when the file has more.
LEMMA RightStays ==
    ASSUME NEW s, NEW texts, NEW items, NEW views, NEW moreTexts, NEW moreItems, NEW moreViews,
           StatementsRight(s, texts, items, views),
           \A key \in DOMAIN texts : key \in DOMAIN moreTexts /\ moreTexts[key] = texts[key],
           \A v \in DOMAIN items : v \in DOMAIN moreItems /\ DOMAIN items[v] \subseteq DOMAIN moreItems[v],
           views \subseteq moreViews
    PROVE  StatementsRight(s, moreTexts, moreItems, moreViews)
<1>1. ASSUME NEW i \in DOMAIN s
      PROVE  /\ TextRight(s, i, moreTexts, moreItems) /\ ItemRight(s, i, moreItems)
             /\ SortRight(s, i, moreViews)
  <2>1. TextRight(s, i, texts, items) /\ ItemRight(s, i, items) /\ SortRight(s, i, views)
    BY DEF StatementsRight
  <2>2. TextRight(s, i, moreTexts, moreItems) BY <2>1 DEF TextRight
  <2>3. ItemRight(s, i, moreItems) BY <2>1 DEF ItemRight
  <2>4. SortRight(s, i, moreViews) BY <2>1 DEF SortRight
  <2> QED BY <2>2, <2>3, <2>4
<1> QED BY <1>1 DEF StatementsRight

\* Nothing has been written.
LEMMA GenBegins == GenInit => GenIInv
<1> SUFFICES ASSUME GenInit PROVE GenIInv
  OBVIOUS
<1> USE DEF GenInit
<1>1. GenTypeOK BY EmptySeq DEF GenTypeOK
<1>2. KeysKept /\ RowsKept BY DEF KeysKept, RowsKept
<1>3. StatementsKept /\ AllPutOff BY DEF StatementsKept, StatementsRight, AllPutOff
<1>4. ViewSaved BY DEF ViewSaved
<1>5. PhaseKept BY DEF PhaseKept, SetDelayedProps
<1>6. SortersKept /\ GotKept BY DEF SortersKept, GotKept
<1>7. TextsKept BY DEF TextsKept
<1> QED BY <1>1, <1>2, <1>3, <1>4, <1>5, <1>6, <1>7 DEF GenIInv

\* While the file is handled nothing is executed but setupUi().
LEMMA WritingKeeps ==
    ASSUME GenIInv, Writing, UNCHANGED runVars, toSort \subseteq toSort',
           GenTypeOK', KeysKept', RowsKept', StatementsKept', AllPutOff', ViewSaved',
           \A key \in DOMAIN file' :
             key[1][1] \notin toSort' /\ file'[key] = "plain" => shows'[key] = <<key, 0>>
    PROVE  GenIInv'
<1> USE DEF GenIInv, Writing, runVars
<1>1. at = 0 /\ at' = 0 /\ language' = 0 BY DEF PhaseKept, GenTypeOK
<1>2. PhaseKept' BY DEF PhaseKept
<1>3. SortersKept' BY <1>1 DEF SortersKept
<1>4. GotKept' BY <1>1 DEF GotKept
<1>5. TextsKept' BY <1>1 DEF TextsKept, TextKept
<1> QED BY <1>2, <1>3, <1>4, <1>5

\* Another text in a dictionary of texts.
LEMMA OneGiven ==
    ASSUME NEW f, NEW key, NEW v
    PROVE  /\ DOMAIN Given(f, key, v) = {key} \cup DOMAIN f /\ Given(f, key, v)[key] = v
           /\ \A k \in DOMAIN f : k # key => Given(f, key, v)[k] = f[k]
BY DEF Given

\* A text that is put off is added to the statements.
LEMMA TextAdded ==
    ASSUME NEW s \in Seq(Statement), NEW texts, NEW items, NEW views,
           StatementsRight(s, texts, items, views),
           NEW by \in Ways,
           NEW key \in Keys, NEW string \in Texts, key \in DOMAIN texts, texts[key] = string,
           string = "translated" =>
             \/ by = <<"object", key[1]>>
             \/ /\ by = <<"row", key[1]>> /\ key[1][1] \in DOMAIN items
                /\ key[1][2] \in DOMAIN items[key[1][1]]
             \/ by = <<"local", "item">> /\ ItemBefore(s, Len(s) + 1, key[1])
    PROVE  LET t == s \o Later(by, key, string)
           IN  /\ t \in Seq(Statement) /\ StatementsRight(t, texts, items, views)
               /\ \A k : IsPutOff(s, k) => IsPutOff(t, k)
               /\ string = "translated" => IsPutOff(t, key)
               /\ \A place : ItemBefore(s, Len(s) + 1, place) => ItemBefore(t, Len(t) + 1, place)
               /\ \A v : SavedBefore(s, Len(s) + 1, v) => SavedBefore(t, Len(t) + 1, v)
<1> DEFINE st == [do |-> "text", by |-> by, key |-> key]
<1>1. CASE string = "translated"
  <2>1. st \in Statement BY DEF Statement
  <2>2. s \o Later(by, key, string) = Append(s, st) BY <1>1, <2>1, OneMore DEF Later
  <2>3. st.do = "text" /\ st.by = by /\ st.key = key OBVIOUS
  <2> HIDE DEF st
  <2>4. Append(s, st) \in Seq(Statement) BY <2>1, OneMore
  <2>5. /\ StatementsRight(Append(s, st), texts, items, views)
        /\ \A k : IsPutOff(s, k) => IsPutOff(Append(s, st), k)
        /\ IsPutOff(Append(s, st), key)
    BY <1>1, <2>1, <2>3, RightAdded
  <2> QED BY <2>1, <2>2, <2>3, <2>4, <2>5, LastStays
<1>2. CASE string # "translated"
  <2>1. s \o Later(by, key, string) = s BY <1>2 DEF Later
  <2> QED BY <1>2, <2>1
<1> QED BY <1>1, <1>2

\* What setting a text writes.
LEMMA TextIsSet ==
    ASSUME NEW by, NEW key, NEW string, SetText(by, key, string), key \notin DOMAIN file,
           DOMAIN file \subseteq DOMAIN shows
    PROVE  /\ DOMAIN file' = {key} \cup DOMAIN file /\ file'[key] = string
           /\ \A k \in DOMAIN file : file'[k] = file[k]
           /\ DOMAIN shows' = {key} \cup DOMAIN shows /\ shows'[key] = WrittenNow(key, string)
           /\ \A k \in DOMAIN file : shows'[k] = shows[k]
           /\ again' = again \o Later(by, key, string)
BY DEF SetText, Given

\* The text of a widget or the title of a page.
LEMMA ObjectStep ==
    ASSUME GenIInv, Writing, UNCHANGED runVars, UNCHANGED <<view, toSort, rows>>, view = NoView,
           NEW w \in Objects, w \notin attributes, attributes' = attributes \cup {w},
           NEW what \in {"text", "title"}, NEW string \in Texts,
           SetText(<<"object", <<w, 0>>>>, <<<<w, 0>>, what>>, string)
    PROVE  GenIInv'
<1> DEFINE key == <<<<w, 0>>, what>>
           by == <<"object", <<w, 0>>>>
<1> USE DEF GenIInv
<1>1. /\ key \in Keys /\ key[1] = <<w, 0>> /\ key[1][1] = w
      /\ by \in Ways
  BY DEF Keys, Ways
<1>2. SetText(by, key, string) OBVIOUS
<1>3. by = <<"object", key[1]>> OBVIOUS
<1> HIDE DEF key, by
<1>4. key \notin DOMAIN file BY <1>1 DEF KeysKept
<1>5. /\ DOMAIN file' = {key} \cup DOMAIN file /\ file'[key] = string
      /\ \A k \in DOMAIN file : file'[k] = file[k]
      /\ again' = again \o Later(by, key, string)
  BY <1>2, <1>4, TextIsSet DEF GenTypeOK
<1>6. /\ DOMAIN shows' = {key} \cup DOMAIN shows /\ shows'[key] = WrittenNow(key, string)
      /\ \A k \in DOMAIN file : shows'[k] = shows[k]
  BY <1>2, <1>4, TextIsSet DEF GenTypeOK
<1>7. again \in Seq(Statement) BY DEF GenTypeOK
<1>8. StatementsRight(again, file', rows', toSort')
  BY <1>5, RightStays DEF StatementsKept
<1>9. /\ again' \in Seq(Statement) /\ StatementsRight(again', file', rows', toSort')
      /\ \A k : IsPutOff(again, k) => IsPutOff(again', k)
      /\ string = "translated" => IsPutOff(again', key)
  <2>1. key \in DOMAIN file' /\ file'[key] = string /\ key \in Keys BY <1>1, <1>5
  <2>2. string = "translated" => by = <<"object", key[1]>> BY <1>3
  <2>3. LET t == again \o Later(by, key, string)
        IN  /\ t \in Seq(Statement) /\ StatementsRight(t, file', rows', toSort')
            /\ \A k : IsPutOff(again, k) => IsPutOff(t, k)
            /\ string = "translated" => IsPutOff(t, key)
    BY <1>1, <1>7, <1>8, <2>1, <2>2, TextAdded, Zenon
  <2> QED BY <1>5, <2>3
<1>10. GenTypeOK'
  <2>1. file' \in [DOMAIN file' -> Texts] BY <1>2, <1>5 DEF GenTypeOK, SetText, Given
  <2> QED BY <1>1, <1>5, <1>6, <1>9, <2>1 DEF GenTypeOK, runVars
<1>11. KeysKept' BY <1>1, <1>5 DEF KeysKept, GenTypeOK
<1>12. RowsKept' BY DEF RowsKept
<1>13. AllPutOff' BY <1>5, <1>9 DEF AllPutOff
<1>14. ViewSaved' BY DEF ViewSaved
<1>15. ASSUME NEW k \in DOMAIN file', k[1][1] \notin toSort', file'[k] = "plain"
       PROVE  shows'[k] = <<k, 0>>
  <2>1. CASE k = key BY <1>5, <1>6, <1>15, <2>1 DEF WrittenNow
  <2>2. CASE k \in DOMAIN file BY <1>5, <1>6, <1>15, <2>2 DEF TextsKept, TextKept
  <2> QED BY <1>5, <2>1, <2>2
<1> QED
  BY <1>9, <1>10, <1>11, <1>12, <1>13, <1>14, <1>15, WritingKeeps DEF StatementsKept
\* A widget and a page.
LEMMA ObjectKeeps ==
    ASSUME GenIInv, NEW w \in Objects, NEW string \in Texts, NewWidget(w, string) \/ NewPage(w, string)
    PROVE  GenIInv'
<1>1. /\ Writing /\ UNCHANGED runVars /\ UNCHANGED <<view, toSort, rows>> /\ view = NoView
      /\ w \notin attributes /\ attributes' = attributes \cup {w}
  BY DEF NewWidget, NewPage, GenCall
<1>2. CASE NewWidget(w, string)
  <2>1. SetText(<<"object", <<w, 0>>>>, <<<<w, 0>>, "text">>, string) BY <1>2 DEF NewWidget
  <2> QED BY <1>1, <2>1, ObjectStep
<1>3. CASE NewPage(w, string)
  <2>1. SetText(<<"object", <<w, 0>>>>, <<<<w, 0>>, "title">>, string) BY <1>3 DEF NewPage
  <2> QED BY <1>1, <2>1, ObjectStep
<1> QED BY <1>2, <1>3

\* A view.
LEMMA ViewKeeps ==
    ASSUME GenIInv, NEW v \in Objects, v # NoView, NEW sorts \in BOOLEAN, NewView(v, sorts)
    PROVE  GenIInv'
<1> USE DEF GenIInv
<1>1. /\ Writing /\ UNCHANGED runVars /\ view = NoView /\ v \notin attributes
      /\ attributes' = attributes \cup {v} /\ view' = v /\ UNCHANGED <<file, shows>>
      /\ toSort' = IF sorts THEN toSort \cup {v} ELSE toSort
      /\ again' = IF sorts THEN Append(again, Sort(v, "on")) ELSE again
  BY DEF NewView, GenCall
<1>2. v \notin DOMAIN rows /\ again \in Seq(Statement) BY <1>1 DEF GenTypeOK
<1>3. /\ DOMAIN rows' = {v} \cup DOMAIN rows /\ rows'[v] = << >>
      /\ \A x \in DOMAIN rows : rows'[x] = rows[x]
  BY <1>2 DEF NewView, Given
<1>4. StatementsRight(again, file', rows', toSort')
  BY <1>1, <1>3, RightStays DEF StatementsKept
<1>5. Sort(v, "on") \in Statement /\ Sort(v, "on").do = "sort" /\ Sort(v, "on").view = v
      /\ Sort(v, "on").value = "on"
  BY DEF Sort, Statement
<1>8. /\ again' \in Seq(Statement) /\ StatementsRight(again', file', rows', toSort')
      /\ \A k : IsPutOff(again, k) => IsPutOff(again', k)
  <2>1. CASE sorts
    <3>1. again' = Append(again, Sort(v, "on")) /\ v \in toSort' BY <1>1, <2>1
    <3>2. again' \in Seq(Statement) BY <1>2, <1>5, <3>1, OneMore
    <3>3. /\ StatementsRight(Append(again, Sort(v, "on")), file', rows', toSort')
          /\ \A k : IsPutOff(again, k) => IsPutOff(Append(again, Sort(v, "on")), k)
      BY <1>2, <1>4, <1>5, <3>1, RightAdded
    <3> QED BY <3>1, <3>2, <3>3
  <2>2. CASE ~ sorts BY <1>1, <1>2, <1>4, <2>2
  <2> QED BY <2>1, <2>2
<1>9. GenTypeOK'
  <2>1. \A x \in DOMAIN rows' : rows'[x] \in Seq({x} \X Nat)
    BY <1>3, EmptySeq DEF GenTypeOK
  <2> QED BY <1>1, <1>3, <1>8, <2>1 DEF GenTypeOK, runVars
<1>10. KeysKept' BY <1>1, <1>3 DEF KeysKept, GenTypeOK
<1>11. RowsKept' BY <1>1, <1>3 DEF RowsKept, GenTypeOK
<1>12. AllPutOff' BY <1>1, <1>8 DEF AllPutOff
<1>13. ViewSaved' BY <1>1, <1>3 DEF ViewSaved
<1>14. \A key \in DOMAIN file' :
         key[1][1] \notin toSort' /\ file'[key] = "plain" => shows'[key] = <<key, 0>>
  BY <1>1 DEF TextsKept, TextKept
<1>15. toSort \subseteq toSort' BY <1>1
<1> QED
  BY <1>1, <1>8, <1>9, <1>10, <1>11, <1>12, <1>13, <1>14, <1>15, WritingKeeps DEF StatementsKept

\* The end of the items of a view.
LEMMA ViewEnds == ASSUME GenIInv, EndView PROVE GenIInv'
<1> USE DEF GenIInv
<1>1. /\ Writing /\ UNCHANGED runVars /\ view # NoView /\ view' = NoView
      /\ UNCHANGED <<attributes, toSort, file, shows, rows>>
      /\ again' = IF rows[view] = << >> THEN again ELSE Append(again, Sort(view, "saved"))
  BY DEF EndView
<1>2. again \in Seq(Statement) /\ view \in Objects BY <1>1 DEF GenTypeOK
<1>3. Sort(view, "saved") \in Statement /\ Sort(view, "saved").do = "sort"
      /\ Sort(view, "saved").view = view /\ Sort(view, "saved").value = "saved"
  BY <1>2 DEF Sort, Statement
<1>6. /\ again' \in Seq(Statement) /\ StatementsRight(again', file', rows', toSort')
      /\ \A k : IsPutOff(again, k) => IsPutOff(again', k)
  <2>1. CASE rows[view] # << >>
    <3>1. again' = Append(again, Sort(view, "saved")) BY <1>1, <2>1
    <3>2. SavedBefore(again, Len(again) + 1, view) BY <1>1, <2>1 DEF ViewSaved
    <3>3. again' \in Seq(Statement) BY <1>2, <1>3, <3>1, OneMore
    <3>4. /\ StatementsRight(Append(again, Sort(view, "saved")), file, rows, toSort)
          /\ \A k : IsPutOff(again, k) => IsPutOff(Append(again, Sort(view, "saved")), k)
      BY <1>2, <1>3, <3>2, RightAdded DEF StatementsKept
    <3> QED BY <1>1, <3>1, <3>3, <3>4
  <2>2. CASE rows[view] = << >> BY <1>1, <1>2, <2>2 DEF StatementsKept
  <2> QED BY <2>1, <2>2
<1>7. GenTypeOK' BY <1>1, <1>6 DEF GenTypeOK, runVars
<1>8. KeysKept' /\ RowsKept' BY <1>1 DEF KeysKept, RowsKept
<1>9. AllPutOff' /\ ViewSaved' BY <1>1, <1>6 DEF AllPutOff, ViewSaved
<1>10. \A key \in DOMAIN file' :
         key[1][1] \notin toSort' /\ file'[key] = "plain" => shows'[key] = <<key, 0>>
  BY <1>1 DEF TextsKept, TextKept
<1> QED BY <1>1, <1>6, <1>7, <1>8, <1>9, <1>10, WritingKeeps DEF StatementsKept

\* What has nothing to do with texts.
LEMMA OtherKeeps ==
    ASSUME GenIInv,
           UNCHANGED <<attributes, view, toSort, file, again, shows, rows, runVars>>
    PROVE  GenIInv'
BY DEF GenIInv, runVars, GenTypeOK, KeysKept, RowsKept, StatementsKept, AllPutOff, ViewSaved,
       Writing, PhaseKept, SortersKept, GotKept, TextsKept, TextKept, LastBefore

\* The end of the file.
LEMMA FinishKeeps == ASSUME GenIInv, Finish PROVE GenIInv'
<1> USE DEF GenIInv, writeVars
<1>1. /\ Writing /\ ends' = SetDelayedProps
      /\ UNCHANGED <<writeVars, at, got, saved, failed, language, sorters, delayedSet, shows, rows>>
  BY DEF Finish
<1>2. language = 0 /\ at = 0 BY <1>1 DEF Writing, PhaseKept, GenTypeOK
<1>3. GenTypeOK' BY <1>1 DEF GenTypeOK
<1>4. KeysKept' /\ RowsKept' BY <1>1 DEF KeysKept, RowsKept
<1>5. StatementsKept' /\ AllPutOff' BY <1>1 DEF StatementsKept, AllPutOff
<1>6. ViewSaved' BY <1>1 DEF ViewSaved, Writing, SetDelayedProps
<1>7. PhaseKept' BY <1>1, <1>2 DEF PhaseKept, SetDelayedProps
<1>8. SortersKept' /\ GotKept' BY <1>1, <1>2 DEF SortersKept, GotKept
<1>9. TextsKept' BY <1>1, <1>2 DEF TextsKept, TextKept
<1> QED BY <1>3, <1>4, <1>5, <1>6, <1>7, <1>8, <1>9

\* The texts of the item that is being created.
ItemText == <<ItemNow, "text">>
ItemTip == <<ItemNow, "tip">>

LEMMA ItemWritten ==
    ASSUME GenIInv, view \in DOMAIN rows, NEW string \in Texts, NEW tip \in {"none"} \cup Texts,
           TextAndTip(string, tip)
    PROVE  /\ ItemText \in Keys /\ ItemTip \in Keys
           /\ ItemText[1] = ItemNow /\ ItemTip[1] = ItemNow /\ ItemNow[1] = view
           /\ ItemNow \in {view} \X Nat /\ ItemNow[2] = Len(rows[view]) + 1
           /\ DOMAIN file' = DOMAIN file \cup {ItemText} \cup {k \in {ItemTip} : tip # "none"}
           /\ file'[ItemText] = string /\ (tip # "none" => file'[ItemTip] = tip)
           /\ DOMAIN file' \subseteq DOMAIN shows'
           /\ shows'[ItemText] = WrittenNow(ItemText, string)
           /\ tip # "none" => shows'[ItemTip] = WrittenNow(ItemTip, tip)
           /\ \A k \in DOMAIN file : file'[k] = file[k] /\ shows'[k] = shows[k] /\ k # ItemText /\ k # ItemTip
           /\ file' \in [DOMAIN file' -> Texts]
<1> USE DEF GenIInv
<1>1. /\ view \in Objects /\ rows[view] \in Seq({view} \X Nat) /\ DOMAIN file \subseteq DOMAIN shows
      /\ file \in [DOMAIN file -> Texts]
  BY DEF GenTypeOK
<1>2. Len(rows[view]) + 1 \in Nat /\ DOMAIN rows[view] = 1..Len(rows[view]) BY <1>1
<1>3. ItemNow = <<view, Len(rows[view]) + 1>> BY DEF ItemNow
<1>4. /\ ItemText \in Keys /\ ItemTip \in Keys /\ ItemText # ItemTip
      /\ ItemText[1] = ItemNow /\ ItemTip[1] = ItemNow /\ ItemNow[1] = view
      /\ ItemNow[2] = Len(rows[view]) + 1 /\ ItemNow \in {view} \X Nat
  BY <1>1, <1>2, <1>3 DEF Keys, ItemText, ItemTip
<1>5. ASSUME NEW k \in DOMAIN file PROVE k # ItemText /\ k # ItemTip
  <2>1. k[1][1] \in DOMAIN rows => k[1][2] \in DOMAIN rows[k[1][1]] BY DEF KeysKept
  <2> QED BY <1>2, <1>4, <2>1
<1>6. CASE tip = "none"
  <2>1. file' = Given(file, ItemText, string) /\ shows' = Given(shows, ItemText, WrittenNow(ItemText, string))
    BY <1>6 DEF TextAndTip, ItemText
  <2>2. DOMAIN file' = DOMAIN file \cup {ItemText} BY <2>1 DEF Given
  <2>3. file'[ItemText] = string /\ \A k \in DOMAIN file : file'[k] = file[k]
    BY <1>5, <2>1 DEF Given
  <2>4. /\ shows'[ItemText] = WrittenNow(ItemText, string) /\ DOMAIN shows' = DOMAIN shows \cup {ItemText}
        /\ \A k \in DOMAIN file : shows'[k] = shows[k]
    BY <1>1, <1>5, <2>1 DEF Given
  <2>5. file' \in [DOMAIN file' -> Texts] BY <1>1, <2>1 DEF Given
  <2> QED BY <1>1, <1>4, <1>5, <1>6, <2>2, <2>3, <2>4, <2>5
<1>7. CASE tip # "none"
  <2>1. /\ file' = Given(Given(file, ItemText, string), ItemTip, tip)
        /\ shows' = Given(Given(shows, ItemText, WrittenNow(ItemText, string)), ItemTip, WrittenNow(ItemTip, tip))
    BY <1>7 DEF TextAndTip, ItemText, ItemTip
  <2>2. DOMAIN file' = DOMAIN file \cup {ItemText} \cup {ItemTip} BY <2>1 DEF Given
  <2>3. file'[ItemText] = string /\ file'[ItemTip] = tip /\ \A k \in DOMAIN file : file'[k] = file[k]
    BY <1>4, <1>5, <2>1 DEF Given
  <2>4. /\ shows'[ItemText] = WrittenNow(ItemText, string) /\ shows'[ItemTip] = WrittenNow(ItemTip, tip)
        /\ DOMAIN shows' = DOMAIN shows \cup {ItemText} \cup {ItemTip}
        /\ \A k \in DOMAIN file : shows'[k] = shows[k]
    BY <1>1, <1>4, <1>5, <2>1 DEF Given
  <2>5. file' \in [DOMAIN file' -> Texts] BY <1>1, <1>7, <2>1 DEF Given
  <2> QED BY <1>1, <1>4, <1>5, <1>7, <2>2, <2>3, <2>4, <2>5
<1> QED BY <1>6, <1>7

\* Before the first item of a view its sorting is saved and stopped.
LEMMA SortingStops ==
    ASSUME GenIInv, Writing, view # NoView, NEW texts, NEW items,
           StatementsRight(again, texts, items, toSort), NEW s, s = again \o SortingSaved
    PROVE  /\ s \in Seq(Statement) /\ StatementsRight(s, texts, items, toSort)
           /\ \A k : IsPutOff(again, k) => IsPutOff(s, k)
           /\ SavedBefore(s, Len(s) + 1, view)
<1> USE DEF GenIInv
<1>1. again \in Seq(Statement) /\ view \in Objects BY DEF GenTypeOK
<1>2. CASE rows[view] # << >>
  <2>1. s = again BY <1>1, <1>2 DEF SortingSaved
  <2> QED BY <1>1, <1>2, <2>1 DEF ViewSaved
<1>3. CASE rows[view] = << >>
  <2> DEFINE save == [do |-> "save", view |-> view]
             off == Sort(view, "off")
             s1 == Append(again, save)
  <2>1. /\ save \in Statement /\ save.do = "save" /\ save.view = view
        /\ off \in Statement /\ off.do = "sort" /\ off.value = "off"
    BY <1>1 DEF Sort, Statement
  <2>2. SortingSaved = <<save, off>> BY <1>3 DEF SortingSaved
  <2> HIDE DEF save, off
  <2>3. s = Append(s1, off) BY <1>1, <2>1, <2>2
  <2>4. s1 \in Seq(Statement) BY <1>1, <2>1, OneMore
  <2>5. /\ StatementsRight(s1, texts, items, toSort)
        /\ \A k : IsPutOff(again, k) => IsPutOff(s1, k)
    BY <1>1, <2>1, RightAdded
  <2>6. SavedBefore(s1, Len(s1) + 1, view) BY <1>1, <2>1, LastStays
  <2> HIDE DEF s1
  <2>7. s \in Seq(Statement) BY <2>1, <2>3, <2>4, OneMore
  <2>8. /\ StatementsRight(s, texts, items, toSort)
        /\ \A k : IsPutOff(s1, k) => IsPutOff(s, k)
    BY <2>1, <2>3, <2>4, <2>5, RightAdded
  <2>9. SavedBefore(s, Len(s) + 1, view) BY <2>1, <2>3, <2>4, <2>6, LastStays
  <2> QED BY <2>5, <2>7, <2>8, <2>9
<1> QED BY <1>2, <1>3

\* retranslateUi() gets an item again.
LEMMA ItemBound ==
    ASSUME NEW s \in Seq(Statement), NEW texts, NEW items, NEW strings,
           StatementsRight(s, texts, items, toSort), view \in Objects, rows[view] \in Seq({view} \X Nat),
           view \in DOMAIN items, Len(rows[view]) + 1 \in DOMAIN items[view],
           SavedBefore(s, Len(s) + 1, view), NEW t, t = s \o BindItem(strings)
    PROVE  /\ t \in Seq(Statement) /\ StatementsRight(t, texts, items, toSort)
           /\ \A k : IsPutOff(s, k) => IsPutOff(t, k)
           /\ SavedBefore(t, Len(t) + 1, view)
           /\ "translated" \in strings => ItemBefore(t, Len(t) + 1, ItemNow)
<1>1. CASE "translated" \notin strings
  <2>1. t = s BY <1>1 DEF BindItem
  <2> QED BY <1>1, <2>1
<1>2. CASE "translated" \in strings
  <2> DEFINE st == [do |-> "item", view |-> view, row |-> Len(rows[view]) + 1]
  <2>1. /\ st \in Statement /\ st.do = "item" /\ st.view = view /\ st.row = Len(rows[view]) + 1
        /\ ItemNow = <<st.view, st.row>>
    BY DEF Statement, ItemNow
  <2>2. BindItem(strings) = <<st>> BY <1>2 DEF BindItem
  <2> HIDE DEF st
  <2>3. t = Append(s, st) BY <2>1, <2>2
  <2>4. t \in Seq(Statement) BY <2>1, <2>3, OneMore
  <2>5. /\ StatementsRight(t, texts, items, toSort)
        /\ \A k : IsPutOff(s, k) => IsPutOff(t, k)
    BY <2>1, <2>3, RightAdded
  <2>6. SavedBefore(t, Len(t) + 1, view) /\ ItemBefore(t, Len(t) + 1, ItemNow)
    BY <2>1, <2>3, LastStays
  <2> QED BY <2>4, <2>5, <2>6
<1> QED BY <1>1, <1>2

\* The texts of an item are put off.
ViewWritten(s, t, texts, items) ==
    /\ t \in Seq(Statement) /\ StatementsRight(t, texts, items, toSort)
    /\ \A k : IsPutOff(s, k) => IsPutOff(t, k)
    /\ SavedBefore(t, Len(t) + 1, view)

LEMMA TextsAdded ==
    ASSUME NEW s \in Seq(Statement), NEW texts, NEW items,
           StatementsRight(s, texts, items, toSort), SavedBefore(s, Len(s) + 1, view),
           ItemText \in Keys, ItemTip \in Keys, ItemText[1] = ItemNow, ItemTip[1] = ItemNow,
           NEW by \in Ways, NEW byTips \in Ways,
           NEW string \in Texts, NEW tip \in {"none"} \cup Texts,
           ItemText \in DOMAIN texts, texts[ItemText] = string,
           tip # "none" => ItemTip \in DOMAIN texts /\ texts[ItemTip] = tip,
           string = "translated" =>
             \/ /\ by = <<"row", ItemNow>> /\ ItemNow[1] \in DOMAIN items
                /\ ItemNow[2] \in DOMAIN items[ItemNow[1]]
             \/ by = <<"local", "item">> /\ ItemBefore(s, Len(s) + 1, ItemNow),
           tip = "translated" => byTips = <<"local", "item">> /\ ItemBefore(s, Len(s) + 1, ItemNow),
           NEW t, t = s \o Later(by, ItemText, string) \o Later(byTips, ItemTip, tip)
    PROVE  /\ ViewWritten(s, t, texts, items)
           /\ string = "translated" => IsPutOff(t, ItemText)
           /\ tip = "translated" => IsPutOff(t, ItemTip)
<1> DEFINE s1 == s \o Later(by, ItemText, string)
<1>1. /\ s1 \in Seq(Statement) /\ StatementsRight(s1, texts, items, toSort)
      /\ \A k : IsPutOff(s, k) => IsPutOff(s1, k)
      /\ string = "translated" => IsPutOff(s1, ItemText)
      /\ \A place : ItemBefore(s, Len(s) + 1, place) => ItemBefore(s1, Len(s1) + 1, place)
      /\ \A v : SavedBefore(s, Len(s) + 1, v) => SavedBefore(s1, Len(s1) + 1, v)
  <2>1. string = "translated" =>
          \/ by = <<"object", ItemText[1]>>
          \/ /\ by = <<"row", ItemText[1]>> /\ ItemText[1][1] \in DOMAIN items
             /\ ItemText[1][2] \in DOMAIN items[ItemText[1][1]]
          \/ by = <<"local", "item">> /\ ItemBefore(s, Len(s) + 1, ItemText[1])
    OBVIOUS
  <2> QED BY <2>1, TextAdded, Zenon
<1>2. t = s1 \o Later(byTips, ItemTip, tip) OBVIOUS
<1> HIDE DEF s1
<1>3. CASE tip = "none"
  <2>1. t = s1 BY <1>1, <1>2, <1>3 DEF Later
  <2> QED BY <1>1, <1>3, <2>1 DEF ViewWritten
<1>4. CASE tip # "none"
  <2>1. tip \in Texts /\ ItemTip \in DOMAIN texts /\ texts[ItemTip] = tip BY <1>4
  <2>2. tip = "translated" => byTips = <<"local", "item">> /\ ItemBefore(s1, Len(s1) + 1, ItemTip[1])
    BY <1>1
  <2>3. /\ t \in Seq(Statement) /\ StatementsRight(t, texts, items, toSort)
        /\ \A k : IsPutOff(s1, k) => IsPutOff(t, k)
        /\ tip = "translated" => IsPutOff(t, ItemTip)
        /\ \A v : SavedBefore(s1, Len(s1) + 1, v) => SavedBefore(t, Len(t) + 1, v)
    BY <1>1, <1>2, <2>1, <2>2, TextAdded
  <2> QED BY <1>1, <2>3 DEF ViewWritten
<1> QED BY <1>3, <1>4

\* An item is created, and its statements are written.
LEMMA ItemStep ==
    ASSUME GenIInv, Writing, view # NoView, ItemCreated,
           NEW string \in Texts, NEW tip \in {"none"} \cup Texts, TextAndTip(string, tip),
           StatementsRight(again', file', rows', toSort), again' \in Seq(Statement),
           \A k : IsPutOff(again, k) => IsPutOff(again', k),
           SavedBefore(again', Len(again') + 1, view),
           string = "translated" => IsPutOff(again', ItemText),
           tip = "translated" => IsPutOff(again', ItemTip)
    PROVE  GenIInv'
<1> USE DEF GenIInv
<1>1. /\ UNCHANGED runVars /\ UNCHANGED <<attributes, view, toSort>>
      /\ rows' = [rows EXCEPT ![view] = Append(@, ItemNow)]
  BY DEF ItemCreated, GenCall
<1>2. /\ view \in DOMAIN rows /\ view \in Objects /\ rows[view] \in Seq({view} \X Nat)
      /\ DOMAIN rows \subseteq attributes
  BY DEF GenTypeOK
<1>3. /\ ItemText \in Keys /\ ItemTip \in Keys
      /\ ItemText[1] = ItemNow /\ ItemTip[1] = ItemNow /\ ItemNow[1] = view
      /\ ItemNow \in {view} \X Nat /\ ItemNow[2] = Len(rows[view]) + 1
      /\ DOMAIN file' = DOMAIN file \cup {ItemText} \cup {k \in {ItemTip} : tip # "none"}
      /\ file'[ItemText] = string /\ (tip # "none" => file'[ItemTip] = tip)
      /\ DOMAIN file' \subseteq DOMAIN shows'
      /\ shows'[ItemText] = WrittenNow(ItemText, string)
      /\ tip # "none" => shows'[ItemTip] = WrittenNow(ItemTip, tip)
      /\ \A k \in DOMAIN file : file'[k] = file[k] /\ shows'[k] = shows[k] /\ k # ItemText /\ k # ItemTip
      /\ file' \in [DOMAIN file' -> Texts]
  BY <1>2, ItemWritten
<1>4. string = "translated" => IsPutOff(again', ItemText) OBVIOUS
<1>5. tip = "translated" => IsPutOff(again', ItemTip) OBVIOUS
<1>6. /\ DOMAIN rows' = DOMAIN rows /\ rows'[view] = Append(rows[view], ItemNow)
      /\ \A v \in DOMAIN rows : v # view => rows'[v] = rows[v]
  BY <1>1, <1>2
<1>7. /\ rows'[view] \in Seq({view} \X Nat) /\ DOMAIN rows'[view] = 1..(Len(rows[view]) + 1)
      /\ DOMAIN rows[view] = 1..Len(rows[view]) /\ Len(rows[view]) \in Nat
      /\ \A n \in DOMAIN rows[view] : rows'[view][n] = rows[view][n]
      /\ rows'[view][Len(rows[view]) + 1] = ItemNow
      /\ rows'[view] # << >>
  BY <1>2, <1>3, <1>6
<1>8. GenTypeOK'
  <2>1. \A v \in DOMAIN rows' : rows'[v] \in Seq({v} \X Nat)
    BY <1>6, <1>7 DEF GenTypeOK
  <2>2. DOMAIN file' \subseteq Keys BY <1>3 DEF GenTypeOK
  <2> QED BY <1>1, <1>3, <1>6, <2>1, <2>2 DEF GenTypeOK, runVars
<1>9. KeysKept'
  <2>1. ASSUME NEW k \in DOMAIN file
        PROVE  /\ k[1][1] \in attributes'
               /\ k[1][1] \in DOMAIN rows' => k[1][2] \in DOMAIN rows'[k[1][1]]
    <3>1. /\ k[1][1] \in attributes
          /\ k[1][1] \in DOMAIN rows => k[1][2] \in DOMAIN rows[k[1][1]]
      BY DEF KeysKept
    <3> QED BY <1>1, <1>6, <1>7, <3>1
  <2>2. Len(rows[view]) + 1 \in DOMAIN rows'[view] BY <1>7
  <2>3. ASSUME NEW k, k[1] = ItemNow
        PROVE  /\ k[1][1] \in attributes'
               /\ k[1][1] \in DOMAIN rows' => k[1][2] \in DOMAIN rows'[k[1][1]]
    BY <1>1, <1>2, <1>3, <2>2, <2>3
  <2> QED BY <1>3, <2>1, <2>3 DEF KeysKept
<1>10. RowsKept'
  <2>1. ASSUME NEW v \in DOMAIN rows, v \notin toSort, NEW n \in DOMAIN rows'[v]
        PROVE  rows'[v][n] = <<v, n>>
    <3>1. \A m \in DOMAIN rows[v] : rows[v][m] = <<v, m>> BY <2>1 DEF RowsKept
    <3>2. CASE v # view BY <1>6, <3>1, <3>2
    <3>3. CASE v = view /\ n \in DOMAIN rows[view] BY <1>7, <3>1, <3>3
    <3>4. CASE v = view /\ n = Len(rows[view]) + 1 BY <1>7, <3>4 DEF ItemNow
    <3> QED BY <1>7, <3>2, <3>3, <3>4
  <2> QED BY <1>1, <1>6, <2>1 DEF RowsKept
<1>11. AllPutOff'
  <2>1. ASSUME NEW k \in DOMAIN file', file'[k] = "translated" PROVE IsPutOff(again', k)
    <3>1. CASE k \in DOMAIN file BY <1>3, <2>1, <3>1 DEF AllPutOff
    <3>2. CASE k = ItemText BY <1>3, <1>4, <2>1, <3>2
    <3>3. CASE k = ItemTip /\ tip # "none" BY <1>3, <1>5, <2>1, <3>3
    <3> QED BY <1>3, <3>1, <3>2, <3>3
  <2> QED BY <2>1 DEF AllPutOff
<1>12. ViewSaved' BY <1>1 DEF ViewSaved
<1>13. ASSUME NEW k \in DOMAIN file', k[1][1] \notin toSort', file'[k] = "plain"
       PROVE  shows'[k] = <<k, 0>>
  <2>1. CASE k \in DOMAIN file BY <1>1, <1>3, <1>13, <2>1 DEF TextsKept, TextKept
  <2>2. CASE k = ItemText BY <1>3, <1>13, <2>2 DEF WrittenNow
  <2>3. CASE k = ItemTip /\ tip # "none" BY <1>3, <1>13, <2>3 DEF WrittenNow
  <2> QED BY <1>3, <2>1, <2>2, <2>3
<1>14. StatementsKept' BY <1>1 DEF StatementsKept
<1> QED
  BY <1>1, <1>8, <1>9, <1>10, <1>11, <1>12, <1>13, <1>14, WritingKeeps

\* An item of a list or a table.
LEMMA ListKeeps ==
    ASSUME GenIInv, NEW string \in Texts, NEW tip \in Texts, NewItemOf(string, tip)
    PROVE  GenIInv'
<1> DEFINE s1 == again \o SortingSaved
           s2 == s1 \o BindItem({string, tip})
           by == <<"local", "item">>
<1>1. /\ Writing /\ view # NoView /\ ItemCreated /\ TextAndTip(string, tip) /\ toSort' = toSort
      /\ rows' = [rows EXCEPT ![view] = Append(@, ItemNow)]
      /\ again' = s2 \o Later(by, ItemText, string) \o Later(by, ItemTip, tip)
  BY DEF NewItemOf, ItemCreated, GenCall, NoView, ItemText, ItemTip
<1>2. /\ view \in DOMAIN rows /\ view \in Objects /\ rows[view] \in Seq({view} \X Nat)
  BY <1>1 DEF GenIInv, GenTypeOK
<1>3. /\ ItemText \in Keys /\ ItemTip \in Keys
      /\ ItemText[1] = ItemNow /\ ItemTip[1] = ItemNow /\ ItemNow[1] = view
      /\ ItemNow[2] = Len(rows[view]) + 1
      /\ DOMAIN file' = DOMAIN file \cup {ItemText} \cup {k \in {ItemTip} : tip # "none"}
      /\ file'[ItemText] = string /\ (tip # "none" => file'[ItemTip] = tip)
      /\ \A k \in DOMAIN file : file'[k] = file[k]
  <2>1. tip \in {"none"} \cup Texts OBVIOUS
  <2> QED BY <1>1, <1>2, <2>1, ItemWritten
<1>4. /\ DOMAIN rows' = DOMAIN rows /\ Len(rows[view]) + 1 \in DOMAIN rows'[view]
      /\ \A v \in DOMAIN rows : DOMAIN rows[v] \subseteq DOMAIN rows'[v]
  BY <1>1, <1>2
<1>5. by \in Ways BY DEF Ways
<1>6. StatementsRight(again, file', rows', toSort)
  BY <1>3, <1>4, RightStays DEF GenIInv, StatementsKept
<1>7. /\ s1 \in Seq(Statement) /\ StatementsRight(s1, file', rows', toSort)
      /\ \A k : IsPutOff(again, k) => IsPutOff(s1, k)
      /\ SavedBefore(s1, Len(s1) + 1, view)
  BY <1>1, <1>6, SortingStops
<1> HIDE DEF s1
<1>8. /\ s2 \in Seq(Statement) /\ StatementsRight(s2, file', rows', toSort)
      /\ \A k : IsPutOff(s1, k) => IsPutOff(s2, k)
      /\ SavedBefore(s2, Len(s2) + 1, view)
      /\ "translated" \in {string, tip} => ItemBefore(s2, Len(s2) + 1, ItemNow)
  BY <1>2, <1>4, <1>7, ItemBound
<1> HIDE DEF s2
<1>9. /\ again' \in Seq(Statement) /\ StatementsRight(again', file', rows', toSort)
      /\ \A k : IsPutOff(s2, k) => IsPutOff(again', k)
      /\ SavedBefore(again', Len(again') + 1, view)
      /\ string = "translated" => IsPutOff(again', ItemText)
      /\ tip = "translated" => IsPutOff(again', ItemTip)
  <2>1. ItemText \in DOMAIN file' /\ file'[ItemText] = string BY <1>3
  <2>2. tip # "none" => ItemTip \in DOMAIN file' /\ file'[ItemTip] = tip BY <1>3
  <2>3. string = "translated" => by = <<"local", "item">> /\ ItemBefore(s2, Len(s2) + 1, ItemNow)
    BY <1>8
  <2>4. tip = "translated" => by = <<"local", "item">> /\ ItemBefore(s2, Len(s2) + 1, ItemNow)
    BY <1>8
  <2>5. tip \in {"none"} \cup Texts OBVIOUS
  <2>6. again' = s2 \o Later(by, ItemText, string) \o Later(by, ItemTip, tip) BY <1>1
  <2> HIDE DEF by
  <2>7. PICK s, t, way, texts, items :
          s = s2 /\ t = again' /\ way = by /\ texts = file' /\ items = rows'
    OBVIOUS
  <2>8. /\ s \in Seq(Statement) /\ StatementsRight(s, texts, items, toSort) /\ SavedBefore(s, Len(s) + 1, view)
    BY <1>8, <2>7
  <2>9. t = s \o Later(way, ItemText, string) \o Later(way, ItemTip, tip) /\ way \in Ways
    BY <1>5, <2>6, <2>7
  <2>10. "translated" \in {string, tip} => way = <<"local", "item">> /\ ItemBefore(s, Len(s) + 1, ItemNow)
    BY <1>8, <2>3, <2>4, <2>7
  <2>11. /\ ItemText \in DOMAIN texts /\ texts[ItemText] = string
         /\ tip # "none" => ItemTip \in DOMAIN texts /\ texts[ItemTip] = tip
    BY <2>1, <2>2, <2>7
  <2>12. string = "translated" =>
           \/ /\ way = <<"row", ItemNow>> /\ ItemNow[1] \in DOMAIN items
              /\ ItemNow[2] \in DOMAIN items[ItemNow[1]]
           \/ way = <<"local", "item">> /\ ItemBefore(s, Len(s) + 1, ItemNow)
    BY <2>10
  <2>13. tip = "translated" => way = <<"local", "item">> /\ ItemBefore(s, Len(s) + 1, ItemNow)
    BY <2>10
  <2>14. ItemText \in Keys /\ ItemTip \in Keys /\ ItemText[1] = ItemNow /\ ItemTip[1] = ItemNow
    BY <1>3
  <2>15. /\ ViewWritten(s, t, texts, items)
         /\ string = "translated" => IsPutOff(t, ItemText)
         /\ tip = "translated" => IsPutOff(t, ItemTip)
    BY <2>5, <2>8, <2>9, <2>11, <2>12, <2>13, <2>14, TextsAdded
  <2> QED BY <1>1, <2>7, <2>15 DEF ViewWritten
<1> QED BY <1>1, <1>7, <1>8, <1>9, ItemStep

\* An item of a tree without tips.
LEMMA TreeKeeps ==
    ASSUME GenIInv, TipFeature = FALSE,
           NEW string \in Texts, NEW tip \in {"none"} \cup Texts, NewTreeItem(string, tip)
    PROVE  GenIInv'
<1> DEFINE s1 == again \o SortingSaved
           by == <<"row", ItemNow>>
           byTips == <<"local", "item_0">>
<1>1. /\ Writing /\ view # NoView /\ ItemCreated /\ TextAndTip(string, tip) /\ toSort' = toSort
      /\ rows' = [rows EXCEPT ![view] = Append(@, ItemNow)] /\ tip = "none"
      /\ again' = s1 \o Later(by, ItemText, string) \o Later(byTips, ItemTip, tip)
  BY DEF NewTreeItem, ItemCreated, GenCall, NoView, ItemText, ItemTip
<1>2. /\ view \in DOMAIN rows /\ view \in Objects /\ rows[view] \in Seq({view} \X Nat)
  BY <1>1 DEF GenIInv, GenTypeOK
<1>3. /\ ItemText \in Keys /\ ItemTip \in Keys
      /\ ItemText[1] = ItemNow /\ ItemTip[1] = ItemNow /\ ItemNow[1] = view
      /\ ItemNow[2] = Len(rows[view]) + 1 /\ ItemNow \in {view} \X Nat
      /\ DOMAIN file' = DOMAIN file \cup {ItemText} \cup {k \in {ItemTip} : tip # "none"}
      /\ file'[ItemText] = string /\ (tip # "none" => file'[ItemTip] = tip)
      /\ \A k \in DOMAIN file : file'[k] = file[k]
  BY <1>1, <1>2, ItemWritten
<1>4. /\ DOMAIN rows' = DOMAIN rows /\ Len(rows[view]) + 1 \in DOMAIN rows'[view]
      /\ \A v \in DOMAIN rows : DOMAIN rows[v] \subseteq DOMAIN rows'[v]
  BY <1>1, <1>2
<1>5. by \in Ways /\ byTips \in Ways BY <1>2, <1>3 DEF Ways
<1>6. StatementsRight(again, file', rows', toSort)
  BY <1>3, <1>4, RightStays DEF GenIInv, StatementsKept
<1>7. /\ s1 \in Seq(Statement) /\ StatementsRight(s1, file', rows', toSort)
      /\ \A k : IsPutOff(again, k) => IsPutOff(s1, k)
      /\ SavedBefore(s1, Len(s1) + 1, view)
  BY <1>1, <1>6, SortingStops
<1> HIDE DEF s1
<1>8. /\ again' \in Seq(Statement) /\ StatementsRight(again', file', rows', toSort)
      /\ \A k : IsPutOff(s1, k) => IsPutOff(again', k)
      /\ SavedBefore(again', Len(again') + 1, view)
      /\ string = "translated" => IsPutOff(again', ItemText)
      /\ tip = "translated" => IsPutOff(again', ItemTip)
  <2>1. ItemText \in DOMAIN file' /\ file'[ItemText] = string BY <1>3
  <2>2. tip # "none" => ItemTip \in DOMAIN file' /\ file'[ItemTip] = tip BY <1>3
  <2>3. by = <<"row", ItemNow>> /\ ItemNow[1] \in DOMAIN rows' /\ ItemNow[2] \in DOMAIN rows'[ItemNow[1]]
    BY <1>2, <1>3, <1>4
  <2>4. tip # "translated" BY <1>1
  <2>5. again' = s1 \o Later(by, ItemText, string) \o Later(byTips, ItemTip, tip) BY <1>1
  <2> HIDE DEF by, byTips
  <2>7. PICK s, t, way, wayTips, texts, items :
          s = s1 /\ t = again' /\ way = by /\ wayTips = byTips /\ texts = file' /\ items = rows'
    OBVIOUS
  <2>8. /\ s \in Seq(Statement) /\ StatementsRight(s, texts, items, toSort)
        /\ SavedBefore(s, Len(s) + 1, view)
    BY <1>7, <2>7
  <2>9. /\ t = s \o Later(way, ItemText, string) \o Later(wayTips, ItemTip, tip)
        /\ way \in Ways /\ wayTips \in Ways
    BY <1>5, <2>5, <2>7
  <2>10. way = <<"row", ItemNow>> /\ ItemNow[1] \in DOMAIN items /\ ItemNow[2] \in DOMAIN items[ItemNow[1]]
    BY <2>3, <2>7
  <2>11. /\ ItemText \in DOMAIN texts /\ texts[ItemText] = string
         /\ tip # "none" => ItemTip \in DOMAIN texts /\ texts[ItemTip] = tip
    BY <2>1, <2>2, <2>7
  <2>12. string = "translated" =>
           \/ /\ way = <<"row", ItemNow>> /\ ItemNow[1] \in DOMAIN items
              /\ ItemNow[2] \in DOMAIN items[ItemNow[1]]
           \/ way = <<"local", "item">> /\ ItemBefore(s, Len(s) + 1, ItemNow)
    BY <2>10
  <2>13. tip = "translated" => wayTips = <<"local", "item">> /\ ItemBefore(s, Len(s) + 1, ItemNow)
    BY <2>4
  <2>14. ItemText \in Keys /\ ItemTip \in Keys /\ ItemText[1] = ItemNow /\ ItemTip[1] = ItemNow
    BY <1>3
  <2>15. /\ ViewWritten(s, t, texts, items)
         /\ string = "translated" => IsPutOff(t, ItemText)
         /\ tip = "translated" => IsPutOff(t, ItemTip)
    BY <2>8, <2>9, <2>11, <2>12, <2>13, <2>14, TextsAdded
  <2> QED BY <1>1, <2>7, <2>15 DEF ViewWritten
<1> QED BY <1>1, <1>7, <1>8, ItemStep

\* What executing a statement leaves alone.
LEMMA ExecutingKeeps ==
    ASSUME GenIInv, at \in DOMAIN again, at' = at + 1,
           UNCHANGED <<writeVars, ends, failed, language, delayedSet>>,
           GenTypeOK', RowsKept', StatementsKept', SortersKept', GotKept', TextsKept',
           DOMAIN rows' = DOMAIN rows, \A v \in DOMAIN rows : DOMAIN rows'[v] = DOMAIN rows[v]
    PROVE  GenIInv'
<1> USE DEF GenIInv, writeVars
<1>1. at \in Nat /\ at > 0 /\ at' > 0 /\ language > 0 BY DEF GenTypeOK, PhaseKept
<1>2. KeysKept' BY DEF KeysKept
<1>3. AllPutOff' BY DEF AllPutOff
<1>4. ViewSaved' BY <1>1 DEF ViewSaved, Writing
<1>5. PhaseKept' BY <1>1 DEF PhaseKept
<1> QED BY <1>2, <1>3, <1>4, <1>5

\* What a statement of another kind does not end.
LEMMA StillLast ==
    ASSUME GenIInv, at \in DOMAIN again, NEW do, again[at].do # do, NEW j,
           LastBefore(again, at + 1, j, do)
    PROVE  LastBefore(again, at, j, do) /\ j \in 1..(at - 1)
<1>1. at \in Nat /\ at > 0 BY DEF GenIInv, GenTypeOK
<1> QED BY <1>1 DEF LastBefore

\* The text that is to be set is that of the item that is found.
LEMMA ObjectFound ==
    ASSUME GenIInv, at \in DOMAIN again, again[at].do = "text"
    PROVE  /\ Bound(again[at].by) /\ again[at].key \in DOMAIN file /\ again[at].key \in Keys
           /\ file[again[at].key] = "translated"
           /\ ObjectOf(again[at].by)[1] = again[at].key[1][1]
           /\ again[at].key[1][1] \notin toSort => ObjectOf(again[at].by) = again[at].key[1]
<1> DEFINE key == again[at].key
           by == again[at].by
<1> USE DEF GenIInv
<1>1. TextRight(again, at, file, rows) BY DEF StatementsKept, StatementsRight
<1>2. /\ key \in DOMAIN file /\ file[key] = "translated"
      /\ \/ by = <<"object", key[1]>>
         \/ /\ by = <<"row", key[1]>> /\ key[1][1] \in DOMAIN rows
            /\ key[1][2] \in DOMAIN rows[key[1][1]]
         \/ by = <<"local", "item">> /\ ItemBefore(again, at, key[1])
  BY <1>1 DEF TextRight
<1> HIDE DEF key, by
<1>3. key \in Keys BY <1>2 DEF GenTypeOK
<1>4. PICK place : place = key[1] OBVIOUS
<1>5. place \in Objects \X Nat /\ place = <<place[1], place[2]>> BY <1>3, <1>4 DEF Keys
<1>6. Bound(by) /\ ObjectOf(by)[1] = place[1] /\ (place[1] \notin toSort => ObjectOf(by) = place)
  <2>1. CASE by = <<"object", place>> BY <2>1 DEF Bound, ObjectOf
  <2>2. CASE by = <<"row", place>> /\ place[1] \in DOMAIN rows /\ place[2] \in DOMAIN rows[place[1]]
    <3>1. ObjectOf(by) = rows[place[1]][place[2]] /\ Bound(by) BY <2>2 DEF Bound, ObjectOf
    <3>2. rows[place[1]] \in Seq({place[1]} \X Nat) BY <2>2 DEF GenTypeOK
    <3>3. rows[place[1]][place[2]] \in {place[1]} \X Nat BY <2>2, <3>2
    <3>4. place[1] \notin toSort => rows[place[1]][place[2]] = <<place[1], place[2]>>
      BY <2>2 DEF RowsKept
    <3> QED BY <1>5, <3>1, <3>3, <3>4
  <2>3. CASE by = <<"local", "item">> /\ ItemBefore(again, at, place)
    <3>1. PICK j \in 1..(at - 1) : LastBefore(again, at, j, "item") /\ again[j].view = place[1]
                                   /\ again[j].row = place[2]
      BY <2>3 DEF ItemBefore
    <3>2. /\ "item" \in DOMAIN got /\ got["item"] \in {place[1]} \X Nat
          /\ place[1] \notin toSort => got["item"] = <<place[1], place[2]>>
      BY <3>1 DEF GotKept
    <3>3. ObjectOf(by) = got["item"] /\ Bound(by) BY <2>3, <3>2 DEF Bound, ObjectOf
    <3> QED BY <1>5, <3>2, <3>3
  <2> QED BY <1>2, <1>4, <2>1, <2>2, <2>3
<1> QED BY <1>2, <1>3, <1>4, <1>6 DEF key, by

\* A text is set again.
LEMMA TextKeeps == ASSUME GenIInv, ExecuteText PROVE GenIInv'
<1> USE DEF GenIInv, writeVars
<1>1. /\ at \in DOMAIN again /\ again[at].do = "text" /\ at' = at + 1
      /\ UNCHANGED <<writeVars, ends, got, saved, failed, language, sorters, delayedSet, rows>>
      /\ shows' = Given(shows, <<ObjectOf(again[at].by), again[at].key[2]>>, <<again[at].key, language>>)
  BY DEF ExecuteText, Executes
<1>2. PICK key, place, set, to :
        /\ key = again[at].key /\ place = ObjectOf(again[at].by)
        /\ set = <<place, key[2]>> /\ to = <<key, language>>
  OBVIOUS
<1>3. /\ key \in DOMAIN file /\ key \in Keys /\ file[key] = "translated"
      /\ place[1] = key[1][1] /\ (key[1][1] \notin toSort => place = key[1])
  BY <1>1, <1>2, ObjectFound
<1>4. shows' = Given(shows, set, to) BY <1>1, <1>2
<1>5. /\ DOMAIN shows \subseteq DOMAIN shows' /\ (set \in DOMAIN shows => shows'[set] = to)
      /\ \A k \in DOMAIN shows : k # set => shows'[k] = shows[k]
  BY <1>4 DEF Given
<1>6. set[1] = place /\ set[2] = key[2] /\ (place = key[1] => set = key)
  BY <1>2, <1>3 DEF Keys
<1>7. at \in Nat /\ at > 0 /\ language > 0 BY <1>1 DEF GenTypeOK, PhaseKept
<1>8. GenTypeOK'
  <2>1. DOMAIN file \subseteq DOMAIN shows' BY <1>5 DEF GenTypeOK
  <2>2. at' \in Nat BY <1>1, <1>7
  <2>3. UNCHANGED <<again, file, attributes, rows, toSort, view, language>> BY <1>1
  <2> QED BY <2>1, <2>2, <2>3 DEF GenTypeOK
<1>9. RowsKept' /\ StatementsKept' BY <1>1 DEF RowsKept, StatementsKept
<1>10. SortersKept'
  <2>1. \A j : LastBefore(again, at + 1, j, "save") => LastBefore(again, at, j, "save") /\ j \in 1..(at - 1)
    BY <1>1, StillLast
  <2> QED BY <1>1, <2>1 DEF SortersKept
<1>11. GotKept'
  <2>1. \A j : LastBefore(again, at + 1, j, "item") => LastBefore(again, at, j, "item") /\ j \in 1..(at - 1)
    BY <1>1, StillLast
  <2> QED BY <1>1, <2>1 DEF GotKept
<1>12. ASSUME NEW k \in DOMAIN file, k[1][1] \notin toSort PROVE TextKept(k)'
  <2>1. TextKept(k) /\ k \in DOMAIN shows BY <1>12 DEF TextsKept, GenTypeOK
  <2>2. k = key => shows'[k] = <<k, language>>
    <3>1. k = key => set = key BY <1>3, <1>6, <1>12
    <3> QED BY <1>2, <1>5, <2>1, <3>1
  <2>3. k # key => shows'[k] = shows[k]
    <3>1. ASSUME k = set PROVE k = key BY <1>3, <1>6, <1>12, <3>1
    <3> QED BY <1>5, <2>1, <3>1
  <2>4. CASE k = key
    <3>1. <<k, language>> # NoText BY DEF NoText
    <3> QED BY <1>1, <1>3, <1>7, <2>2, <2>4, <3>1 DEF TextKept
  <2>5. CASE k # key
    <3>1. shows'[k] = shows[k] BY <2>3, <2>5
    <3>2. again[at].key # k BY <1>2, <2>5
    <3>3. \A i \in 1..(at + 1 - 1) : i \in 1..(at - 1) \/ i = at BY <1>7
    <3> QED BY <1>1, <1>7, <2>1, <3>1, <3>2, <3>3 DEF TextKept
  <2> QED BY <2>4, <2>5
<1>13. TextsKept' BY <1>1, <1>12 DEF TextsKept
<1> QED BY <1>1, <1>8, <1>9, <1>10, <1>11, <1>13, ExecutingKeeps

\* A statement that is not of a text does not change what is shown.
LEMMA OtherTextsKeep ==
    ASSUME GenIInv, at \in DOMAIN again, again[at].do # "text", at' = at + 1,
           UNCHANGED <<again, file, toSort, shows, language>>
    PROVE  TextsKept'
<1> USE DEF GenIInv
<1>1. at \in Nat /\ at > 0 BY DEF GenTypeOK
<1>2. ASSUME NEW k \in DOMAIN file, k[1][1] \notin toSort PROVE TextKept(k)'
  <2>1. TextKept(k) BY <1>2 DEF TextsKept
  <2>2. \A i \in 1..(at + 1 - 1) : i \in 1..(at - 1) \/ i = at BY <1>1
  <2> QED BY <1>1, <2>1, <2>2 DEF TextKept
<1> QED BY <1>2 DEF TextsKept

LEMMA ItemKeeps == ASSUME GenIInv, ExecuteItem PROVE GenIInv'
<1> USE DEF GenIInv, writeVars
<1>1. /\ at \in DOMAIN again /\ again[at].do = "item" /\ at' = at + 1
      /\ UNCHANGED <<writeVars, ends, saved, failed, language, sorters, delayedSet, shows, rows>>
      /\ got' = Given(got, "item", rows[again[at].view][again[at].row])
  BY DEF ExecuteItem, Executes
<1>2. PICK v, n : v = again[at].view /\ n = again[at].row OBVIOUS
<1>3. ItemRight(again, at, rows) BY <1>1 DEF StatementsKept, StatementsRight
<1>4. v \in DOMAIN rows /\ n \in DOMAIN rows[v] BY <1>1, <1>2, <1>3 DEF ItemRight
<1>5. rows[v] \in Seq({v} \X Nat) BY <1>4 DEF GenTypeOK
<1>6. rows[v][n] \in {v} \X Nat /\ (v \notin toSort => rows[v][n] = <<v, n>>)
  BY <1>4, <1>5 DEF RowsKept
<1>7. "item" \in DOMAIN got' /\ got'["item"] = rows[v][n] BY <1>1, <1>2 DEF Given
<1>8. GenTypeOK' BY <1>1 DEF GenTypeOK
<1>9. RowsKept' /\ StatementsKept' BY <1>1 DEF RowsKept, StatementsKept
<1>10. SortersKept'
  <2>1. \A j : LastBefore(again, at + 1, j, "save") => LastBefore(again, at, j, "save") /\ j \in 1..(at - 1)
    BY <1>1, StillLast
  <2> QED BY <1>1, <2>1 DEF SortersKept
<1>11. GotKept'
  <2>1. at \in Nat BY DEF GenTypeOK
  <2>2. \A j : LastBefore(again, at + 1, j, "item") => j = at BY <1>1, <2>1 DEF LastBefore
  <2> QED BY <1>1, <1>2, <1>6, <1>7, <2>2 DEF GotKept
<1>12. TextsKept' BY <1>1, OtherTextsKeep
<1> QED BY <1>1, <1>8, <1>9, <1>10, <1>11, <1>12, ExecutingKeeps

LEMMA SaveKeeps == ASSUME GenIInv, ExecuteSave PROVE GenIInv'
<1> USE DEF GenIInv, writeVars
<1>1. /\ at \in DOMAIN again /\ again[at].do = "save" /\ at' = at + 1
      /\ UNCHANGED <<writeVars, ends, got, failed, language, sorters, delayedSet, shows, rows>>
      /\ saved' = IF again[at].view \in sorters THEN "on" ELSE "off"
  BY DEF ExecuteSave, Executes
<1>2. GenTypeOK' BY <1>1 DEF GenTypeOK
<1>3. RowsKept' /\ StatementsKept' BY <1>1 DEF RowsKept, StatementsKept
<1>4. SortersKept'
  <2>1. at \in Nat BY DEF GenTypeOK
  <2>2. \A j : LastBefore(again, at + 1, j, "save") => j = at BY <1>1, <2>1 DEF LastBefore
  <2> QED BY <1>1, <2>2 DEF SortersKept
<1>5. GotKept'
  <2>1. \A j : LastBefore(again, at + 1, j, "item") => LastBefore(again, at, j, "item") /\ j \in 1..(at - 1)
    BY <1>1, StillLast
  <2> QED BY <1>1, <2>1 DEF GotKept
<1>6. TextsKept' BY <1>1, OtherTextsKeep
<1> QED BY <1>1, <1>2, <1>3, <1>4, <1>5, <1>6, ExecutingKeeps

\* A view is sorted, or not any more: only one that the file sorts.
LEMMA SortKeeps == ASSUME GenIInv, ExecuteSort PROVE GenIInv'
<1> USE DEF GenIInv, writeVars
<1>1. /\ at \in DOMAIN again /\ again[at].do = "sort" /\ at' = at + 1
      /\ UNCHANGED <<writeVars, ends, got, saved, failed, language, delayedSet, shows>>
  BY DEF ExecuteSort, Executes
<1>2. PICK v, value : /\ v = again[at].view
                      /\ value = IF again[at].value = "saved" THEN saved ELSE again[at].value
  OBVIOUS
<1>3. value = "on" => v \in toSort
  <2>1. SortRight(again, at, toSort) BY <1>1 DEF StatementsKept, StatementsRight
  <2>2. CASE again[at].value = "saved"
    <3>1. SavedBefore(again, at, v) /\ value = saved BY <1>1, <1>2, <2>1, <2>2 DEF SortRight
    <3>2. PICK j \in 1..(at - 1) : LastBefore(again, at, j, "save") /\ again[j].view = v
      BY <3>1 DEF SavedBefore
    <3> QED BY <3>1, <3>2 DEF SortersKept
  <2>3. CASE again[at].value # "saved" BY <1>1, <1>2, <2>1, <2>3 DEF SortRight
  <2> QED BY <2>2, <2>3
<1>4. sorters' \subseteq toSort
  <2>1. CASE value = "on"
    <3>1. sorters' = sorters \cup {v} BY <1>2, <2>1 DEF ExecuteSort
    <3> QED BY <1>3, <2>1, <3>1 DEF SortersKept
  <2>2. CASE value # "on"
    <3>1. sorters' = sorters \ {v} BY <1>2, <2>2 DEF ExecuteSort
    <3> QED BY <3>1 DEF SortersKept
  <2> QED BY <2>1, <2>2
<1>5. /\ DOMAIN rows' = DOMAIN rows
      /\ \A x \in DOMAIN rows : DOMAIN rows'[x] = DOMAIN rows[x] /\ rows'[x] \in Seq({x} \X Nat)
      /\ \A x \in DOMAIN rows \ toSort : rows'[x] = rows[x]
  <2>1. CASE value = "on"
    <3>1. PICK order \in Bijection(DOMAIN rows[v], DOMAIN rows[v]) :
            rows' = [rows EXCEPT ![v] = [i \in DOMAIN rows[v] |-> rows[v][order[i]]]]
      BY <1>2, <2>1 DEF ExecuteSort
    <3>2. order \in [DOMAIN rows[v] -> DOMAIN rows[v]] BY <3>1 DEF Bijection, Injection
    <3>3. v \in toSort /\ v \in DOMAIN rows /\ rows[v] \in Seq({v} \X Nat)
      BY <1>3, <2>1 DEF GenTypeOK
    <3>4. [i \in DOMAIN rows[v] |-> rows[v][order[i]]] \in Seq({v} \X Nat)
      BY <3>2, <3>3
    <3>5. /\ rows'[v] = [i \in DOMAIN rows[v] |-> rows[v][order[i]]]
          /\ \A x \in DOMAIN rows : x # v => rows'[x] = rows[x]
          /\ DOMAIN rows' = DOMAIN rows
      BY <3>1, <3>3
    <3> QED BY <3>3, <3>4, <3>5 DEF GenTypeOK
  <2>2. CASE value # "on"
    <3>1. rows' = rows BY <1>2, <2>2 DEF ExecuteSort
    <3> QED BY <3>1 DEF GenTypeOK
  <2> QED BY <2>1, <2>2
<1>6. GenTypeOK' BY <1>1, <1>5 DEF GenTypeOK
<1>7. RowsKept' BY <1>1, <1>5 DEF RowsKept
<1>8. StatementsKept' BY <1>1, <1>5, RightStays DEF StatementsKept
<1>9. SortersKept'
  <2>1. \A j : LastBefore(again, at + 1, j, "save") => LastBefore(again, at, j, "save") /\ j \in 1..(at - 1)
    BY <1>1, StillLast
  <2> QED BY <1>1, <1>4, <2>1 DEF SortersKept
<1>10. GotKept'
  <2>1. \A j : LastBefore(again, at + 1, j, "item") => LastBefore(again, at, j, "item") /\ j \in 1..(at - 1)
    BY <1>1, StillLast
  <2> QED BY <1>1, <2>1 DEF GotKept
<1>11. TextsKept' BY <1>1, OtherTextsKeep
<1> QED BY <1>1, <1>5, <1>6, <1>7, <1>8, <1>9, <1>10, <1>11, ExecutingKeeps

\* What setupUi() ends with.
LEMMA Endings ==
    /\ Head(SetDelayedProps) = "retranslateUi" /\ Tail(SetDelayedProps) = <<"delayed">>
    /\ Head(<<"delayed">>) = "delayed" /\ Tail(<<"delayed">>) = << >>
    /\ SetDelayedProps # << >> /\ <<"delayed">> # << >> /\ SetDelayedProps # <<"delayed">>
BY DEF SetDelayedProps

\* retranslateUi() is called and returns.
LEMMA CallKeeps == ASSUME GenIInv, CallRetranslateUi PROVE GenIInv'
<1> USE DEF GenIInv, writeVars
<1>1. /\ at = 0 /\ at' = 1 /\ language' = language + 1 /\ language \in Nat
      /\ UNCHANGED <<writeVars, failed, sorters, delayedSet, shows, rows>>
  BY DEF CallRetranslateUi, GenTypeOK
<1>2. GenTypeOK' BY <1>1 DEF GenTypeOK
<1>3. KeysKept' /\ RowsKept' BY <1>1 DEF KeysKept, RowsKept
<1>4. StatementsKept' /\ AllPutOff' BY <1>1 DEF StatementsKept, AllPutOff
<1>5. ViewSaved' BY <1>1 DEF ViewSaved, Writing
<1>6. PhaseKept'
  <2>1. (ends' = ends /\ ends = << >>) \/ ends' = <<"delayed">>
    BY Endings DEF PhaseKept, CallRetranslateUi
  <2>2. delayedSet => language > 0 BY <1>1 DEF PhaseKept
  <2> QED BY <1>1, <2>1, <2>2, Endings DEF PhaseKept
<1>7. SortersKept' /\ GotKept' BY <1>1 DEF SortersKept, GotKept
<1>8. TextsKept' BY <1>1 DEF TextsKept, TextKept
<1> QED BY <1>2, <1>3, <1>4, <1>5, <1>6, <1>7, <1>8

LEMMA DelayedKeeps == ASSUME GenIInv, ExecuteDelayed PROVE GenIInv'
<1> USE DEF GenIInv, writeVars
<1>1. /\ at = 0 /\ ends = <<"delayed">> /\ ends' = << >> /\ language \in Nat /\ language > 0
      /\ UNCHANGED <<writeVars, at, got, saved, failed, language, sorters, shows, rows>>
  <2>1. ends = <<"delayed">> /\ ends' = << >> BY Endings DEF ExecuteDelayed, PhaseKept
  <2>2. language \in Nat /\ language > 0 BY <2>1 DEF PhaseKept, GenTypeOK
  <2> QED BY <2>1, <2>2 DEF ExecuteDelayed
<1>2. GenTypeOK' BY <1>1 DEF GenTypeOK
<1>3. KeysKept' /\ RowsKept' BY <1>1 DEF KeysKept, RowsKept
<1>4. StatementsKept' /\ AllPutOff' BY <1>1 DEF StatementsKept, AllPutOff
<1>5. ViewSaved' BY <1>1 DEF ViewSaved, Writing
<1>6. PhaseKept' BY <1>1 DEF PhaseKept, SetDelayedProps
<1>7. SortersKept' /\ GotKept' BY <1>1 DEF SortersKept, GotKept, LastBefore
<1>8. TextsKept' BY <1>1 DEF TextsKept, TextKept
<1> QED BY <1>2, <1>3, <1>4, <1>5, <1>6, <1>7, <1>8

\* By then each text that is translated has been set.
LEMMA ReturnKeeps == ASSUME GenIInv, RetranslateUiReturns PROVE GenIInv'
<1> USE DEF GenIInv, writeVars
<1>1. /\ at > Len(again) /\ at' = 0 /\ at \in Nat /\ again \in Seq(Statement) /\ Len(again) \in Nat
      /\ UNCHANGED <<writeVars, ends, got, saved, failed, language, sorters, delayedSet, shows, rows>>
  BY DEF RetranslateUiReturns, GenTypeOK
<1>2. language \in Nat /\ language > 0 BY <1>1 DEF PhaseKept, GenTypeOK
<1>3. GenTypeOK' BY <1>1 DEF GenTypeOK
<1>4. KeysKept' /\ RowsKept' BY <1>1 DEF KeysKept, RowsKept
<1>5. StatementsKept' /\ AllPutOff' BY <1>1 DEF StatementsKept, AllPutOff
<1>6. ViewSaved' BY <1>1, <1>2 DEF ViewSaved, Writing
<1>7. PhaseKept' BY <1>1, <1>2 DEF PhaseKept
<1>8. SortersKept' /\ GotKept' BY <1>1 DEF SortersKept, GotKept
<1>9. ASSUME NEW k \in DOMAIN file, k[1][1] \notin toSort PROVE TextKept(k)'
  <2>1. TextKept(k) /\ file[k] \in Texts BY <1>9 DEF TextsKept, GenTypeOK
  <2>2. <<k, language>> # NoText /\ <<k, 0>> # NoText BY DEF NoText
  <2>3. file[k] = "translated" => shows[k] = <<k, language>>
    <3>1. SUFFICES ASSUME file[k] = "translated" PROVE shows[k] = <<k, language>>
      OBVIOUS
    <3>2. PICK i \in DOMAIN again : again[i].do = "text" /\ again[i].key = k
      BY <3>1 DEF AllPutOff, IsPutOff
    <3>3. i \in 1..(at - 1) BY <1>1
    <3> QED BY <2>1, <3>1, <3>2, <3>3 DEF TextKept
  <2> QED BY <1>1, <2>1, <2>2, <2>3 DEF TextKept, Texts
<1>10. TextsKept' BY <1>1, <1>9 DEF TextsKept
<1> QED BY <1>3, <1>4, <1>5, <1>6, <1>7, <1>8, <1>10

\* Each step keeps it all.
LEMMA GenKeeps == ASSUME TipFeature = FALSE, GenIInv, [GenNext]_genVars PROVE GenIInv'
<1>1. CASE UNCHANGED genVars
  BY <1>1, OtherKeeps DEF genVars, writeVars, runVars
<1>2. ASSUME NEW w \in {"w1", "w2"}, NEW string \in Texts, NewWidget(w, string) PROVE GenIInv'
  <2>1. w \in Objects BY DEF Objects
  <2> QED BY <1>2, <2>1, ObjectKeeps
<1>3. ASSUME NEW w \in {"w1", "w2"}, NEW iset \in IconSets \cup Themes, SetIcon(w, iset)
      PROVE  GenIInv'
  BY <1>3, OtherKeeps DEF SetIcon, GenCall
<1>4. ASSUME NEW v \in {"list", "tree"}, NEW sorts \in BOOLEAN, NewView(v, sorts) PROVE GenIInv'
  <2>1. v \in Objects /\ v # NoView BY DEF Objects, NoView
  <2> QED BY <1>4, <2>1, ViewKeeps
<1>5. ASSUME NEW string \in Texts, NEW tip \in Texts, NewItemOf(string, tip) PROVE GenIInv'
  BY <1>5, ListKeeps
<1>6. ASSUME NEW string \in Texts, NEW tip \in {"none"} \cup Texts, NewTreeItem(string, tip)
      PROVE  GenIInv'
  BY <1>6, TreeKeeps
<1>7. ASSUME NEW title \in Texts, NewPage("page", title) PROVE GenIInv'
  <2>1. "page" \in Objects BY DEF Objects
  <2> QED BY <1>7, <2>1, ObjectKeeps
<1>8. CASE EndView BY <1>8, ViewEnds
<1>9. CASE Finish BY <1>9, FinishKeeps
<1>10. CASE CallRetranslateUi BY <1>10, CallKeeps
<1>11. CASE ExecuteText BY <1>11, TextKeeps
<1>12. CASE ExecuteUnbound BY <1>12, ObjectFound DEF ExecuteUnbound
<1>13. CASE ExecuteItem BY <1>13, ItemKeeps
<1>14. CASE ExecuteSave BY <1>14, SaveKeeps
<1>15. CASE ExecuteSort BY <1>15, SortKeeps
<1>16. CASE RetranslateUiReturns BY <1>16, ReturnKeeps
<1>17. CASE ExecuteDelayed BY <1>17, DelayedKeeps
<1> QED
  BY <1>1, <1>2, <1>3, <1>4, <1>5, <1>6, <1>7, <1>8, <1>9, <1>10, <1>11, <1>12, <1>13, <1>14,
     <1>15, <1>16, <1>17
  DEF GenNext, Execute

\* If no item of a tree has a tool tip.
THEOREM TextsAreRetranslated ==
    ASSUME TipFeature = FALSE
    PROVE  GenSpec => [](RetranslateBound /\ Retranslated /\ TextsBeforeDelayed)
<1>1. GenIInv => RetranslateBound /\ Retranslated /\ TextsBeforeDelayed
  <2> SUFFICES ASSUME GenIInv PROVE RetranslateBound /\ Retranslated /\ TextsBeforeDelayed
    OBVIOUS
  <2>1. RetranslateBound BY DEF GenIInv, PhaseKept, RetranslateBound
  <2>2. Retranslated
    <3> SUFFICES ASSUME IsTranslated, NEW key \in DOMAIN file, key[1][1] \notin toSort
                 PROVE  shows[key] = Translated(key)
      BY DEF Retranslated
    <3>1. TextKept(key) /\ file[key] \in Texts BY DEF GenIInv, TextsKept, GenTypeOK
    <3> QED BY <3>1 DEF TextKept, Translated, IsTranslated, Texts
  <2>3. TextsBeforeDelayed BY DEF TextsBeforeDelayed, GenIInv, TextsKept, TextKept, PhaseKept
  <2> QED BY <2>1, <2>2, <2>3
<1>2. GenInit => GenIInv BY GenBegins
<1>3. GenIInv /\ [GenNext]_genVars => GenIInv' BY GenKeeps
<1> QED BY <1>1, <1>2, <1>3, PTL DEF GenSpec

\* The first place that a sequence is searched for is one that was searched for.
LEMMA FirstPlace ==
    ASSUME NEW n \in Nat, NEW S \in SUBSET (0..n), S # {}
    PROVE  Min(S) \in S
<1> DEFINE T == {0..x : x \in S}
           R == StrictSubsetOrdering(0..n)
<1>1. IsWellFoundedOn(R, FiniteSubsetsOf(0..n))
  BY FS_StrictSubsetOrderingWellFounded
<1>2. T \subseteq FiniteSubsetsOf(0..n)
  <2> SUFFICES ASSUME NEW x \in S PROVE 0..x \in FiniteSubsetsOf(0..n)
    OBVIOUS
  <2>1. x \in Int /\ 0..x \subseteq 0..n OBVIOUS
  <2>2. IsFiniteSet(0..x) BY <2>1, FS_Interval
  <2> QED BY <2>1, <2>2 DEF FiniteSubsetsOf
<1>3. T # {} OBVIOUS
<1>4. PICK t \in T : \A u \in T : <<u, t>> \notin R
  <2> HIDE DEF T, R
  <2> QED BY <1>1, <1>2, <1>3, WFMin
<1>5. PICK x \in S : t = 0..x OBVIOUS
<1>6. ASSUME NEW y \in S PROVE x <= y
  <2> SUFFICES ASSUME y < x PROVE FALSE
    OBVIOUS
  <2>1. 0..y \subseteq 0..x /\ 0..y \subseteq 0..n /\ 0..x \subseteq 0..n OBVIOUS
  <2>2. x \in 0..x /\ x \notin 0..y OBVIOUS
  <2>3. <<0..y, 0..x>> \in R BY <2>1, <2>2 DEF StrictSubsetOrdering
  <2> QED BY <2>3, <1>4, <1>5
<1> HIDE DEF T, R
<1>7. \A y \in S : x =< y BY <1>6
<1> QED BY <1>7, Zenon DEF Min

\* A local variable for something else than an icon.
LEMMA IconsLeft ==
    ASSUME IconsKept, NEW x, x[1] # "icon", NEW v, locals' = Given(locals, x, v),
           cache' = cache
    PROVE  IconsKept'
<1>1. ASSUME NEW i \in 1..Len(cache)
      PROVE  /\ cache[i].name \in DOMAIN locals'
             /\ locals'[cache[i].name] = cache[i].iset
  <2>1. cache[i].name = IconName(i - 1) /\ cache[i].name \in DOMAIN locals
        /\ locals[cache[i].name] = cache[i].iset
    BY DEF IconsKept
  <2>2. cache[i].name # x BY <2>1 DEF IconName
  <2>3. /\ cache[i].name \in DOMAIN Given(locals, x, v)
        /\ Given(locals, x, v)[cache[i].name] = locals[cache[i].name]
    BY <2>1, <2>2 DEF Given
  <2> QED BY <2>1, <2>3
<1> QED BY <1>1 DEF IconsKept

\* An icon that is in the cache has its variable; another gets a new one.
LEMMA IconFound ==
    ASSUME IconsKept, Themes = {}, NEW iset \in IconSets,
           locals' = GetIcon(iset).locals, cache' = GetIcon(iset).cache
    PROVE  IconsKept' /\ GetIcon(iset).locals[GetIcon(iset).name] = iset
<1> DEFINE found == GetIcon(iset)
           Entry == [iset : IconSets, name : {"icon"} \X Nat]
           I == {i \in 1..Len(cache) : cache[i].iset = iset}
           new == [iset |-> iset, name |-> IconName(Len(cache))]
<1>1. cache \in Seq(Entry) /\ Len(cache) \in Nat BY LenProperties DEF IconsKept
<1>2. \A i \in 1..Len(cache) :
        /\ cache[i].name = IconName(i - 1)
        /\ cache[i].name \in DOMAIN locals
        /\ locals[cache[i].name] = cache[i].iset
  BY DEF IconsKept
<1>3. IconIndex(iset) = IF I # {} THEN Min(I) ELSE 0 BY DEF IconIndex, SelectInSeq
<1>4. I \in SUBSET (0..Len(cache)) BY <1>1
<1>5. CASE I # {}
  <2>1. Min(I) \in I
    <3> HIDE DEF I
    <3> QED BY <1>1, <1>4, <1>5, FirstPlace
  <2>2. IconIndex(iset) = Min(I) BY <1>3, <1>5
  <2>3. IconIndex(iset) \in 1..Len(cache) /\ cache[IconIndex(iset)].iset = iset
    BY <2>1, <2>2
  <2>4. IconIndex(iset) # 0 BY <2>3
  <2>5. /\ found.name = cache[IconIndex(iset)].name /\ found.locals = locals
        /\ found.cache = cache
    BY <2>4 DEF GetIcon
  <2>6. locals' = locals /\ cache' = cache BY <2>5
  <2>7. IconsKept' BY <2>6 DEF IconsKept
  <2> QED BY <2>3, <2>5, <2>7, <1>2
<1>6. CASE I = {}
  <2>1. IconIndex(iset) = 0 BY <1>3, <1>6
  <2>2. /\ found.name = IconName(Len(cache)) /\ found.cache = Append(cache, new)
        /\ found.locals = Given(locals, IconName(Len(cache)), iset)
    BY <2>1 DEF GetIcon
  <2>3. locals' = Given(locals, IconName(Len(cache)), iset) /\ cache' = Append(cache, new)
    BY <2>2
  <2>4. new \in Entry BY <1>1 DEF IconName
  <2>5. found.locals[found.name] = iset BY <2>2 DEF Given
  <2> HIDE DEF new, Entry, found, I
  <2>6. /\ Append(cache, new) \in Seq(Entry)
        /\ Len(Append(cache, new)) = Len(cache) + 1
        /\ \A i \in 1..Len(cache) : Append(cache, new)[i] = cache[i]
        /\ Append(cache, new)[Len(cache) + 1] = new
    BY <1>1, <2>4, AppendProperties
  <2>7. ASSUME NEW i \in 1..(Len(cache) + 1)
        PROVE  /\ cache'[i].name = IconName(i - 1)
               /\ cache'[i].name \in DOMAIN locals'
               /\ locals'[cache'[i].name] = cache'[i].iset
    <3>1. CASE i = Len(cache) + 1
      <4>1. cache'[i] = new BY <3>1, <2>3, <2>6
      <4>2. i - 1 = Len(cache) BY <3>1, <1>1
      <4>3. cache'[i].name = IconName(Len(cache)) /\ cache'[i].iset = iset BY <4>1 DEF new
      <4> QED BY <4>2, <4>3, <2>3 DEF Given
    <3>2. CASE i # Len(cache) + 1
      <4>1. i \in 1..Len(cache) BY <3>2, <1>1
      <4>2. cache'[i] = cache[i] BY <4>1, <2>3, <2>6
      <4>3. /\ cache[i].name = IconName(i - 1) /\ cache[i].name \in DOMAIN locals
            /\ locals[cache[i].name] = cache[i].iset
        BY <4>1, <1>2
      <4>4. IconName(i - 1) # IconName(Len(cache))
        <5>1. i - 1 # Len(cache) BY <3>2, <1>1
        <5> QED BY <5>1 DEF IconName
      <4> QED BY <4>2, <4>3, <4>4, <2>3 DEF Given
    <3> QED BY <3>1, <3>2
  <2>8. Len(cache') = Len(cache) + 1 /\ cache' \in Seq(Entry) BY <2>3, <2>6
  <2>9. IconsKept' BY <2>7, <2>8 DEF IconsKept, Entry
  <2> QED BY <2>5, <2>9 DEF found
<1> QED BY <1>5, <1>6

\* An icon is made the first time it is asked for.
LEMMA IconStep ==
    ASSUME IconsKept, IconDescribed, Themes = {}, NEW w, NEW iset \in IconSets \cup Themes,
           SetIcon(w, iset)
    PROVE  IconsKept' /\ IconDescribed'
<1>1. iset \in IconSets OBVIOUS
<1>2. IconsKept' /\ GetIcon(iset).locals[GetIcon(iset).name] = iset
  BY <1>1, IconFound DEF SetIcon
<1>3. icon' = Given(icon, w, [is |-> iset, set |-> iset]) BY <1>2 DEF SetIcon
<1>4. IconDescribed' BY <1>3 DEF IconDescribed, Given
<1> QED BY <1>2, <1>4

\* Nothing else makes icons, or uses their variables.
LEMMA IconsStay ==
    ASSUME IconsKept, IconDescribed, UNCHANGED <<locals, cache, icon>>
    PROVE  IconsKept' /\ IconDescribed'
BY DEF IconsKept, IconDescribed

\* The icon of each widget is the one that the file describes, unless a file has themed
\* icons (uic/icon_cache.py).
THEOREM IconsAreDescribed ==
    ASSUME Themes = {}
    PROVE  GenSpec => []IconDescribed
<1>1. GenInit => IconsKept /\ IconDescribed
  <2> SUFFICES ASSUME GenInit PROVE IconsKept /\ IconDescribed
    OBVIOUS
  <2> USE DEF GenInit
  <2>1. cache \in Seq([iset : IconSets, name : {"icon"} \X Nat]) BY EmptySeq
  <2>2. Len(cache) = 0 OBVIOUS
  <2> QED BY <2>1, <2>2 DEF IconsKept, IconDescribed
<1>2. IconsKept /\ IconDescribed /\ [GenNext]_genVars => IconsKept' /\ IconDescribed'
  <2> SUFFICES ASSUME IconsKept, IconDescribed, [GenNext]_genVars
               PROVE  IconsKept' /\ IconDescribed'
    OBVIOUS
  <2>1. CASE UNCHANGED genVars BY <2>1, IconsStay DEF genVars, writeVars
  <2>2. ASSUME NEW w, NEW string, NewWidget(w, string) \/ NewPage(w, string)
        PROVE  IconsKept' /\ IconDescribed'
    BY <2>2, IconsStay DEF NewWidget, NewPage
  <2>3. ASSUME NEW v, NEW sorts, NewView(v, sorts) PROVE IconsKept' /\ IconDescribed'
    BY <2>3, IconsStay DEF NewView
  <2>4. ASSUME NEW string, NEW tip, NewItemOf(string, tip) PROVE IconsKept' /\ IconDescribed'
    <3>1. locals' = Given(locals, <<"item", 0>>, ItemNow) /\ UNCHANGED <<cache, icon>>
      BY <2>4 DEF NewItemOf, ItemCreated
    <3> QED BY <3>1, IconsLeft DEF IconDescribed
  <2>5. ASSUME NEW string, NEW tip, NewTreeItem(string, tip) PROVE IconsKept' /\ IconDescribed'
    <3>1. locals' = Given(locals, <<"item_", 0>>, ItemNow) /\ UNCHANGED <<cache, icon>>
      BY <2>5 DEF NewTreeItem, ItemCreated
    <3> QED BY <3>1, IconsLeft DEF IconDescribed
  <2>6. ASSUME NEW w, NEW iset \in IconSets \cup Themes, SetIcon(w, iset)
        PROVE  IconsKept' /\ IconDescribed'
    BY <2>6, IconStep
  <2>7. CASE EndView \/ Finish BY <2>7, IconsStay DEF EndView, Finish, writeVars
  <2>8. CASE CallRetranslateUi \/ Execute \/ RetranslateUiReturns \/ ExecuteDelayed
    BY <2>8, IconsStay
    DEF CallRetranslateUi, Execute, ExecuteText, ExecuteUnbound, ExecuteItem, ExecuteSave,
        ExecuteSort, RetranslateUiReturns, ExecuteDelayed, writeVars
  <2> QED BY <2>1, <2>2, <2>3, <2>4, <2>5, <2>6, <2>7, <2>8 DEF GenNext
<1> QED BY <1>1, <1>2, PTL DEF GenSpec

-----------------------------------------------------------------------------
(* UiParser.                                                               *)

\* A sequence that something is appended to, whatever it is.
LEMMA Lengthened ==
    ASSUME NEW S, NEW s \in Seq(S), NEW x, NEW a, a = Append(s, x)
    PROVE  /\ a \in Seq(S \cup {x}) /\ a \in Seq(Range(a)) /\ a # << >>
           /\ Len(s) \in Nat /\ Len(a) = Len(s) + 1 /\ DOMAIN a = 1..Len(a)
           /\ a[Len(s) + 1] = x /\ \A i \in 1..Len(s) : a[i] = s[i]
<1> DEFINE T == S \cup {x}
<1>1. s \in Seq(T) /\ x \in T BY SeqMonotonic
<1> HIDE DEF T
<1>2. /\ a \in Seq(T) /\ Len(a) = Len(s) + 1 /\ a[Len(s) + 1] = x /\ a # << >>
      /\ \A i \in 1..Len(s) : a[i] = s[i]
  BY <1>1, AppendProperties
<1>3. a \in Seq(Range(a)) BY <1>2, SeqOfRange
<1>4. DOMAIN a = 1..Len(a) BY <1>2, LenProperties
<1>5. Len(s) \in Nat BY LenProperties
<1> QED BY <1>2, <1>3, <1>4, <1>5 DEF T

\* A sequence whose last element is taken away.
LEMMA Shortened ==
    ASSUME NEW S, NEW s \in Seq(S), s # << >>
    PROVE  /\ Len(s) \in Nat \ {0} /\ Last(s) = s[Len(s)] /\ Last(s) \in S
           /\ Front(s) \in Seq(S) /\ Len(Front(s)) = Len(s) - 1
           /\ \A i \in 1..(Len(s) - 1) : Front(s)[i] = s[i]
<1>1. Len(s) \in Nat \ {0} BY EmptySeq
<1>2. \A i \in 1..Len(s) : s[i] \in S BY ElementOfSeq
<1>3. Len(s) \in 1..Len(s) /\ Len(s) - 1 \in Int BY <1>1
<1>4. \A i \in 1..(Len(s) - 1) : s[i] \in S BY <1>1, <1>2
<1>5. PICK f : f = SubSeq(s, 1, Len(s) - 1) OBVIOUS
<1>6. /\ f \in Seq(S) /\ Len(f) = (IF 1 <= Len(s) - 1 THEN (Len(s) - 1) - 1 + 1 ELSE 0)
      /\ \A i \in 1..((Len(s) - 1) - 1 + 1) : f[i] = s[1 + i - 1]
  BY <1>3, <1>4, <1>5, SubSeqProperties
<1>7. Len(f) = Len(s) - 1 /\ \A i \in 1..(Len(s) - 1) : f[i] = s[i]
  <2>1. PICK n : n = Len(s) OBVIOUS
  <2>2. /\ n \in Nat \ {0} /\ (n - 1) - 1 + 1 = n - 1
        /\ (IF 1 <= n - 1 THEN (n - 1) - 1 + 1 ELSE 0) = n - 1
        /\ \A i \in 1..(n - 1) : 1 + i - 1 = i
    BY <1>1, <2>1
  <2> QED BY <1>6, <2>1, <2>2
<1>8. f = Front(s) BY <1>5 DEF Front
<1>9. Last(s) = s[Len(s)] /\ Last(s) \in S BY <1>2, <1>3 DEF Last
<1> QED BY <1>1, <1>6, <1>7, <1>8, <1>9

\* Names of one part stay apart when suffixes are appended to them.
LEMMA SuffixesApart ==
    ASSUME NEW a, a = <<a[1]>>, NEW b, b = <<b[1]>>, NEW i, NEW j
    PROVE  /\ Append(a, i) # b
           /\ Append(a, i) = Append(b, j) => a = b /\ i = j
<1>1. PICK x : x = a[1] OBVIOUS
<1>2. PICK y : y = b[1] OBVIOUS
<1>3. PICK T : T = {x, y, i, j} OBVIOUS
<1>4. x \in T /\ y \in T /\ i \in T /\ j \in T BY <1>3
<1>5. a = <<x>> /\ b = <<y>> BY <1>1, <1>2
<1>6. a \in Seq(T) /\ b \in Seq(T) /\ Len(a) = 1 /\ Len(b) = 1 BY <1>4, <1>5
<1>7. Len(Append(a, i)) = Len(a) + 1 BY <1>4, <1>6, AppendProperties
<1>8. Append(a, i) = Append(b, j) <=> a = b /\ i = j BY <1>4, <1>6, AppendInjective
<1> QED BY <1>6, <1>7, <1>8

\* What stays of an object: all but its places.
Same(r, t) ==
    /\ r.class = t.class /\ r.parent = t.parent /\ r.name = t.name
    /\ r.inside = t.inside /\ r.sorts = t.sorts

\* The objects stay, or one more is made.
ObjectsStay ==
    /\ AreObjects(obj') /\ Len(obj) \in Nat /\ Len(obj') = Len(obj)
    /\ \A o \in 1..Len(obj) : Same(obj'[o], obj[o])
ObjectMade(r) ==
    /\ AreObjects(obj') /\ Len(obj) \in Nat /\ Len(obj') = Len(obj) + 1
    /\ \A o \in 1..Len(obj) : Same(obj'[o], obj[o])
    /\ obj'[Len(obj) + 1] = r

\* The objects when one more is made.
LEMMA ObjectAdded ==
    ASSUME NEW objs, AreObjects(objs), NEW r, IsObject(r)
    PROVE  LET a == Append(objs, r)
           IN  /\ AreObjects(a) /\ Len(objs) \in Nat /\ Len(a) = Len(objs) + 1
               /\ \A o \in 1..Len(objs) : a[o] = objs[o]
               /\ a[Len(objs) + 1] = r
<1>1. PICK a : a = Append(objs, r) OBVIOUS
<1>2. /\ a \in Seq(Range(a)) /\ Len(objs) \in Nat /\ Len(a) = Len(objs) + 1
      /\ a[Len(objs) + 1] = r /\ \A o \in 1..Len(objs) : a[o] = objs[o]
  <2>1. PICK S : S = Range(objs) OBVIOUS
  <2>2. objs \in Seq(S) BY <2>1 DEF AreObjects
  <2>3. a \in Seq(Range(a)) BY <1>1, <2>2, Lengthened
  <2>4. Len(a) = Len(objs) + 1 BY <1>1, <2>2, Lengthened
  <2>5. Len(objs) \in Nat BY <1>1, <2>2, Lengthened
  <2>6. a[Len(objs) + 1] = r BY <1>1, <2>2, Lengthened
  <2>7. \A o \in 1..Len(objs) : a[o] = objs[o] BY <1>1, <2>2, Lengthened
  <2> QED BY <2>3, <2>4, <2>5, <2>6, <2>7
<1>3. ASSUME NEW o \in 1..Len(a) PROVE IsObject(a[o])
  <2>1. CASE o = Len(objs) + 1 BY <2>1, <1>2
  <2>2. CASE o # Len(objs) + 1
    <3>1. o \in 1..Len(objs) BY <2>2, <1>2
    <3> QED BY <3>1, <1>2 DEF AreObjects
  <2> QED BY <2>1, <2>2
<1> QED BY <1>1, <1>2, <1>3 DEF AreObjects

\* The objects when one of them is given its places.
LEMMA ObjectPlaced ==
    ASSUME AreObjects(obj), NEW w \in 1..Len(obj), NEW p
    PROVE  LET objs == [obj EXCEPT ![w].places = p]
           IN  /\ AreObjects(objs) /\ Len(obj) \in Nat /\ Len(objs) = Len(obj)
               /\ \A o \in 1..Len(obj) : Same(objs[o], obj[o])
               /\ objs[w].places = p
               /\ \A o \in 1..Len(obj) : o # w => objs[o] = obj[o]
<1>1. PICK r : r = [obj[w] EXCEPT !.places = p] OBVIOUS
<1>2. IsObject(obj[w]) BY DEF AreObjects
<1>3. IsObject(r) /\ Same(r, obj[w]) /\ r.places = p BY <1>1, <1>2 DEF IsObject, Same
<1>4. PICK T : T = Range(obj) \cup {r} OBVIOUS
<1>5. obj \in Seq(T) /\ r \in T
  <2>1. Range(obj) \subseteq T /\ obj \in Seq(Range(obj)) BY <1>4 DEF AreObjects
  <2> QED BY <2>1, <1>4, SeqMonotonic
<1>6. PICK objs : objs = [obj EXCEPT ![w] = r] OBVIOUS
<1>7. /\ objs \in Seq(T) /\ Len(objs) = Len(obj)
      /\ \A o \in 1..Len(obj) : objs[o] = IF o = w THEN r ELSE obj[o]
  BY <1>5, <1>6, ExceptSeq
<1>8. objs \in Seq(Range(objs)) BY <1>7, SeqOfRange
<1>9. \A o \in 1..Len(obj) : IsObject(objs[o]) BY <1>3, <1>7 DEF AreObjects
<1>10. \A o \in 1..Len(obj) : Same(objs[o], obj[o]) BY <1>3, <1>7 DEF Same
<1>11. objs = [obj EXCEPT ![w].places = p] BY <1>1, <1>6
<1>12. Len(obj) \in Nat BY <1>5, LenProperties
<1> QED BY <1>3, <1>7, <1>8, <1>9, <1>10, <1>11, <1>12 DEF AreObjects

\* A name that is made unique is no object's, and it is one that was asked for
\* or has a suffix.
LEMMA UniqueIsNew ==
    ASSUME NamesKept, NamesApart, Len(obj) \in Nat \ {0},
           NEW name \in GivenNames \cup {<<"spacerItem">>},
           NEW u, u = UniqueName(name), suffixes' = u.suffixes
    PROVE  /\ \A o \in 1..Len(obj) : obj[o].name # u.name
           /\ DOMAIN suffixes' = {name} \cup DOMAIN suffixes
           /\ suffixes' \in [DOMAIN suffixes' -> Nat]
           /\ \A n : Suffixed(n) => Suffixed(n)'
           /\ Suffixed(u.name)'
           /\ u.name # name => \E k : u.name = Append(name, k)
<1>1. /\ name = <<name[1]>> /\ name # <<"top">> /\ name \notin Groups
      /\ \A n \in DOMAIN suffixes : n = <<n[1]>>
      /\ \A n \in Groups : n = <<n[1]>> /\ n \notin DOMAIN suffixes
  <2>1. \A n \in GivenNames : n = <<n[1]>> /\ n # <<"top">> /\ n \notin Groups
    BY DEF NamesApart
  <2>2. <<"spacerItem">> # <<"top">> OBVIOUS
  <2>3. <<"spacerItem">> = <<(<<"spacerItem">>)[1]>> OBVIOUS
  <2>4. <<"spacerItem">> \notin Groups BY DEF NamesApart
  <2>5. \A n \in Groups : n = <<n[1]>> BY DEF NamesApart
  <2>6. DOMAIN suffixes \subseteq GivenNames \cup {<<"spacerItem">>} BY DEF NamesKept
  <2> QED BY <2>1, <2>2, <2>3, <2>4, <2>5, <2>6
<1>2. suffixes \in [DOMAIN suffixes -> Nat] BY DEF NamesKept
<1>3. \A o \in 1..Len(obj) :
        \/ obj[o].name = <<"top">>
        \/ Suffixed(obj[o].name)
        \/ obj[o].name \in Groups
  BY DEF NamesKept
<1>4. PICK top : top = <<"top">> OBVIOUS
<1>5. top = <<top[1]>> BY <1>4
<1>6. CASE name \notin DOMAIN suffixes
  <2>1. u = [name |-> name, suffixes |-> Given(suffixes, name, 0)]
    BY <1>6 DEF UniqueName
  <2>2. u.name = name /\ suffixes' = Given(suffixes, name, 0) BY <2>1
  <2>3. /\ DOMAIN suffixes' = {name} \cup DOMAIN suffixes /\ suffixes'[name] = 0
        /\ \A n \in DOMAIN suffixes : suffixes'[n] = suffixes[n]
        /\ suffixes' = [n \in {name} \cup DOMAIN suffixes |-> suffixes'[n]]
    BY <2>2, <1>6 DEF Given
  <2>4. suffixes' \in [DOMAIN suffixes' -> Nat]
    <3>1. \A n \in DOMAIN suffixes' : suffixes'[n] \in Nat BY <2>3, <1>2
    <3>2. suffixes' = [n \in DOMAIN suffixes' |-> suffixes'[n]] BY <2>3
    <3> QED BY <3>1, <3>2
  <2>5. \A n : Suffixed(n) => Suffixed(n)' BY <2>3 DEF Suffixed
  <2>6. Suffixed(name)' BY <2>3 DEF Suffixed
  <2>7. ASSUME NEW o \in 1..Len(obj) PROVE obj[o].name # name
    <3>1. CASE Suffixed(obj[o].name)
      <4>1. PICK base \in DOMAIN suffixes :
              obj[o].name = base \/ \E k : obj[o].name = Append(base, k)
        BY <3>1 DEF Suffixed
      <4>2. base # name BY <1>6
      <4>3. \A k : Append(base, k) # name BY <1>1, SuffixesApart
      <4> QED BY <4>1, <4>2, <4>3
    <3> QED BY <3>1, <1>1, <1>3
  <2>8. DOMAIN suffixes' = {name} \cup DOMAIN suffixes BY <2>3
  <2>9. Suffixed(u.name)' BY <2>2, <2>6
  <2>10. \A o \in 1..Len(obj) : obj[o].name # u.name BY <2>2, <2>7
  <2> QED BY <2>2, <2>4, <2>5, <2>8, <2>9, <2>10, Zenon
<1>7. CASE name \in DOMAIN suffixes
  <2>1. PICK m : m = suffixes[name] + 1 OBVIOUS
  <2>2. u = [name |-> Append(name, m), suffixes |-> [suffixes EXCEPT ![name] = m]]
    BY <1>7, <2>1 DEF UniqueName
  <2>3. u.name = Append(name, m) /\ suffixes' = [suffixes EXCEPT ![name] = m]
    BY <2>2
  <2>4. m \in Nat \ {0} /\ suffixes[name] \in Nat BY <2>1, <1>2, <1>7
  <2>5. /\ DOMAIN suffixes' = DOMAIN suffixes /\ suffixes'[name] = m
        /\ \A n \in DOMAIN suffixes : n # name => suffixes'[n] = suffixes[n]
    BY <2>3, <1>7
  <2>6. suffixes' \in [DOMAIN suffixes' -> Nat] BY <2>3, <2>4, <1>2
  <2>7. \A n \in DOMAIN suffixes : \A k \in 1..suffixes[n] : k \in 1..suffixes'[n]
    BY <2>1, <2>4, <2>5
  <2>8. \A n : Suffixed(n) => Suffixed(n)' BY <2>5, <2>7 DEF Suffixed
  <2>9. Suffixed(u.name)'
    <3>1. m \in 1..suffixes'[name] BY <2>4, <2>5
    <3> QED BY <3>1, <2>3, <2>5, <1>7 DEF Suffixed
  <2>10. ASSUME NEW o \in 1..Len(obj) PROVE obj[o].name # Append(name, m)
    <3>1. CASE Suffixed(obj[o].name)
      <4>1. PICK base \in DOMAIN suffixes :
              obj[o].name = base \/ \E k \in 1..suffixes[base] : obj[o].name = Append(base, k)
        BY <3>1 DEF Suffixed
      <4>2. Append(name, m) # base BY <1>1, SuffixesApart
      <4>3. \A k : Append(base, k) = Append(name, m) => base = name /\ k = m
        BY <1>1, SuffixesApart
      <4>4. ASSUME base = name PROVE m \notin 1..suffixes[base] BY <4>4, <2>1, <2>4
      <4> QED BY <4>1, <4>2, <4>3, <4>4
    <3>2. CASE obj[o].name = top BY <3>2, <1>1, <1>5, SuffixesApart
    <3>3. CASE obj[o].name \in Groups BY <3>3, <1>1, SuffixesApart
    <3> QED BY <3>1, <3>2, <3>3, <1>3, <1>4
  <2>11. DOMAIN suffixes' = {name} \cup DOMAIN suffixes BY <2>5, <1>7
  <2>12. \A o \in 1..Len(obj) : obj[o].name # u.name BY <2>3, <2>10
  <2>13. \E k : u.name = Append(name, k) BY <2>3
  <2> QED BY <2>6, <2>8, <2>9, <2>11, <2>12, <2>13, Zenon
<1> QED BY <1>6, <1>7

\* Objects are numbered from 1.
LEMMA ObjectsNumbered ==
    ASSUME NEW objs, AreObjects(objs)
    PROVE  DOMAIN objs = 1..Len(objs) /\ Len(objs) \in Nat
<1>1. PICK S : S = Range(objs) OBVIOUS
<1>2. objs \in Seq(S) BY <1>1 DEF AreObjects
<1> QED BY <1>2, LenProperties

\* An object with a name of its own leaves names unique.
LEMMA NewNameIsUnique ==
    ASSUME AreObjects(obj), NamesUnique, NEW r, ObjectMade(r),
           \A o \in 1..Len(obj) : obj[o].name # r.name
    PROVE  NamesUnique'
<1>1. /\ DOMAIN obj = 1..Len(obj) /\ DOMAIN obj' = 1..Len(obj') /\ Len(obj) \in Nat
      /\ Len(obj') = Len(obj) + 1
  BY ObjectsNumbered DEF ObjectMade
<1>2. /\ \A o \in 1..Len(obj) : obj'[o].name = obj[o].name
      /\ obj'[Len(obj) + 1].name = r.name
  BY DEF ObjectMade, Same
<1>3. 1..Len(obj') = (1..Len(obj)) \cup {Len(obj) + 1} BY <1>1
<1>4. \A i, j \in 1..Len(obj) : obj[i].name = obj[j].name => i = j
  BY <1>1 DEF NamesUnique
<1> QED BY <1>1, <1>2, <1>3, <1>4 DEF NamesUnique

\* The names of an object that is given a unique one.
LEMMA NamesGrow ==
    ASSUME NamesKept, NamesApart, AreObjects(obj), Len(obj) >= 1,
           NEW name \in GivenNames \cup {<<"spacerItem">>},
           NEW u, u = UniqueName(name), suffixes' = u.suffixes, bgroups' = bgroups,
           NEW r, r.name = u.name, ObjectMade(r),
           r.class = "QSpacerItem" => name = <<"spacerItem">>
    PROVE  NamesKept' /\ \A o \in 1..Len(obj) : obj[o].name # r.name
<1>1. Len(obj) \in Nat \ {0} BY ObjectsNumbered
<1>2. /\ \A o \in 1..Len(obj) : obj[o].name # u.name
      /\ DOMAIN suffixes' = {name} \cup DOMAIN suffixes
      /\ suffixes' \in [DOMAIN suffixes' -> Nat]
      /\ \A n : Suffixed(n) => Suffixed(n)'
      /\ Suffixed(u.name)'
      /\ u.name # name => \E k : u.name = Append(name, k)
  <2>1. \A o \in 1..Len(obj) : obj[o].name # u.name BY <1>1, UniqueIsNew
  <2>2. DOMAIN suffixes' = {name} \cup DOMAIN suffixes BY <1>1, UniqueIsNew
  <2>3. suffixes' \in [DOMAIN suffixes' -> Nat] BY <1>1, UniqueIsNew
  <2>4. \A n : Suffixed(n) => Suffixed(n)' BY <1>1, UniqueIsNew
  <2>5. Suffixed(u.name)' BY <1>1, UniqueIsNew
  <2>6. u.name # name => \E k : u.name = Append(name, k) BY <1>1, UniqueIsNew
  <2> QED BY <2>1, <2>2, <2>3, <2>4, <2>5, <2>6
<1>3. NamesUnique' BY <1>2, NewNameIsUnique DEF NamesKept
<1>4. DOMAIN suffixes' \subseteq GivenNames \cup {<<"spacerItem">>} BY <1>2 DEF NamesKept
<1>5. obj'[1].name = <<"top">> BY <1>1 DEF NamesKept, ObjectMade, Same
<1>6. ASSUME NEW o \in 2..Len(obj')
      PROVE  /\ Suffixed(obj[o].name)' \/ obj'[o].name \in DOMAIN bgroups'
             /\ obj'[o].class = "QSpacerItem" => obj'[o].name \notin Names
  <2>1. CASE o \in 2..Len(obj)
    <3>1. obj'[o].name = obj[o].name /\ obj'[o].class = obj[o].class
      BY <2>1, <1>1 DEF ObjectMade, Same
    <3>2. /\ Suffixed(obj[o].name) \/ obj[o].name \in DOMAIN bgroups
          /\ obj[o].class = "QSpacerItem" => obj[o].name \notin Names
      BY <2>1 DEF NamesKept
    <3>3. PICK n : n = obj[o].name OBVIOUS
    <3>4. Suffixed(n) => Suffixed(n)' BY <1>2
    <3>5. Suffixed(n)' => Suffixed(obj[o].name)' BY <3>1, <3>3 DEF Suffixed
    <3>6. Suffixed(obj[o].name) => Suffixed(n) BY <3>3
    <3>7. obj'[o].name \in DOMAIN bgroups' <=> obj[o].name \in DOMAIN bgroups BY <3>1
    <3> QED BY <3>1, <3>2, <3>4, <3>5, <3>6, <3>7
  <2>2. CASE o \notin 2..Len(obj)
    <3>1. o = Len(obj) + 1 BY <2>2, <1>1 DEF ObjectMade
    <3>2. obj'[o] = r BY <3>1 DEF ObjectMade
    <3>3. Suffixed(obj[o].name)' BY <3>2, <1>2 DEF Suffixed
    <3>4. ASSUME r.class = "QSpacerItem" PROVE r.name \notin Names
      <4>1. name = <<name[1]>> /\ name \notin Names BY <3>4 DEF NamesApart
      <4>2. \A n \in Names : n = <<n[1]>> BY DEF NamesApart, GivenNames
      <4>3. \A k : Append(name, k) \notin Names BY <4>1, <4>2, SuffixesApart
      <4> QED BY <4>1, <4>3, <1>2
    <3> QED BY <3>2, <3>3, <3>4
  <2> QED BY <2>1, <2>2
<1>7. DOMAIN bgroups' \subseteq Groups BY DEF NamesKept
<1>8. NamesKept' BY <1>2, <1>3, <1>4, <1>5, <1>6, <1>7 DEF NamesKept
<1> QED BY <1>2, <1>8

\* A name that is only an object's own, one of the attributes.
LEMMA AttributesGrow ==
    ASSUME AttributesKept, AreObjects(obj), Len(obj) >= 1, NEW r, ObjectMade(r),
           \A o \in 1..Len(obj) : obj[o].name # r.name,
           attrs' = Given(attrs, r.name, Len(obj) + 1)
    PROVE  AttributesKept'
<1>1. /\ Len(obj) \in Nat \ {0} /\ Len(obj') = Len(obj) + 1 /\ obj'[Len(obj) + 1] = r
      /\ \A o \in 1..Len(obj) : obj'[o].name = obj[o].name /\ obj'[o].class = obj[o].class
  BY ObjectsNumbered DEF ObjectMade, Same
<1>2. /\ DOMAIN attrs' = {r.name} \cup DOMAIN attrs /\ attrs'[r.name] = Len(obj) + 1
      /\ \A n \in DOMAIN attrs : n # r.name => attrs'[n] = attrs[n]
  BY DEF Given
<1>3. ASSUME NEW o \in 2..Len(obj'), obj'[o].class # "QSpacerItem"
      PROVE  obj'[o].name \in DOMAIN attrs' /\ attrs'[obj'[o].name] = o
  <2>1. CASE o = Len(obj) + 1 BY <2>1, <1>1, <1>2
  <2>2. CASE o # Len(obj) + 1
    <3>1. o \in 2..Len(obj) /\ o \in 1..Len(obj) BY <2>2, <1>1
    <3>2. obj[o].name \in DOMAIN attrs /\ attrs[obj[o].name] = o
      BY <3>1, <1>1, <1>3 DEF AttributesKept
    <3> QED BY <3>1, <3>2, <1>1, <1>2
  <2> QED BY <2>1, <2>2
<1>4. ASSUME NEW n \in DOMAIN attrs'
      PROVE  attrs'[n] \in 1..Len(obj') /\ obj'[attrs'[n]].name = n
  <2>1. CASE n = r.name BY <2>1, <1>1, <1>2
  <2>2. CASE n # r.name
    <3>1. attrs'[n] = attrs[n] /\ attrs[n] \in 1..Len(obj) /\ obj[attrs[n]].name = n
      BY <2>2, <1>2 DEF AttributesKept
    <3> QED BY <3>1, <1>1
  <2> QED BY <2>1, <2>2
<1> QED BY <1>3, <1>4 DEF AttributesKept

\* Names and attributes when objects are only put somewhere.
LEMMA NamesStay ==
    ASSUME NamesKept, AttributesKept, AreObjects(obj), Len(obj) >= 1, ObjectsStay,
           suffixes' = suffixes, DOMAIN bgroups' = DOMAIN bgroups, attrs' = attrs
    PROVE  NamesKept' /\ AttributesKept'
<1>1. /\ DOMAIN obj = 1..Len(obj) /\ DOMAIN obj' = 1..Len(obj) /\ Len(obj) \in Nat \ {0}
      /\ Len(obj') = Len(obj)
      /\ \A o \in 1..Len(obj) : obj'[o].name = obj[o].name /\ obj'[o].class = obj[o].class
  BY ObjectsNumbered DEF ObjectsStay, Same
<1>2. NamesUnique' BY <1>1 DEF NamesKept, NamesUnique
<1>3. \A n : Suffixed(n) => Suffixed(n)' BY DEF Suffixed
<1>4. ASSUME NEW o \in 2..Len(obj')
      PROVE  /\ Suffixed(obj[o].name)' \/ obj'[o].name \in DOMAIN bgroups'
             /\ obj'[o].class = "QSpacerItem" => obj'[o].name \notin Names
  <2>1. o \in 1..Len(obj) /\ o \in 2..Len(obj) BY <1>1
  <2>2. /\ Suffixed(obj[o].name) \/ obj[o].name \in DOMAIN bgroups
        /\ obj[o].class = "QSpacerItem" => obj[o].name \notin Names
    BY <2>1 DEF NamesKept
  <2>3. Suffixed(obj[o].name) => Suffixed(obj[o].name)' BY <2>1, <1>1 DEF Suffixed
  <2> QED BY <2>1, <2>2, <2>3, <1>1
<1>5. obj'[1].name = <<"top">> BY <1>1 DEF NamesKept
<1>6. NamesKept' BY <1>2, <1>4, <1>5 DEF NamesKept
<1>7. AttributesKept' BY <1>1 DEF AttributesKept
<1> QED BY <1>6, <1>7

\* A group of buttons is made with the name that it has in the file.
LEMMA GroupNamed ==
    ASSUME NamesKept, NamesApart, AreObjects(obj), Len(obj) >= 1,
           NEW r, ObjectMade(r), r.class = "QButtonGroup",
           r.name \in Groups \ DOMAIN bgroups, suffixes' = suffixes,
           DOMAIN bgroups' = {r.name} \cup DOMAIN bgroups
    PROVE  NamesKept' /\ \A o \in 1..Len(obj) : obj[o].name # r.name
<1>1. /\ Len(obj) \in Nat \ {0} /\ Len(obj') = Len(obj) + 1 /\ obj'[Len(obj) + 1] = r
      /\ \A o \in 1..Len(obj) : obj'[o].name = obj[o].name /\ obj'[o].class = obj[o].class
  BY ObjectsNumbered DEF ObjectMade, Same
<1>2. /\ r.name = <<r.name[1]>> /\ r.name # <<"top">>
      /\ \A n \in DOMAIN suffixes : n = <<n[1]>> /\ n # r.name
  <2>1. \A n \in GivenNames : n = <<n[1]>> BY DEF NamesApart
  <2>2. <<"spacerItem">> = <<(<<"spacerItem">>)[1]>> OBVIOUS
  <2>3. DOMAIN suffixes \subseteq GivenNames \cup {<<"spacerItem">>} BY DEF NamesKept
  <2>4. r.name \notin GivenNames \cup {<<"top">>, <<"spacerItem">>} BY DEF NamesApart
  <2>5. r.name = <<r.name[1]>> BY DEF NamesApart
  <2> QED BY <2>1, <2>2, <2>3, <2>4, <2>5
<1>3. ~ Suffixed(r.name) BY <1>2, SuffixesApart DEF Suffixed
<1>4. ASSUME NEW o \in 1..Len(obj) PROVE obj[o].name # r.name
  <2>1. CASE o = 1 BY <2>1, <1>2 DEF NamesKept
  <2>2. CASE o # 1
    <3>1. o \in 2..Len(obj) BY <2>2, <1>1
    <3>2. Suffixed(obj[o].name) \/ obj[o].name \in DOMAIN bgroups BY <3>1 DEF NamesKept
    <3> QED BY <3>2, <1>3
  <2> QED BY <2>1, <2>2
<1>5. NamesUnique' BY <1>4, NewNameIsUnique DEF NamesKept
<1>6. ASSUME NEW o \in 2..Len(obj')
      PROVE  /\ Suffixed(obj[o].name)' \/ obj'[o].name \in DOMAIN bgroups'
             /\ obj'[o].class = "QSpacerItem" => obj'[o].name \notin Names
  <2>1. CASE o = Len(obj) + 1 BY <2>1, <1>1
  <2>2. CASE o # Len(obj) + 1
    <3>1. o \in 2..Len(obj) /\ o \in 1..Len(obj) BY <2>2, <1>1
    <3>2. /\ Suffixed(obj[o].name) \/ obj[o].name \in DOMAIN bgroups
          /\ obj[o].class = "QSpacerItem" => obj[o].name \notin Names
      BY <3>1 DEF NamesKept
    <3>3. Suffixed(obj[o].name) => Suffixed(obj[o].name)' BY <3>1, <1>1 DEF Suffixed
    <3> QED BY <3>1, <3>2, <3>3, <1>1
  <2> QED BY <2>1, <2>2
<1>7. DOMAIN bgroups' \subseteq Groups BY DEF NamesKept
<1>8. obj'[1].name = <<"top">> BY <1>1 DEF NamesKept
<1>9. NamesKept' BY <1>5, <1>6, <1>7, <1>8 DEF NamesKept
<1> QED BY <1>4, <1>9

\* Objects remain inside of what they are in.
LEMMA EnclosedStays ==
    ASSUME ObjectsEnclosed, Len(obj) \in Nat,
           \A o \in 1..Len(obj) : Same(obj'[o], obj[o]),
           NEW o \in 2..Len(obj)
    PROVE  Enclosed(o)'
<1>1. Enclosed(o) BY DEF ObjectsEnclosed
<1>2. PICK in : in = obj[o].inside OBVIOUS
<1>3. in \in 1..(o - 1) BY <1>1, <1>2 DEF Enclosed
<1>4. o \in 1..Len(obj) /\ in \in 1..Len(obj) BY <1>3
<1>5. /\ obj'[o].inside = in /\ obj'[in].class = obj[in].class
      /\ obj'[o].class = obj[o].class /\ obj'[o].parent = obj[o].parent
  BY <1>2, <1>4 DEF Same
<1>6. Fits(obj'[o], obj'[in]) BY <1>1, <1>2, <1>5 DEF Enclosed, Fits
<1> QED BY <1>3, <1>5, <1>6 DEF Enclosed

\* Objects stay inside of what they are in when only places change.
LEMMA ObjectsStayEnclosed ==
    ASSUME ObjectsEnclosed, ObjectsStay
    PROVE  ObjectsEnclosed'
<1>1. Len(obj) \in Nat /\ Len(obj) >= 1 /\ Len(obj') = Len(obj) BY DEF ObjectsStay, ObjectsEnclosed
<1>2. \A o \in 1..Len(obj) : Same(obj'[o], obj[o]) BY DEF ObjectsStay
<1>3. \A o \in 2..Len(obj) : Enclosed(o)' BY <1>1, <1>2, EnclosedStays
<1>4. Same(obj'[1], obj[1]) BY <1>1, <1>2
<1> QED BY <1>1, <1>3, <1>4 DEF ObjectsEnclosed, Same

\* A new object that fits into what it is inside of leaves all enclosed.
LEMMA NewObjectEnclosed ==
    ASSUME ObjectsEnclosed, NEW r, ObjectMade(r),
           r.inside \in 1..Len(obj), Fits(r, obj[r.inside])
    PROVE  ObjectsEnclosed'
<1>1. Len(obj) \in Nat /\ Len(obj) >= 1 /\ Len(obj') = Len(obj) + 1
  BY DEF ObjectMade, ObjectsEnclosed
<1>2. \A o \in 1..Len(obj) : Same(obj'[o], obj[o]) BY DEF ObjectMade
<1>3. \A o \in 2..Len(obj) : Enclosed(o)' BY <1>1, <1>2, EnclosedStays
<1>4. Same(obj'[1], obj[1]) BY <1>1, <1>2
<1>5. ASSUME NEW o \in 2..Len(obj'), o \notin 2..Len(obj) PROVE Enclosed(o)'
  <2>1. o = Len(obj) + 1 /\ o - 1 = Len(obj) BY <1>1, <1>5
  <2>2. obj'[o] = r BY <2>1 DEF ObjectMade
  <2>3. obj'[r.inside].class = obj[r.inside].class BY <1>2 DEF Same
  <2>4. Fits(r, obj'[r.inside]) BY <2>3 DEF Fits
  <2> QED BY <2>1, <2>2, <2>4 DEF Enclosed
<1> QED BY <1>1, <1>3, <1>4, <1>5 DEF ObjectsEnclosed, Same

\* What is open up to a place remains so if the stack is the same up to there.
LEMMA OpenStays ==
    ASSUME StackRight, Len(obj) \in Nat, Len(obj') \in Nat, Len(obj') >= Len(obj),
           \A o \in 1..Len(obj) : Same(obj'[o], obj[o]),
           Len(stack) \in Nat, NEW i \in 1..Len(stack), \A j \in 1..i : stack'[j] = stack[j],
           obj'[stack[i]].places = obj[stack[i]].places
    PROVE  OpenRight(i)'
<1>1. OpenRight(i) BY DEF StackRight
<1>2. ASSUME NEW j \in 1..i PROVE stack[j] \in 1..Len(obj)
  <2>1. j \in 1..Len(stack) OBVIOUS
  <2>2. OpenRight(j) BY <2>1 DEF StackRight
  <2> QED BY <2>2 DEF OpenRight
<1>3. \A j \in 1..i : /\ IsWidget(stack[j])' <=> IsWidget(stack[j])
                      /\ IsLayout(stack[j])' <=> IsLayout(stack[j])
  BY <1>2 DEF Same, IsWidget, IsLayout
<1>4. i \in 1..i /\ (i # 1 => i - 1 \in 1..i) /\ stack'[i] = stack[i] OBVIOUS
<1>5. obj'[stack[i]].inside = obj[stack[i]].inside BY <1>2, <1>4 DEF Same
<1>6. \E j \in 1..i : Nearest(j, i)'
  <2>1. PICK j \in 1..i : Nearest(j, i) BY <1>1 DEF OpenRight
  <2>2. \A k \in (j + 1)..i : k \in 1..i BY <2>1
  <2>3. Nearest(j, i)' BY <2>1, <2>2, <1>3 DEF Nearest
  <2> QED BY <2>1, <2>3
<1>7. /\ stack'[i] \in 1..Len(obj') /\ obj'[stack'[i]].places = << >>
      /\ IsWidget(stack[i])' \/ IsLayout(stack[i])'
  BY <1>1, <1>3, <1>4 DEF OpenRight
<1>8. \A j \in 1..(i - 1) : stack'[j] < stack'[i] BY <1>1, <1>4 DEF OpenRight
<1>9. i # 1 => obj'[stack'[i]].inside = stack'[i - 1] BY <1>1, <1>4, <1>5 DEF OpenRight
<1> QED BY <1>6, <1>7, <1>8, <1>9 DEF OpenRight

\* While the tree is read something is open.
LEMMA SomethingOpen ==
    ASSUME UiTypeOK, StackRight, phase = "tree"
    PROVE  /\ stack # << >> /\ Len(stack) \in Nat \ {0} /\ Peek = stack[Len(stack)]
           /\ DOMAIN stack = 1..Len(stack) /\ OpenRight(Len(stack))
           /\ Peek \in 1..Len(obj) /\ Len(obj) \in Nat \ {0}
           /\ IsLayout(Peek) => ~ IsWidget(Peek)
           /\ IsWidget(Peek) \/ IsLayout(Peek)
<1>1. stack # << >> /\ stack \in Seq(Nat) BY DEF UiTypeOK, StackRight
<1>2. Len(stack) \in Nat \ {0} /\ Last(stack) = stack[Len(stack)] BY <1>1, Shortened
<1>3. DOMAIN stack = 1..Len(stack) BY <1>1, LenProperties
<1>4. Len(stack) \in 1..Len(stack) BY <1>2
<1>5. OpenRight(Len(stack)) BY <1>4 DEF StackRight
<1>6. Peek \in 1..Len(obj) BY <1>2, <1>5 DEF OpenRight, Peek
<1>7. Len(obj) \in Nat BY ObjectsNumbered DEF UiTypeOK
<1>8. Len(obj) # 0 BY <1>7 DEF StackRight, ObjectsEnclosed
<1>9. IsLayout(Peek) => ~ IsWidget(Peek) BY ClassesAssumption DEF IsLayout, IsWidget
<1>10. IsWidget(Peek) \/ IsLayout(Peek) BY <1>2, <1>5 DEF OpenRight, Peek
<1> QED BY <1>1, <1>2, <1>3, <1>5, <1>6, <1>7, <1>8, <1>9, <1>10 DEF Peek

\* The stack is right when no element begins or ends.
LEMMA StackStays ==
    ASSUME StackRight, UiTypeOK, ObjectsEnclosed',
           Len(obj') \in Nat, Len(obj') >= Len(obj),
           \A o \in 1..Len(obj) : Same(obj'[o], obj[o]) /\ obj'[o].places = obj[o].places,
           UNCHANGED <<stack, phase>>
    PROVE  StackRight'
<1>1. Len(obj) \in Nat BY ObjectsNumbered DEF UiTypeOK
<1>2. PICK S : S = Nat OBVIOUS
<1>3. stack \in Seq(S) BY <1>2 DEF UiTypeOK
<1>4. Len(stack) \in Nat BY <1>3, LenProperties
<1>5. ASSUME NEW i \in 1..Len(stack) PROVE OpenRight(i)'
  <2>1. stack[i] \in 1..Len(obj) BY DEF StackRight, OpenRight
  <2> QED BY <2>1, <1>1, <1>4, OpenStays
<1> QED BY <1>5 DEF StackRight

\* The element of a widget or a layout begins.
LEMMA StackPushed ==
    ASSUME StackRight, UiTypeOK, phase = "tree", phase' = phase,
           NEW r, ObjectMade(r), \A o \in 1..Len(obj) : obj'[o] = obj[o],
           r.inside = Peek, r.places = << >>, Fits(r, obj[r.inside]),
           r.class \in Classes \cup TopClasses \cup LayoutClasses,
           stack' = Append(stack, Len(obj) + 1)
    PROVE  StackRight'
<1>1. /\ Len(stack) \in Nat \ {0} /\ Peek = stack[Len(stack)] /\ Peek \in 1..Len(obj)
      /\ OpenRight(Len(stack)) /\ Len(obj) \in Nat \ {0} /\ stack # << >>
  BY SomethingOpen
<1>2. PICK S : S = Nat OBVIOUS
<1>3. stack \in Seq(S) BY <1>2 DEF UiTypeOK
<1>4. Len(stack') = Len(stack) + 1 /\ stack'[Len(stack) + 1] = Len(obj) + 1
  <2>1. PICK s : s = stack' OBVIOUS
  <2>2. s = Append(stack, Len(obj) + 1) BY <2>1
  <2>3. Len(s) = Len(stack) + 1 BY <2>2, <1>3, Lengthened
  <2>4. s[Len(stack) + 1] = Len(obj) + 1 BY <2>2, <1>3, Lengthened
  <2> QED BY <2>1, <2>3, <2>4
<1>5. \A j \in 1..Len(stack) : stack'[j] = stack[j]
  <2>1. PICK s : s = stack' OBVIOUS
  <2>2. s = Append(stack, Len(obj) + 1) BY <2>1
  <2>3. \A j \in 1..Len(stack) : s[j] = stack[j] BY <2>2, <1>3, Lengthened
  <2> QED BY <2>1, <2>3
<1>6. ObjectsEnclosed' BY <1>1, NewObjectEnclosed DEF StackRight
<1>7. Len(obj') = Len(obj) + 1 /\ obj'[Len(obj) + 1] = r BY DEF ObjectMade
<1>8. \A o \in 1..Len(obj) : Same(obj'[o], obj[o]) BY DEF ObjectMade
<1>9. ASSUME NEW i \in 1..Len(stack) PROVE OpenRight(i)'
  <2>1. stack[i] \in 1..Len(obj) BY DEF StackRight, OpenRight
  <2>2. obj'[stack[i]].places = obj[stack[i]].places BY <2>1
  <2>3. Len(obj') \in Nat /\ Len(obj') >= Len(obj) BY <1>1, <1>7
  <2>4. \A j \in 1..i : stack'[j] = stack[j] BY <1>1, <1>5
  <2> QED BY <2>2, <2>3, <2>4, <1>1, <1>8, OpenStays
<1>10. PICK n : n = Len(stack) + 1 OBVIOUS
<1>11. /\ n \in Nat /\ n - 1 = Len(stack) /\ stack'[n] = Len(obj) + 1 /\ n # 1
       /\ stack'[n - 1] = stack[Len(stack)] /\ obj'[stack'[n]] = r
  BY <1>1, <1>4, <1>5, <1>7, <1>10
<1>12. OpenRight(n)'
  <2>1. /\ stack'[n] \in 1..Len(obj') /\ obj'[stack'[n]].places = << >>
        /\ obj'[stack'[n]].inside = stack'[n - 1]
    BY <1>1, <1>7, <1>11
  <2>2. IsWidget(stack[n])' \/ IsLayout(stack[n])' BY <1>11 DEF IsWidget, IsLayout
  <2>3. \A j \in 1..(n - 1) : stack'[j] < stack'[n]
    <3>1. \A j \in 1..Len(stack) : stack[j] \in 1..Len(obj) BY DEF StackRight, OpenRight
    <3> QED BY <3>1, <1>1, <1>5, <1>11
  <2>4. \E j \in 1..n : Nearest(j, n)'
    <3>1. CASE IsWidget(stack[n])'
      <4>1. n \in 1..n /\ (n + 1)..n = {} BY <1>1, <1>10
      <4>2. Nearest(n, n)' BY <3>1, <4>1 DEF Nearest
      <4> QED BY <4>1, <4>2
    <3>2. CASE ~ IsWidget(stack[n])'
      <4>1. PICK m : m = Len(stack) OBVIOUS
      <4>2. OpenRight(m)' BY <1>1, <1>9, <4>1
      <4>3. PICK j \in 1..m : Nearest(j, m)' BY <4>2 DEF OpenRight
      <4>4. j \in 1..n /\ \A k \in (j + 1)..n : k \in (j + 1)..m \/ k = n
        BY <4>1, <4>3, <1>1, <1>10
      <4>5. Nearest(j, n)' BY <4>3, <4>4, <3>2 DEF Nearest
      <4> QED BY <4>4, <4>5
    <3> QED BY <3>1, <3>2
  <2> QED BY <2>1, <2>2, <2>3, <2>4 DEF OpenRight
<1>13. 1..Len(stack') = (1..Len(stack)) \cup {n} BY <1>1, <1>4, <1>10
<1>14. \A i \in 1..Len(stack') : OpenRight(i)' BY <1>9, <1>12, <1>13
<1>15. stack'[1] = 1 BY <1>1, <1>5 DEF StackRight
<1>16. stack' # << >> BY <1>1, <1>4
<1> QED BY <1>6, <1>14, <1>15, <1>16 DEF StackRight

\* The element ends: what is below it stays open.
LEMMA StackPopped ==
    ASSUME StackRight, UiTypeOK, phase = "tree", phase' = phase, Len(stack) > 1,
           ObjectsEnclosed', Len(obj') \in Nat, Len(obj') >= Len(obj),
           \A o \in 1..Len(obj) : Same(obj'[o], obj[o]),
           \A o \in 1..Len(obj) : o # Peek => obj'[o].places = obj[o].places,
           stack' = Front(stack)
    PROVE  /\ StackRight' /\ Len(stack') = Len(stack) - 1
           /\ \A i \in 1..(Len(stack) - 1) : stack'[i] = stack[i]
           /\ Last(stack') = stack[Len(stack) - 1]
<1>1. /\ Len(stack) \in Nat \ {0} /\ Peek = stack[Len(stack)] /\ Len(obj) \in Nat
      /\ stack # << >>
  BY SomethingOpen
<1>2. PICK S : S = Nat OBVIOUS
<1>3. stack \in Seq(S) BY <1>2 DEF UiTypeOK
<1>4. Len(stack') = Len(stack) - 1 /\ stack' \in Seq(S) BY <1>1, <1>3, Shortened
<1>5. \A i \in 1..(Len(stack) - 1) : stack'[i] = stack[i] BY <1>1, <1>3, Shortened
<1>6. \A i \in 1..(Len(stack) - 1) : stack[i] # Peek
  <2>1. OpenRight(Len(stack)) BY SomethingOpen
  <2>2. \A i \in 1..(Len(stack) - 1) : stack[i] < stack[Len(stack)]
    BY <2>1 DEF OpenRight
  <2>3. \A i \in 1..Len(stack) : stack[i] \in 1..Len(obj) BY DEF StackRight, OpenRight
  <2> QED BY <2>2, <2>3, <1>1
<1>7. ASSUME NEW i \in 1..Len(stack') PROVE OpenRight(i)'
  <2>1. i \in 1..Len(stack) /\ i \in 1..(Len(stack) - 1) BY <1>1, <1>4
  <2>2. stack[i] \in 1..Len(obj) /\ stack[i] # Peek
    BY <2>1, <1>6 DEF StackRight, OpenRight
  <2>3. \A j \in 1..i : stack'[j] = stack[j] BY <2>1, <1>1, <1>5
  <2> QED BY <2>1, <2>2, <2>3, <1>1, OpenStays
<1>8. stack' # << >> BY <1>1, <1>4
<1>9. stack'[1] = 1 BY <1>1, <1>5 DEF StackRight
<1>10. StackRight' BY <1>7, <1>8, <1>9 DEF StackRight
<1>11. Last(stack') = stack[Len(stack) - 1]
  <2>1. Len(stack) - 1 \in 1..(Len(stack) - 1) BY <1>1
  <2>2. stack'[Len(stack) - 1] = stack[Len(stack) - 1] BY <2>1, <1>5
  <2> QED BY <2>2, <1>4 DEF Last
<1> QED BY <1>4, <1>5, <1>10, <1>11

\* topwidget is the innermost widget that is open.
LEMMA TopIsNearest ==
    ASSUME UiTypeOK, StackRight, CurrentWidget, phase = "tree"
    PROVE  /\ topwidget \in 1..Len(obj) /\ IsWidget(topwidget)
           /\ \E i \in 1..Len(stack) : topwidget = stack[i] /\ Nearest(i, Len(stack))
           /\ IsWidget(Peek) => Peek = topwidget
           /\ IsLayout(Peek) => Peek # topwidget
<1>1. /\ Len(stack) \in Nat \ {0} /\ Peek = stack[Len(stack)]
      /\ DOMAIN stack = 1..Len(stack)
      /\ IsLayout(Peek) => ~ IsWidget(Peek)
  BY SomethingOpen
<1>2. PICK i \in 1..Len(stack) :
        /\ topwidget = stack[i] /\ IsWidget(stack[i])
        /\ \A j \in 1..Len(stack) : j > i => ~ IsWidget(stack[j])
  BY <1>1 DEF CurrentWidget
<1>3. Nearest(i, Len(stack)) BY <1>1, <1>2 DEF Nearest
<1>4. topwidget \in 1..Len(obj) BY <1>2 DEF StackRight, OpenRight
<1>5. IsWidget(Peek) => Peek = topwidget BY <1>1, <1>2
<1> QED BY <1>1, <1>2, <1>3, <1>4, <1>5

\* AfterPop() finds it again.
LEMMA AfterPopIsNearest ==
    ASSUME NEW s, NEW n \in Nat \ {0}, Len(s) = n, NEW i \in 1..n,
           IsWidget(s[i]), \A j \in (i + 1)..n : ~ IsWidget(s[j])
    PROVE  AfterPop(s) = s[i]
<1> DEFINE I == {j \in 1..Len(s) : IsWidget(s[j])}
<1>1. i \in I OBVIOUS
<1>2. \A j \in I : i >= j OBVIOUS
<1>3. \A j \in I : j \in Nat OBVIOUS
<1>4. SelectLastInSeq(s, IsWidget) = IF I # {} THEN Max(I) ELSE 0 BY DEF SelectLastInSeq
<1> HIDE DEF I
<1>5. Max(I) = i
  <2>1. Max(I) \in I /\ \A j \in I : Max(I) >= j BY <1>1, <1>2, Zenon DEF Max
  <2>2. PICK m : m = Max(I) OBVIOUS
  <2>3. m \in I /\ m >= i BY <2>1, <2>2, <1>1
  <2>4. m \in Nat /\ i \in Nat /\ i >= m BY <2>3, <1>2, <1>3
  <2>5. m = i BY <2>3, <2>4
  <2> QED BY <2>2, <2>5
<1>6. SelectLastInSeq(s, IsWidget) = i BY <1>1, <1>4, <1>5
<1>7. i # 0 OBVIOUS
<1> QED BY <1>6, <1>7 DEF AfterPop

\* Nothing that is about the open elements and items changes.
LEMMA NestingStays ==
    ASSUME UiTypeOK, StackRight, CurrentWidget, ItemsCounted,
           Len(obj') \in Nat, Len(obj') >= Len(obj),
           \A o \in 1..Len(obj) : Same(obj'[o], obj[o]),
           UNCHANGED <<stack, topwidget, item, itemNr, itemstack, phase>>
    PROVE  CurrentWidget' /\ ItemsCounted'
<1>1. Len(obj) \in Nat BY ObjectsNumbered DEF UiTypeOK
<1>2. \A o \in 1..Len(obj) : obj'[o].class = obj[o].class BY DEF Same
<1>3. CASE phase = "tree"
  <2>1. /\ Peek \in 1..Len(obj) /\ DOMAIN stack = 1..Len(stack) /\ Len(stack) \in Nat \ {0}
    BY <1>3, SomethingOpen
  <2>2. Peek' = Peek BY DEF Peek
  <2>3. obj'[Peek'].class = obj[Peek].class BY <2>1, <2>2, <1>2
  <2>4. \A i \in 1..Len(stack) : IsWidget(stack[i])' <=> IsWidget(stack[i])
    BY <1>2 DEF StackRight, OpenRight, IsWidget
  <2>5. ItemsOf(topwidget, OpenItem)' = ItemsOf(topwidget, OpenItem)
    BY DEF ItemsOf, ItemsIn, OpenItem
  <2>6. PICK i \in 1..Len(stack) :
          /\ topwidget = stack[i] /\ IsWidget(stack[i])
          /\ \A j \in 1..Len(stack) : j > i => ~ IsWidget(stack[j])
    BY <2>1, <1>3 DEF CurrentWidget
  <2>7. \E k \in DOMAIN stack' :
          /\ topwidget' = stack'[k] /\ IsWidget(stack[k])'
          /\ \A j \in DOMAIN stack' : j > k => ~ IsWidget(stack[j])'
    BY <2>1, <2>4, <2>6
  <2>8. CurrentWidget'
    BY <1>3, <2>2, <2>3, <2>5, <2>7 DEF CurrentWidget
  <2>9. ItemsCounted'
    BY <1>1, <2>2, <2>3 DEF ItemsCounted, ItemsOf, ItemsIn, Within
  <2> QED BY <2>8, <2>9
<1>4. CASE phase # "tree"
  <2>1. CurrentWidget' BY <1>4 DEF CurrentWidget
  <2>2. itemstack = << >> BY <1>4 DEF ItemsCounted
  <2>3. Len(itemstack) = 0 BY <2>2
  <2>4. ItemsCounted' BY <1>1, <2>2, <2>3 DEF ItemsCounted
  <2> QED BY <2>1, <2>4
<1> QED BY <1>3, <1>4

\* An object that is none of an item view has no items yet.
LEMMA NoItems ==
    ASSUME UiTypeOK, ItemsCounted, NEW o, o \notin 1..Len(obj), item' = item
    PROVE  \A p : ItemsOf(o, p)' = {}
<1>1. PICK S : S = ItemRecords OBVIOUS
<1>2. item \in Seq(S) BY <1>1 DEF UiTypeOK
<1>3. DOMAIN item = 1..Len(item) BY <1>2, LenProperties
<1>4. \A i \in 1..Len(item) : item[i].view # o BY DEF ItemsCounted
<1> QED BY <1>3, <1>4 DEF ItemsOf, ItemsIn

\* No items are open when an element begins, and they are counted from 0.
LEMMA PushNesting ==
    ASSUME UiTypeOK, StackRight, StackRight', CurrentWidget, ItemsCounted, phase = "tree",
           Len(obj') \in Nat, Len(obj') >= Len(obj),
           \A o \in 1..Len(obj) : Same(obj'[o], obj[o]),
           stack' = Append(stack, Len(obj) + 1), UNCHANGED <<item, phase>>,
           itemstack' = << >>,
           \/ IsWidget(Last(stack))' /\ topwidget' = Len(obj) + 1 /\ itemNr' = 0
           \/ ~ IsWidget(Last(stack))' /\ topwidget' = topwidget
    PROVE  CurrentWidget' /\ ItemsCounted'
<1>1. /\ Len(obj) \in Nat \ {0} /\ DOMAIN stack = 1..Len(stack) /\ Len(stack) \in Nat \ {0}
  BY SomethingOpen
<1>2. PICK S : S = Nat OBVIOUS
<1>3. stack \in Seq(S) BY <1>2 DEF UiTypeOK
<1>4. PICK s : s = Append(stack, Len(obj) + 1) OBVIOUS
<1>5. Len(s) = Len(stack) + 1 BY <1>3, <1>4, Lengthened
<1>6. s[Len(stack) + 1] = Len(obj) + 1 BY <1>3, <1>4, Lengthened
<1>7. \A i \in 1..Len(stack) : s[i] = stack[i] BY <1>3, <1>4, Lengthened
<1>8. DOMAIN s = 1..Len(s) BY <1>3, <1>4, Lengthened
<1>9. stack' = s BY <1>4
<1>10. Last(stack') = Len(obj) + 1 BY <1>5, <1>6, <1>9 DEF Last
<1>11. PICK n : n = Len(stack) + 1 OBVIOUS
<1>12. IsWidget(stack[n])' <=> IsWidget(Last(stack))'
  BY <1>6, <1>9, <1>10, <1>11 DEF IsWidget
<1>13. ItemsCounted'
  <2>1. Len(itemstack') = 0 OBVIOUS
  <2>2. \A i \in 1..Len(item) : item[i].view \in 1..Len(obj') /\ item[i].parent < i
    BY <1>1 DEF ItemsCounted
  <2> QED BY <2>1, <2>2 DEF ItemsCounted
<1>14. CASE IsWidget(Last(stack))' /\ topwidget' = Len(obj) + 1 /\ itemNr' = 0
  <2>1. /\ n \in DOMAIN stack' /\ topwidget' = stack'[n] /\ IsWidget(stack[n])'
        /\ \A j \in DOMAIN stack' : ~ j > n
    BY <1>1, <1>5, <1>6, <1>8, <1>9, <1>11, <1>12, <1>14
  <2>2. PICK top : top = Len(obj) + 1 OBVIOUS
  <2>3. ItemsOf(top, 0)' = {} BY <2>2, <1>1, NoItems
  <2>4. ItemsOf(topwidget, OpenItem)' = {}
    BY <2>2, <2>3, <1>14 DEF ItemsOf, ItemsIn, OpenItem
  <2>5. Cardinality(ItemsOf(topwidget, OpenItem)') = 0 BY <2>4, FS_EmptySet
  <2>6. \E i \in DOMAIN stack' :
          /\ topwidget' = stack'[i] /\ IsWidget(stack[i])'
          /\ \A j \in DOMAIN stack' : j > i => ~ IsWidget(stack[j])'
    BY <2>1
  <2>7. itemNr' = Cardinality(ItemsOf(topwidget, OpenItem))' BY <2>5, <1>14
  <2> QED BY <2>6, <2>7, <1>13 DEF CurrentWidget
<1>15. CASE ~ IsWidget(Last(stack))' /\ topwidget' = topwidget
  <2>1. PICK i \in 1..Len(stack) :
          /\ topwidget = stack[i] /\ IsWidget(stack[i])
          /\ \A j \in 1..Len(stack) : j > i => ~ IsWidget(stack[j])
    BY <1>1 DEF CurrentWidget
  <2>2. \A j \in 1..Len(stack) : IsWidget(stack[j])' <=> IsWidget(stack[j])
    <3>1. \A j \in 1..Len(stack) : stack[j] \in 1..Len(obj) BY DEF StackRight, OpenRight
    <3>2. \A o \in 1..Len(obj) : obj'[o].class = obj[o].class BY DEF Same
    <3> QED BY <3>1, <3>2, <1>7, <1>9 DEF IsWidget
  <2>3. \A j \in DOMAIN stack' : j \in 1..Len(stack) \/ j = n
    BY <1>1, <1>5, <1>8, <1>9, <1>11
  <2>4. /\ i \in DOMAIN stack' /\ topwidget' = stack'[i] /\ IsWidget(stack[i])'
        /\ \A j \in DOMAIN stack' : j > i => ~ IsWidget(stack[j])'
    BY <2>1, <2>2, <2>3, <1>1, <1>5, <1>7, <1>8, <1>9, <1>12, <1>15
  <2>5. topwidget \in 1..Len(obj) BY TopIsNearest
  <2>6. Peek' # topwidget' BY <2>5, <1>1, <1>10, <1>15 DEF Peek
  <2>7. \E k \in DOMAIN stack' :
          /\ topwidget' = stack'[k] /\ IsWidget(stack[k])'
          /\ \A j \in DOMAIN stack' : j > k => ~ IsWidget(stack[j])'
    BY <2>4
  <2> QED BY <2>6, <2>7, <1>13 DEF CurrentWidget
<1> QED BY <1>14, <1>15

\* What widgets and layouts are inside of has no items.
LEMMA HolderHasNoItems ==
    ASSUME NEW r, NEW c, Fits(r, c), r.class \in Classes \cup TopClasses \cup LayoutClasses
    PROVE  c.class \notin ItemViews \cup {"QComboBox"}
<1>1. r.class \notin Placeless \cup {"QSpacerItem"} BY ClassesAssumption
<1>2. c.class \in {"QWidget", "QMainWindow"} \cup Containers \cup LayoutClasses
  BY <1>1 DEF Fits
<1>3. LayoutClasses \cap (ItemViews \cup {"QComboBox"}) = {} BY ClassesAssumption
<1>4. ({"QWidget", "QMainWindow"} \cup Containers) \cap (ItemViews \cup {"QComboBox"}) = {}
  BY DEF Containers, ItemViews
<1> QED BY <1>2, <1>3, <1>4

\* The element that ends is inside of the one below it.
LEMMA InsideBelow ==
    ASSUME UiTypeOK, StackRight, phase = "tree", Len(stack) > 1
    PROVE  LET below == stack[Len(stack) - 1]
           IN  /\ Peek \in 2..Len(obj) /\ below \in 1..Len(obj)
               /\ obj[Peek].inside = below /\ Fits(obj[Peek], obj[below])
               /\ obj[Peek].class \in Classes \cup TopClasses \cup LayoutClasses
               /\ obj[Peek].places = << >>
<1>1. /\ Len(stack) \in Nat \ {0} /\ Peek = stack[Len(stack)] /\ OpenRight(Len(stack))
      /\ Len(obj) \in Nat \ {0}
  BY SomethingOpen
<1>2. 1 \in 1..(Len(stack) - 1) /\ Len(stack) - 1 \in 1..Len(stack) /\ 1 \in 1..Len(stack)
  BY <1>1
<1>3. stack[1] < Peek /\ obj[Peek].inside = stack[Len(stack) - 1] /\ Peek \in 1..Len(obj)
  BY <1>1, <1>2 DEF OpenRight
<1>4. stack[1] \in 1..Len(obj) /\ stack[Len(stack) - 1] \in 1..Len(obj)
  BY <1>2 DEF StackRight, OpenRight
<1>5. Peek \in 2..Len(obj) BY <1>1, <1>3, <1>4
<1>6. Fits(obj[Peek], obj[obj[Peek].inside])
  BY <1>5 DEF StackRight, ObjectsEnclosed, Enclosed
<1>7. obj[Peek].class \in Classes \cup TopClasses \cup LayoutClasses /\ obj[Peek].places = << >>
  BY <1>1 DEF OpenRight, IsWidget, IsLayout
<1> QED BY <1>3, <1>4, <1>5, <1>6, <1>7

\* topwidget and the counter when an element ends.
LEMMA PopNesting ==
    ASSUME UiTypeOK, StackRight, CurrentWidget, ItemsCounted, phase = "tree",
           Len(obj') \in Nat, Len(obj') >= Len(obj),
           \A o \in 1..Len(obj) : Same(obj'[o], obj[o]),
           Len(stack) > 1, stack' = Front(stack), itemstack = << >>,
           UNCHANGED <<item, itemNr, itemstack, phase>>,
           \/ ~ TopIsLayout /\ topwidget' = AfterPop(Front(stack))
           \/ TopIsLayout /\ topwidget' = topwidget
    PROVE  /\ CurrentWidget' /\ ItemsCounted'
           /\ \E i \in 1..(Len(stack) - 1) :
                topwidget' = stack[i] /\ Nearest(i, Len(stack) - 1)
<1>1. /\ Len(stack) \in Nat \ {0} /\ Peek = stack[Len(stack)] /\ stack # << >>
      /\ DOMAIN stack = 1..Len(stack) /\ Len(obj) \in Nat \ {0}
      /\ IsLayout(Peek) => ~ IsWidget(Peek)
  BY SomethingOpen
<1>2. PICK S : S = Nat OBVIOUS
<1>3. stack \in Seq(S) BY <1>2 DEF UiTypeOK
<1>4. PICK n : n = Len(stack) - 1 OBVIOUS
<1>5. n \in Nat \ {0} /\ n + 1 = Len(stack) BY <1>1, <1>4
<1>6. PICK s : s = Front(stack) OBVIOUS
<1>7. s \in Seq(S) /\ Len(s) = n BY <1>1, <1>3, <1>4, <1>6, Shortened
<1>8. \A i \in 1..n : s[i] = stack[i] BY <1>1, <1>3, <1>4, <1>6, Shortened
<1>9. DOMAIN s = 1..n BY <1>7, LenProperties
<1>10. \A i \in 1..Len(stack) : stack[i] \in 1..Len(obj) BY DEF StackRight, OpenRight
<1>11. PICK i \in 1..n : topwidget' = stack[i] /\ Nearest(i, n)
  <2>1. CASE ~ TopIsLayout /\ topwidget' = AfterPop(Front(stack))
    <3>1. n \in 1..Len(stack) BY <1>1, <1>5
    <3>2. PICK i \in 1..n : Nearest(i, n) BY <3>1 DEF StackRight, OpenRight
    <3>3. /\ IsWidget(s[i]) /\ i \in 1..n
          /\ \A j \in (i + 1)..n : ~ IsWidget(s[j])
      <4>1. IsWidget(stack[i]) /\ \A j \in (i + 1)..n : ~ IsWidget(stack[j])
        BY <3>2 DEF Nearest
      <4>2. s[i] = stack[i] /\ \A j \in (i + 1)..n : s[j] = stack[j] BY <1>5, <1>8, <3>2
      <4> QED BY <4>1, <4>2
    <3>4. AfterPop(s) = s[i] BY <3>3, <1>5, <1>7, AfterPopIsNearest
    <3> QED BY <2>1, <3>2, <3>4, <1>6, <1>8
  <2>2. CASE TopIsLayout /\ topwidget' = topwidget
    <3>1. PICK i \in 1..Len(stack) : topwidget = stack[i] /\ Nearest(i, Len(stack))
      BY TopIsNearest
    <3>2. i # Len(stack) BY <2>2, <3>1, <1>1 DEF TopIsLayout, Nearest
    <3>3. i \in 1..n /\ \A j \in (i + 1)..n : j \in (i + 1)..Len(stack)
      <4>1. PICK m : m = Len(stack) OBVIOUS
      <4>2. i \in 1..m /\ i # m /\ m \in Nat /\ n + 1 = m BY <3>1, <3>2, <4>1, <1>1, <1>5
      <4>3. i \in 1..n BY <4>2, <1>5
      <4>4. \A j \in (i + 1)..n : j \in (i + 1)..m BY <4>2, <1>5
      <4> QED BY <4>1, <4>3, <4>4
    <3>4. Nearest(i, n) BY <3>1, <3>3 DEF Nearest
    <3> QED BY <2>2, <3>1, <3>3, <3>4
  <2> QED BY <2>1, <2>2
<1>12. \A j \in 1..n : IsWidget(stack[j])' <=> IsWidget(stack[j])
  <2>1. \A j \in 1..n : stack'[j] = stack[j] /\ j \in 1..Len(stack) BY <1>1, <1>5, <1>6, <1>8
  <2>2. \A o \in 1..Len(obj) : obj'[o].class = obj[o].class BY DEF Same
  <2> QED BY <2>1, <2>2, <1>10 DEF IsWidget
<1>13. \E k \in DOMAIN stack' :
          /\ topwidget' = stack'[k] /\ IsWidget(stack[k])'
          /\ \A j \in DOMAIN stack' : j > k => ~ IsWidget(stack[j])'
  <2>1. IsWidget(stack[i]) /\ \A j \in (i + 1)..n : ~ IsWidget(stack[j])
    BY <1>11 DEF Nearest
  <2>2. \A j \in 1..n : j > i => j \in (i + 1)..n BY <1>5
  <2>3. i \in DOMAIN stack' /\ topwidget' = stack'[i] BY <1>6, <1>8, <1>9, <1>11
  <2>4. IsWidget(stack[i])' BY <2>1, <1>12
  <2>5. \A j \in DOMAIN stack' : j > i => ~ IsWidget(stack[j])'
    BY <2>1, <2>2, <1>6, <1>9, <1>12
  <2> QED BY <2>3, <2>4, <2>5
<1>14. obj'[Peek'].class \notin ItemViews \cup {"QComboBox"}
  <2>1. PICK below : below = stack[n] OBVIOUS
  <2>2. /\ Fits(obj[Peek], obj[below]) /\ below \in 1..Len(obj)
        /\ obj[Peek].class \in Classes \cup TopClasses \cup LayoutClasses
    BY <2>1, <1>4, InsideBelow
  <2>3. obj[below].class \notin ItemViews \cup {"QComboBox"} BY <2>2, HolderHasNoItems
  <2>4. Peek' = below BY <2>1, <1>5, <1>6, <1>7, <1>8 DEF Peek, Last
  <2>5. obj'[below].class = obj[below].class BY <2>2 DEF Same
  <2> QED BY <2>3, <2>4, <2>5
<1>15. CurrentWidget' BY <1>13, <1>14 DEF CurrentWidget
<1>16. ItemsCounted'
  <2>1. Len(itemstack') = 0 OBVIOUS
  <2>2. \A k \in 1..Len(item) : item[k].view \in 1..Len(obj') /\ item[k].parent < k
    BY <1>1 DEF ItemsCounted
  <2> QED BY <2>1, <2>2 DEF ItemsCounted
<1> QED BY <1>4, <1>11, <1>15, <1>16

\* Items stay what they are inside of when a text is set.
ItemsStay(with, its) ==
    /\ with \in Seq(ItemRecords) /\ Len(with) = Len(its)
    /\ \A i \in 1..Len(its) : with[i].view = its[i].view /\ with[i].parent = its[i].parent

\* Setting a text leaves them so.
LEMMA ItemTextSet ==
    ASSUME NEW its \in Seq(ItemRecords), NEW x, NEW t \in Nat,
           NEW with, with = [its EXCEPT ![x].text = t]
    PROVE  ItemsStay(with, its)
<1>1. PICK S : S = ItemRecords OBVIOUS
<1>2. its \in Seq(S) BY <1>1
<1>3. /\ DOMAIN its = 1..Len(its) /\ Len(its) \in Nat /\ its \in [1..Len(its) -> S]
  BY <1>2, LenProperties
<1>4. CASE x \in 1..Len(its)
  <2>1. PICK r : r = [its[x] EXCEPT !.text = t] OBVIOUS
  <2>2. its[x] \in S BY <1>2, <1>4, ElementOfSeq
  <2>3. r \in S /\ r.view = its[x].view /\ r.parent = its[x].parent
    BY <2>1, <2>2, <1>1 DEF ItemRecords
  <2>4. with = [its EXCEPT ![x] = r] BY <2>1
  <2>5. with \in Seq(S) BY <2>3, <2>4, <1>2, <1>4, ExceptSeq
  <2>6. Len(with) = Len(its) BY <2>3, <2>4, <1>2, <1>4, ExceptSeq
  <2>7. \A i \in 1..Len(its) : with[i] = IF i = x THEN r ELSE its[i]
    BY <2>3, <2>4, <1>2, <1>4, ExceptSeq
  <2> QED BY <2>3, <2>5, <2>6, <2>7, <1>1 DEF ItemsStay
<1>5. CASE x \notin 1..Len(its)
  <2>1. with = its BY <1>3, <1>5
  <2> QED BY <2>1 DEF ItemsStay
<1> QED BY <1>4, <1>5

\* There is one more item inside of what it was made in.
LEMMA ItemCounted ==
    ASSUME item \in Seq(ItemRecords), NEW its, its \in Seq(ItemRecords),
           Len(its) = Len(item) + 1,
           \A i \in 1..Len(item) : its[i].view = item[i].view /\ its[i].parent = item[i].parent,
           item' = its, NEW v, NEW p
    PROVE  /\ its[Len(its)].view # v \/ its[Len(its)].parent # p =>
                ItemsOf(v, p)' = ItemsOf(v, p)
           /\ its[Len(its)].view = v /\ its[Len(its)].parent = p =>
                Cardinality(ItemsOf(v, p)') = Cardinality(ItemsOf(v, p)) + 1
           /\ Cardinality(ItemsOf(v, p)) \in Nat
<1>1. PICK S : S = ItemRecords OBVIOUS
<1>2. item \in Seq(S) /\ its \in Seq(S) BY <1>1
<1>3. DOMAIN item = 1..Len(item) /\ Len(item) \in Nat BY <1>2, LenProperties
<1>4. DOMAIN its = 1..Len(its) BY <1>2, LenProperties
<1>5. PICK n : n = Len(item) + 1 OBVIOUS
<1>6. DOMAIN its = (DOMAIN item) \cup {n} /\ n \notin DOMAIN item /\ n = Len(its)
  BY <1>3, <1>4, <1>5
<1>7. PICK A : A = ItemsOf(v, p) OBVIOUS
<1>8. IsFiniteSet(A) /\ n \notin A
  <2>1. A \subseteq 1..Len(item) BY <1>3, <1>7 DEF ItemsOf, ItemsIn
  <2>2. IsFiniteSet(1..Len(item)) BY <1>3, FS_Interval
  <2>3. IsFiniteSet(A) BY <2>1, <2>2, FS_Subset
  <2> QED BY <2>1, <2>3, <1>3, <1>6
<1>9. Cardinality(A) \in Nat BY <1>8, FS_CardinalityType
<1>10. CASE its[n].view # v \/ its[n].parent # p
  <2>1. ItemsOf(v, p)' = A BY <1>3, <1>6, <1>7, <1>10 DEF ItemsOf, ItemsIn
  <2> QED BY <2>1, <1>6, <1>7, <1>9, <1>10
<1>11. CASE its[n].view = v /\ its[n].parent = p
  <2>1. ItemsOf(v, p)' = A \cup {n} BY <1>3, <1>6, <1>7, <1>11 DEF ItemsOf, ItemsIn
  <2>2. Cardinality(A \cup {n}) = Cardinality(A) + 1 BY <1>8, FS_AddElement
  <2> QED BY <2>1, <2>2, <1>6, <1>7, <1>9, <1>11
<1> QED BY <1>10, <1>11

\* The item that is open is the one that was begun last.
LEMMA OpenItemIsLast ==
    ASSUME UiTypeOK, ItemsCounted
    PROVE  /\ Len(itemstack) \in Nat /\ Len(item) \in Nat
           /\ OpenItem \in 0..Len(item)
           /\ \A i \in 1..Len(itemstack) : Within(i) < OpenItem /\ Within(i) \in Nat
           /\ OpenItem = Within(Len(itemstack) + 1)
<1>1. PICK S : S = ItemRecords OBVIOUS
<1>2. item \in Seq(S) BY <1>1 DEF UiTypeOK
<1>3. Len(item) \in Nat BY <1>2, LenProperties
<1>4. PICK T : T = Nat \X Nat OBVIOUS
<1>5. itemstack \in Seq(T) BY <1>4 DEF UiTypeOK
<1>6. Len(itemstack) \in Nat BY <1>5, LenProperties
<1>7. CASE itemstack = << >>
  <2>1. Len(itemstack) = 0 BY <1>7
  <2> QED BY <2>1, <1>3, <1>7 DEF OpenItem, Within
<1>8. CASE itemstack # << >>
  <2>1. Len(itemstack) \in Nat \ {0} /\ Last(itemstack) = itemstack[Len(itemstack)]
    BY <1>5, <1>8, Shortened
  <2>2. PICK n : n = Len(itemstack) OBVIOUS
  <2>3. n \in 1..n /\ n + 1 # 1 /\ (n + 1) - 1 = n BY <2>1, <2>2
  <2>4. OpenItem = itemstack[n][1] BY <2>1, <2>2, <1>8 DEF OpenItem
  <2>5. OpenItem \in 1..Len(item) /\ \A j \in 1..(n - 1) : itemstack[j][1] < OpenItem
    BY <2>2, <2>3, <2>4 DEF ItemsCounted
  <2>6. ASSUME NEW i \in 1..n PROVE Within(i) < OpenItem /\ Within(i) \in Nat
    <3>1. CASE i = 1 BY <3>1, <2>5 DEF Within
    <3>2. CASE i # 1
      <4>1. i - 1 \in 1..(n - 1) /\ i - 1 \in 1..n BY <3>2, <2>3
      <4>2. itemstack[i - 1][1] \in 1..Len(item) BY <4>1, <2>2 DEF ItemsCounted
      <4> QED BY <4>1, <4>2, <3>2, <2>5 DEF Within
    <3> QED BY <3>1, <3>2
  <2>7. OpenItem = Within(n + 1) BY <2>3, <2>4 DEF Within
  <2> QED BY <2>2, <2>5, <2>6, <2>7, <1>3, <1>6
<1> QED BY <1>7, <1>8

\* The items when one more is made.
ItemAdded(its, seen, parent) ==
    /\ its \in Seq(ItemRecords) /\ Len(its) = Len(item) + 1
    /\ \A i \in 1..Len(item) : its[i].view = item[i].view /\ its[i].parent = item[i].parent
    /\ its[Len(its)].view = seen /\ its[Len(its)].parent = parent

\* It is so even if a text is set at once.
LEMMA ItemMade ==
    ASSUME item \in Seq(ItemRecords), NEW seen \in Nat, NEW parent \in Nat, NEW number \in Nat,
           NEW with, with = Append(item, NewItem(seen, parent, number)),
           NEW its, with \in Seq(ItemRecords) => ItemsStay(its, with)
    PROVE  ItemAdded(its, seen, parent)
<1>1. PICK S : S = ItemRecords OBVIOUS
<1>2. PICK r : r = NewItem(seen, parent, number) OBVIOUS
<1>3. r \in S /\ r.view = seen /\ r.parent = parent BY <1>1, <1>2 DEF NewItem, ItemRecords
<1>4. item \in Seq(S) /\ with = Append(item, r) BY <1>1, <1>2
<1>5. with \in Seq(S) BY <1>3, <1>4, AppendProperties
<1>6. Len(with) = Len(item) + 1 BY <1>3, <1>4, AppendProperties
<1>7. \A i \in 1..Len(item) : with[i] = item[i] BY <1>3, <1>4, AppendProperties
<1>8. with[Len(item) + 1] = r BY <1>3, <1>4, AppendProperties
<1>9. /\ its \in Seq(S) /\ Len(its) = Len(with)
      /\ \A i \in 1..Len(with) : /\ its[i].view = with[i].view
                                 /\ its[i].parent = with[i].parent
  BY <1>1, <1>5 DEF ItemsStay
<1>10. Len(item) \in Nat BY <1>4, LenProperties
<1>11. Len(item) + 1 \in 1..Len(with) /\ \A i \in 1..Len(item) : i \in 1..Len(with)
  BY <1>6, <1>10
<1>12. \A i \in 1..Len(item) : its[i].view = item[i].view /\ its[i].parent = item[i].parent
  BY <1>7, <1>9, <1>11
<1>13. its[Len(its)].view = seen /\ its[Len(its)].parent = parent
  BY <1>3, <1>6, <1>8, <1>9, <1>11
<1> QED BY <1>1, <1>6, <1>9, <1>12, <1>13 DEF ItemAdded

\* One more item in the widget that is open.
LEMMA AddItemCounts ==
    ASSUME UiTypeOK, StackRight, CurrentWidget, ItemsCounted, AddItem
    PROVE  item' \in Seq(ItemRecords) /\ CurrentWidget' /\ ItemsCounted'
<1>1. /\ phase = "tree" /\ phase' = phase /\ itemstack = << >> /\ Peek = topwidget
      /\ obj[topwidget].class \in {"QComboBox", "QListWidget", "QTableWidget"}
      /\ itemNr' = itemNr + 1
      /\ UNCHANGED <<obj, stack, topwidget, itemstack>>
  BY DEF AddItem, Element, InWidgetOrLayout
<1>2. Len(obj) \in Nat /\ topwidget \in 1..Len(obj) BY <1>1, SomethingOpen, TopIsNearest
<1>3. topwidget \in Nat /\ item \in Seq(ItemRecords) BY <1>2 DEF UiTypeOK
<1>4. Len(item) \in Nat BY OpenItemIsLast
<1>5. PICK number \in Nat : number = IF obj[topwidget].class = "QComboBox" THEN 0 ELSE Len(item) + 1
  BY <1>4
<1>6. PICK with : with = Append(item, NewItem(topwidget, 0, number)) OBVIOUS
<1>7. PICK its : its = item' OBVIOUS
<1>8. with \in Seq(ItemRecords) => ItemsStay(its, with)
  <2>1. CASE obj[topwidget].class = "QComboBox"
    <3>1. PICK x : x = NthItem(with, topwidget, 0, itemNr) OBVIOUS
    <3>2. its = [with EXCEPT ![x].text = Len(item) + 1]
      BY <2>1, <3>1, <1>5, <1>6, <1>7 DEF AddItem
    <3>3. Len(item) + 1 \in Nat BY <1>4
    <3> QED BY <3>2, <3>3, ItemTextSet
  <2>2. CASE obj[topwidget].class # "QComboBox"
    <3>1. its = with BY <2>2, <1>5, <1>6, <1>7 DEF AddItem
    <3> QED BY <3>1 DEF ItemsStay
  <2> QED BY <2>1, <2>2
<1>9. ItemAdded(its, topwidget, 0)
  <2>1. PICK none \in Nat : none = 0 OBVIOUS
  <2>2. with = Append(item, NewItem(topwidget, none, number)) BY <2>1, <1>6
  <2>3. ItemAdded(its, topwidget, none) BY <2>2, <1>3, <1>5, <1>8, ItemMade
  <2> QED BY <2>1, <2>3
<1>10. /\ its \in Seq(ItemRecords) /\ Len(its) = Len(item) + 1
       /\ \A i \in 1..Len(item) : its[i].view = item[i].view /\ its[i].parent = item[i].parent
  BY <1>9 DEF ItemAdded
<1>11. its[Len(its)].view = topwidget /\ its[Len(its)].parent = 0 BY <1>9 DEF ItemAdded
<1>12. PICK v : v = topwidget OBVIOUS
<1>13. /\ Cardinality(ItemsOf(v, 0)') = Cardinality(ItemsOf(v, 0)) + 1
  BY <1>3, <1>7, <1>10, <1>11, <1>12, ItemCounted
<1>14. OpenItem = 0 /\ OpenItem' = 0 BY <1>1 DEF OpenItem
<1>15. itemNr = Cardinality(ItemsOf(v, 0))
  <2>1. obj[Peek].class \in ItemViews \cup {"QComboBox"} BY <1>1 DEF ItemViews
  <2> QED BY <2>1, <1>1, <1>12, <1>14 DEF CurrentWidget
<1>16. ItemsOf(topwidget, OpenItem)' = ItemsOf(v, 0)'
  BY <1>1, <1>12, <1>14 DEF ItemsOf, ItemsIn
<1>17. CurrentWidget'
  <2>1. itemNr' = Cardinality(ItemsOf(topwidget, OpenItem))' BY <1>1, <1>13, <1>15, <1>16
  <2>2. /\ \E i \in DOMAIN stack :
             /\ topwidget = stack[i] /\ IsWidget(stack[i])
             /\ \A j \in DOMAIN stack : j > i => ~ IsWidget(stack[j])
    BY <1>1 DEF CurrentWidget
  <2>3. /\ \E i \in DOMAIN stack' :
             /\ topwidget' = stack'[i] /\ IsWidget(stack[i])'
             /\ \A j \in DOMAIN stack' : j > i => ~ IsWidget(stack[j])'
    BY <2>2, <1>1 DEF IsWidget
  <2> QED BY <2>1, <2>3 DEF CurrentWidget
<1>18. ItemsCounted'
  <2>1. Len(itemstack') = 0 BY <1>1
  <2>2. ASSUME NEW i \in 1..Len(its) PROVE its[i].view \in 1..Len(obj) /\ its[i].parent < i
    <3>1. CASE i \in 1..Len(item) BY <3>1, <1>10 DEF ItemsCounted
    <3>2. CASE i \notin 1..Len(item)
      <4>1. i = Len(its) /\ 0 < i BY <3>2, <1>4, <1>10
      <4> QED BY <4>1, <1>2, <1>11
    <3> QED BY <3>1, <3>2
  <2> QED BY <2>1, <2>2, <1>1, <1>7 DEF ItemsCounted
<1> QED BY <1>7, <1>10, <1>17, <1>18

\* An item of a tree begins: what is inside of it is counted from 0.
LEMMA BeginTreeItemCounts ==
    ASSUME UiTypeOK, StackRight, CurrentWidget, ItemsCounted, BeginTreeItem
    PROVE  /\ item' \in Seq(ItemRecords) /\ itemstack' \in Seq(Nat \X Nat)
           /\ CurrentWidget' /\ ItemsCounted'
<1>1. /\ phase = "tree" /\ phase' = phase /\ Peek = topwidget
      /\ obj[topwidget].class = "QTreeWidget" /\ itemNr' = 0
      /\ UNCHANGED <<obj, stack, topwidget>>
  BY DEF BeginTreeItem, Element
<1>2. Len(obj) \in Nat /\ topwidget \in 1..Len(obj) BY <1>1, SomethingOpen, TopIsNearest
<1>3. topwidget \in Nat /\ item \in Seq(ItemRecords) /\ itemNr \in Nat BY <1>2 DEF UiTypeOK
<1>4. /\ Len(item) \in Nat /\ Len(itemstack) \in Nat /\ OpenItem \in 0..Len(item)
      /\ OpenItem = Within(Len(itemstack) + 1)
      /\ \A i \in 1..Len(itemstack) : Within(i) < OpenItem /\ Within(i) \in Nat
  BY OpenItemIsLast
<1>5. PICK v : v = topwidget OBVIOUS
<1>6. PICK p \in Nat : p = OpenItem BY <1>4
<1>7. PICK new : new = Len(item) + 1 OBVIOUS
<1>8. PICK with : with = Append(item, NewItem(v, p, 0)) OBVIOUS
<1>9. PICK its : its = item' OBVIOUS
<1>10. PICK path : path = Append(itemstack, <<new, itemNr>>) OBVIOUS
<1>11. itemstack' = path /\ \E x : its = [with EXCEPT ![x].text = new]
  <2>1. PICK x : x = ItemAt(with, v, path) OBVIOUS
  <2>2. its = [with EXCEPT ![x].text = new]
    BY <2>1, <1>5, <1>6, <1>7, <1>8, <1>9, <1>10 DEF BeginTreeItem, OpenItem
  <2>3. itemstack' = path BY <1>7, <1>10 DEF BeginTreeItem
  <2> QED BY <2>2, <2>3
<1>12. with \in Seq(ItemRecords) => ItemsStay(its, with)
  <2>1. PICK x : its = [with EXCEPT ![x].text = new] BY <1>11
  <2>2. new \in Nat BY <1>4, <1>7
  <2> QED BY <2>1, <2>2, ItemTextSet
<1>13. ItemAdded(its, v, p)
  <2>1. PICK none \in Nat : none = 0 OBVIOUS
  <2>2. with = Append(item, NewItem(v, p, none)) BY <2>1, <1>8
  <2>3. v \in Nat BY <1>3, <1>5
  <2> QED BY <2>2, <2>3, <1>3, <1>12, ItemMade
<1>14. its \in Seq(ItemRecords) /\ Len(its) = Len(item) + 1 BY <1>13 DEF ItemAdded
<1>15. \A i \in 1..Len(item) : its[i].view = item[i].view /\ its[i].parent = item[i].parent
  BY <1>13 DEF ItemAdded
<1>16. its[Len(its)].view = v /\ its[Len(its)].parent = p BY <1>13 DEF ItemAdded
<1>17. PICK T : T = Nat \X Nat OBVIOUS
<1>18. itemstack \in Seq(T) /\ <<new, itemNr>> \in T BY <1>3, <1>4, <1>7, <1>17 DEF UiTypeOK
<1>19. path \in Seq(T) /\ path # << >> BY <1>10, <1>18, AppendProperties
<1>20. PICK n : n = Len(itemstack) OBVIOUS
<1>21. Len(path) = n + 1 /\ path[n + 1] = <<new, itemNr>>
  BY <1>10, <1>18, <1>20, AppendProperties
<1>22. \A i \in 1..n : path[i] = itemstack[i] BY <1>10, <1>18, <1>20, AppendProperties
<1>23. OpenItem' = new
  <2>1. Last(path) = <<new, itemNr>> BY <1>21 DEF Last
  <2> QED BY <2>1, <1>11, <1>19 DEF OpenItem
<1>24. ASSUME NEW i \in 1..Len(its)
       PROVE  its[i].view \in 1..Len(obj) /\ its[i].parent < i /\ its[i].parent # new
  <2>1. CASE i \in 1..Len(item)
    <3>1. item[i].view \in 1..Len(obj) /\ item[i].parent < i BY <2>1 DEF ItemsCounted
    <3>2. item[i].parent # new BY <3>1, <2>1, <1>4, <1>7
    <3> QED BY <3>1, <3>2, <2>1, <1>15
  <2>2. CASE i \notin 1..Len(item)
    <3>1. i = Len(its) /\ p < i /\ p # new BY <2>2, <1>4, <1>6, <1>7, <1>14
    <3> QED BY <3>1, <1>2, <1>5, <1>16
  <2> QED BY <2>1, <2>2
<1>25. ItemsOf(v, new)' = {}
  <2>1. DOMAIN its = 1..Len(its)
    <3>1. PICK S : S = ItemRecords OBVIOUS
    <3>2. its \in Seq(S) BY <3>1, <1>14
    <3> QED BY <3>2, LenProperties
  <2> QED BY <2>1, <1>9, <1>24 DEF ItemsOf, ItemsIn
<1>26. CurrentWidget'
  <2>1. ItemsOf(topwidget, OpenItem)' = {} BY <1>1, <1>5, <1>23, <1>25 DEF ItemsOf, ItemsIn
  <2>2. itemNr' = Cardinality(ItemsOf(topwidget, OpenItem))' BY <2>1, <1>1, FS_EmptySet
  <2>3. /\ \E i \in DOMAIN stack :
             /\ topwidget = stack[i] /\ IsWidget(stack[i])
             /\ \A j \in DOMAIN stack : j > i => ~ IsWidget(stack[j])
    BY <1>1 DEF CurrentWidget
  <2>4. /\ \E i \in DOMAIN stack' :
             /\ topwidget' = stack'[i] /\ IsWidget(stack[i])'
             /\ \A j \in DOMAIN stack' : j > i => ~ IsWidget(stack[j])'
    BY <2>3, <1>1 DEF IsWidget
  <2> QED BY <2>2, <2>4 DEF CurrentWidget
<1>27. ASSUME NEW i \in 1..(n + 1)
       PROVE  /\ path[i][1] \in 1..Len(its)
              /\ \A j \in 1..(i - 1) : path[j][1] < path[i][1]
  <2>1. \A j \in 1..n : itemstack[j][1] \in 1..Len(item) BY <1>20 DEF ItemsCounted
  <2>2. CASE i \in 1..n
    <3>1. \A j \in 1..(i - 1) : j \in 1..n BY <2>2, <1>4, <1>20
    <3>2. \A j \in 1..(i - 1) : itemstack[j][1] < itemstack[i][1]
      BY <2>2, <1>20 DEF ItemsCounted
    <3>3. itemstack[i][1] \in 1..Len(its) BY <2>1, <2>2, <1>4, <1>14
    <3> QED BY <3>1, <3>2, <3>3, <2>2, <1>22
  <2>3. CASE i \notin 1..n
    <3>1. i = n + 1 /\ i - 1 = n BY <2>3, <1>4, <1>20
    <3>2. path[i][1] = new BY <3>1, <1>21
    <3>3. new \in 1..Len(its) BY <1>4, <1>7, <1>14
    <3>4. \A j \in 1..n : itemstack[j][1] < new BY <2>1, <1>4, <1>7
    <3> QED BY <3>1, <3>2, <3>3, <3>4, <1>22
  <2> QED BY <2>2, <2>3
<1>28. ASSUME NEW i \in 1..(n + 1)
       PROVE  Cardinality(ItemsOf(topwidget, Within(i)))' = path[i][2] + 1
  <2>1. Within(i)' = Within(i)
    <3>1. i # 1 => i - 1 \in 1..n BY <1>4, <1>20
    <3> QED BY <3>1, <1>11, <1>22 DEF Within
  <2>2. PICK q : q = Within(i) OBVIOUS
  <2>3. ItemsOf(topwidget, Within(i))' = ItemsOf(v, q)' BY <2>1, <2>2, <1>1, <1>5 DEF ItemsOf, ItemsIn
  <2>4. CASE i \in 1..n
    <3>1. q # p BY <2>2, <2>4, <1>4, <1>6, <1>20
    <3>2. ItemsOf(v, q)' = ItemsOf(v, q)
      BY <3>1, <1>3, <1>9, <1>14, <1>15, <1>16, ItemCounted
    <3>3. Cardinality(ItemsOf(v, q)) = itemstack[i][2] + 1
      BY <2>2, <2>4, <1>5, <1>20 DEF ItemsCounted
    <3> QED BY <3>2, <3>3, <2>3, <2>4, <1>22
  <2>5. CASE i \notin 1..n
    <3>1. i = n + 1 BY <2>5, <1>4, <1>20
    <3>2. q = p BY <3>1, <2>2, <1>4, <1>6, <1>20
    <3>3. Cardinality(ItemsOf(v, q)') = Cardinality(ItemsOf(v, q)) + 1
      BY <3>2, <1>3, <1>9, <1>14, <1>15, <1>16, ItemCounted
    <3>4. itemNr = Cardinality(ItemsOf(v, q))
      <4>1. obj[Peek].class \in ItemViews \cup {"QComboBox"} BY <1>1 DEF ItemViews
      <4> QED BY <4>1, <3>2, <1>1, <1>5, <1>6 DEF CurrentWidget
    <3>5. path[i][2] = itemNr BY <3>1, <1>21
    <3> QED BY <3>3, <3>4, <3>5, <2>3
  <2> QED BY <2>4, <2>5
<1>29. ItemsCounted'
  <2>1. /\ itemstack' = path /\ Len(path) = n + 1 /\ item' = its
    BY <1>9, <1>11, <1>21
  <2>2. Peek' = topwidget' /\ obj'[Peek'].class = "QTreeWidget" /\ phase' = "tree"
    BY <1>1 DEF Peek
  <2>3. \A i \in 1..Len(itemstack') :
          Cardinality(ItemsOf(topwidget, Within(i)))' = itemstack'[i][2] + 1
    BY <2>1, <1>28
  <2>4. \A i \in 1..Len(itemstack') :
          /\ itemstack'[i][1] \in 1..Len(item')
          /\ \A j \in 1..(i - 1) : itemstack'[j][1] < itemstack'[i][1]
    BY <2>1, <1>27
  <2>5. \A i \in 1..Len(item') : item'[i].view \in 1..Len(obj') /\ item'[i].parent < i
    BY <2>1, <1>1, <1>24
  <2> QED BY <2>2, <2>3, <2>4, <2>5 DEF ItemsCounted
<1>30. itemstack' \in Seq(Nat \X Nat) BY <1>11, <1>17, <1>19
<1> QED BY <1>9, <1>14, <1>26, <1>29, <1>30

\* It ends: the items beside it are counted from its own number.
LEMMA EndTreeItemCounts ==
    ASSUME UiTypeOK, StackRight, CurrentWidget, ItemsCounted, EndTreeItem
    PROVE  /\ itemNr' \in Nat /\ itemstack' \in Seq(Nat \X Nat)
           /\ CurrentWidget' /\ ItemsCounted'
<1>1. /\ phase = "tree" /\ phase' = phase /\ itemstack # << >>
      /\ itemNr' = Last(itemstack)[2] + 1 /\ itemstack' = Front(itemstack)
      /\ UNCHANGED <<obj, stack, topwidget, item>>
  BY DEF EndTreeItem
<1>2. PICK T : T = Nat \X Nat OBVIOUS
<1>3. itemstack \in Seq(T) BY <1>2 DEF UiTypeOK
<1>4. PICK n : n = Len(itemstack) OBVIOUS
<1>5. PICK s : s = Front(itemstack) OBVIOUS
<1>6. n \in Nat \ {0} /\ Last(itemstack) = itemstack[n] /\ Last(itemstack) \in T
  BY <1>1, <1>3, <1>4, Shortened
<1>7. s \in Seq(T) /\ Len(s) = n - 1 BY <1>1, <1>3, <1>4, <1>5, Shortened
<1>8. \A i \in 1..(n - 1) : s[i] = itemstack[i] BY <1>1, <1>3, <1>4, <1>5, Shortened
<1>9. itemNr' \in Nat BY <1>1, <1>2, <1>6
<1>10. OpenItem' = Within(n)
  <2>1. CASE n = 1
    <3>1. s = << >> BY <2>1, <1>7, EmptySeq
    <3> QED BY <3>1, <2>1, <1>1, <1>5 DEF OpenItem, Within
  <2>2. CASE n # 1
    <3>1. n - 1 \in 1..(n - 1) /\ Len(s) # 0 BY <2>2, <1>6, <1>7
    <3>2. s # << >> BY <3>1
    <3>3. Last(s) = itemstack[n - 1] BY <3>1, <1>7, <1>8 DEF Last
    <3> QED BY <3>2, <3>3, <2>2, <1>1, <1>5 DEF OpenItem, Within
  <2> QED BY <2>1, <2>2
<1>11. PICK v : v = topwidget OBVIOUS
<1>12. PICK q : q = Within(n) OBVIOUS
<1>13. Cardinality(ItemsOf(v, q)) = itemstack[n][2] + 1
  BY <1>4, <1>6, <1>11, <1>12 DEF ItemsCounted
<1>14. itemNr' = Cardinality(ItemsOf(topwidget, OpenItem))'
  <2>1. ItemsOf(topwidget, OpenItem)' = ItemsOf(v, q)
    BY <1>1, <1>10, <1>11, <1>12 DEF ItemsOf, ItemsIn
  <2> QED BY <2>1, <1>1, <1>6, <1>13
<1>15. CurrentWidget'
  <2>1. /\ \E i \in DOMAIN stack :
             /\ topwidget = stack[i] /\ IsWidget(stack[i])
             /\ \A j \in DOMAIN stack : j > i => ~ IsWidget(stack[j])
    BY <1>1 DEF CurrentWidget
  <2>2. /\ \E i \in DOMAIN stack' :
             /\ topwidget' = stack'[i] /\ IsWidget(stack[i])'
             /\ \A j \in DOMAIN stack' : j > i => ~ IsWidget(stack[j])'
    BY <2>1, <1>1 DEF IsWidget
  <2> QED BY <2>2, <1>14 DEF CurrentWidget
<1>16. ItemsCounted'
  <2>1. \A i \in 1..(n - 1) : i \in 1..n /\ \A j \in 1..(i - 1) : j \in 1..(n - 1)
    BY <1>6
  <2>2. \A i \in 1..(n - 1) : Within(i)' = Within(i)
    <3>1. \A i \in 1..(n - 1) : i # 1 => i - 1 \in 1..(n - 1) BY <1>6
    <3> QED BY <3>1, <1>1, <1>5, <1>8 DEF Within
  <2>3. ASSUME NEW i \in 1..(n - 1)
        PROVE  Cardinality(ItemsOf(topwidget, Within(i)))' = s[i][2] + 1
    <3>1. ItemsOf(topwidget, Within(i))' = ItemsOf(topwidget, Within(i))
      BY <2>2, <1>1 DEF ItemsOf, ItemsIn
    <3>2. Cardinality(ItemsOf(topwidget, Within(i))) = itemstack[i][2] + 1
      BY <2>1, <1>4 DEF ItemsCounted
    <3> QED BY <3>1, <3>2, <1>8
  <2>4. \A i \in 1..(n - 1) :
          /\ s[i][1] \in 1..Len(item)
          /\ \A j \in 1..(i - 1) : s[j][1] < s[i][1]
    BY <2>1, <1>4, <1>8 DEF ItemsCounted
  <2>5. Peek' = topwidget' /\ obj'[Peek'].class = "QTreeWidget" /\ phase' = "tree"
    BY <1>1 DEF ItemsCounted, Peek
  <2>6. \A i \in 1..Len(item) : item[i].view \in 1..Len(obj) /\ item[i].parent < i
    BY DEF ItemsCounted
  <2>7. \A i \in 1..Len(itemstack') :
          Cardinality(ItemsOf(topwidget, Within(i)))' = itemstack'[i][2] + 1
    BY <2>3, <1>1, <1>5, <1>7
  <2>8. \A i \in 1..Len(itemstack') :
          /\ itemstack'[i][1] \in 1..Len(item')
          /\ \A j \in 1..(i - 1) : itemstack'[j][1] < itemstack'[i][1]
    BY <2>4, <1>1, <1>5, <1>7
  <2>9. \A i \in 1..Len(item') : item'[i].view \in 1..Len(obj') /\ item'[i].parent < i
    BY <2>6, <1>1
  <2> QED BY <2>5, <2>7, <2>8, <2>9 DEF ItemsCounted
<1>17. itemstack' \in Seq(Nat \X Nat) BY <1>1, <1>2, <1>5, <1>7
<1> QED BY <1>9, <1>15, <1>16, <1>17

\* What has been placed stays where it is.
LEMMA PlacedStays ==
    ASSUME UiTypeOK, ObjectsEnclosed, Placed, AreObjects(obj'), Len(obj') >= Len(obj),
           \A o \in 1..Len(obj) : Same(obj'[o], obj[o]),
           \A o \in (1..Len(obj')) \ Range(stack') :
             \/ o \in (1..Len(obj)) \ Range(stack) /\ obj'[o].places = obj[o].places
             \/ IsPlaced(obj'[o], obj'[obj'[o].inside])
    PROVE  Placed'
<1>1. DOMAIN obj = 1..Len(obj) /\ Len(obj) \in Nat BY ObjectsNumbered DEF UiTypeOK
<1>2. PICK objs : objs = obj' OBVIOUS
<1>3. AreObjects(objs) BY <1>2
<1>4. DOMAIN obj' = 1..Len(obj') BY <1>2, <1>3, ObjectsNumbered
<1>5. ASSUME NEW o \in (1..Len(obj)) \ Range(stack), obj'[o].places = obj[o].places,
             obj'[o].inside # 0
      PROVE  IsPlaced(obj'[o], obj'[obj'[o].inside])
  <2>1. Same(obj'[o], obj[o]) OBVIOUS
  <2>2. obj[o].inside # 0 BY <2>1, <1>5 DEF Same
  <2>3. o \in 2..Len(obj) BY <2>2, <1>1 DEF ObjectsEnclosed
  <2>4. PICK in : in = obj[o].inside OBVIOUS
  <2>5. in \in 1..(o - 1) BY <2>3, <2>4 DEF ObjectsEnclosed, Enclosed
  <2>6. in \in 1..Len(obj) BY <2>3, <2>5, <1>1
  <2>7. obj'[in].class = obj[in].class /\ obj'[o].inside = in BY <2>1, <2>4, <2>6 DEF Same
  <2>8. IsPlaced(obj[o], obj[in]) BY <2>2, <2>4, <1>1 DEF Placed
  <2>9. IsPlaced(obj'[o], obj'[in]) BY <2>1, <2>7, <2>8, <1>5 DEF IsPlaced, Same
  <2> QED BY <2>7, <2>9
<1>6. ASSUME NEW o \in (1..Len(obj')) \ Range(stack'), obj'[o].inside # 0
      PROVE  IsPlaced(obj'[o], obj'[obj'[o].inside])
  BY <1>5, <1>6
<1> QED BY <1>4, <1>6 DEF Placed

\* What an element that ends leaves on the stack.
LEMMA RangePopped ==
    ASSUME NEW S, NEW s \in Seq(S), s # << >>
    PROVE  \A x : x \in Range(Front(s)) \/ x = Last(s) <=> x \in Range(s)
<1>1. Len(s) \in Nat \ {0} /\ Last(s) = s[Len(s)] /\ Front(s) \in Seq(S)
      /\ Len(Front(s)) = Len(s) - 1
  BY Shortened
<1>2. \A i \in 1..(Len(s) - 1) : Front(s)[i] = s[i] BY Shortened
<1>3. PICK n : n = Len(s) - 1 OBVIOUS
<1>4. 1..Len(s) = (1..n) \cup {Len(s)} BY <1>1, <1>3
<1>5. \A x : x \in Range(s) <=> \E i \in 1..Len(s) : s[i] = x BY WhatIsInSeq
<1>6. \A x : x \in Range(Front(s)) <=> \E i \in 1..Len(Front(s)) : Front(s)[i] = x
  BY <1>1, WhatIsInSeq
<1>7. \A x : x \in Range(Front(s)) <=> \E i \in 1..n : s[i] = x
  BY <1>1, <1>2, <1>3, <1>6
<1> QED BY <1>1, <1>4, <1>5, <1>7

\* A layout that is not in a layout is in a plain widget.
LEMMA WidgetOfLayout ==
    ASSUME UiTypeOK, StackRight, phase = "tree", NEW n \in 1..Len(stack),
           IsLayout(stack[n]), NEW i \in 1..n, Nearest(i, n)
    PROVE  obj[stack[i]].class = "QWidget"
<1>1. Len(stack) \in Nat \ {0} /\ Len(obj) \in Nat BY SomethingOpen
<1>2. ~ IsWidget(stack[n]) BY ClassesAssumption DEF IsLayout, IsWidget
<1>3. i # n BY <1>2 DEF Nearest
<1>4. PICK k : k = i + 1 OBVIOUS
<1>5. k \in (i + 1)..n /\ k \in 1..Len(stack) /\ k - 1 = i /\ k # 1 /\ 1 \in 1..(k - 1)
      /\ 1 \in 1..Len(stack)
  BY <1>1, <1>3, <1>4
<1>6. ~ IsWidget(stack[k]) BY <1>5 DEF Nearest
<1>7. OpenRight(k) BY <1>5 DEF StackRight
<1>8. /\ stack[k] \in 1..Len(obj) /\ IsLayout(stack[k]) /\ obj[stack[k]].inside = stack[i]
      /\ stack[1] < stack[k] /\ stack[1] \in 1..Len(obj)
  BY <1>5, <1>6, <1>7 DEF StackRight, OpenRight
<1>9. stack[k] \in 2..Len(obj) BY <1>1, <1>8
<1>10. Fits(obj[stack[k]], obj[stack[i]])
  BY <1>8, <1>9 DEF StackRight, ObjectsEnclosed, Enclosed
<1>11. obj[stack[k]].class \in LayoutClasses BY <1>8 DEF IsLayout
<1>12. obj[stack[i]].class \in LayoutClasses \cup {"QWidget"}
  BY <1>10, <1>11, ClassesAssumption DEF Fits
<1>13. obj[stack[i]].class \in Classes \cup TopClasses BY DEF Nearest, IsWidget
<1> QED BY <1>12, <1>13, ClassesAssumption

\* A sequence of one element, before and after the empty one.
LEMMA OnePlace ==
    ASSUME NEW x
    PROVE  << >> \o <<x>> = <<x>> /\ <<x>> \o << >> = <<x>>
<1>1. PICK s : s = Append(<< >>, x) OBVIOUS
<1>2. << >> \in Seq({x}) BY EmptySeq
<1>3. s \in Seq({x}) BY <1>1, <1>2, AppendProperties
<1>4. s = <<x>> BY <1>1
<1>5. << >> \o s = s /\ s \o << >> = s BY <1>3, ConcatEmptySeq
<1> QED BY <1>4, <1>5

\* A widget is placed by the layout or the widget that it is inside of.
LEMMA WidgetPlaced ==
    ASSUME "QMdiArea" \notin Classes \cup TopClasses, NEW r, NEW c, NEW top, NEW in,
           r.class \in Classes \cup TopClasses, Fits(r, c), r.inside = in,
           c.class \in Classes \cup TopClasses \cup LayoutClasses,
           c.class \in LayoutClasses => top.class = "QWidget",
           c.class \notin LayoutClasses => top = c,
           r.places = (IF c.class \in LayoutClasses
                         THEN <<[in |-> in, how |-> "layout"]>> ELSE << >>)
                      \o (IF PlaceIn(top.class, r.class) # ""
                            THEN <<[in |-> in, how |-> PlaceIn(top.class, r.class)]>>
                            ELSE << >>)
    PROVE  IsPlaced(r, c)
<1>1. r.class \notin Placeless \cup LayoutClasses \cup {"QSpacerItem"} BY ClassesAssumption
<1>2. \A x : << >> \o <<x>> = <<x>> /\ <<x>> \o << >> = <<x>> BY OnePlace
<1>3. << >> \o << >> = << >>
  <2>1. PICK S : S = {0} OBVIOUS
  <2>2. << >> \in Seq(S) BY EmptySeq
  <2> QED BY <2>2, ConcatEmptySeq
<1>4. PlaceIn("QWidget", r.class) = "" BY DEF PlaceIn
<1>5. CASE c.class \in LayoutClasses
  <2>1. r.places = <<[in |-> in, how |-> "layout"]>> BY <1>2, <1>4, <1>5
  <2>2. c.class \notin Containers BY <1>5, ClassesAssumption
  <2> QED BY <2>1, <2>2, <1>1, <1>5 DEF IsPlaced
<1>6. CASE c.class \notin LayoutClasses
  <2>1. r.places = IF PlaceIn(c.class, r.class) # ""
                     THEN <<[in |-> in, how |-> PlaceIn(c.class, r.class)]>> ELSE << >>
    BY <1>2, <1>3, <1>6
  <2>2. \/ c.class = "QWidget" /\ r.parent = in
        \/ c.class \in Containers /\ r.class = "QWidget" /\ r.parent = 0
        \/ c.class = "QMainWindow" /\ PlaceIn(c.class, r.class) # ""
    BY <1>1, <1>6 DEF Fits
  <2>3. CASE c.class = "QWidget" /\ r.parent = in
    BY <2>1, <2>3, <1>1, <1>4, <1>6 DEF IsPlaced
  <2>4. CASE c.class \in Containers /\ r.class = "QWidget" /\ r.parent = 0
    <3>1. c.class # "QMdiArea" BY <1>6
    <3>2. PlaceIn(c.class, r.class) # "" BY <2>4, <3>1 DEF PlaceIn, Containers
    <3> QED BY <2>1, <2>4, <3>2, <1>1, <1>6 DEF IsPlaced
  <2>5. CASE c.class = "QMainWindow" /\ PlaceIn(c.class, r.class) # ""
    <3>1. c.class \notin Containers BY <2>5 DEF Containers
    <3> QED BY <2>1, <2>5, <3>1, <1>1, <1>6 DEF IsPlaced
  <2> QED BY <2>2, <2>3, <2>4, <2>5
<1> QED BY <1>5, <1>6

\* An object that is an attribute of the top-level widget is made.
LEMMA SetupKeeps ==
    ASSUME UiIInv, NamesApart, NEW class, NEW parent, NEW name, NEW in, NEW sorts,
           NameOf(class, name) \in GivenNames, class # "QSpacerItem",
           SetupObject(class, parent, name, in, sorts), bgroups' = bgroups
    PROVE  \E r : /\ r.class = class /\ r.parent = parent /\ r.inside = in
                  /\ r.places = << >> /\ ObjectMade(r)
                  /\ \A o \in 1..Len(obj) : obj'[o] = obj[o]
                  /\ NamesKept' /\ AttributesKept'
<1>1. PICK n : n = NameOf(class, name) OBVIOUS
<1>2. PICK u : u = UniqueName(n) OBVIOUS
<1>3. PICK r : r = Object(class, parent, u.name, in, sorts) OBVIOUS
<1>4. /\ r.class = class /\ r.parent = parent /\ r.inside = in /\ r.places = << >>
      /\ r.name = u.name
  BY <1>3 DEF Object
<1>5. IsObject(r) BY <1>3 DEF Object, IsObject
<1>6. obj' = Append(obj, r) /\ suffixes' = u.suffixes /\ attrs' = Given(attrs, r.name, Len(obj) + 1)
  BY <1>1, <1>2, <1>3, <1>4 DEF SetupObject
<1>7. AreObjects(obj) /\ Len(obj) >= 1 BY DEF UiIInv, UiTypeOK, StackRight, ObjectsEnclosed
<1>8. AreObjects(obj') /\ Len(obj) \in Nat /\ Len(obj') = Len(obj) + 1
  BY <1>5, <1>6, <1>7, ObjectAdded
<1>9. \A o \in 1..Len(obj) : obj'[o] = obj[o] BY <1>5, <1>6, <1>7, ObjectAdded
<1>10. obj'[Len(obj) + 1] = r BY <1>5, <1>6, <1>7, ObjectAdded
<1>11. ObjectMade(r) BY <1>8, <1>9, <1>10 DEF ObjectMade, Same
<1>12. n \in GivenNames \cup {<<"spacerItem">>} /\ r.class # "QSpacerItem" BY <1>1, <1>4
<1>13. NamesKept /\ AttributesKept BY DEF UiIInv
<1>14. NamesKept' /\ \A o \in 1..Len(obj) : obj[o].name # r.name
  BY <1>2, <1>4, <1>6, <1>7, <1>11, <1>12, <1>13, NamesGrow
<1>15. AttributesKept' BY <1>6, <1>7, <1>11, <1>13, <1>14, AttributesGrow
<1> QED BY <1>4, <1>9, <1>11, <1>14, <1>15

\* Nothing that was put off is done while the tree is read.
LEMMA StillReading ==
    ASSUME UiIInv, phase = "tree", phase' = phase, added' = added
    PROVE  ActionsResolved' /\ CurrentShown'
BY DEF UiIInv, PutOff, ActionsResolved, CurrentShown

\* Nothing more is put off, and groups are as before, ended or new.
LEMMA PutOffStays ==
    ASSUME UiIInv, phase = "tree", phase' = phase, added' = added, delayed' = delayed,
           Len(obj) \in Nat, Len(obj') \in Nat, Len(obj') >= Len(obj),
           group' = group \/ group' = 0 \/ group' \in 1..Len(obj')
    PROVE  PutOff'
<1>1. /\ \A i \in 1..Len(delayed) : delayed[i].widget \in 1..Len(obj)
      /\ group # 0 => group \in 1..Len(obj)
  BY DEF UiIInv, PutOff
<1>2. /\ \A i \in 1..Len(delayed') : delayed'[i].widget \in 1..Len(obj')
      /\ group' # 0 => group' \in 1..Len(obj')
  BY <1>1
<1> QED BY <1>2 DEF UiIInv, PutOff

\* What the stack ranges over when an element begins.
LEMMA RangePushed ==
    ASSUME stack \in Seq(Nat), NEW new \in Nat, stack' = Append(stack, new)
    PROVE  /\ stack' \in Seq(Nat) /\ Last(stack') = new
           /\ new \in Range(stack') /\ \A x \in Range(stack) : x \in Range(stack')
<1>1. PICK S : S = Nat OBVIOUS
<1>2. stack \in Seq(S) /\ new \in S BY <1>1
<1>3. stack' \in Seq(S) BY <1>2, AppendProperties
<1>4. Len(stack') = Len(stack) + 1 BY <1>2, AppendProperties
<1>5. stack'[Len(stack) + 1] = new BY <1>2, AppendProperties
<1>6. \A i \in 1..Len(stack) : stack'[i] = stack[i] BY <1>2, AppendProperties
<1>7. \A x : x \in Range(stack) <=> \E i \in 1..Len(stack) : stack[i] = x
  BY <1>2, WhatIsInSeq
<1>8. \A x : x \in Range(stack') <=> \E i \in 1..Len(stack') : stack'[i] = x
  BY <1>3, WhatIsInSeq
<1>9. Len(stack) \in Nat BY <1>2, LenProperties
<1>10. Len(stack) + 1 \in 1..Len(stack') /\ \A i \in 1..Len(stack) : i \in 1..Len(stack')
  BY <1>4, <1>9
<1>11. Last(stack') = new BY <1>4, <1>5 DEF Last
<1> QED BY <1>1, <1>3, <1>5, <1>6, <1>7, <1>8, <1>10, <1>11

\* The element of a widget or a layout begins: the stack, what is nested and
\* what is placed.
LEMMA BeginKeeps ==
    ASSUME UiIInv, phase = "tree", phase' = phase,
           NEW r, ObjectMade(r), \A o \in 1..Len(obj) : obj'[o] = obj[o],
           r.inside = Peek, r.places = << >>, Fits(r, obj[Peek]),
           stack' = Append(stack, Len(obj) + 1), item' = item, itemstack' = << >>,
           \/ r.class \in Classes /\ topwidget' = Len(obj) + 1 /\ itemNr' = 0
           \/ r.class \in LayoutClasses /\ topwidget' = topwidget
    PROVE  /\ stack' \in Seq(Nat) /\ StackRight' /\ CurrentWidget' /\ ItemsCounted' /\ Placed'
<1>1. /\ UiTypeOK /\ StackRight /\ ItemsCounted /\ CurrentWidget /\ Placed
  BY DEF UiIInv, TreeAsWritten
<1>2. StackRight'
  <2>1. r.class \in Classes \cup TopClasses \cup LayoutClasses OBVIOUS
  <2> QED BY <1>1, <2>1, StackPushed
<1>3. Len(obj) \in Nat \ {0} /\ Peek \in 1..Len(obj) BY <1>1, SomethingOpen
<1>4. stack \in Seq(Nat) /\ Len(obj) + 1 \in Nat BY <1>1, <1>3 DEF UiTypeOK
<1>5. /\ stack' \in Seq(Nat) /\ Last(stack') = Len(obj) + 1
      /\ Len(obj) + 1 \in Range(stack') /\ \A x \in Range(stack) : x \in Range(stack')
  BY <1>4, RangePushed
<1>6. /\ Len(obj') = Len(obj) + 1 /\ obj'[Len(obj) + 1] = r /\ AreObjects(obj')
      /\ \A o \in 1..Len(obj) : Same(obj'[o], obj[o])
  BY DEF ObjectMade
<1>7. IsWidget(Last(stack))' <=> r.class \in Classes \cup TopClasses
  BY <1>5, <1>6 DEF IsWidget
<1>8. \/ IsWidget(Last(stack))' /\ topwidget' = Len(obj) + 1 /\ itemNr' = 0
      \/ ~ IsWidget(Last(stack))' /\ topwidget' = topwidget
  BY <1>7, ClassesAssumption
<1>9. Len(obj') \in Nat /\ Len(obj') >= Len(obj) BY <1>3, <1>6
<1>10. CurrentWidget' /\ ItemsCounted'
  BY <1>1, <1>2, <1>6, <1>8, <1>9, PushNesting
<1>11. ASSUME NEW o \in (1..Len(obj')) \ Range(stack')
       PROVE  o \in (1..Len(obj)) \ Range(stack) /\ obj'[o].places = obj[o].places
  <2>1. o # Len(obj) + 1 /\ o \notin Range(stack) BY <1>5
  <2>2. o \in 1..Len(obj) BY <2>1, <1>3, <1>6
  <2> QED BY <2>1, <2>2
<1>12. ObjectsEnclosed BY <1>1 DEF StackRight
<1>13. Placed' BY <1>1, <1>6, <1>9, <1>11, <1>12, PlacedStays
<1> QED BY <1>2, <1>5, <1>10, <1>13

\* What may be created in a widget fits there.
LEMMA WidgetFits ==
    ASSUME UiIInv, phase = "tree", NEW class \in Classes, MayHold(Peek, class),
           NEW r, r.class = class, r.parent = NewParent, r.inside = Peek
    PROVE  Fits(r, obj[Peek])
<1>1. /\ IsWidget(Peek) => Peek = topwidget
      /\ IsWidget(Peek) \/ IsLayout(Peek)
  BY SomethingOpen, TopIsNearest DEF UiIInv, TreeAsWritten
<1>2. CASE IsLayout(Peek) BY <1>2 DEF Fits, IsLayout
<1>3. CASE ~ IsLayout(Peek)
  <2>1. Peek = topwidget BY <1>1, <1>3
  <2>2. \/ obj[Peek].class = "QWidget"
        \/ obj[Peek].class \in Containers /\ class = "QWidget"
        \/ obj[Peek].class = "QMainWindow" /\ PlaceIn(obj[Peek].class, class) # ""
    BY <1>3 DEF MayHold
  <2>3. r.parent = IF obj[Peek].class \in Containers THEN 0 ELSE Peek
    BY <2>1 DEF NewParent
  <2>4. {"QWidget", "QMainWindow"} \cap Containers = {} BY DEF Containers
  <2> QED BY <2>2, <2>3, <2>4 DEF Fits
<1> QED BY <1>2, <1>3

\* What is left for the invariant when something was made.
LEMMA AllKept ==
    ASSUME UiTypeOK', StackRight', ItemsCounted', NamesKept', AttributesKept', PutOff',
           CurrentWidget', Placed', ActionsResolved', CurrentShown'
    PROVE  UiIInv'
BY DEF UiIInv, TreeAsWritten, NamesKept

\* The element of a widget begins.
LEMMA CreateWidgetKeeps ==
    ASSUME UiIInv, NamesApart, NEW class \in Classes, NEW name \in Names \cup {NoName},
           NEW property \in PropertiesOf(class), NEW sorts,
           CreateWidget(class, name, property, sorts)
    PROVE  UiIInv'
<1>1. /\ phase = "tree" /\ phase' = phase /\ added' = added /\ MayHold(Peek, class)
      /\ SetupObject(class, NewParent, name, Peek, sorts)
      /\ stack' = Append(stack, Len(obj) + 1) /\ topwidget' = Len(obj) + 1
      /\ itemNr' = 0 /\ itemstack' = << >>
      /\ UNCHANGED <<item, actions, group, bgroups>>
  BY DEF CreateWidget, Element
<1>2. NameOf(class, name) \in GivenNames BY DEF NameOf, GivenNames
<1>3. class # "QSpacerItem" BY ClassesAssumption
<1>4. PICK parent : parent = NewParent OBVIOUS
<1>5. PICK in : in = Peek OBVIOUS
<1>6. PICK r : /\ r.class = class /\ r.parent = parent /\ r.inside = in
               /\ r.places = << >> /\ ObjectMade(r)
               /\ \A o \in 1..Len(obj) : obj'[o] = obj[o]
               /\ NamesKept' /\ AttributesKept'
  BY <1>1, <1>2, <1>3, <1>4, <1>5, SetupKeeps
<1>7. Fits(r, obj[Peek]) BY <1>1, <1>4, <1>5, <1>6, WidgetFits
<1>8. stack' \in Seq(Nat) /\ StackRight' /\ CurrentWidget' /\ ItemsCounted' /\ Placed'
  BY <1>1, <1>5, <1>6, <1>7, BeginKeeps
<1>9. Len(obj) \in Nat /\ Len(obj') = Len(obj) + 1 /\ AreObjects(obj')
  BY <1>6 DEF ObjectMade
<1>10. ActionsResolved' /\ CurrentShown' BY <1>1, StillReading
<1>11. UiTypeOK /\ PutOff BY DEF UiIInv
<1>12. PICK D : D = [widget : Nat, value : Nat] OBVIOUS
<1>13. delayed \in Seq(D) BY <1>11, <1>12 DEF UiTypeOK
<1>14. delayed' = delayed \/ delayed' = Append(delayed, [widget |-> Len(obj) + 1, value |-> 1])
  <2>1. property[1] = "currentIndex" => property[2] = 1
    BY DEF PropertiesOf, NoProperty
  <2> QED BY <2>1 DEF CreateWidget, Delay
<1>15. delayed' \in Seq(D) /\ PutOff'
  <2>1. CASE delayed' = delayed
    <3>1. Len(obj') \in Nat /\ Len(obj') >= Len(obj) BY <1>9
    <3>2. PutOff' BY <3>1, <2>1, <1>1, <1>9, PutOffStays
    <3> QED BY <3>2, <2>1, <1>13
  <2>2. CASE delayed' = Append(delayed, [widget |-> Len(obj) + 1, value |-> 1])
    <3>1. PICK d : d = [widget |-> Len(obj) + 1, value |-> 1] OBVIOUS
    <3>2. d \in D /\ d.widget = Len(obj) + 1 BY <3>1, <1>9, <1>12
    <3>3. delayed' \in Seq(D) BY <2>2, <3>1, <3>2, <1>13, AppendProperties
    <3>4. Len(delayed') = Len(delayed) + 1 BY <2>2, <3>1, <3>2, <1>13, AppendProperties
    <3>5. delayed'[Len(delayed) + 1] = d BY <2>2, <3>1, <3>2, <1>13, AppendProperties
    <3>6. \A i \in 1..Len(delayed) : delayed'[i] = delayed[i]
      BY <2>2, <3>1, <3>2, <1>13, AppendProperties
    <3>7. Len(delayed) \in Nat BY <1>13, LenProperties
    <3>8. 1..Len(delayed') = (1..Len(delayed)) \cup {Len(delayed) + 1} BY <3>4, <3>7
    <3>9. \A i \in 1..Len(delayed) :
            delayed[i].widget \in 1..Len(obj) /\ delayed[i].widget # Len(obj) + 1
      BY <1>9, <1>11 DEF PutOff
    <3>10. \A i \in 1..Len(delayed') : delayed'[i].widget \in 1..Len(obj')
      BY <3>2, <3>5, <3>6, <3>8, <3>9, <1>9
    <3>11. \A i, j \in 1..Len(delayed') :
             delayed'[i].widget = delayed'[j].widget => i = j
      BY <3>2, <3>5, <3>6, <3>8, <3>9, <1>11 DEF PutOff
    <3>12. group' # 0 => group' \in 1..Len(obj') BY <1>1, <1>9, <1>11 DEF PutOff
    <3> QED BY <3>3, <3>10, <3>11, <3>12, <1>1, <1>11 DEF PutOff
  <2> QED BY <2>1, <2>2, <1>14
<1>16. UiTypeOK' BY <1>1, <1>8, <1>9, <1>11, <1>12, <1>15 DEF UiTypeOK
<1> QED BY <1>6, <1>8, <1>10, <1>15, <1>16, AllKept

\* The element of a layout begins.
LEMMA CreateLayoutKeeps ==
    ASSUME UiIInv, NamesApart, NEW class \in LayoutClasses, CreateLayout(class, NoName)
    PROVE  UiIInv'
<1>1. /\ phase = "tree" /\ phase' = phase /\ added' = added /\ itemstack = << >>
      /\ obj[Peek].class \in {"QWidget"} \cup LayoutClasses
      /\ \E no : SetupObject(class, IF TopIsLayout THEN 0 ELSE topwidget, NoName, Peek, no)
      /\ stack' = Append(stack, Len(obj) + 1)
      /\ UNCHANGED <<topwidget, item, itemNr, itemstack, actions, delayed, group, bgroups>>
  BY DEF CreateLayout, Element, InWidgetOrLayout, shared, later
<1>2. NameOf(class, NoName) \in GivenNames BY DEF NameOf, GivenNames
<1>3. class # "QSpacerItem" BY ClassesAssumption
<1>4. PICK parent : parent = IF TopIsLayout THEN 0 ELSE topwidget OBVIOUS
<1>5. PICK in : in = Peek OBVIOUS
<1>6. PICK r : /\ r.class = class /\ r.parent = parent /\ r.inside = in
               /\ r.places = << >> /\ ObjectMade(r)
               /\ \A o \in 1..Len(obj) : obj'[o] = obj[o]
               /\ NamesKept' /\ AttributesKept'
  BY <1>1, <1>2, <1>3, <1>4, <1>5, SetupKeeps
<1>7. Fits(r, obj[Peek])
  <2>1. /\ IsWidget(Peek) => Peek = topwidget
        /\ IsWidget(Peek) \/ IsLayout(Peek)
    BY <1>1, SomethingOpen, TopIsNearest DEF UiIInv, TreeAsWritten
  <2> QED BY <2>1, <1>1, <1>4, <1>5, <1>6 DEF Fits, IsLayout, TopIsLayout
<1>8. stack' \in Seq(Nat) /\ StackRight' /\ CurrentWidget' /\ ItemsCounted' /\ Placed'
  <2>1. itemstack' = << >> BY <1>1
  <2> QED BY <2>1, <1>1, <1>5, <1>6, <1>7, BeginKeeps
<1>9. /\ Len(obj) \in Nat /\ Len(obj') = Len(obj) + 1 /\ AreObjects(obj')
      /\ Len(obj') \in Nat /\ Len(obj') >= Len(obj)
  BY <1>6 DEF ObjectMade
<1>10. ActionsResolved' /\ CurrentShown' BY <1>1, StillReading
<1>11. PutOff' BY <1>1, <1>9, PutOffStays
<1>12. UiTypeOK' BY <1>1, <1>8, <1>9 DEF UiIInv, UiTypeOK
<1> QED BY <1>6, <1>8, <1>10, <1>11, <1>12, AllKept

\* An object that is no widget is made: it is placed at once.
LEMMA MadeKeeps ==
    ASSUME UiIInv, phase = "tree", phase' = phase, added' = added,
           NEW r, ObjectMade(r), \A o \in 1..Len(obj) : obj'[o] = obj[o],
           r.inside \in 1..Len(obj), Fits(r, obj[r.inside]), IsPlaced(r, obj[r.inside]),
           NamesKept', AttributesKept',
           UNCHANGED <<stack, topwidget, item, itemNr, itemstack, actions, delayed>>,
           group' = group \/ group' = 0 \/ group' = Len(obj) + 1
    PROVE  UiIInv'
<1>1. UiTypeOK /\ StackRight /\ ItemsCounted /\ CurrentWidget /\ Placed
  BY DEF UiIInv, TreeAsWritten
<1>2. /\ Len(obj) \in Nat /\ Len(obj') = Len(obj) + 1 /\ AreObjects(obj')
      /\ Len(obj') \in Nat /\ Len(obj') >= Len(obj) /\ obj'[Len(obj) + 1] = r
  BY DEF ObjectMade
<1>3. \A o \in 1..Len(obj) : Same(obj'[o], obj[o]) /\ obj'[o].places = obj[o].places
  BY DEF Same
<1>4. ObjectsEnclosed /\ ObjectsEnclosed' BY <1>1, NewObjectEnclosed DEF StackRight
<1>5. StackRight' BY <1>1, <1>2, <1>3, <1>4, StackStays
<1>6. CurrentWidget' /\ ItemsCounted' BY <1>1, <1>2, <1>3, NestingStays
<1>7. ASSUME NEW o \in (1..Len(obj')) \ Range(stack')
      PROVE  \/ o \in (1..Len(obj)) \ Range(stack) /\ obj'[o].places = obj[o].places
             \/ IsPlaced(obj'[o], obj'[obj'[o].inside])
  <2>1. CASE o \in 1..Len(obj) BY <2>1, <1>3
  <2>2. CASE o \notin 1..Len(obj)
    <3>1. obj'[o] = r BY <2>2, <1>2
    <3>2. obj'[r.inside].class = obj[r.inside].class BY <1>3 DEF Same
    <3> QED BY <3>1, <3>2 DEF IsPlaced
  <2> QED BY <2>1, <2>2
<1>8. Placed' BY <1>1, <1>2, <1>3, <1>4, <1>7, PlacedStays
<1>9. ActionsResolved' /\ CurrentShown' BY StillReading
<1>10. Len(obj) + 1 \in 1..Len(obj') BY <1>2
<1>11. PutOff' BY <1>2, <1>10, PutOffStays
<1>12. group' \in Nat BY <1>1, <1>2 DEF UiTypeOK
<1>13. UiTypeOK' BY <1>1, <1>2, <1>12 DEF UiTypeOK
<1> QED BY <1>5, <1>6, <1>8, <1>9, <1>11, <1>13, AllKept

\* A spacer is made, and put into the layout at once.
LEMMA CreateSpacerKeeps == ASSUME UiIInv, NamesApart, CreateSpacer PROVE UiIInv'
<1>1. /\ phase = "tree" /\ phase' = phase /\ added' = added /\ TopIsLayout
      /\ UNCHANGED <<stack, topwidget, attrs, item, itemNr, itemstack, actions, delayed,
                     group, bgroups>>
  BY DEF CreateSpacer, Element, shared, later
<1>2. PICK n : n = <<"spacerItem">> OBVIOUS
<1>3. PICK u : u = UniqueName(n) OBVIOUS
<1>4. PICK in : in = Peek OBVIOUS
<1>5. PICK r : r = [Object("QSpacerItem", 0, u.name, in, FALSE)
                      EXCEPT !.places = <<[in |-> in, how |-> "layout"]>>]
  OBVIOUS
<1>6. r = [class |-> "QSpacerItem", parent |-> 0, name |-> u.name,
           places |-> <<[in |-> in, how |-> "layout"]>>, inside |-> in, sorts |-> FALSE]
  BY <1>5 DEF Object
<1>7. /\ r.class = "QSpacerItem" /\ r.inside = in /\ r.name = u.name /\ IsObject(r)
      /\ r.places = <<[in |-> in, how |-> "layout"]>>
  BY <1>6 DEF IsObject
<1>8. obj' = Append(obj, r) /\ suffixes' = u.suffixes
  BY <1>2, <1>3, <1>4, <1>5 DEF CreateSpacer
<1>9. UiTypeOK /\ StackRight /\ NamesKept /\ AttributesKept BY DEF UiIInv
<1>10. AreObjects(obj) /\ Len(obj) >= 1 BY <1>9 DEF UiTypeOK, StackRight, ObjectsEnclosed
<1>11. AreObjects(obj') /\ Len(obj) \in Nat /\ Len(obj') = Len(obj) + 1
  BY <1>7, <1>8, <1>10, ObjectAdded
<1>12. \A o \in 1..Len(obj) : obj'[o] = obj[o] BY <1>7, <1>8, <1>10, ObjectAdded
<1>13. obj'[Len(obj) + 1] = r BY <1>7, <1>8, <1>10, ObjectAdded
<1>14. ObjectMade(r) BY <1>11, <1>12, <1>13 DEF ObjectMade, Same
<1>15. NamesKept' BY <1>1, <1>2, <1>3, <1>7, <1>8, <1>9, <1>10, <1>14, NamesGrow
<1>16. AttributesKept'
  <2>1. 1..Len(obj') = (1..Len(obj)) \cup {Len(obj) + 1} BY <1>11
  <2>2. \A o \in 2..Len(obj') : o \in 2..Len(obj) \/ o = Len(obj) + 1 BY <1>11
  <2>3. \A o \in 2..Len(obj) : o \in 1..Len(obj) OBVIOUS
  <2> QED BY <2>1, <2>2, <2>3, <1>1, <1>7, <1>9, <1>12, <1>13 DEF AttributesKept
<1>17. r.inside \in 1..Len(obj) /\ obj[r.inside].class \in LayoutClasses
  BY <1>1, <1>4, <1>7, <1>9, SomethingOpen DEF TopIsLayout, IsLayout
<1>18. Fits(r, obj[r.inside]) BY <1>7, <1>17 DEF Fits
<1>19. IsPlaced(r, obj[r.inside])
  <2>1. obj[r.inside].class \notin Containers BY <1>17, ClassesAssumption
  <2>2. r.class \notin Placeless BY <1>7 DEF Placeless
  <2> QED BY <2>1, <2>2, <1>7, <1>17 DEF IsPlaced
<1> QED BY <1>1, <1>12, <1>14, <1>15, <1>16, <1>17, <1>18, <1>19, MadeKeeps

\* An element ends: the stack, what is nested and what is placed.
LEMMA EndKeeps ==
    ASSUME UiIInv, phase = "tree", phase' = phase, added' = added,
           Len(stack) > 1, stack' = Front(stack), itemstack = << >>,
           UNCHANGED <<item, itemNr, itemstack, actions, delayed, group>>,
           AreObjects(obj'), Len(obj') \in Nat, Len(obj') >= Len(obj), ObjectsEnclosed',
           \A o \in 1..Len(obj) : Same(obj'[o], obj[o]),
           \A o \in 1..Len(obj) : o # Peek => obj'[o].places = obj[o].places,
           \/ ~ TopIsLayout /\ topwidget' = AfterPop(Front(stack))
           \/ TopIsLayout /\ topwidget' = topwidget,
           IsPlaced(obj'[Peek], obj'[obj'[Peek].inside]),
           \A o \in 1..Len(obj') :
             o \notin 1..Len(obj) => IsPlaced(obj'[o], obj'[obj'[o].inside]),
           NamesKept', AttributesKept'
    PROVE  UiIInv'
<1>1. UiTypeOK /\ StackRight /\ ItemsCounted /\ CurrentWidget /\ Placed
  BY DEF UiIInv, TreeAsWritten
<1>2. stack # << >> /\ Len(obj) \in Nat BY <1>1, SomethingOpen
<1>3. StackRight' BY <1>1, StackPopped
<1>4. CurrentWidget' /\ ItemsCounted' BY <1>1, PopNesting
<1>5. PICK S : S = Nat OBVIOUS
<1>6. stack \in Seq(S) BY <1>1, <1>5 DEF UiTypeOK
<1>7. \A x : x \in Range(stack') \/ x = Peek <=> x \in Range(stack)
  BY <1>2, <1>6, RangePopped DEF Peek
<1>8. stack' \in Seq(S) BY <1>2, <1>6, Shortened
<1>9. ASSUME NEW o \in (1..Len(obj')) \ Range(stack')
      PROVE  \/ o \in (1..Len(obj)) \ Range(stack) /\ obj'[o].places = obj[o].places
             \/ IsPlaced(obj'[o], obj'[obj'[o].inside])
  <2>1. CASE o = Peek BY <2>1
  <2>2. CASE o # Peek /\ o \in 1..Len(obj) BY <2>2, <1>7
  <2>3. CASE o \notin 1..Len(obj) BY <2>3
  <2> QED BY <2>1, <2>2, <2>3
<1>10. ObjectsEnclosed BY <1>1 DEF StackRight
<1>11. Placed' BY <1>1, <1>9, <1>10, PlacedStays
<1>12. ActionsResolved' /\ CurrentShown' BY StillReading
<1>13. PutOff' BY <1>2, PutOffStays
<1>14. stack' \in Seq(Nat) BY <1>5, <1>8
<1>15. UiTypeOK' BY <1>1, <1>14 DEF UiTypeOK
<1> QED BY <1>3, <1>4, <1>11, <1>12, <1>13, <1>15, AllKept

\* The element of a layout ends: it is added to the layout around it.
LEMMA EndLayoutKeeps == ASSUME UiIInv, EndLayout PROVE UiIInv'
<1>1. /\ phase = "tree" /\ phase' = phase /\ added' = added /\ TopIsLayout
      /\ stack' = Front(stack)
      /\ UNCHANGED <<topwidget, suffixes, attrs, bgroups, item, itemNr, itemstack, actions,
                     delayed, group>>
  BY DEF EndLayout, shared, later
<1>2. UiTypeOK /\ StackRight /\ ItemsCounted /\ CurrentWidget /\ NamesKept /\ AttributesKept
  BY DEF UiIInv, TreeAsWritten
<1>3. /\ Len(stack) \in Nat \ {0} /\ Peek = stack[Len(stack)] /\ Peek \in 1..Len(obj)
      /\ ~ IsWidget(Peek) /\ Len(obj) \in Nat \ {0}
  BY <1>1, <1>2, SomethingOpen DEF TopIsLayout
<1>4. Len(stack) > 1
  <2>1. stack[1] = 1 BY <1>1, <1>2 DEF StackRight
  <2>2. IsWidget(1) BY <1>2 DEF StackRight, ObjectsEnclosed, IsWidget
  <2>3. Len(stack) # 1 BY <2>1, <2>2, <1>3
  <2>4. Len(stack) \in Nat \ {0} BY <1>3
  <2> QED BY <2>3, <2>4
<1>5. itemstack = << >> BY <1>1, <1>2, <1>3, TopIsNearest DEF ItemsCounted, TopIsLayout
<1>6. PICK below : below = stack[Len(stack) - 1] OBVIOUS
<1>7. /\ below \in 1..Len(obj) /\ obj[Peek].inside = below /\ Fits(obj[Peek], obj[below])
      /\ obj[Peek].class \in LayoutClasses /\ obj[Peek].places = << >>
  BY <1>1, <1>2, <1>4, <1>6, InsideBelow DEF TopIsLayout, IsLayout
<1>8. Last(Front(stack)) = below
  <2>1. PICK S : S = Nat OBVIOUS
  <2>2. stack \in Seq(S) /\ stack # << >> BY <2>1, <1>1, <1>2 DEF UiTypeOK, StackRight
  <2>3. Len(Front(stack)) = Len(stack) - 1 BY <2>2, Shortened
  <2>4. \A i \in 1..(Len(stack) - 1) : Front(stack)[i] = stack[i] BY <2>2, Shortened
  <2>5. Len(stack) - 1 \in 1..(Len(stack) - 1) BY <1>3, <1>4
  <2> QED BY <2>3, <2>4, <2>5, <1>6 DEF Last
<1>9. PICK w : w = Peek OBVIOUS
<1>10. PICK p : p = IF IsLayout(below) THEN <<[in |-> below, how |-> "layout"]>> ELSE << >>
  OBVIOUS
<1>11. /\ AreObjects(obj') /\ Len(obj') = Len(obj)
       /\ \A o \in 1..Len(obj) : Same(obj'[o], obj[o])
       /\ \A o \in 1..Len(obj) : o # w => obj'[o].places = obj[o].places
       /\ obj'[w].places = p
  <2>1. CASE IsLayout(below)
    <3>1. obj' = [obj EXCEPT ![w].places = p] BY <2>1, <1>8, <1>9, <1>10 DEF EndLayout
    <3>2. AreObjects(obj) /\ w \in 1..Len(obj) BY <1>2, <1>3, <1>9 DEF UiTypeOK
    <3>3. AreObjects(obj') /\ Len(obj') = Len(obj) BY <3>1, <3>2, ObjectPlaced
    <3>4. \A o \in 1..Len(obj) : Same(obj'[o], obj[o]) BY <3>1, <3>2, ObjectPlaced
    <3>5. \A o \in 1..Len(obj) : o # w => obj'[o] = obj[o] BY <3>1, <3>2, ObjectPlaced
    <3>6. obj'[w].places = p BY <3>1, <3>2, ObjectPlaced
    <3> QED BY <3>3, <3>4, <3>5, <3>6
  <2>2. CASE ~ IsLayout(below)
    <3>1. obj' = obj BY <2>2, <1>8 DEF EndLayout
    <3>2. p = << >> BY <2>2, <1>10
    <3>3. AreObjects(obj') BY <3>1, <1>2 DEF UiTypeOK
    <3> QED BY <3>1, <3>2, <3>3, <1>7, <1>9 DEF Same
  <2> QED BY <2>1, <2>2
<1>12. ObjectsStay BY <1>3, <1>11 DEF ObjectsStay
<1>13. NamesKept' /\ AttributesKept'
  <2>1. AreObjects(obj) /\ Len(obj) >= 1 BY <1>2, <1>3 DEF UiTypeOK
  <2> QED BY <2>1, <1>1, <1>2, <1>12, NamesStay
<1>14. ObjectsEnclosed' BY <1>2, <1>12, ObjectsStayEnclosed DEF StackRight
<1>15. IsPlaced(obj'[w], obj'[obj'[w].inside])
  <2>1. /\ obj'[w].inside = below /\ obj'[w].class = obj[w].class
        /\ obj'[w].parent = obj[w].parent /\ obj'[below].class = obj[below].class
    BY <1>3, <1>7, <1>9, <1>11 DEF Same
  <2>2. obj[w].class \notin Placeless \cup Classes \cup TopClasses \cup {"QSpacerItem"}
    BY <1>7, <1>9, ClassesAssumption
  <2>3. CASE IsLayout(below)
    <3>1. p = <<[in |-> below, how |-> "layout"]>> BY <2>3, <1>10
    <3>2. obj[below].class \in LayoutClasses /\ obj[below].class \notin Containers
      BY <2>3, ClassesAssumption DEF IsLayout
    <3> QED BY <3>1, <3>2, <2>1, <2>2, <1>11 DEF IsPlaced
  <2>4. CASE ~ IsLayout(below)
    <3>1. p = << >> BY <2>4, <1>10
    <3>2. obj[below].class = "QWidget" /\ obj[w].parent = below
      BY <2>2, <2>4, <1>7, <1>9 DEF Fits, IsLayout
    <3>3. PlaceIn("QWidget", obj[w].class) = "" BY DEF PlaceIn
    <3>4. "QWidget" \notin LayoutClasses BY ClassesAssumption
    <3> QED BY <3>1, <3>2, <3>3, <3>4, <2>1, <2>2, <1>11 DEF IsPlaced
  <2> QED BY <2>3, <2>4
<1>16. Len(obj') \in Nat /\ Len(obj') >= Len(obj) BY <1>3, <1>11
<1>17. \A o \in 1..Len(obj) : o # Peek => obj'[o].places = obj[o].places BY <1>9, <1>11
<1>18. IsPlaced(obj'[Peek], obj'[obj'[Peek].inside]) BY <1>9, <1>15
<1>19. TopIsLayout /\ topwidget' = topwidget BY <1>1
<1>20. \A o \in 1..Len(obj') :
         o \notin 1..Len(obj) => IsPlaced(obj'[o], obj'[obj'[o].inside])
  BY <1>11
<1> QED BY <1>1, <1>4, <1>5, <1>11, <1>13, <1>14, <1>16, <1>17, <1>18, <1>19, <1>20, EndKeeps

\* What becomes of the objects when the element of a widget ends, with a group
\* of buttons or without.
PlacesGiven(w, p) ==
    /\ AreObjects(obj') /\ Len(obj) \in Nat /\ Len(obj') \in Nat
    /\ Len(obj') >= Len(obj) /\ ObjectsEnclosed'
    /\ \A o \in 1..Len(obj) : Same(obj'[o], obj[o])
    /\ \A o \in 1..Len(obj) : o # w => obj'[o].places = obj[o].places
    /\ obj'[w].places = p
    /\ \A o \in 1..Len(obj') :
         o \notin 1..Len(obj) => IsPlaced(obj'[o], obj'[obj'[o].inside])
    /\ NamesKept' /\ AttributesKept'

\* It is so whenever a widget that ends is given its places.
LEMMA EndWidgetObjects ==
    ASSUME UiIInv, NamesApart, phase = "tree", NEW bgroup \in Groups \cup {NoName},
           NEW w \in 1..Len(obj), NEW p,
           ButtonGroup(w, bgroup, [obj EXCEPT ![w].places = p]), suffixes' = suffixes
    PROVE  PlacesGiven(w, p)
<1>1. UiTypeOK /\ StackRight /\ NamesKept /\ AttributesKept /\ ObjectsEnclosed
  BY DEF UiIInv, StackRight
<1>2. AreObjects(obj) /\ Len(obj) >= 1 BY <1>1 DEF UiTypeOK, ObjectsEnclosed
<1>3. PICK objs : objs = [obj EXCEPT ![w].places = p] OBVIOUS
<1>4. AreObjects(objs) /\ Len(obj) \in Nat /\ Len(objs) = Len(obj) BY <1>2, <1>3, ObjectPlaced
<1>5. \A o \in 1..Len(obj) : Same(objs[o], obj[o]) BY <1>2, <1>3, ObjectPlaced
<1>6. objs[w].places = p BY <1>2, <1>3, ObjectPlaced
<1>7. \A o \in 1..Len(obj) : o # w => objs[o] = obj[o] BY <1>2, <1>3, ObjectPlaced
<1>8. CASE obj' = objs /\ DOMAIN bgroups' = DOMAIN bgroups /\ attrs' = attrs
  <2>1. ObjectsStay BY <1>4, <1>5, <1>8 DEF ObjectsStay
  <2>2. NamesKept' /\ AttributesKept' BY <2>1, <1>1, <1>2, <1>8, NamesStay
  <2>3. ObjectsEnclosed' BY <2>1, <1>1, ObjectsStayEnclosed
  <2> QED BY <2>2, <2>3, <1>4, <1>5, <1>6, <1>7, <1>8 DEF PlacesGiven
<1>9. CASE ~ (obj' = objs /\ DOMAIN bgroups' = DOMAIN bgroups /\ attrs' = attrs)
  <2>1. PICK r : r = Object("QButtonGroup", 1, bgroup, 1, FALSE) OBVIOUS
  <2>2. /\ bgroup \in Groups \ DOMAIN bgroups /\ obj' = Append(objs, r)
        /\ attrs' = Given(attrs, bgroup, Len(obj) + 1)
        /\ DOMAIN bgroups' = {bgroup} \cup DOMAIN bgroups
    <3>1. bgroup # NoName /\ bgroup \notin DOMAIN bgroups
      BY <1>3, <1>9 DEF ButtonGroup
    <3> QED BY <3>1, <2>1, <1>3 DEF ButtonGroup, Given
  <2>3. /\ r.class = "QButtonGroup" /\ r.parent = 1 /\ r.inside = 1 /\ r.places = << >>
        /\ r.name = bgroup /\ IsObject(r)
    BY <2>1 DEF Object, IsObject
  <2>4. AreObjects(obj') /\ Len(obj') = Len(objs) + 1 BY <2>2, <2>3, <1>4, ObjectAdded
  <2>5. \A o \in 1..Len(objs) : obj'[o] = objs[o] BY <2>2, <2>3, <1>4, ObjectAdded
  <2>6. obj'[Len(objs) + 1] = r BY <2>2, <2>3, <1>4, ObjectAdded
  <2>7. \A o \in 1..Len(obj) : Same(obj'[o], obj[o]) BY <2>5, <1>4, <1>5
  <2>8. ObjectMade(r) BY <2>4, <2>6, <2>7, <1>4 DEF ObjectMade
  <2>9. NamesKept' /\ \A o \in 1..Len(obj) : obj[o].name # r.name
    BY <2>2, <2>3, <2>8, <1>1, <1>2, GroupNamed
  <2>10. AttributesKept' BY <2>2, <2>3, <2>8, <2>9, <1>1, <1>2, AttributesGrow
  <2>11. r.class \in Placeless BY <2>3 DEF Placeless
  <2>12. \A c : Fits(r, c) /\ IsPlaced(r, c) BY <2>3, <2>11 DEF Fits, IsPlaced
  <2>13. ObjectsEnclosed' BY <2>3, <2>8, <2>12, <1>1, <1>2, <1>4, NewObjectEnclosed
  <2>14. \A o \in 1..Len(obj') :
           o \notin 1..Len(obj) => IsPlaced(obj'[o], obj'[obj'[o].inside])
    <3>1. \A o \in 1..Len(obj') : o \notin 1..Len(obj) => obj'[o] = r
      BY <2>4, <2>6, <1>4
    <3> QED BY <3>1, <2>12
  <2>15. obj'[w].places = p BY <2>5, <1>4, <1>6
  <2>16. \A o \in 1..Len(obj) : o # w => obj'[o].places = obj[o].places
    BY <2>5, <1>4, <1>7
  <2>17. Len(obj') \in Nat /\ Len(obj') >= Len(obj) BY <2>4, <1>4
  <2> QED BY <2>4, <2>7, <2>9, <2>10, <2>13, <2>14, <2>15, <2>16, <2>17, <1>4
     DEF PlacesGiven
<1> QED BY <1>8, <1>9

\* The element of a widget ends: it is put into what it is inside of.
LEMMA EndWidgetKeeps ==
    ASSUME UiIInv, NamesApart, "QMdiArea" \notin Classes \cup TopClasses,
           NEW bgroup \in Groups \cup {NoName}, EndWidget(bgroup)
    PROVE  UiIInv'
<1>1. /\ phase = "tree" /\ phase' = phase /\ added' = added /\ ~ TopIsLayout
      /\ Len(stack) > 1 /\ itemstack = << >>
      /\ stack' = Front(stack) /\ topwidget' = AfterPop(Front(stack))
      /\ UNCHANGED <<suffixes, item, itemNr, itemstack, actions, delayed, group>>
  BY DEF EndWidget, InWidgetOrLayout, later
<1>2. UiTypeOK /\ StackRight /\ ItemsCounted /\ CurrentWidget
  BY DEF UiIInv, TreeAsWritten
<1>3. /\ Len(stack) \in Nat \ {0} /\ Peek = stack[Len(stack)] /\ Peek \in 1..Len(obj)
      /\ Len(obj) \in Nat \ {0} /\ IsWidget(Peek)
  BY <1>1, <1>2, SomethingOpen DEF TopIsLayout
<1>4. PICK w \in 1..Len(obj) : w = Peek BY <1>3
<1>5. PICK top : top = AfterPop(Front(stack)) OBVIOUS
<1>6. PICK p : p = Places(w, Front(stack), top) OBVIOUS
<1>7. ButtonGroup(w, bgroup, [obj EXCEPT ![w].places = p])
  BY <1>4, <1>5, <1>6 DEF EndWidget
<1>8. /\ AreObjects(obj') /\ Len(obj') \in Nat
      /\ Len(obj') >= Len(obj) /\ ObjectsEnclosed'
      /\ \A o \in 1..Len(obj) : Same(obj'[o], obj[o])
      /\ \A o \in 1..Len(obj) : o # w => obj'[o].places = obj[o].places
      /\ obj'[w].places = p
      /\ \A o \in 1..Len(obj') :
           o \notin 1..Len(obj) => IsPlaced(obj'[o], obj'[obj'[o].inside])
      /\ NamesKept' /\ AttributesKept'
  <2>1. PlacesGiven(w, p) BY <1>1, <1>7, EndWidgetObjects
  <2> QED BY <2>1 DEF PlacesGiven
<1>9. PICK n : n = Len(stack) - 1 OBVIOUS
<1>10. n \in 1..Len(stack) /\ n \in Nat \ {0} BY <1>1, <1>3, <1>9
<1>11. PICK below : below = stack[n] OBVIOUS
<1>12. /\ below \in 1..Len(obj) /\ obj[w].inside = below /\ Fits(obj[w], obj[below])
       /\ obj[w].class \in Classes \cup TopClasses
  BY <1>1, <1>2, <1>3, <1>4, <1>9, <1>11, InsideBelow DEF IsWidget
<1>13. Last(Front(stack)) = below
  <2>1. PICK S : S = Nat OBVIOUS
  <2>2. stack \in Seq(S) /\ stack # << >> BY <2>1, <1>1, <1>2 DEF UiTypeOK, StackRight
  <2>3. Len(Front(stack)) = n BY <2>2, <1>9, Shortened
  <2>4. \A i \in 1..n : Front(stack)[i] = stack[i] BY <2>2, <1>9, Shortened
  <2>5. n \in 1..n BY <1>10
  <2> QED BY <2>3, <2>4, <2>5, <1>11 DEF Last
<1>14. PICK i \in 1..n : top = stack[i] /\ Nearest(i, n)
  <2>1. \E i \in 1..(Len(stack) - 1) : topwidget' = stack[i] /\ Nearest(i, Len(stack) - 1)
    BY <1>1, <1>2, <1>8, PopNesting
  <2> QED BY <2>1, <1>1, <1>5, <1>9
<1>15. IsLayout(below) => obj[top].class = "QWidget"
  BY <1>1, <1>2, <1>10, <1>11, <1>14, WidgetOfLayout
<1>16. ~ IsLayout(below) => top = below
  <2>1. IsWidget(below) \/ IsLayout(below) BY <1>2, <1>10, <1>11 DEF StackRight, OpenRight
  <2>2. IsWidget(below) => i = n
    <3>1. i # n => n \in (i + 1)..n BY <1>10
    <3> QED BY <3>1, <1>11, <1>14 DEF Nearest
  <2> QED BY <2>1, <2>2, <1>11, <1>14
<1>17. obj[below].class \in Classes \cup TopClasses \cup LayoutClasses
  BY <1>2, <1>10, <1>11 DEF StackRight, OpenRight, IsWidget, IsLayout
<1>18. top \in 1..Len(obj)
  <2>1. i \in 1..Len(stack) BY <1>3, <1>9, <1>10
  <2> QED BY <2>1, <1>2, <1>14 DEF StackRight, OpenRight
<1>19. PICK r : r = obj'[w] OBVIOUS
<1>20. PICK c : c = obj'[below] OBVIOUS
<1>21. PICK t : t = obj'[top] OBVIOUS
<1>22. /\ r.class = obj[w].class /\ r.parent = obj[w].parent /\ r.inside = below
       /\ c.class = obj[below].class /\ t.class = obj[top].class /\ r.places = p
  BY <1>8, <1>12, <1>18, <1>19, <1>20, <1>21 DEF Same
<1>23. Fits(r, c) BY <1>12, <1>22 DEF Fits
<1>24. (c.class \in LayoutClasses => t.class = "QWidget") /\ (c.class \notin LayoutClasses => t = c)
  BY <1>15, <1>16, <1>20, <1>21, <1>22 DEF IsLayout
<1>25. r.places = (IF c.class \in LayoutClasses
                     THEN <<[in |-> below, how |-> "layout"]>> ELSE << >>)
                  \o (IF PlaceIn(t.class, r.class) # ""
                        THEN <<[in |-> below, how |-> PlaceIn(t.class, r.class)]>>
                        ELSE << >>)
  <2>1. p = (IF IsLayout(below) THEN <<[in |-> below, how |-> "layout"]>> ELSE << >>)
            \o (IF PlaceIn(obj[top].class, obj[w].class) # ""
                  THEN <<[in |-> top, how |-> PlaceIn(obj[top].class, obj[w].class)]>>
                  ELSE << >>)
    BY <1>6, <1>13 DEF Places
  <2>2. CASE IsLayout(below)
    <3>1. PlaceIn(t.class, r.class) = "" BY <2>2, <1>15, <1>22 DEF PlaceIn
    <3> QED BY <3>1, <2>1, <2>2, <1>22 DEF IsLayout
  <2>3. CASE ~ IsLayout(below)
    BY <2>1, <2>3, <1>16, <1>22 DEF IsLayout
  <2> QED BY <2>2, <2>3
<1>26. r.class \in Classes \cup TopClasses
       /\ c.class \in Classes \cup TopClasses \cup LayoutClasses
  BY <1>12, <1>17, <1>22
<1>27. IsPlaced(r, c) BY <1>22, <1>23, <1>24, <1>25, <1>26, WidgetPlaced
<1>28. IsPlaced(obj'[Peek], obj'[obj'[Peek].inside]) BY <1>4, <1>19, <1>20, <1>22, <1>27
<1>29. \A o \in 1..Len(obj) : o # Peek => obj'[o].places = obj[o].places BY <1>4, <1>8
<1> QED BY <1>1, <1>8, <1>28, <1>29, EndKeeps

\* An object that is nowhere to be put is a child of what it is inside of.
LEMMA PlacelessFits ==
    ASSUME NEW r, NEW c, r.class \in Placeless, r.places = << >>, r.parent = r.inside
    PROVE  Fits(r, c) /\ IsPlaced(r, c)
BY DEF Fits, IsPlaced

\* An action is a child of the window or of its group.
LEMMA CreateActionKeeps ==
    ASSUME UiIInv, NamesApart, NEW name \in Names, CreateAction(name)
    PROVE  UiIInv'
<1>1. PICK in : in = IF group # 0 THEN group ELSE 1 OBVIOUS
<1>2. /\ phase = "tree" /\ phase' = phase /\ added' = added
      /\ \E no : SetupObject("QAction", in, name, in, no)
      /\ UNCHANGED <<stack, topwidget, item, itemNr, itemstack, actions, delayed, group,
                     bgroups>>
  BY <1>1 DEF CreateAction, Element, shared, later
<1>3. NameOf("QAction", name) \in GivenNames BY DEF NameOf, GivenNames
<1>4. PICK r : /\ r.class = "QAction" /\ r.parent = in /\ r.inside = in
               /\ r.places = << >> /\ ObjectMade(r)
               /\ \A o \in 1..Len(obj) : obj'[o] = obj[o]
               /\ NamesKept' /\ AttributesKept'
  BY <1>2, <1>3, SetupKeeps
<1>5. in \in 1..Len(obj) BY <1>1, <1>2, SomethingOpen DEF UiIInv, PutOff
<1>6. r.class \in Placeless BY <1>4 DEF Placeless
<1>7. Fits(r, obj[r.inside]) /\ IsPlaced(r, obj[r.inside]) BY <1>4, <1>6, PlacelessFits
<1> QED BY <1>2, <1>4, <1>5, <1>7, MadeKeeps

\* A group of actions is a child of the window.
LEMMA BeginActionGroupKeeps ==
    ASSUME UiIInv, NamesApart, BeginActionGroup
    PROVE  UiIInv'
<1>1. /\ phase = "tree" /\ phase' = phase /\ added' = added
      /\ \E no : SetupObject("QActionGroup", 1, NoName, 1, no)
      /\ group' = Len(obj) + 1
      /\ UNCHANGED <<stack, topwidget, item, itemNr, itemstack, actions, delayed, bgroups>>
  BY DEF BeginActionGroup, Element, shared, later
<1>2. NameOf("QActionGroup", NoName) \in GivenNames BY DEF NameOf, GivenNames
<1>3. PICK r : /\ r.class = "QActionGroup" /\ r.parent = 1 /\ r.inside = 1
               /\ r.places = << >> /\ ObjectMade(r)
               /\ \A o \in 1..Len(obj) : obj'[o] = obj[o]
               /\ NamesKept' /\ AttributesKept'
  BY <1>1, <1>2, SetupKeeps
<1>4. 1 \in 1..Len(obj) BY <1>1, SomethingOpen DEF UiIInv
<1>5. r.class \in Placeless BY <1>3 DEF Placeless
<1>6. Fits(r, obj[r.inside]) /\ IsPlaced(r, obj[r.inside]) BY <1>3, <1>5, PlacelessFits
<1> QED BY <1>1, <1>3, <1>4, <1>6, MadeKeeps

\* Objects, names and the stack are as before.
LEMMA ObjectsKeep ==
    ASSUME UiIInv, phase = "tree", group' = group \/ group' = 0,
           UNCHANGED <<obj, stack, suffixes, attrs, delayed, bgroups, added, phase>>,
           UiTypeOK', CurrentWidget', ItemsCounted'
    PROVE  UiIInv'
<1>1. UiTypeOK /\ StackRight /\ NamesKept /\ AttributesKept /\ Placed
  BY DEF UiIInv, TreeAsWritten
<1>2. AreObjects(obj) /\ Len(obj) \in Nat \ {0} BY <1>1, SomethingOpen DEF UiTypeOK
<1>3. ObjectsStay BY <1>2 DEF ObjectsStay, Same
<1>4. NamesKept' /\ AttributesKept' BY <1>1, <1>2, <1>3, NamesStay
<1>5. ObjectsEnclosed' BY <1>1, <1>3, ObjectsStayEnclosed DEF StackRight
<1>6. StackRight' BY <1>1, <1>2, <1>3, <1>5, StackStays DEF Same
<1>7. Placed' BY <1>1 DEF Placed
<1>8. ActionsResolved' /\ CurrentShown' BY StillReading
<1>9. PutOff' BY <1>2, PutOffStays
<1> QED BY <1>4, <1>6, <1>7, <1>8, <1>9, AllKept

\* Items are made, and those of trees end.
LEMMA ItemsKeep ==
    ASSUME UiIInv, AddItem \/ BeginTreeItem \/ EndTreeItem
    PROVE  UiIInv'
<1>1. UiTypeOK /\ StackRight /\ CurrentWidget /\ ItemsCounted BY DEF UiIInv, TreeAsWritten
<1>2. /\ phase = "tree"
      /\ UNCHANGED <<obj, stack, suffixes, attrs, delayed, bgroups, added, phase, group, actions>>
  BY DEF AddItem, BeginTreeItem, EndTreeItem, Element, later
<1>3. CASE AddItem
  <2>1. item' \in Seq(ItemRecords) /\ CurrentWidget' /\ ItemsCounted'
    BY <1>1, <1>3, AddItemCounts
  <2>2. itemNr' = itemNr + 1 /\ itemstack' = itemstack BY <1>3 DEF AddItem
  <2>3. UiTypeOK' BY <2>1, <2>2, <1>1, <1>2 DEF UiTypeOK
  <2> QED BY <2>1, <2>3, <1>2, ObjectsKeep
<1>4. CASE BeginTreeItem
  <2>1. /\ item' \in Seq(ItemRecords) /\ itemstack' \in Seq(Nat \X Nat)
        /\ CurrentWidget' /\ ItemsCounted'
    BY <1>1, <1>4, BeginTreeItemCounts
  <2>2. itemNr' = 0 BY <1>4 DEF BeginTreeItem
  <2>3. UiTypeOK' BY <2>1, <2>2, <1>1, <1>2 DEF UiTypeOK
  <2> QED BY <2>1, <2>3, <1>2, ObjectsKeep
<1>5. CASE EndTreeItem
  <2>1. /\ itemNr' \in Nat /\ itemstack' \in Seq(Nat \X Nat)
        /\ CurrentWidget' /\ ItemsCounted'
    BY <1>1, <1>5, EndTreeItemCounts
  <2>2. item' = item BY <1>5 DEF EndTreeItem
  <2>3. UiTypeOK' BY <2>1, <2>2, <1>1, <1>2 DEF UiTypeOK
  <2> QED BY <2>1, <2>3, <1>2, ObjectsKeep
<1> QED BY <1>3, <1>4, <1>5

\* Headers, the actions of widgets and the end of a group change no object.
LEMMA OthersKeep ==
    ASSUME UiIInv,
           \/ \E empty \in BOOLEAN : AddHeader(empty)
           \/ \E name \in Names \cup {<<"separator">>} : AddAction(name)
           \/ EndActionGroup
    PROVE  UiIInv'
<1>1. UiTypeOK /\ StackRight /\ CurrentWidget /\ ItemsCounted BY DEF UiIInv, TreeAsWritten
<1>2. phase = "tree" /\ (group' = group \/ group' = 0)
  BY DEF AddHeader, AddAction, EndActionGroup, Element, UiIInv, PutOff
<1>3. UNCHANGED <<obj, stack, topwidget, suffixes, attrs, delayed, bgroups, added, phase,
                  item, itemNr, itemstack>>
  BY DEF AddHeader, AddAction, EndActionGroup, Element, shared, later
<1>4. Len(obj) \in Nat BY <1>1, <1>2, SomethingOpen
<1>5. CurrentWidget' /\ ItemsCounted' BY <1>1, <1>3, <1>4, NestingStays DEF Same
<1>6. actions' \in Seq([widget : Nat, name : Names \cup {<<"separator">>}])
  <2>1. PICK D : D = [widget : Nat, name : Names \cup {<<"separator">>}] OBVIOUS
  <2>2. actions \in Seq(D) BY <2>1, <1>1 DEF UiTypeOK
  <2>3. CASE actions' = actions BY <2>1, <2>2, <2>3
  <2>4. CASE actions' # actions
    <3>1. PICK name \in Names \cup {<<"separator">>} : AddAction(name)
      BY <2>4 DEF AddHeader, EndActionGroup, later
    <3>2. PICK a : a = [widget |-> topwidget, name |-> name] OBVIOUS
    <3>3. topwidget \in Nat BY <1>1, <1>2, <1>4, TopIsNearest
    <3>4. a \in D BY <3>1, <3>2, <3>3, <2>1
    <3>5. actions' = Append(actions, a) BY <3>1, <3>2 DEF AddAction
    <3>6. actions' \in Seq(D) BY <3>4, <3>5, <2>2, AppendProperties
    <3> QED BY <3>6, <2>1
  <2> QED BY <2>3, <2>4
<1>7. UiTypeOK' BY <1>1, <1>2, <1>3, <1>6 DEF UiTypeOK
<1> QED BY <1>2, <1>3, <1>5, <1>7, ObjectsKeep

\* Actions are found by their names, but those that do not exist (lines 848-858).
LEMMA ActionsAreResolved ==
    ASSUME UiIInv, NamesApart, phase = "tree", HandleWidget
    PROVE  ActionsResolved'
<1>1. /\ UiTypeOK /\ NamesKept /\ AttributesKept /\ DOMAIN added = {}
      /\ Len(obj) \in Nat \ {0}
  BY SomethingOpen DEF UiIInv, PutOff
<1>2. obj' = obj /\ attrs' = attrs /\ actions' = actions BY DEF HandleWidget
<1>3. DOMAIN obj = 1..Len(obj) BY <1>1, ObjectsNumbered DEF UiTypeOK
<1>4. ASSUME NEW i \in DOMAIN actions, actions[i].name # <<"separator">>
      PROVE  actions[i].name \in Names
  <2>1. PICK A : A = [widget : Nat, name : Names \cup {<<"separator">>}] OBVIOUS
  <2>2. actions \in Seq(A) BY <2>1, <1>1 DEF UiTypeOK
  <2>3. DOMAIN actions = 1..Len(actions) BY <2>2, LenProperties
  <2>4. actions[i] \in A BY <2>2, <2>3, ElementOfSeq
  <2> QED BY <2>1, <2>4, <1>4
<1>5. CASE phase' = "failed"
  <2>1. added' = added BY <1>5 DEF HandleWidget
  <2>2. PICK i \in DOMAIN actions :
          actions[i].name # <<"separator">> /\ actions[i].name \notin DOMAIN attrs
    BY <1>5 DEF HandleWidget
  <2>3. actions[i].name \in Names BY <2>2, <1>4
  <2>4. ASSUME NEW o \in 1..Len(obj) PROVE obj[o].name # actions[i].name
    <3>1. CASE o = 1 BY <3>1, <2>3, <1>1 DEF NamesKept, NamesApart, GivenNames
    <3>2. CASE o # 1
      <4>1. o \in 2..Len(obj) BY <3>2, <1>1
      <4>2. CASE obj[o].class = "QSpacerItem" BY <4>1, <4>2, <2>3, <1>1 DEF NamesKept
      <4>3. CASE obj[o].class # "QSpacerItem" BY <4>1, <4>3, <2>2, <1>1 DEF AttributesKept
      <4> QED BY <4>2, <4>3
    <3> QED BY <3>1, <3>2
  <2> QED BY <2>1, <2>2, <2>4, <1>1, <1>2, <1>3, <1>5 DEF ActionsResolved
<1>6. CASE phase' = "done"
  <2>1. /\ added' = ActionsAdded
        /\ \A i \in DOMAIN actions :
             actions[i].name = <<"separator">> \/ actions[i].name \in DOMAIN attrs
    BY <1>6 DEF HandleWidget
  <2>2. \A name \in DOMAIN attrs : attrs[name] \in 1..Len(obj) /\ obj[attrs[name]].name = name
    BY <1>1 DEF AttributesKept
  <2>3. ASSUME NEW i \in DOMAIN added'
        PROVE  /\ i \in DOMAIN actions /\ added'[i].widget = actions[i].widget
               /\ IF actions[i].name = <<"separator">> THEN added'[i].action = 0
                  ELSE obj[added'[i].action].name = actions[i].name
    <3>1. i \in DOMAIN actions BY <2>1 DEF ActionsAdded
    <3>2. added'[i] = [widget |-> actions[i].widget,
                       action |-> IF actions[i].name = <<"separator">> THEN 0
                                  ELSE attrs[actions[i].name]]
      BY <2>1 DEF ActionsAdded
    <3> QED BY <3>1, <3>2, <2>1, <2>2
  <2>4. ASSUME NEW i \in DOMAIN actions \ DOMAIN added'
        PROVE  \E o \in DOMAIN obj : obj[o].name = actions[i].name /\ obj[o].class = "QActionGroup"
    <3>1. ~ Addable(actions[i]) BY <2>1 DEF ActionsAdded
    <3>2. actions[i].name \in DOMAIN attrs BY <3>1, <2>1 DEF Addable
    <3>3. obj[attrs[actions[i].name]].class = "QActionGroup" BY <3>1 DEF Addable
    <3> QED BY <3>2, <3>3, <2>2, <1>3
  <2> QED BY <2>3, <2>4, <1>2, <1>6 DEF ActionsResolved
<1> QED BY <1>5, <1>6 DEF HandleWidget

\* A container shows its page once all pages exist (lines 860-866).
LEMMA PagesAreShown ==
    ASSUME UiIInv, phase = "tree", HandleWidget
    PROVE  CurrentShown'
<1>1. obj' = obj /\ delayed' = delayed BY DEF HandleWidget
<1>2. DOMAIN delayed = 1..Len(delayed)
  <2>1. PICK A : A = [widget : Nat, value : Nat] OBVIOUS
  <2>2. delayed \in Seq(A) BY <2>1 DEF UiIInv, UiTypeOK
  <2> QED BY <2>2, LenProperties
<1>3. ASSUME phase' = "done", NEW i \in DOMAIN delayed, NEW pages,
             pages = Pages(delayed[i].widget), delayed[i].value < Cardinality(pages)
      PROVE  shown'[delayed[i].widget] = delayed[i].value
  <2>1. PICK o : o = delayed[i].widget OBVIOUS
  <2>2. shown' = [x \in {delayed[j].widget : j \in DOMAIN delayed} |->
                    Shown(x, delayed[CHOOSE j \in DOMAIN delayed :
                                              delayed[j].widget = x].value)]
    BY <1>3 DEF HandleWidget
  <2>3. (CHOOSE j \in DOMAIN delayed : delayed[j].widget = o) = i
    BY <2>1, <1>2 DEF UiIInv, PutOff
  <2>4. shown'[o] = Shown(o, delayed[i].value) BY <2>1, <2>2, <2>3
  <2> QED BY <2>1, <2>4, <1>3 DEF Shown
<1>4. \A o : Pages(o)' = Pages(o) BY <1>1 DEF Pages
<1> QED BY <1>1, <1>3, <1>4 DEF CurrentShown

\* The element of the top-level widget ends.
LEMMA HandleWidgetKeeps ==
    ASSUME UiIInv, NamesApart, HandleWidget
    PROVE  UiIInv'
<1>1. UiTypeOK /\ StackRight /\ ItemsCounted /\ NamesKept /\ AttributesKept /\ PutOff /\ Placed
  BY DEF UiIInv, TreeAsWritten
<1>2. /\ phase = "tree" /\ stack = <<1>> /\ itemstack = << >> /\ group = 0
      /\ stack' = << >> /\ phase' \in {"done", "failed"}
      /\ UNCHANGED <<obj, suffixes, attrs, item, itemNr, itemstack, actions, delayed, group,
                     bgroups>>
  BY DEF HandleWidget, InWidgetOrLayout, shared
<1>3. AreObjects(obj) /\ Len(obj) \in Nat \ {0} BY <1>1, <1>2, SomethingOpen DEF UiTypeOK
<1>4. Len(stack') = 0 /\ Len(itemstack) = 0 /\ stack' \in Seq(Nat) BY <1>2
<1>5. UiTypeOK' BY <1>1, <1>2, <1>4 DEF UiTypeOK
<1>6. ObjectsStay BY <1>2, <1>3 DEF ObjectsStay, Same
<1>7. NamesKept' /\ AttributesKept' BY <1>1, <1>2, <1>3, <1>6, NamesStay
<1>8. ObjectsEnclosed' BY <1>1, <1>6, ObjectsStayEnclosed DEF StackRight
<1>9. StackRight' BY <1>2, <1>4, <1>8 DEF StackRight
<1>10. ItemsCounted' BY <1>1, <1>2, <1>4 DEF ItemsCounted
<1>11. CurrentWidget' BY <1>2 DEF CurrentWidget
<1>12. PutOff'
  <2>1. phase' = "failed" => added' = added BY <1>2 DEF HandleWidget
  <2> QED BY <2>1, <1>1, <1>2 DEF PutOff
<1>13. Placed'
  <2>1. obj[1].inside = 0 BY <1>1 DEF StackRight, ObjectsEnclosed
  <2>2. Range(stack) = {1} BY <1>2 DEF Range
  <2>3. \A o \in DOMAIN obj : obj[o].inside # 0 => IsPlaced(obj[o], obj[obj[o].inside])
    BY <2>1, <2>2, <1>1 DEF Placed
  <2> QED BY <2>3, <1>2 DEF Placed
<1> QED BY <1>2, <1>5, <1>7, <1>9, <1>10, <1>11, <1>12, <1>13, ActionsAreResolved,
           PagesAreShown, AllKept

\* The invariant holds when the element of the top-level widget begins.
LEMMA UiBegins == ASSUME NamesApart, UiInit PROVE UiIInv
<1>1. PICK class \in TopClasses : obj = <<Object(class, 0, <<"top">>, 0, FALSE)>>
  BY DEF UiInit
<1>2. PICK r : r = Object(class, 0, <<"top">>, 0, FALSE) OBVIOUS
<1>3. /\ IsObject(r) /\ r.class = class /\ r.inside = 0 /\ r.name = <<"top">>
      /\ r.places = << >>
  BY <1>2 DEF Object, IsObject
<1>4. obj = <<r>> BY <1>1, <1>2
<1>5. Len(obj) = 1 /\ DOMAIN obj = {1} /\ 1..1 = {1} /\ 2..1 = {} /\ obj[1] = r BY <1>4
<1>6. /\ stack = <<1>> /\ topwidget = 1 /\ phase = "tree" /\ group = 0 /\ itemNr = 0
      /\ suffixes = << >> /\ attrs = << >> /\ bgroups = << >> /\ item = << >>
      /\ itemstack = << >> /\ actions = << >> /\ delayed = << >> /\ added = << >>
  BY DEF UiInit
<1>7. AreObjects(obj)
  <2>1. obj \in Seq({r}) BY <1>4
  <2>2. obj \in Seq(Range(obj)) BY <2>1, SeqOfRange
  <2> QED BY <2>2, <1>3, <1>5 DEF AreObjects
<1>8. /\ stack \in Seq(Nat) /\ item \in Seq(ItemRecords) /\ itemstack \in Seq(Nat \X Nat)
      /\ actions \in Seq([widget : Nat, name : Names \cup {<<"separator">>}])
      /\ delayed \in Seq([widget : Nat, value : Nat])
      /\ Len(stack) = 1 /\ Len(item) = 0 /\ Len(itemstack) = 0 /\ Len(delayed) = 0
  BY <1>6
<1>9. UiTypeOK BY <1>6, <1>7, <1>8 DEF UiTypeOK
<1>10. IsWidget(1) BY <1>3, <1>5 DEF IsWidget
<1>11. ObjectsEnclosed BY <1>3, <1>5 DEF ObjectsEnclosed
<1>12. OpenRight(1)
  <2>1. stack[1] = 1 /\ 1..(1 - 1) = {} /\ (1 + 1)..1 = {} /\ 1..1 = {1} BY <1>6
  <2>2. Nearest(1, 1) BY <2>1, <1>10 DEF Nearest
  <2> QED BY <2>1, <2>2, <1>3, <1>5, <1>10 DEF OpenRight
<1>13. StackRight BY <1>5, <1>6, <1>8, <1>11, <1>12 DEF StackRight
<1>14. ItemsCounted BY <1>6, <1>8 DEF ItemsCounted
<1>15. NamesUnique BY <1>5 DEF NamesUnique
<1>16. DOMAIN suffixes = {} /\ DOMAIN attrs = {} /\ DOMAIN bgroups = {} /\ DOMAIN added = {}
       /\ DOMAIN actions = {}
  BY <1>6
<1>17. suffixes \in [DOMAIN suffixes -> Nat] BY <1>6, <1>16
<1>18. NamesKept BY <1>3, <1>5, <1>15, <1>16, <1>17 DEF NamesKept
<1>19. AttributesKept BY <1>5, <1>16 DEF AttributesKept
<1>20. PutOff BY <1>6, <1>8, <1>16 DEF PutOff
<1>21. Peek = 1 /\ DOMAIN stack = {1} BY <1>6 DEF Peek, Last
<1>22. CurrentWidget
  <2>1. \E i \in DOMAIN stack : /\ topwidget = stack[i] /\ IsWidget(stack[i])
                                /\ \A j \in DOMAIN stack : j > i => ~ IsWidget(stack[j])
    BY <1>6, <1>10, <1>21
  <2>2. \A p : ItemsOf(topwidget, p) = {} BY <1>6 DEF ItemsOf, ItemsIn
  <2>3. itemNr = Cardinality(ItemsOf(topwidget, OpenItem))
    BY <2>2, <1>6, FS_EmptySet
  <2> QED BY <2>1, <2>3 DEF CurrentWidget
<1>23. Placed BY <1>3, <1>5 DEF Placed
<1>24. ActionsResolved BY <1>6, <1>16 DEF ActionsResolved
<1>25. CurrentShown BY <1>6 DEF CurrentShown
<1> QED BY <1>9, <1>13, <1>14, <1>18, <1>19, <1>20, <1>22, <1>23, <1>24, <1>25, <1>15
     DEF UiIInv, TreeAsWritten

\* Every step of the parser keeps its invariant.
LEMMA UiInductive ==
    ASSUME UiIInv, NamesApart, "QMdiArea" \notin Classes \cup TopClasses, [UiNext]_uiVars
    PROVE  UiIInv'
<1>1. CASE UNCHANGED uiVars
  <2>1. UNCHANGED <<obj, stack, topwidget, suffixes, attrs, item, itemNr, itemstack, actions,
                    delayed, group, bgroups, added, shown, phase>>
    BY <1>1 DEF uiVars
  <2>2. UiTypeOK' BY <2>1 DEF UiIInv, UiTypeOK
  <2>3. UiTypeOK /\ StackRight /\ CurrentWidget /\ ItemsCounted /\ NamesKept /\ AttributesKept
    BY DEF UiIInv, TreeAsWritten
  <2>4. Len(obj) \in Nat /\ AreObjects(obj) BY <2>3, ObjectsNumbered DEF UiTypeOK
  <2>5. ObjectsStay BY <2>1, <2>4 DEF ObjectsStay, Same
  <2>6. Len(obj) >= 1 BY <2>3 DEF StackRight, ObjectsEnclosed
  <2>7. NamesKept' /\ AttributesKept' BY <2>1, <2>3, <2>4, <2>5, <2>6, NamesStay
  <2>8. ObjectsEnclosed' BY <2>3, <2>5, ObjectsStayEnclosed DEF StackRight
  <2>9. StackRight' BY <2>1, <2>3, <2>4, <2>5, <2>8, StackStays DEF ObjectsStay
  <2>10. CurrentWidget' /\ ItemsCounted' BY <2>1, <2>3, <2>4, NestingStays DEF Same
  <2>11. PutOff' BY <2>1 DEF UiIInv, PutOff
  <2>12. Placed' BY <2>1 DEF UiIInv, TreeAsWritten, Placed
  <2>13. ActionsResolved' BY <2>1 DEF UiIInv, TreeAsWritten, ActionsResolved
  <2>14. \A o : Pages(o)' = Pages(o) BY <2>1 DEF Pages
  <2>15. CurrentShown' BY <2>1, <2>14 DEF UiIInv, TreeAsWritten, CurrentShown
  <2> QED BY <2>2, <2>7, <2>9, <2>10, <2>11, <2>12, <2>13, <2>15, AllKept
<1>2. CASE \E class \in Classes, name \in Names \cup {NoName} :
             \E property \in PropertiesOf(class),
                sortingEnabled \in {FALSE} \cup (IF class \in ItemViews THEN BOOLEAN ELSE {}) :
               CreateWidget(class, name, property, sortingEnabled)
  BY <1>2, CreateWidgetKeeps
<1>3. CASE \E bgroup \in Groups \cup {NoName} : EndWidget(bgroup)
  BY <1>3, EndWidgetKeeps
<1>4. CASE \E class \in LayoutClasses : CreateLayout(class, NoName)
  BY <1>4, CreateLayoutKeeps
<1>5. CASE EndLayout BY <1>5, EndLayoutKeeps
<1>6. CASE CreateSpacer BY <1>6, CreateSpacerKeeps
<1>7. CASE AddItem \/ BeginTreeItem \/ EndTreeItem BY <1>7, ItemsKeep
<1>8. CASE \/ \E empty \in BOOLEAN : AddHeader(empty)
           \/ \E name \in Names \cup {<<"separator">>} : AddAction(name)
           \/ EndActionGroup
  BY <1>8, OthersKeep
<1>9. CASE \E name \in Names : CreateAction(name) BY <1>9, CreateActionKeeps
<1>10. CASE BeginActionGroup BY <1>10, BeginActionGroupKeeps
<1>11. CASE HandleWidget BY <1>11, HandleWidgetKeeps
<1> QED BY <1>1, <1>2, <1>3, <1>4, <1>5, <1>6, <1>7, <1>8, <1>9, <1>10, <1>11 DEF UiNext

\* Whatever the user interface, what is read belongs to the innermost widget
\* that is open, every object is placed once where the file has it, names are
\* unique, and actions and pages that are put off are found at the end.  The
\* names in the file have no suffix, and no area of MDI windows is in it.
THEOREM ObjectsAreAsWritten ==
    ASSUME NamesApart, "QMdiArea" \notin Classes \cup TopClasses
    PROVE  UiSpec => []TreeAsWritten
<1>1. UiInit => UiIInv BY UiBegins
<1>2. UiIInv /\ [UiNext]_uiVars => UiIInv' BY UiInductive
<1>3. UiIInv => TreeAsWritten BY DEF UiIInv
<1> QED BY <1>1, <1>2, <1>3, PTL DEF UiSpec

\* Induction up to a number, for sets: what holds of 0 and goes on from each
\* number to the next holds of all of them.
LEMMA CountedUp ==
    ASSUME NEW n \in Nat, NEW S, 0 \in S, \A i \in 0..(n - 1) : i \in S => i + 1 \in S
    PROVE  0..n \subseteq S
<1> DEFINE D == {x \in 0..n : 0..x \subseteq S}
           T == {x..n : x \in D}
           R == StrictSubsetOrdering(0..n)
<1>1. IsWellFoundedOn(R, FiniteSubsetsOf(0..n))
  BY FS_StrictSubsetOrderingWellFounded
<1>2. T \subseteq FiniteSubsetsOf(0..n)
  <2> SUFFICES ASSUME NEW x \in D PROVE x..n \in FiniteSubsetsOf(0..n)
    OBVIOUS
  <2>1. x \in Int /\ n \in Int /\ x..n \subseteq 0..n OBVIOUS
  <2>2. IsFiniteSet(x..n) BY <2>1, FS_Interval
  <2> QED BY <2>1, <2>2 DEF FiniteSubsetsOf
<1>3. T # {}
  <2>1. 0..0 = {0} OBVIOUS
  <2>2. 0 \in D BY <2>1
  <2> QED BY <2>2
<1>4. PICK t \in T : \A u \in T : <<u, t>> \notin R
  <2> HIDE DEF T, R
  <2> QED BY <1>1, <1>2, <1>3, WFMin
<1>5. PICK x \in D : t = x..n OBVIOUS
<1>6. CASE x = n BY <1>6
<1>7. CASE x # n
  <2>1. x \in 0..(n - 1) /\ x \in S BY <1>7
  <2>2. x + 1 \in S /\ 0..(x + 1) = (0..x) \cup {x + 1} BY <2>1
  <2>3. x + 1 \in D BY <2>1, <2>2
  <2>4. (x + 1)..n \subseteq x..n /\ (x + 1)..n \subseteq 0..n /\ x..n \subseteq 0..n OBVIOUS
  <2>5. x \in x..n /\ x \notin (x + 1)..n OBVIOUS
  <2>6. <<(x + 1)..n, x..n>> \in R BY <2>4, <2>5 DEF StrictSubsetOrdering
  <2> QED BY <2>3, <2>6, <1>4, <1>5
<1> QED BY <1>6, <1>7

\* The greatest number of a set has all the others before it.
LEMMA LastIsNth ==
    ASSUME NEW A, IsFiniteSet(A), A \subseteq Nat, NEW m \in A, \A j \in A : j <= m,
           NEW n \in Nat, Cardinality(A) = n + 1
    PROVE  (CHOOSE i \in A : Cardinality({j \in A : j < i}) = n) = m
<1> DEFINE Below(i) == {j \in A : j < i}
<1>1. Below(m) = A \ {m}
  <2>1. \A j \in A : j < m <=> j # m OBVIOUS
  <2> QED BY <2>1
<1>2. Cardinality(A \ {m}) = n
  <2>1. Cardinality(A \ {m}) = Cardinality(A) - 1 BY FS_RemoveElement
  <2> QED BY <2>1
<1>3. ASSUME NEW i \in A, i # m PROVE Cardinality(Below(i)) # n
  <2>1. Below(i) \subseteq A \ {m} /\ Below(i) # A \ {m} BY <1>3
  <2>2. IsFiniteSet(A \ {m}) BY FS_RemoveElement
  <2>3. Cardinality(Below(i)) <= Cardinality(A \ {m}) /\ (Cardinality(Below(i)) = Cardinality(A \ {m}) => Below(i) = A \ {m})
    <3> HIDE DEF Below
    <3> QED BY <2>1, <2>2, FS_Subset
  <2> QED BY <2>1, <2>3, <1>2
<1> HIDE DEF Below
<1>4. \A i \in A : Cardinality(Below(i)) = n <=> i = m BY <1>1, <1>2, <1>3
<1>5. (CHOOSE i \in A : Cardinality(Below(i)) = n) = m BY <1>4
<1> QED BY <1>5 DEF Below

\* The way through the tree, if each step of it is known.
LEMMA WayFound ==
    ASSUME NEW items, NEW w, NEW path, NEW n \in Nat, Len(path) = n,
           NEW on, on = [k \in 0..n |-> IF k = 0 THEN 0 ELSE path[k][1]],
           \A k \in 1..n : NthItem(items, w, on[k - 1], path[k][2]) = path[k][1]
    PROVE  ItemAt(items, w, path) = on[n]
<1> DEFINE Step(f) == [k \in 0..Len(path) |-> IF k = 0 THEN 0 ELSE NthItem(items, w, f[k - 1], path[k][2])]
<1>1. on = Step(on)
  <2>1. \A k \in 0..n : k # 0 => k \in 1..n OBVIOUS
  <2>2. \A k \in 0..n : Step(on)[k] = on[k] BY <2>1
  <2> QED BY <2>2
<1>2. PICK f : f = CHOOSE g : g = Step(g) OBVIOUS
<1>3. f = Step(f)
  <2> HIDE DEF Step
  <2> QED BY <1>1, <1>2
<1>4. 0..n \subseteq {k \in 0..n : f[k] = on[k]}
  <2> DEFINE S == {k \in 0..n : f[k] = on[k]}
  <2>1. 0 \in S BY <1>3
  <2>2. ASSUME NEW k \in 0..(n - 1), k \in S PROVE k + 1 \in S
    <3>1. k + 1 \in 1..n /\ k + 1 \in 0..n /\ k + 1 # 0 /\ (k + 1) - 1 = k OBVIOUS
    <3>2. f[k + 1] = NthItem(items, w, f[k], path[k + 1][2]) BY <3>1, <1>3
    <3>3. on[k + 1] = path[k + 1][1] BY <3>1
    <3> QED BY <3>1, <3>2, <3>3, <2>2
  <2> HIDE DEF S
  <2>3. 0..n \subseteq S BY <2>1, <2>2, CountedUp
  <2> QED BY <2>3 DEF S
<1>5. f[n] = on[n] BY <1>4
<1>6. ItemAt(items, w, path) = f[n] BY <1>2 DEF ItemAt
<1> QED BY <1>5, <1>6
\* A view of items holds nothing, so while it is open it is the top-most widget
\* and on top of the stack.
LEMMA OpenViewIsTop ==
    ASSUME UiTypeOK, StackRight, CurrentWidget, phase = "tree", NEW i \in 1..Len(stack),
           obj[stack[i]].class \in ItemViews \cup {"QComboBox"}
    PROVE  i = Len(stack) /\ stack[i] = topwidget /\ Peek = topwidget
<1>1. PICK n : n = Len(stack) OBVIOUS
<1>2. n \in Nat \ {0} /\ Peek = stack[n] /\ (IsWidget(Peek) \/ IsLayout(Peek))
  BY <1>1, SomethingOpen
<1>3. i = n
  <2>1. SUFFICES ASSUME i # n PROVE FALSE OBVIOUS
  <2>2. PICK j : j = i + 1 OBVIOUS
  <2>3. j \in 1..n /\ j # 1 /\ j - 1 = i /\ i \in 1..(j - 1) BY <1>1, <1>2, <2>1, <2>2
  <2>4. OpenRight(j) /\ OpenRight(i) BY <1>1, <2>3 DEF StackRight
  <2>5. PICK a : a = stack[j] OBVIOUS
  <2>6. PICK b : b = stack[i] OBVIOUS
  <2>7. /\ a \in 1..Len(obj) /\ b \in 1..Len(obj) /\ b < a /\ obj[a].inside = b
        /\ IsWidget(a) \/ IsLayout(a)
    BY <2>3, <2>4, <2>5, <2>6 DEF OpenRight
  <2>8. a \in 2..Len(obj)
    <3>1. Len(obj) \in Nat BY ObjectsNumbered DEF UiTypeOK
    <3> QED BY <2>7, <3>1
  <2>9. Fits(obj[a], obj[b]) BY <2>7, <2>8 DEF StackRight, ObjectsEnclosed, Enclosed
  <2>10. obj[a].class \in Classes \cup TopClasses \cup LayoutClasses
    BY <2>7 DEF IsWidget, IsLayout
  <2>11. obj[b].class \notin ItemViews \cup {"QComboBox"} BY <2>9, <2>10, HolderHasNoItems
  <2> QED BY <2>6, <2>11
<1>4. obj[Peek].class \notin LayoutClasses
  <2>1. obj[Peek].class \in ItemViews \cup {"QComboBox"} BY <1>2, <1>3
  <2> QED BY <2>1, ClassesAssumption
<1>5. IsWidget(Peek) BY <1>2, <1>4 DEF IsLayout
<1>6. Peek = topwidget BY <1>5, TopIsNearest
<1> QED BY <1>1, <1>2, <1>3, <1>6

\* Which items are inside of what when one more is made.
LEMMA ItemsInAdded ==
    ASSUME item \in Seq(ItemRecords), NEW its, NEW v, NEW p, ItemAdded(its, v, p), NEW u, NEW q
    PROVE  ItemsIn(its, u, q) = IF u = v /\ q = p THEN ItemsOf(u, q) \cup {Len(item) + 1}
                                                  ELSE ItemsOf(u, q)
<1>1. PICK S : S = ItemRecords OBVIOUS
<1>2. item \in Seq(S) /\ its \in Seq(S) BY <1>1 DEF ItemAdded
<1>3. DOMAIN item = 1..Len(item) /\ Len(item) \in Nat BY <1>2, LenProperties
<1>4. DOMAIN its = 1..Len(its) BY <1>2, LenProperties
<1>5. PICK n : n = Len(item) + 1 OBVIOUS
<1>6. DOMAIN its = (DOMAIN item) \cup {n} /\ n \notin DOMAIN item
  BY <1>3, <1>4, <1>5 DEF ItemAdded
<1>7. its[n].view = v /\ its[n].parent = p BY <1>5 DEF ItemAdded
<1>8. \A i \in DOMAIN item : its[i].view = item[i].view /\ its[i].parent = item[i].parent
  BY <1>3 DEF ItemAdded
<1>9. PICK B : B = ItemsOf(u, q) OBVIOUS
<1>10. B = {i \in DOMAIN item : item[i].view = u /\ item[i].parent = q}
  BY <1>9 DEF ItemsOf, ItemsIn
<1>11. PICK C : C = ItemsIn(its, u, q) OBVIOUS
<1>12. C = {i \in DOMAIN its : its[i].view = u /\ its[i].parent = q} BY <1>11 DEF ItemsIn
<1>13. C = IF u = v /\ q = p THEN B \cup {n} ELSE B
  BY <1>6, <1>7, <1>8, <1>10, <1>12
<1> QED BY <1>5, <1>9, <1>11, <1>13

\* The items inside of something are numbers up to that of the latest.
LEMMA ItemsAreNumbers ==
    ASSUME item \in Seq(ItemRecords), NEW v, NEW p
    PROVE  /\ Len(item) \in Nat /\ IsFiniteSet(ItemsOf(v, p))
           /\ ItemsOf(v, p) \subseteq 1..Len(item)
<1>1. PICK S : S = ItemRecords OBVIOUS
<1>2. item \in Seq(S) BY <1>1
<1>3. DOMAIN item = 1..Len(item) /\ Len(item) \in Nat BY <1>2, LenProperties
<1>4. ItemsOf(v, p) \subseteq 1..Len(item) BY <1>3 DEF ItemsOf, ItemsIn
<1>5. IsFiniteSet(1..Len(item)) BY <1>3, FS_Interval
<1>6. IsFiniteSet(ItemsOf(v, p)) BY <1>4, <1>5, FS_Subset
<1> QED BY <1>3, <1>4, <1>6

\* The item that is made is the one with the number of those before it.
LEMMA NewIsNth ==
    ASSUME item \in Seq(ItemRecords), NEW its, NEW v, NEW p, ItemAdded(its, v, p),
           NEW n \in Nat, Cardinality(ItemsOf(v, p)) = n
    PROVE  NthItem(its, v, p, n) = Len(item) + 1
<1>1. PICK A : A = ItemsOf(v, p) OBVIOUS
<1>2. Len(item) \in Nat /\ IsFiniteSet(A) /\ A \subseteq 1..Len(item)
  BY <1>1, ItemsAreNumbers
<1>3. PICK m : m = Len(item) + 1 OBVIOUS
<1>4. m \in Nat /\ m \notin A /\ \A j \in A : j <= m BY <1>2, <1>3
<1>5. PICK B : B = A \cup {m} OBVIOUS
<1>6. B = ItemsIn(its, v, p) BY <1>1, <1>3, <1>5, ItemsInAdded
<1>7. IsFiniteSet(B) BY <1>2, <1>5, FS_AddElement
<1>8. Cardinality(B) = n + 1 BY <1>1, <1>2, <1>4, <1>5, FS_AddElement
<1>9. B \subseteq Nat /\ m \in B /\ \A j \in B : j <= m BY <1>2, <1>4, <1>5
<1>10. (CHOOSE i \in B : Cardinality({j \in B : j < i}) = n) = m
  BY <1>7, <1>8, <1>9, LastIsNth
<1> QED BY <1>3, <1>6, <1>10 DEF NthItem

\* The text m is set on the m-th item, before or after it is added.
TextSet(its, with, t, m) == its = [with EXCEPT ![m].text = m] \/ (its = with /\ t = m)

\* Every text but the one that is set is right.
LEMMA NewTextSet ==
    ASSUME item \in Seq(ItemRecords), ItemTexts, NEW v \in Nat, NEW p \in Nat, NEW t \in Nat,
           NEW with, with = Append(item, NewItem(v, p, t)),
           NEW m, m = Len(item) + 1, TextSet(item', with, t, m)
    PROVE  ItemTexts'
<1>1. PICK S : S = ItemRecords OBVIOUS
<1>2. PICK r : r = NewItem(v, p, t) OBVIOUS
<1>3. r \in S /\ r.text = t BY <1>1, <1>2 DEF NewItem, ItemRecords
<1>4. item \in Seq(S) /\ with = Append(item, r) BY <1>1, <1>2
<1>5. with \in Seq(S) BY <1>3, <1>4, AppendProperties
<1>6. Len(with) = m BY <1>3, <1>4, AppendProperties
<1>7. \A i \in 1..Len(item) : with[i] = item[i] BY <1>3, <1>4, AppendProperties
<1>8. with[m] = r BY <1>3, <1>4, AppendProperties
<1>9. DOMAIN item = 1..Len(item) /\ Len(item) \in Nat BY <1>4, LenProperties
<1>10. DOMAIN with = 1..m BY <1>5, <1>6, LenProperties
<1>a. PICK its : its = item' OBVIOUS
<1>11. PICK x : x = [r EXCEPT !.text = m] OBVIOUS
<1>12. x.text = m
  <2>1. r = [view |-> v, parent |-> p, text |-> t] BY <1>2 DEF NewItem
  <2> QED BY <2>1, <1>11
<1>13. m \in 1..m /\ \A i \in 1..m : i # m => i \in 1..Len(item) BY <1>9
<1>14. CASE its = [with EXCEPT ![m].text = m]
  <2>1. its = [with EXCEPT ![m] = x] BY <1>8, <1>11, <1>14
  <2>2. DOMAIN its = 1..m BY <2>1, <1>10
  <2>3. its[m] = x BY <2>1, <1>10, <1>13
  <2>4. \A i \in 1..m : i # m => its[i] = item[i] BY <2>1, <1>7, <1>10, <1>13
  <2>5. \A i \in 1..m : its[i].text = i BY <2>3, <2>4, <1>9, <1>12, <1>13 DEF ItemTexts
  <2> QED BY <2>2, <2>5, <1>a DEF ItemTexts
<1>15. CASE its = with /\ t = m
  <2>1. \A i \in 1..m : its[i].text = i BY <1>3, <1>7, <1>8, <1>9, <1>13, <1>15 DEF ItemTexts
  <2> QED BY <2>1, <1>a, <1>10, <1>15 DEF ItemTexts
<1> QED BY <1>a, <1>14, <1>15 DEF TextSet

\* An item of a combo box, a list or a table gets its text.
LEMMA AddItemTexts ==
    ASSUME UiIInv, ItemTexts, AddItem
    PROVE  ItemTexts' /\ ItemAdded(item', topwidget, 0)
<1>1. UiTypeOK /\ StackRight /\ CurrentWidget /\ ItemsCounted BY DEF UiIInv, TreeAsWritten
<1>2. /\ phase = "tree" /\ itemstack = << >> /\ Peek = topwidget
      /\ obj[topwidget].class \in {"QComboBox", "QListWidget", "QTableWidget"}
  BY DEF AddItem, Element, InWidgetOrLayout
<1>3. Len(obj) \in Nat /\ topwidget \in 1..Len(obj) BY <1>1, <1>2, SomethingOpen, TopIsNearest
<1>4. item \in Seq(ItemRecords) /\ Len(item) \in Nat BY <1>1, OpenItemIsLast DEF UiTypeOK
<1>5. PICK v \in Nat : v = topwidget BY <1>3
<1>6. PICK p \in Nat : p = 0 OBVIOUS
<1>7. PICK m \in Nat : m = Len(item) + 1 BY <1>4
<1>8. PICK t \in Nat : t = IF obj[v].class = "QComboBox" THEN 0 ELSE m BY <1>7
<1>9. PICK with : with = Append(item, NewItem(v, p, t)) OBVIOUS
<1>10. PICK its : its = item' OBVIOUS
<1>11. with \in Seq(ItemRecords) => ItemsStay(with, with) BY DEF ItemsStay
<1>12. ItemAdded(with, v, p) BY <1>4, <1>9, <1>11, ItemMade
<1>13. PICK n : n = itemNr OBVIOUS
<1>14. Cardinality(ItemsOf(v, p)) = n /\ n \in Nat
  <2>1. OpenItem = p BY <1>2, <1>6 DEF OpenItem
  <2>2. obj[Peek].class \in ItemViews \cup {"QComboBox"} BY <1>2 DEF ItemViews
  <2>3. itemNr = Cardinality(ItemsOf(topwidget, OpenItem)) BY <2>2, <1>1, <1>2 DEF CurrentWidget
  <2> QED BY <2>1, <2>3, <1>1, <1>5, <1>13 DEF UiTypeOK
<1>15. NthItem(with, v, p, n) = m BY <1>4, <1>7, <1>12, <1>14, NewIsNth
<1>16. its = [with EXCEPT ![m].text = m] \/ (its = with /\ t = m)
  <2>1. CASE obj[v].class = "QComboBox"
    <3>1. its = [with EXCEPT ![NthItem(with, v, p, n)].text = m]
      BY <2>1, <1>5, <1>6, <1>7, <1>8, <1>9, <1>10, <1>13 DEF AddItem
    <3> QED BY <3>1, <1>15
  <2>2. CASE obj[v].class # "QComboBox"
    <3>1. its = with BY <2>2, <1>5, <1>6, <1>7, <1>8, <1>9, <1>10 DEF AddItem
    <3> QED BY <3>1, <2>2, <1>8
  <2> QED BY <2>1, <2>2
<1>a. TextSet(item', with, t, m) BY <1>10, <1>16 DEF TextSet
<1>17. ItemTexts' BY <1>a, <1>4, <1>7, <1>9, NewTextSet
<1>18. with \in Seq(ItemRecords) => ItemsStay(its, with)
  <2>1. CASE its = with BY <2>1 DEF ItemsStay
  <2>2. CASE its = [with EXCEPT ![m].text = m] BY <2>2, ItemTextSet
  <2> QED BY <2>1, <2>2, <1>16
<1>19. ItemAdded(its, v, p) BY <1>4, <1>9, <1>18, ItemMade
<1> QED BY <1>5, <1>6, <1>10, <1>17, <1>19

\* An item of a tree is found by the numbers of those that are open, since each
\* is the last one inside of what it is in.
LEMMA BeginTreeItemTexts ==
    ASSUME UiIInv, OpenItemsLast, ItemTexts, BeginTreeItem
    PROVE  ItemTexts' /\ OpenItemsLast' /\ ItemAdded(item', topwidget, OpenItem)
<1>1. UiTypeOK /\ StackRight /\ CurrentWidget /\ ItemsCounted BY DEF UiIInv, TreeAsWritten
<1>2. /\ phase = "tree" /\ Peek = topwidget /\ topwidget' = topwidget
      /\ obj[topwidget].class = "QTreeWidget"
  BY DEF BeginTreeItem, Element
<1>3. Len(obj) \in Nat /\ topwidget \in 1..Len(obj) BY <1>1, <1>2, SomethingOpen, TopIsNearest
<1>4. item \in Seq(ItemRecords) /\ itemNr \in Nat BY <1>1 DEF UiTypeOK
<1>5. /\ Len(item) \in Nat /\ Len(itemstack) \in Nat /\ OpenItem \in 0..Len(item)
      /\ OpenItem = Within(Len(itemstack) + 1)
      /\ \A i \in 1..Len(itemstack) : Within(i) < OpenItem /\ Within(i) \in Nat
  BY <1>1, OpenItemIsLast
<1>6. PICK v \in Nat : v = topwidget BY <1>3
<1>7. PICK p \in Nat : p = OpenItem BY <1>5
<1>8. PICK new \in Nat : new = Len(item) + 1 BY <1>5
<1>9. PICK t \in Nat : t = 0 OBVIOUS
<1>10. PICK with : with = Append(item, NewItem(v, p, t)) OBVIOUS
<1>11. PICK its : its = item' OBVIOUS
<1>12. PICK path : path = Append(itemstack, <<new, itemNr>>) OBVIOUS
<1>13. PICK n \in Nat : n = Len(itemstack) BY <1>5
<1>14. PICK x : x = ItemAt(with, v, path) OBVIOUS
<1>15. itemstack' = path /\ its = [with EXCEPT ![x].text = new]
  BY <1>6, <1>7, <1>8, <1>9, <1>10, <1>11, <1>12, <1>14 DEF BeginTreeItem, OpenItem
<1>16. with \in Seq(ItemRecords) => ItemsStay(with, with) BY DEF ItemsStay
<1>17. ItemAdded(with, v, p) BY <1>4, <1>10, <1>16, ItemMade
<1>18. with \in Seq(ItemRecords) => ItemsStay(its, with) BY <1>15, ItemTextSet
<1>19. ItemAdded(its, v, p) BY <1>4, <1>10, <1>18, ItemMade
<1>20. PICK T : T = Nat \X Nat OBVIOUS
<1>21. itemstack \in Seq(T) /\ <<new, itemNr>> \in T BY <1>1, <1>4, <1>20 DEF UiTypeOK
<1>22. Len(path) = n + 1 /\ path[n + 1] = <<new, itemNr>>
  BY <1>12, <1>13, <1>21, AppendProperties
<1>23. \A i \in 1..n : path[i] = itemstack[i] BY <1>12, <1>13, <1>21, AppendProperties
<1>24. \A i \in 1..n : itemstack[i] \in T BY <1>13, <1>21, ElementOfSeq
<1>25. PICK on : on = [k \in 0..(n + 1) |-> IF k = 0 THEN 0 ELSE path[k][1]] OBVIOUS
<1>26. \A k \in 1..(n + 1) : on[k - 1] = Within(k)
  <2> SUFFICES ASSUME NEW k \in 1..(n + 1) PROVE on[k - 1] = Within(k) OBVIOUS
  <2>1. CASE k = 1 BY <2>1, <1>25 DEF Within
  <2>2. CASE k # 1
    <3>1. k - 1 \in 1..n /\ k - 1 \in 0..(n + 1) /\ k - 1 # 0 BY <2>2
    <3> QED BY <3>1, <2>2, <1>23, <1>25 DEF Within
  <2> QED BY <2>1, <2>2
<1>27. itemNr = Cardinality(ItemsOf(v, p))
  <2>1. obj[Peek].class \in ItemViews \cup {"QComboBox"} BY <1>2 DEF ItemViews
  <2> QED BY <2>1, <1>1, <1>2, <1>6, <1>7 DEF CurrentWidget
<1>28. ASSUME NEW k \in 1..(n + 1)
       PROVE  NthItem(with, v, on[k - 1], path[k][2]) = path[k][1]
  <2>1. PICK q : q = Within(k) OBVIOUS
  <2>2. CASE k \in 1..n
    <3>1. q # p /\ q \in Nat BY <2>1, <2>2, <1>5, <1>7, <1>13
    <3>2. PICK A : A = ItemsOf(v, q) OBVIOUS
    <3>3. A = ItemsIn(with, v, q) BY <3>1, <3>2, <1>4, <1>17, ItemsInAdded
    <3>4. IsFiniteSet(A) /\ A \subseteq Nat
      <4>1. IsFiniteSet(A) /\ A \subseteq 1..Len(item) BY <3>2, <1>4, ItemsAreNumbers
      <4> QED BY <4>1
    <3>5. PICK m : m = itemstack[k][1] OBVIOUS
    <3>6. PICK c : c = itemstack[k][2] OBVIOUS
    <3>7. c \in Nat BY <3>6, <2>2, <1>20, <1>24
    <3>8. m \in A /\ \A j \in A : j <= m
      BY <2>1, <2>2, <3>2, <3>5, <1>6, <1>13 DEF OpenItemsLast
    <3>9. Cardinality(A) = c + 1
      BY <2>1, <2>2, <3>2, <3>6, <1>1, <1>6, <1>13 DEF ItemsCounted
    <3>10. (CHOOSE i \in A : Cardinality({j \in A : j < i}) = c) = m
      BY <3>4, <3>7, <3>8, <3>9, LastIsNth
    <3>11. NthItem(with, v, q, c) = m BY <3>3, <3>10 DEF NthItem
    <3>12. path[k][1] = m /\ path[k][2] = c BY <3>5, <3>6, <2>2, <1>23
    <3> QED BY <3>11, <3>12, <2>1, <1>26
  <2>3. CASE k \notin 1..n
    <3>1. k = n + 1 BY <2>3
    <3>2. q = p BY <3>1, <2>1, <1>5, <1>7, <1>13
    <3>3. path[k][1] = new /\ path[k][2] = itemNr BY <3>1, <1>22
    <3>4. NthItem(with, v, p, itemNr) = new BY <1>4, <1>8, <1>17, <1>27, NewIsNth
    <3> QED BY <3>2, <3>3, <3>4, <2>1, <1>26
  <2> QED BY <2>2, <2>3
<1>29. x = new
  <2>1. PICK l \in Nat : l = n + 1 OBVIOUS
  <2>2. Len(path) = l /\ on = [k \in 0..l |-> IF k = 0 THEN 0 ELSE path[k][1]]
    BY <2>1, <1>22, <1>25
  <2>4. \A k \in 1..l : NthItem(with, v, on[k - 1], path[k][2]) = path[k][1]
    BY <2>1, <1>28
  <2>5. ItemAt(with, v, path) = on[l] BY <2>2, <2>4, WayFound
  <2>3. on[l] = new BY <2>1, <1>22, <1>25
  <2> QED BY <2>3, <2>5, <1>14
<1>a. TextSet(item', with, t, new) BY <1>11, <1>15, <1>29 DEF TextSet
<1>30. ItemTexts' BY <1>a, <1>4, <1>8, <1>10, NewTextSet
<1>31. ASSUME NEW i \in 1..(n + 1)
       PROVE  /\ path[i][1] \in ItemsOf(topwidget, Within(i))'
              /\ \A j \in ItemsOf(topwidget, Within(i))' : j <= path[i][1]
  <2>1. Within(i)' = Within(i)
    <3>1. i # 1 => i - 1 \in 1..n OBVIOUS
    <3> QED BY <3>1, <1>15, <1>23 DEF Within
  <2>2. PICK q : q = Within(i) OBVIOUS
  <2>3. ItemsOf(topwidget, Within(i))' = ItemsIn(its, v, q)
    BY <2>1, <2>2, <1>2, <1>6, <1>11 DEF ItemsOf
  <2>4. PICK A : A = ItemsOf(v, q) OBVIOUS
  <2>5. A \subseteq 1..Len(item) BY <2>4, <1>4, ItemsAreNumbers
  <2>6. CASE i \in 1..n
    <3>1. q # p BY <2>2, <2>6, <1>5, <1>7, <1>13
    <3>2. ItemsIn(its, v, q) = A BY <3>1, <2>4, <1>4, <1>19, ItemsInAdded
    <3>3. itemstack[i][1] \in A /\ \A j \in A : j <= itemstack[i][1]
      BY <2>2, <2>4, <2>6, <1>6, <1>13 DEF OpenItemsLast
    <3> QED BY <3>2, <3>3, <2>3, <2>6, <1>23
  <2>7. CASE i \notin 1..n
    <3>1. i = n + 1 BY <2>7
    <3>2. q = p BY <3>1, <2>2, <1>5, <1>7, <1>13
    <3>3. ItemsIn(its, v, q) = A \cup {new}
      BY <3>2, <2>4, <1>4, <1>8, <1>19, ItemsInAdded
    <3>4. path[i][1] = new BY <3>1, <1>22
    <3>5. \A j \in A : j <= new BY <2>5, <1>5, <1>8
    <3> QED BY <3>3, <3>4, <3>5, <2>3
  <2> QED BY <2>6, <2>7
<1>32. OpenItemsLast'
  <2>1. itemstack' = path /\ Len(path) = n + 1 BY <1>15, <1>22
  <2> QED BY <2>1, <1>31 DEF OpenItemsLast
<1> QED BY <1>6, <1>7, <1>11, <1>19, <1>30, <1>32

\* Those below the item that ends stay open.
LEMMA EndTreeItemLast ==
    ASSUME UiTypeOK, OpenItemsLast, EndTreeItem
    PROVE  OpenItemsLast'
<1>1. itemstack # << >> /\ itemstack' = Front(itemstack) /\ UNCHANGED <<topwidget, item>>
  BY DEF EndTreeItem
<1>2. PICK T : T = Nat \X Nat OBVIOUS
<1>3. itemstack \in Seq(T) BY <1>2 DEF UiTypeOK
<1>4. PICK n : n = Len(itemstack) OBVIOUS
<1>5. PICK s : s = Front(itemstack) OBVIOUS
<1>6. n \in Nat \ {0} /\ Len(s) = n - 1 BY <1>1, <1>3, <1>4, <1>5, Shortened
<1>7. \A i \in 1..(n - 1) : s[i] = itemstack[i] BY <1>1, <1>3, <1>4, <1>5, Shortened
<1>8. \A i \in 1..(n - 1) : i \in 1..n /\ (i # 1 => i - 1 \in 1..(n - 1)) BY <1>6
<1>9. \A i \in 1..(n - 1) : Within(i)' = Within(i) BY <1>1, <1>5, <1>7, <1>8 DEF Within
<1>10. \A i \in 1..(n - 1) : ItemsOf(topwidget, Within(i))' = ItemsOf(topwidget, Within(i))
  BY <1>1, <1>9 DEF ItemsOf
<1>11. \A i \in 1..(n - 1) :
         /\ s[i][1] \in ItemsOf(topwidget, Within(i))'
         /\ \A j \in ItemsOf(topwidget, Within(i))' : j <= s[i][1]
  BY <1>4, <1>7, <1>8, <1>10 DEF OpenItemsLast
<1>12. itemstack' = s /\ Len(s) = n - 1 BY <1>1, <1>5, <1>6
<1> QED BY <1>11, <1>12 DEF OpenItemsLast

\* The parts that do not look at the stack but for its top-most widget stay, if
\* no view of items is made.
LEMMA ViewsStay ==
    ASSUME UiTypeOK, StackRight, CurrentWidget, SortingRemembered, HeadersCounted,
           phase = "tree", Len(obj') \in Nat, Len(obj') >= Len(obj),
           \A o \in 1..Len(obj) : Same(obj'[o], obj[o]),
           \A o \in 1..Len(obj') : o \notin 1..Len(obj) => obj'[o].class \notin ItemViews,
           UNCHANGED <<item, sorting, columns, sorted, headers>>,
           phase' # "tree" \/ topwidget' = topwidget
    PROVE  SortingRemembered' /\ HeadersCounted'
<1>1. Len(obj) \in Nat /\ topwidget \in 1..Len(obj) BY SomethingOpen, TopIsNearest
<1>2. \A o \in 1..Len(obj) :
        o \in 1..Len(obj') /\ obj'[o].class = obj[o].class /\ obj'[o].sorts = obj[o].sorts
  BY <1>1 DEF Same
<1>3. sorted' \subseteq 1..Len(obj') BY <1>2 DEF SortingRemembered
<1>4. \A h \in headers' : h.view \in 1..Len(obj') BY <1>2 DEF HeadersCounted
<1>5. CASE phase' # "tree"
  <2>1. SortingRemembered' BY <1>3, <1>5 DEF SortingRemembered
  <2> QED BY <2>1, <1>4, <1>5 DEF HeadersCounted
<1>6. CASE topwidget' = topwidget
  <2>1. PICK w : w = topwidget OBVIOUS
  <2>2. ItemsOf(w, 0)' = ItemsOf(w, 0) BY DEF ItemsOf
  <2>3. topwidget' = w /\ obj'[w].class = obj[w].class /\ obj'[w].sorts = obj[w].sorts
        /\ w \in 1..Len(obj)
    BY <2>1, <1>1, <1>2, <1>6
  <2>4. \A o \in 1..Len(obj') : obj'[o].class \in ItemViews =>
          o \in 1..Len(obj) /\ obj[o].class \in ItemViews
          /\ (ViewSorted(o)' <=> ViewSorted(o))
    BY <1>2 DEF ViewSorted
  <2>5. ViewSorted(w)' <=> ViewSorted(w) BY <2>3 DEF ViewSorted
  <2>6. ViewSorted(topwidget)' <=> ViewSorted(w)' BY <2>3 DEF ViewSorted
  <2>7. ItemsOf(topwidget, 0)' = ItemsOf(w, 0) BY <2>2, <2>3 DEF ItemsOf
  <2>8. \A o \in 1..Len(obj') :
          obj'[o].class \in ItemViews /\ o # topwidget' => ViewSorted(o)'
    BY <2>1, <2>3, <2>4 DEF SortingRemembered
  <2>9. IF obj'[topwidget'].class \notin ItemViews THEN sorting' = "None"
        ELSE IF ItemsOf(topwidget, 0)' = {} THEN sorting' = "None" /\ ViewSorted(topwidget)'
        ELSE topwidget' \notin sorted' /\ (sorting' = "on" <=> obj'[topwidget'].sorts)
    BY <2>1, <2>3, <2>5, <2>6, <2>7 DEF SortingRemembered
  <2>10. SortingRemembered' BY <1>3, <2>8, <2>9 DEF SortingRemembered
  <2>11. HeadersOf(topwidget)' = HeadersOf(topwidget) BY <1>6 DEF HeadersOf
  <2>12. obj'[topwidget'].class = obj[topwidget].class /\ phase = "tree" BY <2>1, <2>3
  <2>13. HeadersCounted' BY <1>4, <2>11, <2>12 DEF HeadersCounted
  <2> QED BY <2>10, <2>13
<1> QED BY <1>5, <1>6

\* Nothing happens to items, to views or to headers.
LEMMA NoItemTouched ==
    ASSUME ItemsIInv, UiIInv', phase = "tree",
           Len(obj') >= Len(obj), \A o \in 1..Len(obj) : Same(obj'[o], obj[o]),
           \A o \in 1..Len(obj') : o \notin 1..Len(obj) => obj'[o].class \notin ItemViews,
           UNCHANGED <<item, itemstack, sorting, columns, sorted, headers>>,
           topwidget' = topwidget \/ (phase' # "tree" /\ itemstack = << >>)
    PROVE  ItemsIInv'
<1>1. UiTypeOK /\ StackRight /\ CurrentWidget /\ SortingRemembered /\ HeadersCounted
  BY DEF ItemsIInv, UiIInv, TreeAsWritten
<1>2. Len(obj') \in Nat BY ObjectsNumbered DEF UiIInv, UiTypeOK
<1>3. SortingRemembered' /\ HeadersCounted' BY <1>1, <1>2, ViewsStay
<1>4. ItemTexts' /\ HeadersAligned' BY DEF ItemsIInv, ItemTexts, HeadersAligned
<1>5. OpenItemsLast'
  <2>1. CASE topwidget' = topwidget
    BY <2>1 DEF ItemsIInv, OpenItemsLast, ItemsOf, Within
  <2>2. CASE itemstack = << >>
    <3>1. Len(itemstack') = 0 BY <2>2
    <3> QED BY <3>1 DEF OpenItemsLast
  <2> QED BY <2>1, <2>2
<1> QED BY <1>3, <1>4, <1>5 DEF ItemsIInv

\* A widget begins: its items and columns are counted anew and it is sorted as
\* the file says.
LEMMA CreateWidgetItems ==
    ASSUME ItemsIInv, NEW class, NEW name, NEW property, NEW sorts \in BOOLEAN,
           class \notin ItemViews => ~ sorts, class \in Classes,
           CreateWidget(class, name, property, sorts), UiIInv'
    PROVE  ItemsIInv'
<1>1. UiTypeOK /\ StackRight /\ CurrentWidget /\ ItemsCounted
  BY DEF ItemsIInv, UiIInv, TreeAsWritten
<1>2. /\ phase = "tree" /\ MayHold(Peek, class)
      /\ SetupObject(class, NewParent, name, Peek, sorts)
      /\ topwidget' = Len(obj) + 1 /\ itemstack' = << >>
      /\ columns' = 0 /\ sorting' = "None"
      /\ sorted' = (IF sorts THEN sorted \cup {Len(obj) + 1} ELSE sorted)
      /\ UNCHANGED <<item, headers>>
  BY DEF CreateWidget, Element, ColumnsReset
<1>3. AreObjects(obj) /\ Len(obj) \in Nat BY <1>1, <1>2, SomethingOpen DEF UiTypeOK
<1>4. PICK w : w = Len(obj) + 1 OBVIOUS
<1>5. PICK r : obj' = Append(obj, r) /\ r.class = class /\ r.sorts = sorts
  BY <1>2 DEF SetupObject, Object
<1>6. /\ Len(obj') = w /\ obj'[w] = r
      /\ \A o \in 1..Len(obj) : obj'[o] = obj[o]
  <2>1. PICK S : S = Range(obj) OBVIOUS
  <2>2. obj \in Seq(S) BY <2>1, <1>3 DEF AreObjects
  <2>3. Len(obj') = Len(obj) + 1 BY <1>5, <2>2, Lengthened
  <2>4. obj'[Len(obj) + 1] = r BY <1>5, <2>2, Lengthened
  <2>5. \A o \in 1..Len(obj) : obj'[o] = obj[o] BY <1>5, <2>2, Lengthened
  <2> QED BY <2>3, <2>4, <2>5, <1>4
<1>7. w \in 1..w /\ w \notin 1..Len(obj) /\ \A o \in 1..w : o # w <=> o \in 1..Len(obj)
  BY <1>3, <1>4
<1>8. obj[topwidget].class \notin ItemViews
  <2>1. SUFFICES ASSUME obj[topwidget].class \in ItemViews PROVE FALSE OBVIOUS
  <2>2. PICK i \in 1..Len(stack) : topwidget = stack[i] BY <1>1, <1>2, TopIsNearest
  <2>3. Peek = topwidget BY <2>1, <2>2, <1>1, <1>2, OpenViewIsTop
  <2>4. obj[Peek].class \in ItemViews BY <2>1, <2>3
  <2>5. obj[Peek].class \notin LayoutClasses BY <2>4, ClassesAssumption
  <2>6. obj[Peek].class \in {"QWidget", "QMainWindow"} \cup Containers
    BY <2>5, <1>2 DEF MayHold, IsLayout
  <2> QED BY <2>4, <2>6 DEF ItemViews, Containers
<1>9. SortingRemembered /\ HeadersCounted BY DEF ItemsIInv
<1>10. \A o \in 1..Len(obj) : obj[o].class \in ItemViews => ViewSorted(o)
  BY <1>2, <1>8, <1>9 DEF SortingRemembered
<1>11. sorted \subseteq 1..Len(obj) /\ w \notin sorted BY <1>7, <1>9 DEF SortingRemembered
<1>12. \A o \in 1..Len(obj) : obj'[o].class \in ItemViews => ViewSorted(o)'
  <2> SUFFICES ASSUME NEW o \in 1..Len(obj), obj[o].class \in ItemViews PROVE ViewSorted(o)'
    BY <1>6
  <2>1. o \in sorted' <=> o \in sorted BY <1>2, <1>4, <1>7
  <2>2. obj'[o].sorts = obj[o].sorts BY <1>6
  <2> QED BY <2>1, <2>2, <1>10 DEF ViewSorted
<1>13. w \in sorted' <=> obj'[w].sorts
  <2>1. w \in sorted' <=> sorts BY <1>2, <1>4, <1>11
  <2> QED BY <2>1, <1>5, <1>6
<1>14. ItemsOf(w, 0)' = {}
  <2>1. \A q : ItemsOf(w, q)' = {} BY <1>1, <1>2, <1>7, NoItems
  <2> QED BY <2>1
<1>15. SortingRemembered'
  <2>1. sorted' \subseteq 1..Len(obj')
    <3>1. 1..Len(obj) \subseteq 1..w BY <1>7
    <3>2. sorted' \subseteq sorted \cup {w} BY <1>2, <1>4
    <3> QED BY <3>1, <3>2, <1>6, <1>7, <1>11
  <2>2. topwidget' = w BY <1>2, <1>4
  <2>3. ItemsOf(topwidget, 0)' = {} BY <2>2, <1>14 DEF ItemsOf
  <2>4. ViewSorted(topwidget)' BY <2>2, <1>13 DEF ViewSorted
  <2>5. \A o \in 1..Len(obj') :
          obj'[o].class \in ItemViews /\ o # topwidget' => ViewSorted(o)'
    BY <2>2, <1>6, <1>7, <1>12
  <2> QED BY <2>1, <2>3, <2>4, <2>5, <1>2 DEF SortingRemembered
<1>16. HeadersCounted'
  <2>1. HeadersOf(topwidget)' = {} BY <1>2, <1>4, <1>7, <1>9 DEF HeadersOf, HeadersCounted
  <2>2. Cardinality(HeadersOf(topwidget))' = 0 BY <2>1, FS_EmptySet
  <2>3. \A h \in headers' : h.view \in 1..Len(obj') BY <1>2, <1>6, <1>7, <1>9 DEF HeadersCounted
  <2> QED BY <2>1, <2>2, <2>3, <1>2, <1>9 DEF HeadersCounted
<1>17. ItemTexts' /\ HeadersAligned' BY <1>2 DEF ItemsIInv, ItemTexts, HeadersAligned
<1>18. OpenItemsLast'
  <2>1. Len(itemstack') = 0 BY <1>2
  <2> QED BY <2>1 DEF OpenItemsLast
<1> QED BY <1>15, <1>16, <1>17, <1>18 DEF ItemsIInv

\* A widget ends: it is sorted again, and the one around it is no view of items.
LEMMA EndWidgetItems ==
    ASSUME ItemsIInv, NEW bgroup, EndWidget(bgroup), UiIInv'
    PROVE  ItemsIInv'
<1>1. UiTypeOK /\ StackRight /\ CurrentWidget /\ ItemsCounted
  BY DEF ItemsIInv, UiIInv, TreeAsWritten
<1>2. PICK w : w = Peek OBVIOUS
<1>3. PICK p : p = Places(w, Front(stack), AfterPop(Front(stack))) OBVIOUS
<1>4. /\ phase = "tree" /\ phase' = phase /\ itemstack = << >> /\ Len(stack) > 1
      /\ ~ TopIsLayout /\ stack' = Front(stack)
      /\ ButtonGroup(w, bgroup, [obj EXCEPT ![w].places = p])
      /\ sorted' = (IF sorting = "on" THEN sorted \cup {w} ELSE sorted) /\ sorting' = "None"
      /\ UNCHANGED <<item, itemstack, columns, headers>>
  BY <1>2, <1>3 DEF EndWidget, InWidgetOrLayout, RestoreSorting
<1>5. /\ AreObjects(obj) /\ Len(obj) \in Nat /\ w \in 1..Len(obj)
      /\ IsWidget(w) /\ w = stack[Len(stack)] /\ Len(stack) \in Nat
  BY <1>1, <1>2, <1>4, SomethingOpen DEF UiTypeOK, TopIsLayout
<1>6. w = topwidget BY <1>1, <1>2, <1>4, <1>5, TopIsNearest
<1>7. PICK objs : objs = [obj EXCEPT ![w].places = p] OBVIOUS
<1>8. AreObjects(objs) /\ Len(objs) = Len(obj) /\ \A o \in 1..Len(obj) : Same(objs[o], obj[o])
  BY <1>5, <1>7, ObjectPlaced
<1>9. obj' = objs \/ \E r : obj' = Append(objs, r) /\ r.class = "QButtonGroup"
  BY <1>4, <1>7 DEF ButtonGroup, Object
<1>10. /\ Len(obj') \in Nat /\ Len(obj') >= Len(obj)
       /\ \A o \in 1..Len(obj) : o \in 1..Len(obj') /\ Same(obj'[o], obj[o])
       /\ \A o \in 1..Len(obj') : o \notin 1..Len(obj) => obj'[o].class \notin ItemViews
  <2>1. CASE obj' = objs BY <2>1, <1>5, <1>8
  <2>2. CASE \E r : obj' = Append(objs, r) /\ r.class = "QButtonGroup"
    <3>1. PICK r : obj' = Append(objs, r) /\ r.class = "QButtonGroup" BY <2>2
    <3>2. PICK S : S = Range(objs) OBVIOUS
    <3>3. objs \in Seq(S) BY <3>2, <1>8 DEF AreObjects
    <3>4. Len(obj') = Len(objs) + 1 BY <3>1, <3>3, Lengthened
    <3>5. obj'[Len(objs) + 1] = r BY <3>1, <3>3, Lengthened
    <3>6. \A o \in 1..Len(objs) : obj'[o] = objs[o] BY <3>1, <3>3, Lengthened
    <3>7. "QButtonGroup" \notin ItemViews BY DEF ItemViews
    <3>8. \A o \in 1..Len(obj') : o \notin 1..Len(obj) => o = Len(objs) + 1
      BY <3>4, <1>5, <1>8
    <3>9. \A o \in 1..Len(obj) : o \in 1..Len(obj') BY <3>4, <1>5, <1>8
    <3> QED BY <3>1, <3>4, <3>5, <3>6, <3>7, <3>8, <3>9, <1>5, <1>8
  <2> QED BY <2>1, <2>2, <1>9
<1>11. SortingRemembered /\ HeadersCounted BY DEF ItemsIInv
<1>12. topwidget' # w /\ topwidget' \in 1..Len(obj) /\ obj'[topwidget'].class \notin ItemViews
  <2>1. UiTypeOK' /\ StackRight' /\ CurrentWidget' BY DEF UiIInv, TreeAsWritten
  <2>2. phase' = "tree" BY <1>4
  <2>3. PICK n : n = Len(stack) - 1 OBVIOUS
  <2>4. PICK s : s = stack' OBVIOUS
  <2>5. Len(s) = n /\ \A i \in 1..n : s[i] = stack[i]
    <3>1. PICK S : S = Nat OBVIOUS
    <3>2. stack \in Seq(S) /\ stack # << >> BY <3>1, <1>1, <1>4, SomethingOpen DEF UiTypeOK
    <3>3. Len(Front(stack)) = Len(stack) - 1 BY <3>2, Shortened
    <3>4. \A i \in 1..(Len(stack) - 1) : Front(stack)[i] = stack[i] BY <3>2, Shortened
    <3> QED BY <3>3, <3>4, <2>3, <2>4, <1>4
  <2>6. \E i \in 1..Len(stack') : topwidget' = stack'[i]
    <3>1. PICK S : S = Nat OBVIOUS
    <3>2. s \in Seq(S) BY <3>1, <2>1, <2>4 DEF UiTypeOK
    <3>3. DOMAIN s = 1..Len(s) BY <3>2, LenProperties
    <3>4. \E i \in DOMAIN stack' : topwidget' = stack'[i] BY <2>1, <2>2 DEF CurrentWidget
    <3> QED BY <3>3, <3>4, <2>4
  <2>7. PICK i \in 1..n : topwidget' = stack[i] BY <2>4, <2>5, <2>6
  <2>8. PICK o : o = stack[i] OBVIOUS
  <2>9. i \in 1..Len(stack) /\ i # Len(stack) /\ i \in 1..(Len(stack) - 1)
        /\ Len(stack) \in 1..Len(stack)
    BY <2>3, <2>7, <1>5
  <2>10. o < w /\ o \in 1..Len(obj) BY <2>8, <2>9, <1>1, <1>5 DEF StackRight, OpenRight
  <2>11. obj[o].class \notin ItemViews BY <2>8, <2>9, <1>1, <1>4, OpenViewIsTop
  <2>12. obj'[o].class = obj[o].class BY <2>10, <1>10 DEF Same
  <2>13. o # w BY <2>10, <1>5
  <2> QED BY <2>7, <2>8, <2>10, <2>11, <2>12, <2>13
<1>13. sorted' \subseteq 1..Len(obj') BY <1>4, <1>5, <1>10, <1>11 DEF SortingRemembered
<1>14. obj[w].class \in ItemViews => (w \in sorted' <=> obj[w].sorts)
  <2> SUFFICES ASSUME obj[w].class \in ItemViews PROVE w \in sorted' <=> obj[w].sorts
    OBVIOUS
  <2>1. CASE ItemsOf(topwidget, 0) = {}
    <3>1. sorting = "None" /\ (w \in sorted <=> obj[w].sorts)
      BY <2>1, <1>4, <1>6, <1>11 DEF SortingRemembered, ViewSorted
    <3>2. sorted' = sorted BY <3>1, <1>4
    <3> QED BY <3>1, <3>2
  <2>2. CASE ItemsOf(topwidget, 0) # {}
    <3>1. w \notin sorted /\ (sorting = "on" <=> obj[w].sorts)
      BY <2>2, <1>4, <1>6, <1>11 DEF SortingRemembered
    <3> QED BY <3>1, <1>4
  <2> QED BY <2>1, <2>2
<1>15. \A o \in 1..Len(obj) : obj[o].class \in ItemViews => ViewSorted(o)'
  <2> SUFFICES ASSUME NEW o \in 1..Len(obj), obj[o].class \in ItemViews PROVE ViewSorted(o)'
    OBVIOUS
  <2>1. obj'[o].sorts = obj[o].sorts BY <1>10 DEF Same
  <2>2. CASE o = w BY <2>1, <2>2, <1>14 DEF ViewSorted
  <2>3. CASE o # w
    <3>1. ViewSorted(o) BY <2>3, <1>4, <1>6, <1>11 DEF SortingRemembered
    <3>2. o \in sorted' <=> o \in sorted BY <2>3, <1>4
    <3> QED BY <3>1, <3>2, <2>1 DEF ViewSorted
  <2> QED BY <2>2, <2>3
<1>16. \A o \in 1..Len(obj') : obj'[o].class \in ItemViews => ViewSorted(o)'
  BY <1>10, <1>15 DEF Same
<1>17. SortingRemembered' BY <1>4, <1>12, <1>13, <1>16 DEF SortingRemembered
<1>18. HeadersCounted'
  <2>1. \A h \in headers' : h.view \in 1..Len(obj') BY <1>4, <1>10, <1>11 DEF HeadersCounted
  <2>2. obj'[topwidget'].class \notin {"QTreeWidget", "QTableWidget"} BY <1>12 DEF ItemViews
  <2> QED BY <2>1, <2>2, <1>4, <1>11 DEF HeadersCounted
<1>19. ItemTexts' /\ HeadersAligned' BY <1>4 DEF ItemsIInv, ItemTexts, HeadersAligned
<1>20. OpenItemsLast'
  <2>1. Len(itemstack') = 0 BY <1>4
  <2> QED BY <2>1 DEF OpenItemsLast
<1> QED BY <1>17, <1>18, <1>19, <1>20 DEF ItemsIInv

\* An item is added to the view that is open: sorting is off from the first on.
LEMMA SortingDisabled ==
    ASSUME UiTypeOK, StackRight, CurrentWidget, SortingRemembered, phase = "tree", phase' = phase,
           UNCHANGED <<obj, topwidget>>, obj[topwidget].class \in ItemViews \cup {"QComboBox"},
           NEW p, OpenItem = p, ItemAdded(item', topwidget, p),
           obj[topwidget].class # "QTreeWidget" => p = 0,
           p # 0 => ItemsOf(topwidget, 0) # {},
           DisableSorting(itemNr = 0 /\ p = 0 /\ obj[topwidget].class # "QComboBox")
    PROVE  SortingRemembered'
<1>1. PICK w : w = topwidget OBVIOUS
<1>2. PICK m : m = Len(item) + 1 OBVIOUS
<1>3. item \in Seq(ItemRecords) BY DEF UiTypeOK
<1>4. PICK A : A = ItemsOf(w, 0) OBVIOUS
<1>5. PICK z : z = 0 OBVIOUS
<1>6. ItemsOf(w, z)' = IF z = p THEN ItemsOf(w, z) \cup {m} ELSE ItemsOf(w, z)
  BY <1>1, <1>2, <1>3, ItemsInAdded DEF ItemsOf
<1>7. ItemsOf(topwidget, 0)' # {}
  <2>1. ItemsOf(topwidget, 0)' = ItemsOf(w, z)' BY <1>1, <1>5 DEF ItemsOf
  <2> QED BY <2>1, <1>1, <1>5, <1>6
<1>8. itemNr = 0 /\ p = 0 <=> A = {}
  <2>1. IsFiniteSet(ItemsOf(w, p)) BY <1>3, ItemsAreNumbers
  <2>2. ItemsOf(w, p) = {} <=> Cardinality(ItemsOf(w, p)) = 0 BY <2>1, FS_EmptySet
  <2>3. itemNr = Cardinality(ItemsOf(w, p))
    <3>1. PICK i \in 1..Len(stack) : topwidget = stack[i] BY TopIsNearest
    <3>2. Peek = topwidget BY <3>1, OpenViewIsTop
    <3> QED BY <3>2, <1>1 DEF CurrentWidget
  <2> QED BY <2>2, <2>3, <1>1, <1>4
<1>9. topwidget \in 1..Len(obj) BY TopIsNearest
<1>10. sorted' \subseteq 1..Len(obj') BY DEF SortingRemembered, DisableSorting
<1>11. \A o \in 1..Len(obj) : o # w => (ViewSorted(o)' <=> ViewSorted(o))
  <2>1. \A o : o # w => (o \in sorted' <=> o \in sorted) BY <1>1 DEF DisableSorting
  <2> QED BY <2>1 DEF ViewSorted
<1>12. \A o \in 1..Len(obj') :
         obj'[o].class \in ItemViews /\ o # topwidget' => ViewSorted(o)'
  BY <1>1, <1>11 DEF SortingRemembered
<1>13. CASE obj[w].class = "QComboBox"
  <2>1. sorting' = sorting BY <1>1, <1>13 DEF DisableSorting
  <2>2. obj[w].class \notin ItemViews BY <1>13 DEF ItemViews
  <2>3. sorting = "None" BY <2>2, <1>1 DEF SortingRemembered
  <2> QED BY <2>1, <2>2, <2>3, <1>1, <1>10, <1>12 DEF SortingRemembered
<1>14. CASE obj[w].class # "QComboBox"
  <2>1. obj[w].class \in ItemViews BY <1>1, <1>14
  <2>2. w \notin sorted' /\ (sorting' = "on" <=> obj[w].sorts)
    <3>1. CASE A = {}
      <4>1. /\ sorting' = (IF w \in sorted THEN "on" ELSE "off")
            /\ sorted' = sorted \ {w}
        BY <3>1, <1>1, <1>8, <1>14 DEF DisableSorting
      <4>2. w \in sorted <=> obj[w].sorts
        BY <3>1, <2>1, <1>1, <1>4 DEF SortingRemembered, ViewSorted
      <4> QED BY <4>1, <4>2
    <3>2. CASE A # {}
      <4>1. sorting' = sorting /\ sorted' = sorted BY <3>2, <1>1, <1>8 DEF DisableSorting
      <4>2. w \notin sorted /\ (sorting = "on" <=> obj[w].sorts)
        BY <3>2, <2>1, <1>1, <1>4 DEF SortingRemembered
      <4> QED BY <4>1, <4>2
    <3> QED BY <3>1, <3>2
  <2> QED BY <2>1, <2>2, <1>1, <1>7, <1>10, <1>12 DEF SortingRemembered
<1> QED BY <1>1, <1>13, <1>14

\* Items are made, and those of trees end.
LEMMA ItemsKeepItems ==
    ASSUME ItemsIInv, AddItem \/ BeginTreeItem \/ EndTreeItem, UiIInv'
    PROVE  ItemsIInv'
<1>1. UiTypeOK /\ StackRight /\ CurrentWidget /\ ItemsCounted /\ UiIInv
  BY DEF ItemsIInv, UiIInv, TreeAsWritten
<1>2. SortingRemembered /\ HeadersCounted /\ ItemTexts /\ OpenItemsLast /\ HeadersAligned
  BY DEF ItemsIInv
<1>3. /\ phase = "tree" /\ phase' = phase
      /\ UNCHANGED <<obj, topwidget, columns, headers>>
  BY DEF AddItem, BeginTreeItem, EndTreeItem, Element
<1>4. HeadersCounted' /\ HeadersAligned'
  BY <1>2, <1>3 DEF HeadersCounted, HeadersOf, HeadersAligned
<1>5. CASE AddItem
  <2>1. /\ itemstack = << >> /\ itemstack' = << >>
        /\ obj[topwidget].class \in {"QComboBox", "QListWidget", "QTableWidget"}
        /\ DisableSorting(itemNr = 0 /\ obj[topwidget].class # "QComboBox")
    BY <1>5 DEF AddItem, InWidgetOrLayout
  <2>2. ItemTexts' /\ ItemAdded(item', topwidget, 0) BY <1>1, <1>2, <1>5, AddItemTexts
  <2>3. PICK p : p = 0 OBVIOUS
  <2>4. OpenItem = p BY <2>1, <2>3 DEF OpenItem
  <2>5. /\ obj[topwidget].class \in ItemViews \cup {"QComboBox"}
        /\ obj[topwidget].class # "QTreeWidget"
    BY <2>1 DEF ItemViews
  <2>6. DisableSorting(itemNr = 0 /\ p = 0 /\ obj[topwidget].class # "QComboBox")
    BY <2>1, <2>3 DEF DisableSorting
  <2>7. ItemAdded(item', topwidget, p) BY <2>2, <2>3
  <2>8. SortingRemembered'
    BY <2>3, <2>4, <2>5, <2>6, <2>7, <1>1, <1>2, <1>3, SortingDisabled
  <2>9. OpenItemsLast'
    <3>1. Len(itemstack') = 0 BY <2>1
    <3> QED BY <3>1 DEF OpenItemsLast
  <2> QED BY <2>2, <2>8, <2>9, <1>4 DEF ItemsIInv
<1>6. CASE BeginTreeItem
  <2>1. /\ obj[topwidget].class = "QTreeWidget"
        /\ DisableSorting(itemNr = 0 /\ itemstack = << >>)
    BY <1>6 DEF BeginTreeItem
  <2>2. ItemTexts' /\ OpenItemsLast' /\ ItemAdded(item', topwidget, OpenItem)
    BY <1>1, <1>2, <1>6, BeginTreeItemTexts
  <2>3. PICK p : p = OpenItem OBVIOUS
  <2>4. PICK n : n = Len(itemstack) OBVIOUS
  <2>5. n \in Nat /\ itemstack \in Seq(Nat \X Nat) /\ (itemstack # << >> => n \in Nat \ {0})
    <3>1. PICK T : T = Nat \X Nat OBVIOUS
    <3>2. itemstack \in Seq(T) BY <3>1, <1>1 DEF UiTypeOK
    <3>3. n \in Nat /\ (itemstack # << >> => n # 0) BY <3>2, <2>4, EmptySeq, LenProperties
    <3> QED BY <3>1, <3>2, <3>3
  <2>6. itemstack = << >> <=> p = 0
    <3>1. CASE itemstack = << >> BY <3>1, <2>3 DEF OpenItem
    <3>2. CASE itemstack # << >>
      <4>1. Within(1) = 0 /\ 1 \in 1..n BY <3>2, <2>5 DEF Within
      <4>2. Within(1) < OpenItem BY <4>1, <2>4, <1>1, OpenItemIsLast
      <4> QED BY <4>1, <4>2, <3>2, <2>3
    <3> QED BY <3>1, <3>2
  <2>7. p # 0 => ItemsOf(topwidget, 0) # {}
    <3> SUFFICES ASSUME p # 0 PROVE ItemsOf(topwidget, 0) # {} OBVIOUS
    <3>1. 1 \in 1..n BY <2>5, <2>6
    <3>2. itemstack[1][1] \in ItemsOf(topwidget, Within(1)) BY <3>1, <2>4, <1>2 DEF OpenItemsLast
    <3>3. Within(1) = 0 BY DEF Within
    <3> QED BY <3>2, <3>3
  <2>8. DisableSorting(itemNr = 0 /\ p = 0 /\ obj[topwidget].class # "QComboBox")
    BY <2>1, <2>6 DEF DisableSorting
  <2>9. obj[topwidget].class \in ItemViews \cup {"QComboBox"} BY <2>1 DEF ItemViews
  <2>10. ItemAdded(item', topwidget, p) BY <2>2, <2>3
  <2>11. SortingRemembered'
    BY <2>1, <2>3, <2>7, <2>8, <2>9, <2>10, <1>1, <1>2, <1>3, SortingDisabled
  <2> QED BY <2>2, <2>11, <1>4 DEF ItemsIInv
<1>7. CASE EndTreeItem
  <2>1. UNCHANGED <<item, sorting, sorted>> BY <1>7 DEF EndTreeItem
  <2>2. \A o \in 1..Len(obj') : o \notin 1..Len(obj) => obj'[o].class \notin ItemViews
    BY <1>3
  <2>3. Len(obj) \in Nat BY <1>1, <1>3, SomethingOpen
  <2>4. Len(obj') \in Nat /\ Len(obj') >= Len(obj) /\ \A o \in 1..Len(obj) : Same(obj'[o], obj[o])
    BY <2>3, <1>3 DEF Same
  <2>5. SortingRemembered' BY <2>1, <2>2, <2>4, <1>1, <1>2, <1>3, ViewsStay
  <2>6. OpenItemsLast' BY <1>1, <1>2, <1>7, EndTreeItemLast
  <2>7. ItemTexts' BY <2>1, <1>2 DEF ItemTexts
  <2> QED BY <2>5, <2>6, <2>7, <1>4 DEF ItemsIInv
<1> QED BY <1>5, <1>6, <1>7

\* A column has the number of those before it, if columns without properties do
\* not occur.
LEMMA AddHeaderItems ==
    ASSUME ItemsIInv, "emptyColumn" \notin Features, NEW empty, AddHeader(empty), UiIInv'
    PROVE  ItemsIInv'
<1>1. UiTypeOK /\ StackRight /\ CurrentWidget BY DEF ItemsIInv, UiIInv, TreeAsWritten
<1>2. SortingRemembered /\ HeadersCounted /\ ItemTexts /\ OpenItemsLast /\ HeadersAligned
  BY DEF ItemsIInv
<1>3. PICK w : w = topwidget OBVIOUS
<1>4. PICK nth : nth = Cardinality(HeadersOf(w)) OBVIOUS
<1>5. PICK h : h = [view |-> w, column |-> nth, at |-> columns] OBVIOUS
<1>6. /\ phase = "tree" /\ phase' = phase /\ ~ empty
      /\ obj[w].class \in {"QTreeWidget", "QTableWidget"}
      /\ UNCHANGED <<obj, topwidget, item, itemstack, sorting, sorted>>
  BY <1>3 DEF AddHeader, Element
<1>7. headers' = headers \cup {h} /\ columns' = columns + 1
  BY <1>3, <1>4, <1>5, <1>6 DEF AddHeader
<1>8. columns = nth BY <1>2, <1>3, <1>4, <1>6 DEF HeadersCounted
<1>9. h.view = w /\ h.column = nth /\ h.at = columns BY <1>5
<1>10. w \in 1..Len(obj) BY <1>1, <1>3, <1>6, TopIsNearest
<1>11. HeadersAligned' BY <1>2, <1>7, <1>8, <1>9 DEF HeadersAligned
<1>12. PICK H : H = HeadersOf(w) OBVIOUS
<1>13. H \subseteq headers BY <1>12 DEF HeadersOf
<1>14. IsFiniteSet(H) BY <1>2, <1>13, FS_Subset DEF HeadersCounted
<1>15. h \notin H
  <2>1. SUFFICES ASSUME h \in H PROVE FALSE OBVIOUS
  <2>2. h.column \in Nat /\ h.column < columns
    BY <2>1, <1>2, <1>3, <1>6, <1>12 DEF HeadersCounted
  <2> QED BY <2>2, <1>8, <1>9
<1>16. /\ IsFiniteSet(headers') /\ Cardinality(H \cup {h}) = Cardinality(H) + 1
       /\ Cardinality(H) \in Nat
  <2>1. IsFiniteSet(headers') BY <1>2, <1>7, FS_AddElement DEF HeadersCounted
  <2>2. Cardinality(H \cup {h}) = Cardinality(H) + 1 BY <1>14, <1>15, FS_AddElement
  <2>3. Cardinality(H) \in Nat BY <1>14, FS_CardinalityType
  <2> QED BY <2>1, <2>2, <2>3
<1>17. HeadersOf(topwidget)' = H \cup {h} BY <1>3, <1>6, <1>7, <1>9, <1>12 DEF HeadersOf
<1>18. HeadersCounted'
  <2>1. \A g \in headers' : g.view \in 1..Len(obj')
    BY <1>2, <1>6, <1>7, <1>9, <1>10 DEF HeadersCounted
  <2>2. columns' = Cardinality(HeadersOf(topwidget))' BY <1>4, <1>7, <1>8, <1>12, <1>16, <1>17
  <2>3. \A g \in H : g.column \in Nat /\ g.column < columns
    BY <1>2, <1>3, <1>6, <1>12 DEF HeadersCounted
  <2>4. columns \in Nat BY <1>4, <1>8, <1>12, <1>16
  <2>5. \A g \in HeadersOf(topwidget)' : g.column \in Nat /\ g.column < columns'
    BY <2>3, <2>4, <1>7, <1>8, <1>9, <1>17
  <2> QED BY <2>1, <2>2, <2>5, <1>16 DEF HeadersCounted
<1>19. SortingRemembered'
  BY <1>2, <1>6 DEF SortingRemembered, ViewSorted, ItemsOf
<1>20. OpenItemsLast' BY <1>2, <1>6 DEF OpenItemsLast, ItemsOf, Within
<1>21. ItemTexts' BY <1>2, <1>6 DEF ItemTexts
<1> QED BY <1>11, <1>18, <1>19, <1>20, <1>21 DEF ItemsIInv

\* Objects that are no widgets are made: layouts, spacers and actions.
LEMMA OthersMade ==
    ASSUME ItemsIInv, UiIInv', NEW r, obj' = Append(obj, r), r.class \notin ItemViews,
           phase = "tree", topwidget' = topwidget,
           UNCHANGED <<item, itemstack, sorting, columns, sorted, headers>>
    PROVE  ItemsIInv'
<1>1. PICK S : S = Range(obj) OBVIOUS
<1>2. obj \in Seq(S) BY <1>1 DEF ItemsIInv, UiIInv, UiTypeOK, AreObjects
<1>3. Len(obj') = Len(obj) + 1 BY <1>2, Lengthened
<1>4. obj'[Len(obj) + 1] = r BY <1>2, Lengthened
<1>5. \A o \in 1..Len(obj) : obj'[o] = obj[o] BY <1>2, Lengthened
<1>6. Len(obj) \in Nat BY <1>2, LenProperties
<1>7. Len(obj') >= Len(obj) BY <1>3, <1>6
<1>8. \A o \in 1..Len(obj') : o \notin 1..Len(obj) => o = Len(obj) + 1 BY <1>3, <1>6
<1>9. \A o \in 1..Len(obj') : o \notin 1..Len(obj) => obj'[o].class \notin ItemViews
  BY <1>4, <1>8
<1>10. \A o \in 1..Len(obj) : Same(obj'[o], obj[o]) BY <1>5 DEF Same
<1> QED BY <1>7, <1>9, <1>10, NoItemTouched

\* Every step keeps it.
LEMMA ItemsInductive ==
    ASSUME ItemsIInv, UiIInv', "emptyColumn" \notin Features, [UiNext]_uiVars
    PROVE  ItemsIInv'
<1>1. UiTypeOK /\ StackRight /\ CurrentWidget /\ UiIInv BY DEF ItemsIInv, UiIInv, TreeAsWritten
<1>2. LayoutClasses \cap ItemViews = {} BY ClassesAssumption
<1>3. {"QSpacerItem", "QAction", "QActionGroup"} \cap ItemViews = {} BY DEF ItemViews
<1>4. CASE UNCHANGED uiVars
  <2>1. UNCHANGED <<obj, topwidget, item, itemstack, sorting, columns, sorted, headers, phase>>
    BY <1>4 DEF uiVars
  <2>2. SortingRemembered' BY <2>1 DEF ItemsIInv, SortingRemembered, ViewSorted, ItemsOf
  <2>3. HeadersCounted' BY <2>1 DEF ItemsIInv, HeadersCounted, HeadersOf
  <2>4. OpenItemsLast' BY <2>1 DEF ItemsIInv, OpenItemsLast, ItemsOf, Within
  <2>5. ItemTexts' /\ HeadersAligned' BY <2>1 DEF ItemsIInv, ItemTexts, HeadersAligned
  <2> QED BY <2>2, <2>3, <2>4, <2>5 DEF ItemsIInv
<1>5. CASE \E class \in Classes, name \in Names \cup {NoName} :
             \E property \in PropertiesOf(class),
                sortingEnabled \in {FALSE} \cup (IF class \in ItemViews THEN BOOLEAN ELSE {}) :
               CreateWidget(class, name, property, sortingEnabled)
  <2>3. PICK class \in Classes, name \in Names \cup {NoName} :
             \E property \in PropertiesOf(class),
                sortingEnabled \in {FALSE} \cup (IF class \in ItemViews THEN BOOLEAN ELSE {}) :
               CreateWidget(class, name, property, sortingEnabled)
    BY <1>5
  <2>1. PICK property \in PropertiesOf(class),
             sorts \in {FALSE} \cup (IF class \in ItemViews THEN BOOLEAN ELSE {}) :
               CreateWidget(class, name, property, sorts)
    BY <2>3
  <2>2. sorts \in BOOLEAN /\ (class \notin ItemViews => ~ sorts)
    BY <2>1
  <2> QED BY <2>1, <2>2, CreateWidgetItems
<1>6. CASE \E bgroup \in Groups \cup {NoName} : EndWidget(bgroup)
  BY <1>6, EndWidgetItems
<1>7. CASE \E class \in LayoutClasses : CreateLayout(class, NoName)
  <2>1. PICK class \in LayoutClasses : CreateLayout(class, NoName) BY <1>7
  <2>2. /\ phase = "tree" /\ topwidget' = topwidget
        /\ UNCHANGED <<item, itemstack, sorting, columns, sorted, headers>>
        /\ SetupObject(class, IF TopIsLayout THEN 0 ELSE topwidget, NoName, Peek, FALSE)
    BY <2>1 DEF CreateLayout, Element, shared
  <2>3. PICK r : obj' = Append(obj, r) /\ r.class = class BY <2>2 DEF SetupObject, Object
  <2>4. r.class \notin ItemViews BY <2>3, <1>2
  <2> QED BY <2>2, <2>3, <2>4, OthersMade
<1>8. CASE EndLayout
  <2>1. PICK w : w = Peek OBVIOUS
  <2>2. /\ phase = "tree" /\ topwidget' = topwidget
        /\ UNCHANGED <<item, itemstack, sorting, columns, sorted, headers>>
        /\ obj' = obj \/ \E p : obj' = [obj EXCEPT ![w].places = p]
    BY <2>1, <1>8 DEF EndLayout, shared
  <2>3. AreObjects(obj) /\ w \in 1..Len(obj) /\ Len(obj) \in Nat
    BY <2>1, <2>2, <1>1, SomethingOpen DEF UiTypeOK
  <2>4. Len(obj') = Len(obj) /\ \A o \in 1..Len(obj) : Same(obj'[o], obj[o])
    <3>1. CASE obj' = obj BY <3>1 DEF Same
    <3>2. CASE \E p : obj' = [obj EXCEPT ![w].places = p]
      <4>1. PICK p : obj' = [obj EXCEPT ![w].places = p] BY <3>2
      <4> QED BY <4>1, <2>3, ObjectPlaced
    <3> QED BY <3>1, <3>2, <2>2
  <2>5. Len(obj') >= Len(obj) BY <2>3, <2>4
  <2>6. \A o \in 1..Len(obj') : o \notin 1..Len(obj) => obj'[o].class \notin ItemViews
    BY <2>4
  <2> QED BY <2>2, <2>4, <2>5, <2>6, NoItemTouched
<1>9. CASE CreateSpacer
  <2>1. /\ phase = "tree" /\ topwidget' = topwidget
        /\ UNCHANGED <<item, itemstack, sorting, columns, sorted, headers>>
    BY <1>9 DEF CreateSpacer, Element, shared
  <2>2. PICK r : obj' = Append(obj, r) /\ r.class = "QSpacerItem"
    <3>1. PICK n : n = UniqueName(<<"spacerItem">>).name OBVIOUS
    <3>2. PICK s : s = Object("QSpacerItem", 0, n, Peek, FALSE) OBVIOUS
    <3>3. PICK r : r = [s EXCEPT !.places = <<[in |-> Peek, how |-> "layout"]>>] OBVIOUS
    <3>4. r.class = "QSpacerItem" BY <3>2, <3>3 DEF Object
    <3>5. obj' = Append(obj, r) BY <3>1, <3>2, <3>3, <1>9 DEF CreateSpacer
    <3> QED BY <3>4, <3>5
  <2>3. r.class \notin ItemViews BY <2>2, <1>3
  <2> QED BY <2>1, <2>2, <2>3, OthersMade
<1>10. CASE AddItem \/ BeginTreeItem \/ EndTreeItem BY <1>10, ItemsKeepItems
<1>11. CASE \E empty \in BOOLEAN : AddHeader(empty) BY <1>11, AddHeaderItems
<1>12. CASE (\E name \in Names : CreateAction(name)) \/ BeginActionGroup
  <2>1. /\ phase = "tree" /\ topwidget' = topwidget
        /\ UNCHANGED <<item, itemstack, sorting, columns, sorted, headers>>
    BY <1>12 DEF CreateAction, BeginActionGroup, Element, shared
  <2>2. PICK r : obj' = Append(obj, r) /\ r.class \in {"QAction", "QActionGroup"}
    <3>1. CASE \E name \in Names : CreateAction(name)
      <4>1. PICK name \in Names : CreateAction(name) BY <3>1
      <4>2. PICK parent : SetupObject("QAction", parent, name, parent, FALSE)
        BY <4>1 DEF CreateAction
      <4> QED BY <4>2 DEF SetupObject, Object
    <3>2. CASE BeginActionGroup BY <3>2 DEF BeginActionGroup, SetupObject, Object
    <3> QED BY <3>1, <3>2, <1>12
  <2>3. r.class \notin ItemViews BY <2>2, <1>3
  <2> QED BY <2>1, <2>2, <2>3, OthersMade
<1>13. CASE \/ EndActionGroup
            \/ \E name \in Names \cup {<<"separator">>} : AddAction(name)
            \/ HandleWidget
  <2>1. phase = "tree"
    BY <1>1, <1>13 DEF EndActionGroup, AddAction, HandleWidget, Element, UiIInv, PutOff
  <2>2. /\ obj' = obj
        /\ UNCHANGED <<item, itemstack, sorting, columns, sorted, headers>>
        /\ topwidget' = topwidget \/ (phase' # "tree" /\ itemstack = << >>)
    BY <1>13 DEF EndActionGroup, AddAction, HandleWidget, Element, InWidgetOrLayout, shared
  <2>3. Len(obj) \in Nat BY <2>1, <1>1, SomethingOpen
  <2>4. Len(obj') >= Len(obj) /\ \A o \in 1..Len(obj) : Same(obj'[o], obj[o])
    BY <2>2, <2>3 DEF Same
  <2>5. \A o \in 1..Len(obj') : o \notin 1..Len(obj) => obj'[o].class \notin ItemViews
    BY <2>2
  <2> QED BY <2>1, <2>2, <2>4, <2>5, NoItemTouched
<1> QED BY <1>4, <1>5, <1>6, <1>7, <1>8, <1>9, <1>10, <1>11, <1>12, <1>13 DEF UiNext

\* A view that is open has no items when sorting is on, as no other is open.
LEMMA SortingIsKept == ASSUME ItemsIInv PROVE SortingKept
<1> SUFFICES ASSUME phase = "tree", NEW o \in DOMAIN obj, obj[o].class \in ItemViews
             PROVE  IF o \in Range(stack) THEN ItemsOf(o, 0) # {} => o \notin sorted
                                          ELSE o \in sorted <=> obj[o].sorts
  BY DEF SortingKept
<1>1. UiTypeOK /\ StackRight /\ CurrentWidget /\ SortingRemembered
  BY DEF ItemsIInv, UiIInv, TreeAsWritten
<1>2. DOMAIN obj = 1..Len(obj)
  <2>1. PICK S : S = Range(obj) OBVIOUS
  <2>2. obj \in Seq(S) BY <2>1, <1>1 DEF UiTypeOK, AreObjects
  <2> QED BY <2>2, LenProperties
<1>3. DOMAIN stack = 1..Len(stack) BY <1>1, SomethingOpen
<1>4. CASE o \in Range(stack)
  <2>1. PICK i \in 1..Len(stack) : o = stack[i] BY <1>3, <1>4 DEF Range
  <2>2. o = topwidget BY <2>1, <1>1, OpenViewIsTop
  <2>3. ItemsOf(o, 0) # {} => o \notin sorted BY <2>2, <1>1 DEF SortingRemembered
  <2> QED BY <2>3, <1>4
<1>5. CASE o \notin Range(stack)
  <2>1. PICK i \in 1..Len(stack) : topwidget = stack[i] BY <1>1, TopIsNearest
  <2>2. topwidget \in Range(stack) BY <2>1, <1>3 DEF Range
  <2>3. ViewSorted(o) BY <2>2, <1>1, <1>2, <1>5 DEF SortingRemembered
  <2> QED BY <2>3, <1>5 DEF ViewSorted
<1> QED BY <1>4, <1>5

\* Nothing has been made when the top-level widget begins.
LEMMA ItemsBegin == ASSUME NamesApart, UiInit PROVE ItemsIInv
<1>1. UiIInv BY UiBegins
<1>3. /\ topwidget = 1 /\ itemstack = << >> /\ item = << >> /\ sorting = "None"
      /\ columns = 0 /\ sorted = {} /\ headers = {} /\ phase = "tree"
  BY DEF UiInit
<1>5. PICK r : obj = <<r>> /\ ~ r.sorts BY DEF UiInit, Object
<1>6. Len(obj) = 1 /\ obj[1] = r /\ 1..1 = {1} BY <1>5
<1>7. ItemsOf(topwidget, 0) = {} BY <1>3 DEF ItemsOf, ItemsIn
<1>8. SortingRemembered BY <1>3, <1>5, <1>6, <1>7 DEF SortingRemembered, ViewSorted
<1>9. HeadersOf(topwidget) = {} BY <1>3 DEF HeadersOf
<1>10. HeadersCounted BY <1>3, <1>9, FS_EmptySet DEF HeadersCounted
<1>11. Len(itemstack) = 0 BY <1>3
<1>12. OpenItemsLast BY <1>11 DEF OpenItemsLast
<1>13. ItemTexts /\ HeadersAligned BY <1>3 DEF ItemTexts, HeadersAligned
<1> QED BY <1>1, <1>8, <1>10, <1>12, <1>13 DEF ItemsIInv

\* Whatever the items of combo boxes, lists, tables and trees, and however deep
\* these are, each text is set on the item that it is of, views are sorted again
\* if the file says so but not while their items are made, and each column has
\* its own header, unless a column of a table has no properties.
THEOREM ItemsAreAsWritten ==
    ASSUME NamesApart, "QMdiArea" \notin Classes \cup TopClasses, "emptyColumn" \notin Features
    PROVE  UiSpec => []ItemsAsWritten
<1>1. UiInit => ItemsIInv BY ItemsBegin
<1>2. ItemsIInv /\ [UiNext]_uiVars => ItemsIInv'
  <2> SUFFICES ASSUME ItemsIInv, [UiNext]_uiVars PROVE ItemsIInv' OBVIOUS
  <2>1. UiIInv' BY UiInductive DEF ItemsIInv
  <2> QED BY <2>1, ItemsInductive
<1>3. ItemsIInv => ItemsAsWritten BY SortingIsKept DEF ItemsIInv, ItemsAsWritten
<1> QED BY <1>1, <1>2, <1>3, PTL DEF UiSpec

-----------------------------------------------------------------------------
(* UiObjects.                                                              *)

\* What is assumed of the bounds.
LEMMA ObjBounds == MaxTries \in Nat \ {0} /\ MaxWidgets \in Nat
BY ObjAssumption, Zenon

\* A custom widget is found by its class.
LEMMA FoundByClass ==
    ASSUME NEW ws, Len(ws) \in Nat, NEW class
    PROVE  \/ /\ Custom(ws, class) = 0
              /\ \A i \in 1..Len(ws) : ws[i].class # class
           \/ /\ Custom(ws, class) \in 1..Len(ws) /\ Custom(ws, class) # 0
              /\ ws[Custom(ws, class)].class = class
<1> DEFINE I == {i \in 1..Len(ws) : ws[i].class = class}
<1>1. Custom(ws, class) = IF I # {} THEN Min(I) ELSE 0 BY DEF Custom, SelectInSeq
<1>2. CASE I = {} BY <1>1, <1>2
<1>3. CASE I # {}
  <2>1. I \in SUBSET (0..Len(ws)) OBVIOUS
  <2>2. Min(I) \in I
    <3> HIDE DEF I
    <3> QED BY <2>1, <1>3, FirstPlace
  <2> QED BY <1>1, <1>3, <2>2
<1> QED BY <1>2, <1>3

\* The first class that is tried is the one that is asked for, and each of the
\* others the base of the one before.
LEMMA TriedInTurn ==
    ASSUME NEW ws, NEW class
    PROVE  /\ Tried(ws, class)[0] = class
           /\ \A n \in 1..(MaxTries - 1) :
                Tried(ws, class)[n] = BaseOf(ws, Tried(ws, class)[n - 1])
<1> DEFINE Op(x) == BaseOf(ws, x)
           Step(h, k) == [n \in 0..k |-> IF n = 0 THEN class ELSE BaseOf(ws, h[n - 1])]
<1>1. PICK len : len = MaxTries - 1 OBVIOUS
<1>2. len \in Nat BY <1>1, ObjBounds
<1>4. \E f : f = Step(f, len)
  <2> DEFINE Q == {k \in 0..len : \E f : f = Step(f, k)}
  <2>1. \A h, k : Step(h, k) = [n \in 0..k |-> IF n = 0 THEN class ELSE Op(h[n - 1])]
    OBVIOUS
  <2> HIDE DEF Step, Op
  <2>2. 0 \in Q
    <3>1. PICK f : f = [n \in 0..0 |-> class] OBVIOUS
    <3>2. \A n \in 0..0 : n = 0 OBVIOUS
    <3>3. f = [n \in 0..0 |-> IF n = 0 THEN class ELSE Op(f[n - 1])] BY <3>1, <3>2
    <3>4. 0 \in 0..len BY <1>2
    <3> QED BY <3>3, <3>4, <2>1
  <2>3. ASSUME NEW k \in 0..(len - 1), k \in Q PROVE k + 1 \in Q
    <3>1. PICK f : f = Step(f, k) BY <2>3
    <3>2. DOMAIN f = 0..k /\ \A n \in 0..k : f[n] = IF n = 0 THEN class ELSE Op(f[n - 1])
      BY <3>1, <2>1
    <3>3. PICK g : g = [n \in 0..(k + 1) |-> IF n = k + 1 THEN Op(f[k]) ELSE f[n]]
      OBVIOUS
    <3>4. k \in Nat /\ k + 1 # 0 /\ k + 1 \in 0..len /\ (k + 1) - 1 = k BY <1>2
    <3>5. \A n \in 0..k : g[n] = f[n] BY <3>3, <3>4
    <3>6. ASSUME NEW n \in 0..(k + 1)
          PROVE  g[n] = IF n = 0 THEN class ELSE Op(g[n - 1])
      <4>1. CASE n = k + 1
        <5>1. k \in 0..k /\ g[k] = f[k] BY <3>4, <3>5
        <5>2. g[n] = Op(f[k]) BY <4>1, <3>3
        <5> QED BY <4>1, <5>1, <5>2, <3>4
      <4>2. CASE n # k + 1
        <5>1. n \in 0..k BY <4>2, <3>4
        <5>2. n # 0 => n - 1 \in 0..k /\ g[n - 1] = f[n - 1] BY <5>1, <3>4, <3>5
        <5> QED BY <5>1, <5>2, <3>2, <3>5
      <4> QED BY <4>1, <4>2
    <3>7. g = [n \in 0..(k + 1) |-> g[n]] BY <3>3
    <3>8. g = [n \in 0..(k + 1) |-> IF n = 0 THEN class ELSE Op(g[n - 1])] BY <3>6, <3>7
    <3> QED BY <3>4, <3>8, <2>1
  <2>4. 0..len \subseteq Q
    <3> HIDE DEF Q
    <3> QED BY <1>2, <2>2, <2>3, CountedUp
  <2>5. len \in 0..len BY <1>2
  <2> QED BY <2>4, <2>5
<1>5. PICK g : g = CHOOSE h : h = Step(h, len) OBVIOUS
<1>6. Tried(ws, class) = g BY <1>1, <1>5 DEF Tried
<1>7. g = Step(g, len)
  <2> HIDE DEF Step
  <2> QED BY <1>4, <1>5
<1>8. 0 \in 0..len /\ \A n \in 1..len : n \in 0..len /\ n # 0 BY <1>2
<1> QED BY <1>1, <1>6, <1>7, <1>8

\* Each class has been declared once.
DeclaredOnce ==
    /\ customWidgets \in Seq(Widget) /\ Len(customWidgets) <= MaxWidgets
    /\ \A i, j \in 1..Len(customWidgets) :
         customWidgets[i].class = customWidgets[j].class => i = j

\* What is known of a class that goes up from another in steps.
StepsUp(p) ==
    /\ p \in [0..MaxTries -> CustomClasses \cup QtClasses]
    /\ \A n \in 0..(MaxTries - 1) : p[n + 1] = BaseOf(customWidgets, p[n])

\* One step up from a class.
LEMMA OneUp ==
    ASSUME DeclaredOnce, NEW c \in CustomClasses \cup QtClasses
    PROVE  /\ BaseOf(customWidgets, c) \in CustomClasses \cup QtClasses
           /\ c \in QtClasses => BaseOf(customWidgets, c) = c
           /\ Custom(customWidgets, c) = 0 => BaseOf(customWidgets, c) = c
           /\ \A i \in 1..Len(customWidgets) :
                customWidgets[i].class = c =>
                  /\ c \notin QtClasses /\ Custom(customWidgets, c) = i
                  /\ BaseOf(customWidgets, c) = customWidgets[i].base
<1>1. customWidgets \in Seq(Widget) /\ Len(customWidgets) \in Nat
  BY LenProperties DEF DeclaredOnce
<1>2. \A i \in 1..Len(customWidgets) : customWidgets[i] \in Widget
  BY <1>1, ElementOfSeq
<1>3. \A i \in 1..Len(customWidgets) :
        /\ customWidgets[i].base \in CustomClasses \cup QtClasses
        /\ customWidgets[i].class \in CustomClasses /\ customWidgets[i].class \notin QtClasses
  BY <1>2, ObjAssumption DEF Widget
<1>4. \/ /\ Custom(customWidgets, c) = 0
         /\ \A i \in 1..Len(customWidgets) : customWidgets[i].class # c
      \/ /\ Custom(customWidgets, c) \in 1..Len(customWidgets) /\ Custom(customWidgets, c) # 0
         /\ customWidgets[Custom(customWidgets, c)].class = c
  BY <1>1, FoundByClass
<1> QED BY <1>3, <1>4 DEF BaseOf, DeclaredOnce

\* What goes up from a class that does not change, does not change either.
LEMMA StaysUp ==
    ASSUME NEW p, StepsUp(p), NEW n \in 0..MaxTries, BaseOf(customWidgets, p[n]) = p[n]
    PROVE  p[MaxTries] = p[n]
<1> DEFINE m == MaxTries - n
           S == {x \in 0..m : p[n + x] = p[n]}
<1>1. m \in Nat /\ MaxTries \in Nat /\ n \in Nat /\ n + m = MaxTries BY ObjBounds
<1>2. 0 \in S BY <1>1
<1>3. ASSUME NEW x \in 0..(m - 1), x \in S PROVE x + 1 \in S
  <2>1. n + x \in 0..(MaxTries - 1) /\ n + (x + 1) = (n + x) + 1 /\ x + 1 \in 0..m BY <1>1
  <2>2. p[(n + x) + 1] = BaseOf(customWidgets, p[n + x]) BY <2>1 DEF StepsUp
  <2>3. p[n + x] = p[n] BY <1>3
  <2> QED BY <2>1, <2>2, <2>3
<1>4. 0..m \subseteq S
  <2> HIDE DEF S, m
  <2> QED BY <1>1, <1>2, <1>3, CountedUp
<1>5. m \in S BY <1>1, <1>4
<1> QED BY <1>1, <1>5

\* With no more custom widgets than tries, the steps up from a class have been to
\* every class that can be reached in them.
LEMMA NothingAbove ==
    ASSUME DeclaredOnce, MaxWidgets <= MaxTries, NEW p, StepsUp(p)
    PROVE  ClosedUp({p[n] : n \in 0..MaxTries})
<1> DEFINE S == {p[n] : n \in 0..MaxTries}
           B(x) == BaseOf(customWidgets, x)
           C(n) == Custom(customWidgets, p[n])
<1>1. /\ MaxTries \in Nat /\ MaxTries - 1 \in Nat /\ MaxWidgets \in Nat
      /\ Len(customWidgets) \in Nat /\ DOMAIN customWidgets = 1..Len(customWidgets)
      /\ Len(customWidgets) <= MaxTries
  BY ObjBounds, LenProperties DEF DeclaredOnce
<1>2. \A n \in 0..MaxTries : p[n] \in CustomClasses \cup QtClasses BY DEF StepsUp
<1>3. ASSUME NEW i \in DOMAIN customWidgets, customWidgets[i].class \in S
      PROVE  customWidgets[i].base \in S
  <2>1. PICK n \in 0..MaxTries : customWidgets[i].class = p[n] BY <1>3
  <2>2. p[n] \notin QtClasses /\ C(n) = i /\ B(p[n]) = customWidgets[i].base
    BY <1>1, <1>2, <2>1, OneUp
  <2>3. CASE n # MaxTries
    <3>1. n \in 0..(MaxTries - 1) /\ n + 1 \in 0..MaxTries BY <1>1, <2>3
    <3>2. p[n + 1] = B(p[n]) BY <3>1 DEF StepsUp
    <3> QED BY <3>1, <3>2, <2>2
  <2>4. CASE n = MaxTries
    <3>1. ASSUME NEW k \in 0..MaxTries
          PROVE  C(k) \in 1..Len(customWidgets) /\ customWidgets[C(k)].class = p[k]
      <4>1. CASE C(k) = 0
        <5>1. B(p[k]) = p[k] BY <4>1, <1>2, OneUp
        <5>2. p[MaxTries] = p[k] BY <5>1, StaysUp
        <5>3. i = 0 BY <5>2, <4>1, <2>2, <2>4
        <5> QED BY <5>3, <1>1
      <4>2. CASE C(k) # 0 BY <4>2, <1>1, FoundByClass
      <4> QED BY <4>1, <4>2
    <3>2. PICK a \in 0..MaxTries, b \in 0..MaxTries : a < b /\ C(a) = C(b)
      <4> SUFFICES ASSUME \A a, b \in 0..MaxTries : a < b => C(a) # C(b) PROVE FALSE
        OBVIOUS
      <4>1. \A a, b \in 0..MaxTries : a # b => C(a) # C(b)
        <5> HIDE DEF C
        <5> QED BY <1>1
      <4>2. PICK f : f = [k \in 0..MaxTries |-> C(k)] OBVIOUS
      <4>3. f \in Injection(0..MaxTries, 1..Len(customWidgets))
        <5>1. f \in [0..MaxTries -> 1..Len(customWidgets)] BY <4>2, <3>1
        <5>2. \A a, b \in DOMAIN f : f[a] = f[b] => a = b BY <4>1, <4>2
        <5> QED BY <5>1, <5>2 DEF Injection, IsInjective
      <4>4. /\ IsFiniteSet(1..Len(customWidgets))
            /\ Cardinality(1..Len(customWidgets)) = Len(customWidgets)
        <5>1. 1 \in Int /\ Len(customWidgets) \in Int BY <1>1
        <5>2. /\ IsFiniteSet(1..Len(customWidgets))
              /\ Cardinality(1..Len(customWidgets)) =
                   IF 1 > Len(customWidgets) THEN 0 ELSE Len(customWidgets) - 1 + 1
          BY <5>1, FS_Interval
        <5> QED BY <5>2, <1>1
      <4>5. IsFiniteSet(0..MaxTries) /\ Cardinality(0..MaxTries) = MaxTries + 1
        <5>1. 0 \in Int /\ MaxTries \in Int BY <1>1
        <5>2. /\ IsFiniteSet(0..MaxTries)
              /\ Cardinality(0..MaxTries) = IF 0 > MaxTries THEN 0 ELSE MaxTries - 0 + 1
          BY <5>1, FS_Interval
        <5> QED BY <5>2, <1>1
      <4>6. Cardinality(0..MaxTries) <= Cardinality(1..Len(customWidgets))
        BY <4>3, <4>4, FS_Injection
      <4> QED BY <4>4, <4>5, <4>6, <1>1
    <3>3. p[a] = p[b] BY <3>1, <3>2
    <3> DEFINE m == MaxTries - b
               T == {x \in 0..m : p[a + x] = p[b + x]}
    <3>4. m \in Nat /\ b + m = MaxTries /\ a + m \in 0..(MaxTries - 1) /\ m \in 0..m
      BY <1>1, <3>2
    <3>5. 0 \in T BY <3>3, <3>4
    <3>6. ASSUME NEW x \in 0..(m - 1), x \in T PROVE x + 1 \in T
      <4>1. /\ a + x \in 0..(MaxTries - 1) /\ b + x \in 0..(MaxTries - 1) /\ x + 1 \in 0..m
            /\ a + (x + 1) = (a + x) + 1 /\ b + (x + 1) = (b + x) + 1
        BY <1>1, <3>2
      <4>2. p[(a + x) + 1] = B(p[a + x]) /\ p[(b + x) + 1] = B(p[b + x]) BY <4>1 DEF StepsUp
      <4>3. p[a + x] = p[b + x] BY <3>6
      <4> QED BY <4>1, <4>2, <4>3
    <3>7. 0..m \subseteq T
      <4> HIDE DEF T, m
      <4> QED BY <3>4, <3>5, <3>6, CountedUp
    <3>8. p[a + m] = p[MaxTries] BY <3>4, <3>7
    <3>9. (a + m) + 1 \in 0..MaxTries BY <3>4, <1>1
    <3>10. p[(a + m) + 1] = B(p[a + m]) BY <3>4 DEF StepsUp
    <3> HIDE DEF m
    <3> QED BY <3>8, <3>9, <3>10, <2>2, <2>4
  <2> QED BY <2>3, <2>4
<1> QED BY <1>3 DEF ClosedUp

\* The only class of QtWidgets that a class is or extends is where the steps up from
\* it end.
LEMMA EndOfSteps ==
    ASSUME DeclaredOnce, MaxWidgets <= MaxTries, NEW p, StepsUp(p)
    PROVE  Above(p[0]) = {p[MaxTries]} \cap WidgetClasses
<1> DEFINE S == {p[n] : n \in 0..MaxTries}
<1>1. MaxTries \in Nat /\ 0 \in 0..MaxTries /\ MaxTries \in 0..MaxTries BY ObjBounds
<1>2. \A n \in 0..MaxTries : p[n] \in CustomClasses \cup QtClasses BY DEF StepsUp
<1>3. /\ S \in SUBSET (CustomClasses \cup QtClasses) /\ p[0] \in S /\ ClosedUp(S)
  BY <1>1, <1>2, NothingAbove
<1>0. WidgetClasses \subseteq QtClasses BY ObjAssumption, Zenon
<1>4. ASSUME NEW q \in Above(p[0]) PROVE q \in {p[MaxTries]} \cap WidgetClasses
  <2>1. q \in WidgetClasses /\ q \in QtClasses /\ q \in S BY <1>0, <1>3, <1>4 DEF Above
  <2>2. PICK n \in 0..MaxTries : q = p[n] BY <2>1
  <2>3. BaseOf(customWidgets, p[n]) = p[n] BY <1>2, <2>1, <2>2, OneUp
  <2>4. p[MaxTries] = p[n] BY <2>3, StaysUp
  <2> QED BY <2>1, <2>2, <2>4
<1>5. ASSUME NEW T, p[0] \in T, ClosedUp(T) PROVE p[MaxTries] \in T
  <2> DEFINE D == {n \in 0..MaxTries : p[n] \in T}
  <2>1. 0 \in D BY <1>1, <1>5
  <2>2. ASSUME NEW n \in 0..(MaxTries - 1), n \in D PROVE n + 1 \in D
    <3>1. n \in 0..MaxTries /\ n + 1 \in 0..MaxTries /\ p[n] \in T BY <1>1, <2>2
    <3>2. p[n + 1] = BaseOf(customWidgets, p[n]) BY DEF StepsUp
    <3>3. DOMAIN customWidgets = 1..Len(customWidgets) /\ Len(customWidgets) \in Nat
      BY LenProperties DEF DeclaredOnce
    <3>4. CASE Custom(customWidgets, p[n]) = 0
      <4>1. p[n + 1] = p[n] BY <3>4, <3>1, <3>2, <1>2, OneUp
      <4> QED BY <4>1, <3>1
    <3>5. CASE Custom(customWidgets, p[n]) # 0
      <4>1. PICK i \in 1..Len(customWidgets) : customWidgets[i].class = p[n]
        BY <3>3, <3>5, FoundByClass
      <4>2. p[n + 1] = customWidgets[i].base BY <4>1, <3>1, <3>2, <1>2, OneUp
      <4>3. customWidgets[i].base \in T BY <4>1, <3>1, <3>3, <1>5 DEF ClosedUp
      <4> QED BY <4>2, <4>3, <3>1
    <3> QED BY <3>4, <3>5
  <2>3. 0..MaxTries \subseteq D
    <3> HIDE DEF D
    <3> QED BY <1>1, <2>1, <2>2, CountedUp
  <2> QED BY <2>3, <1>1
<1>6. p[MaxTries] \in WidgetClasses => p[MaxTries] \in Above(p[0]) BY <1>5 DEF Above
<1> QED BY <1>4, <1>6


\* What the outcome of a search tells.
LEMMA OutcomeTells ==
    /\ \A reason : Failure(reason).error = reason
    /\ \A from, base : /\ Found(from, base).error = "" /\ Found(from, base).from = from
                       /\ Found(from, base).base = base
<1>1. ASSUME NEW reason PROVE Failure(reason).error = reason BY Zenon DEF Failure
<1>2. ASSUME NEW from, NEW base
      PROVE  /\ Found(from, base).error = "" /\ Found(from, base).from = from
             /\ Found(from, base).base = base
  BY Zenon DEF Found
<1> QED BY <1>1, <1>2

\* The compiler takes a custom widget for the class of QtWidgets at the end of those steps.
LEMMA CompilerFindsBase ==
    ASSUME DeclaredOnce, MaxWidgets <= MaxTries
    PROVE  BaseResolved
<1>1. /\ MaxTries \in Nat /\ MaxTries - 1 \in Nat /\ Len(customWidgets) \in Nat
      /\ customWidgets \in Seq(Widget) /\ DOMAIN customWidgets = 1..Len(customWidgets)
  BY ObjBounds, LenProperties DEF DeclaredOnce
<1> SUFFICES ASSUME NEW i \in 1..Len(customWidgets), NEW c, c = customWidgets[i].class,
                    InPlugin(c) = 0
             PROVE  Above(c) = IF CompilerFinds(customWidgets, c).error = ""
                                 THEN {CompilerFinds(customWidgets, c).base} ELSE {}
  BY <1>1 DEF BaseResolved
<1> DEFINE up == Tried(customWidgets, customWidgets[i].base)
           end == up[MaxTries - 1]
<1>2. c \in CustomClasses
  <2>1. customWidgets[i] \in Widget BY <1>1, ElementOfSeq
  <2> QED BY <2>1 DEF Widget
<1>3. /\ c \notin QtClasses /\ Custom(customWidgets, c) = i
      /\ BaseOf(customWidgets, c) = customWidgets[i].base
  BY <1>2, OneUp
<1>4. PICK p : p = [n \in 0..MaxTries |-> IF n = 0 THEN c ELSE up[n - 1]] OBVIOUS
<1>5. ASSUME NEW n \in 0..(MaxTries - 1) PROVE p[n + 1] = BaseOf(customWidgets, p[n])
  <2>1. n + 1 \in 0..MaxTries /\ n \in 0..MaxTries /\ n + 1 # 0 /\ (n + 1) - 1 = n BY <1>1
  <2>2. p[n + 1] = up[n] BY <2>1, <1>4
  <2>3. CASE n = 0
    <3>1. up[0] = customWidgets[i].base BY TriedInTurn
    <3> QED BY <2>1, <2>2, <2>3, <3>1, <1>3, <1>4
  <2>4. CASE n # 0
    <3>1. n \in 1..(MaxTries - 1) BY <2>4
    <3>2. up[n] = BaseOf(customWidgets, up[n - 1]) BY <3>1, TriedInTurn
    <3>3. p[n] = up[n - 1] BY <2>1, <2>4, <1>4
    <3> QED BY <2>2, <3>2, <3>3
  <2> QED BY <2>3, <2>4
<1>6. p[0] = c /\ p[MaxTries] = end
  <2>1. 0 \in 0..MaxTries /\ MaxTries \in 0..MaxTries /\ MaxTries # 0 BY ObjBounds
  <2> QED BY <2>1, <1>4
<1>7. StepsUp(p)
  <2> DEFINE D == {n \in 0..MaxTries : p[n] \in CustomClasses \cup QtClasses}
  <2>1. 0 \in D BY <1>1, <1>2, <1>6
  <2>2. ASSUME NEW n \in 0..(MaxTries - 1), n \in D PROVE n + 1 \in D
    <3>1. n + 1 \in 0..MaxTries /\ p[n] \in CustomClasses \cup QtClasses BY <1>1, <2>2
    <3>2. BaseOf(customWidgets, p[n]) \in CustomClasses \cup QtClasses BY <3>1, OneUp
    <3> QED BY <3>1, <3>2, <1>5
  <2>3. 0..MaxTries \subseteq D
    <3> HIDE DEF D
    <3> QED BY <1>1, <2>1, <2>2, CountedUp
  <2>4. p \in [0..MaxTries -> CustomClasses \cup QtClasses] BY <2>3, <1>4
  <2> QED BY <2>4, <1>5 DEF StepsUp
<1>8. Above(c) = {end} \cap WidgetClasses BY <1>6, <1>7, EndOfSteps
<1> DEFINE base == ResolveBaseclass(customWidgets, customWidgets[i].base)
<1>9. base = IF end \in WidgetClasses THEN end ELSE "" BY DEF ResolveBaseclass
<1>10. i # 0 BY <1>1
<1>11. CompilerFinds(customWidgets, c) =
         IF base = "" THEN Failure("ValueError") ELSE Found(customWidgets[i].module, base)
  BY <1>3, <1>10 DEF CompilerFinds, Search
<1>12. "" \notin WidgetClasses
  <2>1. "" \notin QtClasses /\ WidgetClasses \subseteq QtClasses BY ObjAssumption, Zenon
  <2> QED BY <2>1
<1> HIDE DEF base, end
<1>13. CASE end \in WidgetClasses
  <2>1. base = end /\ base # "" BY <1>9, <1>12, <1>13
  <2>2. CompilerFinds(customWidgets, c) = Found(customWidgets[i].module, base) BY <1>11, <2>1
  <2>3. PICK f : f = Found(customWidgets[i].module, base) OBVIOUS
  <2>4. f.error = "" /\ f.base = base BY <2>3, OutcomeTells
  <2>5. CompilerFinds(customWidgets, c) = f BY <2>2, <2>3
  <2> QED BY <1>8, <1>13, <2>1, <2>4, <2>5
<1>14. CASE end \notin WidgetClasses
  <2>1. CompilerFinds(customWidgets, c) = Failure("ValueError") BY <1>9, <1>11, <1>14
  <2>2. CompilerFinds(customWidgets, c).error = "ValueError" BY <2>1, OutcomeTells
  <2>3. CompilerFinds(customWidgets, c).error # "" BY <2>2, Zenon
  <2> QED BY <1>8, <1>14, <2>3
<1> QED BY <1>13, <1>14

\* Only custom widgets that have been declared are used.
UsedDeclared ==
    \A c \in used : /\ c \in CustomClasses /\ InPlugin(c) = 0
                    /\ Custom(customWidgets, c) # 0

ObjIInv == DeclaredOnce /\ UsedDeclared

\* The generated code imports each of them from its module.
LEMMA EachIsImported == ASSUME ObjIInv PROVE ImportsCoverUsed
<1>1. /\ Len(customWidgets) \in Nat /\ customWidgets \in Seq(Widget)
  BY LenProperties DEF ObjIInv, DeclaredOnce
<1> SUFFICES ASSUME NEW c \in used, NEW package \in {<< >>, <<"package">>}
             PROVE  LET from == {i.module : i \in {j \in Imports(customWidgets, used) :
                                                      c \in j.classes}}
                        loaded == LoaderFinds(customWidgets, c, package)
                    IN  /\ Cardinality(from) = 1
                        /\ \A m \in from :
                             IF ~ Relative(m) THEN loaded.from = m
                             ELSE IF package = << >> THEN loaded.error = "ImportError"
                             ELSE Len(loaded.from) = Len(m) /\ Head(loaded.from) = "package"
  BY DEF ImportsCoverUsed
<1> DEFINE Mod(d) == customWidgets[Custom(customWidgets, d)].module
           from == {i.module : i \in {j \in Imports(customWidgets, used) : c \in j.classes}}
<1>2. c \in CustomClasses /\ InPlugin(c) = 0 /\ Custom(customWidgets, c) # 0
  BY DEF ObjIInv, UsedDeclared
<1>3. PICK m : m = Mod(c) OBVIOUS
<1>4. m \in Seq(STRING)
  <2>1. Custom(customWidgets, c) \in 1..Len(customWidgets) BY <1>1, <1>2, FoundByClass
  <2>2. customWidgets[Custom(customWidgets, c)] \in Widget BY <1>1, <2>1, ElementOfSeq
  <2>3. m \in CustomModules BY <2>2, <1>3 DEF Widget
  <2>4. CustomModules \subseteq Seq(STRING) BY ObjAssumption, Zenon
  <2> QED BY <2>3, <2>4
<1>5. from = {m}
  <2> DEFINE Stmt(x) == [module |-> x, classes |-> {d \in used : Mod(d) = x}]
  <2>1. Imports(customWidgets, used) = {Stmt(x) : x \in {Mod(d) : d \in used}}
    BY DEF Imports
  <2>2. Stmt(m) \in Imports(customWidgets, used) /\ c \in Stmt(m).classes /\ Stmt(m).module = m
    BY <2>1, <1>3
  <2>3. ASSUME NEW j \in Imports(customWidgets, used), c \in j.classes PROVE j.module = m
    BY <2>1, <2>3, <1>3
  <2> QED BY <2>2, <2>3
<1>6. Cardinality(from) = 1 BY <1>5, FS_Singleton
<1>7. c \notin QtClasses
  <2>1. CustomClasses \cap QtClasses = {} BY ObjAssumption, Zenon
  <2> QED BY <2>1, <1>2
<1>8. LoaderFinds(customWidgets, c, package) = Qualified(m, package)
  BY <1>2, <1>3, <1>7 DEF LoaderFinds, Search
<1>9. CASE ~ Relative(m)
  <2>1. LoaderFinds(customWidgets, c, package) = Found(m, "") BY <1>8, <1>9 DEF Qualified
  <2>2. LoaderFinds(customWidgets, c, package).from = m BY <2>1, OutcomeTells
  <2> QED BY <2>2, <1>5, <1>6, <1>9
<1>10. CASE Relative(m) /\ package = << >>
  <2>1. LoaderFinds(customWidgets, c, package) = Failure("ImportError")
    BY <1>8, <1>10 DEF Qualified
  <2>2. LoaderFinds(customWidgets, c, package).error = "ImportError" BY <2>1, OutcomeTells
  <2> QED BY <2>2, <1>5, <1>6, <1>10
<1>11. CASE Relative(m) /\ package # << >>
  <2>1. package = <<"package">> BY <1>11
  <2>2. PICK e : e = "package" OBVIOUS
  <2>3. PICK S : S = STRING \cup {e} OBVIOUS
  <2>4. m # << >> BY <1>11 DEF Relative
  <2>5. m \in Seq(S)
    <3>1. \A x \in 1..Len(m) : m[x] \in S BY <1>4, <2>3, ElementOfSeq
    <3>2. Len(m) \in Nat /\ m = [x \in 1..Len(m) |-> m[x]] BY <1>4, LenProperties
    <3> QED BY <3>1, <3>2
  <2>6. package \in Seq(S) /\ Len(package) = 1 /\ package[1] = e /\ Head(package) = e
    BY <2>1, <2>2, <2>3
  <2>7. ~ Relative(package)
    <3>1. e # "" BY <2>2
    <3> QED BY <3>1, <2>6 DEF Relative
  <2>8. PICK t : t = Tail(m) OBVIOUS
  <2>9. t \in Seq(S) /\ Len(t) = Len(m) - 1 /\ Len(m) \in Nat \ {0}
    BY <2>4, <2>5, <2>8, HeadTailProperties, EmptySeq, LenProperties
  <2>10. PICK q : q = package \o t OBVIOUS
  <2>11. q \in Seq(S) /\ Len(q) = Len(package) + Len(t) /\ q[1] = package[1]
    <3>1. PICK p : p = package OBVIOUS
    <3>2. p \in Seq(S) /\ Len(p) = 1 /\ Len(t) \in Nat BY <3>1, <2>6, <2>9, LenProperties
    <3>3. /\ p \o t \in Seq(S) /\ Len(p \o t) = Len(p) + Len(t)
          /\ \A i \in 1..(Len(p) + Len(t)) :
               (p \o t)[i] = IF i <= Len(p) THEN p[i] ELSE t[i - Len(p)]
      BY <3>2, <2>9, ConcatProperties
    <3>4. 1 \in 1..(Len(p) + Len(t)) /\ 1 <= Len(p) BY <3>2
    <3> QED BY <3>1, <3>3, <3>4, <2>10
  <2>12. Len(q) = Len(m) BY <2>6, <2>9, <2>11
  <2>13. Head(q) = e
    <3>1. q # << >> BY <2>9, <2>12
    <3> QED BY <3>1, <2>6, <2>11, HeadTailProperties
  <2>14. LoaderFinds(customWidgets, c, package).from = q
    <3>1. LoaderFinds(customWidgets, c, package) = Found(q, "")
      BY <1>8, <1>11, <2>7, <2>8, <2>10 DEF Qualified
    <3> QED BY <3>1, OutcomeTells
  <2> QED BY <2>2, <2>12, <2>13, <2>14, <1>5, <1>6, <1>11
<1> QED BY <1>9, <1>10, <1>11

\* No class is declared twice, and no more once one has been used.
LEMMA ObjInductive == ASSUME ObjIInv, [ObjNext]_objVars PROVE ObjIInv'
<1>1. /\ Len(customWidgets) \in Nat /\ customWidgets \in Seq(Widget)
  BY LenProperties DEF ObjIInv, DeclaredOnce
<1>2. ASSUME NEW w \in Widget, AddCustomWidget(LoadedPlugins(PluginFiles).filters, w)
      PROVE  ObjIInv'
  <2> DEFINE new == Filtered(LoadedPlugins(PluginFiles).filters, w)
  <2>1. new \in Widget BY ObjAssumption, Zenon
  <2>2. used = {} /\ used' = {} /\ Len(customWidgets) < MaxWidgets
        /\ customWidgets' = IF Custom(customWidgets, new.class) # 0
                              THEN customWidgets ELSE Append(customWidgets, new)
    BY <1>2 DEF AddCustomWidget
  <2> HIDE DEF new
  <2>3. CASE Custom(customWidgets, new.class) # 0
    BY <2>2, <2>3 DEF ObjIInv, DeclaredOnce, UsedDeclared
  <2>4. CASE Custom(customWidgets, new.class) = 0
    <3>1. customWidgets' = Append(customWidgets, new) BY <2>2, <2>4
    <3>2. /\ customWidgets' \in Seq(Widget) /\ Len(customWidgets') = Len(customWidgets) + 1
          /\ \A i \in 1..Len(customWidgets) : customWidgets'[i] = customWidgets[i]
          /\ customWidgets'[Len(customWidgets) + 1] = new
      BY <1>1, <2>1, <3>1, AppendProperties
    <3>3. \A i \in 1..Len(customWidgets) : customWidgets[i].class # new.class
      BY <1>1, <2>4, FoundByClass
    <3>4. \A i, j \in 1..Len(customWidgets) :
            customWidgets[i].class = customWidgets[j].class => i = j
      BY DEF ObjIInv, DeclaredOnce
    <3>5. \A i \in 1..Len(customWidgets') :
            i \in 1..Len(customWidgets) \/ i = Len(customWidgets) + 1
      BY <1>1, <3>2
    <3>6. ASSUME NEW i \in 1..Len(customWidgets'), NEW j \in 1..Len(customWidgets'),
                 customWidgets'[i].class = customWidgets'[j].class
          PROVE  i = j
      <4>1. CASE i \in 1..Len(customWidgets) /\ j \in 1..Len(customWidgets)
        BY <4>1, <3>2, <3>4, <3>6
      <4>2. CASE i \in 1..Len(customWidgets) /\ j = Len(customWidgets) + 1
        BY <4>2, <3>2, <3>3, <3>6
      <4>3. CASE j \in 1..Len(customWidgets) /\ i = Len(customWidgets) + 1
        BY <4>3, <3>2, <3>3, <3>6
      <4> QED BY <4>1, <4>2, <4>3, <3>5
    <3>7. Len(customWidgets') <= MaxWidgets BY <1>1, <2>2, <3>2, ObjBounds
    <3>8. DeclaredOnce' BY <3>2, <3>6, <3>7 DEF DeclaredOnce
    <3> QED BY <3>8, <2>2 DEF ObjIInv, UsedDeclared
  <2> QED BY <2>3, <2>4
<1>3. ASSUME NEW class \in CustomClasses, CreateQtObject(class) PROVE ObjIInv'
  <2> DEFINE found == CompilerFinds(customWidgets, class)
  <2>1. customWidgets' = customWidgets
        /\ used' = IF found.error = "" /\ class \in CustomClasses /\ InPlugin(class) = 0
                     THEN used \cup {class} ELSE used
    BY <1>3 DEF CreateQtObject
  <2>2. DeclaredOnce' BY <2>1 DEF ObjIInv, DeclaredOnce
  <2>3. CASE found.error = "" /\ InPlugin(class) = 0
    <3>1. class \notin QtClasses
      <4>1. CustomClasses \cap QtClasses = {} BY ObjAssumption, Zenon
      <4> QED BY <4>1
    <3>2. Custom(customWidgets, class) # 0
      <4> SUFFICES ASSUME Custom(customWidgets, class) = 0 PROVE FALSE OBVIOUS
      <4>1. found = Failure("NoSuchWidgetError")
        BY <2>3, <3>1 DEF CompilerFinds, Search
      <4>2. found.error = "NoSuchWidgetError" BY <4>1, OutcomeTells
      <4> QED BY <4>2, <2>3, Zenon
    <3> HIDE DEF found
    <3>3. UsedDeclared' BY <2>1, <2>3, <3>2 DEF ObjIInv, UsedDeclared
    <3> QED BY <2>2, <3>3 DEF ObjIInv
  <2>4. CASE ~ (found.error = "" /\ InPlugin(class) = 0)
    <3>1. used' = used BY <2>1, <2>4
    <3>2. UsedDeclared' BY <3>1, <2>1 DEF ObjIInv, UsedDeclared
    <3> QED BY <2>2, <3>2 DEF ObjIInv
  <2> QED BY <2>3, <2>4
<1>4. CASE UNCHANGED objVars
  BY <1>4 DEF objVars, ObjIInv, DeclaredOnce, UsedDeclared
<1> QED BY <1>2, <1>3, <1>4 DEF ObjNext

\* Nothing is declared when a file is begun.
LEMMA ObjBegins == ASSUME ObjInit PROVE ObjIInv
<1>1. customWidgets = << >> /\ used = {} BY DEF ObjInit
<1>2. customWidgets \in Seq(Widget) /\ Len(customWidgets) = 0 BY <1>1, EmptySeq
<1> QED BY <1>1, <1>2, ObjBounds DEF ObjIInv, DeclaredOnce, UsedDeclared

\* As long as there are no more custom widgets in a file than the compiler tries
\* classes, it takes each for the class of QtWidgets that it extends, however many
\* others are between them and in any order, even if they extend each other, and its
\* imports are those of the loader.
THEOREM ClassesAreFound ==
    ASSUME MaxWidgets <= MaxTries
    PROVE  ObjSpec => []ClassesFound
<1>1. ObjInit => ObjIInv BY ObjBegins
<1>2. ObjIInv /\ [ObjNext]_objVars => ObjIInv' BY ObjInductive
<1>3. ObjIInv => ClassesFound
  BY CompilerFindsBase, EachIsImported DEF ObjIInv, ClassesFound
<1> QED BY <1>1, <1>2, <1>3, PTL DEF ObjSpec
=============================================================================
