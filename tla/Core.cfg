SPECIFICATION Spec
CONSTANTS
    Parts = {"signals", "metaobjects", "conversions", "objects", "lifetime", "exceptions", "references",
             "qml", "qml lists", "opengl", "shader",
             "designer plugins", "qml plugins"}
    Types = {"int", "str"}
    BadType = "unknown"
    MaxArgs = 2
    SignalNames = {"a", "b"}
    MaxTable = 3
    Attributes = {"signal", "overloaded", "slot", "property", "setter", "enum"}
    MixinBodies <- Mixins
    MaxAttributes = 2
    MaxClasses = 2
    StaticMethods = 2
    StaticProperties = 1
    ShortBits = 2
    IntBits = 3
    LongBits = 4
    MaxLength = 6
    MaxKeywords = 3
    MaxMethods = 3
    MaxParameters = 3
    MaxArgv = 4
    Addresses = {a1, a2}
    Threads = {a2}
    App = a1
    Elsewhere = {a2}
    NoParent = NoParent
    MaxReports = 1
    PyThreads = {t1, t2}
    MaxExceptions = 2
    Holders = {h1, h2}
    PyObjs = {o1}
    Nothing = Nothing
    MaxRefs = 3
    MaxStream = 1
    QObjects = {q1, q2, q3}
    NoQObject = NoQObject
    PyQmlTypes = {"A", "B", "V"}
    NrOfTypes = 2
    MaxRegistrations = 3
    QmlSignals = {s1}
    MaxListeners = 1
    ParserStatusTypes = {"B"}
    MaxListRefs = 2
    MaxDatas = 2
    MaxElements = 2
    Blocks = {b1, b2, b3}
    Buffers = {u1}
    NoArray = NoArray
    PointerCalls <- Calls
    Unkeyed = {"TexCoordPointer"}
    ShaderKeys = {"0", "name"}
    ShaderItems <- GLItems
    MaxNested = 2
    MaxItems = 2
    PluginDirs <- Dirs
    PluginNames = {"aplugin", "bplugin", "cplugin"}
    Contents <- ModuleTypes
    WidgetTypes = {"A", "A3", "B", "C", "C2"}
    QmlModules = {m1, m2}
    MaxEngines = 2
CHECK_DEADLOCK FALSE
INVARIANTS
    OverloadsKept
    SlotCalledOnce
    DispatchAgrees
    PropertiesInOrder
    
    SignaturesAgree
    NamesResolved
    QmlFaithful
    QmlListsRight
    ArraysRight
    InstancesTended
    ReportsKeepState
    PluginsLoaded
PROPERTIES
    ReportingEnds
