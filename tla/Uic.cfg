SPECIFICATION Spec
CONSTANTS
    None = None
    NoName = NoName
    TopClasses = {"QWidget", "QMainWindow"}
    Classes = {"QWidget", "QTabWidget", "QTreeWidget", "QComboBox", "QPushButton"}
    LayoutClasses = {"QGridLayout"}
    Names <- PlainNames
    Groups <- ButtonGroups
    MaxElements = 4
    Features = {"current", "action", "actionGroup", "header", "spacer"}
    IconSets = {"set1", "set2"}
    Themes = {}
    MaxCalls = 4
    MaxLanguages = 3
    TipFeature = FALSE
    QtClasses = {"QWidget", "QLabel", "QAction"}
    WidgetClasses = {"QWidget", "QLabel"}
    PluginFiles <- Plugins
    CustomClasses = {"Custom1", "Custom2", "OldCustom"}
    CustomModules <- CustomModulesDef
    MaxTries = 10
    MaxWidgets = 2
    UiFiles <- UiFilesDef
    BadFiles = {"b.ui"}
    Workers = {0, 2}
CHECK_DEADLOCK FALSE
INVARIANTS
    TreeAsWritten
    ItemsAsWritten
    CodeRetranslates
    ClassesFound
    ValuesAsWritten
    StatusTells
