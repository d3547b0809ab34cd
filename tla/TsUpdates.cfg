SPECIFICATION MCSpec
CONSTANTS
    Contexts <- TwoContexts
    Sources = {s1}
    Comments = {"c1", "c2"}
    Emptied = {"c2"}
    Messages <- SomeMessages
    Texts = {t1}
    NoText = NoText
    Files <- TwoFiles
    MaxLines = 2
    MaxElements = 3
    ClassNames = {"A", "B"}
    CallLines <- SomeCallLines
    NoneNode = NoneNode
    OtherNode = OtherNode
    MaxSourceLines = 3
    MaxNested = 2
CHECK_DEADLOCK FALSE
INVARIANTS
    Consistent
    SourceRead
PROPERTIES
    TranslatorServed
