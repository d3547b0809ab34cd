SPECIFICATION MCSpec
CONSTANTS
    Contexts <- TwoContexts
    Sources = {s1}
    Comments = {"c1", "c2"}
    Emptied = {"c2"}
    Messages <- SomeMessages
    Texts = {t1}
    NoText = NoText
    Files <- TwoFiles
    MaxLines = 0
    MaxElements = 3
    ClassNames = {"A"}
    CallLines <- SomeCallLines
    NoneNode = NoneNode
    OtherNode = OtherNode
    MaxSourceLines = 2
    MaxNested = 1
CHECK_DEADLOCK FALSE
INVARIANTS
    NumerusKnown
