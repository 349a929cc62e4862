CONSTANTS
    Word = 1
    Sizes <- MCSizes
    NodeNum = 1
    Slots = {"slot"}
    MaxPacks = 2
SPECIFICATION Spec
INVARIANTS BooksAgree NeverLost NoFalseShortage
CHECK_DEADLOCK FALSE
