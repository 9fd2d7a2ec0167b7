\* Indexes 2 and 10 of a list with three elements: "10" sorts before "2".
SPECIFICATION ChainSpec
CONSTANTS
    NumFields = 1
    NumCustom = 2
    Slots = 4
    Sep = ","
    NL = "n"
    Texts <- ListsOfThree
    Filters <- ExpandTwo
    MaxFilters = 1
INVARIANT NamedElementsExpanded
CHECK_DEADLOCK FALSE
