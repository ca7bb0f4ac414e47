SPECIFICATION CutSpec
CONSTANTS
    Kinds = {"size", "section", "markdown", "blocks", "kotlin"}
    MaxLen = 5
    Size = 2
    Short = 1
INVARIANTS EachOnce Fits
PROPERTY CutToTheEnd
CHECK_DEADLOCK FALSE
