SPECIFICATION FairSpec
CONSTANTS
    Items = {x1, x2}
    Loop = loop
    Onces = {once}
    Floor <- MCFloor
    Week = 1
    Limit = 1
    Sources = {"jira", "confluence"}
    MaxTime = 3
    MaxLives = 2
INVARIANTS TypeOK NothingLost
PROPERTY EventuallyStored
CHECK_DEADLOCK FALSE
