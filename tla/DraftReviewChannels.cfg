SPECIFICATION FairSpec
CONSTANTS
    Drafts = {d1}
    Requests = {r1, r2, r3}
    Texts = {none, short, long}
    NoText = none
    NoDraft = nodraft
    short = short
    long = long
    Parts <- MCParts
    Channels <- AllChannels
INVARIANTS TypeOK SentMeansDelivered NothingBeforeVerdict
PROPERTY CallsEnd
CHECK_DEADLOCK FALSE
