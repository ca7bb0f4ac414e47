SPECIFICATION Spec
CONSTANTS
    Drafts = {d1, d2}
    Requests = {r1, r2, r3}
    Texts = {none, short, long}
    NoText = none
    NoDraft = nodraft
    short = short
    long = long
    Parts <- MCParts
    Channels <- AtomicChannels
INVARIANTS OneSender DeliveredIsReviewed
PROPERTY ImplementsLifecycle
CHECK_DEADLOCK FALSE
