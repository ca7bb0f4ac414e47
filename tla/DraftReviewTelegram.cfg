SPECIFICATION Spec
CONSTANTS
    Drafts = {d1}
    Requests = {r1, r2}
    Texts = {none, short, long}
    NoText = none
    NoDraft = nodraft
    short = short
    long = long
    Parts <- MCParts
    Channels <- AllChannels
SYMMETRY Sym
INVARIANT RejectedNotSent
CHECK_DEADLOCK FALSE
