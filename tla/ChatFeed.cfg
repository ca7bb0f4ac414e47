SPECIFICATION FeedSpec
CONSTANTS
    m1 = m1
    m2 = m2
    topic = topic
    aside = aside
    Msgs = {m1, m2}
    Blank = {}
    ThreadOf <- MCThreadOf
    MaxLines = 2
    MaxTime = 3
    MaxStarts = 2
INVARIANTS FeedTypeOK EventOrPending MemoryOrPending
CHECK_DEADLOCK FALSE
