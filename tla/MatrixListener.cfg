SPECIFICATION FairSpec
CONSTANTS
    MaxSaid = 7
    EventOf <- MCEventOf
    Member = {"team", "quiet", "noise"}
    Blacklisted = {"noise"}
    MentionOnly = {"quiet"}
    Limit = 2
    MaxLives = 3
INVARIANTS InOrderOnce NothingSkipped
PROPERTY EventuallyCollected
CHECK_DEADLOCK FALSE
