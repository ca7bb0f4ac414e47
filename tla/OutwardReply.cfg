SPECIFICATION FairSpec
CONSTANTS
    home = home
    Batches = {1, 2, 3}
    Rooms = {home}
    RoomOf <- MCRoomOf
    Message <- MCMessage
    Files = {"persona"}
    Titled = {2}
    Confidences <- MCConfidences
    Threshold <- MCThreshold
    MaxReplies = 1
    Minute = 2
    MaxLives = 2
    MaxTime = 3
INVARIANTS TypeOK RateLimited StrangersDrafted OutcomeIsTrue SalvagedDrafted
PROPERTY BatchEnds
CHECK_DEADLOCK FALSE
