SPECIFICATION FairSpec
CONSTANTS
    ticket = ticket
    release = release
    a1 = a1
    a2 = a2
    Instances = {ticket, release}
    Approvals = {a1, a2}
    States <- MCStates
    Events <- MCEvents
    Trigger <- MCTrigger
    First <- MCFirst
    Actions <- MCActions
    Rules <- MCRules
    MaxTransitions = 3
    Nothing = nothing
    Outages = TRUE
    Concurrent = TRUE
INVARIANTS TypeOK HeldAtTierThree NoticeAfterTicket
PROPERTIES FinishedIsFinal DrivesEnd
CHECK_DEADLOCK FALSE
