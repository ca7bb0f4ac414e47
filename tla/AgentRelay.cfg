SPECIFICATION FairSpec
CONSTANTS
    e1 = e1
    e2 = e2
    e3 = e3
    own = own
    k1 = k1
    k2 = k2
    Events = {e1, e2, e3, own}
    Keys = {k1, k2}
    KeyOf <- MCKeyOf
    Ignored = {own}
    Limit = 3
    MaxIds = 3
    Debounce = 2
    Writers = 2
    MaxTime = 4
INVARIANTS TypeOK HandedOnce InOrder NonePassedOver
PROPERTY EventuallyHanded
CHECK_DEADLOCK FALSE
