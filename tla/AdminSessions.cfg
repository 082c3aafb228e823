SPECIFICATION Spec
CONSTANTS
    Tabs = {t1, t2}
    Idle = 2
    MaxSessions = 2
    MaxRequests = 4
    MaxRestarts = 1
    MaxNow = 4
CHECK_DEADLOCK FALSE
INVARIANTS TypeOK EndedForGood SavedFromOwnPage LoggedOut
