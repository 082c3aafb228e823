SPECIFICATION FairSpec
CONSTANTS
    Ids = {i1, i2}
    Submitters = {s1, s2}
    Receivers = {r1}
    Loop = loop
    Clis = {}
    Wipers = {}
    None = None
    Hour = 2
    TTL = 3
    MaxTries = 2
    MaxNow = 4
    MaxReplies = 1
    MaxFaults = 1
INVARIANTS TypeOK  ToldKept 
PROPERTIES ShredOnlyExpired ExpiredLeave ImplementsLifecycle
