SPECIFICATION Spec
CONSTANTS
    Ids = {i1}
    Submitters = {s1}
    Receivers = {r1}
    Loop = loop
    Clis = {}
    Wipers = {duress}
    None = None
    Hour = 2
    TTL = 2
    MaxTries = 2
    MaxNow = 2
    MaxReplies = 1
    MaxFaults = 0
INVARIANTS WipeDropsAll
