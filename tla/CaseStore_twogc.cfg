SPECIFICATION Spec
CONSTANTS
    Ids = {i1}
    Submitters = {s1}
    Receivers = {r1}
    Loop = loop
    Clis = {cron}
    Wipers = {}
    None = None
    Hour = 2
    TTL = 2
    MaxTries = 2
    MaxNow = 3
    MaxReplies = 1
    MaxFaults = 0
INVARIANTS SweptOrListed
