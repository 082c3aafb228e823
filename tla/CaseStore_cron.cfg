SPECIFICATION Spec
CONSTANTS
    Ids = {i1}
    Submitters = {s1, s2}
    Receivers = {r1}
    Loop = loop
    Clis = {cron}
    Wipers = {duress}
    None = None
    Hour = 1
    TTL = 1
    MaxTries = 2
    MaxNow = 2
    MaxReplies = 2
    MaxFaults = 1
SYMMETRY Alike
ACTION_CONSTRAINT WipeAlone
INVARIANTS ReplyReadable
PROPERTIES ShredOnlyExpired WipeEmpties
