SPECIFICATION Spec
CONSTANTS
    Ids = {i1, i2}
    Codes = {c1, c2}
    Receivers = {r1, r2}
    Visitors = {v1}
    NoCode = NoCode
    MaxTexts = 2
INVARIANTS TypeOK OwnReplyOnly 
CHECK_DEADLOCK FALSE
