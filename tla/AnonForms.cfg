SPECIFICATION Spec
CONSTANTS
    Tabs = {t1, t2}
    CookieLife = 2
    PowLife = 1
    Upload = 1
    MaxForms = 3
    MaxPosts = 2
    MaxNow = 3
CHECK_DEADLOCK FALSE
INVARIANTS TypeOK OwnFormWorks 
