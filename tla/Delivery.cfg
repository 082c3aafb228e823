SPECIFICATION Spec
CONSTANTS
    Names = {"photo", "odd"}
    Odd = {"odd"}
    Sizes = {1000, 70000, 80000}
    Encoded = {512, 60000}
    MaxFiles = 2
    MaxSize = 70000
    MaxTotal = 100000
    MetaLen = 300
INVARIANTS TypeOK PackedAsConfigured ToldOpens WholeOrNothing
CHECK_DEADLOCK FALSE
