SPECIFICATION Spec
CONSTANTS
    MaxKeys = 2
    MaxDead = 0
    MaxEdits = 1
INVARIANTS RotateRelocks
