SPECIFICATION FairSpec
CONSTANTS
    MaxKeys = 3
    MaxDead = 1
    MaxEdits = 1
INVARIANTS TypeOK SealedOpenable RestAgrees
PROPERTIES ComesUp
