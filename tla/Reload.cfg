SPECIFICATION FairSpec
CONSTANTS
    old = old
    broken = broken
    moved = moved
    overlapping = overlapping
    err = err
    null = null
    Call = {k1, k2}
    Config <- MCConfig
    Loads <- MCLoads
    Compiles <- MCCompiles
    Listen <- MCListen
    Mitm <- MCMitm
    Ca = {ca1, ca2}
    Unreadable = unreadable
    Absent = absent
CHECK_DEADLOCK FALSE
INVARIANTS
    RuntimeSound
    AnswerTrue
    InForceIsOnDisk
PROPERTY ReloadsComplete
