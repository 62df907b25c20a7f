SPECIFICATION FairSpec
CONSTANTS
    ta = ta
    tb = tb
    Relations = {ta, tb}
    Stream <- MCPoisonStream
    CustomTyped = {tb}
    Oversized = {}
    Retries = 1
    MaxReplies = 1
    MaxLog = 3
    MaxRestarts = 1
INVARIANTS
    PoisonNeverConfirmed
PROPERTIES
    PoisonLoops
CHECK_DEADLOCK FALSE
