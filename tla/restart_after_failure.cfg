SPECIFICATION FairSpec
CONSTANTS
    ta = ta
    tb = tb
    Relations = {ta, tb}
    Stream <- MCShortStream
    CustomTyped = {}
    Oversized = {}
    Retries = 1
    MaxReplies = 1
    MaxLog = 4
    MaxRestarts = 0
PROPERTIES
    RestartsAfterFailure
CHECK_DEADLOCK FALSE
