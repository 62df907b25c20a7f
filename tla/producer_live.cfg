SPECIFICATION FairSpec
CONSTANTS
    ta = ta
    tb = tb
    Relations = {ta, tb}
    Stream <- MCShortStream
    CustomTyped = {}
    Oversized = {5}
    Retries = 1
    MaxReplies = 1
    MaxLog = 4
    MaxRestarts = 2
PROPERTIES
    StreamSettles
CHECK_DEADLOCK FALSE
