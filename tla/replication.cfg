SPECIFICATION ReplicationSpec
CONSTANTS
    ta = ta
    Relations = {ta}
    Stream <- MCStream
    CustomTyped = {}
    Oversized = {}
    Retries = 0
    MaxReplies = 1
    MaxLog = 2
    MaxRestarts = 1
    Capacity = 1
    MaxDeaths = 1
    MaxEvictions = 0
INVARIANTS
    EndToEnd
    SourceOrder
PROPERTIES
    NothingVanishes
CHECK_DEADLOCK FALSE
