SPECIFICATION Spec
CONSTANTS
    ta = ta
    tb = tb
    Relations = {ta, tb}
    Stream <- MCStream
    CustomTyped = {}
    Oversized = {6}
    Retries = 1
    MaxReplies = 1
    MaxLog = 3
    MaxRestarts = 1
INVARIANTS
    TypeOK
    ConfirmedAccounted
    SchemaCurrent
    DisorderOnlyByRetry
CHECK_DEADLOCK FALSE
