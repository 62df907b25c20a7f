SPECIFICATION Spec
CONSTANTS
    Null = Null
    Toasted = Toasted
    HalfLimit = 1000
    LongLimit = 10000
    Tables = {t1, t2}
    Definitions <- MCDefinitions
    Texts = {"a", "b"}
    ConfigFiles <- MCConfigFiles
SYMMETRY TableSymmetry
INVARIANTS
    TypeOK
    EventNamesRow
    RequestedNotPastConfigured
CHECK_DEADLOCK FALSE
