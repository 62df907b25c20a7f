SPECIFICATION Spec
CONSTANTS
    Null = Null
    Toasted = Toasted
    HalfLimit = 1000
    LongLimit = 10000
    Tables = {t1, t2}
    Definitions <- MCDefinitions
    Texts = {"a", "b"}
    ConfigFiles <- MCConfigFiles
SYMMETRY TableSymmetry
INVARIANT
    AfterIsNew
CHECK_DEADLOCK FALSE
