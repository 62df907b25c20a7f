SPECIFICATION FairSpec
CONSTANTS
    TopicLen = 6
    Messages <- MCMessages
    Capacity = 2
    Malformed = {3}
    Refusable = {5}
    MaxDeaths = 2
    MaxEvictions = 1
INVARIANTS
    TypeOK
    CommittedAccounted
    LossBounded
    PipelineInOrder
PROPERTIES
    TopicDrains
CHECK_DEADLOCK FALSE
