SPECIFICATION ReplicaSpec
CONSTANTS
    Null = Null
    Toasted = Toasted
    TopicLen = 4
    Messages <- MCMessages
    Capacity = 1
    Malformed = {}
    Refusable <- MCMessages
    MaxDeaths = 1
    MaxEvictions = 1
    Fold <- MCFold
    BadNames = {"user"}
    Quoted = {"o'c", "o''c", "all'rows"}
    Unparsed = {"o'c"}
    Misread <- MCMisread
    Topics <- MCTopics
INVARIANTS
    ReplicaTypeOK
    FaithfulTables
    Converges
    CopiesBounded
    MissingRowDeleted
    RowsAreSent
    FailureExplained
PROPERTIES
    ImplementsConsumer
CHECK_DEADLOCK FALSE
