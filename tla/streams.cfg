SPECIFICATION FairSpec
CONSTANTS
    Kinds = {"create", "delete", "plain"}
    Capacity = 2
    PipeRoom = 1
    WireRoom = 1
    MaxLines = 2
INVARIANT HonestSuccess
PROPERTY LinesDelivered
PROPERTY OperationEnds
PROPERTY ReaderLearns
CHECK_DEADLOCK FALSE
