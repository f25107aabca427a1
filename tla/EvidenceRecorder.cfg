CONSTANTS
    Calls = {c1, c2, c3}
    RequestIDs = {q1, q2}
    BufferSize = 1
    NoRecord = NoRecord
SPECIFICATION FairSpec
INVARIANTS
    ExactlyOnePlace
    AcceptedInOrder
    DrainedOnClose
PROPERTIES
    WorkerProgresses
    ImplementsLog
CHECK_DEADLOCK FALSE
