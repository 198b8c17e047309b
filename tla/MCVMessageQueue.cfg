SPECIFICATION FairSpec
CONSTANTS
    m1 = m1
    m2 = m2
    Messages = {m1, m2}
    DataLength <- MCDataLength
    Callers = {p1, p2}
    Consumers = {c1, c2}
    None = None
INVARIANTS TypeOK DataSizeAccounted
PROPERTIES ImplementsChannel EveryMessageLeaves StopEndsConsumer
CHECK_DEADLOCK FALSE
