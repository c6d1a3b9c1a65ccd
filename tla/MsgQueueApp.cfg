CONSTANTS
    p1 = p1  p2 = p2  c1 = c1  c2 = c2
    Producers = {p1}
    Consumers = {c1, c2}
    Droppers  = {d1}
    Ids       <- MCIds
    Order     <- MCOrder
    Lens      = {3}
    TextLen   = 3
    PutAttempts = 3
    GetAttempts = 2
    MAX_QUEUE_SIZE = 2
    MAX_MSG_LEN = 3
    BufSize = 2
    NoThread = NoThread
    NoId = NoId
SPECIFICATION AppSpec
CHECK_DEADLOCK FALSE
INVARIANTS ExactlyOnce InOrder
PROPERTIES AllThreadsFinish ImplementsChannel
