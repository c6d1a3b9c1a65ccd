CONSTANTS
    p1 = p1  p2 = p2  c1 = c1  c2 = c2
    Producers = {p1, p2}
    Consumers = {c1, c2}
    Droppers  = {}
    Ids       <- MCIds
    Order     <- MCOrder
    Lens      = {3}
    TextLen   = 3
    PutAttempts = 2
    GetAttempts = 3
    MAX_QUEUE_SIZE = 2
    MAX_MSG_LEN = 3
    BufSize = 2
    NoThread = NoThread
    NoId = NoId
SPECIFICATION AppSpec
CHECK_DEADLOCK FALSE
PROPERTY AllThreadsFinish
