CONSTANTS
    Workers = {w1, w2}
    Fds = {f1, f2}
    MaxConns = 1
    MaxSpurious = 0
    NoThread = NoThread
    Null = Null
SPECIFICATION Spec
CHECK_DEADLOCK FALSE
PROPERTY PoolShutsDown
