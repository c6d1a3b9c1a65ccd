CONSTANTS
    Producers = {p1, p2}
    Workers = {w1, w2, w3}
    Rounds = 2
    Total = 3
    MAX_QUEUE_SIZE = 2
    Fds = {101, 102}
    MaxConns = 3
    MaxSpurious = 1
    NoThread = NoThread
    Null = Null
SPECIFICATION MCSpec
INVARIANTS CountMatchesList FdOwnership StartedInOrder NoMissedSignal
PROPERTIES ImplementsWorkQueue AllDone
CHECK_DEADLOCK FALSE
