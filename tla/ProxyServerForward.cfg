CONSTANTS
    Fds = {4, 5, 6, 7}
    MAX_CONNECTIONS = 6
    MaxAccepts = 2
    listen_fd = 3
    NoFd = NoFd
SPECIFICATION Spec
INVARIANT ForwardsToMate
CHECK_DEADLOCK FALSE
