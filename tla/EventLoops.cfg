CONSTANTS
    Fds = {4, 5, 6, 7}
    MAX_CONNECTIONS = 5
    MaxAccepts = 3
    listen_fd = 3
    NoFd = NoFd
    SlotCount = 2
    BUF_SIZE = 4
    RELAY_LIMIT = 1
    SelectFds = {4, 5, 6}
    MaxClients = 3
    MaxSent = 2
    Size = 6
    NewLines = {1, 2, 4, 5}
    BUFFER_SIZE = 4
    SCREEN_HEIGHT = 2
    MaxTyped = 2
SPECIFICATION MCSpec
CHECK_DEADLOCK FALSE
INVARIANTS InStep EveryOpenFdIsPolled OneSlotPerFd PagesAreFull InBounds
PROPERTIES HangupsAreNoticed TerminalRestored
