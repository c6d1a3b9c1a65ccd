CONSTANTS
    Runs = {1, 2}
    total_count = 1
    MaxKills = 1
    Units = 3
    MAX_ITERATIONS = 2
    Unlocked = 99
    Numbers = {2, 3}
    Counters = {1, 2, 3}
    ITERATIONS = 2
    Nobody = 0
    NUM_THREADS = 3
    MAX_OPERATIONS = 2
    MailLines = 3
    MaxCrashes = 2
    MaxEof = 1
    Messages = 4
    Clients = {1, 2, 3}
    NoClient = 0
    Senders = {1, 2}
    MaxLines = 2
    QueueLimit = 2
SPECIFICATION MCSpec
CHECK_DEADLOCK FALSE
INVARIANTS OneToken CountsAreExact NeverTorn NothingSkipped LockStep NoSleeperForNumber
PROPERTY EverybodyFinishes
