CONSTANTS
    p1 = p1  p2 = p2  c1 = c1  c2 = c2  d1 = d1  d2 = d2  m1 = m1  m2 = m2
    Producers = {p1, p2}
    Consumers = {c1, c2}
    Droppers  = {d1}
    Ids       = {m1}
    Lens      = {3}
    MAX_QUEUE_SIZE = 2
    MAX_MSG_LEN = 3
    BufSize = 2
    NoThread = NoThread
    NoId = NoId
SPECIFICATION Spec
SYMMETRY MCSymmetry
INVARIANTS TypeOK TokenInv SlotReady DropWakesAll
PROPERTY DroppedIsFrozen
