CONSTANTS
    Customers = {k1, k2}
    CHAIRS_COUNT = 2
    MaxSpurious = 0
    NoOne = NoOne
    TheBarber = TheBarber
SPECIFICATION Spec
CHECK_DEADLOCK FALSE
PROPERTY AllServed
