CONSTANTS
    PRODUCTS_TO_MAKE = 3
    CatIds = {cat1, cat2, cat3}
    MAX_FOOD = 10
    MIN_FOOD = 1
    CAT_EAT_AMOUNT = 1
    InitialFood = 5
    Customers = {k1, k2, k3}
    CHAIRS_COUNT = 1
    MaxSpurious = 1
    NoOne = NoOne
    TheBarber = TheBarber
    Seconds = 3
    Earlier = 5
    MaxDelay = 6
    N = 5
SPECIFICATION MCSpec
CHECK_DEADLOCK FALSE
INVARIANTS PartsConserved NobodyMissesOut ChairsBound AlarmsKept NoCircularWait WaitsForNeighbour
PROPERTIES LineFinishes HungryCatsAreCalled AwakesOrMissesAlarm NobodyForgotten ImplementsDining
