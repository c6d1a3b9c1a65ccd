CONSTANTS
    Size = 6
    NewLines = {1, 2, 4, 5}
    BUFFER_SIZE = 4
    SCREEN_HEIGHT = 2
    MaxTyped = 2
SPECIFICATION Spec
CHECK_DEADLOCK FALSE
INVARIANT EndMeansAllShown
