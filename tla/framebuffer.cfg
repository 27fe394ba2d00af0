SPECIFICATION TransformSpec
CONSTANTS
    MaxInput = 1
    MaxFrame = 16
INVARIANTS
    PixelsComplete
CHECK_DEADLOCK FALSE
