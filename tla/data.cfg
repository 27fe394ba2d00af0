SPECIFICATION DataSpec
CONSTANTS
    MaxInput = 7
    MaxFrame = 16
    Cpus = {"cpu0"}
    MaxTicks = 3
INVARIANTS
    LinesWhole
    PixelsWhole
    LoadsTold
\* an input may have been flushed
CHECK_DEADLOCK FALSE
