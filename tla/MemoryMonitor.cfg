\* Free memory crosses the threshold in both directions while the body runs.
SPECIFICATION FairSpec
CONSTANTS
    MaxMemory = 3
    Threshold = 1
    MaxWork = 1
INVARIANTS
    TypeOK
    WatchIsSound
PROPERTIES
    ReportIsFinal
    BlockIsLeft
\* The block has been left: nothing more happens.
CHECK_DEADLOCK FALSE
