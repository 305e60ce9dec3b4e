\* Does the build stop when the monitor says it terminates it?
SPECIFICATION Spec
CONSTANTS
    MaxMemory = 2
    Threshold = 1
    MaxWork = 1
PROPERTIES
    AnnouncedMeansTerminated
CHECK_DEADLOCK FALSE
