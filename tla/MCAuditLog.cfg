\* A queue of one line and files of two, file operations that fail twice, a kill.
SPECIFICATION FairSpec
CONSTANTS
    Outcomes = {o1, o2}
    Other = other
    NoOutcome = none
    MaxOutcomes = 2
    Burst = 1
    MaxQueue = 1
    MaxFile = 2
    MaxEvents = 5
    MaxFaults = 2
    MaxCrashes = 1
INVARIANTS
    Remembered
    OnDisk
PROPERTIES
    CloseEnds
CHECK_DEADLOCK FALSE
