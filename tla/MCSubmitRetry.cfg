\* A batch whose submit has a risk, on a page that never changes.
SPECIFICATION Spec
CONSTANTS
    a = a
    b = b
    c = c
    Refs = {a, b, c}
    NoRef = none
    Commands <- SubmitCommands
    Pages <- MCPages
    Relabels = {"card", "gone"}
    MaxBindings = 1
    Keys = 2
    MaxEpoch = 1
    MaxChanges = 0
    MaxJobs = 1
INVARIANTS
    RetryRunsTheBatch
CHECK_DEADLOCK FALSE
