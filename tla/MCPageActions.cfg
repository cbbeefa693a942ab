\* Three elements, two documents, two changes of the page, one command with all
\* that becomes of its approvals, texts of two keys.
SPECIFICATION FairSpec
CONSTANTS
    a = a
    b = b
    c = c
    Refs = {a, b, c}
    NoRef = none
    Commands <- MCCommands
    Pages <- MCPages
    Relabels = {"card", "gone"}
    MaxBindings = 1
    Keys = 2
    MaxEpoch = 2
    MaxChanges = 2
    MaxJobs = 1
INVARIANTS
    ActsAsConfirmed
    
    PartialReport
PROPERTIES
    CommandsEnd
CHECK_DEADLOCK FALSE
