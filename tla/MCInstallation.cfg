SPECIFICATION Spec
CONSTANTS
    Runs = {p, q}
    Versions = {1, 2}
    None = None
    Edited = Edited
    Editable = {"skill", "client", "unit", "copy", "launcher"}
    MaxRuns = 2
    MaxFaults = 2
PROPERTIES
    UserFilesKept
    Repairs
    CleansUpAfterItself
SYMMETRY Symmetry
CHECK_DEADLOCK FALSE
