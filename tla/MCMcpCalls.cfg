SPECIFICATION LiveSpec
CONSTANTS
    Calls = {a, b}
    Conns = {k1, k2, k3}
    Ids = {1, 2, 3}
    None = None
    Mute = {b}
    MaxIpc = 2
    MaxCalls = 2
    MaxFaults = 1
INVARIANTS Confirmed Truthful
PROPERTY CallsReturn
CHECK_DEADLOCK FALSE
