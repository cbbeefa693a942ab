SPECIFICATION Spec
CONSTANTS
    Runs = {c, d}
    Browsers = {a, b}
    Known = {a}
    None = None
    MaxClicks = 2
    MaxEvents = 1
SYMMETRY Symmetry
INVARIANTS Contained SuccessIsTrue
PROPERTY EndedMeansEnded
CHECK_DEADLOCK FALSE
