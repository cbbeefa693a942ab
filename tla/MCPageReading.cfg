SPECIFICATION Spec
CONSTANTS
    Frames = {1, 2}
    Header = 2
    ShortHeader = 1
    FrameError = 2
    MaxChars = 5
    MaxElements = 1
    MaxFrame = 2
    MaxOffset = 3
    MaxCursor = 2
    MaxCache = 2
    None = None
    MaxLength = 2
    MaxCommands = 3
    MaxChanges = 1
    MaxFaults = 1
INVARIANTS HoldsWhatWasThere ReadsThrough
PROPERTY ClicksWhatIsShown
CHECK_DEADLOCK FALSE
