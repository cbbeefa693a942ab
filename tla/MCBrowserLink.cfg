SPECIFICATION LiveSpec
CONSTANTS
    Conn = {c1, c2, c3}
    None = None
    MaxWaiting = 2
    LongDelay = 2
    MaxFaults = 2
INVARIANTS Agreement PlacesComeBack
PROPERTY Reconnects
