\* One setup with two tries of the persisted reconnect, while requests and saves
\* fail and one of these happens: a connection closes, a reconnect timer fires,
\* the user clicks, the worker is killed, the daemon restarts, a save fails after
\* the rename.  Time passes, and storage and files answer.
SPECIFICATION FairSpec
CONSTANTS
    MaxTries = 2
    MaxSetups = 1
    MaxRestarts = 1
    MaxKills = 1
    MaxTimers = 1
    MaxClicks = 1
    MaxLate = 1
    MaxDrops = 1
    MaxEvents = 1
CHECK_DEADLOCK FALSE
INVARIANTS
    NeverRolledBack
    ReceiptIsDurable
PROPERTIES
    ReportsAreTrue
    SetupsEnd
