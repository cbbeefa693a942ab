\* Two requests at a time in one tab, a failing save, a kill and a navigation.
SPECIFICATION FairSpec
CONSTANTS
    site = site
    Slots = {s1, s2, sweeper}
    Sweeper = sweeper
    Tabs = {t1}
    Origins = {site}
    Approvals = {p1}
    None = none
    Kinds = {"approved", "fill", "complete", "prepare", "cancel", "grant", "revoke", "resume"}
    SiteOf <- MCSiteOf
    MaxHeld = 2
    MaxTasks = 3
    MaxFaults = 1
    MaxKills = 1
    MaxMoves = 1
INVARIANTS
    UsedOnce
    RevokedStaysRevoked
    OneAtATime
PROPERTIES
    TasksEnd
CHECK_DEADLOCK FALSE
