\* Who shares the browser profile is in MCManagedTabs.
SPECIFICATION Spec
CONSTANTS
    a1 = a1
    a2 = a2
    t1 = t1
    t2 = t2
    Agents = {a1, a2}
    NoAgent = nobody
    User = user
    Popup = popup
    Tasks = {t1, t2}
    NoTask = notask
    MaxTotal = 2
    Casts <- MCCasts
    MaxUserTabs = 1
    MaxTabs = 3
INVARIANTS
    TabsRespected
    LedgerTrue
    NobodyStuck
PROPERTY NoBlankLeaked
