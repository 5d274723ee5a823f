SPECIFICATION SavedSpec
CONSTANTS
    People = {alice, bob}
    Tabs = {t1}
    SavedLength = 1
    MaxSaves = 2
    MaxSignIns = 1
    MaxWorkerFaults = 1
INVARIANT FinishedStays
CHECK_DEADLOCK FALSE
