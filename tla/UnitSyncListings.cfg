SPECIFICATION Spec
CONSTANTS
    one = one
    other = other
    MaxIds = 4
    Keys = {1, 2, 3}
    Signs = {"s1", "s2"}
    Refreshes = {one}
    Requests = {}
    AutoDownload = TRUE
    MaxSyncs = 2
    MaxAsks = 0
    MaxReads = 2
    MaxFaults = 0
INVARIANTS KeysAreUnique MatchesSource ReadingFollows
CHECK_DEADLOCK FALSE
