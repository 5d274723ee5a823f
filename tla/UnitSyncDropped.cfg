SPECIFICATION Spec
CONSTANTS
    one = one
    other = other
    MaxIds = 3
    Keys = {1, 2}
    Signs = {"s1", "s2"}
    Refreshes = {one}
    Requests = {}
    AutoDownload = TRUE
    MaxSyncs = 3
    MaxAsks = 1
    MaxReads = 0
    MaxFaults = 0
PROPERTY OnlyEmptyIsDropped
CHECK_DEADLOCK FALSE
