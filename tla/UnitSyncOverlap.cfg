SPECIFICATION Spec
CONSTANTS
    one = one
    other = other
    MaxIds = 4
    Keys = {1, 2}
    Signs = {"s1", "s2"}
    Refreshes = {one, other}
    Requests = {one, other}
    AutoDownload = TRUE
    MaxSyncs = 3
    MaxAsks = 1
    MaxReads = 0
    MaxFaults = 1
INVARIANTS TypeOK CopyOnDisk
PROPERTIES DownloadsSurvive
SYMMETRY Tasks
CHECK_DEADLOCK FALSE
