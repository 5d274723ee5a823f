SPECIFICATION Spec
CONSTANTS
    ch1 = ch1
    ch2 = ch2
    alice = alice
    bob = bob
    alice2 = alice2
    Chapters = {ch1, ch2}
    ReadingOrder <- InOrder
    Selections <- OneOrBoth
    Windows = {w1}
    MarkCapacity = 1
    MaxMarks = 2
    MaxMarkFaults = 1
    Saved = {ch1, ch2}
    PageCount = 2
    MaxDeviceWishes = 2
    MaxDeviceFaults = 1
    People = {alice, bob}
    Tabs = {t1, t2}
    SavedLength = 2
    MaxSaves = 2
    MaxSignIns = 2
    MaxWorkerFaults = 1
    Subjects = {alice, alice2, bob}
    NameOf <- PersonOf
    SignIns = {r1, r2}
    MaxWritten = 2
    MaxStarts = 2
    Paths = {p1, p2}
    Titles = {tale, novel}
    Scans = {"periodic", "manual"}
    MaxMoves = 2
    MaxHitches = 1
    LastChapter = 3
    PagesIn <- TwoInSecond
    StripReach = 1
    MaxToggles = 2
    Readers = {alice, bob}
    Origins = {o1}
    Addresses = {a1}
    MaxRows = 2
    MaxExports = 1
    MaxRestores = 2
    LiveUnits = {ch1, ch2}
    LocalUnits = {ch2}
    Viewers = {v1, v2}
    CacheSize = 1
    MaxRenewals = 1
    MaxRowMoves = 1
INVARIANTS PartsTypeOK ShownAsMarked MarkedIsStored ManifestIsWhole OthersPurged
INVARIANTS OneAccountEach HistoryWhole OneRowPerBook ShownIsReported StripInOrder
INVARIANTS RetriedIsFresh
PROPERTIES MarksDrain PullsSettle ClaimedAlone ScansSettle TurnsLand RestoreBringsBack
CHECK_DEADLOCK FALSE
