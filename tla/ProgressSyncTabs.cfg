SPECIFICATION Spec
CONSTANTS
    alice = alice
    bob = bob
    browser = browser
    tab1 = tab1
    tab2 = tab2
    unit1 = unit1
    unit2 = unit2
    Users <- OneUser
    NoUser = NoUser
    Browsers = {browser}
    Tabs <- TwoTabs
    BrowserOf <- OneBrowser
    Units = {unit1}
    LateStamped <- NoLate
    Limit = 2
    Capacity = 1
    MaxTurns = 2
    MaxFaults <- TabFaults
INVARIANTS NothingLost ReplaysAreHarmless StampedInOrder ResumesAtLast
PROPERTIES LogSpec
SYMMETRY TabSymmetry
CHECK_DEADLOCK FALSE
