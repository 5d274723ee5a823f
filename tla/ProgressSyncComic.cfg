SPECIFICATION Spec
CONSTANTS
    alice = alice
    bob = bob
    browser = browser
    tab1 = tab1
    tab2 = tab2
    unit1 = unit1
    unit2 = unit2
    Users <- OneUser
    NoUser = NoUser
    Browsers = {browser}
    Tabs <- OneTab
    BrowserOf <- OneBrowser
    Units = {unit1}
    LateStamped <- AllLate
    Limit = 2
    Capacity = 1
    MaxTurns = 2
    MaxFaults <- NetFaults
INVARIANT StampedInOrder

CHECK_DEADLOCK FALSE
