--------------------------- MODULE ProgressSyncMC ---------------------------
(***************************************************************************)
(* Instances of ProgressSync for TLC.                                      *)
(***************************************************************************)
EXTENDS ProgressSync, TLC

CONSTANTS alice, bob, browser, tab1, tab2, unit1, unit2

OneUser == {alice}
TwoUsers == {alice, bob}
OneTab == {tab1}
TwoTabs == {tab1, tab2}
OneBrowser == [t \in Tabs |-> browser]
NoLate == {}
AllLate == Units

TabSymmetry == Permutations({tab1, tab2})

Faults(net, expire, reload, remove, leave) ==
    [kind \in FaultKinds |->
        CASE kind = "net" -> net [] kind = "expire" -> expire
          [] kind = "reload" -> reload [] kind = "remove" -> remove
          [] kind = "leave" -> leave]

TabFaults == Faults(2, 0, 1, 1, 0)
AccountFaults == Faults(1, 1, 0, 1, 1)
SwitchFaults == Faults(1, 1, 0, 0, 0)
NetFaults == Faults(2, 0, 0, 0, 0)
=============================================================================
