SPECIFICATION Spec
CONSTANTS
    l1 = l1
    l2 = l2
    l3 = l3
    l4 = l4
    Link = {l1, l2, l3, l4}
    ToDestination = {l1}
    DirectCost = 2
    DirectPref = 100
    Cost = {2, 3, 4}
    AtOnce = TRUE
    MaxSlots = 3
CHECK_DEADLOCK FALSE
INVARIANTS
    TypeOK
    BestIsInstalled
    DownLinksAreUnused
PROPERTIES
    MultipathForSeveral
