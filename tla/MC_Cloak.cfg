CONSTANTS
    Devices <- MCDevices
    NoDevice = "none"
    Parent <- MCParent
    SimpleBus <- MCSimpleBus
    DevCsl <- MCDevCsl
    DevRes <- MCDevRes
    DevIrqs <- MCDevIrqs
    DevClasses <- MCDevClasses
    Irqs = {"i1", "i2", "i3"}
    ClassOrder <- MCClassOrder
    Cores = {"c1"}
    CslLines = {"l1", "l2", "l61"}
    Windows = {"w1", "w2", "wfb"}
    Checks = {"deny", "fb"}
    DenyAll = "deny"
    FbCheck = "fb"
    FbCsl = "l61"
    FbWindow = "wfb"
    MaxDepth = 4
SPECIFICATION FairSpec
VIEW HistoryFreeView
INVARIANTS
    TypeOK
    CslHwMatchesCount
    ProtectionAccounting
    PolicyEnforcedWhenIdle
PROPERTIES
    KeysRefinement
    SetReturns
