CONSTANTS
    Devices <- MCDevicesTwo
    NoDevice = "none"
    Parent <- MCParentTwo
    SimpleBus <- MCSimpleBus
    DevCsl <- MCDevCslTwo
    DevRes <- MCDevResTwo
    DevIrqs <- MCDevIrqsTwo
    DevClasses <- MCDevClassesTwo
    Irqs = {"i1"}
    ClassOrder <- MCClassOrderTwo
    Cores = {"c1", "c2"}
    CslLines = {"l1", "l2", "l61"}
    Windows = {"w1", "w2", "wfb"}
    Checks = {"deny", "fb"}
    DenyAll = "deny"
    FbCheck = "fb"
    FbCsl = "l61"
    FbWindow = "wfb"
    MaxDepth = 4
SPECIFICATION Spec
INVARIANTS
    EnableConfirmed
CHECK_DEADLOCK FALSE
