SPECIFICATION Spec
CONSTANTS
    Editions <- MCEditions
    Shipped <- MCShipped
    Left <- MCLeft
    Renders = {r1, r2}
    MaxSaves = 1
    MaxReboots = 1
    MaxInFlight = 1
    Cuts = {2, 5, 10}
INVARIANTS
    LoadedDialsSane
    OrdersAlwaysLoad
    UpgradeKeepsOrder
    StaleEstimateStraddles
PROPERTIES
    SavedSettingsDecide
CHECK_DEADLOCK FALSE
