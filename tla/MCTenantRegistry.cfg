SPECIFICATION Spec
CONSTANTS
    t1 = t1
    d1 = d1
    Tenants <- OneTenant
    Devices <- OneDevice
    Regions <- TwoRegions
    Home <- HomeUS
    MaxLinks = 2
    MaxChanges = 2
    MaxReloads = 1
CHECK_DEADLOCK FALSE
INVARIANTS TypeOK ListsCurrent NoOrphanDevices UnlinkNotCalledBack
