SPECIFICATION Spec
CONSTANTS
    t1 = t1
    d1 = d1
    Tenants <- OneTenant
    Devices <- OneDevice
    Regions <- OneRegion
    Home <- HomeUS
    MaxLinks = 2
    MaxChanges = 0
    MaxReloads = 0
CHECK_DEADLOCK FALSE
INVARIANT LinkResult
