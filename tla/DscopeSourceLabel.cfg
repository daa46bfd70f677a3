CONSTANTS
    dscope = dscope
    dslogic = dslogic
    virtual = virtual
    Devices <- MCDevices
    Virtual <- MCVirtual
    DSCope <- MCDSCope
    Scans <- MCScans
    NoDevice = NoDevice
    MaxCaptures = 2
    MaxQueued = 1
    CallerWaits = TRUE
    MaxSettings = 1
SPECIFICATION SafeSpec
INVARIANTS LabelAfterActivate
CHECK_DEADLOCK FALSE
