CONSTANTS
    dscope = dscope
    dslogic = dslogic
    virtual = virtual
    Devices <- MCDevices
    Virtual <- MCVirtual
    DSCope <- MCDSCope
    Scans <- MCScans
    NoDevice = NoDevice
    MaxCaptures = 3
    MaxQueued = 2
    CallerWaits = TRUE
    MaxSettings = 2
SPECIFICATION Spec
INVARIANTS TypeOK DeviceReady OutputByCapture
    OneChannel LimitIsCached
PROPERTIES WorkReturns ScaleNotOlder StreamSpec
CHECK_DEADLOCK FALSE
