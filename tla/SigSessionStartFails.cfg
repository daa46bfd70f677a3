CONSTANTS
    hardware = hardware
    virtual = virtual
    Devices <- MCDevices
    Virtual <- MCVirtual
    NoDevice = NoDevice
    MaxCaptures = 1
    MaxQueued = 1
    CallerWaits = TRUE
SPECIFICATION SafeSpec
INVARIANTS StartFailureIsCaught
