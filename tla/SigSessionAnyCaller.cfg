CONSTANTS
    hardware = hardware
    virtual = virtual
    Devices <- MCDevices
    Virtual <- MCVirtual
    NoDevice = NoDevice
    MaxCaptures = 2
    MaxQueued = 1
    CallerWaits = FALSE
SPECIFICATION SafeSpec
INVARIANTS TypeOK RunningIsSampled DeviceOwnership
