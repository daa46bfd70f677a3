CONSTANTS
    hardware = hardware
    virtual = virtual
    Devices <- MCDevices
    Virtual <- MCVirtual
    NoDevice = NoDevice
    MaxCaptures = 3
    MaxQueued = 2
    CallerWaits = TRUE
SPECIFICATION Spec
INVARIANTS OneSampler CaptureKeepsDevice QueuedByCapture NoFeedAfterDestroy
PROPERTIES StopCompletes CallReturns CaptureSpec
