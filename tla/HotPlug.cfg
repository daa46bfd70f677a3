CONSTANTS
    scope = scope
    demo = demo
    Hardware <- MCHardware
    Builtin <- MCBuiltin
    NoDevice = NoDevice
    MaxCaptures = 1
    MaxQueued = 1
    CallerWaits = FALSE
    MaxPlugs = 2
SPECIFICATION Spec
INVARIANTS TypeOK SelectedIsListed DefaultFindsReleased
PROPERTIES SelectionFollowsHardware StopHotplugReturns
CHECK_DEADLOCK FALSE
