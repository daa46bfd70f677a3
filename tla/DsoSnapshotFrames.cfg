CONSTANTS
    ProbeCount = 2
    Limits <- MCLimits
    EnvelopeScaleFactor = 2
    EnvelopeDataUnit = 1
    ScaleStepCount = 2
    Pad = 1
    MaxPackets = 3
SPECIFICATION MeasureSpec
PROPERTIES FirstLevelFollowsData
CHECK_DEADLOCK FALSE
