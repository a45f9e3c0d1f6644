CONSTANTS
    Drivers <- MCDrivers
    SomeRates = {1, 40, 1000}
    SomeExposures = {1, 100000}
    SomeGains = {240}
    MaxCalls = 2
    MaxFaults = 1
SPECIFICATION MCSpec
CHECK_DEADLOCK FALSE
INVARIANT FormatKept
INVARIANT RegistersFollow
INVARIANT SensorInBounds
INVARIANT TriggerKept
PROPERTY ExposureTakes
