SPECIFICATION Spec
CONSTANTS
    Disturbances <- MCDisturbances
    Seeds = {1, 2, 3, 4, 5}
    DayLength = 10
    Trips <- MCTrips
    Topics = {1, 2}
    Scenarios <- Overlapping
    MaxPreparations = 2
INVARIANT PermanentFaultStays
CHECK_DEADLOCK FALSE
