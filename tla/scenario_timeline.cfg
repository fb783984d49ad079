SPECIFICATION FairSpec
CONSTANTS
    Disturbances <- MCDisturbances
    Seeds = {1, 2, 3, 4, 5}
    DayLength = 10
    Trips <- MCTrips
    Topics = {1, 2}
    Scenarios <- DistinctSeeds
    MaxPreparations = 3
INVARIANTS TypeOK PlantFollowsSchedule OwnTimeline RetainedIsFinal RelationshipsOwned
PROPERTIES PreparationEnds
CHECK_DEADLOCK FALSE
