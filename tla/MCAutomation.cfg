\* One device, edits of a rule with a hold, a delay and a schedule.
CONSTANTS
    Entities = {1}
    States <- TwoStates
    ChanSize = 1
    MaxWall = 2
    Generations <- Edits
    MaxDisturbances = 3
SPECIFICATION FairSpec
INVARIANTS
    OncePerInstant
    LatestReadingArrives
PROPERTIES
    HoldsAreHonest
    EditsSwallowNothing
    TailsRun
CHECK_DEADLOCK FALSE
