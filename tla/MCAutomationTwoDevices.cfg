\* By hand: two devices on a channel of one, so that one device's reading displaces another's.
CONSTANTS
    Entities = {1,2}
    States <- TwoStates
    ChanSize = 1
    MaxWall = 2
    Generations <- OnlyChime
    MaxDisturbances = 1
SPECIFICATION Spec
INVARIANTS
    TypeOK
    OncePerInstant
    LatestReadingArrives
PROPERTIES
    HoldsAreHonest
    EditsSwallowNothing
CHECK_DEADLOCK FALSE
