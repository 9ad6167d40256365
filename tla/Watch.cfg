SPECIFICATION FairSpec
CONSTANTS
    Ids = {1, 2, 3}
    MaxLives = 3
    MaxRestarts = 2
INVARIANTS
    TypeOK
    OneTailer
PROPERTIES
    RunningIsFollowed
