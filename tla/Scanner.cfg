SPECIFICATION FairSpec
CONSTANTS
    NIfaces = 2
    Loop = Loop
    Rescans = {r1}
    Edits = {e1}
    MaxNet = 2
    MaxEdits = 2
    MaxCrashes = 1
INVARIANTS
    TypeOK
PROPERTIES
    DevicesInOrder
    CacheInOrder
    InPlace
    LabelsShow
