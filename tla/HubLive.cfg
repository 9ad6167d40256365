SPECIFICATION FairSpec
CONSTANTS
    Producers = {g1}
    Heartbeat = beat
    Panels = {p}
    EvCap = 1
    LossyCap = 1
    MaxWorld = 4
    MaxSeq = 1
PROPERTIES
    PanelsConverge
