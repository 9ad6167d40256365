SPECIFICATION Spec
CONSTANTS
    Producers = {g1, g2}
    Heartbeat = beat
    Panels = {p}
    EvCap = 1
    LossyCap = 1
    MaxWorld = 2
    MaxSeq = 2
SYMMETRY Symmetry
INVARIANTS
    TypeOK
    LatestWins
    StatePreferred
    PolledConsole
    NotificationsAddUp
