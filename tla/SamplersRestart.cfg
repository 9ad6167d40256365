SPECIFICATION Spec
CONSTANTS
    Ports = {p1, p2}
    MaxFlips = 2
    MaxVisits = 2
    MaxBytes = 2
    MaxLost = 1
    Grain = 2
    Plain <- MCPlain
    Reading <- MCReading
PROPERTY FirstPollSkipped
CHECK_DEADLOCK FALSE
