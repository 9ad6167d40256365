SPECIFICATION FairSpec
CONSTANTS
    Requests = {r1, r2}
    Pins = {pinA, pinB}
    pinA = pinA
    pinB = pinB
    SettingChanges <- MCSettingChanges
    FirstFiles <- MCFirstFiles
    Layouts = {0}
    NoPin = NoPin
    Fields = {"telegram"}
    Values = {0, 1}
    LockAfter = 1
    MaxShift = 1
    MaxLockout = 2
    TTL = 1
    MaxSessions = 2
    MaxFails = 2
    MaxMints = 3
INVARIANTS
    TypeOK
    YoungestInForce
PROPERTIES
    AttemptsSpaced
    ImplementsAtomic
    RequestsAnswered
