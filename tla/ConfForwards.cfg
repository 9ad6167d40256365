SPECIFICATION Spec
CONSTANTS
    Fields = {f1}
    Readers = {r1}
    Editors = {e1}
    Forwards = {w1, w2}
    MaxClock = 3
INVARIANT ForwardKept
