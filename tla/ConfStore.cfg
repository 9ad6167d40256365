SPECIFICATION Spec
CONSTANTS
    Fields = {f1, f2}
    Readers = {r1, r2}
    Editors = {e1}
    Forwards = {w1}
    MaxClock = 3
SYMMETRY Symmetry
INVARIANTS
    TypeOK
    CacheNeverLies
    ReadsRegular
    EarlierEditsStay
