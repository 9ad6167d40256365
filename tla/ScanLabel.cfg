SPECIFICATION Spec
CONSTANTS
    NIfaces = 1
    Loop = Loop
    Rescans = {}
    Edits = {e1}
    MaxNet = 1
    MaxEdits = 2
    MaxCrashes = 0
PROPERTIES
    LabelStays
