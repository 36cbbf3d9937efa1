SPECIFICATION Spec
CONSTANTS
    Writers = {w1}
    Editors = {e1}
    Short = {}
    Size = 2
    Hasty = {w1, e1}
CHECK_DEADLOCK FALSE
INVARIANTS NoPartialFile
