SPECIFICATION Spec
CONSTANTS
    Writers = {w1}
    Editors = {e1, e2}
    Short = {e2}
    Size = 2
    Hasty = {e2}
CHECK_DEADLOCK FALSE
INVARIANTS TypeOK NoLitter NoPartialFile
PROPERTIES AtomicSpec
