SPECIFICATION Spec
CONSTANTS
    Slots = {s1, s2}
    MaxRows = 2
    MaxTexts = 2
    MaxChanges = 2
    Deadlines = {d1}
    MaxLate = 1
    Readers = {r1}
    CallFaults = TRUE
    Elsewhere = TRUE
    None = None
INVARIANTS TypeOK ShownIsStored OneRowPerText SwitchShowsMode
PROPERTIES SaveKeepsUntouched
SYMMETRY SlotSymmetry
CHECK_DEADLOCK FALSE
