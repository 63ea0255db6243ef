SPECIFICATION Spec
CONSTANTS
    Processes = {p1, p2}
    MaxTime = 1
    Faults = TRUE
    None = None
INVARIANTS TypeOK StaleOnlyByOverlap OpenAnswerJustified
SYMMETRY ProcessSymmetry
