SPECIFICATION Spec
CONSTANTS
    Domains = {d1}
    Processes = {p1, p2, p3}
    MaxRows = 3
    Faults = TRUE
    None = None
SYMMETRY ProcessSymmetry
INVARIANTS TypeOK SetMatchesTable LookupJustified
