\* Two runs with windows of 1 and 2, two reviews and a timeline generation.
CONSTANTS
    None = None
    Nobody = Nobody
    Run = {r1, r2}
    Review = {u1, u2}
    Generation = {g}
    Given <- MCGiven
    Earlier = {1, 2, 3, 4}
    Sources = {{5}}
    Windows = {1, 2}
    Faults = TRUE
SYMMETRY Symmetry
SPECIFICATION FindingsSpec
INVARIANTS
    FindingsConsistent
    RunsNeverCollide
PROPERTIES
    RunMissesNothing
    ImplementsReview
