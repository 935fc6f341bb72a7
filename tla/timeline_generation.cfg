\* An execution and three generations beside a reader, faults included.
CONSTANTS
    None = None
    Malformed = Malformed
    MaxFiletime = 3
    Execution = {1}
    Generation = {g1, g2, g3}
    Reader = {r}
    Outcomes <- MCOutcomes
    Earlier <- MCEarlier
    Filters <- MCFilters
    Offsets = {1}
    Limits = {3}
    MaxRows = 4
    Faults = TRUE
SYMMETRY Symmetry
SPECIFICATION TimelineSpec
INVARIANTS
    TimelineTypeOK
    GenerationIsComplete
    AuditedCountsAddUp
    PageWithinTotal
PROPERTY
    ImplementsTimeline
