\* A parser execution may commit between the two reads of a generation.
CONSTANTS
    None = None
    Malformed = Malformed
    MaxFiletime = 3
    Execution = {1}
    Generation = {g1}
    Reader = {r}
    Outcomes <- MCOutcomes
    Earlier <- MCEarlier
    Filters <- MCFilters
    Offsets = {1}
    Limits = {3}
    MaxRows = 9
    Faults = FALSE
SPECIFICATION TimelineSpec
INVARIANT
    UnfaultedGenerationIsRecorded
