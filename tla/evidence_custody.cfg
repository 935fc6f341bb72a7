SPECIFICATION CustodySpec
CONSTANTS
    Case = {c1}
    Request = {r1, r2, r3}
    NoCase = NoCase
    NoRequest = NoRequest
    Content = {d1, d2}
    NoContent = NoContent
    MaxClock = 0
    Faults = {"db", "crash", "io", "unlink", "tamper"}
SYMMETRY Symmetry
INVARIANTS
    CustodyTypeOK
    CustodyInv
    RecordHasCompleteFile
    NoOrphanFile
    CustodyMatchesTrail
    MismatchMeansTampering
    CustodyAnswers
    NothingRegisteredAfterClose
PROPERTY
    ImplementsRecord
