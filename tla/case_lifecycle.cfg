SPECIFICATION Spec
CONSTANTS
    Case = {c1, c2}
    Request = {r1, r2, r3}
    NoCase = NoCase
    NoRequest = NoRequest
    MaxClock = 1
    Faults = {"db", "crash"}
SYMMETRY Symmetry
INVARIANTS
    TypeOK
    TransactionInv
    TrailExplainsStatus
    AnswersMatchTrail
PROPERTY
    UpdatedAtAdvances
    ImplementsRecord
