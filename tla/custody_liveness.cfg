SPECIFICATION FairCustodySpec
CONSTANTS
    Case = {c1}
    Request = {r1, r2, r3}
    NoCase = NoCase
    NoRequest = NoRequest
    Content = {d1}
    NoContent = NoContent
    MaxClock = 0
    Faults = {"db", "io"}
PROPERTY
    EveryRequestAnswered
