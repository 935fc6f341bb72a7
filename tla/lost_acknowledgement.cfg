SPECIFICATION CustodySpec
CONSTANTS
    Case = {c1}
    Request = {r1, r2}
    NoCase = NoCase
    NoRequest = NoRequest
    Content = {d1}
    NoContent = NoContent
    MaxClock = 0
    Faults = {"db"}
INVARIANT
    CommittedFileIsKept
