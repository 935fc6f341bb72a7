\* Small files of each of the five formats; FILETIMEs 0..4, 4 has no datetime.
CONSTANTS
    None = None
    Malformed = Malformed
    MaxFiletime = 3
    Jobs <- MCJobs
SPECIFICATION ParsersSpec
INVARIANTS
    ResultsMeetContract
    NothingLostSilently
    KeptRecordsReadBack
    LinksReadBack
    HiveInPathOrder
    EveryTimestampIsOneEvent
CHECK_DEADLOCK FALSE
