\* The read after the commit of a report may fail.
CONSTANTS
    None = None
    Nobody = Nobody
    MaxAuditEvents = 5
    Reporter = {p}
    Writer = {}
    Download = {d}
    Types = {"NTFS_MFT"}
    FirstType = "NTFS_MFT"
    Formats = {"json", "html"}
    Faults = TRUE
SPECIFICATION ReportSpec
INVARIANT
    CommittedReportKeepsSidecar
