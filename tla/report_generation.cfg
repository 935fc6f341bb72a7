\* A report, two requests of other services and a download; five of up to eight
\* listed audit entries fit.
CONSTANTS
    None = None
    Nobody = Nobody
    MaxAuditEvents = 5
    Reporter = {p}
    Writer = {w1, w2}
    Download = {d}
    Types = {"NTFS_MFT", "REGISTRY"}
    FirstType = "REGISTRY"
    Formats = {"json", "html"}
    Faults = TRUE
SYMMETRY Symmetry
SPECIFICATION ReportSpec
INVARIANTS
    FailedReportLeavesNothing
    LifecycleTimesShown
    DownloadsAreFaithful
PROPERTY
    ReportIsOneState
