SPECIFICATION Spec
CONSTANTS
    a1 = a1
    r1 = r1
    r2 = r2
    d1 = d1
    Nothing = Nothing
    Artifacts <- OneArchive
    Runs <- TwoRuns
    Downloads <- OneDownload
    MaxDownloads = 0
    MaxCrashes = 0
    MaxFaults = 0
INVARIANT InputKept
CHECK_DEADLOCK FALSE
