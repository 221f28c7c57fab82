SPECIFICATION FairSpec
CONSTANTS
    a1 = a1
    r1 = r1
    r2 = r2
    d1 = d1
    Nothing = Nothing
    Artifacts <- OneArchive
    Runs <- TwoRuns
    Downloads <- OneDownload
    MaxDownloads = 1
    MaxCrashes = 1
    MaxFaults = 1
INVARIANTS TypeOK InputPresent OfferedLogExists DeletedInTime
PROPERTIES KeepsCustody RunsCollected ArtifactsCollected
CHECK_DEADLOCK FALSE
