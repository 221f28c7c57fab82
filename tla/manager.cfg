SPECIFICATION FairManagerSpec
CONSTANTS
    u1 = u1
    p1 = p1
    Nothing = Nothing
    Absent = Absent
    NumServers = 2
    MaxSignals = 2
    MaxTimeoutSec = 600
    Requests <- Both
    Uploads <- OneUpload
    RunRequests <- OneRun
    ServerOf <- Assigned
    Archives <- SomeArchives
    Params <- SomeParams
INVARIANTS TypeOK FailureReported AcceptedStarts TimeoutAgrees
PROPERTIES KeepsCustody CutAfterDeadline ServeEnds
CHECK_DEADLOCK FALSE
