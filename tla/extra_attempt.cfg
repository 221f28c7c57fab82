SPECIFICATION Spec
CONSTANTS
    w1 = w1
    w2 = w2
    a1 = a1
    a2 = a2
    NoRun = NoRun
    AgentOf <- OneWorker
    Runs = {r1}
    Workers = {w1}
    Agents = {a1}
    MaxAttempts = 2
    Overruns = FALSE
    MaxStops = 0
    MaxCrashes = 0
    MaxFaults = 0
INVARIANT AttemptsWithinMax
CHECK_DEADLOCK FALSE
