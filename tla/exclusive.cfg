SPECIFICATION Spec
CONSTANTS
    w1 = w1
    w2 = w2
    a1 = a1
    a2 = a2
    NoRun = NoRun
    AgentOf <- TwoAgents
    Runs = {r1}
    Workers = {w1, w2}
    Agents = {a1, a2}
    MaxAttempts = 2
    Overruns = FALSE
    MaxStops = 1
    MaxCrashes = 2
    MaxFaults = 1
INVARIANTS ExclusiveExecution ResultCoherent FinishedRunSettled
PROPERTIES JobFinal OnlyStragglersReopen RefinesLeaseQueue
CHECK_DEADLOCK FALSE
