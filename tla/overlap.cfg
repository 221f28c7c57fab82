SPECIFICATION FairSpec
CONSTANTS
    w1 = w1
    w2 = w2
    a1 = a1
    a2 = a2
    NoRun = NoRun
    AgentOf <- OneAgent
    Runs = {r1}
    Workers = {w1, w2}
    Agents = {a1}
    MaxAttempts = 2
    Overruns = TRUE
    MaxStops = 1
    MaxCrashes = 1
    MaxFaults = 1
INVARIANTS TypeOK AttemptsBounded DistinctAttempts NoEarlyGiveUp RunningIsHeld
PROPERTIES JobSettlesOrExhausted RunSettlesAlone RunsAsExecutions
CHECK_DEADLOCK FALSE
