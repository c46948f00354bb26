CONSTANTS
    dA = dA
    dB = dB
    c1 = c1
    c2 = c2
    Digests <- MCDigests
    Configurations <- MCConfigurations
    FirstDigest = dA
    FirstConfiguration = c1
    MaxRequests = 2
    Batch = 1
    Forces = TRUE
    MaxDeploys = 2
    MaxClears = 1
    MaxFaults = 1
SPECIFICATION MCSpec
INVARIANTS LaunchedOnce OneCanaryPerDeployment
PROPERTIES LostOnlyByDeath EveryRequestConsumed GateOpens
CHECK_DEADLOCK FALSE
