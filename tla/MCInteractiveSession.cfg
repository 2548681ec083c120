CONSTANTS
    HandlerOnMain = TRUE
    Configs <- MCConfigs
    MaxSignals <- MCMaxSignals
SPECIFICATION FairSpec
\* The process ends: once it has, nothing takes a step.
CHECK_DEADLOCK FALSE
INVARIANT TypeOK ShutdownOnce EndOnlySaved
PROPERTY ShutdownEnds ShutdownSpec
