CONSTANTS
    HandlerOnMain = TRUE
    Configs <- MCConfigs
    MaxSignals <- MCMaxSignals
SPECIFICATION Spec
\* The process ends: once it has, nothing takes a step.
CHECK_DEADLOCK FALSE
INVARIANT WalletCallsSerialized
