CONSTANTS
    Options <- MCOptions
    LogArgs <- MCLogArgs
    BanArgs <- MCBanArgs
    Garbage <- MCGarbage
    MaxCommands <- MCMaxCommands
    MaxSignals <- MCMaxSignals
SPECIFICATION FairSpec
\* The process ends: once it has, nothing takes a step.
CHECK_DEADLOCK FALSE
INVARIANT TypeOK CollaboratorsLive
PROPERTY StopHonoured
