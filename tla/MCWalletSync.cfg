CONSTANTS
    MaxHeight <- MCMaxHeight
    MaxTx <- MCMaxTx
    SavePeriod <- MCSavePeriod
    StuckSaveAfter <- MCStuckSaveAfter
    StuckWarnAfter <- MCStuckWarnAfter
    StuckCap <- MCStuckCap
SPECIFICATION FairSpec
INVARIANT TypeOK
INVARIANT NotifyExactlyOnce
PROPERTY CatchUpTerminates
PROPERTY FeedSpec
