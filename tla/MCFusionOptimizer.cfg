CONSTANTS
    Total <- MCTotal
    InitialOutputs <- MCInitialOutputs
    MinFee <- MCMinFee
    MinInputs <- MCMinInputs
    MaxInputs <- MCMaxInputs
SPECIFICATION FairSpec
INVARIANT TypeOK NoUnconfirmedDropped
PROPERTY FusionThresholdIsBest OptimizeReturns
