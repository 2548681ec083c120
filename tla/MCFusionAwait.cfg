CONSTANTS
    Total <- MCTotal
    InitialOutputs <- MCInitialOutputs
    MinFee <- MCMinFee
    MinInputs <- MCMinInputs
    MaxInputs <- MCMaxInputs
SPECIFICATION Spec

PROPERTY AwaitEndsOnlyWhenConfirmed
