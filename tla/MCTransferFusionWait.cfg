CONSTANTS
    Modulus <- MCModulus
    MinFee <- MCMinFee
    Balances <- MCBalances
    Amounts <- MCAmounts
    Fees <- MCFees
    Mixins <- MCMixins
    DefaultMixin <- MCDefaultMixin
    SizeChunks <- MCSizeChunks
    WaitTicks <- MCWaitTicks
SPECIFICATION Spec
\* One command: it returns to the prompt and the model stops there.
CHECK_DEADLOCK FALSE
INVARIANT FusionAbortOnlyWhenShort
