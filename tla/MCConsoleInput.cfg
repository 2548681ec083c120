\* The prompts of transfer() on a small instance; transfer() returns once
\* it has submitted, aborted or crashed, so nothing takes a step after.
CONSTANTS
    Chars <- MCChars
    MaxLen = 3
    NumDecimalPlaces = 1
    UInt64 = 100
    IntMax = 99
    UInt16 = 8
    MinFee = 1
    MinMixin = 0
    DefaultMixin = 0
    Balances <- MCBalances
SPECIFICATION Spec
CHECK_DEADLOCK FALSE
INVARIANT TypeOK AmountParseMatchesSpec
