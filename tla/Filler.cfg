CONSTANTS
    Tokens = {usdc, xlm}
    VaultCode = {v1}
    Strangers = {stranger}
    Amounts <- MCAmounts
    MaxAtRest = 2
    MaxServed = 3
SPECIFICATION Spec
INVARIANTS FillerTypeOK AtRestUntouched
CHECK_DEADLOCK FALSE
