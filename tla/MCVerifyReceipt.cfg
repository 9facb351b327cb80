CONSTANTS
    PREFIX_MIN = 2
    SQUASH_MIN = 3
    SAFE_INTEGER = 3
    Rules <- MCRules
    MaxText = 1
    MaxFaults = 0
SPECIFICATION Spec
CHECK_DEADLOCK FALSE
INVARIANT
    VerifyReceiptPasses
