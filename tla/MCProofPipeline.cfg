CONSTANTS
    PREFIX_MIN = 2
    SQUASH_MIN = 3
    SAFE_INTEGER = 3
    Rules <- MCRules
    MaxText = 4
    MaxFaults = 2
SPECIFICATION Spec
CHECK_DEADLOCK FALSE
INVARIANTS
    EnginesAgree
    ObfuscationIsFutile
    IdentitiesAgree
    DoorsAgree
    VerifiersAgree
    BoundIsGenuine
    AcceptedIsGenuine
    HonestVerifies
