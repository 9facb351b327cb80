SPECIFICATION Spec
CONSTANTS
  MaxSends = 2
  MaxCrashes = 0
INVARIANT
  VerifiedIsBound
CHECK_DEADLOCK FALSE
