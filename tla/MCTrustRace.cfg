SPECIFICATION Spec
CONSTANTS
  Requests = {r1}
  Direct = {}
  Envelopes = {e1}
  MaxCandidates = 2
  MaxBoots = 1
  MaxCrashes = 0
INVARIANT
  TrustFollowsProof
CHECK_DEADLOCK FALSE
