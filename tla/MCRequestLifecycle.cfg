SPECIFICATION FairSpec
CONSTANTS
  Requests = {r1}
  Direct = {d1}
  Envelopes = {e1}
  MaxCandidates = 2
  MaxBoots = 2
  MaxCrashes = 1
INVARIANTS
  BooksAgree
  TrustIsEarned
  SingleDispatch
  DispatchIsDecided
PROPERTIES
  FinalIsFinal
  RequestSettles
  ProofSettles
CHECK_DEADLOCK FALSE
