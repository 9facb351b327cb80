SPECIFICATION FairSpec
CONSTANTS
  SafetyFacets = {"phishing_fraud", "weapons"}
  BenignFacets = {"coding", "writing"}
  Category = {1, 2}
  CATEGORY_FACET <- FacetOf
  FacetOrder <- Order
  Prompts <- Some
  MaxScore = 4
  MaxHits = 1
  kMin = 2
  Polls = {p1, p2}
  MaxRequests = 3
  MaxBoots = 2
INVARIANTS
  BulletinIsHonest
  BulletinAddsUp
PROPERTIES
  PageCatchesUp
