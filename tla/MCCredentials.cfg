SPECIFICATION Spec
CONSTANTS
  Creds = {1, 2}
  Slots = {s1, s2}
  Weights = {0, 2}
  Limits = {1}
  MaxDay = 1
  MaxIncidents = 1
INVARIANTS
  OvershootBounded
  CounterCoversLedger
  RoutingIsLeastRecentlyUsed
  EveryCallIsBookedOnce
PROPERTIES
  RevocationIsTerminal
SYMMETRY SlotSymmetry
