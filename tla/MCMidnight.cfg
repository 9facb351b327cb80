SPECIFICATION Spec
CONSTANTS
  Creds = {1}
  Slots = {s1, s2}
  Weights = {1}
  Limits = {2}
  MaxDay = 1
  MaxIncidents = 0
INVARIANT
  CounterIsTodays
