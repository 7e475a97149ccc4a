\* One stream of three events, a verifier with the published events only.
CONSTANTS
  s1 = s1
  s2 = s2
  d1 = d1
  Streams = {s1}
  Designations = {d1}
  EventIds = {1, 2, 3}
  States = {"observed"}
  Verifier = "record"
  Skew = 0
  StaleAfter = 1
  MaxTime = 1
  MaxEvents = 3
SPECIFICATION Spec
INVARIANTS
  AmbiguityStaysUnknown
