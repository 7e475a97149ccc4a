\* Two streams, degraded events, a verifier with the list of the source.
CONSTANTS
  s1 = s1
  s2 = s2
  d1 = d1
  Streams = {s1, s2}
  Designations = {d1}
  EventIds = {1, 2}
  States = {"observed", "degraded"}
  Verifier = "list"
  Skew = 0
  StaleAfter = 0
  MaxTime = 1
  MaxEvents = 2
SPECIFICATION Spec
INVARIANTS
  ScreensAreSound
