\* Two callers on one payload of one source whose summary may be rewritten, and a
\* restart that may withdraw its connector.
CONSTANTS
  p1 = p1
  c1 = c1
  c2 = c2
  m1 = m1
  m2 = m2
  d1 = d1
  d2 = d2
  Payloads = {p1}
  Sources = {1}
  Summaries = {m1, m2}
  Deployments = {d1, d2}
  Freshness <- WithdrawnConnector
  Oversize = {}
  Callers = {c1, c2}
  MaxAssessments = 1
  ClockSteps = {1}
  MaxClock = 2
  MaxRows = 2
SYMMETRY Interchangeable
SPECIFICATION Spec
INVARIANTS
  StandingBasisIntact
  DisturbedIsLatched
  NoFalseClockLatch
  CapacityRespected
PROPERTIES
  CurrentVerdictSound
  KeepsPromise
  CurrentMeansAdmissible
