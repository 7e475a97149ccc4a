\* An invocation and another caller on one payload whose summary may be rewritten.
CONSTANTS
  p1 = p1
  c1 = c1
  i1 = i1
  m1 = m1
  m2 = m2
  d1 = d1
  Payloads = {p1}
  Sources = {1}
  Summaries = {m1, m2}
  Deployments = {d1}
  Freshness <- StableFreshness
  Oversize = {}
  Callers = {c1, i1}
  Invokers = {i1}
  MaxAssessments = 1
  ClockSteps = {1}
  MaxClock = 2
  MaxRows = 2
SPECIFICATION FairInvokeSpec
INVARIANTS
  RevokedIsNeverSent
  CorrectionWithholdsOutput
  StaleSendIsWithheld
PROPERTIES
  CallsEnd
