\* Fetches of one query and a caller that observes and withdraws.
CONSTANTS
  p1 = p1
  p2 = p2
  c1 = c1
  f1 = f1
  m1 = m1
  d1 = d1
  Payloads = {p1, p2}
  Sources = {1, 2}
  Summaries = {m1}
  Deployments = {d1}
  Freshness <- TwoTicks
  Oversize = {}
  Callers = {c1, f1}
  Fetchers = {f1}
  Main <- OneQuery
  Pages <- ItsPage
  MaxAssessments = 0
  ClockSteps = {1}
  MaxClock = 2
  MaxRows = 3
SYMMETRY Interchangeable
SPECIFICATION FetchSpec
INVARIANTS
  ReturnedIsRecorded
PROPERTIES
  AnswersNeverGoBack
  CachedAnswerSound
