\* Two callers, three contents, room for two, a clock that may be set back.
CONSTANTS
  c1 = c1
  c2 = c2
  Callers = {c1, c2}
  Contents = {1, 2, 3}
  MaxBriefs = 2
  ListLimit = 1
  ClockSteps <- ResetClock
  MaxClock = 2
\* Two chunks may be within the budget each and beyond it together.
  BodyBudget = 3
  BodyDeadline = 2
  BodySilence = 2
  BodyChunk = 2
\* Long enough for a string of escapes with a bracket after it.
  TextLength = 6
\* More issues than a listing shows, and room for all of them when none is too large.
  IssueDays = {1, 2, 3}
  IssueFiles = 3
  IssueSize = 1
  ArchiveSize = 3
  IssueLimit = 2
  ReleaseBound = 1
\* An observation may be of the future, current and over, at half seconds.
  TimeUnits = 2
  FutureSkew = 2
  FreshFor = {1}
  TimeBound = 7
\* Two documents, which may be of one text, and two anchors.
  DocumentIds = {1, 2}
  ClaimIds = {c1, c2}
  DocumentTexts <- SmallTexts
  AnchorQuotes <- SmallQuotes
  AnchorBound = 2
SPECIFICATION PartSpec
INVARIANTS
  BriefsAreKept
  AdmittedIsWhole
  DepthNeverBelow
  ArchiveSound
  AnchoredIsText
PROPERTIES
  RefusedIsNew
  ReadsEnd
  EvidenceOnlyAges
CHECK_DEADLOCK FALSE
