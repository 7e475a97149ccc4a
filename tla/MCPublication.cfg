\* Two commits of main, two documents and two rounds of polling: a run may be overtaken
\* while it waits, deploys or attests, and a second deployment may come between
\* any two requests of an attestation by hand, or of a probe.  A probe ends.
CONSTANTS
  MaxCommit = 2
  Rooms = 2
  Timeout = 2
  v1 = v1
  ProbedVerticals <- OneVertical
\* Two deployments while a probe runs: one may be taken back.
  ProbeAttempts = 3
  ProbeChanges = 2
SPECIFICATION ToolSpec
INVARIANTS
  VerifiedIsWhole
  SupersededForGood
  SlotJudgesItsOwn
  ProbesAreWhole
PROPERTIES
  ToolsEnd
CHECK_DEADLOCK FALSE
