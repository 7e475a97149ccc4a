\* Two threads in each engine.  A counter, a chain or a table that is full stops there.
CONSTANTS
  t1 = t1
  t2 = t2
  a1 = a1
  a2 = a2
  Threads = {t1, t2}
  Things = {a1, a2}
\* A window that ends between two calls, a deque that is filled by denied calls.
  RateLimit = 2
  RateWindow = 2
  RateCapacity = 4
  RateTime = 5
  RateCalls = 8
\* More receipts than the chain keeps.
  MatterItems = 2
  KeptReceipts = 3
\* Entries enough to alter one in the middle.
  ChainLength = 4
\* A deployment of the expected revision and of another, exchanged or started again.
  CodeRevisions = {"r1", "r2"}
  ExpectedRevision = "r2"
  FileChanges = 2
  MintBound = 4
\* One session, two names; a report more than a series keeps.
  SeriesSessions = {"session"}
  SeriesPrices = {1, 2}
  SeriesTimes = {0, 2}
  SeriesKeep = 3
  SeriesEnough = 2
  SeriesGap = 1
  SeriesSplit = 5
  ReportBound = 4
\* Two samples, three ingestions; a window that ends between two calls.
  DeskSeeds = 2
  DeskItems = 3
  DeskLimit = 2
  DeskWindow = 2
  DeskTime = 4
\* Two guards, an edit of the tree and one full disk.
  TeethGuards = {"g1", "g2"}
  EditBound = 1
  FillBound = 1
SPECIFICATION EnginesSpec
INVARIANTS
  WindowBound
  ReceiptsAreChained
  RuntimeIsWhatItSays
  RowsAreOfTheCall
  DesksLoseOnlyWhenCrossed
  TeethAreReal
PROPERTIES
  SilenceRestores
  DivergenceStays
CHECK_DEADLOCK FALSE
