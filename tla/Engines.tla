--------------------------------- MODULE Engines ---------------------------------
(***************************************************************************)
(* What keeps its state in the memory of one process: the call counter of  *)
(* Sentra, the matters of Counsel, the series engines, the sample desks,   *)
(* the receipts and the identity of the finance service, and the run of    *)
(* the test teeth guard.  They share no state, so that a behaviour of all  *)
(* of them is one of each, and this module follows the behaviours of one   *)
(* at a time while the others rest, or are Off.                            *)
(***************************************************************************)
EXTENDS Naturals

CONSTANTS
  Threads, \* of each engine
  Things,  \* matters, payloads, or names of series
  RateLimit, RateWindow, RateCapacity, RateTime, RateCalls, \* SentraRate
  MatterItems, KeptReceipts,                                \* CounselMatters
  ChainLength,                                              \* FinanceReceipts
  CodeRevisions, ExpectedRevision, FileChanges, MintBound,  \* FinanceRuntime
  SeriesSessions, SeriesPrices, SeriesTimes, SeriesKeep,    \* SeriesEngines
  SeriesEnough, SeriesGap, SeriesSplit, ReportBound,
  DeskSeeds, DeskItems, DeskLimit, DeskWindow, DeskTime,    \* SampleDesks
  TeethGuards, EditBound, FillBound                         \* GuardTeeth

VARIABLES
  engine,                                           \* the engine whose behaviour is followed
  rateClock, hits, rateCalls, made, granted,        \* SentraRate
  matters, chain, previous, matterCalls, used,      \* CounselMatters
  entries, poolCalls, report,                       \* FinanceReceipts
  out, root, setting, proc, doc, ledger, minted, smoke, fileChanges, \* FinanceRuntime
  series, reported, call,                           \* SeriesEngines
  desk, table, threads, items, accepted, crossed, deskClock, rate, allowed, \* SampleDesks
  tree, edits, undone, disk, options, jobs, verdict \* GuardTeeth

Sentra == INSTANCE SentraRate WITH
  clock <- rateClock, calls <- rateCalls,
  Callers <- Threads, Limit <- RateLimit, Window <- RateWindow, Capacity <- RateCapacity,
  MaxClock <- RateTime, MaxCalls <- RateCalls

Counsel == INSTANCE CounselMatters WITH
  calls <- matterCalls,
  Callers <- Threads, MatterIds <- Things, MaxItems <- MatterItems, Retained <- KeptReceipts

Finance == INSTANCE FinanceReceipts WITH
  calls <- poolCalls,
  Workers <- Threads, Payloads <- Things, MaxLength <- ChainLength

Runtime == INSTANCE FinanceRuntime WITH
  chain <- ledger, changes <- fileChanges,
  Revisions <- CodeRevisions, Expected <- ExpectedRevision,
  MaxChanges <- FileChanges, MaxMinted <- MintBound

Series == INSTANCE SeriesEngines WITH
  Sessions <- SeriesSessions, Names <- Things, Prices <- SeriesPrices, Times <- SeriesTimes,
  Keep <- SeriesKeep, Enough <- SeriesEnough, DarkGap <- SeriesGap, Split <- SeriesSplit,
  MaxReports <- ReportBound

Desks == INSTANCE SampleDesks WITH
  now <- deskClock,
  Seeds <- DeskSeeds, MaxItems <- DeskItems, Limit <- DeskLimit, Window <- DeskWindow,
  MaxClock <- DeskTime

Teeth == INSTANCE GuardTeeth WITH
  Guards <- TeethGuards, MaxEdits <- EditBound, MaxFills <- FillBound

sentraVars == <<rateClock, hits, rateCalls, made, granted>>
counselVars == <<matters, chain, previous, matterCalls, used>>
financeVars == <<entries, poolCalls, report>>

runtimeVars == <<out, root, setting, proc, doc, ledger, minted, smoke, fileChanges>>
seriesVars == <<series, reported, call>>
deskVars == <<desk, table, threads, items, accepted, crossed, deskClock, rate, allowed>>
teethVars == <<tree, edits, undone, disk, options, jobs, verdict>>

receiptVars == <<sentraVars, counselVars, financeVars>>
otherVars == <<runtimeVars, seriesVars, deskVars, teethVars>>

engineVars == <<engine, receiptVars, otherVars>>

Off == "off"

ASSUME EnginesAssumption ==
       /\ Sentra!RateAssumption
       /\ Counsel!MattersAssumption
       /\ Finance!LengthAssumption
       /\ Runtime!RuntimeAssumption
       /\ Series!SeriesAssumption
       /\ Desks!DesksAssumption
       /\ Teeth!TeethAssumption

EnginesInit ==
  /\ engine \in {"sentra", "counsel", "finance", "runtime", "series", "desks", "teeth"}
  /\ Sentra!Init /\ Counsel!Init /\ Finance!Init
  /\ IF engine = "runtime" THEN Runtime!Init
     ELSE /\ out = Off /\ root = Off /\ setting = Off /\ proc = Off /\ doc = Off
          /\ ledger = Off /\ minted = Off /\ smoke = Off /\ fileChanges = Off
  /\ IF engine = "series" THEN Series!Init
     ELSE series = Off /\ reported = Off /\ call = Off
  /\ IF engine = "desks" THEN Desks!Init
     ELSE /\ desk = Off /\ table = Off /\ threads = Off /\ items = Off /\ accepted = Off
          /\ crossed = Off /\ deskClock = Off /\ rate = Off /\ allowed = Off
  /\ IF engine = "teeth" THEN Teeth!Init
     ELSE /\ tree = Off /\ edits = Off /\ undone = Off /\ disk = Off
          /\ options = Off /\ jobs = Off /\ verdict = Off

SentraStep ==
  /\ engine = "sentra" /\ Sentra!Next
  /\ UNCHANGED <<engine, counselVars, financeVars, otherVars>>

CounselStep ==
  /\ engine = "counsel" /\ Counsel!Next
  /\ UNCHANGED <<engine, sentraVars, financeVars, otherVars>>

FinanceStep ==
  /\ engine = "finance" /\ Finance!Next
  /\ UNCHANGED <<engine, sentraVars, counselVars, otherVars>>

RuntimeStep ==
  /\ engine = "runtime" /\ Runtime!Next
  /\ UNCHANGED <<engine, receiptVars, seriesVars, deskVars, teethVars>>

SeriesStep ==
  /\ engine = "series" /\ Series!Next
  /\ UNCHANGED <<engine, receiptVars, runtimeVars, deskVars, teethVars>>

DeskStep ==
  /\ engine = "desks" /\ Desks!Next
  /\ UNCHANGED <<engine, receiptVars, runtimeVars, seriesVars, teethVars>>

TeethStep ==
  /\ engine = "teeth" /\ Teeth!Next
  /\ UNCHANGED <<engine, receiptVars, runtimeVars, seriesVars, deskVars>>

EnginesNext ==
  \/ SentraStep \/ CounselStep \/ FinanceStep
  \/ RuntimeStep \/ SeriesStep \/ DeskStep \/ TeethStep

EnginesSpec == EnginesInit /\ [][EnginesNext]_engineVars

-----------------------------------------------------------------------------
(* Properties of the engines *)

\* Sentra: a window holds at most one allowed call per thread over the limit.
WindowBound == Sentra!WindowBound

\* Sentra: a denied actor that was silent for a window is allowed again.
SilenceRestores == Sentra!SilenceRestores

\* What was recorded or answered has its receipt.  Counsel: every matter and obligation
\* is chained exactly once, or about to be, and the receipts kept are the newest of one
\* linked chain.  Finance: an answered receipt is in the chain, and a chain that
\* verifies shows every tampering before its last entry.
ReceiptsAreChained ==
  /\ Counsel!KeptChainIsLinked
  /\ Counsel!RecordedIsChainedOnce
  /\ Finance!AnsweredIsEmitted
  /\ Finance!TamperingDetected

\* Finance: a chain that diverged stays divergent until a restart.
DivergenceStays == Finance!DivergenceStays

\* Finance: the revision that an identity document observes is that of the loaded code,
\* and a smoke test that passed found its receipts in one life of the process.
RuntimeIsWhatItSays ==
  engine = "runtime" => Runtime!ObservedIsLoaded /\ Runtime!PassedInOneLife

\* Series: every row of an answer tells one moment of its series during the call.
RowsAreOfTheCall == engine = "series" => Series!RowsAreOfTheCall

\* Desks: nothing is lost unless two calls cross, and no reader fails unless two calls
\* cross or the table holds numbers that it cannot work with.
DesksLoseOnlyWhenCrossed == engine = "desks" => Desks!DesksLoseOnlyWhenCrossed

\* Teeth: a verdict about the guards is about the tree that was hashed.
TeethAreReal == engine = "teeth" => Teeth!TeethAreReal

=============================================================================
