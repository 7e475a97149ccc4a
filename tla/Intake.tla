--------------------------------- MODULE Intake ---------------------------------
(***************************************************************************)
(* What comes in and what is judged at once: the private briefs of a scope *)
(* (BriefStore), and beside them the readers of bodies, the depth of a     *)
(* JSON text, the published archive, the evidence contracts and the claim  *)
(* review.  They share no state, so that a behaviour follows one of them;  *)
(* what the others would keep is Off.                                      *)
(***************************************************************************)
EXTENDS BriefStore

CONSTANTS
  BodyBudget, BodyDeadline, BodySilence, BodyChunk,       \* BodyBounds
  TextLength,                                             \* JsonDepth
  IssueDays, IssueFiles, IssueSize, ArchiveSize, IssueLimit, ReleaseBound, \* PublishedArchive
  TimeUnits, FutureSkew, FreshFor, TimeBound,             \* EvidenceContracts
  DocumentIds, ClaimIds, DocumentTexts, AnchorQuotes, AnchorBound \* ClaimReview

VARIABLES
  part,                                                 \* what the behaviour is about
  reader, head, got, elapsed, quiet, content, state,    \* BodyBounds
  text,                                                 \* JsonDepth
  directory, today, answer, releases,                   \* PublishedArchive
  now, evidence, coverage, read, profile,               \* EvidenceContracts
  documents, bound, anchors, report                     \* ClaimReview

Bodies == INSTANCE BodyBounds WITH
  Budget <- BodyBudget, Deadline <- BodyDeadline, Silence <- BodySilence, MaxChunk <- BodyChunk

Depths == INSTANCE JsonDepth WITH MaxText <- TextLength

Archive == INSTANCE PublishedArchive WITH
  Days <- IssueDays, MaxFiles <- IssueFiles, MaxFileSize <- IssueSize,
  MaxTotalSize <- ArchiveSize, MaxLimit <- IssueLimit, MaxReleases <- ReleaseBound

Contracts == INSTANCE EvidenceContracts WITH
  Second <- TimeUnits, Skew <- FutureSkew, Freshness <- FreshFor, MaxTime <- TimeBound

Claims == INSTANCE ClaimReview WITH
  Claims <- ClaimIds, Texts <- DocumentTexts, Quotes <- AnchorQuotes, MaxAnchors <- AnchorBound

bodyVars == <<reader, head, got, elapsed, quiet, content, state>>
archiveVars == <<directory, today, answer, releases>>
contractVars == <<now, evidence, coverage, read, profile>>
claimVars == <<documents, bound, anchors, report>>

partVars == <<part, vars, bodyVars, text, archiveVars, contractVars, claimVars>>

ASSUME IntakeAssumption ==
       /\ Bodies!BoundsAssumption
       /\ Archive!ArchiveAssumption
       /\ Contracts!ContractsAssumption
       /\ Claims!ReviewAssumption

Off == "off"

PartInit ==
  /\ part \in {"briefs", "bodies", "depths", "archive", "contracts", "claims"}
  /\ Init
  /\ IF part = "bodies" THEN Bodies!Init
     ELSE /\ reader = Off /\ head = Off /\ got = Off /\ elapsed = Off
          /\ quiet = Off /\ content = Off /\ state = Off
  /\ IF part = "depths" THEN Depths!Init ELSE text = Off
  /\ IF part = "archive" THEN Archive!Init
     ELSE directory = Off /\ today = Off /\ answer = Off /\ releases = Off
  /\ IF part = "contracts" THEN Contracts!Init
     ELSE now = Off /\ evidence = Off /\ coverage = Off /\ read = Off /\ profile = Off
  /\ IF part = "claims" THEN Claims!Init
     ELSE documents = Off /\ bound = Off /\ anchors = Off /\ report = Off

OnlyBriefs == part = "briefs" /\ UNCHANGED <<part, bodyVars, text, archiveVars, contractVars, claimVars>>
OnlyBodies == part = "bodies" /\ UNCHANGED <<part, vars, text, archiveVars, contractVars, claimVars>>
OnlyDepths == part = "depths" /\ UNCHANGED <<part, vars, bodyVars, archiveVars, contractVars, claimVars>>
OnlyArchive == part = "archive" /\ UNCHANGED <<part, vars, bodyVars, text, contractVars, claimVars>>
OnlyContracts == part = "contracts" /\ UNCHANGED <<part, vars, bodyVars, text, archiveVars, claimVars>>
OnlyClaims == part = "claims" /\ UNCHANGED <<part, vars, bodyVars, text, archiveVars, contractVars>>

PartNext ==
  \/ OnlyBriefs /\ Next
  \/ OnlyBodies /\ Bodies!Next
  \/ OnlyDepths /\ Depths!Next
  \/ OnlyArchive /\ Archive!Next
  \/ OnlyContracts /\ Contracts!Next
  \/ OnlyClaims /\ Claims!Next

\* The fairness of BodyBounds; nothing else promises to go on.
PartSpec ==
  /\ PartInit /\ [][PartNext]_partVars
  /\ WF_partVars(OnlyBodies /\ Bodies!Tick)
  /\ WF_partVars(OnlyBodies /\ Bodies!ReadHead)
  /\ WF_partVars(OnlyBodies /\ Bodies!Filled)
  /\ WF_partVars(OnlyBodies /\ Bodies!TimeOut)
  /\ WF_partVars(OnlyBodies /\ Bodies!Parse)

-----------------------------------------------------------------------------
(* Properties of the parts *)

\* What a reader hands on is within its budget, whole, in time and parsed.
AdmittedIsWhole == part = "bodies" => Bodies!AdmittedIsWhole

\* A read ends whatever the sender does, the middleware's unless the sender is silent.
ReadsEnd == <>(part = "bodies" => Bodies!ReadsEnd)

\* The depth of a text is never below what the parser reaches.
DepthNeverBelow == part = "depths" => Depths!DepthNeverBelow

\* An archive that is shown is whole, and its newest issues are shown.
ArchiveSound == part = "archive" => Archive!ArchiveSound

\* An observation only ages: what was refused as old is never released later.
EvidenceOnlyAges == [][part = "contracts" => Contracts!Ages]_partVars

\* A review that is ready rests on passages that stand in the documents.
AnchoredIsText == part = "claims" => Claims!AnchoredIsText

=============================================================================
