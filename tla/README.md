# A formal model of vertical-services

TLA+ modules that model the parts of this repository in which order, concurrency
or failure decide whether the program is right, the TLC runs that check them on
small instances, and theorems that TLAPS proves for every instance. Every action
is written from the source; `PROJECT.json` maps each definition to its lines.

    tlc -workers 2 -config MCReplayStore.cfg MCReplayStore    # one run
    tlapm ReplayStoreProofs.tla                               # one module of proofs

## 1. The system

`deploy/` is one FastAPI process, published as a Hugging Face Space. Beside it
the repository holds a second server (`frontier/`), a library for governed
evaluation (`frontier_fabric/`), six small services (`services/`) and the
workflows and tools that publish the Space and judge what it serves.

| Part | State it keeps | Operations | Module |
|---|---|---|---|
| observation ledger (`store.py`) | SQLite rows of observations and withdrawals, per vertical and session | `put`, `cached`, `recent`, `resolve_payloads`, `counts` | `Evidence`, `ReplayStore` |
| replay store (`replay_store.py`) | assessments: basis, last check, invalidated, reasons | `register_assessment`, `assessment_status`, `withdraw_payloads`, invalidation inside `put` | `ReplayStore`, promise in `AssessmentPromise` |
| connector fetch (`official_connectors.py`) | none of its own | cache, bounded request, public page as fallback, parse, `put`, answer | `ConnectorFetch` |
| connector specs, requests, parsers | none | build a request, normalise a document | as outcomes of `ConnectorFetch` |
| research briefs (`briefs.py`) | table of briefs | `put_brief`, `recent_briefs` | `BriefStore` |
| published briefs (`published_briefs.py`) | packaged files | list a whole archive or refuse it | `PublishedArchive` |
| intelligence (`intelligence.py`, `provider_response.py`, `public_khipu.py`) | none; uses the ledger | plan, register, check, ask the provider, check again, answer | `InferenceInvocation` |
| Hatun review (`frontier.py`) | none; uses the ledger | resolve, score, register | registration in `ReplayStore` |
| identity replay (`frontier_contracts.py`) | none; snapshots are the caller's | replay, screen, snapshot | `IdentityReplay` |
| coverage, profiling, finance read (`frontier_contracts.py`) | none | judge one observation at the service's time | `EvidenceContracts` |
| claim review (`claim_integrity.py`, `counsel_review.py`) | none | compare anchors with texts, decide | `ClaimReview`, its reading in `BodyBounds` |
| Sentra (`sentra.py`) | a deque of call times per session and actor, verdicts | evaluate | `SentraRate` (gate g9) |
| Counsel (`counsel.py`) | matters, receipt chain, previous hash | open, map an obligation, read | `CounselMatters` |
| Lyte, finance, vessels, Killinchu | bounded series per session | ingest, read one or all, compute | `SeriesEngines` (Terra's engine is not) |
| readers of bodies and replies (`http_bounds.py`, `provider_response.py`, `connector_transport.py`, the plain servers, ...) | none | read within bounds, parse | `BodyBounds`, `JsonDepth` |
| source identity (`core.py`) | environment and file | observe the revision | in `LiveAttestation` |
| fabric (`frontier_fabric/engine.py`, `receipts.py`) | adapters, one chain per vertical and session | register, evaluate, verify | `VerticalFabric` |
| frontier (`frontier/app.py`, `runtime.py`, `model_gateway.py`, `kernel_engine.py`, `static/app.js`) | the page: its request, receipt, buttons; the server keeps nothing | submit, evaluate, propose, conclude, give up, verify | `FrontierGate` |
| finance service (`services/finance`) | receipt chain | answer with a receipt, verify | `FinanceReceipts` |
| its identity, export and smoke test (`runtime_identity.py`, `export_finance_artifact.py`, `verify_finance_engine.py`) | witness, loaded files | export, start, tell the identity, test | `FinanceRuntime` |
| sample desks (`services/{counsel,lyte,sentra,terra,vessels}`) | unlocked dictionaries | ingest, show | `SampleDesks` |
| publication (`hf-space.yml`, `intelligence-live.yml`, `attest_live_intelligence.py`) | branch, concurrency group, Space, reports | push, test, publish, attest | `LiveAttestation` |
| probes (`probe_live_verticals.py`, `probe_public_khipu.py`, `verify_runtime_identity.py`, `ensure_public_space_visibility.py`, `szl_frontier_payload.py`) | their progress | ask, retry, judge | `SpaceProbes` |
| test teeth guard (`guard_teeth.py`) | copies of the tree | mutate, test, decide | `GuardTeeth` |
| formulas, profiles, pages, other workflows, static data | none | compute, show | not modelled |

How they interact: the fetch writes the ledger; plans and reviews resolve rows
of it and register assessments over them in a later transaction; invocations
ask for the assessment's status before and after they ask a provider; a
withdrawal or another fetch changes what they rest on. Briefs share only the
file with it. The engines share only one lock. The fabric, the frontier and the
finance service are separate. The attestation sees the Space only over HTTP,
one request after the other, while it may be redeployed, and so do the probes.
The readers of bodies stand before the handlers, the JSON depth before the
parser; they share no state with what they guard. The teeth guard sees only the
working tree it copies.

What is hard: handlers run in a pool of threads, and every operation on the
ledger is several steps of which only the transactions are atomic (`ReplayStore`
and what extends it); the process may restart while the file stays; the wall
clock may be set back; an answer may be lost and tried again; a provider takes
up to a minute in which evidence changes; chains are appended by several
threads, with (`VerticalFabric`, `CounselMatters`) and without a lock
(`FinanceReceipts`); a page gives up on a handler that goes on; events arrive
lost, altered or of one instant; a deployment happens between two requests; a
sender delivers a body in pieces, late or not at all; desks share tables without
a lock; files are exchanged under a process; a tree is edited while it is copied.
`PROJECT.json` lists these hazards at their lines with the properties that
would catch them.

What makes each part right: what stands in the ledger rests on intact evidence
and what was revoked stays so; what is answered was recorded and never older
than before; nothing revoked is sent or released; a brief is there once and
answered truly; a known identity is the source's; a chain verifies, holds what
was answered and betrays an alteration; the counter bounds its window and lets
the silent in again; a gate that withholds is never bypassed; a VERIFIED commit
is the one whose documents were read; a body that is handed on is whole and
within its bounds; an archive hides no broken issue; evidence only ages; a claim
that is ready stands on text that is there; a row of numbers is of one moment; a
probe or a guard that passed proves what it says.

## 2. The modules

**Evidence** — rows, receipts (the tuple of what the hash covers, so equal
hashes are equal contents), `Latest` (the row SQL's `ORDER BY observed_at DESC,
receipt_id ASC LIMIT 1` selects), `Resolve`, `Admissible`, `DependencyReason`.
No variables.

**ReplayStore** — variables: the rows, the withdrawn payloads, the assessments,
the clock, the deployed catalogue, and for each caller the request it is in.
`Put`, `ResolveEvidence`, `Register`, `Status`, `Withdraw` are the transactions;
what a request computes before its transaction is a step of its own (the clock
read of a fetch, the assessment's identifier), so every other request may come
between. `Restart` forgets the requests, keeps the tables and may bring another
catalogue; `Tick` moves the clock by a member of `ClockSteps`, which may be
negative. History variables record which assessments' evidence ever changed.

**AssessmentPromise** — the abstract specification: an assessment is unknown,
then standing, then revoked, never back, and CURRENT is told only of a standing
one. `KeepsPromise` is the refinement (`INSTANCE ... WITH`, the sets computed
from the tables).

**InferenceInvocation**, **ConnectorFetch** — extend `ReplayStore`: an
invocation or a fetch is a caller whose steps conjoin a step of the store with
the progress of the call. Other callers go on using the store. Of an invocation
the clock reading, the read of the ledger (`intelligence.py:792`), the comparison
with the plan (793) and the request to the provider are apart, before the send and
after the answer, so that evidence may change in each gap. What it found is kept
in `found`; whether that still stood as the text went out is history.

**BriefStore** — the table of one scope, callers that submit, lose answers,
retry; restart; the clock.

**IdentityReplay** — a source that publishes designations and removals, a
caller that sends any part of them, altered or degraded, from the beginning or
after any snapshot an earlier replay returned, and a verifier (`Verifier`: with
the source's list, or with the published events only). The replay is an
operator over the request.

**VerticalFabric** — evaluations of several threads, each consulting one adapter
per step without the lock, then deciding by the code's ladder, then appending
under the lock; adapters are registered meanwhile.

**FinanceReceipts**, **SentraRate**, **CounselMatters** — one variable for the
chain, the deque or the matters, one record per thread for the call it is in.
In `FinanceReceipts` the head, the length and the append are separate steps, as
there is no lock.

**FinanceRuntime** — the export of a commit file by file with the witness last
and a crash anywhere; the image, the import of the modules, the look at their
files, exchanged files and restarts; the identity document, read in steps; the
smoke test request by request beside other callers. Of the engine and the feed
it keeps whether a route measures, blocks or raises, which decides on a receipt.

**SeriesEngines** — bounded series under the lock; a portfolio, a fleet or a
single brief takes one lock section per series, with reports in between;
Killinchu's health iterates without the lock. Drawdown, momentum, gaps and the
cut of a drift are computed over small numbers.

**SampleDesks** — the five desks of `services/`: an identifier made from a
count, a vessel before its position, readers that look at one entry after the
other and at the size once more at the end, none of it under a lock; Sentra's
counter. An entry may be `ill`: its numbers may overflow a mean
(`services/lyte/app.py:28`), divide by a median of zero (`services/terra/app.py:95`)
or be no JSON (`services/vessels/app.py:18`), and the reader that comes upon it may
fail without any crossing. Sentra's gates may raise, and it may list a verdict that
cannot be sent.

**GuardTeeth** — jobs in a pool copy the tree file by file while it is edited
and the disk fills; mutation, import probe, tests, classification, the checks
of the tree before the verdict. pytest and the import are external: a mutant
has a nature, and they report what it allows. Tests that a full disk hits may
fail with output that tells it or not (`guard_teeth.py:83-87` knows some wordings).

**Engines** puts these seven side by side: they share no state, so it follows one
of them at a time (`engine` chosen in `Init`), which loses no behaviour of any of
them. `MCEngines` gives its constants values; the theorems are about it as it is.

**BodyBounds** — one body read by one of eight readers: the middleware, the
claim review, the two plain servers, the provider's and the connector's reply,
the fabric's registry and the gateway. The sender declares any length, delivers
chunks, falls silent, breaks off or ends. Each reader's own limits (declared
length, budget, deadline, timeout of a single read, what its parser takes) are
operators over `reader`.

**JsonDepth** — a text of brackets, quotes and escapes grown character by
character; the nesting depth as `http_bounds.py` computes it, by deletions,
beside a scanner that reads as the parser does.

**PublishedArchive**, **EvidenceContracts**, **ClaimReview** — an archive that a
release replaces, with at most one bad entry; an observation asked about again
while the clock goes on; a review request composed of supporting, adverse and
context anchors, one by one. What they
decide are operators, and the steps are the callers'. **Intake** follows briefs,
bodies, depths, archive, contracts or claims, one at a time (`MCIntake`: values).

**FrontierGate** — the page and one record per handler. The page may navigate to a
new form while what the old one asked is still answered, give up, refuse evidence
that is no JSON, and verify; other clients post as well. Of the requested action
there are two texts: `prohibited` is what the gate finds in its first 500
characters (`app.py:613,628`), `unread` that a term stands in the rest, which the
endpoint is sent too (`runtime.py:87-88`). JSON numbers are texts,
because `json.dumps` writes `1.0` and `JSON.stringify` writes `1`, and digests
commit to the text. Both servers are modelled: `app.py` answers receipts of
version 1, `runtime.py` of version 2.

**LiveAttestation** — main as a growing number, the run that holds the
concurrency group's slot and the pending one, the Space (Hub head, variable,
image, container), and two attestations: one called by the publishing run, one
dispatched by hand. An answer that raises what `await_revision` does not catch ends
one without a report (`PollRaises`). Hub, Space and the reusable publisher are outside the
repository and modelled from the inputs the workflow gives them (`external` in
the map).

**SpaceProbes** — five tools as programs of requests with their retries, against
a Space that is deployed, restarted, stopped or made private between any two. Three
of them may end by an error they do not catch, without a report (`Raise`). PASS of
the visibility script is what its receipt says: its `main` returns 0 also if the probe failed.
**Publication** follows an attestation or a probe (`MCPublication`: values).

## 3. The runs

Numbers are distinct states on the given instance.

| Run | Question | Bounds | States |
|---|---|---|---|
| `replay` | does the store keep its promise, whatever requests come between its transactions? | 2 callers, 1 payload with 2 summaries, 2 catalogues of which one withdraws the connector, 1 assessment, 2 rows, 3 clock values | 561,784 |
| `invocation` | is anything revoked sent or released, and does every call end? | 1 invocation, 1 other caller, 1 payload, 2 summaries, 1 assessment, 2 rows | 555,430 |
| `connector_fetch` | is what is returned recorded, fresh and never older? | 1 fetch, 1 caller, 1 query with 2 sources, 2 payloads, 3 rows | 689,954 |
| `intake` | is what enters kept, admitted, shown and judged as it was sent? | briefs: 2 callers, 3 contents, room for 2; bodies: budget 3, deadline 2, silence 2, chunks of 2; texts of 6; archive: 3 days, 3 files, limit 2, 1 release; contracts: half seconds up to 7, skew 2 s, freshness 1 s; claims: 2 documents, 2 claims, 2 anchors | 761,166 |
| `identity` | is a known state the source's own? | 2 streams, 2 events, degraded events, list verifier | 53,756 |
| `identity_ambiguity` | does an ambiguity outlive a snapshot? (violated) | 1 stream, 3 events | about 230 |
| `fabric_chains` | do chains verify, and is every effect bound? | 2 threads, 2 verticals, 2 kernels, chain of 2 | 1,393,851 |
| `engines` | what may interleaved steps in one process count, lose, link, mix or leave behind? | Sentra: limit 2, window 2, deque 4, clock 5, 8 calls; Counsel: 2 matters, 2 items, 3 receipts kept; finance: chain of 4; runtime: 2 revisions, 2 changes, 4 receipts; series: 1 session, 2 names, 3 kept, 4 reports; desks: 2 samples, 3 items; teeth: 2 guards, 1 edit, 1 full disk | 2,258,194 |
| `finance_race` | does an untampered chain verify? (violated) | 2 threads, chain of 3 | about 370 |
| `publication` | is a verdict, or a probe's pass, about the deployment it names, and does it come? | 2 commits, 2 documents, 2 rounds; probes: 1 vertical, 3 attempts, 2 changes of the Space | 229,208 |
| `frontier` | what reaches the endpoint, is ready clean, does the page keep what it shows? | 2 handlers, 7 proposals (one clean, one for each gate, one with a term that no gate reads), the page and other clients, 1 verification at once | 3,527,526 |
| `frontier_receipt` | does an issued receipt verify from the page? (violated) | 1 handler, the clean proposal | 114 |

Why the bounds are enough for these questions:

- `replay`: a latch needs one assessment and one change that is taken back (two
  summaries, two rows); the races are between two requests; freshness of two
  ticks lets evidence expire, and the second catalogue makes it inadmissible
  without a change. More payloads would only repeat the same row-by-row
  argument, which `ReplayStoreProofs` does for every number.
- `connector_fetch`: two sources are what makes a query's answers different rows
  for one cache key; three rows allow an older, a newer and another caller's.
- `intake`: one content more than there is room for; two chunks that fit alone
  and not together; texts long enough for a string of escapes with a bracket
  after it; more issues than a listing shows; half seconds, since ages are cut to
  whole ones; two documents that may be of one text. An archive or a text that
  cannot go on stops its part, hence `CHECK_DEADLOCK FALSE`.
- `identity`: two events are what can be ambiguous or out of order; two streams
  show that one stream's verification does not clear another's.
- `fabric_chains`: two receipts make one link; a full chain stops appending.
- `engines`: the deque of Sentra is longer than the limit, so it fills with
  denied calls; Counsel keeps fewer receipts than are made, so eviction happens;
  four entries let one in the middle be altered; two revisions are one that is
  exchanged for another; a series keeps one report less than are made; two guards
  are one that is tested while the other is copied. A full chain, clock or table
  stops the engine, hence `CHECK_DEADLOCK FALSE` there and in `finance_race`.
- `publication`: two commits are a redeployment; two documents have something
  between them; two rounds are one that fails and one at the
  deadline; two changes of the Space are one that is taken back.
- `frontier`: two handlers are one given up and one that answers. Each proposal
  but the clean one fails in one gate only, since a second defect would hide it.

### Properties

- `replay`: `StandingBasisIntact` (what stands rests on rows the ledger would
  still select), `DisturbedIsLatched` (evidence that changed once, even if it
  changed back, revokes), `NoFalseClockLatch` (a monotonic clock never condemns:
  the clock is read inside the transaction), `CapacityRespected`,
  `CurrentVerdictSound` and `CurrentMeansAdmissible` (CURRENT is told only when
  the basis would resolve again), `KeepsPromise` (refinement; it includes that no
  revocation is cleared).
- `invocation`: `RevokedIsNeverSent`, `CorrectionWithholdsOutput`,
  `StaleSendIsWithheld` (text that was sent on evidence which changed or expired
  between the read and the send is not released), `CallsEnd` (liveness).
- `connector_fetch`: `ReturnedIsRecorded`, `AnswersNeverGoBack`, `CachedAnswerSound`.
- `intake`: `BriefsAreKept` and `RefusedIsNew` (stored once, within capacity,
  answered truly, refused rightly), `AdmittedIsWhole`, `ReadsEnd` (liveness),
  `DepthNeverBelow` (the computed depth is never below what the parser reaches),
  `ArchiveSound`, `EvidenceOnlyAges` (what was refused as old is never released
  again), `AnchoredIsText` (ready rests on supporting text that is there, and
  neither an alias nor a passage of context counts as support).
- `identity`: `ScreensAreSound` (a known state is the source's own, and a clear
  screen is never given while a replayed stream lists a designation).
- `fabric_chains`: `ChainsStand` (chains verify, hold what was answered, betray
  an altered copy), `AllowedIsBound`.
- `engines`: `WindowBound`, `SilenceRestores`, `ReceiptsAreChained`,
  `DivergenceStays`, `RuntimeIsWhatItSays` (a witness is of a whole export, an
  observed revision is that of the loaded code, a passed smoke test saw one life
  of the process), `RowsAreOfTheCall`, `DesksLoseOnlyWhenCrossed` (what was accepted is
  lost only if two calls cross, and a reader fails only then or while an ill entry is
  in the table), `TeethAreReal` (a verdict is of one tree; a kill that a full disk,
  told or not, may have made is the exception it names).
- `publication`: `VerifiedIsWhole`, `SupersededForGood`, `SlotJudgesItsOwn`,
  `ProbesAreWhole`, `ToolsEnd` (liveness: attestations and probes end, with a
  report or, where the code lets an error escape, without one).
- `frontier`: `SentIsGated` (the endpoint is sent only what has evidence and no
  prohibited term in what the gate reads; a term beyond is sent, but never by the
  page; a receipt says that no model was called exactly when that was so),
  `ReadyIsSettled` (ready is clean, the kernels find the same again, and the receipt
  shown is the one copied and verified unless an answer to an older form came after).

Each has a mutant in the model (an operator next to the one it changes, marked
"Mutant"), a plausible bug under which the property fails in its run.

### Fairness

Four specifications assume any. `FairInvokeSpec`: weak fairness of an
invocation's own steps; each waits for nothing but SQLite's lock, bounded by the
busy timeout of 5 s, and the provider, bounded by `asyncio.timeout`; a restart
ends the call. `LiveAttestation!Spec`: weak fairness of an attestation's steps;
each request ends in an answer or in its timeout, and `PollFails`, `PollRaises`
and `CaptureFails` model what may go wrong, so that nothing is assumed of the Space, the
workflow or the Hub. Time passes only at the end of a round, as in the code.
`SpaceProbes!Spec`: weak fairness of the probe's own step, each request of which
has a timeout; an answer may be any fault. `BodyBounds!Spec`: weak fairness of the
reader's steps and of time; nothing is asked of the sender. `ReadsEnd` therefore
leaves out a sender that falls silent for good before the middleware or a plain
server: the middleware looks at its deadline only when something arrives
(`http_bounds.py:200`), and the plain servers set no timeout. All other readers
end whatever the sender does.

### Disagreements the runs show

- `identity_ambiguity`: `docs/FRONTIER_EVIDENCE_CONTRACTS.md:22` says that an add
  and a removal of one instant keep the state UNKNOWN. The snapshot the replay
  returns does not carry the ambiguity, and a replay continued from it says a
  known state.
- `finance_race`: `services/finance/receipts.py` takes no lock, its callers run on
  several threads; two appends with one head make the untampered chain
  DIVERGENT, although `/receipts/verify` is to attest to what was emitted.
- `frontier_receipt`: the page re-serialises the receipt (`app.js:1049`), whole
  floats lose their point, and no receipt of `runtime.py` verifies.

Read in the source, of no run: an incomplete human binding is a DENY
(`frontier_fabric/engine.py:200-204,347,367`), where
`docs/VERTICAL_FRONTIER_FABRIC_V1.md:54-56` says HOLD; an effect of blanks is
let through on a read-only vertical (`engine.py:128`; doc line 147); ADVISORY_ONLY
is a mode that no rule looks at (`engine.py:128`; doc line 114). The depth of a
text that opens with a closing bracket is negative (harmless: the parser reads
nothing of it). `profiling_evidence` never compares `captured_at` with the
clock. The claim review's own budget and timeout cannot be reached in the
composed application, whose middleware admits less (`BodyBounds` has the route
by itself). A JSON body of `frontier_app.py` that is nested too deep raises and
is modelled as refused.

Two more that the model has as the code has them, so that the properties say only what
is left. `frontier/MODEL_KERNEL_RUNTIME.md:22` has a prohibited request stop before the
model call; a term after the 500th character is not looked for and is sent
(`app.py:613,628`, `runtime.py:87-88`), though not from the page, whose field ends there.
The docstring of `attest_live_intelligence.py:12-14` promises a receipt for
every terminal state;
`http.client.HTTPException` and `RecursionError` pass `await_revision` (51, 152), which
`attest` calls outside its `try` (254), and no receipt is written. In the same way
`probe_public_khipu.py:110` does not catch what a JSON list or null raises, and
`ensure_public_space_visibility.py` lets the errors of the Hub raise. On a page that
navigates away, the answer to the old form sets the receipt that is copied
(`app.js:1014`) while the new form shows its own or none.

Two limits of what is said. The instance of `fabric_chains` binds `allow` always, so
there the leave of a human is never what is missing (the theorem is for every
binding), and blank effects are exempt from read-only as in the code. A full disk that
no wording tells is judged by what is left on it at the end; `TeethAreReal` exempts a
kill under it. Lyte's `/v1/stream` is not modelled.

## 4. The proofs

All for every value of the constants, under the named assumptions of the modules
only (`EvidenceAssumption`, `ReplayAssumption`, `FetchAssumption`,
`InvokersAssumption`, `FabricAssumption`, `FrontierAssumption`,
`PublicationAssumption`, `BriefAssumption`, and, collected by `Intake`, `Engines`
and `Publication`, those of the parts they follow). They say that bounds are
numbers, catalogues functions and threads finitely many. One says more:
`RateAssumption` asks that Sentra's deque be longer than the limit by the number
of threads less one (`Capacity >= Limit + Cardinality(Callers) - 1`). The proof of
`WindowsAreBounded` found that this is needed: the clock is read outside the lock,
so a late thread may append an old time, which pushes a newer hit out of a deque
that is only as long as the limit, and then one call too many is allowed. The code
has 120 places for a limit of 60 and a pool of 40 threads, so it holds; a smaller
`maxlen` or a larger pool would break the gate.

**ReplayStoreProofs.** `IInv` is `TypeOK`, `LatchedHasReason` (flag and reasons
agree), `StandingBasisIntact` and `DisturbedIsLatched`. Neither of the last two
is inductive alone: that a disturbed assessment is latched needs that the
standing one was intact before the step, and that it is intact needs that a
latched one stays latched. The lemmas first say what `InsertOrReplace` does to
`Latest` (only the written payload's selection changes) and what `Invalidate`
may do to one assessment (condemn it, or spare it with its evidence intact);
every action is then one of three forms. From `IInv`: `StandingRestsOnEvidence`,
`DisturbedStaysLatched`, `LatchNeverCleared`, `CurrentIsSound`; and
`CurrentIsAdmissible`, which compares what a check looks at with what
`Evidence!Admissible` asks of the rows. With further
invariants of their own: `ClockNeverCondemns` (last checks and clock reads never
exceed the clock while it only goes forward), `CapacityHolds` (cardinalities),
`WithdrawalsAreOfObserved`. `StoreKeepsPromise` is the refinement: the initial
state maps to the abstract one, and every step to `Change`, `Register`, `Check`
or a stutter.

**IntakeProofs.** Of the briefs `TableInv`: the table is finite, has one row for a
content, was written once for each of them, and is within capacity; a put has
three outcomes (repeat, refuse, insert), and only the last writes. Hence
`CapacityHolds`, `ContentStoredOnce`, `AnswersStand`, together `BriefsStay`, and
`RefusalsAreOfNew`. Of the bodies `ReadInv`, which says of a read under way what
`AdmittedIsWhole` says of its end: bytes within the budget, for the exact readers
within the declared length, and what is being parsed was whole and in time. Hence
`AdmittedStaysWhole`, for each of the eight readers. Of the contracts `AgesInv`:
the phase of a judgement (in the future, fresh, old) is never before that of the
last one, since an age cut to whole seconds only grows with the clock. Hence
`ObservationsOnlyAge`. Of the
claims `ReviewInv`: no two anchors have one key, so the anchors that are no
duplicates are as many as the contents that are counted; a quote that is not empty
and equals the slice lies within the text. Hence `ReadyIsAnchored`. Of the archive
`ArchiveInv`: a directory has each name once, and the day does not go back, so that
what was valid as it was listed still is. That the listing is in order needs no
induction over the sort: an order exists, because the number of later names is a
place of its own for every entry (`OrderExists`), and a listing that takes no entry
twice takes all of them (`EachOnce`), so those left out are older than those
shown. Hence `ShownIsWhole`. Of the depth `ScanInv`, which reads a text as it
grows: the two deletions hold back the same backslash and leave no two of them side by
side; while the parser goes on, a string is open to it where the quotes that are
left are odd in number, and its open containers are the balance of the brackets that
are left; and one more character leaves the balances before it alone, a bracket
adding its own (`BalancesAre`). What the recursive functions do with one more
character is shown from their existence, by a set that has 0 and with each number the
next (`EachNumber`). Hence `DepthIsEnough`, for texts of every length.

**PublicationProofs.** Of the attestation `IInv` is `TypeOK`, `DeployInv`, `LogInv` of each
attestation and `SlotInv`. `DeployInv`: the image is never newer than the Hub's
head, the head never newer than the tip, and the run's commit never older than
the head — so the image never goes back. `LogInv`: what an attestation saw is no
newer than the image, and what it captured lies between the judged commit and
the image; if the Space still tells the judged commit at the end, the two
meet and every document is of that commit. `SlotInv`: an attestation in the slot
belongs to the run that holds it, whose commit then is the image. The lemmas
`DeployMoves` and `LogMoves` separate the steps of the deployment from those of
the attestations. Hence `VerifiedWholly`, `SupersededStays`, `SlotIsOwn`. Of the
probes `ProbesInv`: a probe that may still pass has logged each request before the
one it is at and no other (`LogInv`); an entry tells which deployment it saw, and
two deployments that follow each other are of different revisions (`HistoryInv`),
so that four documents of one revision cannot come from neighbours; the model is
asked once in an attempt, at the fifth request (`CallsInv`). Hence
`PassedProbesAreWhole`.

**StoreClientsProofs** rests on `ReplayStoreProofs`, for the two components that
use the store. Of invocations: a step of an
invocation is a step of the store (`InvokeStepIsStoreStep`), so `IInv` holds and
no revocation is cleared (`StoreGrows`). `Sound` adds what a call remembers: its
assessment is recorded; what it noted as invalidated when it began, and again
when the provider had answered, still is; and past the first check its
assessment is not among the former, past the second not among the latter, because
CURRENT is told of no revoked one. For a send on evidence that moved, the second
check does the work: once disturbed an assessment is latched, and then never CURRENT;
once expired it stays so while the clock goes forward, and the last comparison reads
it again. Hence `RevokedStaysHere`, `CorrectionHolds`,
`StaleSendStaysHere`.

Of fetches: a step writes a row only over one with its receipt
(`ReceiptsStay`), so that what was returned stays recorded. `Held` relates what a
fetch has found to what was withdrawn as it looked. For `NeverBack`, `Timed` says
that nothing was observed in the future and `Newer` that for every query a fetch
has answered the ledger still reaches at least the time of that answer, so that
a later look finds nothing older. Hence `ReturnedStaysRecorded`, `CachedIsSound`,
`NeverBack`.

**VerticalFabricProofs** — `ChainInv` is `TypeOK`, `ChainsVerify` and
`AnsweredIsChained`; only `Conclude` writes, and what it appends continues the
head (`VerifyAppend`). That an altered copy is detected needs no induction: a
receipt left out before the last one or put in another's place has the wrong
sequence, the last one left out makes the head shorter, and a changed content
changes its hash, which the next receipt, or the head, holds on to
(`AppendInjective`: a hash commits to its content). `AllowedIsBound` is not
inductive: `ConsultedIsBound` adds that a kernel without the outcome
"unavailable" is bound, and stays so. Hence `ChainsStandAlways`,
`AllowedStaysBound`.

**FrontierGateProofs** — `ReceiptInv`: each receipt that a thread holds or the
page shows was made from a proposal and, on the server of `runtime.py`, from a
model result, a proposal of the page has nothing unread in it, and what the page
shows is what it uses unless it noted a crossing; the properties then are facts about
those constructions (`IssuedIsClean`, `IssuedIsSettled`, `IssuedTellsWithheld`). Hence `OnlyUnreadSlipsThrough`,
`ReceiptsAreSettled`.

**EngineTablesProofs**, for the engines that keep tables and logs of bounded size,
and **EnginesProofs**, for the others. One inductive invariant for each engine:

- Sentra, `RateInv`: for every time, either no later call was counted yet, and its
  window holds no more allowed calls than hits and no more than the limit (`Open`);
  or it is past, and what was allowed together with what the threads that read the
  clock before may still add is within the bound (`Closed`). Hits out of order are
  fewer than the threads, so dropping the first ones never drops one that counts.
  Hence `WindowsAreBounded`, and `SilenceIsEnough` from the hits alone.
- Counsel, `MattersInv`: an obligation has the number of its place and no id is
  given twice, so a step records something new; then what is recorded is what was
  chained or is about to be. Finance, `EntriesInv`: an entry bears the length of
  the chain at some earlier step. That an altered, exchanged, dropped or injected
  entry is found needs no induction over the chain: its own number, its digest, or
  the link of the entry after it is wrong. Hence `ReceiptsStayChained`,
  `DivergesForGood`.
- Runtime, `DocumentInv` and `SmokeInv`: the witness of a process is of its code
  unless files were exchanged first, and the document tells that witness; ids are
  never minted again and a new life has an empty chain, so receipts that are all
  in the chain are of this life. Hence `DocumentsTellTheCode`.
- Series, `SeriesInv`: what is kept of a session is the newest of what was reported
  (`KeptInv`), and a row is that of some moment since its call began (`RowInv`,
  `ReadInv`). The fall, which the code finds in one pass with a running peak, is a
  recursive function here; it is shown to exist, and the fall it tells to be the
  deepest one, each by a least counterexample. Hence `RowsTellTheCall`.
- Desks, `DesksInv`: ids run without a gap, so an id on its way is that of the next
  entry or was made twice, and then it is recorded as crossed; a reader that nothing
  disturbed sees the table as it was, so what it found ill is there as it fails. Hence
  `DesksLoseNothingUncrossed`.
- Teeth, `TeethInv`: a guard starts after a baseline that passed; what a copy
  differs in is still edited or was taken back, and whether the disk hit a killed job
  is kept. Hence `VerdictsAreOfTheTree`.
- Identity replay, `SourceInv`, of the source's list only: its state at a time is
  decided by the latest listings unless they disagree. A replay that ends in a
  known state is then compared with it, event by event. Hence `RepliesAreSound`.

What the code finds with a loop (the latest event, the first hit that has not
expired, the first bad entry) is a least element of a set of numbers and exists
because those are well-founded (`WFMin`), which the provers can use.

Only model-checked: liveness (`CallsEnd`, `ReadsEnd`, `ToolsEnd`), which needs
ENABLED and fairness that this prover does not reach.

## 5. What is left out

- Text, arithmetic and layout: parsers of the upstream documents, formulas,
  prompts, pages, the catalogue; of the series engines positions, speeds and
  rounding, and Terra's engine; of finance and the kernels the numbers.
- Hash collisions: a hash is what it commits to.
- Malformed rows of the store (`StoredAssessmentInvalid`), which only a foreign
  writer makes; SQLite itself, whose transactions are taken as atomic and durable.
- pytest, Git, the Hub, the Space and the senders of bodies, which are modelled by
  what they can do.
- Several sessions of the series engines, which share only the lock.
- Several scopes: a scope is a vertical and a session, every query names both,
  and no operation touches two.
- Several processes on one file: the process lock and `BEGIN IMMEDIATE` are one
  step here, as the second alone orders the writers.
- The public Khipu record's hashes, the full binding of source identity (three
  sources), readiness and the second-brain document, `verify_vertical_backend.py`
  and the export of contracts.
- The components marked not modelled in section 1.

## 6. Plan

Done, in this order: Evidence and ReplayStore, the promise and its proofs;
InferenceInvocation; ConnectorFetch; BriefStore and proofs; IdentityReplay;
VerticalFabric; the engines; LiveAttestation and proofs; FrontierGate;
BodyBounds and JsonDepth; PublishedArchive, EvidenceContracts and ClaimReview;
SeriesEngines, SampleDesks, FinanceRuntime and GuardTeeth; SpaceProbes; the proofs
about invocation, fetch, fabric, frontier and bodies; those about contracts,
claims, probes, the identity replay and all engines; those of the archive and of
the depth of a text.

Next, by what matters most:

1. The contract of the public Khipu answer and its record, beside
   `InferenceInvocation`.
2. The full binding of source identity: three sources, invalid ones.
3. Terra's engine, as a further computation of `SeriesEngines`.

New lanes join the existing runs where the state is disjoint, so that a run
stays one question about one kind of behaviour.
