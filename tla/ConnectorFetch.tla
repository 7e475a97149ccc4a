---------------------------- MODULE ConnectorFetch ----------------------------
(***************************************************************************)
(* fetch_connector over the evidence ledger: the cache of a query is read, *)
(* the upstream is asked on a miss, a public page stands in for a GitHub   *)
(* query whose quota is exhausted, and the answer is stored before it is   *)
(* returned.                                                               *)
(*                                                                         *)
(* A fetch is a caller of the replay store; each action conjoins the       *)
(* store's step with the progress of the fetch.  A query may be answered   *)
(* by more than one source, because the source includes the URL.           *)
(***************************************************************************)
EXTENDS ReplayStore

CONSTANTS
  Fetchers,  \* the callers that are fetches
  Main,      \* Main[q]: the source of query q
  Pages      \* Pages[q]: the public page that may stand in, as a set

ASSUME FetchAssumption ==
  /\ Fetchers \subseteq Callers
  /\ Main \in [DOMAIN Main -> Sources]
  /\ Pages \in [DOMAIN Main -> SUBSET Sources]

VARIABLES
  fetches,  \* for each fetch, how far it is
  seen      \* history: for each fetch and query, the latest time it was answered

fvars == <<rows, withdrawn, assessments, clock, deployed, jobs, disturbed, fetches, seen>>

Queries == DOMAIN Main

NoFetch == [stage |-> "none"]

FetchInit ==
  /\ Init
  /\ fetches = [f \in Fetchers |-> NoFetch]
  /\ seen = [f \in Fetchers |-> [q \in Queries |-> 0]]

Progress(f, fetch) ==
  /\ fetches' = [fetches EXCEPT ![f] = fetch]
  /\ seen' = IF fetch.stage \in {"cached", "fetched"}
             THEN [seen EXCEPT ![f][fetch.query] = Later(@, fetch.row.observed)]
             ELSE seen

OfQuery(q) == {r \in rows : r.source \in {Main[q]} \cup Pages[q]}

-----------------------------------------------------------------------------
\* Mutant: the newest row that is not withdrawn answers.
NewestUsable(q) ==
  LET usable == {r \in OfQuery(q) : r.payload \notin withdrawn} IN
  {r \in usable : \A s \in usable : s.observed <= r.observed}

\* ORDER BY observed_at DESC: rows of one query observed at one time differ in
\* payload or URL, and their receipts' hashes order them in no way known here.
Newest(q) == {r \in OfQuery(q) : \A s \in OfQuery(q) : s.observed <= r.observed}

\* found: the row the cache read selected, in a set; withdrawn: whether its
\* payload was withdrawn then; gone: history, all that was withdrawn then.
Found(q, r, w) == [stage |-> "found", query |-> q, found |-> r, withdrawn |-> w, gone |-> withdrawn]

\* STORE.cached reads the row and its withdrawal under the lock ...
Lookup(f) ==
  /\ Ready(f)
  /\ fetches[f].stage \in {"none", "failed", "cached", "fetched"}
  /\ \E q \in Queries :
       /\ Freshness[deployed][Main[q]] > 0
       /\ \/ /\ Newest(q) = {}
             /\ Progress(f, Found(q, {}, FALSE))
          \/ \E r \in Newest(q) : Progress(f, Found(q, {r}, r.payload \in withdrawn))
          \/ Progress(f, [stage |-> "upstream", query |-> q])  \* force_refresh
  /\ UNCHANGED vars

\* Mutant: the flag read with the row is not looked at.
HitIfFresh(fetch) == \E r \in fetch.found : FreshRow(r, clock)

\* ... and the clock after it has let the lock go.
Hit(fetch) == \E r \in fetch.found : ~fetch.withdrawn /\ FreshRow(r, clock)

AnswerFromCache(f) ==
  /\ fetches[f].stage = "found"
  /\ IF Hit(fetches[f])
     THEN \E r \in fetches[f].found :
            Progress(f, [stage |-> "cached", query |-> fetches[f].query, row |-> r])
     ELSE Progress(f, [stage |-> "upstream", query |-> fetches[f].query])
  /\ UNCHANGED vars

\* The upstream answers, or the page does; observed_at is read afterwards.
Upstream(f) ==
  LET q == fetches[f].query IN
  /\ fetches[f].stage = "upstream"
  /\ BeginFetch(f)
  /\ jobs'[f].row.source \in {Main[q]} \cup Pages[q]
  /\ Progress(f, [stage |-> "storing", query |-> q, row |-> jobs'[f].row])

\* A transport error, an upstream status or an unparsable answer: 502.
UpstreamFails(f) ==
  /\ fetches[f].stage = "upstream"
  /\ Progress(f, [stage |-> "failed"])
  /\ UNCHANGED vars

Fetched(fetch) == [stage |-> "fetched", query |-> fetch.query, row |-> fetch.row]

Store(f) ==
  /\ fetches[f].stage = "storing"
  /\ Put(f)
  /\ Progress(f, Fetched(fetches[f]))

\* Mutant: an observation that cannot be stored is returned all the same.
ReturnUnstored(f) ==
  /\ fetches[f].stage = "storing"
  /\ Fail(f)
  /\ Progress(f, Fetched(fetches[f]))

PutFails(f) ==
  /\ fetches[f].stage = "storing"
  /\ Fail(f)
  /\ Progress(f, [stage |-> "failed"])

OtherRequests ==
  /\ (\E c \in Callers \ Fetchers : Request(c)) \/ Tick
  /\ UNCHANGED <<fetches, seen>>

RestartFetches == Restart /\ fetches' = [f \in Fetchers |-> NoFetch] /\ UNCHANGED seen

FetchNext ==
  \/ \E f \in Fetchers :
       \/ Lookup(f) \/ AnswerFromCache(f)
       \/ Upstream(f) \/ UpstreamFails(f)
       \/ Store(f) \/ PutFails(f)
  \/ OtherRequests
  \/ RestartFetches

FetchSpec == FetchInit /\ [][FetchNext]_fvars

-----------------------------------------------------------------------------
(* Properties *)

\* With a clock that never goes back, what a caller is answered for a query never
\* goes back either, from the cache or the upstream, whatever else is stored or
\* withdrawn meanwhile: withdrawing the newest answer uncovers no older one
\* (docs/CORRECTION_REPLAY.md).
AnswersNeverGoBack ==
  [][ClockSteps \subseteq Nat =>
       \A f \in Fetchers :
         fetches[f].stage \in {"found", "storing"} /\ fetches'[f].stage \in {"cached", "fetched"}
           => fetches'[f].row.observed >= seen[f][fetches[f].query]
    ]_fvars

\* A cached answer is fresh as it is returned, though the clock is read after the
\* row, and its payload was not withdrawn as it was read.
CachedAnswerSound ==
  [][\A f \in Fetchers :
       fetches[f].stage = "found" /\ fetches'[f].stage = "cached" =>
         FreshRow(fetches'[f].row, clock) /\ fetches'[f].row.payload \notin fetches[f].gone
    ]_fvars

\* An observation is returned only after the ledger holds its receipt.
ReturnedIsRecorded ==
  \A f \in Fetchers :
    fetches[f].stage \in {"cached", "fetched"} =>
      \E r \in rows : Receipt(r) = Receipt(fetches[f].row)

=============================================================================
