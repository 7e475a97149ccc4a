--------------------------- MODULE StoreClientsProofs ---------------------------
(***************************************************************************)
(* Theorems about the two clients of the replay store, ConnectorFetch and  *)
(* InferenceInvocation, for every set of callers, queries and sources,     *)
(* every catalogue and every way the clock may move.  A fetch or an        *)
(* invocation conjoins its progress to a step of the store, so that the    *)
(* invariant of ReplayStoreProofs holds here as well.  For an invocation   *)
(* it tells that the set of invalidated assessments grows, and that        *)
(* CURRENT is told only of an assessment outside it.                       *)
(***************************************************************************)
EXTENDS ConnectorFetch, InferenceInvocation, ReplayStoreProofs

-----------------------------------------------------------------------------
(* The store below the fetches *)

LEMMA FetchStepIsStoreStep == [FetchNext]_fvars => [Next]_vars
<1>. SUFFICES ASSUME [FetchNext]_fvars PROVE [Next]_vars
  OBVIOUS
<1>1. ASSUME NEW f \in Fetchers,
             Lookup(f) \/ AnswerFromCache(f) \/ Upstream(f) \/ UpstreamFails(f)
               \/ Store(f) \/ PutFails(f)
      PROVE  [Next]_vars
  <2>1. f \in Callers
    BY FetchAssumption
  <2>2. Request(f) \/ UNCHANGED vars
    BY <1>1 DEF Lookup, AnswerFromCache, Upstream, UpstreamFails, Store, PutFails, Request
  <2>. QED BY <2>1, <2>2 DEF Next, vars
<1>2. CASE OtherRequests
  BY <1>2 DEF OtherRequests, Next
<1>3. CASE RestartFetches
  BY <1>3 DEF RestartFetches, Next
<1>4. CASE UNCHANGED fvars
  BY <1>4 DEF fvars, vars
<1>. QED BY <1>1, <1>2, <1>3, <1>4 DEF FetchNext

LEMMA FetchesKeepStore == FetchSpec => []IInv
<1>1. FetchInit => IInv
  BY InitInv DEF FetchInit
<1>2. IInv /\ [FetchNext]_fvars => IInv'
  BY FetchStepIsStoreStep, NextInv
<1>. QED BY <1>1, <1>2, PTL DEF FetchSpec

\* The ledger holds the receipt of a row.
Recorded(row) == \E r \in rows : Receipt(r) = Receipt(row)

\* A step of the store writes at most the row of one request, over a row of its receipt.
LEMMA RowsWritten ==
  ASSUME [Next]_vars
  PROVE  \/ rows' = rows
         \/ \E c \in Callers : jobs[c].op = "put" /\ rows' = InsertOrReplace(rows, jobs[c].row)
BY DEF Next, Request, vars, BeginFetch, Put, BeginResolve, Decide, Register, BeginStatus, Status,
       BeginWithdraw, Withdraw, Fail, Tick, Restart

LEMMA ReceiptsStay ==
  ASSUME [Next]_vars, NEW row, Recorded(row)
  PROVE  Recorded(row)'
<1>1. PICK r \in rows : Receipt(r) = Receipt(row)
  BY DEF Recorded
<1>2. \E s \in rows' : Receipt(s) = Receipt(r)
  BY RowsWritten DEF InsertOrReplace
<1>. QED BY <1>1, <1>2 DEF Recorded

-----------------------------------------------------------------------------
(* The fetches *)

Fetch ==
  [stage : {"none", "failed"}]
  \cup [stage : {"found"}, query : Queries, found : SUBSET Row, withdrawn : BOOLEAN,
        gone : SUBSET Payloads]
  \cup [stage : {"upstream"}, query : Queries]
  \cup [stage : {"storing", "cached", "fetched"}, query : Queries, row : Row]

Answers(q) == {Main[q]} \cup Pages[q]

\* What a fetch holds is recorded, or is the row its request will store; a row that was
\* read as usable was not withdrawn then.
Held(f) ==
  LET fetch == fetches[f] IN
  /\ fetch.stage = "found" =>
       /\ \A r, s \in fetch.found : r = s
       /\ \A r \in fetch.found :
            /\ Recorded(r) /\ r.source \in Answers(fetch.query)
            /\ ~fetch.withdrawn => r.payload \notin fetch.gone
  /\ fetch.stage = "storing" =>
       /\ jobs[f].op = "put" /\ jobs[f].row = fetch.row
       /\ fetch.row.source \in Answers(fetch.query)
  /\ fetch.stage \in {"cached", "fetched"} => Recorded(fetch.row)

FetchInv ==
  /\ fetches \in [Fetchers -> Fetch]
  /\ seen \in [Fetchers -> [Queries -> Nat]]
  /\ \A f \in Fetchers : Held(f)

LEMMA InitFetches == FetchInit => FetchInv
BY DEF FetchInit, FetchInv, Fetch, Held, NoFetch

FetchStep(f) ==
  Lookup(f) \/ AnswerFromCache(f) \/ Upstream(f) \/ UpstreamFails(f) \/ Store(f) \/ PutFails(f)

LEMMA ProgressTo ==
  ASSUME FetchInv, NEW f \in Fetchers, NEW fetch \in Fetch, Progress(f, fetch)
  PROVE  /\ fetches' \in [Fetchers -> Fetch] /\ fetches'[f] = fetch
         /\ \A g \in Fetchers : g # f => fetches'[g] = fetches[g] /\ seen'[g] = seen[g]
         /\ seen' \in [Fetchers -> [Queries -> Nat]]
         /\ fetch.stage \notin {"cached", "fetched"} => seen' = seen
         /\ fetch.stage \in {"cached", "fetched"} =>
              /\ seen'[f][fetch.query] = Later(seen[f][fetch.query], fetch.row.observed)
              /\ \A q \in Queries : q # fetch.query => seen'[f][q] = seen[f][q]
<1>1. /\ fetches' \in [Fetchers -> Fetch] /\ fetches'[f] = fetch
      /\ \A g \in Fetchers : g # f => fetches'[g] = fetches[g]
  BY DEF FetchInv, Progress
<1>2. CASE fetch.stage \in {"cached", "fetched"}
  <2>1. fetch.query \in Queries /\ fetch.row.observed \in Nat
    BY <1>2 DEF Fetch, Row
  <2>2. seen' = [seen EXCEPT ![f][fetch.query] = Later(seen[f][fetch.query], fetch.row.observed)]
    BY <1>2 DEF Progress
  <2>3. Later(seen[f][fetch.query], fetch.row.observed) \in Nat
    BY <2>1 DEF FetchInv, Later
  <2>. QED BY <1>1, <1>2, <2>1, <2>2, <2>3 DEF FetchInv
<1>3. CASE fetch.stage \notin {"cached", "fetched"}
  BY <1>1, <1>3 DEF FetchInv, Progress
<1>. QED BY <1>2, <1>3

\* A fetch that the step does not move keeps what it holds.
LEMMA OtherFetches ==
  ASSUME FetchInv, [FetchNext]_fvars, NEW f \in Fetchers,
         fetches'[f] = fetches[f], jobs'[f] = jobs[f]
  PROVE  Held(f)'
BY FetchStepIsStoreStep, ReceiptsStay DEF FetchInv, Held

LEMMA FetchIsOwn ==
  ASSUME IInv, FetchInv, NEW f \in Fetchers, FetchStep(f)
  PROVE  \A g \in Fetchers : g # f => fetches'[g] = fetches[g] /\ jobs'[g] = jobs[g]
<1>1. jobs \in [Callers -> Job] /\ Fetchers \subseteq Callers
  BY FetchAssumption DEF IInv, TypeOK
<1>2. \E x : fetches' = [fetches EXCEPT ![f] = x]
  BY DEF FetchStep, Lookup, AnswerFromCache, Upstream, UpstreamFails, Store, PutFails, Progress
<1>3. jobs' = jobs \/ \E x : jobs' = [jobs EXCEPT ![f] = x]
  <2>1. Lookup(f) \/ AnswerFromCache(f) \/ UpstreamFails(f) => jobs' = jobs
    BY DEF Lookup, AnswerFromCache, UpstreamFails, vars
  <2>2. Upstream(f) => \E x : jobs' = [jobs EXCEPT ![f] = x]
    BY DEF Upstream, BeginFetch
  <2>3. Store(f) \/ PutFails(f) => \E x : jobs' = [jobs EXCEPT ![f] = x]
    BY DEF Store, Put, PutFails, Fail
  <2>. QED BY <2>1, <2>2, <2>3 DEF FetchStep
<1>. QED BY <1>1, <1>2, <1>3 DEF FetchInv

-----------------------------------------------------------------------------
(* The steps of a fetch, each with what it makes of the fetch *)

LEMMA LookupOutcome ==
  ASSUME IInv, FetchInv, NEW f \in Fetchers, Lookup(f)
  PROVE  /\ UNCHANGED vars
         /\ \E fetch \in Fetch :
              /\ Progress(f, fetch)
              /\ \/ fetch.stage = "upstream"
                 \/ /\ fetch.stage = "found"
                    /\ \A s, t \in fetch.found : s = t
                    /\ \A s \in fetch.found :
                         s \in Newest(fetch.query) /\ (~fetch.withdrawn => s.payload \notin fetch.gone)
<1>1. rows \subseteq Row /\ withdrawn \subseteq Payloads
  BY DEF IInv, TypeOK
<1>2. PICK q \in Queries :
        \/ /\ Newest(q) = {}
           /\ Progress(f, Found(q, {}, FALSE))
        \/ \E r \in Newest(q) : Progress(f, Found(q, {r}, r.payload \in withdrawn))
        \/ Progress(f, [stage |-> "upstream", query |-> q])
  BY DEF Lookup
<1>3. UNCHANGED vars
  BY DEF Lookup
<1>4. Newest(q) \subseteq Row
  BY <1>1 DEF Newest, OfQuery
<1>5. CASE Progress(f, Found(q, {}, FALSE))
  <2>1. Found(q, {}, FALSE) \in Fetch
    BY <1>1 DEF Found, Fetch
  <2>. QED BY <1>3, <1>5, <2>1 DEF Found
<1>6. CASE \E r \in Newest(q) : Progress(f, Found(q, {r}, r.payload \in withdrawn))
  <2>1. PICK r \in Newest(q) : Progress(f, Found(q, {r}, r.payload \in withdrawn))
    BY <1>6
  <2> DEFINE fetch == Found(q, {r}, r.payload \in withdrawn)
  <2>2. fetch \in Fetch
    BY <1>1, <1>4 DEF Found, Fetch
  <2>3. /\ fetch.stage = "found" /\ fetch.found = {r} /\ fetch.query = q
        /\ fetch.gone = withdrawn
        /\ ~fetch.withdrawn => r.payload \notin withdrawn
    BY DEF Found
  <2>4. Progress(f, fetch)
    BY <2>1
  <2>. HIDE DEF fetch
  <2>5. \A s \in fetch.found : s \in Newest(fetch.query) /\ (~fetch.withdrawn => s.payload \notin fetch.gone)
    BY <2>3
  <2>6. \A s, t \in fetch.found : s = t
    BY <2>3
  <2>. QED BY <1>3, <2>2, <2>3, <2>4, <2>5, <2>6
<1>7. CASE Progress(f, [stage |-> "upstream", query |-> q])
  <2>1. [stage |-> "upstream", query |-> q] \in Fetch
    BY DEF Fetch
  <2>. QED BY <1>3, <1>7, <2>1
<1>. QED BY <1>2, <1>5, <1>6, <1>7

LEMMA CacheOutcome ==
  ASSUME IInv, FetchInv, NEW f \in Fetchers, AnswerFromCache(f)
  PROVE  /\ UNCHANGED vars /\ fetches[f].stage = "found"
         /\ \E fetch \in Fetch :
              /\ Progress(f, fetch)
              /\ fetch.query = fetches[f].query
              /\ \/ fetch.stage = "upstream"
                 \/ /\ fetch.stage = "cached" /\ fetch.row \in fetches[f].found
                    /\ \E r \in fetches[f].found : ~fetches[f].withdrawn /\ FreshRow(r, clock)
<1>1. /\ UNCHANGED vars /\ fetches[f].stage = "found"
      /\ fetches[f].found \subseteq Row /\ fetches[f].query \in Queries
  BY DEF AnswerFromCache, FetchInv, Fetch
<1>2. CASE Hit(fetches[f])
  <2>1. PICK r \in fetches[f].found :
          Progress(f, [stage |-> "cached", query |-> fetches[f].query, row |-> r])
    BY <1>2 DEF AnswerFromCache
  <2>2. [stage |-> "cached", query |-> fetches[f].query, row |-> r] \in Fetch
    BY <1>1 DEF Fetch
  <2>. QED BY <1>1, <1>2, <2>1, <2>2 DEF Hit
<1>3. CASE ~Hit(fetches[f])
  <2>1. Progress(f, [stage |-> "upstream", query |-> fetches[f].query])
    BY <1>3 DEF AnswerFromCache
  <2>2. [stage |-> "upstream", query |-> fetches[f].query] \in Fetch
    BY <1>1 DEF Fetch
  <2>. QED BY <1>1, <2>1, <2>2
<1>. QED BY <1>2, <1>3

LEMMA UpstreamOutcome ==
  ASSUME IInv, IInv', FetchInv, NEW f \in Fetchers, Upstream(f)
  PROVE  /\ rows' = rows /\ clock' = clock
         /\ jobs'[f].op = "put" /\ jobs'[f].row.observed = clock
         /\ jobs'[f].row.source \in Answers(fetches[f].query)
         /\ \E fetch \in Fetch :
              /\ Progress(f, fetch)
              /\ fetch.stage = "storing" /\ fetch.query = fetches[f].query
              /\ fetch.row = jobs'[f].row
<1>0. f \in Callers /\ jobs \in [Callers -> Job] /\ jobs'[f] \in Job
  BY FetchAssumption DEF IInv, TypeOK
<1>1. /\ rows' = rows /\ clock' = clock
      /\ jobs'[f].op = "put" /\ jobs'[f].row.observed = clock
  BY <1>0 DEF Upstream, BeginFetch
<1>2. jobs'[f].row \in Row
  BY <1>0, <1>1 DEF Job, Idle
<1>3. fetches[f].query \in Queries
  BY DEF Upstream, FetchInv, Fetch
<1>4. [stage |-> "storing", query |-> fetches[f].query, row |-> jobs'[f].row] \in Fetch
  BY <1>2, <1>3 DEF Fetch
<1>. QED BY <1>1, <1>4 DEF Upstream, Answers

LEMMA StoreOutcome ==
  ASSUME IInv, FetchInv, NEW f \in Fetchers, Store(f)
  PROVE  /\ clock' = clock
         /\ fetches[f].stage = "storing" /\ fetches[f].row \in rows'
         /\ \E fetch \in Fetch :
              /\ Progress(f, fetch)
              /\ fetch.stage = "fetched" /\ fetch.query = fetches[f].query
              /\ fetch.row = fetches[f].row
<1>1. fetches[f].stage = "storing" /\ jobs[f].row = fetches[f].row
  BY DEF Store, FetchInv, Held
<1>2. fetches[f].row \in rows' /\ clock' = clock
  BY <1>1 DEF Store, Put, InsertOrReplace
<1>3. fetches[f].query \in Queries /\ fetches[f].row \in Row
  BY <1>1 DEF FetchInv, Fetch
<1>4. Fetched(fetches[f]) \in Fetch
  BY <1>3 DEF Fetched, Fetch
<1>. QED BY <1>1, <1>2, <1>4 DEF Store, Fetched

LEMMA FailOutcome ==
  ASSUME NEW f, UpstreamFails(f) \/ PutFails(f)
  PROVE  /\ rows' = rows /\ clock' = clock
         /\ Progress(f, [stage |-> "failed"]) /\ [stage |-> "failed"] \in Fetch
BY DEF UpstreamFails, PutFails, vars, Fail, Fetch

LEMMA StepHolds ==
  ASSUME IInv, IInv', FetchInv, NEW f \in Fetchers, FetchStep(f)
  PROVE  /\ fetches' \in [Fetchers -> Fetch]
         /\ seen' \in [Fetchers -> [Queries -> Nat]]
         /\ Held(f)'
<1>0. [Next]_vars
  BY FetchStepIsStoreStep DEF FetchStep, FetchNext
<1>1. CASE Lookup(f)
  <2>1. rows' = rows
    BY <1>1 DEF Lookup, vars
  <2>2. \A q : Newest(q) \subseteq OfQuery(q) /\ \A r \in OfQuery(q) : Recorded(r) /\ r.source \in Answers(q)
    BY DEF Newest, OfQuery, Recorded, Answers
  <2>3. PICK fetch \in Fetch :
          /\ Progress(f, fetch)
          /\ \/ fetch.stage = "upstream"
             \/ /\ fetch.stage = "found"
                /\ \A s, t \in fetch.found : s = t
                /\ \A s \in fetch.found :
                     s \in Newest(fetch.query) /\ (~fetch.withdrawn => s.payload \notin fetch.gone)
    BY <1>1, LookupOutcome
  <2>4. /\ fetches' \in [Fetchers -> Fetch] /\ fetches'[f] = fetch
        /\ seen' \in [Fetchers -> [Queries -> Nat]]
    BY <2>3, ProgressTo
  <2>. QED BY <2>1, <2>2, <2>3, <2>4 DEF Held, Recorded
<1>2. CASE AnswerFromCache(f)
  <2>1. rows' = rows
    BY <1>2 DEF AnswerFromCache, vars
  <2>. QED BY <1>2, <2>1, CacheOutcome, ProgressTo DEF Held, Recorded, FetchInv
<1>3. CASE Upstream(f)
  BY <1>3, UpstreamOutcome, ProgressTo DEF Held
<1>4. CASE Store(f)
  BY <1>4, StoreOutcome, ProgressTo DEF Held, Recorded
<1>5. CASE UpstreamFails(f) \/ PutFails(f)
  BY <1>5, FailOutcome, ProgressTo DEF Held
<1>. QED BY <1>1, <1>2, <1>3, <1>4, <1>5 DEF FetchStep

\* The other callers, the clock and a restart leave every fetch, or end them all.
LEMMA RestKeeps ==
  ASSUME IInv, FetchInv, [FetchNext]_fvars, ~\E f \in Fetchers : FetchStep(f)
  PROVE  /\ seen' = seen
         /\ \/ fetches' = [f \in Fetchers |-> NoFetch]
            \/ fetches' = fetches /\ \A f \in Fetchers : jobs'[f] = jobs[f]
<1>1. CASE OtherRequests
  <2>1. jobs \in [Callers -> Job] /\ Fetchers \subseteq Callers
    BY FetchAssumption DEF IInv, TypeOK
  <2>2. jobs' = jobs \/ \E c \in Callers \ Fetchers : \E x : jobs' = [jobs EXCEPT ![c] = x]
    <3>1. CASE Tick
      BY <3>1 DEF Tick
    <3>2. ASSUME NEW c \in Callers \ Fetchers, Request(c)
          PROVE  \E x : jobs' = [jobs EXCEPT ![c] = x]
      <4>1. BeginFetch(c) => \E x : jobs' = [jobs EXCEPT ![c] = x]
        BY DEF BeginFetch
      <4>2. BeginResolve(c) => \E x : jobs' = [jobs EXCEPT ![c] = x]
        BY DEF BeginResolve
      <4>3. BeginStatus(c) => \E x : jobs' = [jobs EXCEPT ![c] = x]
        BY DEF BeginStatus
      <4>4. BeginWithdraw(c) => \E x : jobs' = [jobs EXCEPT ![c] = x]
        BY DEF BeginWithdraw
      <4>5. Put(c) \/ Withdraw(c) \/ Fail(c) => \E x : jobs' = [jobs EXCEPT ![c] = x]
        BY DEF Put, Withdraw, Fail
      <4>6. Decide(c) => \E x : jobs' = [jobs EXCEPT ![c] = x]
        BY DEF Decide
      <4>7. Register(c) => \E x : jobs' = [jobs EXCEPT ![c] = x]
        BY DEF Register, Reply
      <4>8. Status(c) => \E x : jobs' = [jobs EXCEPT ![c] = x]
        BY DEF Status, Reply
      <4>. QED BY <3>2, <4>1, <4>2, <4>3, <4>4, <4>5, <4>6, <4>7, <4>8 DEF Request
    <3>. QED BY <1>1, <3>1, <3>2 DEF OtherRequests
  <2>. QED BY <1>1, <2>1, <2>2 DEF OtherRequests
<1>2. CASE RestartFetches
  BY <1>2 DEF RestartFetches
<1>3. CASE UNCHANGED fvars
  BY <1>3 DEF fvars
<1>. QED BY <1>1, <1>2, <1>3 DEF FetchNext, FetchStep

LEMMA NextFetches == IInv /\ IInv' /\ FetchInv /\ [FetchNext]_fvars => FetchInv'
<1>. SUFFICES ASSUME IInv, IInv', FetchInv, [FetchNext]_fvars PROVE FetchInv'
  OBVIOUS
<1>1. CASE \E f \in Fetchers : FetchStep(f)
  BY <1>1, StepHolds, FetchIsOwn, OtherFetches DEF FetchInv
<1>2. CASE ~\E f \in Fetchers : FetchStep(f)
  <2>1. CASE fetches' = [f \in Fetchers |-> NoFetch]
    BY <1>2, <2>1, RestKeeps DEF FetchInv, Fetch, Held, NoFetch
  <2>2. CASE fetches' = fetches /\ \A f \in Fetchers : jobs'[f] = jobs[f]
    BY <1>2, <2>2, RestKeeps, OtherFetches DEF FetchInv
  <2>. QED BY <1>2, <2>1, <2>2, RestKeeps
<1>. QED BY <1>1, <1>2

LEMMA FetchInvariance == FetchSpec => [](IInv /\ FetchInv)
BY InitFetches, NextFetches, FetchesKeepStore, PTL DEF FetchSpec

-----------------------------------------------------------------------------
(* What was returned, and what the cache answers *)

\* An observation is returned only after the ledger holds its receipt, and it stays there.
THEOREM ReturnedStaysRecorded == FetchSpec => []ReturnedIsRecorded
<1>1. FetchInv => ReturnedIsRecorded
  BY DEF FetchInv, Held, Recorded, ReturnedIsRecorded
<1>. QED BY <1>1, FetchInvariance, PTL

\* Only its own step takes a fetch from one stage to a stage of an answer.
LEMMA AnswerIsOwn ==
  ASSUME IInv, FetchInv, [FetchNext]_fvars, NEW f \in Fetchers,
         fetches[f].stage \in {"found", "storing"}, fetches'[f].stage \in {"cached", "fetched"}
  PROVE  FetchStep(f)
<1>1. fetches'[f] # fetches[f]
  OBVIOUS
<1>2. CASE ~\E g \in Fetchers : FetchStep(g)
  BY <1>1, <1>2, RestKeeps DEF NoFetch
<1>. QED BY <1>1, <1>2, FetchIsOwn

\* A cached answer is fresh as it is given, and was not withdrawn as it was read.
THEOREM CachedIsSound == FetchSpec => CachedAnswerSound
<1> DEFINE Answered(f) == fetches[f].stage = "found" /\ fetches'[f].stage = "cached"
           Good(f) == FreshRow(fetches'[f].row, clock) /\ fetches'[f].row.payload \notin fetches[f].gone
<1>1. ASSUME IInv, IInv', FetchInv, [FetchNext]_fvars, NEW f \in Fetchers, Answered(f)
      PROVE  Good(f)
  <2>1. FetchStep(f)
    BY <1>1, AnswerIsOwn
  <2>2. AnswerFromCache(f)
    BY <1>1, <2>1 DEF FetchStep, Lookup, Upstream, UpstreamFails, Store, PutFails
  <2>3. PICK fetch \in Fetch :
          /\ Progress(f, fetch) /\ fetch.stage = "cached" /\ fetch.row \in fetches[f].found
          /\ \E r \in fetches[f].found : ~fetches[f].withdrawn /\ FreshRow(r, clock)
    <3>1. PICK fetch \in Fetch :
            /\ Progress(f, fetch)
            /\ \/ fetch.stage = "upstream"
               \/ /\ fetch.stage = "cached" /\ fetch.row \in fetches[f].found
                  /\ \E r \in fetches[f].found : ~fetches[f].withdrawn /\ FreshRow(r, clock)
      BY <1>1, <2>2, CacheOutcome
    <3>2. fetches'[f] = fetch
      BY <1>1, <3>1, ProgressTo
    <3>. QED BY <1>1, <3>1, <3>2
  <2>4. fetches'[f].row = fetch.row
    BY <1>1, <2>3, ProgressTo
  <2>5. /\ \A r, s \in fetches[f].found : r = s
        /\ \A r \in fetches[f].found : ~fetches[f].withdrawn => r.payload \notin fetches[f].gone
    BY <1>1 DEF FetchInv, Held
  <2>. QED BY <2>3, <2>4, <2>5
<1>2. IInv /\ IInv' /\ FetchInv /\ [FetchNext]_fvars =>
        [\A f \in Fetchers : Answered(f) => Good(f)]_fvars
  BY <1>1
<1>. QED BY <1>2, FetchInvariance, PTL DEF FetchSpec, CachedAnswerSound

-----------------------------------------------------------------------------
(* With a clock that never goes back, answers do not either *)

\* Nothing was observed in the future.
Timed ==
  /\ \A r \in rows : r.observed <= clock
  /\ \A c \in Callers : jobs[c].op = "put" => jobs[c].row.observed <= clock

LEMMA TimeGoesOn ==
  ASSUME IInv, ClockSteps \subseteq Nat, [Next]_vars
  PROVE  clock' \in Nat /\ clock <= clock'
<1>1. clock \in Nat
  BY DEF IInv, TypeOK
<1>2. CASE Tick
  BY <1>1, <1>2 DEF Tick
<1>3. CASE ~Tick
  <2>1. clock' = clock
    BY <1>3 DEF Next, Request, vars, BeginFetch, Put, BeginResolve, Decide, Register, BeginStatus,
                Status, BeginWithdraw, Withdraw, Fail, Restart
  <2>. QED BY <1>1, <2>1
<1>. QED BY <1>2, <1>3

LEMMA NextTimed ==
  ASSUME IInv, IInv', Timed, ClockSteps \subseteq Nat, [Next]_vars
  PROVE  Timed'
<1>0. /\ jobs \in [Callers -> Job] /\ clock \in Nat /\ clock' \in Nat /\ clock <= clock'
      /\ rows \subseteq Row
  BY TimeGoesOn DEF IInv, TypeOK
<1>1. \A c \in Callers : jobs[c].op = "put" => jobs[c].row \in Row
  BY <1>0 DEF Job, Idle
<1>2. \A r \in rows' : r.observed <= clock'
  BY <1>0, <1>1, RowsWritten DEF Timed, InsertOrReplace, Row
<1>3. ASSUME NEW c \in Callers, jobs'[c].op = "put"
      PROVE  jobs'[c].row.observed <= clock'
  <2>1. CASE BeginFetch(c)
    <3>1. jobs'[c].row.observed = clock
      BY <1>0, <2>1 DEF BeginFetch
    <3>. QED BY <1>0, <3>1
  <2>2. CASE ~BeginFetch(c)
    <3>1. CASE jobs' = jobs
      BY <1>0, <1>1, <1>3, <3>1 DEF Timed, Row
    <3>2. CASE jobs' = [x \in Callers |-> Idle]
      BY <1>3, <3>2 DEF Idle
    <3>3. ASSUME NEW d \in Callers, Request(d) PROVE jobs'[c].row.observed <= clock'
      <4>1. d # c => jobs'[c] = jobs[c]
        <5>1. \E x : jobs' = [jobs EXCEPT ![d] = x]
          <6>1. BeginFetch(d) => \E x : jobs' = [jobs EXCEPT ![d] = x]
            BY DEF BeginFetch
          <6>2. BeginResolve(d) => \E x : jobs' = [jobs EXCEPT ![d] = x]
            BY DEF BeginResolve
          <6>3. BeginStatus(d) => \E x : jobs' = [jobs EXCEPT ![d] = x]
            BY DEF BeginStatus
          <6>4. BeginWithdraw(d) => \E x : jobs' = [jobs EXCEPT ![d] = x]
            BY DEF BeginWithdraw
          <6>5. Put(d) \/ Withdraw(d) \/ Fail(d) => \E x : jobs' = [jobs EXCEPT ![d] = x]
            BY DEF Put, Withdraw, Fail
          <6>6. Decide(d) => \E x : jobs' = [jobs EXCEPT ![d] = x]
            BY DEF Decide
          <6>7. Register(d) => \E x : jobs' = [jobs EXCEPT ![d] = x]
            BY DEF Register, Reply
          <6>8. Status(d) => \E x : jobs' = [jobs EXCEPT ![d] = x]
            BY DEF Status, Reply
          <6>. QED BY <3>3, <6>1, <6>2, <6>3, <6>4, <6>5, <6>6, <6>7, <6>8 DEF Request
        <5>. QED BY <1>0, <5>1
      <4>2. d = c => jobs'[c].op # "put"
        BY <1>0, <2>2, <3>3 DEF Request, Put, BeginResolve, Decide, Register, BeginStatus, Status,
              BeginWithdraw, Withdraw, Fail, Reply, Idle
      <4>. QED BY <1>0, <1>1, <1>3, <4>1, <4>2 DEF Timed, Row
    <3>. QED BY <3>1, <3>2, <3>3 DEF Next, Tick, Restart, vars
  <2>. QED BY <2>1, <2>2
<1>. QED BY <1>2, <1>3 DEF Timed

\* Among the rows is one that answers the query and is as new as the time.
Reached(rs, q, time) == \E r \in rs : r.source \in Answers(q) /\ r.observed >= time

\* What a fetch was answered is not newer than the clock, and the ledger holds a row of
\* the query that is as new; what it is about to be answered is as new again.
Newer(f) ==
  LET fetch == fetches[f] IN
  /\ \A q \in Queries :
       seen[f][q] <= clock /\ (seen[f][q] > 0 => Reached(rows, q, seen[f][q]))
  /\ fetch.stage = "found" => \A r \in fetch.found : r.observed >= seen[f][fetch.query]
  /\ fetch.stage = "storing" => fetch.row.observed >= seen[f][fetch.query]

NewerInv == Timed /\ \A f \in Fetchers : Newer(f)

LEMMA ReachedStays ==
  ASSUME [Next]_vars, NEW q, NEW time, Reached(rows, q, time)
  PROVE  Reached(rows', q, time)
<1>1. PICK r \in rows : r.source \in Answers(q) /\ r.observed >= time
  BY DEF Reached
<1>2. Recorded(r)'
  BY <1>1, ReceiptsStay DEF Recorded
<1>3. PICK s \in rows' : Receipt(s) = Receipt(r)
  BY <1>2 DEF Recorded
<1>4. s.source = r.source /\ s.observed = r.observed
  BY <1>3 DEF Receipt
<1>. QED BY <1>1, <1>3, <1>4 DEF Reached

\* A fetch that the step does not move keeps its times.
LEMMA OtherTimes ==
  ASSUME IInv, FetchInv, NewerInv, ClockSteps \subseteq Nat, [FetchNext]_fvars, NEW f \in Fetchers,
         fetches'[f] = fetches[f] \/ fetches'[f] = NoFetch, seen'[f] = seen[f]
  PROVE  Newer(f)'
<1>1. [Next]_vars /\ clock \in Nat /\ clock' \in Nat /\ clock <= clock'
  BY FetchStepIsStoreStep, TimeGoesOn DEF IInv, TypeOK
<1>2. \A q \in Queries : seen[f][q] \in Nat
  BY DEF FetchInv
<1>3. \A q \in Queries : seen'[f][q] <= clock' /\ (seen'[f][q] > 0 => Reached(rows', q, seen'[f][q]))
  BY <1>1, <1>2, ReachedStays DEF NewerInv, Newer
<1>4. Newer(f)
  BY DEF NewerInv
<1>. QED BY <1>3, <1>4 DEF Newer, NoFetch

\* Of the rows of a query the newest is as new as any that was answered before.
LEMMA NewestIsNewer ==
  ASSUME IInv, FetchInv, NewerInv, NEW f \in Fetchers, NEW q \in Queries, NEW r \in Newest(q)
  PROVE  r.observed >= seen[f][q]
<1>1. r \in Row /\ \A s \in OfQuery(q) : s \in Row /\ s.observed <= r.observed
  BY DEF Newest, OfQuery, IInv, TypeOK
<1>2. seen[f][q] \in Nat /\ (seen[f][q] > 0 => Reached(rows, q, seen[f][q]))
  BY DEF FetchInv, NewerInv, Newer
<1>. QED BY <1>1, <1>2 DEF Reached, OfQuery, Answers, Row

\* What a fetch is answered becomes the latest it was answered.
LEMMA AnswerTimes ==
  ASSUME IInv, IInv', FetchInv, FetchInv', NewerInv, Timed', ClockSteps \subseteq Nat, [Next]_vars,
         NEW f \in Fetchers, NEW fetch \in Fetch, Progress(f, fetch),
         fetch.stage \in {"cached", "fetched"},
         fetch.row.source \in Answers(fetch.query), Recorded(fetch.row)',
         fetch.row.observed >= seen[f][fetch.query]
  PROVE  Newer(f)'
<1>1. /\ clock \in Nat /\ clock' \in Nat /\ clock <= clock'
      /\ rows' \subseteq Row /\ fetch.row \in Row /\ fetch.query \in Queries
      /\ \A q \in Queries : seen[f][q] \in Nat
  BY TimeGoesOn DEF IInv, TypeOK, Fetch, FetchInv
<1>2. /\ fetches'[f] = fetch
      /\ seen'[f][fetch.query] = Later(seen[f][fetch.query], fetch.row.observed)
      /\ \A q \in Queries : q # fetch.query => seen'[f][q] = seen[f][q]
  BY ProgressTo
<1>3. seen'[f][fetch.query] = fetch.row.observed
  BY <1>1, <1>2 DEF Later, Row
<1>4. PICK s \in rows' : Receipt(s) = Receipt(fetch.row)
  BY DEF Recorded
<1>5. s.source = fetch.row.source /\ s.observed = fetch.row.observed /\ s.observed <= clock'
  BY <1>4 DEF Receipt, Timed
<1>6. Reached(rows', fetch.query, fetch.row.observed)
  BY <1>1, <1>4, <1>5 DEF Reached, Row
<1>7. seen'[f][fetch.query] <= clock' /\ Reached(rows', fetch.query, seen'[f][fetch.query])
  BY <1>3, <1>5, <1>6
<1>8. \A q \in Queries : q # fetch.query =>
        seen'[f][q] <= clock' /\ (seen'[f][q] > 0 => Reached(rows', q, seen'[f][q]))
  BY <1>1, <1>2, ReachedStays DEF NewerInv, Newer
<1>. QED BY <1>2, <1>7, <1>8 DEF Newer

LEMMA StepTimes ==
  ASSUME IInv, IInv', FetchInv, FetchInv', NewerInv, Timed', ClockSteps \subseteq Nat,
         NEW f \in Fetchers, FetchStep(f)
  PROVE  Newer(f)'
<1>0. /\ [FetchNext]_fvars /\ [Next]_vars
      /\ clock \in Nat /\ clock' \in Nat /\ clock <= clock'
      /\ \A q \in Queries : seen[f][q] \in Nat
  BY FetchStepIsStoreStep, TimeGoesOn DEF FetchStep, FetchNext, IInv, TypeOK, FetchInv
<1>1. ASSUME seen' = seen,
             fetches'[f].stage = "found" =>
               \A r \in fetches'[f].found : r.observed >= seen[f][fetches'[f].query],
             fetches'[f].stage = "storing" =>
               fetches'[f].row.observed >= seen[f][fetches'[f].query]
      PROVE  Newer(f)'
  <2>1. \A q \in Queries : seen'[f][q] <= clock' /\ (seen'[f][q] > 0 => Reached(rows', q, seen'[f][q]))
    BY <1>0, <1>1, ReachedStays DEF NewerInv, Newer
  <2>. QED BY <1>1, <2>1 DEF Newer
<1>2. CASE Lookup(f)
  <2>1. PICK fetch \in Fetch :
          /\ Progress(f, fetch)
          /\ \/ fetch.stage = "upstream"
             \/ /\ fetch.stage = "found"
                /\ \A s, t \in fetch.found : s = t
                /\ \A s \in fetch.found :
                     s \in Newest(fetch.query) /\ (~fetch.withdrawn => s.payload \notin fetch.gone)
    BY <1>2, LookupOutcome
  <2>2. fetches'[f] = fetch /\ seen' = seen
    BY <2>1, ProgressTo
  <2>3. fetch.stage = "found" => fetch.query \in Queries
    BY DEF Fetch
  <2>. QED BY <1>1, <2>1, <2>2, <2>3, NewestIsNewer
<1>3. CASE AnswerFromCache(f)
  <2>1. PICK fetch \in Fetch :
          /\ Progress(f, fetch)
          /\ fetch.query = fetches[f].query
          /\ \/ fetch.stage = "upstream"
             \/ /\ fetch.stage = "cached" /\ fetch.row \in fetches[f].found
                /\ \E r \in fetches[f].found : ~fetches[f].withdrawn /\ FreshRow(r, clock)
    BY <1>3, CacheOutcome
  <2>2. fetches'[f] = fetch /\ fetches[f].stage = "found"
    BY <1>3, <2>1, ProgressTo, CacheOutcome
  <2>3. CASE fetch.stage = "upstream"
    <3>1. seen' = seen
      BY <2>1, <2>3, ProgressTo
    <3>. QED BY <1>1, <2>2, <2>3, <3>1
  <2>4. CASE fetch.stage = "cached"
    <3>1. fetch.row \in fetches[f].found
      BY <2>1, <2>4
    <3>2. Recorded(fetch.row) /\ fetch.row.source \in Answers(fetch.query)
      BY <2>1, <2>2, <3>1 DEF FetchInv, Held
    <3>3. Recorded(fetch.row)'
      BY <1>0, <3>2, ReceiptsStay
    <3>4. fetch.row.observed >= seen[f][fetch.query]
      BY <2>1, <2>2, <3>1 DEF NewerInv, Newer
    <3>. QED BY <1>0, <2>1, <2>4, <3>2, <3>3, <3>4, AnswerTimes
  <2>. QED BY <2>1, <2>3, <2>4
<1>4. CASE Upstream(f)
  <2>1. PICK fetch \in Fetch :
          /\ Progress(f, fetch)
          /\ fetch.stage = "storing" /\ fetch.query = fetches[f].query
          /\ fetch.row = jobs'[f].row
    BY <1>4, UpstreamOutcome
  <2>2. fetches'[f] = fetch /\ seen' = seen /\ fetch.row.observed = clock /\ fetch.query \in Queries
    BY <1>4, <2>1, ProgressTo, UpstreamOutcome DEF Fetch
  <2>3. seen[f][fetch.query] <= clock
    BY <2>2 DEF NewerInv, Newer
  <2>. QED BY <1>0, <1>1, <2>1, <2>2, <2>3
<1>5. CASE Store(f)
  <2>1. PICK fetch \in Fetch :
          /\ Progress(f, fetch)
          /\ fetch.stage = "fetched" /\ fetch.query = fetches[f].query
          /\ fetch.row = fetches[f].row
    BY <1>5, StoreOutcome
  <2>2. fetches[f].stage = "storing" /\ fetch.row \in rows'
    BY <1>5, <2>1, StoreOutcome
  <2>3. fetch.row.source \in Answers(fetch.query)
    BY <2>1, <2>2 DEF FetchInv, Held
  <2>4. Recorded(fetch.row)'
    BY <2>2 DEF Recorded
  <2>5. fetch.row.observed >= seen[f][fetch.query]
    BY <2>1, <2>2 DEF NewerInv, Newer
  <2>. QED BY <1>0, <2>1, <2>3, <2>4, <2>5, AnswerTimes
<1>6. CASE UpstreamFails(f) \/ PutFails(f)
  <2>1. Progress(f, [stage |-> "failed"]) /\ [stage |-> "failed"] \in Fetch
    BY <1>6, FailOutcome
  <2>2. fetches'[f] = [stage |-> "failed"] /\ seen' = seen
    BY <2>1, ProgressTo
  <2>. QED BY <1>1, <2>2
<1>. QED BY <1>2, <1>3, <1>4, <1>5, <1>6 DEF FetchStep

OnwardInv == ClockSteps \subseteq Nat => NewerInv

LEMMA NextOnward ==
  IInv /\ IInv' /\ FetchInv /\ FetchInv' /\ OnwardInv /\ [FetchNext]_fvars => OnwardInv'
<1>. SUFFICES ASSUME IInv, IInv', FetchInv, FetchInv', NewerInv, ClockSteps \subseteq Nat,
                     [FetchNext]_fvars
              PROVE  NewerInv'
  BY DEF OnwardInv
<1>1. Timed'
  BY FetchStepIsStoreStep, NextTimed DEF NewerInv
<1>2. ASSUME NEW f \in Fetchers, FetchStep(f) PROVE \A g \in Fetchers : Newer(g)'
  <2>1. Newer(f)'
    BY <1>1, <1>2, StepTimes
  <2>2. \A g \in Fetchers : g # f => fetches'[g] = fetches[g] /\ seen'[g] = seen[g]
    <3>1. \E fetch \in Fetch : Progress(f, fetch)
      BY <1>2, LookupOutcome, CacheOutcome, UpstreamOutcome, StoreOutcome, FailOutcome DEF FetchStep
    <3>. QED BY <3>1, ProgressTo
  <2>. QED BY <2>1, <2>2, OtherTimes
<1>3. CASE ~\E f \in Fetchers : FetchStep(f)
  <2>1. \A g \in Fetchers : (fetches'[g] = fetches[g] \/ fetches'[g] = NoFetch) /\ seen'[g] = seen[g]
    BY <1>3, RestKeeps
  <2>. QED BY <1>1, <2>1, OtherTimes DEF NewerInv
<1>. QED BY <1>1, <1>2, <1>3 DEF NewerInv

LEMMA InitOnward == FetchInit => OnwardInv
<1>1. FetchInit => Timed
  BY DEF FetchInit, Init, Timed, Idle
<1>2. FetchInit => \A f \in Fetchers : Newer(f)
  BY DEF FetchInit, Init, Newer, NoFetch
<1>. QED BY <1>1, <1>2 DEF OnwardInv, NewerInv

LEMMA OnwardInvariance == FetchSpec => [](IInv /\ FetchInv /\ OnwardInv)
BY InitOnward, NextOnward, FetchInvariance, PTL DEF FetchSpec

\* With a clock that never goes back, what a fetch is answered is never older than what
\* it was answered before for the same query.
THEOREM NeverBack == FetchSpec => AnswersNeverGoBack
<1> DEFINE Answered(f) == fetches[f].stage \in {"found", "storing"} /\ fetches'[f].stage \in {"cached", "fetched"}
           Good(f) == fetches'[f].row.observed >= seen[f][fetches[f].query]
<1>1. ASSUME IInv, IInv', FetchInv, OnwardInv, ClockSteps \subseteq Nat, [FetchNext]_fvars,
             NEW f \in Fetchers, Answered(f)
      PROVE  Good(f)
  <2>1. FetchStep(f) /\ Newer(f)
    BY <1>1, AnswerIsOwn DEF OnwardInv, NewerInv
  <2>2. CASE AnswerFromCache(f)
    <3>1. PICK fetch \in Fetch :
            /\ Progress(f, fetch)
            /\ fetch.query = fetches[f].query
            /\ \/ fetch.stage = "upstream"
               \/ /\ fetch.stage = "cached" /\ fetch.row \in fetches[f].found
                  /\ \E r \in fetches[f].found : ~fetches[f].withdrawn /\ FreshRow(r, clock)
      BY <1>1, <2>2, CacheOutcome
    <3>2. fetches'[f] = fetch
      BY <1>1, <3>1, ProgressTo
    <3>3. fetches[f].stage = "found"
      BY <1>1, <2>2, CacheOutcome
    <3>. QED BY <1>1, <2>1, <3>1, <3>2, <3>3 DEF Newer
  <2>3. CASE Store(f)
    <3>1. PICK fetch \in Fetch :
            /\ Progress(f, fetch)
            /\ fetch.stage = "fetched" /\ fetch.query = fetches[f].query
            /\ fetch.row = fetches[f].row
      BY <1>1, <2>3, StoreOutcome
    <3>2. fetches'[f] = fetch /\ fetches[f].stage = "storing"
      BY <1>1, <2>3, <3>1, ProgressTo, StoreOutcome
    <3>. QED BY <2>1, <3>1, <3>2 DEF Newer
  <2>4. CASE Lookup(f) \/ Upstream(f)
    BY <1>1, <2>4 DEF Lookup, Upstream
  <2>5. CASE UpstreamFails(f) \/ PutFails(f)
    BY <1>1, <2>5, FailOutcome, ProgressTo
  <2>. QED BY <2>1, <2>2, <2>3, <2>4, <2>5 DEF FetchStep
<1>2. IInv /\ IInv' /\ FetchInv /\ OnwardInv /\ [FetchNext]_fvars =>
        [ClockSteps \subseteq Nat => \A f \in Fetchers : Answered(f) => Good(f)]_fvars
  BY <1>1
<1>. QED BY <1>2, OnwardInvariance, PTL DEF FetchSpec, AnswersNeverGoBack

-----------------------------------------------------------------------------
(* The store below the invocations *)

LEMMA InvokeStepIsStoreStep == [InvokeNext]_ivars => [Next]_vars
<1>. SUFFICES ASSUME [InvokeNext]_ivars PROVE [Next]_vars
  OBVIOUS
<1>1. CASE \E i \in Invokers : Begin(i) \/ InvokeStep(i)
  <2>1. PICK i \in Invokers : Begin(i) \/ InvokeStep(i)
    BY <1>1
  <2>2. i \in Callers
    BY InvokersAssumption
  <2>3. Request(i) \/ UNCHANGED vars
    BY <2>1 DEF Begin, InvokeStep, Plan, RegisterPlan, CheckFresh, CheckStatus, RequireCurrent,
                SampleBefore, SampleAfter, Sample, LookBefore, LookAfter, Look, Dispatch,
                Answer, ProviderFails, CheckStatusAgain, Compare, StoreFails, Request
  <2>. QED BY <2>2, <2>3 DEF Next, vars
<1>2. CASE Others
  BY <1>2 DEF Others, Next
<1>3. CASE RestartCalls
  BY <1>3 DEF RestartCalls, Next
<1>4. CASE UNCHANGED ivars
  BY <1>4 DEF ivars, vars
<1>. QED BY <1>1, <1>2, <1>3, <1>4 DEF InvokeNext

LEMMA CallsKeepStore == InvokeSpec => [](IInv /\ BasisInv)
<1>1. InvokeInit => IInv /\ BasisInv
  BY InitInv DEF InvokeInit, Init, BasisInv, Idle
<1>2. IInv /\ BasisInv /\ [InvokeNext]_ivars => IInv' /\ BasisInv'
  BY InvokeStepIsStoreStep, NextInv, NextBasis
<1>. QED BY <1>1, <1>2, PTL DEF InvokeSpec

\* No step forgets an assessment, or stands one up again.
LEMMA StoreGrows ==
  ASSUME IInv, [InvokeNext]_ivars
  PROVE  DOMAIN assessments \subseteq DOMAIN assessments' /\ Latched \subseteq Latched'
BY InvokeStepIsStoreStep, NextEntries DEF KeepsEntry, Latched

-----------------------------------------------------------------------------
(* The calls *)

Checking == Stages \ {"plan", "register"}
Checked1 == {"sample", "look", "dispatch", "provider", "recheck", "resample", "relook",
             "compare", "released"}
Checked2 == {"resample", "relook", "compare", "released"}
Sent == {"provider", "recheck"}

\* A moment that is no longer in the evidence's life stays after it.
Begun(basis) == basis # {} /\ \A r \in basis : r.observed <= clock
Over(basis) == \E r \in basis : r.expires <= clock

\* What holds of a call and of the request the store sees of it: its assessment is
\* recorded; what it noted as invalidated still is; a status check is about its own
\* assessment; and after a check, its assessment is not among what it noted.  What
\* was sent on evidence that had changed is latched until the check after the answer.
Sound(i) ==
  /\ calls[i].stage \in Checking => calls[i].id \in DOMAIN assessments
  /\ calls[i].stage \in Stages => calls[i].revoked \subseteq Latched
  /\ calls[i].stage = "recheck" => calls[i].reverted \subseteq Latched
  /\ calls[i].stage \in {"status", "recheck"} =>
       jobs[i].op = "status" /\ jobs[i].id = calls[i].id
  /\ calls[i].stage \in Checked1 => calls[i].id \notin calls[i].revoked
  /\ calls[i].stage \in Checked2 => calls[i].id \notin calls[i].reverted
  /\ calls[i].stage \in Sent => calls[i].intact \/ calls[i].id \in Latched
  /\ calls[i].stage \in Checked2 => calls[i].intact

CallInv ==
  /\ calls \in [Invokers -> Call]
  /\ \A i \in Invokers : Sound(i)

LEMMA InitCalls == InvokeInit => CallInv
BY DEF InvokeInit, CallInv, Call, Sound, NoCall, Ends, Stages, Named, Checking, Checked1, Checked2, Sent

\* A call that the step does not move stays sound, whatever the store does meanwhile.
LEMMA OtherCalls ==
  ASSUME IInv, CallInv, [InvokeNext]_ivars, NEW i \in Invokers,
         calls'[i] = calls[i], jobs'[i] = jobs[i]
  PROVE  Sound(i)'
BY StoreGrows DEF CallInv, Sound

\* A step of a call and of the request it is in moves no other.
LEMMA CallIsOwn ==
  ASSUME IInv, CallInv, NEW i \in Invokers, Begin(i) \/ InvokeStep(i)
  PROVE  \A j \in Invokers : j # i => calls'[j] = calls[j] /\ jobs'[j] = jobs[j]
<1>1. jobs \in [Callers -> Job] /\ Invokers \subseteq Callers
  BY InvokersAssumption DEF IInv, TypeOK
<1>2. \E x : calls' = [calls EXCEPT ![i] = x]
  BY DEF Begin, InvokeStep, Plan, RegisterPlan, CheckFresh, CheckStatus, RequireCurrent,
         SampleBefore, SampleAfter, Sample, LookBefore, LookAfter, Look, Dispatch, Answer,
         ProviderFails, CheckStatusAgain, Compare, StoreFails, Goto, Refuse, Advance
<1>3. jobs' = jobs \/ \E x : jobs' = [jobs EXCEPT ![i] = x]
  <2>1. Begin(i) => \E x : jobs' = [jobs EXCEPT ![i] = x]
    BY DEF Begin, BeginResolve
  <2>2. Plan(i) => \E x : jobs' = [jobs EXCEPT ![i] = x]
    BY DEF Plan, Decide
  <2>3. RegisterPlan(i) => \E x : jobs' = [jobs EXCEPT ![i] = x]
    BY DEF RegisterPlan, Register, Reply
  <2>4. CheckFresh(i) => jobs' = jobs \/ \E x : jobs' = [jobs EXCEPT ![i] = x]
    BY DEF CheckFresh, BeginStatus, vars
  <2>5. CheckStatus(i) \/ CheckStatusAgain(i) => \E x : jobs' = [jobs EXCEPT ![i] = x]
    BY DEF CheckStatus, CheckStatusAgain, RequireCurrent, Status, Reply
  <2>6. Answer(i) => \E x : jobs' = [jobs EXCEPT ![i] = x]
    BY DEF Answer, BeginStatus
  <2>7. StoreFails(i) => \E x : jobs' = [jobs EXCEPT ![i] = x]
    BY DEF StoreFails, Fail
  <2>8. SampleBefore(i) \/ SampleAfter(i) \/ LookBefore(i) \/ LookAfter(i) \/ Dispatch(i)
          \/ ProviderFails(i) \/ Compare(i) => jobs' = jobs
    BY DEF SampleBefore, SampleAfter, Sample, LookBefore, LookAfter, Look, Dispatch,
           ProviderFails, Compare, vars
  <2>. QED BY <2>1, <2>2, <2>3, <2>4, <2>5, <2>6, <2>7, <2>8 DEF InvokeStep
<1>. QED BY <1>1, <1>2, <1>3 DEF CallInv

-----------------------------------------------------------------------------
(* The steps of a call *)

\* The entry of a call after it advanced.
LEMMA AdvanceTo ==
  ASSUME CallInv, NEW i \in Invokers, NEW call \in Call, Advance(i, call)
  PROVE  calls' \in [Invokers -> Call] /\ calls'[i] = call
BY DEF CallInv, Advance

\* A call whose assessment is known holds all of the fields.
LEMMA NamedCall ==
  ASSUME CallInv, NEW i \in Invokers, calls[i].stage \in Checking
  PROVE  calls[i] \in Named
BY DEF CallInv, Call, Named, Checking, Stages, Ends

\* A call that only goes to another stage keeps the rest.
LEMMA GotoTo ==
  ASSUME CallInv, NEW i \in Invokers, calls[i].stage \in Checking,
         NEW stage \in Checking \cup {"released"}, Goto(i, stage)
  PROVE  /\ calls' \in [Invokers -> Call]
         /\ calls'[i].stage = stage
         /\ calls'[i].id = calls[i].id
         /\ calls'[i].revoked = calls[i].revoked
         /\ calls'[i].reverted = calls[i].reverted
         /\ calls'[i].intact = calls[i].intact
         /\ calls'[i].fresh = calls[i].fresh
<1> DEFINE call == [calls[i] EXCEPT !.stage = stage]
<1>1. calls[i] \in Named
  BY NamedCall
<1>2. /\ call \in Named /\ call.stage = stage
      /\ call.id = calls[i].id /\ call.revoked = calls[i].revoked /\ call.reverted = calls[i].reverted
      /\ call.intact = calls[i].intact /\ call.fresh = calls[i].fresh
  BY <1>1 DEF Named, Checking
<1>3. Advance(i, call)
  BY DEF Goto
<1>. HIDE DEF call
<1>. QED BY <1>2, <1>3, AdvanceTo DEF Call

\* So does one that reads the time, or the ledger.
LEMMA ReadTo ==
  ASSUME IInv, CallInv, NEW i \in Invokers,
         NEW stage \in {"sample", "look", "resample", "relook"}, NEW next \in Checking,
         Sample(i, stage, next) \/ Look(i, stage, next)
  PROVE  /\ calls' \in [Invokers -> Call]
         /\ calls[i].stage = stage
         /\ calls'[i].stage = next
         /\ calls'[i].id = calls[i].id
         /\ calls'[i].revoked = calls[i].revoked
         /\ calls'[i].reverted = calls[i].reverted
         /\ calls'[i].intact = calls[i].intact
         /\ calls'[i].fresh = calls[i].fresh
<1>1. calls[i].stage = stage /\ calls[i] \in Named
  BY NamedCall DEF Sample, Look, Checking, Stages
<1>2. PICK at \in Nat, found \in SUBSET Row :
        Advance(i, [calls[i] EXCEPT !.stage = next, !.at = at, !.found = found])
  <2>1. CASE Sample(i, stage, next)
    <3>1. clock \in Nat /\ calls[i].found \in SUBSET Row
      BY <1>1 DEF IInv, TypeOK, Named
    <3>2. [calls[i] EXCEPT !.stage = next, !.at = clock]
            = [calls[i] EXCEPT !.stage = next, !.at = clock, !.found = calls[i].found]
      BY <1>1 DEF Named
    <3>. QED BY <2>1, <3>1, <3>2 DEF Sample
  <2>2. CASE Look(i, stage, next)
    <3>1. PICK found \in {Resolve(rows, withdrawn, deployed,
                            {dep.payload : dep \in calls[i].id.basis}, calls[i].at), {}} :
            Advance(i, [calls[i] EXCEPT !.stage = next, !.found = found])
      BY <2>2 DEF Look
    <3>2. found \in SUBSET Row /\ calls[i].at \in Nat
      BY <1>1 DEF Resolve, IInv, TypeOK, Named
    <3>3. [calls[i] EXCEPT !.stage = next, !.found = found]
            = [calls[i] EXCEPT !.stage = next, !.at = calls[i].at, !.found = found]
      BY <1>1 DEF Named
    <3>. QED BY <3>1, <3>2, <3>3
  <2>. QED BY <2>1, <2>2
<1> DEFINE call == [calls[i] EXCEPT !.stage = next, !.at = at, !.found = found]
<1>3. /\ call \in Named /\ call.stage = next
      /\ call.id = calls[i].id /\ call.revoked = calls[i].revoked /\ call.reverted = calls[i].reverted
      /\ call.intact = calls[i].intact /\ call.fresh = calls[i].fresh
  BY <1>1 DEF Named, Checking
<1>. HIDE DEF call
<1>4. calls' \in [Invokers -> Call] /\ calls'[i] = call
  BY <1>2, <1>3, AdvanceTo DEF Call, call
<1>. QED BY <1>1, <1>3, <1>4

\* A dispatch notes what the ledger selects, and the time, as the text is sent.
LEMMA DispatchTo ==
  ASSUME IInv, CallInv, NEW i \in Invokers, Dispatch(i), ~Refuse(i)
  PROVE  /\ calls' \in [Invokers -> Call]
         /\ calls[i].stage = "dispatch"
         /\ calls'[i].stage = "provider"
         /\ calls'[i].id = calls[i].id
         /\ calls'[i].revoked = calls[i].revoked
         /\ calls'[i].intact = Intact(rows, withdrawn, calls[i].id.basis)
         /\ calls'[i].fresh = FreshAt(calls[i].id.basis, clock)
<1> DEFINE intact == Intact(rows, withdrawn, calls[i].id.basis)
           fresh == FreshAt(calls[i].id.basis, clock)
           call == [calls[i] EXCEPT !.stage = "provider", !.found = {},
                                    !.intact = intact, !.fresh = fresh]
<1>1. calls[i].stage = "dispatch" /\ calls[i] \in Named /\ Advance(i, call)
  BY NamedCall DEF Dispatch, Checking, Stages
<1>2. intact \in BOOLEAN /\ fresh \in BOOLEAN
  BY DEF Intact, FreshAt
<1>. HIDE DEF intact, fresh
<1>3. /\ call \in Named /\ call.stage = "provider"
      /\ call.id = calls[i].id /\ call.revoked = calls[i].revoked
      /\ call.intact = intact /\ call.fresh = fresh
  BY <1>1, <1>2 DEF Named, Stages
<1>. HIDE DEF call
<1>4. calls' \in [Invokers -> Call] /\ calls'[i] = call
  BY <1>1, <1>3, AdvanceTo DEF Call
<1>. QED BY <1>1, <1>3, <1>4 DEF intact, fresh

\* An answer notes what is invalidated by then.
LEMMA AnswerTo ==
  ASSUME IInv, CallInv, NEW i \in Invokers, Answer(i)
  PROVE  /\ calls' \in [Invokers -> Call]
         /\ calls[i].stage = "provider"
         /\ calls'[i].stage = "recheck"
         /\ calls'[i].id = calls[i].id
         /\ calls'[i].revoked = calls[i].revoked
         /\ calls'[i].reverted = Latched
         /\ calls'[i].intact = calls[i].intact
         /\ calls'[i].fresh = calls[i].fresh
<1> DEFINE call == [calls[i] EXCEPT !.stage = "recheck", !.reverted = Latched]
<1>1. calls[i].stage = "provider" /\ calls[i] \in Named /\ Advance(i, call)
  BY NamedCall DEF Answer, Checking, Stages
<1>2. Latched \in SUBSET Id
  BY DEF IInv, TypeOK, Latched
<1>3. /\ call \in Named /\ call.stage = "recheck"
      /\ call.id = calls[i].id /\ call.revoked = calls[i].revoked /\ call.reverted = Latched
      /\ call.intact = calls[i].intact /\ call.fresh = calls[i].fresh
  BY <1>1, <1>2 DEF Named, Stages
<1>. HIDE DEF call
<1>4. calls' \in [Invokers -> Call] /\ calls'[i] = call
  BY <1>1, <1>3, AdvanceTo DEF Call
<1>. QED BY <1>1, <1>3, <1>4

\* What a check of its own assessment leaves a call that goes on: the assessment stands.
LEMMA CheckedStands ==
  ASSUME IInv, CallInv, NEW i \in Invokers, calls[i].stage \in {"status", "recheck"},
         Status(i), jobs'[i].verdict = "CURRENT"
  PROVE  calls[i].id \notin Latched'
<1> DEFINE id == jobs[i].id
           a == assessments[id]
           b == Checked(a, TxnNow(jobs[i]), {deployed})
<1>1. /\ i \in Callers /\ id = calls[i].id /\ id \in DOMAIN assessments /\ id \in Id
      /\ a \in Assessment /\ TxnNow(jobs[i]) \in Nat
      /\ a.invalidated <=> a.reasons # {}
  BY InvokersAssumption DEF CallInv, Sound, Status, IInv, TypeOK, LatchedHasReason, TxnNow
<1>2. assessments' = Record(id, b) /\ Reply(i, id, Verdict(b))
  BY DEF Status
<1>3. Verdict(b) = "CURRENT"
  BY <1>1, <1>2 DEF Reply, IInv, TypeOK
<1>4. ~b.invalidated
  BY <1>1, <1>3, CurrentEntry
<1>5. assessments'[id] = b
  BY <1>1, <1>2 DEF Record
<1>. QED BY <1>1, <1>4, <1>5 DEF Latched

\* A step that ends a call leaves it with nothing to be sound about.
LEMMA RefuseIsSound ==
  ASSUME CallInv, NEW i \in Invokers, Refuse(i)
  PROVE  calls' \in [Invokers -> Call] /\ Sound(i)'
<1>1. calls' \in [Invokers -> Call] /\ calls'[i] = [stage |-> "refused"]
  BY AdvanceTo DEF Refuse, Call, Ends
<1>. QED BY <1>1 DEF Sound, Stages, Checking, Checked1, Checked2, Sent

LEMMA StepIsSound ==
  ASSUME IInv, IInv', BasisInv, CallInv, NEW i \in Invokers, Begin(i) \/ InvokeStep(i)
  PROVE  calls' \in [Invokers -> Call] /\ Sound(i)'
<1>0. /\ [InvokeNext]_ivars
      /\ i \in Callers /\ jobs \in [Callers -> Job]
      /\ Latched \subseteq Id /\ clock \in Nat
      /\ calls[i] \in Call /\ Sound(i)
  BY InvokersAssumption DEF InvokeNext, IInv, TypeOK, Latched, CallInv
<1>1. DOMAIN assessments \subseteq DOMAIN assessments' /\ Latched \subseteq Latched'
  BY <1>0, StoreGrows
<1>2. CASE Begin(i)
  <2>1. Latched' = Latched
    BY <1>2 DEF Begin, BeginResolve, Latched
  <2>2. calls' \in [Invokers -> Call] /\ calls'[i] = [stage |-> "plan", revoked |-> Latched]
    BY <1>0, <1>2, AdvanceTo DEF Begin, Call
  <2>. QED BY <2>1, <2>2 DEF Sound, Stages, Checking, Checked1, Checked2, Sent
<1>3. CASE Plan(i)
  <2>1. CASE Goto(i, "register")
    <3>1. calls[i] \in [stage : {"plan", "register"}, revoked : SUBSET Id]
      BY <1>0, <1>3 DEF Plan, Call, Named, Ends
    <3> DEFINE call == [calls[i] EXCEPT !.stage = "register"]
    <3>2. call \in Call /\ call.stage = "register" /\ call.revoked = calls[i].revoked
      BY <3>1 DEF Call, Stages
    <3>3. Advance(i, call)
      BY <2>1 DEF Goto
    <3> HIDE DEF call
    <3>4. calls' \in [Invokers -> Call] /\ calls'[i] = call
      BY <3>2, <3>3, AdvanceTo
    <3>5. calls[i].revoked \subseteq Latched
      BY <1>0, <1>3 DEF Plan, Sound, Stages
    <3>. QED BY <1>1, <3>2, <3>4, <3>5 DEF Sound, Stages, Checking, Checked1, Checked2, Sent
  <2>. QED BY <1>3, <2>1, RefuseIsSound DEF Plan
<1>4. CASE RegisterPlan(i)
  <2>1. CASE jobs'[i].verdict = "CURRENT"
    <3> DEFINE call == [stage |-> "fresh", id |-> jobs'[i].id, at |-> 0, found |-> {},
                        revoked |-> calls[i].revoked, reverted |-> {},
                        intact |-> TRUE, fresh |-> TRUE]
    <3>1. Advance(i, call)
      BY <1>4, <2>1 DEF RegisterPlan
    <3>2. calls[i].revoked \subseteq Latched
      BY <1>0, <1>4 DEF RegisterPlan, Sound, Stages
    <3>3. jobs'[i].id \in DOMAIN assessments'
      BY <1>0, <1>4 DEF RegisterPlan, Register, Reply, Record
    <3>4. jobs'[i].id \in Id
      BY <3>3 DEF IInv, TypeOK
    <3>5. call \in Call
      BY <1>0, <3>2, <3>4 DEF Call, Named, Stages
    <3>6. calls' \in [Invokers -> Call] /\ calls'[i] = call
      BY <3>1, <3>5, AdvanceTo
    <3>. QED BY <1>1, <3>2, <3>3, <3>6 DEF Sound, Stages, Checking, Checked1, Checked2, Sent
  <2>. QED BY <1>4, <2>1, RefuseIsSound DEF RegisterPlan
<1>5. CASE CheckFresh(i)
  <2>1. CASE Goto(i, "status") /\ BeginStatus(i) /\ jobs'[i].id = calls[i].id
    <3>1. calls[i].stage \in Stages /\ calls[i].stage \in Checking
      BY <1>5 DEF CheckFresh, Stages, Checking
    <3>2. /\ calls' \in [Invokers -> Call] /\ calls'[i].stage = "status"
          /\ calls'[i].id = calls[i].id /\ calls'[i].revoked = calls[i].revoked
      BY <2>1, <3>1, GotoTo DEF Checking, Stages
    <3>3. jobs'[i].op = "status"
      BY <1>0, <2>1 DEF BeginStatus
    <3>. QED BY <1>0, <1>1, <2>1, <3>1, <3>2, <3>3 DEF Sound, Stages, Checking, Checked1, Checked2, Sent
  <2>. QED BY <1>5, <2>1, RefuseIsSound DEF CheckFresh
<1>6. CASE CheckStatus(i)
  <2>1. CASE Goto(i, "sample") /\ jobs'[i].verdict = "CURRENT"
    <3>1. calls[i].stage = "status" /\ calls[i].stage \in Stages /\ calls[i].stage \in Checking /\ Status(i)
      BY <1>6 DEF CheckStatus, RequireCurrent, Stages, Checking
    <3>2. /\ calls' \in [Invokers -> Call] /\ calls'[i].stage = "sample"
          /\ calls'[i].id = calls[i].id /\ calls'[i].revoked = calls[i].revoked
      BY <2>1, <3>1, GotoTo DEF Checking, Stages
    <3>3. calls[i].id \notin Latched'
      BY <2>1, <3>1, CheckedStands
    <3>. QED BY <1>0, <1>1, <3>1, <3>2, <3>3 DEF Sound, Stages, Checking, Checked1, Checked2, Sent
  <2>. QED BY <1>6, <2>1, RefuseIsSound DEF CheckStatus, RequireCurrent
<1>7. CASE SampleBefore(i) \/ LookBefore(i) \/ SampleAfter(i) \/ LookAfter(i)
  <2>1. PICK stage \in {"sample", "look", "resample", "relook"} :
          /\ calls[i].stage = stage
          /\ calls' \in [Invokers -> Call]
          /\ calls'[i].stage = CASE stage = "sample" -> "look" [] stage = "look" -> "dispatch"
                                 [] stage = "resample" -> "relook" [] OTHER -> "compare"
          /\ calls'[i].id = calls[i].id
          /\ calls'[i].revoked = calls[i].revoked
          /\ calls'[i].reverted = calls[i].reverted
          /\ calls'[i].intact = calls[i].intact
    BY <1>7, ReadTo DEF SampleBefore, LookBefore, SampleAfter, LookAfter, Checking, Stages
  <2>. QED BY <1>0, <1>1, <2>1 DEF Sound, Stages, Checking, Checked1, Checked2, Sent
<1>8. CASE Dispatch(i)
  <2>1. CASE Refuse(i)
    BY <2>1, RefuseIsSound
  <2>2. CASE ~Refuse(i)
    <3>1. /\ calls' \in [Invokers -> Call] /\ calls[i].stage = "dispatch"
          /\ calls'[i].stage = "provider" /\ calls'[i].id = calls[i].id
          /\ calls'[i].revoked = calls[i].revoked
          /\ calls'[i].intact = Intact(rows, withdrawn, calls[i].id.basis)
      BY <1>8, <2>2, DispatchTo
    <3>2. calls[i].id \in DOMAIN assessments /\ assessments[calls[i].id].basis = calls[i].id.basis
      BY <1>0, <3>1 DEF Sound, Checking, Stages, BasisInv
    <3>3. calls'[i].intact \/ calls[i].id \in Latched
      BY <3>1, <3>2 DEF IInv, StandingBasisIntact, Standing
    <3>. QED BY <1>0, <1>1, <3>1, <3>3 DEF Sound, Stages, Checking, Checked1, Checked2, Sent
  <2>. QED BY <2>1, <2>2
<1>9. CASE Answer(i)
  <2>1. /\ calls' \in [Invokers -> Call] /\ calls[i].stage = "provider"
        /\ calls'[i].stage = "recheck" /\ calls'[i].id = calls[i].id
        /\ calls'[i].revoked = calls[i].revoked /\ calls'[i].reverted = Latched
        /\ calls'[i].intact = calls[i].intact
    BY <1>9, AnswerTo
  <2>2. jobs'[i].op = "status" /\ jobs'[i].id = calls[i].id
    BY <1>0, <1>9 DEF Answer, BeginStatus
  <2>. QED BY <1>0, <1>1, <2>1, <2>2 DEF Sound, Stages, Checking, Checked1, Checked2, Sent
<1>10. CASE CheckStatusAgain(i)
  <2>1. CASE Goto(i, "resample") /\ jobs'[i].verdict = "CURRENT"
    <3>1. calls[i].stage = "recheck" /\ calls[i].stage \in Checking /\ Status(i)
      BY <1>10 DEF CheckStatusAgain, RequireCurrent, Stages, Checking
    <3>2. /\ calls' \in [Invokers -> Call] /\ calls'[i].stage = "resample"
          /\ calls'[i].id = calls[i].id /\ calls'[i].revoked = calls[i].revoked
          /\ calls'[i].reverted = calls[i].reverted /\ calls'[i].intact = calls[i].intact
      BY <2>1, <3>1, GotoTo DEF Stages, Checking
    <3>3. calls[i].id \notin Latched'
      BY <2>1, <3>1, CheckedStands
    <3>. QED BY <1>0, <1>1, <3>1, <3>2, <3>3 DEF Sound, Stages, Checking, Checked1, Checked2, Sent
  <2>. QED BY <1>10, <2>1, RefuseIsSound DEF CheckStatusAgain, RequireCurrent
<1>11. CASE Compare(i)
  <2>1. CASE Goto(i, "released")
    <3>1. calls[i].stage = "compare" /\ calls[i].stage \in Checking
      BY <1>11 DEF Compare, Stages, Checking
    <3>2. /\ calls' \in [Invokers -> Call] /\ calls'[i].stage = "released"
          /\ calls'[i].id = calls[i].id /\ calls'[i].revoked = calls[i].revoked
          /\ calls'[i].reverted = calls[i].reverted /\ calls'[i].intact = calls[i].intact
      BY <2>1, <3>1, GotoTo
    <3>. QED BY <1>0, <1>1, <3>1, <3>2 DEF Sound, Stages, Checking, Checked1, Checked2, Sent
  <2>. QED BY <1>11, <2>1, RefuseIsSound DEF Compare
<1>12. CASE ProviderFails(i) \/ StoreFails(i)
  BY <1>12, RefuseIsSound DEF ProviderFails, StoreFails
<1>. QED BY <1>2, <1>3, <1>4, <1>5, <1>6, <1>7, <1>8, <1>9, <1>10, <1>11, <1>12 DEF InvokeStep

LEMMA NextCalls == IInv /\ IInv' /\ BasisInv /\ CallInv /\ [InvokeNext]_ivars => CallInv'
<1>. SUFFICES ASSUME IInv, IInv', BasisInv, CallInv, [InvokeNext]_ivars PROVE CallInv'
  OBVIOUS
<1>1. CASE \E i \in Invokers : Begin(i) \/ InvokeStep(i)
  <2>1. PICK i \in Invokers : Begin(i) \/ InvokeStep(i)
    BY <1>1
  <2>2. calls' \in [Invokers -> Call] /\ Sound(i)'
    BY <2>1, StepIsSound
  <2>3. \A j \in Invokers : j # i => Sound(j)'
    BY <2>1, CallIsOwn, OtherCalls
  <2>. QED BY <2>2, <2>3 DEF CallInv
<1>2. CASE Others
  <2>1. \A i \in Invokers : calls'[i] = calls[i] /\ jobs'[i] = jobs[i]
    <3>1. jobs \in [Callers -> Job] /\ Invokers \subseteq Callers
      BY InvokersAssumption DEF IInv, TypeOK
    <3>2. jobs' = jobs \/ \E c \in Callers \ Invokers : \E x : jobs' = [jobs EXCEPT ![c] = x]
      <4>1. CASE Tick
        BY <4>1 DEF Tick
      <4>2. ASSUME NEW c \in Callers \ Invokers, Request(c)
            PROVE  \E x : jobs' = [jobs EXCEPT ![c] = x]
        <5>1. BeginFetch(c) => \E x : jobs' = [jobs EXCEPT ![c] = x]
          BY DEF BeginFetch
        <5>2. BeginResolve(c) => \E x : jobs' = [jobs EXCEPT ![c] = x]
          BY DEF BeginResolve
        <5>3. BeginStatus(c) => \E x : jobs' = [jobs EXCEPT ![c] = x]
          BY DEF BeginStatus
        <5>4. BeginWithdraw(c) => \E x : jobs' = [jobs EXCEPT ![c] = x]
          BY DEF BeginWithdraw
        <5>5. Put(c) \/ Withdraw(c) \/ Fail(c) => \E x : jobs' = [jobs EXCEPT ![c] = x]
          BY DEF Put, Withdraw, Fail
        <5>6. Decide(c) => \E x : jobs' = [jobs EXCEPT ![c] = x]
          BY DEF Decide
        <5>7. Register(c) => \E x : jobs' = [jobs EXCEPT ![c] = x]
          BY DEF Register, Reply
        <5>8. Status(c) => \E x : jobs' = [jobs EXCEPT ![c] = x]
          BY DEF Status, Reply
        <5>. QED BY <4>2, <5>1, <5>2, <5>3, <5>4, <5>5, <5>6, <5>7, <5>8 DEF Request
      <4>. QED BY <1>2, <4>1, <4>2 DEF Others
    <3>. QED BY <1>2, <3>1, <3>2 DEF Others
  <2>. QED BY <1>2, <2>1, OtherCalls DEF CallInv, Others
<1>3. CASE RestartCalls
  <2>1. calls' = [i \in Invokers |-> NoCall]
    BY <1>3 DEF RestartCalls
  <2>. QED BY <2>1 DEF CallInv, Call, Sound, NoCall, Ends, Stages, Checking, Checked1, Checked2, Sent
<1>4. CASE UNCHANGED ivars
  <2>1. calls' = calls /\ jobs' = jobs
    BY <1>4 DEF ivars
  <2>. QED BY <2>1, OtherCalls DEF CallInv
<1>. QED BY <1>1, <1>2, <1>3, <1>4 DEF InvokeNext

LEMMA CallInvariance == InvokeSpec => [](IInv /\ BasisInv /\ CallInv)
BY InitCalls, NextCalls, CallsKeepStore, PTL DEF InvokeSpec

-----------------------------------------------------------------------------
(* Theorems *)

\* What was invalidated before a call began is never sent to the provider by it.
THEOREM RevokedStaysHere == InvokeSpec => []RevokedIsNeverSent
<1>1. CallInv => RevokedIsNeverSent
  BY DEF CallInv, Sound, Checked1, RevokedIsNeverSent
<1>. QED BY <1>1, CallInvariance, PTL

\* What was invalidated before the provider answered is never released.
THEOREM CorrectionHolds == InvokeSpec => []CorrectionWithholdsOutput
<1>1. CallInv => CorrectionWithholdsOutput
  BY DEF CallInv, Sound, Checked2, CorrectionWithholdsOutput
<1>. QED BY <1>1, CallInvariance, PTL

-----------------------------------------------------------------------------
(* The age of what is sent *)

\* A call past its first check has evidence that has begun; what was sent when
\* its time was over finds it over ever after.
Aged(i) ==
  /\ calls[i].stage \in Checking \ {"fresh"} => Begun(calls[i].id.basis)
  /\ calls[i].stage \in (Sent \cup Checked2) \ {"released"} =>
       calls[i].fresh \/ Over(calls[i].id.basis)
  /\ calls[i].stage = "released" => calls[i].fresh

AgedInv == \A i \in Invokers : Aged(i)
OnwardCalls == ClockSteps \subseteq Nat => AgedInv

\* With a clock that never goes back, what has begun has, and what is over is.
LEMMA AgeStays ==
  ASSUME IInv, IInv', ClockSteps \subseteq Nat, [Next]_vars, NEW id \in Id
  PROVE  /\ Begun(id.basis) => Begun(id.basis)'
         /\ Over(id.basis) => Over(id.basis)'
<1>1. clock \in Nat /\ clock' \in Nat /\ clock <= clock'
  BY TimeGoesOn DEF IInv, TypeOK
<1>2. \A r \in id.basis : r.observed \in Nat /\ r.expires \in Nat
  BY DEF Id, Row
<1>. QED BY <1>1, <1>2 DEF Begun, Over

LEMMA OtherAges ==
  ASSUME IInv, IInv', CallInv, ClockSteps \subseteq Nat, [InvokeNext]_ivars,
         NEW i \in Invokers, Aged(i), calls'[i] = calls[i]
  PROVE  Aged(i)'
<1>1. CASE calls[i].stage \in Checking
  <2>1. calls[i].id \in Id
    BY <1>1, NamedCall DEF Named
  <2>. QED BY <1>1, <2>1, InvokeStepIsStoreStep, AgeStays DEF Aged, Sent, Checked2, Checking, Stages
<1>2. CASE calls[i].stage \notin Checking
  BY <1>2 DEF Aged, Sent, Checked2, Checking, Stages
<1>. QED BY <1>1, <1>2

\* A call that goes on with the same assessment stays aged, unless it is just
\* sent or released.
LEMMA SameAge ==
  ASSUME IInv, IInv', CallInv, ClockSteps \subseteq Nat, [InvokeNext]_ivars,
         NEW i \in Invokers, Aged(i),
         calls[i].stage \in Checking \ {"fresh", "dispatch"},
         calls'[i].stage \in Checking \ {"fresh", "provider"},
         calls[i].stage \in Sent \cup Checked2 <=> calls'[i].stage \in Sent \cup Checked2,
         calls'[i].id = calls[i].id, calls'[i].fresh = calls[i].fresh
  PROVE  Aged(i)'
<1>1. calls[i].id \in Id
  BY NamedCall DEF Named
<1>2. Begun(calls[i].id.basis)' /\ (Over(calls[i].id.basis) => Over(calls[i].id.basis)')
  BY <1>1, InvokeStepIsStoreStep, AgeStays DEF Aged
<1>. QED BY <1>2 DEF Aged, Begun, Over, Checking, Stages

\* Evidence that has begun and is not fresh is over.
LEMMA BegunIsFreshOrOver ==
  ASSUME clock \in Nat, NEW id \in Id, Begun(id.basis)
  PROVE  FreshAt(id.basis, clock) <=> ~Over(id.basis)
<1>1. \A r \in id.basis : r.observed \in Nat /\ r.expires \in Nat
  BY DEF Id, Row
<1>. QED BY <1>1 DEF Begun, Over, FreshAt, FreshRow

LEMMA StepAges ==
  ASSUME IInv, IInv', CallInv, CallInv', ClockSteps \subseteq Nat, [InvokeNext]_ivars,
         NEW i \in Invokers, Aged(i), InvokeStep(i) \/ Begin(i)
  PROVE  Aged(i)'
<1>0. clock \in Nat
  BY DEF IInv, TypeOK
<1>1. CASE calls'[i].stage \notin (Checking \ {"fresh"}) \cup {"released"}
  BY <1>1 DEF Aged, Sent, Checked2, Checking, Stages
<1>2. CASE calls'[i].stage \in (Checking \ {"fresh"}) \cup {"released"}
  <2>0. ~Refuse(i) /\ ~Begin(i) /\ ~Plan(i) /\ ~RegisterPlan(i)
    <3>1. \A call : Advance(i, call) => calls'[i] = call
      BY DEF Advance, CallInv
    <3>2. ~Refuse(i) /\ ~Begin(i) /\ ~RegisterPlan(i)
      BY <1>2, <3>1 DEF Refuse, Begin, RegisterPlan, Checking, Stages
    <3>3. calls[i].stage = "plan" => ~Goto(i, "register")
      <4>1. calls[i].stage = "plan" => calls[i] \in [stage : {"plan", "register"}, revoked : SUBSET Id]
        BY DEF CallInv, Call, Named, Ends
      <4>. QED BY <1>2, <3>1, <4>1 DEF Goto, Checking
    <3>. QED BY <3>2, <3>3 DEF Plan
  <2>1. CASE CheckFresh(i)
    <3>1. /\ calls[i].stage = "fresh" /\ FreshAt(calls[i].id.basis, clock) /\ Goto(i, "status")
          /\ BeginStatus(i)
      BY <2>0, <2>1 DEF CheckFresh
    <3>2. calls'[i].stage = "status" /\ calls'[i].id = calls[i].id
      BY <3>1, GotoTo DEF Checking, Stages
    <3>3. clock' = clock
      BY <3>1 DEF BeginStatus
    <3>. QED BY <3>1, <3>2, <3>3 DEF Aged, Begun, FreshAt, FreshRow, Sent, Checked2
  <2>2. CASE CheckStatus(i) \/ CheckStatusAgain(i)
    <3>1. PICK stage \in {"status", "recheck"} :
            calls[i].stage = stage /\ Goto(i, IF stage = "status" THEN "sample" ELSE "resample")
      BY <2>0, <2>2 DEF CheckStatus, CheckStatusAgain, RequireCurrent
    <3>2. /\ calls'[i].stage = IF stage = "status" THEN "sample" ELSE "resample"
          /\ calls'[i].id = calls[i].id /\ calls'[i].fresh = calls[i].fresh
      BY <3>1, GotoTo DEF Checking, Stages
    <3>. QED BY <3>1, <3>2, SameAge DEF Checking, Stages, Sent, Checked2
  <2>3. CASE SampleBefore(i) \/ LookBefore(i) \/ SampleAfter(i) \/ LookAfter(i)
    <3>1. PICK stage \in {"sample", "look", "resample", "relook"} :
            /\ calls[i].stage = stage
            /\ calls'[i].stage = CASE stage = "sample" -> "look" [] stage = "look" -> "dispatch"
                                   [] stage = "resample" -> "relook" [] OTHER -> "compare"
            /\ calls'[i].id = calls[i].id /\ calls'[i].fresh = calls[i].fresh
      BY <2>3, ReadTo DEF SampleBefore, LookBefore, SampleAfter, LookAfter, Checking, Stages
    <3>. QED BY <3>1, SameAge DEF Checking, Stages, Sent, Checked2
  <2>4. CASE Dispatch(i)
    <3>1. /\ calls[i].stage = "dispatch" /\ calls'[i].stage = "provider"
          /\ calls'[i].id = calls[i].id
          /\ calls'[i].fresh = FreshAt(calls[i].id.basis, clock)
      BY <2>0, <2>4, DispatchTo
    <3>2. clock' = clock
      BY <2>4 DEF Dispatch, vars
    <3>3. calls[i].id \in Id
      BY <3>1, NamedCall DEF Named, Checking, Stages
    <3>4. Begun(calls[i].id.basis)
      BY <3>1 DEF Aged, Checking, Stages
    <3>. QED BY <1>0, <3>1, <3>2, <3>3, <3>4, BegunIsFreshOrOver DEF Aged, Begun, Over
  <2>5. CASE Answer(i)
    <3>1. /\ calls[i].stage = "provider" /\ calls'[i].stage = "recheck"
          /\ calls'[i].id = calls[i].id /\ calls'[i].fresh = calls[i].fresh
      BY <2>5, AnswerTo
    <3>. QED BY <3>1, SameAge DEF Checking, Stages, Sent, Checked2
  <2>6. CASE Compare(i)
    <3>1. calls[i].stage = "compare" /\ FreshAt(calls[i].id.basis, clock) /\ Goto(i, "released")
      BY <2>0, <2>6 DEF Compare
    <3>2. calls'[i].stage = "released" /\ calls'[i].fresh = calls[i].fresh
      BY <3>1, GotoTo DEF Checking, Stages
    <3>3. calls[i].id \in Id
      BY <3>1, NamedCall DEF Named, Checking, Stages
    <3>4. calls[i].fresh
      BY <1>0, <3>1, <3>3, BegunIsFreshOrOver DEF Aged, Checking, Stages, Checked2
    <3>. QED BY <3>2, <3>4 DEF Aged, Checking, Stages
  <2>7. CASE ProviderFails(i) \/ StoreFails(i)
    BY <2>0, <2>7 DEF ProviderFails, StoreFails
  <2>. QED BY <2>0, <2>1, <2>2, <2>3, <2>4, <2>5, <2>6, <2>7 DEF InvokeStep
<1>. QED BY <1>1, <1>2

LEMMA NextAges ==
  ClockSteps \subseteq Nat /\ IInv /\ IInv' /\ CallInv /\ CallInv' /\ AgedInv
    /\ [InvokeNext]_ivars => AgedInv'
<1>. SUFFICES ASSUME ClockSteps \subseteq Nat, IInv, IInv', CallInv, CallInv', AgedInv,
                     [InvokeNext]_ivars, NEW j \in Invokers
              PROVE  Aged(j)'
  BY DEF AgedInv
<1>0. Aged(j)
  BY DEF AgedInv
<1>1. CASE \E i \in Invokers : Begin(i) \/ InvokeStep(i)
  <2>1. PICK i \in Invokers : Begin(i) \/ InvokeStep(i)
    BY <1>1
  <2>2. CASE i = j
    BY <1>0, <2>1, <2>2, StepAges
  <2>3. CASE i # j
    BY <1>0, <2>1, <2>3, CallIsOwn, OtherAges
  <2>. QED BY <2>2, <2>3
<1>2. CASE Others \/ UNCHANGED ivars
  BY <1>0, <1>2, OtherAges DEF Others, ivars
<1>3. CASE RestartCalls
  <2>1. calls'[j] = NoCall
    BY <1>3 DEF RestartCalls
  <2>. QED BY <2>1 DEF Aged, NoCall, Checking, Sent, Checked2, Stages
<1>. QED BY <1>1, <1>2, <1>3 DEF InvokeNext

LEMMA AgedInvariance == InvokeSpec => []OnwardCalls
<1>1. InvokeInit => OnwardCalls
  BY DEF InvokeInit, OnwardCalls, AgedInv, Aged, NoCall, Checking, Sent, Checked2, Stages
<1>2. IInv /\ IInv' /\ CallInv /\ CallInv' /\ OnwardCalls /\ [InvokeNext]_ivars => OnwardCalls'
  BY NextAges DEF OnwardCalls
<1>. QED BY <1>1, <1>2, CallInvariance, PTL DEF InvokeSpec

\* Text sent on evidence that changed since the ledger was read, also if it was
\* changed back before the answer, or that had expired, is never released.
THEOREM StaleSendStaysHere == InvokeSpec => []StaleSendIsWithheld
<1>1. CallInv /\ OnwardCalls => StaleSendIsWithheld
  BY DEF OnwardCalls, CallInv, Sound, Checked2, AgedInv, Aged, StaleSendIsWithheld
<1>. QED BY <1>1, CallInvariance, AgedInvariance, PTL

=============================================================================
