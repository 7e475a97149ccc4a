----------------------------- MODULE ReplayStore -----------------------------
(***************************************************************************)
(* The evidence ledger and its replay assessments (store.py,               *)
(* replay_store.py) with the requests that use them, for one scope.        *)
(*                                                                         *)
(* Every request of a caller is two or three steps: what it computes       *)
(* before the store's lock, then each of its SQLite transactions, so that  *)
(* other requests commit between the two.  A transaction is one step: it   *)
(* holds the process lock and BEGIN IMMEDIATE, and an exception in it      *)
(* leaves the database unchanged.                                          *)
(*                                                                         *)
(* The database file persists over restarts (SZL_STATE_DURABILITY =        *)
(* persistent).  When it is ephemeral, a restart is the initial state.     *)
(***************************************************************************)
EXTENDS Evidence, FiniteSets

CONSTANTS
  Callers,         \* concurrent requests of the scope
  MaxAssessments,  \* MAX_ASSESSMENTS_PER_SCOPE
  ClockSteps,      \* how the wall clock may move: {1}, or {1, -1} if it is reset
  MaxClock,        \* bound on the clock
  MaxRows          \* bound on the rows fetched

ASSUME ReplayAssumption ==
  /\ MaxAssessments \in Nat
  /\ ClockSteps \subseteq Int
  /\ MaxClock \in Nat
  /\ MaxRows \in Nat

VARIABLES
  rows,         \* connector_observations
  withdrawn,    \* evidence_withdrawals: the payloads
  assessments,  \* evidence_assessments, by identifier
  clock,        \* the wall clock, read by the store and by the requests
  deployed,     \* the catalogue of the running process
  jobs,         \* what each caller's request holds between its steps
  disturbed     \* history: assessments whose evidence has changed at some time

vars == <<rows, withdrawn, assessments, clock, deployed, jobs, disturbed>>

Kinds == {"intelligence-plan", "hatun-review"}
Verdicts == {"CURRENT", "REVALIDATION_REQUIRED"}
Reasons == {"EVIDENCE_WITHDRAWN", "EVIDENCE_MISSING", "EVIDENCE_NOT_FRESH",
            "EVIDENCE_RECORD_CHANGED", "EVIDENCE_SUMMARY_CHANGED",
            "ASSESSMENT_CLOCK_REGRESSED", "EVIDENCE_ADMISSION_CHANGED"}

\* The identifier hashes the decision's basis: the snapshot and, for a review
\* only, the time it was resolved.
Id == [kind : Kinds, basis : SUBSET Row, at : Nat]
IdOf(kind, basis, at) ==
  [kind |-> kind, basis |-> basis, at |-> IF kind = "hatun-review" THEN at ELSE 0]

Assessment == [basis : SUBSET Row, assessedAt : Nat, lastChecked : Nat,
               invalidated : BOOLEAN, reasons : SUBSET Reasons]

Idle == [op |-> "idle"]
Job == {Idle}
  \cup [op : {"put"}, row : Row]
  \cup [op : {"resolve"}, kind : Kinds, digests : SUBSET Payloads, at : Nat]
  \cup [op : {"register"}, kind : Kinds, basis : SUBSET Row, at : Nat]
  \cup [op : {"status"}, id : Id, at : Nat]
  \cup [op : {"withdraw"}, digests : SUBSET Payloads]
  \cup [op : {"replied"}, id : Id, verdict : Verdicts]

TypeOK ==
  /\ rows \subseteq Row
  /\ withdrawn \subseteq Payloads
  /\ DOMAIN assessments \subseteq Id
  /\ assessments \in [DOMAIN assessments -> Assessment]
  /\ clock \in Nat
  /\ deployed \in Deployments
  /\ jobs \in [Callers -> Job]
  /\ disturbed \subseteq Id

Init ==
  /\ rows = {}
  /\ withdrawn = {}
  /\ assessments = [id \in {} |-> Idle]
  /\ clock = 0
  /\ deployed \in Deployments
  /\ jobs = [c \in Callers |-> Idle]
  /\ disturbed = {}

-----------------------------------------------------------------------------
(* The statements shared by the transactions. *)

Later(s, t) == IF s < t THEN t ELSE s

\* Mutant: the time is read before the lock, as the request begins.
TimeOfRequest(job) == job.at

\* _transaction samples the clock after it holds the lock.
TxnNow(job) == clock

\* _dependency_changes over the dependencies ds.
DependencyChanges(newRows, newWithdrawn, ds, now) ==
  UNION {DependencyReason(newRows, newWithdrawn, dep, now) : dep \in ds}

\* Mutant: a withdrawal invalidates, a superseding observation does not.
InvalidateWithdrawn(newRows, newWithdrawn, ps) ==
  [id \in DOMAIN assessments |->
    LET a == assessments[id] IN
    IF ~a.invalidated /\ \E dep \in a.basis : dep.payload \in ps \cap newWithdrawn
    THEN [a EXCEPT !.invalidated = TRUE, !.reasons = {"EVIDENCE_WITHDRAWN"}]
    ELSE a]

\* Mutant: the payload's assessments are looked up before its withdrawal is stored.
InvalidateBeforeWithdrawal(newRows, newWithdrawn, ps) ==
  [id \in DOMAIN assessments |->
    LET a == assessments[id]
        deps == {dep \in a.basis : dep.payload \in ps}
        changes == DependencyChanges(newRows, withdrawn, deps, clock)
    IN IF ~a.invalidated /\ changes # {}
       THEN [a EXCEPT !.invalidated = TRUE, !.reasons = changes]
       ELSE a]

\* _invalidate_changed_payload, for the payloads ps of one transaction: the
\* recorded observation time stands for now, so that age alone is no change.
Invalidate(newRows, newWithdrawn, ps) ==
  [id \in DOMAIN assessments |->
    LET a == assessments[id]
        deps == {dep \in a.basis : dep.payload \in ps}
        changes == UNION {DependencyReason(newRows, newWithdrawn, dep, dep.observed) : dep \in deps}
    IN IF ~a.invalidated /\ changes # {}
       THEN [a EXCEPT !.invalidated = TRUE, !.reasons = changes]
       ELSE a]

\* Mutant: the age of the evidence is not looked at again.
FindingsIgnoringAge(a, now, admission) ==
  UNION {DependencyReason(rows, withdrawn, dep, dep.observed) : dep \in a.basis}

\* Mutant: the evidence is not resolved again under the deployed catalogue.
FindingsIgnoringAdmission(a, now, admission) ==
  DependencyChanges(rows, withdrawn, a.basis, now)

\* What _check_assessment finds in an assessment that is not invalidated;
\* admission is the catalogue to resolve under, in a set, or none.
Findings(a, now, admission) ==
  LET direct == DependencyChanges(rows, withdrawn, a.basis, now)
                  \cup {r \in {"ASSESSMENT_CLOCK_REGRESSED"} : now < a.lastChecked}
      digests == {dep.payload : dep \in a.basis}
      moved == \E d \in admission : Resolve(rows, withdrawn, d, digests, now) # a.basis
  IN IF direct = {} /\ moved THEN {"EVIDENCE_ADMISSION_CHANGED"} ELSE direct

\* Mutant: the latch is not consulted, the reasons are computed afresh.
CheckedAfresh(a, now, admission) ==
  LET reasons == Findings(a, now, admission)
  IN [a EXCEPT !.invalidated = reasons # {}, !.reasons = reasons,
               !.lastChecked = Later(now, a.lastChecked)]

\* _check_assessment: an invalidated assessment keeps the reasons it has.
Checked(a, now, admission) ==
  LET reasons == IF a.invalidated THEN a.reasons ELSE Findings(a, now, admission)
  IN [a EXCEPT !.invalidated = reasons # {}, !.reasons = reasons,
               !.lastChecked = Later(now, a.lastChecked)]

\* Mutant: the state is named after the flag.
VerdictOfFlag(a) == IF a.invalidated THEN "INVALIDATED" ELSE "CURRENT"

Verdict(a) == IF a.reasons = {} THEN "CURRENT" ELSE "REVALIDATION_REQUIRED"

Record(id, a) ==
  [i \in DOMAIN assessments \cup {id} |-> IF i = id THEN a ELSE assessments[i]]

\* History: the assessments whose evidence the step leaves changed.
NoteDisturbed ==
  disturbed' = disturbed \cup
    {id \in DOMAIN assessments' : ~Intact(rows', withdrawn', assessments'[id].basis)}

Reply(c, id, verdict) ==
  jobs' = [jobs EXCEPT ![c] = [op |-> "replied", id |-> id, verdict |-> verdict]]

Ready(c) == jobs[c].op \in {"idle", "replied"}

-----------------------------------------------------------------------------
(* fetch_connector: the observation time is read before the store's lock. *)

BeginFetch(c) ==
  /\ Ready(c)
  /\ \E s \in Sources, p \in Payloads, m \in Summaries :
       /\ Freshness[deployed][s] > 0
       /\ jobs' = [jobs EXCEPT ![c] =
            [op |-> "put",
             row |-> [source |-> s, payload |-> p, observed |-> clock,
                      expires |-> clock + Freshness[deployed][s], summary |-> m]]]
  /\ UNCHANGED <<rows, withdrawn, assessments, clock, deployed, disturbed>>

Put(c) ==
  LET new == jobs[c].row IN
  /\ jobs[c].op = "put"
  /\ Cardinality(InsertOrReplace(rows, new)) <= MaxRows
  /\ rows' = InsertOrReplace(rows, new)
  /\ assessments' = Invalidate(rows', withdrawn, {new.payload})
  /\ jobs' = [jobs EXCEPT ![c] = Idle]
  /\ UNCHANGED <<withdrawn, clock, deployed>>
  /\ NoteDisturbed

(* build_intelligence_plan and hatun_evaluate: resolve, decide, register. *)

BeginResolve(c) ==
  /\ Ready(c)
  /\ \E kind \in Kinds, ds \in SUBSET Payloads :
       jobs' = [jobs EXCEPT ![c] =
                  [op |-> "resolve", kind |-> kind, digests |-> ds, at |-> clock]]
  /\ UNCHANGED <<rows, withdrawn, assessments, clock, deployed, disturbed>>

\* The gates on the evidence; the other gates (readiness, model binding,
\* advisory score) may turn the decision into ABSTAIN as well.
Decide(c) ==
  LET job == jobs[c]
      basis == Resolve(rows, withdrawn, deployed, job.digests, job.at) IN
  /\ job.op = "resolve"
  /\ \/ /\ Complete(basis, job.digests)
        /\ FreshAt(basis, clock)
        /\ job.kind = "hatun-review" => clock >= job.at
        /\ jobs' = [jobs EXCEPT ![c] =
             [op |-> "register", kind |-> job.kind, basis |-> basis, at |-> job.at]]
     \/ jobs' = [jobs EXCEPT ![c] = Idle]
  /\ UNCHANGED <<rows, withdrawn, assessments, clock, deployed, disturbed>>

\* Mutant: off by one.
HasRoomForOneMore(ids) == Cardinality(ids) <= MaxAssessments

\* The capacity test of register_assessment, on the assessments of the scope.
HasRoom(ids) == Cardinality(ids) < MaxAssessments

Register(c) ==
  LET job == jobs[c]
      id == IdOf(job.kind, job.basis, job.at)
      now == TxnNow(job)
      new == [basis |-> job.basis, assessedAt |-> now, lastChecked |-> now,
              invalidated |-> FALSE, reasons |-> {}]
      a == Checked(IF id \in DOMAIN assessments THEN assessments[id] ELSE new, now, {})
  IN
  /\ job.op = "register"
  /\ id \in DOMAIN assessments \/ HasRoom(DOMAIN assessments)
  /\ assessments' = Record(id, a)
  /\ Reply(c, id, Verdict(a))
  /\ UNCHANGED <<rows, withdrawn, clock, deployed>>
  /\ NoteDisturbed

(* evidence_assessment *)

BeginStatus(c) ==
  /\ Ready(c)
  /\ \E id \in DOMAIN assessments :
       jobs' = [jobs EXCEPT ![c] = [op |-> "status", id |-> id, at |-> clock]]
  /\ UNCHANGED <<rows, withdrawn, assessments, clock, deployed, disturbed>>

Status(c) ==
  LET job == jobs[c]
      a == Checked(assessments[job.id], TxnNow(job), {deployed})
  IN
  /\ job.op = "status"
  /\ job.id \in DOMAIN assessments
  /\ assessments' = Record(job.id, a)
  /\ Reply(c, job.id, Verdict(a))
  /\ UNCHANGED <<rows, withdrawn, clock, deployed>>
  /\ NoteDisturbed

(* withdraw_evidence *)

BeginWithdraw(c) ==
  /\ Ready(c)
  /\ \E ds \in (SUBSET Payloads) \ {{}} :
       jobs' = [jobs EXCEPT ![c] = [op |-> "withdraw", digests |-> ds]]
  /\ UNCHANGED <<rows, withdrawn, assessments, clock, deployed, disturbed>>

\* One payload without a row refuses the whole request (EvidenceNotFound).
AllObserved(ds) == \A p \in ds : \E r \in rows : r.payload = p

Withdraw(c) ==
  LET ds == jobs[c].digests IN
  /\ jobs[c].op = "withdraw"
  /\ AllObserved(ds)
  /\ withdrawn' = withdrawn \cup ds
  /\ assessments' = Invalidate(rows, withdrawn', ds)
  /\ jobs' = [jobs EXCEPT ![c] = Idle]
  /\ UNCHANGED <<rows, clock, deployed>>
  /\ NoteDisturbed

(* Every request may fail instead: SQLITE_BUSY, an invalid clock, the      *)
(* capacity, an unknown payload, the end of its process.  The transaction  *)
(* rolls back.                                                             *)
Fail(c) ==
  /\ ~Ready(c)
  /\ jobs' = [jobs EXCEPT ![c] = Idle]
  /\ UNCHANGED <<rows, withdrawn, assessments, clock, deployed, disturbed>>

Tick ==
  /\ \E step \in ClockSteps : clock + step \in 0..MaxClock /\ clock' = clock + step
  /\ UNCHANGED <<rows, withdrawn, assessments, deployed, jobs, disturbed>>

\* A new process on the same file: the requests in flight are lost.
Restart ==
  /\ deployed' \in Deployments
  /\ jobs' = [c \in Callers |-> Idle]
  /\ UNCHANGED <<rows, withdrawn, assessments, clock, disturbed>>

Request(c) ==
  \/ BeginFetch(c) \/ Put(c)
  \/ BeginResolve(c) \/ Decide(c) \/ Register(c)
  \/ BeginStatus(c) \/ Status(c)
  \/ BeginWithdraw(c) \/ Withdraw(c)
  \/ Fail(c)

Next == (\E c \in Callers : Request(c)) \/ Tick \/ Restart

Spec == Init /\ [][Next]_vars

-----------------------------------------------------------------------------
(* Properties *)

Latched == {id \in DOMAIN assessments : assessments[id].invalidated}
Standing == DOMAIN assessments \ Latched

\* An assessment that is not invalidated rests on evidence the ledger would
\* still select: put and withdraw_payloads invalidate in the same transaction
\* everything they disturb, in whatever order requests commit.
StandingBasisIntact ==
  \A id \in Standing : Intact(rows, withdrawn, assessments[id].basis)

\* Evidence that changed and was then restored does not revive an assessment:
\* once disturbed, always invalidated (docs/CORRECTION_REPLAY.md).
DisturbedIsLatched == disturbed \subseteq Latched

\* Invalidation and its reasons go together, so that the flag _check_assessment
\* recomputes from the reasons can never be cleared.
LatchedHasReason ==
  \A id \in DOMAIN assessments :
    assessments[id].invalidated <=> assessments[id].reasons # {}

\* With a clock that never goes back, no assessment is ever condemned for a
\* regressed clock, however its checks interleave.
NoFalseClockLatch ==
  ClockSteps \subseteq Nat =>
    \A id \in DOMAIN assessments :
      "ASSESSMENT_CLOCK_REGRESSED" \notin assessments[id].reasons

\* The capacity of the scope is never exceeded by concurrent registrations.
CapacityRespected == Cardinality(DOMAIN assessments) <= MaxAssessments

\* A withdrawal names only payloads the scope has observed: a mixed request
\* changes nothing.
WithdrawnWereObserved ==
  \A p \in withdrawn : \E r \in rows : r.payload = p

\* Invalidation is permanent: no step clears it, changes its reasons, the
\* basis it was about, or forgets the assessment.
LatchIsPermanent ==
  [][\A id \in DOMAIN assessments :
       /\ id \in DOMAIN assessments'
       /\ assessments'[id].basis = assessments[id].basis
       /\ assessments'[id].lastChecked >= assessments[id].lastChecked
       /\ assessments[id].invalidated =>
            assessments'[id].invalidated /\ assessments'[id].reasons = assessments[id].reasons
    ]_vars

\* A request is told CURRENT only of an assessment whose evidence was never
\* disturbed before and is fresh, unwithdrawn and selected as it is told.
CurrentVerdictSound ==
  [][\A c \in Callers :
       jobs[c].op \in {"register", "status"} /\ jobs'[c].op = "replied"
         /\ jobs'[c].verdict = "CURRENT" =>
           LET id == jobs'[c].id IN
           /\ id \notin disturbed'
           /\ FreshAt(id.basis, clock)
           /\ Intact(rows, withdrawn, id.basis)
    ]_vars

\* When status reports CURRENT, resolving the same payloads under the deployed
\* catalogue gives exactly the snapshot that was assessed.
CurrentMeansAdmissible ==
  [][\A c \in Callers :
       jobs[c].op = "status" /\ jobs'[c].op = "replied" /\ jobs'[c].verdict = "CURRENT" =>
         LET basis == jobs'[c].id.basis IN
         \A dep \in basis : Admissible(dep, withdrawn, deployed, clock)
    ]_vars

\* The identifiers the callers hold a CURRENT answer for.
Told == {jobs[c].id : c \in {x \in Callers : jobs[x].op = "replied" /\ jobs[x].verdict = "CURRENT"}}

\* The store implements the promise: what stands, what is revoked, and what is
\* told of it.
P == INSTANCE AssessmentPromise WITH
       HasRoom <- HasRoom, standing <- Standing, revoked <- Latched,
       disturbed <- disturbed, current <- Told

KeepsPromise == P!Promise

=============================================================================
