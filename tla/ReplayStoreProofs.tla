-------------------------- MODULE ReplayStoreProofs --------------------------
(***************************************************************************)
(* Theorems about ReplayStore, for every set of callers, payloads and      *)
(* sources, every catalogue and every way the clock may move.              *)
(***************************************************************************)
EXTENDS ReplayStore, FiniteSetTheorems, TLAPS

-----------------------------------------------------------------------------
(* Selection of rows. *)

\* A dependency without a reason is the row the ledger selects, unwithdrawn.
LEMMA NoReasonIsIntact ==
  ASSUME NEW rs, NEW wd, NEW dep, NEW now,
         DependencyReason(rs, wd, dep, now) = {}
  PROVE  dep.payload \notin wd /\ dep \in Latest(rs, dep.payload)
BY DEF DependencyReason

\* Reasons are among those the store knows.
LEMMA ReasonType ==
  ASSUME NEW rs, NEW wd, NEW dep, NEW now
  PROVE  /\ DependencyReason(rs, wd, dep, now) \subseteq Reasons
         /\ "ASSESSMENT_CLOCK_REGRESSED" \notin DependencyReason(rs, wd, dep, now)
BY DEF DependencyReason, Reasons

\* Inserting a row leaves the selection of every other payload as it was.
LEMMA InsertKeepsOthers ==
  ASSUME NEW rs, NEW new, NEW p, p # new.payload
  PROVE  Latest(InsertOrReplace(rs, new), p) = Latest(rs, p)
<1>1. {r \in InsertOrReplace(rs, new) : r.payload = p} = {r \in rs : r.payload = p}
  BY DEF InsertOrReplace, Receipt
<1>. QED BY <1>1 DEF Latest

-----------------------------------------------------------------------------
(* Type correctness *)

LEMMA ChangesType ==
  ASSUME NEW rs, NEW wd, NEW ds, NEW now
  PROVE  DependencyChanges(rs, wd, ds, now) \subseteq Reasons
BY ReasonType DEF DependencyChanges

LEMMA FindingsType ==
  ASSUME NEW a, NEW now, NEW admission
  PROVE  Findings(a, now, admission) \subseteq Reasons
BY ChangesType DEF Findings, Reasons

LEMMA CheckedType ==
  ASSUME NEW a \in Assessment, NEW now \in Nat, NEW admission
  PROVE  Checked(a, now, admission) \in Assessment
BY FindingsType DEF Checked, Assessment, Later

LEMMA RecordType ==
  ASSUME TypeOK, NEW id \in Id, NEW a \in Assessment
  PROVE  /\ DOMAIN Record(id, a) = DOMAIN assessments \cup {id}
         /\ Record(id, a) \in [DOMAIN Record(id, a) -> Assessment]
         /\ Record(id, a)[id] = a
         /\ \A i \in DOMAIN assessments : i # id => Record(id, a)[i] = assessments[i]
BY DEF Record, TypeOK

\* What Invalidate makes b of an assessment a, for the payloads ps: it may
\* only condemn it, and spares it only if those of its rows are intact.
InvalidatedTo(a, b, rs, wd, ps) ==
  /\ b \in Assessment
  /\ b.basis = a.basis /\ b.lastChecked = a.lastChecked
  /\ a.invalidated => b = a
  /\ b = a \/ (b.invalidated /\ b.reasons # {})
  /\ "ASSESSMENT_CLOCK_REGRESSED" \in b.reasons =>
       "ASSESSMENT_CLOCK_REGRESSED" \in a.reasons
  /\ ~b.invalidated =>
       \A dep \in a.basis : dep.payload \in ps =>
         dep.payload \notin wd /\ dep \in Latest(rs, dep.payload)

LEMMA InvalidateEntry ==
  ASSUME TypeOK, NEW rs, NEW wd, NEW ps, NEW id \in DOMAIN assessments
  PROVE  InvalidatedTo(assessments[id], Invalidate(rs, wd, ps)[id], rs, wd, ps)
<1> DEFINE a == assessments[id]
           deps == {dep \in a.basis : dep.payload \in ps}
           changes == UNION {DependencyReason(rs, wd, dep, dep.observed) : dep \in deps}
           b == Invalidate(rs, wd, ps)[id]
<1>1. a \in Assessment
  BY DEF TypeOK
<1>2. b = IF ~a.invalidated /\ changes # {}
          THEN [a EXCEPT !.invalidated = TRUE, !.reasons = changes] ELSE a
  BY DEF Invalidate
<1>3. changes \subseteq Reasons /\ "ASSESSMENT_CLOCK_REGRESSED" \notin changes
  BY ReasonType
<1>4. CASE ~a.invalidated /\ changes # {}
  <2>1. b = [a EXCEPT !.invalidated = TRUE, !.reasons = changes]
    BY <1>2, <1>4
  <2>. HIDE DEF a, b, changes
  <2>2. b \in Assessment /\ b.basis = a.basis /\ b.lastChecked = a.lastChecked
        /\ b.invalidated /\ b.reasons = changes
    BY <1>1, <1>3, <2>1 DEF Assessment
  <2>. QED BY <1>3, <1>4, <2>2 DEF a, b, InvalidatedTo
<1>5. CASE ~(~a.invalidated /\ changes # {})
  <2>1. b = a
    BY <1>2, <1>5
  <2>2. ~a.invalidated => \A dep \in deps : DependencyReason(rs, wd, dep, dep.observed) = {}
    BY <1>5
  <2>3. ~a.invalidated => \A dep \in a.basis : dep.payload \in ps =>
                   dep.payload \notin wd /\ dep \in Latest(rs, dep.payload)
    BY <2>2, NoReasonIsIntact
  <2>. QED BY <1>1, <2>1, <2>3 DEF InvalidatedTo
<1>. QED BY <1>4, <1>5

\* The assessment a registration or a status check leaves for id.
LEMMA InvalidateType ==
  ASSUME TypeOK, NEW rs, NEW wd, NEW ps
  PROVE  /\ DOMAIN Invalidate(rs, wd, ps) = DOMAIN assessments
         /\ Invalidate(rs, wd, ps) \in [DOMAIN Invalidate(rs, wd, ps) -> Assessment]
<1>1. DOMAIN Invalidate(rs, wd, ps) = DOMAIN assessments
  BY DEF Invalidate
<1>2. \A id \in DOMAIN assessments : Invalidate(rs, wd, ps)[id] \in Assessment
  BY InvalidateEntry DEF InvalidatedTo
<1>3. \E e : Invalidate(rs, wd, ps) = [id \in DOMAIN assessments |-> e[id]]
  <2>1. Invalidate(rs, wd, ps) = [id \in DOMAIN assessments |-> Invalidate(rs, wd, ps)[id]]
    BY DEF Invalidate
  <2>. QED BY <2>1
<1>. QED BY <1>1, <1>2, <1>3

LEMMA InitType == Init => TypeOK
BY DEF Init, TypeOK, Job, Idle

LEMMA DisturbedType ==
  ASSUME TypeOK, DOMAIN assessments' \subseteq Id, NoteDisturbed
  PROVE  disturbed' \subseteq Id
BY DEF TypeOK, NoteDisturbed

\* The identifier of a typed job is an identifier.
LEMMA IdOfType ==
  ASSUME NEW kind \in Kinds, NEW basis \in SUBSET Row, NEW at \in Nat
  PROVE  IdOf(kind, basis, at) \in Id
BY DEF IdOf, Id

LEMMA PutType == ASSUME TypeOK, NEW c \in Callers, Put(c) PROVE TypeOK'
<1> DEFINE new == jobs[c].row
<1>1. new \in Row
  BY DEF TypeOK, Put, Job, Idle
<1>2. rows' \subseteq Row
  BY <1>1 DEF TypeOK, Put, InsertOrReplace
<1>3. /\ DOMAIN assessments' \subseteq Id
      /\ assessments' \in [DOMAIN assessments' -> Assessment]
  BY InvalidateType DEF TypeOK, Put
<1>4. disturbed' \subseteq Id
  BY <1>3, DisturbedType DEF Put
<1>5. jobs' \in [Callers -> Job]
  BY DEF TypeOK, Put, Job
<1>. QED BY <1>2, <1>3, <1>4, <1>5 DEF TypeOK, Put

LEMMA RegisterType == ASSUME TypeOK, NEW c \in Callers, Register(c) PROVE TypeOK'
<1> DEFINE job == jobs[c]
           id == IdOf(job.kind, job.basis, job.at)
           now == TxnNow(job)
           new == [basis |-> job.basis, assessedAt |-> now, lastChecked |-> now,
                   invalidated |-> FALSE, reasons |-> {}]
           a == Checked(IF id \in DOMAIN assessments THEN assessments[id] ELSE new, now, {})
<1>1. job.kind \in Kinds /\ job.basis \subseteq Row /\ job.at \in Nat
  BY DEF TypeOK, Register, Job, Idle
<1>2. id \in Id
  BY <1>1, IdOfType
<1>3. now \in Nat
  BY DEF TypeOK, TxnNow
<1>4. new \in Assessment
  BY <1>1, <1>3 DEF Assessment
<1>5. a \in Assessment
  BY <1>3, <1>4, CheckedType DEF TypeOK
<1>6. assessments' = Record(id, a) /\ jobs' = [jobs EXCEPT ![c] =
        [op |-> "replied", id |-> id, verdict |-> Verdict(a)]]
  BY DEF Register, Reply
<1>. HIDE DEF a, id
<1>7. /\ DOMAIN assessments' \subseteq Id
      /\ assessments' \in [DOMAIN assessments' -> Assessment]
  <2>1. /\ DOMAIN Record(id, a) = DOMAIN assessments \cup {id}
        /\ Record(id, a) \in [DOMAIN Record(id, a) -> Assessment]
    BY <1>2, <1>5, RecordType
  <2>. QED BY <1>2, <1>6, <2>1, Zenon DEF TypeOK
<1>8. jobs' \in [Callers -> Job]
  BY <1>2, <1>6 DEF TypeOK, Job, Verdict, Verdicts
<1>9. disturbed' \subseteq Id
  BY <1>7, DisturbedType DEF Register
<1>. QED BY <1>7, <1>8, <1>9 DEF TypeOK, Register

LEMMA StatusType == ASSUME TypeOK, NEW c \in Callers, Status(c) PROVE TypeOK'
<1> DEFINE id == jobs[c].id
           now == TxnNow(jobs[c])
           a == Checked(assessments[id], now, {deployed})
<1>1. id \in DOMAIN assessments /\ id \in Id
  BY DEF Status, TypeOK
<1>2. now \in Nat
  BY DEF TypeOK, TxnNow
<1>3. a \in Assessment
  BY <1>1, <1>2, CheckedType DEF TypeOK
<1>4. assessments' = Record(id, a) /\ jobs' = [jobs EXCEPT ![c] =
        [op |-> "replied", id |-> id, verdict |-> Verdict(a)]]
  BY DEF Status, Reply
<1>. HIDE DEF a, id
<1>5. /\ DOMAIN assessments' \subseteq Id
      /\ assessments' \in [DOMAIN assessments' -> Assessment]
  <2>1. /\ DOMAIN Record(id, a) = DOMAIN assessments \cup {id}
        /\ Record(id, a) \in [DOMAIN Record(id, a) -> Assessment]
    BY <1>1, <1>3, RecordType
  <2>. QED BY <1>1, <1>4, <2>1, Zenon DEF TypeOK
<1>6. jobs' \in [Callers -> Job]
  BY <1>1, <1>4 DEF TypeOK, Job, Verdict, Verdicts
<1>7. disturbed' \subseteq Id
  BY <1>5, DisturbedType DEF Status
<1>. QED BY <1>5, <1>6, <1>7 DEF TypeOK, Status

LEMMA WithdrawType == ASSUME TypeOK, NEW c \in Callers, Withdraw(c) PROVE TypeOK'
<1>1. jobs[c].digests \subseteq Payloads
  BY DEF TypeOK, Withdraw, Job, Idle
<1>2. /\ DOMAIN assessments' \subseteq Id
      /\ assessments' \in [DOMAIN assessments' -> Assessment]
  BY InvalidateType DEF TypeOK, Withdraw
<1>3. disturbed' \subseteq Id
  BY <1>2, DisturbedType DEF Withdraw
<1>4. jobs' \in [Callers -> Job]
  BY DEF TypeOK, Withdraw, Job
<1>. QED BY <1>1, <1>2, <1>3, <1>4 DEF TypeOK, Withdraw

LEMMA ResolveType ==
  ASSUME NEW rs \in SUBSET Row, NEW wd, NEW d, NEW ds, NEW now
  PROVE  Resolve(rs, wd, d, ds, now) \subseteq Row
BY DEF Resolve

LEMMA BeginType ==
  ASSUME TypeOK, NEW c \in Callers,
         BeginFetch(c) \/ BeginResolve(c) \/ BeginStatus(c) \/ BeginWithdraw(c)
           \/ Decide(c) \/ Fail(c)
  PROVE  TypeOK'
<1>1. CASE BeginFetch(c)
  <2>1. PICK s \in Sources, p \in Payloads, m \in Summaries :
          jobs' = [jobs EXCEPT ![c] =
            [op |-> "put",
             row |-> [source |-> s, payload |-> p, observed |-> clock,
                      expires |-> clock + Freshness[deployed][s], summary |-> m]]]
    BY <1>1 DEF BeginFetch
  <2>2. clock + Freshness[deployed][s] \in Nat
    BY EvidenceAssumption DEF TypeOK
  <2>3. [source |-> s, payload |-> p, observed |-> clock,
         expires |-> clock + Freshness[deployed][s], summary |-> m] \in Row
    BY <2>2 DEF Row, TypeOK
  <2>4. jobs' \in [Callers -> Job]
    BY <2>1, <2>3 DEF TypeOK, Job
  <2>. QED BY <1>1, <2>4 DEF BeginFetch, TypeOK
<1>2. CASE BeginResolve(c)
  BY <1>2 DEF BeginResolve, TypeOK, Job
<1>3. CASE BeginStatus(c)
  BY <1>3 DEF BeginStatus, TypeOK, Job
<1>4. CASE BeginWithdraw(c)
  BY <1>4 DEF BeginWithdraw, TypeOK, Job
<1>5. CASE Decide(c)
  <2> DEFINE job == jobs[c]
             basis == Resolve(rows, withdrawn, deployed, job.digests, job.at)
  <2>1. job.kind \in Kinds /\ job.at \in Nat
    BY <1>5 DEF TypeOK, Decide, Job, Idle
  <2>2. basis \subseteq Row
    BY ResolveType DEF TypeOK
  <2>3. jobs' = [jobs EXCEPT ![c] = Idle]
        \/ jobs' = [jobs EXCEPT ![c] = [op |-> "register", kind |-> job.kind,
                                        basis |-> basis, at |-> job.at]]
    BY <1>5 DEF Decide
  <2>. HIDE DEF basis
  <2>4. jobs' \in [Callers -> Job]
    BY <2>1, <2>2, <2>3 DEF TypeOK, Job
  <2>. QED BY <1>5, <2>4 DEF Decide, TypeOK
<1>6. CASE Fail(c)
  BY <1>6 DEF Fail, TypeOK, Job
<1>. QED BY <1>1, <1>2, <1>3, <1>4, <1>5, <1>6

\* A step that only moves the clock, or only starts a new process.
LEMMA EnvironmentType == ASSUME TypeOK, Tick \/ Restart PROVE TypeOK'
<1>1. CASE Tick
  BY <1>1 DEF Tick, TypeOK
<1>2. CASE Restart
  BY <1>2 DEF Restart, TypeOK, Job
<1>. QED BY <1>1, <1>2

LEMMA NextType == TypeOK /\ [Next]_vars => TypeOK'
<1>1. ASSUME TypeOK, Next PROVE TypeOK'
  BY <1>1, PutType, RegisterType, StatusType, WithdrawType, BeginType, EnvironmentType
     DEF Next, Request
<1>2. TypeOK /\ UNCHANGED vars => TypeOK'
  BY DEF TypeOK, vars
<1>. QED BY <1>1, <1>2

\* Every variable of the store and of its requests keeps its type.
THEOREM TypeCorrect == Spec => []TypeOK
BY InitType, NextType, PTL DEF Spec

-----------------------------------------------------------------------------
(* Invalidation *)

\* A check without findings: every dependency is selected, unwithdrawn and
\* fresh, the clock has not gone back, and each catalogue admits the basis.
LEMMA NoFindings ==
  ASSUME NEW a, NEW now, NEW admission, Findings(a, now, admission) = {}
  PROVE  /\ Intact(rows, withdrawn, a.basis)
         /\ \A dep \in a.basis : FreshRow(dep, now)
         /\ ~(now < a.lastChecked)
         /\ \A d \in admission :
              Resolve(rows, withdrawn, d, {dep.payload : dep \in a.basis}, now) = a.basis
<1> DEFINE regressed == {r \in {"ASSESSMENT_CLOCK_REGRESSED"} : now < a.lastChecked}
           direct == DependencyChanges(rows, withdrawn, a.basis, now) \cup regressed
<1>1. direct = {} /\ ~\E d \in admission :
          Resolve(rows, withdrawn, d, {dep.payload : dep \in a.basis}, now) # a.basis
  BY DEF Findings
<1>2. \A dep \in a.basis : DependencyReason(rows, withdrawn, dep, now) = {}
  BY <1>1 DEF DependencyChanges
<1>3. Intact(rows, withdrawn, a.basis)
  BY <1>2, NoReasonIsIntact DEF Intact
<1>4. \A dep \in a.basis : FreshRow(dep, now)
  BY <1>2 DEF DependencyReason
<1>5. ~(now < a.lastChecked)
  BY <1>1
<1>. QED BY <1>1, <1>3, <1>4, <1>5

\* What a check does to an assessment whose flag and reasons agree.
LEMMA CheckedEntry ==
  ASSUME NEW a \in Assessment, NEW now \in Nat, NEW admission,
         a.invalidated <=> a.reasons # {}
  PROVE  LET b == Checked(a, now, admission) IN
         /\ b.basis = a.basis
         /\ b.lastChecked = Later(now, a.lastChecked)
         /\ b.invalidated <=> b.reasons # {}
         /\ a.invalidated => b.invalidated /\ b.reasons = a.reasons
         /\ ~a.invalidated => b.reasons = Findings(a, now, admission)
<1> DEFINE reasons == IF a.invalidated THEN a.reasons ELSE Findings(a, now, admission)
           b == Checked(a, now, admission)
<1>1. b = [a EXCEPT !.invalidated = reasons # {}, !.reasons = reasons,
                    !.lastChecked = Later(now, a.lastChecked)]
  BY DEF Checked
<1>2. /\ a.invalidated => reasons = a.reasons
      /\ ~a.invalidated => reasons = Findings(a, now, admission)
  OBVIOUS
<1>. HIDE DEF reasons, b
<1>3. /\ b.basis = a.basis /\ b.reasons = reasons
      /\ b.lastChecked = Later(now, a.lastChecked)
      /\ b.invalidated = (reasons # {})
  BY <1>1 DEF Assessment
<1>. QED BY <1>2, <1>3 DEF b

\* The parts of the inductive invariant.
IInv ==
  /\ TypeOK
  /\ LatchedHasReason
  /\ StandingBasisIntact
  /\ DisturbedIsLatched

\* What every step does to an assessment that exists before it.
KeepsEntry(id) ==
  /\ id \in DOMAIN assessments'
  /\ assessments'[id].basis = assessments[id].basis
  /\ assessments'[id].lastChecked >= assessments[id].lastChecked
  /\ assessments[id].invalidated =>
       assessments'[id].invalidated /\ assessments'[id].reasons = assessments[id].reasons

\* An assessment after a step: its flag and its reasons agree, and while it
\* stands its evidence is intact.
SoundEntry(id) ==
  /\ assessments'[id].invalidated <=> assessments'[id].reasons # {}
  /\ ~assessments'[id].invalidated =>
       Intact(rows', withdrawn', assessments'[id].basis)

LEMMA PutEntries ==
  ASSUME IInv, NEW c \in Callers, Put(c)
  PROVE  /\ DOMAIN assessments' = DOMAIN assessments
         /\ \A id \in DOMAIN assessments : KeepsEntry(id) /\ SoundEntry(id)
<1> DEFINE new == jobs[c].row
<1>1. /\ rows' = InsertOrReplace(rows, new)
      /\ assessments' = Invalidate(rows', withdrawn, {new.payload})
      /\ withdrawn' = withdrawn
  BY DEF Put
<1>2. DOMAIN assessments' = DOMAIN assessments
  BY <1>1, InvalidateType DEF IInv
<1>3. ASSUME NEW id \in DOMAIN assessments
      PROVE  KeepsEntry(id) /\ SoundEntry(id)
  <2> DEFINE a == assessments[id]
             b == assessments'[id]
  <2>1. a \in Assessment /\ (a.invalidated <=> a.reasons # {})
        /\ (~a.invalidated => Intact(rows, withdrawn, a.basis))
    BY DEF IInv, TypeOK, LatchedHasReason, StandingBasisIntact, Standing, Latched
  <2>2. /\ b.basis = a.basis /\ b.lastChecked = a.lastChecked
        /\ a.invalidated => b = a
        /\ b = a \/ (b.invalidated /\ b.reasons # {})
        /\ ~b.invalidated =>
             \A dep \in a.basis : dep.payload \in {new.payload} =>
               dep.payload \notin withdrawn /\ dep \in Latest(rows', dep.payload)
    <3>1. InvalidatedTo(a, Invalidate(rows', withdrawn, {new.payload})[id], rows', withdrawn, {new.payload})
      BY InvalidateEntry DEF IInv
    <3>. QED BY <1>1, <3>1 DEF InvalidatedTo
  <2>3. b.lastChecked >= a.lastChecked
    BY <2>1, <2>2 DEF Assessment
  <2>4. ASSUME ~b.invalidated, NEW dep \in a.basis
        PROVE  dep.payload \notin withdrawn /\ dep \in Latest(rows', dep.payload)
    <3>1. CASE dep.payload = new.payload
      BY <2>2, <2>4, <3>1
    <3>2. CASE dep.payload # new.payload
      <4>1. Intact(rows, withdrawn, a.basis)
        BY <2>1, <2>2, <2>4
      <4>2. Latest(rows', dep.payload) = Latest(rows, dep.payload)
        BY <1>1, <3>2, InsertKeepsOthers
      <4>. QED BY <4>1, <4>2 DEF Intact
    <3>. QED BY <3>1, <3>2
  <2>5. ~b.invalidated => Intact(rows', withdrawn', b.basis)
    BY <1>1, <2>2, <2>4 DEF Intact
  <2>. HIDE DEF a, b
  <2>6. (a.invalidated => b.invalidated /\ b.reasons = a.reasons)
        /\ (b.invalidated <=> b.reasons # {})
    BY <2>1, <2>2
  <2>. QED BY <1>2, <2>2, <2>3, <2>5, <2>6 DEF KeepsEntry, SoundEntry, a, b
<1>. QED BY <1>2, <1>3

LEMMA WithdrawEntries ==
  ASSUME IInv, NEW c \in Callers, Withdraw(c)
  PROVE  /\ DOMAIN assessments' = DOMAIN assessments
         /\ \A id \in DOMAIN assessments : KeepsEntry(id) /\ SoundEntry(id)
<1> DEFINE ds == jobs[c].digests
<1>1. /\ withdrawn' = withdrawn \cup ds
      /\ assessments' = Invalidate(rows, withdrawn', ds)
      /\ rows' = rows
  BY DEF Withdraw
<1>2. DOMAIN assessments' = DOMAIN assessments
  BY <1>1, InvalidateType DEF IInv
<1>3. ASSUME NEW id \in DOMAIN assessments
      PROVE  KeepsEntry(id) /\ SoundEntry(id)
  <2> DEFINE a == assessments[id]
             b == assessments'[id]
  <2>1. a \in Assessment /\ (a.invalidated <=> a.reasons # {})
        /\ (~a.invalidated => Intact(rows, withdrawn, a.basis))
    BY DEF IInv, TypeOK, LatchedHasReason, StandingBasisIntact, Standing, Latched
  <2>2. /\ b.basis = a.basis /\ b.lastChecked = a.lastChecked
        /\ a.invalidated => b = a
        /\ b = a \/ (b.invalidated /\ b.reasons # {})
        /\ ~b.invalidated =>
             \A dep \in a.basis : dep.payload \in ds =>
               dep.payload \notin withdrawn' /\ dep \in Latest(rows, dep.payload)
    <3>1. InvalidatedTo(a, Invalidate(rows, withdrawn', ds)[id], rows, withdrawn', ds)
      BY InvalidateEntry DEF IInv
    <3>. QED BY <1>1, <3>1 DEF InvalidatedTo
  <2>3. b.lastChecked >= a.lastChecked
    BY <2>1, <2>2 DEF Assessment
  <2>4. ASSUME ~b.invalidated, NEW dep \in a.basis
        PROVE  dep.payload \notin withdrawn' /\ dep \in Latest(rows, dep.payload)
    <3>1. CASE dep.payload \in ds
      BY <2>2, <2>4, <3>1
    <3>2. CASE dep.payload \notin ds
      <4>1. Intact(rows, withdrawn, a.basis)
        BY <2>1, <2>2, <2>4
      <4>. QED BY <1>1, <3>2, <4>1 DEF Intact
    <3>. QED BY <3>1, <3>2
  <2>5. ~b.invalidated => Intact(rows', withdrawn', b.basis)
    BY <1>1, <2>2, <2>4 DEF Intact
  <2>. HIDE DEF a, b
  <2>6. (a.invalidated => b.invalidated /\ b.reasons = a.reasons)
        /\ (b.invalidated <=> b.reasons # {})
    BY <2>1, <2>2
  <2>. QED BY <1>2, <2>2, <2>3, <2>5, <2>6 DEF KeepsEntry, SoundEntry, a, b
<1>. QED BY <1>2, <1>3

\* A registration or a status check, whose transaction leaves rows and
\* withdrawals alone: a is the assessment it checks.
LEMMA CheckEntries ==
  ASSUME IInv, NEW id \in Id, NEW a \in Assessment, NEW now \in Nat, NEW admission,
         a.invalidated <=> a.reasons # {},
         id \in DOMAIN assessments => a = assessments[id],
         assessments' = Record(id, Checked(a, now, admission)),
         rows' = rows, withdrawn' = withdrawn
  PROVE  /\ DOMAIN assessments' = DOMAIN assessments \cup {id}
         /\ \A i \in DOMAIN assessments : KeepsEntry(i)
         /\ \A i \in DOMAIN assessments' : SoundEntry(i)
<1> DEFINE b == Checked(a, now, admission)
<1>1. /\ b \in Assessment
      /\ b.basis = a.basis
      /\ b.lastChecked = Later(now, a.lastChecked)
      /\ b.invalidated <=> b.reasons # {}
      /\ a.invalidated => b.invalidated /\ b.reasons = a.reasons
      /\ ~a.invalidated => b.reasons = Findings(a, now, admission)
  BY CheckedType, CheckedEntry
<1>. HIDE DEF b
<1>2. /\ DOMAIN assessments' = DOMAIN assessments \cup {id}
      /\ assessments'[id] = b
      /\ \A i \in DOMAIN assessments : i # id => assessments'[i] = assessments[i]
  <2>1. /\ DOMAIN Record(id, b) = DOMAIN assessments \cup {id}
        /\ Record(id, b)[id] = b
        /\ \A i \in DOMAIN assessments : i # id => Record(id, b)[i] = assessments[i]
    BY <1>1, RecordType DEF IInv
  <2>2. assessments' = Record(id, b)
    BY DEF b
  <2>. QED BY <2>1, <2>2, Zenon
<1>3. b.lastChecked >= a.lastChecked
  BY <1>1 DEF Assessment, Later
<1>4. ~b.invalidated => Intact(rows, withdrawn, b.basis)
  BY <1>1, NoFindings
<1>5. ASSUME NEW i \in DOMAIN assessments
      PROVE  KeepsEntry(i)
  <2>1. CASE i = id
    BY <1>1, <1>2, <1>3, <2>1 DEF KeepsEntry
  <2>2. CASE i # id
    <3>1. assessments[i].lastChecked \in Nat
      BY DEF IInv, TypeOK, Assessment
    <3>. QED BY <1>2, <2>2, <3>1 DEF KeepsEntry
  <2>. QED BY <2>1, <2>2
<1>6. ASSUME NEW i \in DOMAIN assessments'
      PROVE  SoundEntry(i)
  <2>1. CASE i = id
    BY <1>1, <1>2, <1>4, <2>1 DEF SoundEntry
  <2>2. CASE i # id
    <3>1. i \in DOMAIN assessments /\ assessments'[i] = assessments[i]
      BY <1>2, <2>2
    <3>2. /\ assessments[i].invalidated <=> assessments[i].reasons # {}
          /\ ~assessments[i].invalidated => Intact(rows, withdrawn, assessments[i].basis)
      BY <3>1 DEF IInv, LatchedHasReason, StandingBasisIntact, Standing, Latched
    <3>. QED BY <3>1, <3>2 DEF SoundEntry
  <2>. QED BY <2>1, <2>2
<1>. QED BY <1>2, <1>5, <1>6

LEMMA RegisterEntries ==
  ASSUME IInv, NEW c \in Callers, Register(c)
  PROVE  /\ \A i \in DOMAIN assessments : KeepsEntry(i)
         /\ \A i \in DOMAIN assessments' : SoundEntry(i)
<1> DEFINE job == jobs[c]
           id == IdOf(job.kind, job.basis, job.at)
           now == TxnNow(job)
           new == [basis |-> job.basis, assessedAt |-> now, lastChecked |-> now,
                   invalidated |-> FALSE, reasons |-> {}]
           a == IF id \in DOMAIN assessments THEN assessments[id] ELSE new
<1>1. job.kind \in Kinds /\ job.basis \subseteq Row /\ job.at \in Nat
  BY DEF IInv, TypeOK, Register, Job, Idle
<1>2. id \in Id /\ now \in Nat
  BY <1>1, IdOfType DEF IInv, TypeOK, TxnNow
<1>3. new \in Assessment
  BY <1>1, <1>2 DEF Assessment
<1>4. a \in Assessment /\ (a.invalidated <=> a.reasons # {})
  BY <1>3 DEF IInv, TypeOK, LatchedHasReason
<1>5. assessments' = Record(id, Checked(a, now, {})) /\ rows' = rows /\ withdrawn' = withdrawn
  BY DEF Register
<1>6. id \in DOMAIN assessments => a = assessments[id]
  OBVIOUS
<1>. HIDE DEF a, id, now
<1>. QED BY <1>2, <1>4, <1>5, <1>6, CheckEntries

LEMMA StatusEntries ==
  ASSUME IInv, NEW c \in Callers, Status(c)
  PROVE  /\ \A i \in DOMAIN assessments : KeepsEntry(i)
         /\ \A i \in DOMAIN assessments' : SoundEntry(i)
<1> DEFINE id == jobs[c].id
           now == TxnNow(jobs[c])
           a == assessments[id]
<1>1. id \in DOMAIN assessments /\ id \in Id /\ now \in Nat
  BY DEF IInv, TypeOK, Status, TxnNow
<1>2. a \in Assessment /\ (a.invalidated <=> a.reasons # {})
  BY <1>1 DEF IInv, TypeOK, LatchedHasReason
<1>3. assessments' = Record(id, Checked(a, now, {deployed})) /\ rows' = rows /\ withdrawn' = withdrawn
  BY DEF Status
<1>. QED BY <1>1, <1>2, <1>3, CheckEntries

\* The steps that leave the tables and the history alone.
LEMMA OtherSteps ==
  ASSUME [Next]_vars,
         ~\E c \in Callers : Put(c) \/ Register(c) \/ Status(c) \/ Withdraw(c)
  PROVE  UNCHANGED <<rows, withdrawn, assessments, disturbed>>
BY DEF Next, Request, vars, BeginFetch, BeginResolve, BeginStatus, BeginWithdraw,
       Decide, Fail, Tick, Restart

LEMMA NextEntries ==
  ASSUME IInv, [Next]_vars
  PROVE  /\ \A i \in DOMAIN assessments : KeepsEntry(i)
         /\ \A i \in DOMAIN assessments' : SoundEntry(i)
<1>1. CASE \E c \in Callers : Put(c) \/ Register(c) \/ Status(c) \/ Withdraw(c)
  BY <1>1, PutEntries, RegisterEntries, StatusEntries, WithdrawEntries
<1>2. CASE ~\E c \in Callers : Put(c) \/ Register(c) \/ Status(c) \/ Withdraw(c)
  <2>1. UNCHANGED <<rows, withdrawn, assessments>>
    BY <1>2, OtherSteps
  <2>2. \A i \in DOMAIN assessments : assessments[i].lastChecked \in Nat
    BY DEF IInv, TypeOK, Assessment
  <2>3. \A i \in DOMAIN assessments : KeepsEntry(i)
    BY <2>1, <2>2 DEF KeepsEntry
  <2>4. \A i \in DOMAIN assessments : SoundEntry(i)
    BY <2>1 DEF SoundEntry, IInv, LatchedHasReason, StandingBasisIntact, Standing, Latched
  <2>. QED BY <2>1, <2>3, <2>4
<1>. QED BY <1>1, <1>2

LEMMA InitInv == Init => IInv
<1>. SUFFICES ASSUME Init PROVE IInv
  OBVIOUS
<1>1. DOMAIN assessments = {}
  BY DEF Init
<1>. QED BY <1>1, InitType
  DEF Init, IInv, LatchedHasReason, StandingBasisIntact, DisturbedIsLatched, Standing, Latched

\* IInv is inductive.  The evidence of what stands is intact after every step
\* (NextEntries); a step that disturbs an assessment therefore leaves it
\* invalidated, and one disturbed earlier stays so.
LEMMA NextInv == IInv /\ [Next]_vars => IInv'
<1>. SUFFICES ASSUME IInv, [Next]_vars PROVE IInv'
  OBVIOUS
<1>1. TypeOK'
  BY NextType DEF IInv
<1>2. LatchedHasReason' /\ StandingBasisIntact'
  BY NextEntries DEF SoundEntry, LatchedHasReason, StandingBasisIntact, Standing, Latched
<1>3. Latched \subseteq Latched'
  BY NextEntries DEF KeepsEntry, Latched
<1>4. disturbed' \subseteq disturbed \cup Latched'
  <2>1. CASE \E c \in Callers : Put(c) \/ Register(c) \/ Status(c) \/ Withdraw(c)
    <3>1. NoteDisturbed
      BY <2>1 DEF Put, Register, Status, Withdraw
    <3>. QED BY <1>2, <3>1 DEF NoteDisturbed, StandingBasisIntact, Standing, Latched
  <2>2. CASE ~\E c \in Callers : Put(c) \/ Register(c) \/ Status(c) \/ Withdraw(c)
    BY <2>2, OtherSteps
  <2>. QED BY <2>1, <2>2
<1>5. DisturbedIsLatched'
  BY <1>3, <1>4 DEF IInv, DisturbedIsLatched
<1>. QED BY <1>1, <1>2, <1>5 DEF IInv

LEMMA Invariance == Spec => []IInv
BY InitInv, NextInv, PTL DEF Spec

\* What stands rests on evidence the ledger would still select.
THEOREM StandingRestsOnEvidence == Spec => []StandingBasisIntact
<1>1. IInv => StandingBasisIntact
  BY DEF IInv
<1>. QED BY <1>1, Invariance, PTL

\* An assessment whose evidence was ever disturbed is invalidated, also after
\* the evidence has been restored.
THEOREM DisturbedStaysLatched == Spec => []DisturbedIsLatched
<1>1. IInv => DisturbedIsLatched
  BY DEF IInv
<1>. QED BY <1>1, Invariance, PTL

\* No step clears an invalidation, changes its reasons or basis, or forgets an
\* assessment.
THEOREM LatchNeverCleared == Spec => LatchIsPermanent
<1>1. IInv /\ [Next]_vars =>
        [\A id \in DOMAIN assessments :
           /\ id \in DOMAIN assessments'
           /\ assessments'[id].basis = assessments[id].basis
           /\ assessments'[id].lastChecked >= assessments[id].lastChecked
           /\ assessments[id].invalidated =>
                assessments'[id].invalidated /\ assessments'[id].reasons = assessments[id].reasons
        ]_vars
  BY NextEntries DEF KeepsEntry
<1>. QED BY <1>1, Invariance, PTL DEF Spec, LatchIsPermanent

-----------------------------------------------------------------------------
(* The clock *)

\* With a clock that never goes back, no check is later than the clock.
ClockInv ==
  ClockSteps \subseteq Nat =>
    \A id \in DOMAIN assessments :
      /\ assessments[id].lastChecked <= clock
      /\ "ASSESSMENT_CLOCK_REGRESSED" \notin assessments[id].reasons

LEMMA CheckedClock ==
  ASSUME TypeOK, NEW a \in Assessment, NEW admission, a.lastChecked <= clock,
         "ASSESSMENT_CLOCK_REGRESSED" \notin a.reasons
  PROVE  /\ Checked(a, clock, admission).lastChecked <= clock
         /\ "ASSESSMENT_CLOCK_REGRESSED" \notin Checked(a, clock, admission).reasons
<1> DEFINE reasons == IF a.invalidated THEN a.reasons ELSE Findings(a, clock, admission)
           b == Checked(a, clock, admission)
<1>1. b = [a EXCEPT !.invalidated = reasons # {}, !.reasons = reasons,
                    !.lastChecked = Later(clock, a.lastChecked)]
  BY DEF Checked
<1>2. clock \in Nat /\ a.lastChecked \in Nat
  BY DEF TypeOK, Assessment
<1>3. "ASSESSMENT_CLOCK_REGRESSED" \notin Findings(a, clock, admission)
  <2>1. ~(clock < a.lastChecked)
    BY <1>2
  <2>2. "ASSESSMENT_CLOCK_REGRESSED" \notin DependencyChanges(rows, withdrawn, a.basis, clock)
    BY ReasonType DEF DependencyChanges
  <2>. QED BY <2>1, <2>2 DEF Findings
<1>4. "ASSESSMENT_CLOCK_REGRESSED" \notin reasons
  BY <1>3
<1>5. Later(clock, a.lastChecked) <= clock
  BY <1>2 DEF Later
<1>. HIDE DEF reasons, b
<1>6. b.reasons = reasons /\ b.lastChecked = Later(clock, a.lastChecked)
  BY <1>1 DEF Assessment
<1>. QED BY <1>4, <1>5, <1>6 DEF b

LEMMA NextClock == IInv /\ ClockInv /\ [Next]_vars => ClockInv'
<1>. SUFFICES ASSUME IInv, ClockInv, [Next]_vars, ClockSteps \subseteq Nat,
                     NEW id \in DOMAIN assessments'
              PROVE  /\ assessments'[id].lastChecked <= clock'
                     /\ "ASSESSMENT_CLOCK_REGRESSED" \notin assessments'[id].reasons
  BY DEF ClockInv
<1>0. /\ TypeOK
      /\ \A i \in DOMAIN assessments : /\ assessments[i] \in Assessment
                                       /\ assessments[i].lastChecked <= clock
                                       /\ "ASSESSMENT_CLOCK_REGRESSED" \notin assessments[i].reasons
  BY DEF IInv, ClockInv, TypeOK
<1>1. CASE \E c \in Callers : Put(c) \/ Withdraw(c)
  <2>1. PICK rs, wd, ps : assessments' = Invalidate(rs, wd, ps) /\ clock' = clock
    BY <1>1 DEF Put, Withdraw
  <2>2. id \in DOMAIN assessments
    BY <1>0, <2>1, InvalidateType
  <2>3. InvalidatedTo(assessments[id], Invalidate(rs, wd, ps)[id], rs, wd, ps)
    BY <1>0, <2>2, InvalidateEntry
  <2>. QED BY <1>0, <2>1, <2>2, <2>3 DEF InvalidatedTo
<1>2. CASE \E c \in Callers : Register(c)
  <2>1. PICK c \in Callers : Register(c)
    BY <1>2
  <2> DEFINE job == jobs[c]
             i == IdOf(job.kind, job.basis, job.at)
             new == [basis |-> job.basis, assessedAt |-> clock, lastChecked |-> clock,
                     invalidated |-> FALSE, reasons |-> {}]
             a == IF i \in DOMAIN assessments THEN assessments[i] ELSE new
             b == Checked(a, clock, {})
  <2>2. job.kind \in Kinds /\ job.basis \subseteq Row /\ job.at \in Nat /\ clock \in Nat
    BY <1>0, <2>1 DEF TypeOK, Register, Job, Idle
  <2>3. i \in Id
    BY <2>2, IdOfType
  <2>4. new \in Assessment /\ new.lastChecked <= clock
        /\ "ASSESSMENT_CLOCK_REGRESSED" \notin new.reasons
    BY <2>2 DEF Assessment
  <2>5. a \in Assessment /\ a.lastChecked <= clock
        /\ "ASSESSMENT_CLOCK_REGRESSED" \notin a.reasons
    BY <1>0, <2>4
  <2>6. assessments' = Record(i, b) /\ clock' = clock
    BY <2>1 DEF Register, TxnNow
  <2>. HIDE DEF a, i
  <2>7. b \in Assessment /\ b.lastChecked <= clock
        /\ "ASSESSMENT_CLOCK_REGRESSED" \notin b.reasons
    BY <1>0, <2>2, <2>5, CheckedClock, CheckedType
  <2>. HIDE DEF b
  <2>8. /\ DOMAIN Record(i, b) = DOMAIN assessments \cup {i}
        /\ Record(i, b)[i] = b
        /\ \A x \in DOMAIN assessments : x # i => Record(i, b)[x] = assessments[x]
    BY <1>0, <2>3, <2>7, RecordType
  <2>. QED BY <1>0, <2>6, <2>7, <2>8
<1>3. CASE \E c \in Callers : Status(c)
  <2>1. PICK c \in Callers : Status(c)
    BY <1>3
  <2> DEFINE i == jobs[c].id
             b == Checked(assessments[i], clock, {deployed})
  <2>2. i \in DOMAIN assessments /\ i \in Id /\ clock \in Nat
    BY <1>0, <2>1 DEF TypeOK, Status
  <2>3. assessments' = Record(i, b) /\ clock' = clock
    BY <2>1 DEF Status, TxnNow
  <2>4. b \in Assessment /\ b.lastChecked <= clock
        /\ "ASSESSMENT_CLOCK_REGRESSED" \notin b.reasons
    BY <1>0, <2>2, CheckedClock, CheckedType
  <2>. HIDE DEF b, i
  <2>5. /\ DOMAIN Record(i, b) = DOMAIN assessments \cup {i}
        /\ Record(i, b)[i] = b
        /\ \A x \in DOMAIN assessments : x # i => Record(i, b)[x] = assessments[x]
    BY <1>0, <2>2, <2>4, RecordType
  <2>. QED BY <1>0, <2>3, <2>4, <2>5
<1>4. CASE ~\E c \in Callers : Put(c) \/ Register(c) \/ Status(c) \/ Withdraw(c)
  <2>1. assessments' = assessments
    BY <1>4, OtherSteps
  <2>2. clock' \in Nat /\ clock' >= clock
    BY <1>0, <1>4 DEF TypeOK, Next, Request, vars, BeginFetch, BeginResolve, BeginStatus,
                      BeginWithdraw, Decide, Fail, Tick, Restart
  <2>3. assessments[id].lastChecked \in Nat /\ clock \in Nat
    BY <1>0, <2>1 DEF TypeOK, Assessment
  <2>. QED BY <1>0, <2>1, <2>2, <2>3
<1>. QED BY <1>1, <1>2, <1>3, <1>4

\* With a clock that never goes back, no interleaving of checks condemns an
\* assessment for a regressed clock.
THEOREM ClockNeverCondemns == Spec => []NoFalseClockLatch
<1>1. Init => ClockInv
  BY DEF Init, ClockInv
<1>2. ClockInv => NoFalseClockLatch
  BY DEF ClockInv, NoFalseClockLatch
<1>. QED BY <1>1, <1>2, NextClock, Invariance, PTL DEF Spec

-----------------------------------------------------------------------------
(* Answers, withdrawals and capacity *)

\* The answer of a check is CURRENT only for an assessment it leaves standing,
\* after finding its evidence selected, unwithdrawn and fresh.
LEMMA CurrentEntry ==
  ASSUME NEW a \in Assessment, NEW now \in Nat, NEW admission,
         a.invalidated <=> a.reasons # {},
         Verdict(Checked(a, now, admission)) = "CURRENT"
  PROVE  /\ ~Checked(a, now, admission).invalidated
         /\ Intact(rows, withdrawn, a.basis)
         /\ \A dep \in a.basis : FreshRow(dep, now)
<1>1. Checked(a, now, admission).reasons = {}
  BY DEF Verdict
<1>2. ~Checked(a, now, admission).invalidated /\ Findings(a, now, admission) = {}
  BY <1>1, CheckedEntry
<1>. QED BY <1>2, NoFindings

\* Every identifier hashes the basis stored with it, which is never empty.
BasisInv ==
  /\ \A id \in DOMAIN assessments : assessments[id].basis = id.basis /\ id.basis # {}
  /\ \A c \in Callers : jobs[c].op = "register" => jobs[c].basis # {}

LEMMA NextBasis == IInv /\ BasisInv /\ [Next]_vars => BasisInv'
<1>. SUFFICES ASSUME IInv, BasisInv, [Next]_vars PROVE BasisInv'
  OBVIOUS
<1>1. ASSUME NEW c \in Callers, jobs'[c].op = "register"
      PROVE  jobs'[c].basis # {}
  <2>1. CASE \E x \in Callers : Decide(x)
    <3>1. PICK x \in Callers : Decide(x)
      BY <2>1
    <3>2. CASE c = x
      BY <1>1, <3>1, <3>2 DEF Decide, FreshAt, Idle, IInv, TypeOK
    <3>3. CASE c # x
      BY <1>1, <3>1, <3>3 DEF Decide, BasisInv, IInv, TypeOK
    <3>. QED BY <3>2, <3>3
  <2>2. CASE ~\E x \in Callers : Decide(x)
    <3>1. jobs'[c] = jobs[c] \/ jobs'[c].op # "register"
      <4>0. jobs \in [Callers -> Job]
        BY DEF IInv, TypeOK
      <4>1. CASE \E x \in Callers : BeginFetch(x) \/ BeginResolve(x)
        BY <4>0, <4>1 DEF BeginFetch, BeginResolve
      <4>2. CASE \E x \in Callers : BeginStatus(x) \/ BeginWithdraw(x) \/ Fail(x)
        BY <4>0, <4>2 DEF BeginStatus, BeginWithdraw, Fail, Idle
      <4>3. CASE \E x \in Callers : Put(x) \/ Withdraw(x)
        BY <4>0, <4>3 DEF Put, Withdraw, Idle
      <4>4. CASE \E x \in Callers : Register(x) \/ Status(x)
        BY <4>0, <4>4 DEF Register, Status, Reply
      <4>5. CASE Tick \/ Restart \/ UNCHANGED vars
        BY <4>5 DEF Tick, Restart, vars, Idle
      <4>. QED BY <2>2, <4>1, <4>2, <4>3, <4>4, <4>5 DEF Next, Request
    <3>. QED BY <1>1, <3>1 DEF BasisInv
  <2>. QED BY <2>1, <2>2
<1>2. ASSUME NEW id \in DOMAIN assessments'
      PROVE  assessments'[id].basis = id.basis /\ id.basis # {}
  <2>1. CASE id \in DOMAIN assessments
    BY <2>1, NextEntries DEF KeepsEntry, BasisInv
  <2>2. CASE id \notin DOMAIN assessments
    <3>1. PICK c \in Callers : Register(c)
      <4>1. \A x \in Callers : ~Put(x) /\ ~Withdraw(x)
        BY <2>2, PutEntries, WithdrawEntries
      <4>2. \A x \in Callers : ~Status(x)
        <5>1. SUFFICES ASSUME NEW x \in Callers, Status(x) PROVE FALSE
          OBVIOUS
        <5>2. jobs[x].id \in DOMAIN assessments
              /\ DOMAIN assessments' = DOMAIN assessments \cup {jobs[x].id}
          BY <5>1 DEF Status, Record
        <5>. QED BY <2>2, <5>2
      <4>. QED BY <2>2, <4>1, <4>2, OtherSteps
    <3> DEFINE job == jobs[c]
               i == IdOf(job.kind, job.basis, job.at)
               new == [basis |-> job.basis, assessedAt |-> TxnNow(job),
                       lastChecked |-> TxnNow(job), invalidated |-> FALSE, reasons |-> {}]
               b == Checked(IF i \in DOMAIN assessments THEN assessments[i] ELSE new,
                            TxnNow(job), {})
    <3>2. assessments' = Record(i, b) /\ job.op = "register"
      BY <3>1 DEF Register
    <3>3. id = i /\ assessments'[id] = b /\ i \notin DOMAIN assessments
      <4>1. DOMAIN assessments' = DOMAIN assessments \cup {i} /\ assessments'[i] = b
        BY <3>2 DEF Record
      <4>. QED BY <2>2, <4>1
    <3>4. b = Checked(new, TxnNow(job), {})
      BY <3>3
    <3>5. new \in Assessment /\ TxnNow(job) \in Nat
      BY <3>2 DEF IInv, TypeOK, Job, Idle, Assessment, TxnNow
    <3>6. Checked(new, TxnNow(job), {}).basis = new.basis
      BY <3>5, CheckedEntry
    <3>7. i.basis = job.basis /\ job.basis # {}
      BY <3>2 DEF IdOf, BasisInv
    <3>. QED BY <3>3, <3>4, <3>6, <3>7
  <2>. QED BY <2>1, <2>2
<1>. QED BY <1>1, <1>2 DEF BasisInv

LEMMA BasisInvariance == Spec => []BasisInv
<1>1. Init => BasisInv
  BY DEF Init, BasisInv, Idle
<1>. QED BY <1>1, NextBasis, Invariance, PTL DEF Spec

\* A request is told CURRENT only of an assessment never disturbed before,
\* whose evidence is selected, unwithdrawn and fresh as it is told.
THEOREM CurrentIsSound == Spec => CurrentVerdictSound
<1>1. ASSUME IInv, IInv', BasisInv', [Next]_vars, NEW c \in Callers,
             jobs[c].op \in {"register", "status"}, jobs'[c].op = "replied",
             jobs'[c].verdict = "CURRENT"
      PROVE  LET id == jobs'[c].id IN
             /\ id \notin disturbed'
             /\ FreshAt(id.basis, clock)
             /\ Intact(rows, withdrawn, id.basis)
  <2>0. jobs \in [Callers -> Job]
    BY <1>1 DEF IInv, TypeOK
  <2>1. Register(c) \/ Status(c)
    <3>1. CASE \E x \in Callers : BeginFetch(x) \/ BeginResolve(x)
      BY <1>1, <2>0, <3>1 DEF BeginFetch, BeginResolve
    <3>2. CASE \E x \in Callers : BeginStatus(x) \/ BeginWithdraw(x) \/ Fail(x)
      BY <1>1, <2>0, <3>2 DEF BeginStatus, BeginWithdraw, Fail, Idle
    <3>3. CASE \E x \in Callers : Put(x) \/ Withdraw(x)
      BY <1>1, <2>0, <3>3 DEF Put, Withdraw, Idle
    <3>4. CASE \E x \in Callers : Decide(x)
      BY <1>1, <2>0, <3>4 DEF Decide, Idle
    <3>5. CASE \E x \in Callers : Register(x) \/ Status(x)
      BY <1>1, <2>0, <3>5 DEF Register, Status, Reply
    <3>6. CASE Tick \/ Restart \/ UNCHANGED vars
      BY <1>1, <3>6 DEF Tick, Restart, vars, Idle
    <3>. QED BY <1>1, <3>1, <3>2, <3>3, <3>4, <3>5, <3>6 DEF Next, Request
  <2>2. PICK i \in Id, a \in Assessment, adm \in SUBSET Deployments :
          /\ a.invalidated <=> a.reasons # {}
          /\ assessments' = Record(i, Checked(a, clock, adm))
          /\ jobs'[c] = [op |-> "replied", id |-> i, verdict |-> Verdict(Checked(a, clock, adm))]
    <3>1. CASE Register(c)
      <4> DEFINE job == jobs[c]
                 i == IdOf(job.kind, job.basis, job.at)
                 new == [basis |-> job.basis, assessedAt |-> clock, lastChecked |-> clock,
                         invalidated |-> FALSE, reasons |-> {}]
                 a == IF i \in DOMAIN assessments THEN assessments[i] ELSE new
      <4>1. new \in Assessment
        BY <1>1, <3>1 DEF IInv, TypeOK, Register, Job, Idle, Assessment
      <4>2. a \in Assessment /\ (a.invalidated <=> a.reasons # {})
        BY <1>1, <4>1 DEF IInv, TypeOK, LatchedHasReason
      <4>3. /\ assessments' = Record(i, Checked(a, clock, {}))
            /\ jobs'[c] = [op |-> "replied", id |-> i, verdict |-> Verdict(Checked(a, clock, {}))]
        BY <2>0, <3>1 DEF Register, Reply, TxnNow
      <4>4. i \in Id
        BY <1>1, <3>1, IdOfType DEF IInv, TypeOK, Register, Job, Idle
      <4>. HIDE DEF a, i
      <4>. QED BY <4>2, <4>3, <4>4
    <3>2. CASE Status(c)
      <4>1. assessments[jobs[c].id] \in Assessment
            /\ (assessments[jobs[c].id].invalidated <=> assessments[jobs[c].id].reasons # {})
        BY <1>1, <3>2 DEF IInv, TypeOK, LatchedHasReason, Status
      <4>2. /\ assessments' = Record(jobs[c].id, Checked(assessments[jobs[c].id], clock, {deployed}))
            /\ jobs'[c] = [op |-> "replied", id |-> jobs[c].id,
                 verdict |-> Verdict(Checked(assessments[jobs[c].id], clock, {deployed}))]
        BY <2>0, <3>2 DEF Status, Reply, TxnNow
      <4>3. jobs[c].id \in Id /\ deployed \in Deployments
        BY <1>1, <3>2 DEF IInv, TypeOK, Status
      <4>. QED BY <4>1, <4>2, <4>3
    <3>. QED BY <2>1, <3>1, <3>2
  <2>3. clock \in Nat
    BY <1>1 DEF IInv, TypeOK
  <2> DEFINE b == Checked(a, clock, adm)
  <2>4. jobs'[c].id = i /\ Verdict(b) = "CURRENT"
    BY <1>1, <2>2
  <2>5. /\ ~b.invalidated
        /\ Intact(rows, withdrawn, a.basis)
        /\ \A dep \in a.basis : FreshRow(dep, clock)
    BY <2>2, <2>3, <2>4, CurrentEntry
  <2>6. b.basis = a.basis
    BY <2>2, <2>3, CheckedEntry
  <2>7. i \in DOMAIN assessments' /\ assessments'[i] = b
    BY <2>2 DEF Record
  <2>. HIDE DEF b
  <2>8. a.basis = i.basis /\ i.basis # {}
    BY <1>1, <2>6, <2>7 DEF BasisInv
  <2>9. i \notin disturbed'
    BY <1>1, <2>5, <2>7 DEF IInv, DisturbedIsLatched, Latched
  <2>. QED BY <2>4, <2>5, <2>8, <2>9 DEF FreshAt
<1>2. IInv /\ IInv' /\ BasisInv' /\ [Next]_vars =>
        [\A c \in Callers :
           jobs[c].op \in {"register", "status"} /\ jobs'[c].op = "replied"
             /\ jobs'[c].verdict = "CURRENT" =>
               LET id == jobs'[c].id IN
               /\ id \notin disturbed'
               /\ FreshAt(id.basis, clock)
               /\ Intact(rows, withdrawn, id.basis)
        ]_vars
  BY <1>1
<1>. QED BY <1>2, Invariance, BasisInvariance, PTL DEF Spec, CurrentVerdictSound

\* Only a status request answers a status request.
LEMMA StatusAnswers ==
  ASSUME TypeOK, [Next]_vars, NEW c \in Callers,
         jobs[c].op = "status", jobs'[c].op = "replied"
  PROVE  Status(c)
<1>0. jobs \in [Callers -> Job]
  BY DEF TypeOK
<1>1. ~ \E x \in Callers : BeginFetch(x) \/ BeginResolve(x)
  BY <1>0 DEF BeginFetch, BeginResolve
<1>2. ~ \E x \in Callers : BeginStatus(x) \/ BeginWithdraw(x) \/ Fail(x)
  BY <1>0 DEF BeginStatus, BeginWithdraw, Fail, Idle
<1>3. ~ \E x \in Callers : Put(x) \/ Withdraw(x)
  BY <1>0 DEF Put, Withdraw, Idle
<1>4. ~ \E x \in Callers : Decide(x)
  BY <1>0 DEF Decide, Idle
<1>5. CASE \E x \in Callers : Register(x) \/ Status(x)
  BY <1>0, <1>5 DEF Register, Status, Reply
<1>6. ~ (Tick \/ Restart \/ UNCHANGED vars)
  BY DEF Tick, Restart, vars, Idle
<1>. QED BY <1>1, <1>2, <1>3, <1>4, <1>5, <1>6 DEF Next, Request

\* What is resolved again as it was is admissible, every row of it.
LEMMA ResolvedAgain ==
  ASSUME NEW a \in Assessment, NEW now \in Nat, NEW d,
         Findings(a, now, {d}) = {}
  PROVE  \A dep \in a.basis : Admissible(dep, withdrawn, d, now)
<1>1. Resolve(rows, withdrawn, d, {dep.payload : dep \in a.basis}, now) = a.basis
  BY DEF Findings
<1>. QED BY <1>1 DEF Resolve

\* An assessment is told to be CURRENT only if every row of its basis would be
\* admitted now, under the catalogue that is deployed now (assessment_status).
THEOREM CurrentIsAdmissible == Spec => CurrentMeansAdmissible
<1>1. ASSUME IInv, BasisInv', [Next]_vars, NEW c \in Callers,
             jobs[c].op = "status", jobs'[c].op = "replied", jobs'[c].verdict = "CURRENT"
      PROVE  \A dep \in jobs'[c].id.basis : Admissible(dep, withdrawn, deployed, clock)
  <2>1. Status(c) /\ jobs \in [Callers -> Job] /\ clock \in Nat
    BY <1>1, StatusAnswers DEF IInv, TypeOK
  <2> DEFINE i == jobs[c].id
             a == assessments[i]
             b == Checked(a, clock, {deployed})
  <2>2. /\ i \in DOMAIN assessments /\ a \in Assessment
        /\ a.invalidated <=> a.reasons # {}
    BY <1>1, <2>1 DEF IInv, TypeOK, LatchedHasReason, Status
  <2>3. assessments' = Record(i, b) /\ jobs'[c] = [op |-> "replied", id |-> i, verdict |-> Verdict(b)]
    BY <2>1 DEF Status, Reply, TxnNow
  <2>. HIDE DEF a, b, i
  <2>4. b.basis = a.basis /\ (~b.invalidated => Findings(a, clock, {deployed}) = {})
    <3>1. /\ b.basis = a.basis
          /\ b.invalidated <=> b.reasons # {}
          /\ a.invalidated => b.invalidated
          /\ ~a.invalidated => b.reasons = Findings(a, clock, {deployed})
      BY SMTT(30), <2>1, <2>2, CheckedEntry DEF b
    <3>. QED BY <3>1
  <2>5. ~b.invalidated
    <3>1. Verdict(b) = "CURRENT"
      BY <1>1, <2>3
    <3>. QED BY <2>1, <2>2, <3>1, CurrentEntry DEF b
  <2>6. assessments'[i].basis = jobs'[c].id.basis /\ assessments'[i] = b
    BY <1>1, <2>2, <2>3 DEF BasisInv, Record
  <2>. QED BY <2>1, <2>2, <2>4, <2>5, <2>6, ResolvedAgain
<1>2. IInv /\ BasisInv' /\ [Next]_vars =>
        [\A c \in Callers :
           jobs[c].op = "status" /\ jobs'[c].op = "replied" /\ jobs'[c].verdict = "CURRENT" =>
             LET basis == jobs'[c].id.basis IN
             \A dep \in basis : Admissible(dep, withdrawn, deployed, clock)
        ]_vars
  BY <1>1
<1>. QED BY <1>2, Invariance, BasisInvariance, PTL DEF Spec, CurrentMeansAdmissible

\* Registration is the only step that adds an assessment, and it adds one.
LEMMA NextDomain ==
  ASSUME IInv, [Next]_vars
  PROVE  \/ DOMAIN assessments' = DOMAIN assessments
         \/ /\ Cardinality(DOMAIN assessments) < MaxAssessments
            /\ \E id \in Id \ DOMAIN assessments :
                 DOMAIN assessments' = DOMAIN assessments \cup {id}
<1>1. CASE \E c \in Callers : Put(c) \/ Withdraw(c)
  BY <1>1, PutEntries, WithdrawEntries
<1>2. CASE \E c \in Callers : Status(c)
  <2>1. PICK c \in Callers : Status(c)
    BY <1>2
  <2>2. jobs[c].id \in DOMAIN assessments
        /\ DOMAIN assessments' = DOMAIN assessments \cup {jobs[c].id}
    BY <2>1 DEF Status, Record
  <2>. QED BY <2>2
<1>3. CASE \E c \in Callers : Register(c)
  <2>1. PICK c \in Callers : Register(c)
    BY <1>3
  <2> DEFINE id == IdOf(jobs[c].kind, jobs[c].basis, jobs[c].at)
  <2>2. id \in Id
    BY <2>1, IdOfType DEF IInv, TypeOK, Register, Job, Idle
  <2>3. /\ DOMAIN assessments' = DOMAIN assessments \cup {id}
        /\ id \in DOMAIN assessments \/ Cardinality(DOMAIN assessments) < MaxAssessments
    BY <2>1 DEF Register, Record, HasRoom
  <2>. HIDE DEF id
  <2>. QED BY <2>2, <2>3
<1>4. CASE ~\E c \in Callers : Put(c) \/ Register(c) \/ Status(c) \/ Withdraw(c)
  BY <1>4, OtherSteps
<1>. QED BY <1>1, <1>2, <1>3, <1>4

CapacityInv == IsFiniteSet(DOMAIN assessments) /\ CapacityRespected

\* Concurrent registrations never exceed the capacity of the scope.
THEOREM CapacityHolds == Spec => []CapacityRespected
<1>1. Init => CapacityInv
  <2>1. Init => DOMAIN assessments = {}
    BY DEF Init
  <2>. QED BY <2>1, FS_EmptySet, ReplayAssumption DEF CapacityInv, CapacityRespected
<1>2. IInv /\ CapacityInv /\ [Next]_vars => CapacityInv'
  <2>. SUFFICES ASSUME IInv, CapacityInv, [Next]_vars PROVE CapacityInv'
    OBVIOUS
  <2>1. CASE DOMAIN assessments' = DOMAIN assessments
    BY <2>1 DEF CapacityInv, CapacityRespected
  <2>2. CASE /\ Cardinality(DOMAIN assessments) < MaxAssessments
             /\ \E id \in Id \ DOMAIN assessments :
                  DOMAIN assessments' = DOMAIN assessments \cup {id}
    <3>1. PICK id \in Id \ DOMAIN assessments :
            DOMAIN assessments' = DOMAIN assessments \cup {id}
      BY <2>2
    <3>2. /\ IsFiniteSet(DOMAIN assessments \cup {id})
          /\ Cardinality(DOMAIN assessments \cup {id}) = Cardinality(DOMAIN assessments) + 1
      BY FS_AddElement DEF CapacityInv
    <3>3. Cardinality(DOMAIN assessments) \in Nat
      BY FS_CardinalityType DEF CapacityInv
    <3>. QED BY <2>2, <3>1, <3>2, <3>3, ReplayAssumption DEF CapacityInv, CapacityRespected
  <2>. QED BY <2>1, <2>2, NextDomain
<1>3. CapacityInv => CapacityRespected
  BY DEF CapacityInv
<1>. QED BY <1>1, <1>2, <1>3, Invariance, PTL DEF Spec

\* Only payloads the scope has observed are ever withdrawn, so that a request
\* naming another one as well changes nothing; and no later row hides that.
THEOREM WithdrawalsAreOfObserved == Spec => []WithdrawnWereObserved
<1>1. Init => WithdrawnWereObserved
  BY DEF Init, WithdrawnWereObserved
<1>2. WithdrawnWereObserved /\ [Next]_vars => WithdrawnWereObserved'
  <2>. SUFFICES ASSUME WithdrawnWereObserved, [Next]_vars PROVE WithdrawnWereObserved'
    OBVIOUS
  <2>1. CASE \E c \in Callers : Put(c)
    <3>1. PICK c \in Callers : Put(c)
      BY <2>1
    <3>2. ASSUME NEW r \in rows PROVE \E q \in rows' : q.payload = r.payload
      BY <3>1 DEF Put, InsertOrReplace, Receipt
    <3>. QED BY <3>1, <3>2 DEF Put, WithdrawnWereObserved
  <2>2. CASE \E c \in Callers : Withdraw(c)
    BY <2>2 DEF Withdraw, AllObserved, WithdrawnWereObserved
  <2>3. CASE \E c \in Callers : Register(c) \/ Status(c)
    BY <2>3 DEF Register, Status, WithdrawnWereObserved
  <2>4. CASE ~\E c \in Callers : Put(c) \/ Register(c) \/ Status(c) \/ Withdraw(c)
    BY <2>4, OtherSteps DEF WithdrawnWereObserved
  <2>. QED BY <2>1, <2>2, <2>3, <2>4
<1>. QED BY <1>1, <1>2, PTL DEF Spec

-----------------------------------------------------------------------------
(* The store implements the promise *)

\* The history misses nothing: what is not disturbed has its evidence intact.
HistoryInv ==
  \A id \in DOMAIN assessments :
    id \notin disturbed => Intact(rows, withdrawn, assessments[id].basis)

LEMMA NextHistory == HistoryInv /\ [Next]_vars => HistoryInv'
<1>1. CASE \E c \in Callers : Put(c) \/ Register(c) \/ Status(c) \/ Withdraw(c)
  <2>1. NoteDisturbed
    BY <1>1 DEF Put, Register, Status, Withdraw
  <2>. QED BY <2>1 DEF NoteDisturbed, HistoryInv
<1>2. CASE ~\E c \in Callers : Put(c) \/ Register(c) \/ Status(c) \/ Withdraw(c)
  BY <1>2, OtherSteps DEF HistoryInv
<1>. QED BY <1>1, <1>2

LEMMA KnownIsDomain == P!known = DOMAIN assessments
BY DEF P!known, Standing, Latched

\* A caller that starts, fails or writes holds no answer.
LEMMA ToldShrinks ==
  ASSUME TypeOK, [Next]_vars, ~\E c \in Callers : Register(c) \/ Status(c)
  PROVE  Told' \subseteq Told
<1>0. jobs \in [Callers -> Job]
  BY DEF TypeOK
<1>1. \A c \in Callers : jobs'[c] = jobs[c] \/ jobs'[c].op # "replied"
  <2>1. CASE \E x \in Callers : BeginFetch(x) \/ BeginResolve(x)
    BY <1>0, <2>1 DEF BeginFetch, BeginResolve
  <2>2. CASE \E x \in Callers : BeginStatus(x) \/ BeginWithdraw(x) \/ Fail(x)
    BY <1>0, <2>2 DEF BeginStatus, BeginWithdraw, Fail, Idle
  <2>3. CASE \E x \in Callers : Put(x) \/ Withdraw(x)
    BY <1>0, <2>3 DEF Put, Withdraw, Idle
  <2>4. CASE \E x \in Callers : Decide(x)
    BY <1>0, <2>4 DEF Decide, Idle
  <2>5. CASE Tick \/ Restart \/ UNCHANGED vars
    BY <2>5 DEF Tick, Restart, vars, Idle
  <2>. QED BY <2>1, <2>2, <2>3, <2>4, <2>5 DEF Next, Request
<1>. QED BY <1>1 DEF Told

LEMMA WriteIsChange ==
  ASSUME IInv, IInv', [Next]_vars, NEW c \in Callers, Put(c) \/ Withdraw(c)
  PROVE  P!PromiseNext
<1> DEFINE D == Latched' \ Latched
<1>1. /\ DOMAIN assessments' = DOMAIN assessments
      /\ Latched \subseteq Latched' /\ Latched' \subseteq DOMAIN assessments
  BY PutEntries, WithdrawEntries DEF KeepsEntry, Latched
<1>2. D \subseteq DOMAIN assessments /\ Standing' = Standing \ D /\ Latched' = Latched \cup D
  BY <1>1 DEF Standing
<1>3. disturbed \subseteq disturbed' /\ disturbed' \subseteq Latched'
  BY DEF Put, Withdraw, NoteDisturbed, IInv, DisturbedIsLatched
<1>4. Told' \subseteq Told
  <2>1. jobs \in [Callers -> Job] /\ jobs' = [jobs EXCEPT ![c] = Idle]
    BY DEF IInv, TypeOK, Put, Withdraw
  <2>2. \A x \in Callers : jobs'[x] = jobs[x] \/ jobs'[x].op # "replied"
    BY <2>1 DEF Idle
  <2>. QED BY <2>2 DEF Told
<1>5. P!Change(D)
  BY <1>1, <1>2, <1>3, <1>4, KnownIsDomain DEF P!Change
<1>6. D \in SUBSET P!known
  BY <1>2, KnownIsDomain
<1>. QED BY <1>5, <1>6, Zenon DEF P!PromiseNext

\* A transaction that checks one assessment, adding it if it is new.
LEMMA CheckIsPromised ==
  ASSUME IInv, HistoryInv, NEW c \in Callers, NEW id, NEW b,
         id \in DOMAIN assessments \/ HasRoom(DOMAIN assessments),
         assessments' = Record(id, b),
         rows' = rows, withdrawn' = withdrawn, NoteDisturbed,
         id \in DOMAIN assessments =>
           b.basis = assessments[id].basis /\ (assessments[id].invalidated => b.invalidated),
         b.invalidated \in BOOLEAN,
         b.invalidated <=> b.reasons # {},
         IInv',
         Reply(c, id, Verdict(b))
  PROVE  P!PromiseNext
<1>1. /\ DOMAIN assessments' = DOMAIN assessments \cup {id}
      /\ assessments'[id] = b
      /\ \A i \in DOMAIN assessments : i # id => assessments'[i] = assessments[i]
  BY DEF Record
<1>2. /\ b.invalidated => Standing' = Standing \ {id} /\ Latched' = Latched \cup {id}
      /\ ~b.invalidated => Standing' = Standing \cup {id} /\ Latched' = Latched
                            /\ id \notin Latched
  BY <1>1 DEF Standing, Latched
<1>3. disturbed' \subseteq disturbed \cup {id} /\ disturbed \subseteq disturbed'
      /\ (id \in DOMAIN assessments => disturbed' = disturbed)
  <2>1. \A i \in DOMAIN assessments : assessments'[i].basis = assessments[i].basis
    BY <1>1
  <2>2. \A i \in DOMAIN assessments :
          ~Intact(rows', withdrawn', assessments'[i].basis) => i \in disturbed
    BY <2>1 DEF HistoryInv
  <2>. QED BY <1>1, <2>2 DEF NoteDisturbed
<1>4. ~b.invalidated => disturbed' = disturbed
  <2>1. ~b.invalidated => id \notin disturbed'
    BY <1>2 DEF IInv, DisturbedIsLatched
  <2>. QED BY <1>3, <2>1
<1>5. Told' \subseteq Told \cup {id} /\ (b.invalidated => Told' \subseteq Told)
  <2>1. jobs \in [Callers -> Job]
    BY DEF IInv, TypeOK
  <2>2. jobs' = [jobs EXCEPT ![c] = [op |-> "replied", id |-> id, verdict |-> Verdict(b)]]
    BY DEF Reply
  <2>3. \A x \in Callers : x # c => jobs'[x] = jobs[x]
    BY <2>1, <2>2
  <2>4. jobs'[c].id = id /\ jobs'[c].verdict = Verdict(b)
    BY <2>1, <2>2
  <2>5. b.invalidated => Verdict(b) # "CURRENT"
    BY DEF Verdict
  <2>. QED BY <2>3, <2>4, <2>5 DEF Told
<1>6. P!Register(id) \/ P!Check(id)
  <2>1. CASE id \in DOMAIN assessments
    <3>1. id \in Standing \/ b.invalidated
      BY <1>2, <2>1 DEF Standing, Latched
    <3>2. ~b.invalidated => Standing' = Standing
      BY <1>2, <3>1
    <3>3. CASE b.invalidated
      BY <1>2, <1>3, <1>5, <2>1, <3>3, KnownIsDomain DEF P!Check
    <3>4. CASE ~b.invalidated
      BY <1>2, <1>3, <1>5, <2>1, <3>1, <3>2, <3>4, KnownIsDomain DEF P!Check
    <3>. QED BY <3>3, <3>4
  <2>2. CASE id \notin DOMAIN assessments
    <3>0. id \notin P!known /\ HasRoom(P!known)
      BY <2>2, KnownIsDomain
    <3>1. id \notin Standing
      BY <2>2 DEF Standing
    <3>2. CASE b.invalidated
      <4>1. Standing' = Standing /\ Latched' = Latched \cup {id}
        BY <1>2, <3>1, <3>2
      <4>2. disturbed' \in {disturbed, disturbed \cup {id}}
        BY <1>3
      <4>3. Told' \subseteq Told
        BY <1>5, <3>2
      <4>. QED BY <3>0, <4>1, <4>2, <4>3, Zenon DEF P!Register
    <3>3. CASE ~b.invalidated
      <4>1. Standing' = Standing \cup {id} /\ Latched' = Latched /\ disturbed' = disturbed
        BY <1>2, <1>4, <3>3
      <4>. QED BY <1>5, <3>0, <4>1, Zenon DEF P!Register
    <3>. QED BY <3>2, <3>3
  <2>. QED BY <2>1, <2>2
<1>7. id \in (P!known)'
  BY <1>1 DEF P!known, Standing, Latched
<1>. QED BY <1>6, <1>7 DEF P!PromiseNext

LEMMA AnswerIsPromised ==
  ASSUME IInv, IInv', HistoryInv, NEW c \in Callers, Register(c) \/ Status(c)
  PROVE  P!PromiseNext
<1>1. CASE Register(c)
  <2> DEFINE job == jobs[c]
             id == IdOf(job.kind, job.basis, job.at)
             new == [basis |-> job.basis, assessedAt |-> TxnNow(job),
                     lastChecked |-> TxnNow(job), invalidated |-> FALSE, reasons |-> {}]
             a == IF id \in DOMAIN assessments THEN assessments[id] ELSE new
             b == Checked(a, TxnNow(job), {})
  <2>1. TxnNow(job) \in Nat /\ new \in Assessment
    BY <1>1 DEF IInv, TypeOK, Register, Job, Idle, Assessment, TxnNow
  <2>2. a \in Assessment /\ (a.invalidated <=> a.reasons # {})
        /\ (id \in DOMAIN assessments => a = assessments[id])
    BY <2>1 DEF IInv, TypeOK, LatchedHasReason
  <2>3. /\ id \in DOMAIN assessments \/ HasRoom(DOMAIN assessments)
        /\ assessments' = Record(id, b)
        /\ rows' = rows /\ withdrawn' = withdrawn /\ NoteDisturbed
        /\ Reply(c, id, Verdict(b))
    BY <1>1 DEF Register
  <2>. HIDE DEF a, id
  <2>4. /\ b.basis = a.basis
        /\ b.invalidated <=> b.reasons # {}
        /\ a.invalidated => b.invalidated
        /\ b \in Assessment
    BY <2>1, <2>2, CheckedEntry, CheckedType
  <2>5. b.invalidated \in BOOLEAN
    BY <2>4 DEF Assessment
  <2>. HIDE DEF b
  <2>. QED BY <2>2, <2>3, <2>4, <2>5, CheckIsPromised
<1>2. CASE Status(c)
  <2> DEFINE id == jobs[c].id
             a == assessments[id]
             b == Checked(a, TxnNow(jobs[c]), {deployed})
  <2>1. /\ TxnNow(jobs[c]) \in Nat /\ id \in DOMAIN assessments
        /\ a \in Assessment
        /\ a.invalidated <=> a.reasons # {}
    BY <1>2 DEF IInv, TypeOK, Status, TxnNow, LatchedHasReason
  <2>2. /\ assessments' = Record(id, b)
        /\ rows' = rows /\ withdrawn' = withdrawn /\ NoteDisturbed
        /\ Reply(c, id, Verdict(b))
    BY <1>2 DEF Status
  <2>. HIDE DEF a
  <2>3. /\ b.basis = a.basis
        /\ b.invalidated <=> b.reasons # {}
        /\ a.invalidated => b.invalidated
        /\ b \in Assessment
    <3>1. Checked(a, TxnNow(jobs[c]), {deployed}).basis = a.basis
      BY <2>1, CheckedEntry
    <3>. QED BY <2>1, <3>1, CheckedEntry, CheckedType DEF a
  <2>4. b.invalidated \in BOOLEAN
    BY <2>3 DEF Assessment
  <2>5. a = assessments[id]
    BY DEF a
  <2>. HIDE DEF b, id
  <2>. QED BY <2>1, <2>2, <2>3, <2>4, <2>5, CheckIsPromised
<1>. QED BY <1>1, <1>2

LEMMA StepIsPromised ==
  IInv /\ IInv' /\ HistoryInv /\ [Next]_vars => [P!PromiseNext]_(P!pvars)
<1>. SUFFICES ASSUME IInv, IInv', HistoryInv, [Next]_vars
              PROVE  P!PromiseNext
  OBVIOUS
<1>1. CASE \E c \in Callers : Put(c) \/ Withdraw(c)
  BY <1>1, WriteIsChange
<1>2. CASE \E c \in Callers : Register(c) \/ Status(c)
  BY <1>2, AnswerIsPromised
<1>3. CASE ~\E c \in Callers : Put(c) \/ Register(c) \/ Status(c) \/ Withdraw(c)
  <2>1. UNCHANGED <<assessments, disturbed>>
    BY <1>3, OtherSteps
  <2>2. Standing' = Standing /\ Latched' = Latched
    BY <2>1 DEF Standing, Latched
  <2>3. Told' \subseteq Told
    BY <1>3, ToldShrinks DEF IInv
  <2>4. disturbed \subseteq Latched /\ Latched \subseteq DOMAIN assessments
    BY DEF IInv, DisturbedIsLatched, Latched
  <2>5. P!Change({})
    BY <2>1, <2>2, <2>3, <2>4, KnownIsDomain DEF P!Change
  <2>. QED BY <2>5 DEF P!PromiseNext
<1>. QED BY <1>1, <1>2, <1>3

\* The store and its requests implement the promise of assessments: unknown,
\* standing, revoked, and revoked in the very step that disturbs the evidence.
THEOREM StoreKeepsPromise == Spec => KeepsPromise
<1>1. Init => P!PromiseInit /\ HistoryInv
  <2>1. Init => DOMAIN assessments = {} /\ Told = {} /\ disturbed = {}
    BY DEF Init, Told, Idle
  <2>. QED BY <2>1 DEF P!PromiseInit, HistoryInv, Standing, Latched
<1>. QED BY <1>1, StepIsPromised, NextHistory, Invariance, PTL DEF Spec, KeepsPromise, P!Promise

=============================================================================
