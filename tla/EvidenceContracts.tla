---------------------------- MODULE EvidenceContracts ----------------------------
(***************************************************************************)
(* The contracts of frontier_contracts.py that judge one observation:      *)
(* Terra's coverage, the read adapter of Finance and Lyte's profiling      *)
(* evidence.  They keep nothing; a caller holds an observation and asks    *)
(* about it again while the clock of the service goes on.                  *)
(*                                                                         *)
(* Time is counted in fractions of a second, since an age is cut to whole  *)
(* seconds.                                                                *)
(***************************************************************************)
EXTENDS Integers

CONSTANTS
  Second,    \* time units in a second
  Skew,      \* ALLOWED_FUTURE_SKEW_SECONDS, in seconds
  Freshness, \* freshness_seconds of the requests
  MaxTime    \* bound on the clock and on observed_at

ContractsAssumption ==
  /\ Second \in Nat \ {0} /\ Skew \in Nat
  /\ Freshness \subseteq Nat \ {0}
  /\ MaxTime \in Nat

VARIABLES
  now,      \* contract_clock
  evidence, \* what the caller holds and sends
  coverage, \* the last answers
  read,
  profile

vars == <<now, evidence, coverage, read, profile>>

States == {"OBSERVED", "UNAVAILABLE", "STALE", "NOT_ATTEMPTED"}
Unasked == "none"
Rejected == "REJECTED"

Init ==
  /\ now = 0
  /\ evidence \in [observedAt : 0 .. MaxTime, freshness : Freshness, state : States,
                   complete : BOOLEAN,      \* scope, records, no conflicts; digests
                   scopes : {"none", "read", "mixed"}, revision : {"known", "UNAVAILABLE"},
                   approval : BOOLEAN, write : BOOLEAN,
                   traffic : BOOLEAN, sourceMap : BOOLEAN]
  \* The contracts look at parts of their own.
  /\ evidence.state # "OBSERVED" => evidence.scopes = "none" /\ ~evidence.approval /\ ~evidence.write
  /\ evidence.write => evidence.scopes = "read"
  /\ coverage = Unasked /\ read = Unasked /\ profile = Unasked

-----------------------------------------------------------------------------

\* _admit_time.
Admitted == evidence.observedAt - now <= Skew * Second

\* Mutant: the distance in time is taken for the age.
Distance ==
  (IF now >= evidence.observedAt THEN now - evidence.observedAt ELSE evidence.observedAt - now)
    \div Second

\* Whole seconds, and never negative.
Age == IF now >= evidence.observedAt THEN (now - evidence.observedAt) \div Second ELSE 0

Fresh == Age <= evidence.freshness

\* evaluate_coverage, terra_coverage.
Coverage ==
  IF ~Admitted THEN Rejected
  ELSE IF evidence.state # "OBSERVED" THEN evidence.state
  ELSE IF ~Fresh THEN "STALE"
  ELSE IF evidence.complete THEN "BOUND" ELSE "UNBOUND"

AskCoverage ==
  /\ coverage' = Coverage
  /\ UNCHANGED <<now, evidence, read, profile>>

\* authorize_finance_read, finance_adapter.
ReadDecision ==
  IF ~Admitted THEN Rejected
  ELSE IF evidence.write THEN "DENY_WRITE"
  ELSE IF evidence.scopes # "read" THEN "DENY_SCOPE"
  ELSE IF evidence.revision = "UNAVAILABLE" THEN "REVISION_UNAVAILABLE"
  ELSE IF ~Fresh THEN "STALE"
  ELSE IF ~evidence.approval THEN "NOT_APPROVED"
  ELSE "ALLOW_READ"

AskRead ==
  /\ read' = ReadDecision
  /\ UNCHANGED <<now, evidence, coverage, profile>>

\* profiling_evidence, lyte_profiling: captured_at is parsed and never compared with
\* the clock.
AskProfile ==
  /\ profile' =
       IF evidence.revision = "UNAVAILABLE" THEN Rejected
       ELSE IF evidence.state # "OBSERVED" THEN "UNAVAILABLE"
       ELSE IF ~evidence.traffic THEN "BLOCKED_TRAFFIC_PRECONDITION"
       ELSE IF ~evidence.sourceMap THEN "BLOCKED_SOURCE_MAP"
       ELSE IF ~evidence.complete THEN "INCOMPLETE"
       ELSE "OBSERVED"
  /\ UNCHANGED <<now, evidence, coverage, read>>

Advance ==
  /\ now < MaxTime
  /\ now' = now + 1
  /\ UNCHANGED <<evidence, coverage, read, profile>>

Next == AskCoverage \/ AskRead \/ AskProfile \/ Advance

Spec == Init /\ [][Next]_vars

-----------------------------------------------------------------------------
(* Properties *)

\* The three ages of an observation: of the future, current, over.
Phase(verdict) == CASE verdict = Rejected -> 1 [] verdict = "STALE" -> 3 [] OTHER -> 2

\* An observation only ages.  Asked again while the clock goes on, a contract may turn
\* a rejection of the future into a current verdict and that into STALE, never back:
\* what was refused as old is not released later.  And no contract releases what the
\* other calls over at the same moment.
Ages ==
  /\ coverage # Unasked /\ evidence.state = "OBSERVED" => Phase(coverage') >= Phase(coverage)
  /\ read # Unasked => Phase(read') >= Phase(read)
  /\ read' # read /\ read' = "ALLOW_READ" /\ evidence.state = "OBSERVED" => Coverage # "STALE"

EvidenceOnlyAges == [][Ages]_vars

\* Why: what was answered was so at an earlier time, and what a contract answers now is
\* never younger than that.
AgesInv ==
  /\ now \in Nat
  /\ evidence.observedAt \in Nat /\ evidence.freshness \in Nat
  /\ evidence.state \in States
  /\ coverage # Unasked /\ evidence.state = "OBSERVED" => Phase(Coverage) >= Phase(coverage)
  /\ read # Unasked => Phase(ReadDecision) >= Phase(read)

=============================================================================
