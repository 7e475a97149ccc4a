------------------------- MODULE InferenceInvocation -------------------------
(***************************************************************************)
(* vertical_intelligence_invoke: a plan is built and registered, the       *)
(* evidence is checked, a model provider is asked, the evidence is checked *)
(* again, and only then is the provider's text released.                   *)
(*                                                                         *)
(* An invocation is a caller of the replay store that goes through its     *)
(* requests in a fixed order: each action below conjoins the store's step  *)
(* for the invocation with the progress of its call.  Between any two of   *)
(* them other requests commit, the clock moves and the process may stop.   *)
(***************************************************************************)
EXTENDS ReplayStore

CONSTANT Invokers  \* the callers that are invocations

ASSUME InvokersAssumption == Invokers \subseteq Callers

VARIABLE calls  \* for each invocation, how far its call is

ivars == <<rows, withdrawn, assessments, clock, deployed, jobs, disturbed, calls>>

Stages == {"plan", "register", "fresh", "status", "sample", "look", "dispatch",
           "provider", "recheck", "resample", "relook", "compare"}
Ends == {"none", "refused", "released"}

NoCall == [stage |-> "none"]

\* at: the time read for a resolution; found: what the ledger answered to it.
\* History: revoked and reverted, what was invalidated as the call began and as
\* the provider answered; intact and fresh, whether the evidence was still the
\* ledger's selection, and fresh, as its text was sent.
Named == [stage : (Stages \ {"plan", "register"}) \cup {"released"}, id : Id, at : Nat,
          found : SUBSET Row, revoked : SUBSET Id, reverted : SUBSET Id,
          intact : BOOLEAN, fresh : BOOLEAN]
Call == [stage : Ends] \cup [stage : {"plan", "register"}, revoked : SUBSET Id] \cup Named

CallTypeOK == calls \in [Invokers -> Call]

InvokeInit == Init /\ calls = [i \in Invokers |-> NoCall]

Advance(i, call) == calls' = [calls EXCEPT ![i] = call]
Goto(i, stage) == Advance(i, [calls[i] EXCEPT !.stage = stage])

Refuse(i) == Advance(i, [stage |-> "refused"])

-----------------------------------------------------------------------------
\* _resolve_plan_evidence and build_intelligence_plan
Begin(i) ==
  /\ calls[i].stage \in Ends
  /\ BeginResolve(i)
  /\ jobs'[i].kind = "intelligence-plan"
  /\ Advance(i, [stage |-> "plan", revoked |-> Latched])

Plan(i) ==
  /\ calls[i].stage = "plan"
  /\ Decide(i)
  /\ IF jobs'[i].op = "register" THEN Goto(i, "register") ELSE Refuse(i)

RegisterPlan(i) ==
  /\ calls[i].stage = "register"
  /\ Register(i)
  /\ IF jobs'[i].verdict = "CURRENT"
     THEN Advance(i, [stage |-> "fresh", id |-> jobs'[i].id, at |-> 0, found |-> {},
                      revoked |-> calls[i].revoked, reverted |-> {},
                      intact |-> TRUE, fresh |-> TRUE])
     ELSE Refuse(i)

\* _invoke_provider, before the dispatch
CheckFresh(i) ==
  /\ calls[i].stage = "fresh"
  /\ \/ /\ FreshAt(calls[i].id.basis, clock)
        /\ BeginStatus(i)
        /\ jobs'[i].id = calls[i].id
        /\ Goto(i, "status")
     \/ /\ ~FreshAt(calls[i].id.basis, clock)
        /\ Refuse(i)
        /\ UNCHANGED vars

\* Mutant: the state of the status read is not looked at.
RequireAny(i, stage, next) ==
  /\ calls[i].stage = stage
  /\ Status(i)
  /\ Goto(i, next)

\* require_current_assessment, before the dispatch or after the answer
RequireCurrent(i, stage, next) ==
  /\ calls[i].stage = stage
  /\ Status(i)
  /\ IF jobs'[i].verdict = "CURRENT" THEN Goto(i, next) ELSE Refuse(i)

CheckStatus(i) == RequireCurrent(i, "status", "sample")

\* _resolve_plan_evidence reads the time, then the ledger; what it found is
\* compared later, and the ledger may change between any two of the three.
Sample(i, stage, next) ==
  /\ calls[i].stage = stage
  /\ Advance(i, [calls[i] EXCEPT !.stage = next, !.at = clock])
  /\ UNCHANGED vars

SampleBefore(i) == Sample(i, "sample", "look")

\* A store that cannot be read gives an empty snapshot.
Look(i, stage, next) ==
  /\ calls[i].stage = stage
  /\ \E found \in {Resolve(rows, withdrawn, deployed,
                            {dep.payload : dep \in calls[i].id.basis}, calls[i].at), {}} :
       Advance(i, [calls[i] EXCEPT !.stage = next, !.found = found])
  /\ UNCHANGED vars

LookBefore(i) == Look(i, "look", "dispatch")

SameSnapshot(call) == call.found = call.id.basis

\* The text goes out on what was found, whatever the ledger holds by now.
Dispatch(i) ==
  /\ calls[i].stage = "dispatch"
  /\ IF SameSnapshot(calls[i])
     THEN Advance(i, [calls[i] EXCEPT !.stage = "provider", !.found = {},
                        !.intact = Intact(rows, withdrawn, calls[i].id.basis),
                        !.fresh = FreshAt(calls[i].id.basis, clock)])
     ELSE Refuse(i)
  /\ UNCHANGED vars

\* The provider answers, or the call ends with a transport error or the
\* deadline of asyncio.timeout.
Answer(i) ==
  /\ calls[i].stage = "provider"
  /\ BeginStatus(i)
  /\ jobs'[i].id = calls[i].id
  /\ Advance(i, [calls[i] EXCEPT !.stage = "recheck", !.reverted = Latched])

ProviderFails(i) ==
  /\ calls[i].stage = "provider"
  /\ Refuse(i)
  /\ UNCHANGED vars

CheckStatusAgain(i) == RequireCurrent(i, "recheck", "resample")

SampleAfter(i) == Sample(i, "resample", "relook")

LookAfter(i) == Look(i, "relook", "compare")

\* Mutant: evidence that expired meanwhile leaves the call without an end.
CompareFresh(i) ==
  /\ calls[i].stage = "compare"
  /\ FreshAt(calls[i].id.basis, clock)
  /\ IF SameSnapshot(calls[i]) THEN Goto(i, "released") ELSE Refuse(i)
  /\ UNCHANGED vars

\* The snapshots are compared and the clock is read once more; the answer
\* itself may be unusable.
Compare(i) ==
  /\ calls[i].stage = "compare"
  /\ \/ SameSnapshot(calls[i]) /\ FreshAt(calls[i].id.basis, clock) /\ Goto(i, "released")
     \/ Refuse(i)
  /\ UNCHANGED vars

\* The store refuses or fails: 503, and the call ends.
StoreFails(i) ==
  /\ calls[i].stage \in {"plan", "register", "status", "recheck"}
  /\ Fail(i)
  /\ Refuse(i)

InvokeStep(i) ==
  \/ Plan(i) \/ RegisterPlan(i) \/ CheckFresh(i) \/ CheckStatus(i)
  \/ SampleBefore(i) \/ LookBefore(i) \/ Dispatch(i) \/ Answer(i) \/ ProviderFails(i)
  \/ CheckStatusAgain(i) \/ SampleAfter(i) \/ LookAfter(i) \/ Compare(i)
  \/ StoreFails(i)

Others ==
  /\ (\E c \in Callers \ Invokers : Request(c)) \/ Tick
  /\ UNCHANGED calls

RestartCalls == Restart /\ calls' = [i \in Invokers |-> NoCall]

InvokeNext ==
  \/ \E i \in Invokers : Begin(i) \/ InvokeStep(i)
  \/ Others
  \/ RestartCalls

InvokeSpec == InvokeInit /\ [][InvokeNext]_ivars

\* A step of a call needs nothing from other requests: a transaction waits for
\* its lock at most SQLite's busy timeout, the provider at most the deadline.
FairInvokeSpec == InvokeSpec /\ \A i \in Invokers : WF_ivars(InvokeStep(i))

-----------------------------------------------------------------------------
(* Properties *)

\* A plan that was already invalidated when a call began is never sent to the
\* provider by that call, though every call of the same plan has the same
\* assessment identifier and may register it again.
RevokedIsNeverSent ==
  \A i \in Invokers :
    calls[i].stage \in {"provider", "recheck", "resample", "relook", "compare", "released"}
      => calls[i].id \notin calls[i].revoked

\* Whatever invalidated the assessment before the provider answered withholds
\* the output, also when the evidence was restored since (CORRECTION_REPLAY.md).
CorrectionWithholdsOutput ==
  \A i \in Invokers :
    calls[i].stage = "released" => calls[i].id \notin calls[i].reverted

\* Another request may change the evidence, or time may pass, between the read
\* of the ledger and the send, and it may have been changed back by the answer:
\* text that was sent on evidence the ledger no longer selected, or that was no
\* longer fresh if the clock never goes back, is never released.
StaleSendIsWithheld ==
  \A i \in Invokers :
    calls[i].stage = "released" =>
      calls[i].intact /\ (ClockSteps \subseteq Nat => calls[i].fresh)

\* Every call ends: it is released, refused, or lost with its process.
CallsEnd ==
  \A i \in Invokers : calls[i].stage \in Stages ~> calls[i].stage \in Ends

=============================================================================
