------------------------------ MODULE SpaceProbes ------------------------------
(***************************************************************************)
(* The tools that ask the published Space what it serves:                  *)
(*   live        probe_live_verticals.py                                   *)
(*   khipu       probe_public_khipu.py                                     *)
(*   identity    verify_runtime_identity.py                                *)
(*   visibility  ensure_public_space_visibility.py                         *)
(*   operator    szl_frontier_payload.py                                   *)
(* Each sends its requests over minutes, in a session of its own, and      *)
(* judges the answers as those of one Space, which meanwhile may be        *)
(* deployed again, restarted, stopped or hidden.  They do not meet one     *)
(* another, so that a behaviour follows one of them.                       *)
(***************************************************************************)
EXTENDS Naturals, Sequences, FiniteSets, SequencesExt

CONSTANTS
  Verticals,    \* as a sequence: the verticals whose connectors are probed
  Revisions,    \* the revisions that may be deployed
  Expected,     \* the revision a tool was told to expect
  Attempts,     \* attempts of one request, of the tools that retry
  MaxChanges    \* bound on what happens to the Space during a probe

ProbesAssumption ==
  /\ Len(Verticals) > 0
  /\ Expected \in Revisions
  /\ Attempts \in Nat \ {0} /\ MaxChanges \in Nat

VARIABLES
  space,  \* revision, deployments so far, up, private, what the session observed
  probe,  \* the tool's progress
  changes

vars == <<space, probe, changes>>

Clients == {"live", "khipu", "identity", "visibility", "operator"}

Init ==
  /\ space \in [revision : Revisions, deploys : {0}, up : BOOLEAN, private : BOOLEAN, seen : {{}}]
  /\ \E c \in Clients :
       probe = [client |-> c, at |-> 1, tries |-> 0, failed |-> FALSE, state |-> "RUNNING",
                log |-> <<>>, attempt |-> 1, invoked |-> 0, private |-> TRUE]
  /\ changes = 0

\* A request that was answered well: its place in the list, the attempt, and the Space then.
Entry ==
  [at : Nat, attempt : {1, 2}, private : BOOLEAN, revision : Revisions, deploys : Nat]

TypeOK ==
  /\ space \in [revision : Revisions, deploys : Nat, up : BOOLEAN, private : BOOLEAN, seen : {space.seen}]
  /\ probe \in [client : Clients, at : Nat, tries : Nat, failed : BOOLEAN,
               state : {"RUNNING", "PASS", "FAIL", "RAISED"}, log : Seq(Entry), attempt : {1, 2},
               invoked : Nat, private : BOOLEAN]

-----------------------------------------------------------------------------
(* The Space *)

Changes(new) ==
  /\ probe.state = "RUNNING"
  /\ changes < MaxChanges
  /\ changes' = changes + 1
  /\ space' = new
  /\ UNCHANGED probe

\* What a session observed is lost with the container, unless its store is durable.
Deploy(revision) ==
  /\ revision # space.revision
  /\ \E seen \in {space.seen, {}} :
       Changes([space EXCEPT !.revision = revision, !.deploys = @ + 1, !.up = TRUE, !.seen = seen])

Restart == \E seen \in {space.seen, {}} : Changes([space EXCEPT !.up = TRUE, !.seen = seen])

Stop == space.up /\ Changes([space EXCEPT !.up = FALSE])

SetPrivate == Changes([space EXCEPT !.private = ~@])

-----------------------------------------------------------------------------
(* The requests of each tool *)

Refs(attempt) == {<<attempt, 1>>, <<attempt, 2>>}

Each(kind) == [i \in 1..Len(Verticals) |-> <<kind, Verticals[i]>>]

\* The fetches, the readiness of each vertical, the page and the contract of each,
\* then the readiness and the build of the whole.
LiveProgram ==
  Each("fetch") \o Each("ready")
    \o FlattenSeq([i \in 1..Len(Verticals) |-> <<<<"page", Verticals[i]>>, <<"contract", Verticals[i]>>>>])
    \o <<<<"root", 0>>, <<"build", 0>>>>

KhipuProgram(attempt) ==
  <<<<"identity", 0>>, <<"fetch", <<attempt, 1>>>>, <<"fetch", <<attempt, 2>>>>,
    <<"plan", attempt>>, <<"invoke", attempt>>, <<"isolation", attempt>>>>

IdentityProgram == [i \in 1..4 |-> <<"document", i>>]

\* The Space is asked through the Hub, set public, asked again, and then probed.
VisibilityProgram == <<<<"measure", 0>>, <<"update", 0>>, <<"measure", 0>>, <<"healthz", 0>>>>

\* Three documents of the Space, in any order; the other Spaces are not this one.
OperatorProgram == [i \in 1..3 |-> <<"document", i>>]

Program(p) ==
  CASE p.client = "live" -> LiveProgram
    [] p.client = "khipu" -> KhipuProgram(p.attempt)
    [] p.client = "identity" -> IdentityProgram
    [] p.client = "visibility" -> VisibilityProgram
    [] p.client = "operator" -> OperatorProgram

Request == Program(probe)[probe.at]

-----------------------------------------------------------------------------
(* What the Space answers: well, refused (4xx), malformed, wrong in content, or  *)
(* with a fault (5xx, no answer); a fault may hide that the request was done.   *)

Served == space.up /\ ~space.private

Kept(request) ==
  IF request[1] = "fetch" THEN space.seen \cup {request[2]} ELSE space.seen

\* Whether the Space can answer as the tool wants it to.  The session of the last
\* plan is another one, in which nothing was observed: it has to abstain.
Holds(request) ==
  CASE request[1] = "ready" -> request[2] \in space.seen
    [] request[1] \in {"plan", "invoke"} -> Refs(request[2]) \subseteq space.seen
    [] request[1] = "identity" -> space.revision = Expected
    [] OTHER -> TRUE

Answer(is, seen) == [is |-> is, seen |-> seen]

Answers(request) ==
  {Answer("fault", space.seen)}
    \cup (IF space.private THEN {Answer("refused", space.seen)} ELSE {})
    \cup (IF Served THEN {Answer(is, space.seen) : is \in {"refused", "malformed", "wrong"}}
                           \cup {Answer("fault", Kept(request))} ELSE {})
    \cup (IF Served /\ Holds(request) THEN {Answer("good", Kept(request))} ELSE {})
    \cup (IF Served /\ request[1] = "invoke" THEN {Answer("busy", space.seen)} ELSE {})

-----------------------------------------------------------------------------
(* What a tool does with an answer *)

Ended(p, ok) ==
  [p EXCEPT !.state = IF ok THEN "PASS" ELSE "FAIL", !.tries = 0]

\* The next request, or the report.
Onward(p) ==
  IF p.at = Len(Program(p)) THEN Ended(p, ~p.failed)
  ELSE [p EXCEPT !.at = @ + 1, !.tries = 0]

Noted(p) == [p EXCEPT !.failed = TRUE]

\* What no handler of a tool catches ends it without a report.
Raised(p) == [p EXCEPT !.state = "RAISED", !.tries = 0]

Logged(p) ==
  [p EXCEPT !.log = Append(@, [at |-> p.at, attempt |-> p.attempt, private |-> space.private,
                               revision |-> space.revision, deploys |-> space.deploys])]

Retried(p) == [p EXCEPT !.tries = @ + 1]

\* Mutant: a request that was given up is left out of the report.
GivenUpSilently(p) == Onward(p)

\* _capture_probe_failure: the remaining requests are not made.
GivenUp(p) == Ended(p, FALSE)

\* Mutant: attempts are not counted.
RetriedForever(p, otherwise) == p

RetriedOr(p, otherwise) == IF p.tries + 1 < Attempts THEN Retried(p) ELSE otherwise

\* request_with_retry and main: what should be a JSON object and is none ends the
\* probe, what is a wrong answer is noted.
LiveStep(p, answer) ==
  CASE answer.is = "good" -> Onward(Logged(p))
    [] answer.is \in {"wrong", "refused"} -> Onward(Noted(p))
    [] answer.is = "malformed" ->
         IF Request[1] = "page" THEN Onward(Noted(p)) ELSE Ended(p, FALSE)
    [] OTHER -> RetriedOr(p, GivenUp(p))

\* Mutant: the model is asked again with the plan and the evidence that are there.
InvokeAgain(p) == p

\* After 45 seconds the evidence is observed again.
StartAgain(p) == [p EXCEPT !.at = 2, !.attempt = 2, !.log = SubSeq(@, 1, 1)]

Asked(p) == [p EXCEPT !.invoked = @ + (IF Request[1] = "invoke" THEN 1 ELSE 0)]

KhipuStep(p, answer) ==
  CASE answer.is = "good" -> Onward(Logged(Asked(p)))
    [] answer.is = "busy" /\ p.attempt = 1 -> StartAgain(Asked(p))
    [] OTHER -> Ended(Asked(p), FALSE)

\* Mutant: a document is compared with /healthz only.
AgreesWithFirst(p) == p.log = <<>> \/ p.log[1].revision = space.revision

\* validate_identity_documents: each document names the expected revision.
AgreesWithExpected(p) == space.revision = Expected

\* _get_json tries again whatever went wrong; a document that is missing is noted.
IdentityStep(p, answer) ==
  CASE answer.is = "good" -> Onward(IF AgreesWithExpected(p) THEN Logged(p) ELSE Noted(p))
    [] answer.is = "wrong" -> Onward(Noted(p))
    [] OTHER -> RetriedOr(p, Onward(Noted(p)))

\* One attempt of a request.
Ask ==
  /\ probe.state = "RUNNING"
  /\ probe.client \in {"live", "khipu", "identity"}
  /\ \E answer \in Answers(Request) :
       /\ space' = [space EXCEPT !.seen = answer.seen]
       /\ probe' = CASE probe.client = "live" -> LiveStep(probe, answer)
                     [] probe.client = "khipu" -> KhipuStep(probe, answer)
                     [] probe.client = "identity" -> IdentityStep(probe, answer)
  /\ UNCHANGED changes

\* szl_frontier_payload.py: the pool asks for every target once, in no order, and
\* takes any JSON object.
AskTarget ==
  /\ probe.state = "RUNNING"
  /\ probe.client = "operator"
  /\ \E i \in DOMAIN OperatorProgram \ {probe.log[k].at : k \in DOMAIN probe.log} :
       \E answer \in Answers(OperatorProgram[i]) :
         LET asked == Logged([probe EXCEPT !.at = i])
             all == [asked EXCEPT !.failed = @ \/ answer.is \notin {"good", "wrong"}]
         IN probe' = IF Len(all.log) = Len(OperatorProgram) THEN Ended(all, ~all.failed) ELSE all
  /\ UNCHANGED <<space, changes>>

-----------------------------------------------------------------------------
(* ensure_public_space_visibility.py *)

Measured(p, private) == [p EXCEPT !.private = private]

\* ensure_public: the Hub is asked, and a private Space is set public and asked for
\* again.
EnsurePublic ==
  /\ probe.state = "RUNNING"
  /\ probe.client = "visibility"
  /\ \/ /\ Request[1] = "measure"
        /\ LET measured == Measured(probe, space.private)
           IN probe' = IF probe.at = 1 /\ ~space.private
                       THEN [measured EXCEPT !.at = 4] ELSE Onward(measured)
        /\ UNCHANGED space
     \/ /\ Request[1] = "update"
        /\ space' = [space EXCEPT !.private = FALSE]
        /\ probe' = Onward(probe)
  /\ UNCHANGED changes

\* probe_unauthenticated and build_receipt: ready is what was measured public and
\* answered 200 to a request without credentials.
ProbeUnauthenticated ==
  /\ probe.state = "RUNNING"
  /\ probe.client = "visibility"
  /\ Request[1] = "healthz"
  /\ \E answer \in Answers(Request) :
       LET ok == answer.is \in {"good", "wrong", "malformed"} /\ ~probe.private
       IN probe' = Ended(IF ok THEN Logged(probe) ELSE probe, ok)
  /\ UNCHANGED <<space, changes>>

-----------------------------------------------------------------------------

\* A JSON answer that is a list, null or of members of another type (khipu), an answer
\* that is not HTTP (identity), a call of the Hub that fails or the body of an error that
\* breaks off (visibility).
Raise ==
  /\ probe.state = "RUNNING"
  /\ \/ probe.client = "khipu" /\ Served
     \/ probe.client \in {"identity", "visibility"}
  /\ probe' = Raised(Asked(probe))
  /\ UNCHANGED <<space, changes>>

ProbeStep == Ask \/ AskTarget \/ EnsurePublic \/ ProbeUnauthenticated \/ Raise

Next ==
  \/ \E revision \in Revisions : Deploy(revision)
  \/ Restart \/ Stop \/ SetPrivate
  \/ ProbeStep

\* A tool goes on: each of its requests has a timeout.
Spec == Init /\ [][Next]_vars /\ WF_vars(ProbeStep)

-----------------------------------------------------------------------------
(* Properties *)

Passed(client) == probe.client = client /\ probe.state = "PASS"

LogIs(positions) == [i \in 1..Len(probe.log) |-> probe.log[i].at] = positions

\* A probe that passed got a good answer to every request of its list, in order
\* and none left out, whatever was retried, and the Space was not private then.
PassedIsWhole ==
  /\ Passed("live") => LogIs([i \in 1..Len(LiveProgram) |-> i])
  /\ Passed("operator") => {probe.log[i].at : i \in DOMAIN probe.log} = DOMAIN OperatorProgram
  /\ Passed("visibility") => LogIs(<<4>>)
  /\ probe.state = "PASS" => \A i \in DOMAIN probe.log : ~probe.log[i].private

\* VERIFIED_LIVE is said of one chain: the observations, the plan and the answer
\* of the last attempt, after the revision was found to be the expected one; the
\* model was asked twice at most.
VerifiedIsOneAttempt ==
  /\ Passed("khipu") =>
       /\ LogIs(<<1, 2, 3, 4, 5, 6>>)
       /\ probe.log[1].revision = Expected
       /\ \A i \in 2..6 : probe.log[i].attempt = probe.attempt
  /\ probe.client = "khipu" => probe.invoked <= probe.attempt

\* The four documents are not bracketed: they all named the expected revision, and
\* a deployment between two of them was followed by one that took it back.
IdentityHeldThroughout ==
  Passed("identity") =>
    /\ LogIs(<<1, 2, 3, 4>>)
    /\ \A i \in 1..4 : probe.log[i].revision = Expected
    /\ \A i, j \in 1..4 : probe.log[j].deploys # probe.log[i].deploys + 1

\* A probe that passed is a proof of what it says: every request answered, in order,
\* by one attempt and, for the identity, by one revision.
ProbesAreWhole == PassedIsWhole /\ VerifiedIsOneAttempt /\ IdentityHeldThroughout

\* Why ProbesAreWhole.  An entry of the log tells a deployment and its revision, and a
\* deployment is of another revision than the one before.
HistoryInv ==
  \A i \in 1..Len(probe.log) :
    LET e == probe.log[i] IN
    /\ e.deploys <= space.deploys
    /\ e.deploys = space.deploys => e.revision = space.revision
    /\ e.deploys + 1 = space.deploys => e.revision # space.revision
    /\ \A j \in 1..Len(probe.log) :
         probe.log[j].deploys = e.deploys + 1 => probe.log[j].revision # e.revision

Sequential == {"live", "khipu", "identity"}

OnTrack == probe.state \in {"RUNNING", "PASS"} /\ ~probe.failed

\* A probe that may still pass has logged every request before the one it is at.
LogInv ==
  /\ probe.state = "PASS" => ~probe.failed
  /\ OnTrack =>
      /\ \A i \in 1..Len(probe.log) : ~probe.log[i].private
      /\ probe.client \in Sequential =>
           /\ Len(probe.log) = IF probe.state = "PASS" THEN Len(Program(probe)) ELSE probe.at - 1
           /\ \A i \in 1..Len(probe.log) : probe.log[i].at = i
      /\ probe.client = "khipu" =>
           \A i \in 1..Len(probe.log) :
             IF i = 1 THEN probe.log[i].revision = Expected ELSE probe.log[i].attempt = probe.attempt
      /\ probe.client = "identity" => \A i \in 1..Len(probe.log) : probe.log[i].revision = Expected
      /\ probe.client = "operator" =>
           /\ \A i \in 1..Len(probe.log) : probe.log[i].at \in 1..3
           /\ \A i, j \in 1..Len(probe.log) : probe.log[i].at = probe.log[j].at => i = j
           /\ probe.state = "PASS" => Len(probe.log) = 3
      /\ probe.client = "visibility" =>
           IF probe.state = "PASS" THEN Len(probe.log) = 1 /\ probe.log[1].at = 4 ELSE probe.log = <<>>

\* The model is asked once in each attempt, at the fifth request.
CallsInv ==
  /\ probe.client \in {"khipu", "visibility"} /\ probe.state = "RUNNING" =>
       probe.at \in 1..Len(Program(probe))
  /\ probe.client \in {"khipu", "visibility"} => ~probe.failed
  /\ probe.client = "khipu" =>
       /\ probe.invoked <= probe.attempt
       /\ probe.state = "RUNNING" /\ probe.at <= 5 => probe.invoked < probe.attempt

ProbesInv == TypeOK /\ HistoryInv /\ LogInv /\ CallsInv

\* A tool has written its report, or raised where it may: the probe of the verticals and
\* the operator's payload report whatever happens.
Over ==
  \/ probe.state \in {"PASS", "FAIL"}
  \/ probe.state = "RAISED" /\ probe.client \notin {"live", "operator"}

\* Every probe ends.
ProbesEnd == <>Over

=============================================================================
