---------------------------- MODULE LiveAttestation ----------------------------
(***************************************************************************)
(* How a commit of main is published to the Space and judged there:        *)
(* hf-space.yml (runs of one concurrency group, which test, publish and    *)
(* attest), the revision the runtime tells of itself                       *)
(* (core._revision_observation) and tools/attest_live_intelligence.py.     *)
(*                                                                         *)
(* main only grows, so its commits are numbered and one is an ancestor of  *)
(* another exactly if its number is not greater.  The Hub, the Space and   *)
(* the reusable publisher are outside the repository: they are modelled    *)
(* from the inputs the workflow gives them.                                *)
(***************************************************************************)
EXTENDS Naturals, Sequences, FiniteSets

CONSTANTS
  MaxCommit,   \* bound on the commits of main
  Rooms,       \* number of documents an attestation captures
  Timeout      \* rounds of polling an attestation has time for

ASSUME PublicationAssumption ==
  /\ MaxCommit \in Nat \ {0}
  /\ Rooms \in Nat \ {0}
  /\ Timeout \in Nat \ {0}

None == 0        \* no commit; a variable or a file that is not set
Unavailable == 0 \* what build-info says of a revision that is not observed

Commits == 1..MaxCommit

\* Who attests: the run that has just published, inside its slot, or a workflow
\* dispatched by hand, which holds no slot.
Attesters == {"slot", "manual"}

VARIABLES
  tip,      \* the newest commit of main
  pending,  \* the commit of the run that waits for the slot, or None
  run,      \* the run that holds the slot
  space,    \* the Hub repository, the Space variable, the image and the container
  att       \* the attestations

vars == <<tip, pending, run, space, att>>

Down == [up |-> FALSE, file |-> None, env |-> None]

Running(file, env) == [up |-> TRUE, file |-> file, env |-> env]

NoReport == [phase |-> "idle", expected |-> None, view |-> None, observed |-> None,
             unproven |-> {}, elapsed |-> 0, rooms |-> <<>>, state |-> "UNKNOWN",
             supersededBy |-> None]

Log ==
  [phase : {"idle", "await", "classify", "capture", "after", "reclassify", "done"},
   expected : {None} \cup Commits, view : {None} \cup Commits,
   observed : {Unavailable} \cup Commits,
   unproven : SUBSET ({Unavailable} \cup Commits),
   elapsed : 0..Timeout, rooms : Seq(Commits),
   state : {"UNKNOWN", "VERIFIED", "SUPERSEDED", "NOT_CONVERGED", "FAILED", "NO_REPORT"},
   supersededBy : {None} \cup Commits]

TypeOK ==
  /\ tip \in Commits
  /\ pending \in {None} \cup Commits
  /\ run \in [phase : {"none", "testing", "checked", "bound", "uploaded", "published",
                       "attesting"},
              sha : {None} \cup Commits]
  /\ space \in [head : Commits, env : {None} \cup Commits, image : Commits,
                container : [up : BOOLEAN, file : {None} \cup Commits, env : {None} \cup Commits]]
  /\ att \in [Attesters -> Log]

\* The Space runs the first commit; its variable may not have been set yet.
Init ==
  /\ tip = 1
  /\ pending = None
  /\ run = [phase |-> "none", sha |-> None]
  /\ \E env \in {None, 1} :
       space = [head |-> 1, env |-> env, image |-> 1, container |-> Running(1, env)]
  /\ att = [a \in Attesters |-> NoReport]

-----------------------------------------------------------------------------
(* The branch and the runs of its concurrency group *)

Push ==
  /\ tip < MaxCommit
  /\ tip' = tip + 1
  /\ pending' = tip'   \* a run that was pending in the group is cancelled
  /\ UNCHANGED <<run, space, att>>

\* A dispatch on main, or an earlier run that is run again with its commit.
Dispatch(sha) ==
  /\ sha <= tip
  /\ pending' = sha
  /\ UNCHANGED <<tip, run, space, att>>

StartRun ==
  /\ run.phase = "none"
  /\ pending # None
  /\ run' = [phase |-> "testing", sha |-> pending]
  /\ pending' = None
  /\ UNCHANGED <<tip, space, att>>

\* require-default-branch-tip
Deployable(sha) == sha = tip

\* The tests have passed, and this repository is the canonical writer.
Publish ==
  /\ run.phase = "testing"
  /\ Deployable(run.sha)
  /\ run' = [run EXCEPT !.phase = "checked"]
  /\ UNCHANGED <<tip, pending, space, att>>

\* The variable and the files are written one after the other, in either order.
BindVariable ==
  /\ run.phase \in {"checked", "uploaded"}
  /\ space.env # run.sha
  /\ space' = [space EXCEPT !.env = run.sha]
  /\ run' = [run EXCEPT !.phase = IF @ = "checked" THEN "bound" ELSE @]
  /\ UNCHANGED <<tip, pending, att>>

Upload ==
  /\ run.phase \in {"checked", "bound"}
  /\ space' = [space EXCEPT !.head = run.sha]
  /\ run' = [run EXCEPT !.phase = "uploaded"]
  /\ UNCHANGED <<tip, pending, att>>

\* Any step of the run before the attestation may fail and end the run.
RunFails ==
  /\ run.phase \notin {"none", "published", "attesting"}
  /\ run' = [phase |-> "none", sha |-> None]
  /\ UNCHANGED <<tip, pending, space, att>>

-----------------------------------------------------------------------------
(* The Space *)

\* The new image replaces the old one and is started.
Build ==
  /\ space.image # space.head
  /\ space' = [space EXCEPT !.image = space.head,
                            !.container = Running(space.head, space.env)]
  /\ UNCHANGED <<tip, pending, run, att>>

Stop ==
  /\ space.container.up
  /\ space' = [space EXCEPT !.container = Down]
  /\ UNCHANGED <<tip, pending, run, att>>

\* A restart reads the variable again and the image that was built last.
Boot ==
  /\ space.container # Running(space.image, space.env)
  /\ space' = [space EXCEPT !.container = Running(space.image, space.env)]
  /\ UNCHANGED <<tip, pending, run, att>>

\* _revision_observation: the bindings that are set must agree.
Revision(container) ==
  IF container.env \in {None, container.file} THEN container.file ELSE Unavailable

\* source-revision-probe-path, wait-running
Published ==
  /\ run.phase = "uploaded"
  /\ space.env = run.sha
  /\ space.container.up
  /\ Revision(space.container) = run.sha
  /\ run' = [run EXCEPT !.phase = "published"]
  /\ UNCHANGED <<tip, pending, space, att>>

-----------------------------------------------------------------------------
(* attest_live_intelligence.py *)

Goes(a, log) == att' = [att EXCEPT ![a] = log]

Attest(a, sha) ==
  /\ att[a].phase \in {"idle", "done"}
  /\ Goes(a, [NoReport EXCEPT !.phase = "await", !.expected = sha, !.view = tip])

\* The job attest-live-intelligence of the run.
AttestInSlot ==
  /\ run.phase = "published"
  /\ run' = [run EXCEPT !.phase = "attesting"]
  /\ Attest("slot", run.sha)
  /\ UNCHANGED <<tip, pending, space>>

\* intelligence-live.yml dispatched for a commit of main.
AttestByHand(sha) ==
  /\ sha <= tip
  /\ Attest("manual", sha)
  /\ UNCHANGED <<tip, pending, run, space>>

\* Mutant: the history is not asked in which direction the commits differ.
IsRelated(view, ancestor, descendant) == descendant <= view /\ ancestor <= view

\* git merge-base --is-ancestor in a checkout that knows main up to view.
IsAncestor(view, ancestor, descendant) ==
  ancestor <= descendant /\ descendant <= view

\* classify_observed, the view of main being what the fetch left.
Classify(expected, observed, view) ==
  CASE observed = expected -> "EXACT"
    [] observed # expected /\ observed \in Commits
         /\ IsAncestor(view, expected, observed) /\ IsAncestor(view, observed, view) -> "SUPERSEDED"
    [] OTHER -> "UNPROVEN"

\* The views of main a classification may end with: none is fetched for the
\* judged commit or for what is not a commit, and a fetch may fail.
Views(a) ==
  IF att[a].observed \in Commits \ {att[a].expected} THEN {att[a].view, tip} ELSE {att[a].view}

\* The report of an attestation; what only the call itself knew is gone.
Report(log, state) ==
  [log EXCEPT !.phase = "done", !.state = state, !.view = None, !.unproven = {}, !.elapsed = 0]

\* Hashes read across a redeploy belong to neither commit.
Superseded(log) ==
  [Report(log, "SUPERSEDED") EXCEPT !.supersededBy = log.observed, !.rooms = <<>>]

\* A round of await_revision that does not return: time passes, and at the
\* deadline the loop ends.
EndRound(log) ==
  {IF e = Timeout THEN Report(log, "NOT_CONVERGED")
   ELSE [log EXCEPT !.elapsed = e, !.phase = "await"] : e \in log.elapsed + 1..Timeout}

\* Mutant: a round that fails starts the deadline anew.
AnewAfterFailure(log) == {[log EXCEPT !.elapsed = 0]}

AfterFailure(log) == EndRound(log)

\* The Space is unreachable, or its answer is not what build-info promises.
PollFails(a) ==
  /\ att[a].phase = "await"
  /\ \E log \in AfterFailure(att[a]) : Goes(a, log)
  /\ UNCHANGED <<tip, pending, run, space>>

\* An answer that is not HTTP, or JSON nested too deep, is none of the errors that
\* await_revision catches, and attest does not catch them there: no receipt is written.
PollRaises(a) ==
  /\ att[a].phase = "await"
  /\ Goes(a, Report(att[a], "NO_REPORT"))
  /\ UNCHANGED <<tip, pending, run, space>>

\* observe_revision in await_revision: a revision that Git did not prove is not
\* asked of Git again.
Poll(a) ==
  LET seen == [att[a] EXCEPT !.observed = Revision(space.container)] IN
  /\ att[a].phase = "await"
  /\ space.container.up
  /\ \E log \in IF seen.observed \in seen.unproven THEN EndRound(seen)
                 ELSE {[seen EXCEPT !.phase = "classify"]} :
       Goes(a, log)
  /\ UNCHANGED <<tip, pending, run, space>>

Judge(a) ==
  /\ att[a].phase = "classify"
  /\ \E view \in Views(a) :
       LET verdict == Classify(att[a].expected, att[a].observed, view)
           judged == [att[a] EXCEPT !.view = view]
       IN \/ /\ verdict = "EXACT"
             /\ Goes(a, [att[a] EXCEPT !.phase = "capture"])
          \/ /\ verdict = "SUPERSEDED"
             /\ Goes(a, Superseded(att[a]))
          \/ /\ verdict = "UNPROVEN"
             /\ \E log \in EndRound([judged EXCEPT !.unproven = @ \cup {judged.observed}]) :
                  Goes(a, log)
  /\ UNCHANGED <<tip, pending, run, space>>

\* capture_rooms: one document after the other, from the image that runs.
Capture(a) ==
  /\ att[a].phase = "capture"
  /\ space.container.up
  /\ Goes(a, [att[a] EXCEPT !.rooms = Append(@, space.container.file),
                            !.phase = IF Len(att[a].rooms) + 1 = Rooms THEN "after" ELSE @])
  /\ UNCHANGED <<tip, pending, run, space>>

\* Mutant: the revision read before the capture is trusted.
ObservedBefore(a) == att[a].observed

\* The revision that brackets the capture.
ObservedAfter(a) == Revision(space.container)

Bracket(a) ==
  /\ att[a].phase = "after"
  /\ space.container.up
  /\ LET after == ObservedAfter(a) IN
     Goes(a, IF after = att[a].expected THEN [Report(att[a], "VERIFIED") EXCEPT !.observed = after]
             ELSE [att[a] EXCEPT !.phase = "reclassify", !.observed = after])
  /\ UNCHANGED <<tip, pending, run, space>>

\* The rooms were read across a redeploy: by a proven descendant, or it failed.
Rejudge(a) ==
  /\ att[a].phase = "reclassify"
  /\ \E view \in Views(a) :
       Goes(a, IF Classify(att[a].expected, att[a].observed, view) = "SUPERSEDED"
               THEN Superseded(att[a]) ELSE Report(att[a], "FAILED"))
  /\ UNCHANGED <<tip, pending, run, space>>

\* A contract that does not hold, or a request that fails, ends the capture.
CaptureFails(a) ==
  /\ att[a].phase \in {"capture", "after", "reclassify"}
  /\ Goes(a, Report(att[a], "FAILED"))
  /\ UNCHANGED <<tip, pending, run, space>>

\* Mutant: the slot is given up while the attestation still runs.
ReleasedEarly == run.phase = "attesting"

\* The run holds its slot until the attestation it calls has ended.
Released == run.phase = "attesting" /\ att["slot"].phase = "done"

RunEnds ==
  /\ Released
  /\ run' = [phase |-> "none", sha |-> None]
  /\ UNCHANGED <<tip, pending, space, att>>

AttesterStep(a) ==
  \/ PollFails(a) \/ PollRaises(a) \/ Poll(a) \/ Judge(a)
  \/ Capture(a) \/ Bracket(a) \/ Rejudge(a) \/ CaptureFails(a)

Next ==
  \/ Push
  \/ \E sha \in Commits : Dispatch(sha) \/ AttestByHand(sha)
  \/ StartRun \/ Publish \/ BindVariable \/ Upload \/ RunFails
  \/ Build \/ Stop \/ Boot \/ Published
  \/ AttestInSlot \/ RunEnds
  \/ \E a \in Attesters : AttesterStep(a)

\* An attestation is a process that goes on: every request it makes ends in an
\* answer or in a timeout.
Spec == Init /\ [][Next]_vars /\ \A a \in Attesters : WF_vars(AttesterStep(a))

-----------------------------------------------------------------------------
(* Properties *)

\* A commit is VERIFIED only if every document came from its own image, though
\* the Space may have been redeployed and restarted between any two requests.
VerifiedIsWhole ==
  \A a \in Attesters :
    att[a].state = "VERIFIED" =>
      Len(att[a].rooms) = Rooms /\ \A i \in 1..Rooms : att[a].rooms[i] = att[a].expected

\* A commit is SUPERSEDED only by a later one of main, and what superseded it is
\* never replaced by it again.
SupersededForGood ==
  \A a \in Attesters :
    att[a].state = "SUPERSEDED" =>
      /\ att[a].expected < att[a].supersededBy /\ att[a].supersededBy <= tip
      /\ space.image >= att[a].supersededBy
      /\ space.container.up => space.container.file >= att[a].supersededBy

\* The attestation of a run that published judges what this run published: no
\* other deployment of the repository comes between.
SlotJudgesItsOwn ==
  /\ att["slot"].phase \notin {"idle", "done"} => space.image = att["slot"].expected
  /\ att["slot"].state # "SUPERSEDED"

\* Every attestation ends, and with a report once the judged commit was served.
AttestationsEnd ==
  \A a \in Attesters :
    /\ att[a].phase = "await" ~> att[a].phase = "done"
    /\ att[a].phase = "capture" ~> att[a].phase = "done" /\ att[a].state # "NO_REPORT"

=============================================================================
