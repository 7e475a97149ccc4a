---------------------------- MODULE PublicationProofs ----------------------------
(***************************************************************************)
(* Theorems about what follows a publication.                              *)
(*                                                                         *)
(* LiveAttestation, for every number of commits, documents and rounds: the *)
(* image never goes back, since a run publishes only a commit that was the *)
(* tip when its tests had passed, and the slot keeps every other run away  *)
(* until its attestation has ended.  What an attestation saw is therefore  *)
(* never newer than the image, and what it captures lies between the       *)
(* commit it judges and the image.                                         *)
(*                                                                         *)
(* SpaceProbes, for every number of verticals, attempts and changes of the *)
(* Space: a probe that may still pass has logged each request before the   *)
(* one it is at, and the log tells apart two deployments that follow each  *)
(* other.                                                                  *)
(***************************************************************************)
EXTENDS Publication, SequenceTheorems, TLAPS

Active(log) == log.phase \notin {"idle", "done"}

\* What holds of an attestation while main is at t and the image at i.
LogInv(log, t, i) ==
  /\ log \in Log
  /\ Active(log) => /\ log.state = "UNKNOWN"
                    /\ log.expected \in 1..t
                    /\ log.view \in 1..t
  /\ log.phase \in {"await", "classify"} => log.rooms = <<>>
  /\ log.phase \in {"classify", "reclassify"} => log.observed <= i
  /\ log.phase \in {"capture", "after"} =>
       /\ log.expected <= i
       /\ \A k \in 1..Len(log.rooms) : log.expected <= log.rooms[k] /\ log.rooms[k] <= i
  /\ log.phase = "capture" => Len(log.rooms) < Rooms
  /\ log.phase = "after" => Len(log.rooms) = Rooms
  /\ log.state = "VERIFIED" =>
       Len(log.rooms) = Rooms /\ \A k \in 1..Rooms : log.rooms[k] = log.expected
  /\ log.state = "SUPERSEDED" =>
       /\ log.expected < log.supersededBy
       /\ log.supersededBy <= t /\ log.supersededBy <= i

\* What holds of the branch, the run and the Space.
DeployInv ==
  /\ space.image <= space.head /\ space.head <= tip
  /\ space.container.up => space.container.file = space.image
  /\ pending <= tip
  /\ run.phase # "none" => run.sha \in 1..tip
  /\ run.phase \in {"checked", "bound", "uploaded", "published", "attesting"} =>
       space.head <= run.sha
  /\ run.phase \in {"uploaded", "published", "attesting"} => space.head = run.sha
  /\ run.phase \in {"published", "attesting"} => space.image = run.sha

\* The attestation of the slot belongs to the run that holds it.
SlotInv ==
  /\ Active(att["slot"]) => run.phase = "attesting" /\ run.sha = att["slot"].expected
  /\ att["slot"].phase \in {"classify", "reclassify"} =>
       att["slot"].observed \in {Unavailable, att["slot"].expected}
  /\ att["slot"].state # "SUPERSEDED"

IInv ==
  /\ TypeOK
  /\ DeployInv
  /\ \A a \in Attesters : LogInv(att[a], tip, space.image)
  /\ SlotInv

-----------------------------------------------------------------------------
(* Attestations *)

\* A report as it was begun.
LEMMA NewLog ==
  ASSUME NEW sha \in Commits, NEW t \in Commits, NEW i \in Commits, sha <= t
  PROVE  LogInv([NoReport EXCEPT !.phase = "await", !.expected = sha, !.view = t], t, i)
<1>. DEFINE log == [NoReport EXCEPT !.phase = "await", !.expected = sha, !.view = t]
<1>1. sha \in 1..t /\ t \in 1..t /\ 0 \in 0..Timeout
  BY PublicationAssumption DEF Commits
<1>2. NoReport \in Log
  BY <1>1 DEF NoReport, Log, None, Unavailable
<1>3. log \in Log
  BY <1>1, <1>2 DEF Log
<1>4. NoReport.rooms = <<>> /\ NoReport.state = "UNKNOWN"
  BY DEF NoReport
<1>5. /\ log.phase = "await" /\ log.state = "UNKNOWN" /\ log.rooms = <<>>
      /\ log.expected = sha /\ log.view = t
  BY <1>2, <1>4 DEF Log
<1>. HIDE DEF log
<1>6. LogInv(log, t, i)
  BY <1>1, <1>3, <1>5 DEF LogInv, Active
<1>. QED BY <1>6 DEF log

\* The numbers of an attestation are numbers.
LEMMA LogNumbers ==
  ASSUME NEW log \in Log
  PROVE  /\ log.expected \in Nat /\ log.view \in Nat /\ log.observed \in Nat
         /\ log.supersededBy \in Nat /\ log.elapsed \in Nat
         /\ log.rooms \in Seq(Commits) /\ Len(log.rooms) \in Nat
         /\ \A k \in 1..Len(log.rooms) : log.rooms[k] \in Nat
<1>1. /\ log.expected \in {None} \cup Commits /\ log.view \in {None} \cup Commits
      /\ log.observed \in {Unavailable} \cup Commits /\ log.supersededBy \in {None} \cup Commits
      /\ log.elapsed \in 0..Timeout
      /\ log.rooms \in Seq(Commits)
  BY DEF Log
<1>2. Commits \subseteq Nat
  BY DEF Commits
<1>3. \A k \in 1..Len(log.rooms) : log.rooms[k] \in Commits
  BY <1>1
<1>4. /\ log.expected \in Nat /\ log.view \in Nat /\ log.observed \in Nat
      /\ log.supersededBy \in Nat
  BY <1>1, PublicationAssumption DEF None, Unavailable, Commits
<1>5. log.elapsed \in Nat
  BY <1>1, PublicationAssumption
<1>6. Len(log.rooms) \in Nat
  BY <1>1
<1>7. \A k \in 1..Len(log.rooms) : log.rooms[k] \in Nat
  BY <1>2, <1>3
<1>. QED BY <1>1, <1>4, <1>5, <1>6, <1>7

\* A report has the type of an attestation.
LEMMA ReportType ==
  ASSUME NEW log \in Log, NEW state \in {"VERIFIED", "SUPERSEDED", "NOT_CONVERGED", "FAILED", "NO_REPORT"}
  PROVE  /\ Report(log, state) \in Log
         /\ Report(log, state).phase = "done" /\ Report(log, state).state = state
         /\ Report(log, state).expected = log.expected
         /\ Report(log, state).rooms = log.rooms
<1>. DEFINE Open == [log EXCEPT !.phase = "done", !.state = state]
            Closed == [Open EXCEPT !.view = None, !.unproven = {}, !.elapsed = 0]
<1>1. Open \in Log
  BY DEF Log
<1>2. None \in {None} \cup Commits /\ {} \in SUBSET ({Unavailable} \cup Commits) /\ 0 \in 0..Timeout
  BY PublicationAssumption
<1>3. Closed \in Log
  <2>. HIDE DEF Open
  <2>. QED BY <1>1, <1>2 DEF Log
<1>4. Report(log, state) = Closed
  BY DEF Report, Log
<1>5. /\ Open.phase = "done" /\ Open.state = state
      /\ Open.expected = log.expected /\ Open.rooms = log.rooms
  BY DEF Log
<1>6. /\ Closed.phase = Open.phase /\ Closed.state = Open.state
      /\ Closed.expected = Open.expected /\ Closed.rooms = Open.rooms
  <2>. HIDE DEF Open
  <2>. QED BY <1>1 DEF Log
<1>. QED BY <1>3, <1>4, <1>5, <1>6

\* What holds of an attestation goes on to hold while main and the image grow.
LEMMA LogGrows ==
  ASSUME NEW t \in Commits, NEW i \in Commits, NEW t2 \in Commits, NEW i2 \in Commits,
         t <= t2, i <= i2, NEW log, LogInv(log, t, i)
  PROVE  LogInv(log, t2, i2)
<1>1. log \in Log
  BY DEF LogInv
<1>. QED BY <1>1, LogNumbers DEF LogInv, Commits

\* An attestation that ended with no verdict about a deployment.
LEMMA PlainReport ==
  ASSUME NEW t \in Commits, NEW i \in Commits, NEW log, LogInv(log, t, i),
         NEW state \in {"NOT_CONVERGED", "FAILED", "NO_REPORT"}
  PROVE  LogInv(Report(log, state), t, i)
<1>1. log \in Log
  BY DEF LogInv
<1>. QED BY <1>1, ReportType DEF LogInv, Active

\* An attestation that ended since a later commit of main was served.
LEMMA SupersededReport ==
  ASSUME NEW t \in Commits, NEW i \in Commits, NEW log, LogInv(log, t, i), Active(log),
         log.expected < log.observed, log.observed <= t, log.observed <= i
  PROVE  /\ LogInv(Superseded(log), t, i)
         /\ Superseded(log).phase = "done"
<1>1. log \in Log
  BY DEF LogInv
<1>2. log.observed \in Commits
  BY <1>1, LogNumbers DEF Log, Unavailable, Commits
<1>3. Report(log, "SUPERSEDED") \in Log
  BY <1>1, ReportType
<1>4. <<>> \in Seq(Commits)
  OBVIOUS
<1>5. Superseded(log) \in Log
  BY <1>2, <1>3, <1>4 DEF Log, Superseded
<1>6. /\ Report(log, "SUPERSEDED").phase = "done" /\ Report(log, "SUPERSEDED").state = "SUPERSEDED"
      /\ Report(log, "SUPERSEDED").expected = log.expected
  BY <1>1, ReportType
<1>7. /\ Superseded(log).phase = "done" /\ Superseded(log).state = "SUPERSEDED"
      /\ Superseded(log).expected = log.expected /\ Superseded(log).supersededBy = log.observed
  BY <1>3, <1>6 DEF Log, Superseded
<1>. QED BY <1>5, <1>7 DEF LogInv, Active

\* A round of polling ends in another or in a report, and with it ends what the
\* attestation knew of itself only.
LEMMA RoundEnds ==
  ASSUME NEW t \in Commits, NEW i \in Commits, NEW log, LogInv(log, t, i),
         log.phase \in {"await", "classify"}, NEW new \in EndRound(log)
  PROVE  /\ LogInv(new, t, i)
         /\ new.state # "SUPERSEDED" /\ new.phase \in {"await", "done"}
         /\ new.expected = log.expected
<1>1. log \in Log /\ log.rooms = <<>> /\ log.state = "UNKNOWN"
  BY DEF LogInv, Active
<1>2. PICK e \in log.elapsed + 1..Timeout :
        new = IF e = Timeout THEN Report(log, "NOT_CONVERGED")
              ELSE [log EXCEPT !.elapsed = e, !.phase = "await"]
  BY DEF EndRound
<1>3. CASE e = Timeout
  <2>1. new = Report(log, "NOT_CONVERGED")
    BY <1>2, <1>3
  <2>2. LogInv(new, t, i)
    BY <2>1, PlainReport
  <2>3. new.state = "NOT_CONVERGED" /\ new.phase = "done" /\ new.expected = log.expected
    BY <2>1, <1>1, ReportType
  <2>. QED BY <2>2, <2>3
<1>4. CASE e # Timeout
  <2>1. new = [log EXCEPT !.elapsed = e, !.phase = "await"]
    BY <1>2, <1>4
  <2>2. e \in 0..Timeout
    BY <1>1, LogNumbers
  <2>3. new \in Log
    BY <1>1, <2>1, <2>2 DEF Log
  <2>4. /\ new.phase = "await" /\ new.state = "UNKNOWN" /\ new.rooms = <<>>
        /\ new.expected = log.expected /\ new.view = log.view
    BY <1>1, <2>1 DEF Log
  <2>5. log.expected \in 1..t /\ log.view \in 1..t
    BY DEF LogInv, Active
  <2>. QED BY <2>3, <2>4, <2>5 DEF LogInv, Active
<1>. QED BY <1>3, <1>4

-----------------------------------------------------------------------------
(* The inductive invariant *)

\* The first deployment, before any attestation.
LEMMA Initially == Init => IInv
<1>. SUFFICES ASSUME Init PROVE IInv
  OBVIOUS
<1>1. 1 \in Commits /\ 0 \in 0..Timeout
  BY PublicationAssumption DEF Commits
<1>2. NoReport \in Log
  BY <1>1 DEF NoReport, Log, None, Unavailable
<1>3. PICK env \in {None, 1} :
        space = [head |-> 1, env |-> env, image |-> 1, container |-> Running(1, env)]
  BY DEF Init
<1>4. TypeOK
  BY <1>1, <1>2, <1>3 DEF TypeOK, Init, Running
<1>5. DeployInv
  BY <1>3 DEF DeployInv, Init, Running, None
<1>6. /\ NoReport.phase = "idle" /\ NoReport.state = "UNKNOWN"
  BY DEF NoReport
<1>7. \A a \in Attesters : LogInv(att[a], tip, space.image)
  BY <1>2, <1>6 DEF Init, LogInv, Active
<1>8. SlotInv
  BY <1>6 DEF Init, SlotInv, Active, Attesters
<1>. QED BY <1>4, <1>5, <1>7, <1>8 DEF IInv

\* The branch, the run and the Space move on while no attestation does.
LEMMA DeployMoves ==
  ASSUME IInv, TypeOK', DeployInv', UNCHANGED att,
         tip <= tip', space.image <= space'.image,
         run.phase = "attesting" => run' = run \/ ~Active(att["slot"])
  PROVE  IInv'
<1>1. /\ tip \in Commits /\ tip' \in Commits
      /\ space.image \in Commits /\ space'.image \in Commits
  BY DEF IInv, TypeOK
<1>2. \A a \in Attesters : LogInv(att[a], tip', space'.image)
  BY <1>1, LogGrows DEF IInv
<1>3. SlotInv'
  BY DEF IInv, SlotInv
<1>. QED BY <1>2, <1>3 DEF IInv

\* An attestation moves on while the branch, the run and the Space do not.
LEMMA LogMoves ==
  ASSUME IInv, UNCHANGED <<tip, pending, run, space>>,
         NEW a \in Attesters, NEW log, LogInv(log, tip, space.image), Goes(a, log),
         a = "slot" =>
           /\ Active(log) => run.phase = "attesting" /\ run.sha = log.expected
           /\ log.phase \in {"classify", "reclassify"} =>
                log.observed \in {Unavailable, log.expected}
           /\ log.state # "SUPERSEDED"
  PROVE  IInv'
<1>1. att \in [Attesters -> Log] /\ log \in Log
  BY DEF IInv, TypeOK, LogInv
<1>2. /\ att' \in [Attesters -> Log] /\ att'[a] = log
      /\ \A b \in Attesters \ {a} : att'[b] = att[b]
  BY <1>1 DEF Goes
<1>3. TypeOK'
  BY <1>2 DEF IInv, TypeOK
<1>4. DeployInv'
  BY DEF IInv, DeployInv
<1>5. \A b \in Attesters : LogInv(att'[b], tip', space'.image)
  BY <1>2 DEF IInv
<1>6. SlotInv'
  <2>1. "slot" \in Attesters
    BY DEF Attesters
  <2>2. CASE a = "slot"
    BY <2>2, <1>2 DEF SlotInv
  <2>3. CASE a # "slot"
    <3>1. att'["slot"] = att["slot"]
      BY <1>2, <2>1, <2>3
    <3>. QED BY <3>1 DEF IInv, SlotInv
  <2>. QED BY <2>2, <2>3
<1>. QED BY <1>3, <1>4, <1>5, <1>6 DEF IInv

-----------------------------------------------------------------------------
(* The branch, the run and the Space *)

\* The types of what a step of the deployment reads.
LEMMA DeployTypes ==
  ASSUME TypeOK
  PROVE  /\ tip \in Commits /\ pending \in {None} \cup Commits
         /\ run.phase \in {"none", "testing", "checked", "bound", "uploaded", "published",
                           "attesting"}
         /\ run.sha \in {None} \cup Commits
         /\ run = [phase |-> run.phase, sha |-> run.sha]
         /\ space.head \in Commits /\ space.image \in Commits
         /\ space.env \in {None} \cup Commits
         /\ space.container.up \in BOOLEAN
         /\ space.container.file \in {None} \cup Commits
         /\ space.container.env \in {None} \cup Commits
BY DEF TypeOK

\* A push only lengthens main, and what waits for the slot is its tip.
LEMMA PushKeeps == IInv /\ Push => IInv'
<1>. SUFFICES ASSUME IInv, Push PROVE IInv'
  OBVIOUS
<1>1. tip + 1 \in Commits /\ tip \in Commits /\ tip <= tip + 1
  BY DeployTypes, PublicationAssumption DEF IInv, Push, Commits
<1>2. TypeOK'
  BY <1>1 DEF IInv, TypeOK, Push
<1>3. DeployInv'
  BY <1>1, DeployTypes, PublicationAssumption DEF IInv, DeployInv, Push, Commits, None
<1>4. space.image <= space.image
  BY DeployTypes DEF IInv, Commits
<1>. QED BY <1>1, <1>2, <1>3, <1>4, DeployMoves DEF Push

\* A run that is dispatched again waits for the slot with a commit of main.
LEMMA DispatchKeeps == ASSUME NEW sha \in Commits PROVE IInv /\ Dispatch(sha) => IInv'
<1>. SUFFICES ASSUME IInv, Dispatch(sha) PROVE IInv'
  OBVIOUS
<1>1. TypeOK'
  BY DEF IInv, TypeOK, Dispatch
<1>2. DeployInv'
  BY DEF IInv, DeployInv, Dispatch
<1>3. tip <= tip /\ space.image <= space.image
  BY DeployTypes DEF IInv, Commits
<1>. QED BY <1>1, <1>2, <1>3, DeployMoves DEF Dispatch

\* A step of the run alone, which does not end an attestation.
LEMMA RunMoves ==
  ASSUME IInv, UNCHANGED <<tip, space, att>>, TypeOK', DeployInv',
         run.phase = "attesting" => ~Active(att["slot"])
  PROVE  IInv'
<1>1. tip <= tip /\ space.image <= space.image
  BY DeployTypes DEF IInv, Commits
<1>. QED BY <1>1, DeployMoves

\* The run that starts takes the commit that waited.
LEMMA StartRunKeeps == IInv /\ StartRun => IInv'
<1>. SUFFICES ASSUME IInv, StartRun PROVE IInv'
  OBVIOUS
<1>1. TypeOK'
  BY DEF IInv, TypeOK, StartRun, None
<1>2. pending \in 1..tip
  BY DeployTypes, PublicationAssumption DEF IInv, DeployInv, StartRun, Commits, None
<1>3. DeployInv'
  BY <1>2, DeployTypes DEF IInv, DeployInv, StartRun, Commits, None
<1>. QED BY <1>1, <1>3, RunMoves DEF StartRun

\* The check for the tip: no published commit is newer than the one to publish.
LEMMA PublishKeeps == IInv /\ Publish => IInv'
<1>. SUFFICES ASSUME IInv, Publish PROVE IInv'
  OBVIOUS
<1>1. run' = [phase |-> "checked", sha |-> tip]
  BY DeployTypes DEF IInv, Publish, Deployable
<1>2. TypeOK'
  BY <1>1 DEF IInv, TypeOK, Publish
<1>3. DeployInv'
  BY <1>1, DeployTypes DEF IInv, DeployInv, Publish, Commits
<1>. QED BY <1>2, <1>3, RunMoves DEF Publish

\* The variable is no part of the order of the commits.
LEMMA BindVariableKeeps == IInv /\ BindVariable => IInv'
<1>. SUFFICES ASSUME IInv, BindVariable PROVE IInv'
  OBVIOUS
<1>1. /\ space' \in [head : Commits, env : {None} \cup Commits, image : Commits,
                     container : [up : BOOLEAN, file : {None} \cup Commits, env : {None} \cup Commits]]
      /\ space'.head = space.head /\ space'.image = space.image
      /\ space'.container = space.container
  BY DEF IInv, TypeOK, BindVariable
<1>2. \/ run' = [phase |-> "bound", sha |-> run.sha] /\ run.phase = "checked"
      \/ run' = run /\ run.phase = "uploaded"
  BY DeployTypes DEF IInv, TypeOK, BindVariable
<1>3. TypeOK'
  BY <1>1, <1>2 DEF IInv, TypeOK, BindVariable
<1>4. DeployInv'
  BY <1>1, <1>2 DEF IInv, DeployInv, BindVariable
<1>5. tip <= tip /\ space.image <= space.image
  BY DeployTypes DEF IInv, Commits
<1>. QED BY <1>1, <1>2, <1>3, <1>4, <1>5, DeployMoves DEF BindVariable

\* The files that are uploaded are no older than those of the Hub.
LEMMA UploadKeeps == IInv /\ Upload => IInv'
<1>. SUFFICES ASSUME IInv, Upload PROVE IInv'
  OBVIOUS
<1>1. run.sha \in 1..tip /\ run.sha \in Commits /\ space.head <= run.sha
  BY DeployTypes, PublicationAssumption DEF IInv, DeployInv, Upload, Commits
<1>2. /\ space' \in [head : Commits, env : {None} \cup Commits, image : Commits,
                     container : [up : BOOLEAN, file : {None} \cup Commits, env : {None} \cup Commits]]
      /\ space'.head = run.sha /\ space'.image = space.image
      /\ space'.container = space.container
  BY <1>1 DEF IInv, TypeOK, Upload
<1>3. run' = [phase |-> "uploaded", sha |-> run.sha]
  BY DeployTypes DEF IInv, Upload
<1>4. TypeOK'
  BY <1>1, <1>2, <1>3 DEF IInv, TypeOK, Upload
<1>5. DeployInv'
  BY <1>1, <1>2, <1>3, DeployTypes DEF IInv, DeployInv, Upload, Commits
<1>6. tip <= tip /\ space.image <= space'.image
  BY <1>2, DeployTypes DEF IInv, Commits
<1>. QED BY <1>4, <1>5, <1>6, DeployMoves DEF Upload

\* A run that fails gives up a slot in which no attestation goes on.
LEMMA RunFailsKeeps == IInv /\ RunFails => IInv'
<1>. SUFFICES ASSUME IInv, RunFails PROVE IInv'
  OBVIOUS
<1>1. TypeOK'
  BY DEF IInv, TypeOK, RunFails
<1>2. DeployInv'
  BY DEF IInv, DeployInv, RunFails
<1>. QED BY <1>1, <1>2, RunMoves DEF RunFails

\* A build replaces the image by a later one, and never after a run has seen its own.
LEMMA BuildKeeps == IInv /\ Build => IInv'
<1>. SUFFICES ASSUME IInv, Build PROVE IInv'
  OBVIOUS
<1>1. /\ space' \in [head : Commits, env : {None} \cup Commits, image : Commits,
                     container : [up : BOOLEAN, file : {None} \cup Commits, env : {None} \cup Commits]]
      /\ space'.head = space.head /\ space'.image = space.head
      /\ space'.container.file = space.head
  BY DEF IInv, TypeOK, Build, Running
<1>2. TypeOK'
  BY <1>1 DEF IInv, TypeOK, Build
<1>3. run.phase # "published" /\ run.phase # "attesting"
  BY DEF IInv, DeployInv, Build
<1>4. DeployInv'
  BY <1>1, <1>3, DeployTypes DEF IInv, DeployInv, Build, Commits
<1>5. tip <= tip /\ space.image <= space'.image
  BY <1>1, DeployTypes DEF IInv, DeployInv, Commits
<1>. QED BY <1>2, <1>3, <1>4, <1>5, DeployMoves DEF Build

\* The container is stopped or started, on the image there is.
LEMMA ContainerMoves ==
  ASSUME IInv, UNCHANGED <<tip, pending, run, att>>,
         NEW container, container \in {Down, Running(space.image, space.env)},
         space' = [space EXCEPT !.container = container]
  PROVE  IInv'
<1>. DEFINE Containers ==
         [up : BOOLEAN, file : {None} \cup Commits, env : {None} \cup Commits]
<1>0. container \in Containers /\ (container.up => container.file = space.image)
  <2>1. CASE container = Down
    BY <2>1 DEF Down
  <2>2. CASE container = Running(space.image, space.env)
    BY <2>2, DeployTypes DEF IInv, Running
  <2>. QED BY <2>1, <2>2
<1>1. /\ space' \in [head : Commits, env : {None} \cup Commits, image : Commits,
                     container : Containers]
      /\ space'.head = space.head /\ space'.image = space.image
      /\ space'.container.up => space'.container.file = space.image
  <2>1. space \in [head : Commits, env : {None} \cup Commits, image : Commits,
                   container : Containers]
    BY DEF IInv, TypeOK
  <2>. HIDE DEF Containers
  <2>. QED BY <1>0, <2>1
<1>2. TypeOK'
  BY <1>1 DEF IInv, TypeOK
<1>3. DeployInv'
  BY <1>1 DEF IInv, DeployInv
<1>4. tip <= tip /\ space.image <= space'.image
  BY <1>1, DeployTypes DEF IInv, Commits
<1>. QED BY <1>2, <1>3, <1>4, DeployMoves

\* A container that runs and tells a commit tells the image.
LEMMA RevisionIsImage ==
  ASSUME TypeOK, DeployInv, space.container.up
  PROVE  Revision(space.container) \in {Unavailable, space.image}
BY DEF DeployInv, Revision

\* A revision that the Space tells is the one of its image.
LEMMA PublishedKeeps == IInv /\ Published => IInv'
<1>. SUFFICES ASSUME IInv, Published PROVE IInv'
  OBVIOUS
<1>1. run' = [phase |-> "published", sha |-> run.sha]
  BY DeployTypes DEF IInv, Published
<1>2. TypeOK'
  BY <1>1 DEF IInv, TypeOK, Published
<1>3. run.sha \in 1..tip
  BY DEF IInv, DeployInv, Published
<1>4. space.image = run.sha
  BY <1>3, RevisionIsImage, DeployTypes DEF IInv, Published, Unavailable, Commits
<1>5. DeployInv'
  BY <1>1, <1>3, <1>4 DEF IInv, DeployInv, Published
<1>. QED BY <1>2, <1>5, RunMoves DEF Published

\* A run ends only after its attestation.
LEMMA RunEndsKeeps == IInv /\ RunEnds => IInv'
<1>. SUFFICES ASSUME IInv, RunEnds PROVE IInv'
  OBVIOUS
<1>1. TypeOK'
  BY DEF IInv, TypeOK, RunEnds
<1>2. DeployInv'
  BY DEF IInv, DeployInv, RunEnds
<1>. QED BY <1>1, <1>2, RunMoves DEF RunEnds, Released, Active

\* A stop of the container.
LEMMA StopKeeps == IInv /\ Stop => IInv'
BY ContainerMoves DEF Stop

\* A boot of the container.
LEMMA BootKeeps == IInv /\ Boot => IInv'
BY ContainerMoves DEF Boot

-----------------------------------------------------------------------------
(* The attestations *)

\* While it attests, the slot has the image that it judges.
LEMMA SlotFacts ==
  ASSUME IInv, Active(att["slot"])
  PROVE  /\ run.phase = "attesting" /\ run.sha = att["slot"].expected
         /\ space.image = att["slot"].expected
BY DEF IInv, SlotInv, DeployInv

\* An attestation that goes on about the same commit.
LEMMA SameCommit ==
  ASSUME IInv, UNCHANGED <<tip, pending, run, space>>,
         NEW a \in Attesters, Active(att[a]),
         NEW log, LogInv(log, tip, space.image), Goes(a, log),
         log.expected = att[a].expected, log.state # "SUPERSEDED",
         log.phase \in {"classify", "reclassify"} => log.observed \in {Unavailable, space.image}
  PROVE  IInv'
<1>1. a = "slot" =>
        /\ run.phase = "attesting" /\ run.sha = log.expected
        /\ space.image = log.expected
  BY SlotFacts
<1>. QED BY <1>1, LogMoves

\* A new report is begun.
LEMMA BeginsKeeps ==
  ASSUME IInv, NEW a \in Attesters, NEW sha \in Commits, sha <= tip, Attest(a, sha)
  PROVE  LET log == [NoReport EXCEPT !.phase = "await", !.expected = sha, !.view = tip]
         IN /\ LogInv(log, tip, space.image) /\ Goes(a, log)
            /\ log.phase = "await" /\ log.expected = sha /\ log.state = "UNKNOWN"
<1>. DEFINE log == [NoReport EXCEPT !.phase = "await", !.expected = sha, !.view = tip]
<1>1. LogInv(log, tip, space.image)
  BY NewLog, DeployTypes DEF IInv
<1>2. log.phase = "await" /\ log.expected = sha /\ log.state = "UNKNOWN"
  BY DEF NoReport
<1>3. Goes(a, log)
  BY DEF Attest
<1>. QED BY <1>1, <1>2, <1>3

\* An attestation by hand begins.
LEMMA AttestByHandKeeps ==
  ASSUME NEW sha \in Commits PROVE IInv /\ AttestByHand(sha) => IInv'
<1>. SUFFICES ASSUME IInv, AttestByHand(sha) PROVE IInv'
  OBVIOUS
<1>. DEFINE log == [NoReport EXCEPT !.phase = "await", !.expected = sha, !.view = tip]
<1>1. sha <= tip /\ Attest("manual", sha) /\ UNCHANGED <<tip, pending, run, space>>
  BY DEF AttestByHand
<1>2. "manual" \in Attesters
  BY DEF Attesters
<1>3. LogInv(log, tip, space.image) /\ Goes("manual", log)
  BY <1>1, <1>2, BeginsKeeps
<1>. HIDE DEF log
<1>. QED BY <1>1, <1>2, <1>3, LogMoves

\* The attestation of a run begins with the commit that is the image.
LEMMA AttestInSlotKeeps == IInv /\ AttestInSlot => IInv'
<1>. SUFFICES ASSUME IInv, AttestInSlot PROVE IInv'
  OBVIOUS
<1>. DEFINE log == [NoReport EXCEPT !.phase = "await", !.expected = run.sha, !.view = tip]
<1>1. "slot" \in Attesters
  BY DEF Attesters
<1>2. run.sha \in Commits /\ run.sha <= tip
  BY DeployTypes DEF IInv, DeployInv, AttestInSlot, Commits
<1>3. /\ LogInv(log, tip, space.image) /\ Goes("slot", log)
      /\ log.phase = "await" /\ log.expected = run.sha /\ log.state = "UNKNOWN"
  BY <1>1, <1>2, BeginsKeeps DEF AttestInSlot
<1>4. run' = [phase |-> "attesting", sha |-> run.sha]
  BY DeployTypes DEF IInv, AttestInSlot
<1>. HIDE DEF log
<1>5. /\ att' \in [Attesters -> Log] /\ att'["slot"] = log
      /\ \A b \in Attesters \ {"slot"} : att'[b] = att[b]
  BY <1>1, <1>3 DEF IInv, TypeOK, Goes, LogInv
<1>6. TypeOK'
  BY <1>4, <1>5 DEF IInv, TypeOK, AttestInSlot
<1>7. DeployInv'
  BY <1>4 DEF IInv, DeployInv, AttestInSlot
<1>8. \A b \in Attesters : LogInv(att'[b], tip', space'.image)
  BY <1>3, <1>5 DEF IInv, AttestInSlot
<1>9. SlotInv'
  BY <1>3, <1>4, <1>5 DEF SlotInv
<1>. QED BY <1>6, <1>7, <1>8, <1>9 DEF IInv

\* A round without an answer.
LEMMA PollFailsKeeps ==
  ASSUME NEW a \in Attesters PROVE IInv /\ PollFails(a) => IInv'
<1>. SUFFICES ASSUME IInv, PollFails(a) PROVE IInv'
  OBVIOUS
<1>1. PICK log \in EndRound(att[a]) : Goes(a, log)
  BY DEF PollFails, AfterFailure
<1>2. /\ att[a].phase = "await" /\ LogInv(att[a], tip, space.image) /\ Active(att[a])
      /\ tip \in Commits /\ space.image \in Commits
  BY DeployTypes DEF IInv, PollFails, Active
<1>3. /\ LogInv(log, tip, space.image) /\ log.state # "SUPERSEDED"
      /\ log.phase \in {"await", "done"} /\ log.expected = att[a].expected
  BY <1>2, RoundEnds
<1>. QED BY <1>1, <1>2, <1>3, SameCommit DEF PollFails

\* A round that saw a revision: it is the image's, or none.
LEMMA PollKeeps ==
  ASSUME NEW a \in Attesters PROVE IInv /\ Poll(a) => IInv'
<1>. SUFFICES ASSUME IInv, Poll(a) PROVE IInv'
  OBVIOUS
<1>. DEFINE revision == Revision(space.container)
            seen == [att[a] EXCEPT !.observed = revision]
            asked == [seen EXCEPT !.phase = "classify"]
<1>1. /\ att[a].phase = "await" /\ LogInv(att[a], tip, space.image) /\ Active(att[a])
      /\ tip \in Commits /\ space.image \in Commits /\ att[a] \in Log
  BY DeployTypes DEF IInv, Poll, Active, LogInv
<1>2. revision \in {Unavailable, space.image}
  BY RevisionIsImage DEF IInv, Poll
<1>3. PICK log \in IF seen.observed \in seen.unproven THEN EndRound(seen) ELSE {asked} :
        Goes(a, log)
  BY DEF Poll
<1>. HIDE DEF revision
<1>4. /\ seen \in Log /\ seen.phase = "await" /\ seen.state = att[a].state
      /\ seen.expected = att[a].expected /\ seen.view = att[a].view
      /\ seen.rooms = att[a].rooms /\ seen.observed = revision
  BY <1>1, <1>2 DEF Log
<1>. HIDE DEF seen
<1>5. LogInv(seen, tip, space.image)
  BY <1>1, <1>4 DEF LogInv, Active
<1>6. CASE log \in EndRound(seen)
  <2>1. /\ LogInv(log, tip, space.image) /\ log.state # "SUPERSEDED"
        /\ log.phase \in {"await", "done"} /\ log.expected = att[a].expected
    BY <1>1, <1>4, <1>5, <1>6, RoundEnds
  <2>. QED BY <1>1, <1>3, <2>1, SameCommit DEF Poll
<1>7. CASE log = asked
  <2>1. /\ log \in Log /\ log.phase = "classify" /\ log.state = att[a].state
        /\ log.expected = att[a].expected /\ log.view = att[a].view
        /\ log.rooms = att[a].rooms /\ log.observed = revision
    BY <1>4, <1>7 DEF Log
  <2>2. revision <= space.image
    BY <1>1, <1>2 DEF Unavailable, Commits
  <2>3. LogInv(log, tip, space.image)
    BY <1>1, <2>1, <2>2 DEF LogInv, Active
  <2>4. log.state # "SUPERSEDED"
    BY <1>1, <2>1 DEF LogInv, Active
  <2>. QED BY <1>1, <1>2, <1>3, <2>1, <2>3, <2>4, SameCommit DEF Poll
<1>. QED BY <1>3, <1>6, <1>7

\* The view of main a classification ends with is one of main.
LEMMA ViewsAreMain ==
  ASSUME IInv, NEW a \in Attesters, Active(att[a]), NEW view \in Views(a)
  PROVE  view \in 1..tip
<1>1. att[a].view \in 1..tip
  BY DEF IInv, LogInv
<1>2. tip \in 1..tip
  BY DeployTypes DEF IInv, Commits
<1>. QED BY <1>1, <1>2 DEF Views

\* A verdict that a later commit superseded the judged one.
LEMMA SupersededKeeps ==
  ASSUME IInv, UNCHANGED <<tip, pending, run, space>>,
         NEW a \in Attesters, att[a].phase \in {"classify", "reclassify"}, NEW view \in Views(a),
         Classify(att[a].expected, att[a].observed, view) = "SUPERSEDED",
         Goes(a, Superseded(att[a]))
  PROVE  IInv'
<1>1. /\ Active(att[a]) /\ LogInv(att[a], tip, space.image) /\ att[a] \in Log
      /\ tip \in Commits /\ space.image \in Commits
      /\ att[a].observed <= space.image /\ att[a].expected \in 1..tip
  BY DeployTypes DEF IInv, LogInv, Active
<1>2. view \in 1..tip
  BY <1>1, ViewsAreMain
<1>3. /\ att[a].observed # att[a].expected /\ att[a].observed \in Commits
      /\ att[a].expected <= att[a].observed /\ att[a].observed <= view
  BY DEF Classify, IsAncestor
<1>4. att[a].expected < att[a].observed /\ att[a].observed <= tip
  BY <1>1, <1>2, <1>3, LogNumbers DEF Commits
<1>5. a # "slot"
  BY <1>1, <1>3, PublicationAssumption DEF IInv, SlotInv, Unavailable, Commits
<1>6. LogInv(Superseded(att[a]), tip, space.image)
  BY <1>1, <1>4, SupersededReport
<1>. QED BY <1>5, <1>6, LogMoves

\* What was seen is classified, and captured only if it is the judged commit.
LEMMA JudgeKeeps ==
  ASSUME NEW a \in Attesters PROVE IInv /\ Judge(a) => IInv'
<1>. SUFFICES ASSUME IInv, Judge(a) PROVE IInv'
  OBVIOUS
<1>1. /\ Active(att[a]) /\ LogInv(att[a], tip, space.image) /\ att[a] \in Log
      /\ tip \in Commits /\ space.image \in Commits
      /\ att[a].phase = "classify" /\ att[a].rooms = <<>> /\ att[a].state = "UNKNOWN"
      /\ att[a].observed <= space.image
      /\ att[a].expected \in 1..tip /\ att[a].view \in 1..tip
  BY DeployTypes DEF IInv, LogInv, Judge, Active
<1>2. PICK view \in Views(a) :
        LET verdict == Classify(att[a].expected, att[a].observed, view)
            judged == [att[a] EXCEPT !.view = view]
        IN \/ /\ verdict = "EXACT"
              /\ Goes(a, [att[a] EXCEPT !.phase = "capture"])
           \/ /\ verdict = "SUPERSEDED"
              /\ Goes(a, Superseded(att[a]))
           \/ /\ verdict = "UNPROVEN"
              /\ \E log \in EndRound([judged EXCEPT !.unproven = @ \cup {judged.observed}]) :
                   Goes(a, log)
  BY DEF Judge
<1>3. view \in 1..tip
  BY <1>1, ViewsAreMain
<1>4. CASE /\ Classify(att[a].expected, att[a].observed, view) = "EXACT"
           /\ Goes(a, [att[a] EXCEPT !.phase = "capture"])
  <2>. DEFINE log == [att[a] EXCEPT !.phase = "capture"]
  <2>1. att[a].observed = att[a].expected
    BY <1>4 DEF Classify
  <2>2. /\ log \in Log /\ log.phase = "capture" /\ log.state = "UNKNOWN" /\ log.rooms = <<>>
        /\ log.expected = att[a].expected /\ log.view = att[a].view
    BY <1>1 DEF Log
  <2>. HIDE DEF log
  <2>3. LogInv(log, tip, space.image)
    BY <1>1, <2>1, <2>2, PublicationAssumption DEF LogInv, Active
  <2>4. Goes(a, log)
    BY <1>4 DEF log
  <2>. QED BY <1>1, <2>2, <2>3, <2>4, SameCommit DEF Judge
<1>5. CASE /\ Classify(att[a].expected, att[a].observed, view) = "SUPERSEDED"
           /\ Goes(a, Superseded(att[a]))
  BY <1>1, <1>5, SupersededKeeps DEF Judge
<1>6. ASSUME NEW log \in EndRound([[att[a] EXCEPT !.view = view]
                                     EXCEPT !.unproven = @ \cup {[att[a] EXCEPT !.view = view].observed}]),
             Goes(a, log)
      PROVE  IInv'
  <2>. DEFINE judged == [att[a] EXCEPT !.view = view]
              told == [judged EXCEPT !.unproven = @ \cup {judged.observed}]
  <2>1. view \in {None} \cup Commits
    BY <1>1, <1>3, PublicationAssumption DEF Commits
  <2>2. /\ judged \in Log /\ judged.phase = "classify" /\ judged.state = "UNKNOWN"
        /\ judged.rooms = <<>> /\ judged.expected = att[a].expected /\ judged.view = view
        /\ judged.observed = att[a].observed
    BY <1>1, <2>1 DEF Log
  <2>. HIDE DEF judged
  <2>3. /\ told \in Log /\ told.phase = "classify" /\ told.state = "UNKNOWN"
        /\ told.rooms = <<>> /\ told.expected = att[a].expected /\ told.view = view
        /\ told.observed = att[a].observed
    <3>1. judged.unproven \cup {judged.observed} \in SUBSET ({Unavailable} \cup Commits)
      BY <2>2 DEF Log
    <3>. QED BY <2>2, <3>1 DEF Log
  <2>4. log \in EndRound(told)
    BY <1>6 DEF judged
  <2>. HIDE DEF told
  <2>5. LogInv(told, tip, space.image)
    BY <1>1, <1>3, <2>3 DEF LogInv, Active
  <2>6. /\ LogInv(log, tip, space.image) /\ log.state # "SUPERSEDED"
        /\ log.phase \in {"await", "done"} /\ log.expected = att[a].expected
    BY <1>1, <2>3, <2>4, <2>5, RoundEnds
  <2>. QED BY <1>1, <1>6, <2>6, SameCommit DEF Judge
<1>. QED BY <1>2, <1>4, <1>5, <1>6

\* One document more, read from the image.
LEMMA CaptureKeeps ==
  ASSUME NEW a \in Attesters PROVE IInv /\ Capture(a) => IInv'
<1>. SUFFICES ASSUME IInv, Capture(a) PROVE IInv'
  OBVIOUS
<1>. DEFINE rooms == Append(att[a].rooms, space.container.file)
            phase == IF Len(att[a].rooms) + 1 = Rooms THEN "after" ELSE "capture"
            log == [att[a] EXCEPT !.rooms = rooms, !.phase = phase]
<1>1. /\ Active(att[a]) /\ LogInv(att[a], tip, space.image) /\ att[a] \in Log
      /\ tip \in Commits /\ space.image \in Commits
      /\ att[a].phase = "capture" /\ att[a].state = "UNKNOWN"
      /\ att[a].expected \in 1..tip /\ att[a].view \in 1..tip
      /\ att[a].expected <= space.image
      /\ Len(att[a].rooms) < Rooms
      /\ \A k \in 1..Len(att[a].rooms) :
           att[a].expected <= att[a].rooms[k] /\ att[a].rooms[k] <= space.image
  BY DeployTypes DEF IInv, LogInv, Capture, Active
<1>2. space.container.file = space.image
  BY DEF IInv, DeployInv, Capture
<1>3. att[a].rooms \in Seq(Commits) /\ Len(att[a].rooms) \in Nat
  BY <1>1, LogNumbers
<1>4. /\ rooms \in Seq(Commits) /\ Len(rooms) = Len(att[a].rooms) + 1
      /\ \A k \in 1..Len(att[a].rooms) : rooms[k] = att[a].rooms[k]
      /\ rooms[Len(att[a].rooms) + 1] = space.image
  BY <1>1, <1>2, <1>3
<1>5. Goes(a, log)
  BY <1>1 DEF Capture
<1>. HIDE DEF rooms
<1>6. /\ log \in Log /\ log.phase = phase /\ log.state = "UNKNOWN" /\ log.rooms = rooms
      /\ log.expected = att[a].expected /\ log.view = att[a].view
  BY <1>1, <1>4 DEF Log
<1>. HIDE DEF log
<1>7. \A k \in 1..Len(rooms) : att[a].expected <= rooms[k] /\ rooms[k] <= space.image
  <2>. SUFFICES ASSUME NEW k \in 1..Len(rooms)
                PROVE  att[a].expected <= rooms[k] /\ rooms[k] <= space.image
    OBVIOUS
  <2>1. CASE k \in 1..Len(att[a].rooms)
    BY <1>1, <1>4, <2>1
  <2>2. CASE k = Len(att[a].rooms) + 1
    BY <1>1, <1>4, <2>2 DEF Commits
  <2>. QED BY <1>3, <1>4, <2>1, <2>2
<1>8. /\ phase \in {"after", "capture"}
      /\ phase = "after" => Len(rooms) = Rooms
      /\ phase = "capture" => Len(rooms) < Rooms
  BY <1>1, <1>3, <1>4, PublicationAssumption
<1>. HIDE DEF phase
<1>9. LogInv(log, tip, space.image)
  BY <1>1, <1>6, <1>7, <1>8 DEF LogInv, Active
<1>. QED BY <1>1, <1>5, <1>6, <1>8, <1>9, SameCommit DEF Capture

\* What a capture read lies between the judged commit and the image: a Space
\* that still tells the judged commit has served it all along.
LEMMA BracketKeeps ==
  ASSUME NEW a \in Attesters PROVE IInv /\ Bracket(a) => IInv'
<1>. SUFFICES ASSUME IInv, Bracket(a) PROVE IInv'
  OBVIOUS
<1>. DEFINE after == Revision(space.container)
            whole == Report(att[a], "VERIFIED")
            verified == [whole EXCEPT !.observed = after]
            torn == [att[a] EXCEPT !.phase = "reclassify", !.observed = after]
<1>1. /\ Active(att[a]) /\ LogInv(att[a], tip, space.image) /\ att[a] \in Log
      /\ tip \in Commits /\ space.image \in Commits
      /\ att[a].phase = "after" /\ att[a].state = "UNKNOWN"
      /\ att[a].expected \in 1..tip /\ att[a].view \in 1..tip
      /\ Len(att[a].rooms) = Rooms
      /\ \A k \in 1..Len(att[a].rooms) :
           att[a].expected <= att[a].rooms[k] /\ att[a].rooms[k] <= space.image
  BY DeployTypes DEF IInv, LogInv, Bracket, Active
<1>2. after \in {Unavailable, space.image}
  BY RevisionIsImage DEF IInv, Bracket
<1>3. Goes(a, IF after = att[a].expected THEN verified ELSE torn)
  BY DEF Bracket, ObservedAfter
<1>. HIDE DEF after
<1>4. after \in {Unavailable} \cup Commits /\ after <= space.image
  BY <1>1, <1>2 DEF Unavailable, Commits
<1>5. CASE after = att[a].expected
  <2>1. att[a].expected = space.image
    BY <1>1, <1>2, <1>5 DEF Unavailable
  <2>2. \A k \in 1..Rooms : att[a].rooms[k] = att[a].expected
    BY <1>1, <2>1, LogNumbers DEF Commits
  <2>3. /\ whole \in Log /\ whole.phase = "done" /\ whole.state = "VERIFIED"
        /\ whole.expected = att[a].expected /\ whole.rooms = att[a].rooms
    BY <1>1, ReportType
  <2>. HIDE DEF whole
  <2>4. /\ verified \in Log /\ verified.phase = "done" /\ verified.state = "VERIFIED"
        /\ verified.expected = att[a].expected /\ verified.rooms = att[a].rooms
    BY <1>4, <2>3 DEF Log
  <2>5. Goes(a, verified)
    BY <1>3, <1>5
  <2>. HIDE DEF verified
  <2>6. LogInv(verified, tip, space.image)
    BY <1>1, <2>2, <2>4 DEF LogInv, Active
  <2>. QED BY <1>1, <2>4, <2>5, <2>6, SameCommit DEF Bracket
<1>6. CASE after # att[a].expected
  <2>1. /\ torn \in Log /\ torn.phase = "reclassify" /\ torn.state = "UNKNOWN"
        /\ torn.expected = att[a].expected /\ torn.view = att[a].view
        /\ torn.observed = after
    BY <1>1, <1>4 DEF Log
  <2>2. Goes(a, torn)
    BY <1>3, <1>6
  <2>. HIDE DEF torn
  <2>3. LogInv(torn, tip, space.image)
    BY <1>1, <1>4, <2>1 DEF LogInv, Active
  <2>. QED BY <1>1, <1>2, <2>1, <2>2, <2>3, SameCommit DEF Bracket
<1>. QED BY <1>5, <1>6

\* An attestation that fails, or raises.
LEMMA FailureKeeps ==
  ASSUME IInv, UNCHANGED <<tip, pending, run, space>>, NEW state \in {"FAILED", "NO_REPORT"},
         NEW a \in Attesters, Active(att[a]), Goes(a, Report(att[a], state))
  PROVE  IInv'
<1>1. /\ LogInv(att[a], tip, space.image) /\ att[a] \in Log
      /\ tip \in Commits /\ space.image \in Commits
  BY DeployTypes DEF IInv, LogInv
<1>2. LogInv(Report(att[a], state), tip, space.image)
  BY <1>1, PlainReport
<1>3. /\ Report(att[a], state).phase = "done" /\ Report(att[a], state).state = state
      /\ Report(att[a], state).expected = att[a].expected
  BY <1>1, ReportType
<1>. QED BY <1>2, <1>3, SameCommit

\* A torn capture ends as superseded or as failed.
LEMMA RejudgeKeeps ==
  ASSUME NEW a \in Attesters PROVE IInv /\ Rejudge(a) => IInv'
<1>. SUFFICES ASSUME IInv, Rejudge(a) PROVE IInv'
  OBVIOUS
<1>1. att[a].phase = "reclassify" /\ Active(att[a]) /\ UNCHANGED <<tip, pending, run, space>>
  BY DEF Rejudge, Active
<1>2. PICK view \in Views(a) :
        Goes(a, IF Classify(att[a].expected, att[a].observed, view) = "SUPERSEDED"
                THEN Superseded(att[a]) ELSE Report(att[a], "FAILED"))
  BY DEF Rejudge
<1>3. CASE Classify(att[a].expected, att[a].observed, view) = "SUPERSEDED"
  BY <1>1, <1>2, <1>3, SupersededKeeps
<1>4. CASE Classify(att[a].expected, att[a].observed, view) # "SUPERSEDED"
  BY <1>1, <1>2, <1>4, FailureKeeps
<1>. QED BY <1>3, <1>4

\* A capture whose contract does not hold ends as failed.
LEMMA CaptureFailsKeeps ==
  ASSUME NEW a \in Attesters PROVE IInv /\ CaptureFails(a) => IInv'
BY FailureKeeps DEF CaptureFails, Active

LEMMA PollRaisesKeeps ==
  ASSUME NEW a \in Attesters PROVE IInv /\ PollRaises(a) => IInv'
BY FailureKeeps DEF PollRaises, Active

-----------------------------------------------------------------------------
(* Theorems *)

\* Every step keeps the invariant.
LEMMA StepKeeps == IInv /\ [Next]_vars => IInv'
<1>. SUFFICES ASSUME IInv, [Next]_vars PROVE IInv'
  OBVIOUS
<1>1. CASE Push
  BY <1>1, PushKeeps
<1>2. ASSUME NEW sha \in Commits, Dispatch(sha) PROVE IInv'
  BY <1>2, DispatchKeeps
<1>3. ASSUME NEW sha \in Commits, AttestByHand(sha) PROVE IInv'
  BY <1>3, AttestByHandKeeps
<1>4. CASE StartRun \/ Publish \/ BindVariable \/ Upload \/ RunFails
  BY <1>4, StartRunKeeps, PublishKeeps, BindVariableKeeps, UploadKeeps, RunFailsKeeps
<1>5. CASE Build \/ Stop \/ Boot \/ Published
  BY <1>5, BuildKeeps, StopKeeps, BootKeeps, PublishedKeeps
<1>6. CASE AttestInSlot \/ RunEnds
  BY <1>6, AttestInSlotKeeps, RunEndsKeeps
<1>7. ASSUME NEW a \in Attesters, AttesterStep(a) PROVE IInv'
  BY <1>7, PollFailsKeeps, PollRaisesKeeps, PollKeeps, JudgeKeeps, CaptureKeeps, BracketKeeps, RejudgeKeeps,
     CaptureFailsKeeps DEF AttesterStep
<1>8. CASE UNCHANGED vars
  BY <1>8 DEF vars, IInv, TypeOK, DeployInv, SlotInv
<1>. QED BY <1>1, <1>2, <1>3, <1>4, <1>5, <1>6, <1>7, <1>8 DEF Next

\* The inductive invariant holds in every state.
THEOREM Invariance == Spec => []IInv
<1>. QED BY Initially, StepKeeps, PTL DEF Spec

\* TypeOK: the state keeps its type, the run and the attestations their phases.
THEOREM TypeCorrect == Spec => []TypeOK
<1>1. IInv => TypeOK
  BY DEF IInv
<1>. QED BY <1>1, Invariance, PTL

\* VerifiedIsWhole: attest() calls a commit VERIFIED only if all its documents
\* came from this commit's image, however the Space was redeployed meanwhile.
THEOREM VerifiedWholly == Spec => []VerifiedIsWhole
<1>1. IInv => VerifiedIsWhole
  BY DEF IInv, LogInv, VerifiedIsWhole
<1>. QED BY <1>1, Invariance, PTL

\* SupersededForGood: classify_observed calls a commit SUPERSEDED only for a
\* later commit of main, and the Space never goes back behind that one.
THEOREM SupersededStays == Spec => []SupersededForGood
<1>1. IInv => SupersededForGood
  <2>. SUFFICES ASSUME IInv, NEW a \in Attesters, att[a].state = "SUPERSEDED"
                PROVE  /\ att[a].expected < att[a].supersededBy
                       /\ att[a].supersededBy <= tip
                       /\ space.image >= att[a].supersededBy
                       /\ space.container.up => space.container.file >= att[a].supersededBy
    BY DEF SupersededForGood
  <2>1. /\ att[a].expected < att[a].supersededBy
        /\ att[a].supersededBy <= tip /\ att[a].supersededBy <= space.image
    BY DEF IInv, LogInv
  <2>2. space.container.up => space.container.file = space.image
    BY DEF IInv, DeployInv
  <2>. QED BY <2>1, <2>2
<1>. QED BY <1>1, Invariance, PTL

\* SlotJudgesItsOwn: the attestation hf-space.yml calls after it published finds
\* the image of its own commit, whatever is pushed or dispatched meanwhile.
THEOREM SlotIsOwn == Spec => []SlotJudgesItsOwn
<1>1. IInv => SlotJudgesItsOwn
  BY SlotFacts DEF IInv, SlotInv, Active, SlotJudgesItsOwn
<1>. QED BY <1>1, Invariance, PTL

-----------------------------------------------------------------------------
(* SpaceProbes *)

Progress ==
  [client : Probes!Clients, at : Nat, tries : Nat, failed : BOOLEAN,
   state : {"RUNNING", "PASS", "FAIL", "RAISED"}, log : Seq(Probes!Entry), attempt : {1, 2},
   invoked : Nat, private : BOOLEAN]

\* The image and the deployments of the Space are as they were.
SameSpace == site'.revision = site.revision /\ site'.deploys = site.deploys

\* Two moments of a probe that differ in what the argument does not use.
Alike(p, q) ==
  /\ p \in Progress /\ q \in Progress
  /\ p.client = q.client /\ p.at = q.at /\ p.failed = q.failed /\ p.state = q.state
  /\ p.log = q.log /\ p.attempt = q.attempt

LEMMA SiteIs ==
  ASSUME Probes!TypeOK
  PROVE  /\ site.revision \in Commits /\ site.deploys \in Nat /\ site.private \in BOOLEAN /\ site.up \in BOOLEAN
         /\ probe \in Progress
BY DEF Probes!TypeOK, Progress

LEMMA ProgramIs ==
  /\ \A p : p.client = "khipu" => Len(Probes!Program(p)) = 6
  /\ \A p : p.client \in {"identity", "visibility"} => Len(Probes!Program(p)) = 4
  /\ \A p : p.client = "operator" => Len(Probes!Program(p)) = 3
  /\ \A p, q : p.client = q.client => Len(Probes!Program(p)) = Len(Probes!Program(q))
<1>1. \A p : p.client = "khipu" => Len(Probes!Program(p)) = 6
  BY DEF Probes!Program, Probes!KhipuProgram
<1>2. \A p : p.client = "identity" => Len(Probes!Program(p)) = 4
  BY DEF Probes!Program, Probes!IdentityProgram
<1>3. \A p : p.client = "visibility" => Len(Probes!Program(p)) = 4
  BY DEF Probes!Program, Probes!VisibilityProgram
<1>4. \A p : p.client = "operator" => Len(Probes!Program(p)) = 3
  BY DEF Probes!Program, Probes!OperatorProgram
<1>5. \A p, q : p.client = q.client => Len(Probes!Program(p)) = Len(Probes!Program(q))
  <2>. TAKE p, q
  <2>. SUFFICES ASSUME p.client = q.client PROVE Len(Probes!Program(p)) = Len(Probes!Program(q))
    OBVIOUS
  <2>1. CASE p.client = "khipu"
    BY <1>1, <2>1
  <2>2. CASE p.client # "khipu"
    <3>1. Probes!Program(p) = Probes!Program(q)
      BY <2>2 DEF Probes!Program
    <3>. QED BY <3>1
  <2>. QED BY <2>1, <2>2
<1>. QED BY <1>1, <1>2, <1>3, <1>4, <1>5

\* An entry is appended to the log.
LEMMA LoggedIs ==
  ASSUME Probes!TypeOK, NEW p \in Progress
  PROVE  LET q == Probes!Logged(p)
             e == q.log[Len(p.log) + 1] IN
         /\ q \in Progress
         /\ q = [p EXCEPT !.log = q.log]
         /\ Len(p.log) \in Nat /\ Len(q.log) = Len(p.log) + 1
         /\ \A i \in 1..Len(p.log) : q.log[i] = p.log[i]
         /\ e.at = p.at /\ e.attempt = p.attempt /\ e.private = site.private
         /\ e.revision = site.revision /\ e.deploys = site.deploys
<1>. DEFINE e == [at |-> p.at, attempt |-> p.attempt, private |-> site.private,
                  revision |-> site.revision, deploys |-> site.deploys]
<1>1. e \in Probes!Entry
  BY SiteIs DEF Progress, Probes!Entry
<1>2. p.log \in Seq(Probes!Entry) /\ Len(p.log) \in Nat
  BY DEF Progress
<1>3. Probes!Logged(p) = [p EXCEPT !.log = Append(p.log, e)]
  BY DEF Probes!Logged, Progress
<1>4. /\ Append(p.log, e) \in Seq(Probes!Entry) /\ Len(Append(p.log, e)) = Len(p.log) + 1
      /\ \A i \in 1..Len(p.log) : Append(p.log, e)[i] = p.log[i]
      /\ Append(p.log, e)[Len(p.log) + 1] = e
  <2>. HIDE DEF e
  <2>. QED BY <1>1, <1>2
<1>5. /\ e.at = p.at /\ e.attempt = p.attempt /\ e.private = site.private
      /\ e.revision = site.revision /\ e.deploys = site.deploys
  OBVIOUS
<1>. HIDE DEF e
<1>6. PICK log : log = Append(p.log, e)
  OBVIOUS
<1>7. Probes!Logged(p).log = log /\ Probes!Logged(p) = [p EXCEPT !.log = log] /\ Probes!Logged(p) \in Progress
  BY <1>3, <1>4, <1>6 DEF Progress
<1>. QED BY <1>2, <1>4, <1>5, <1>6, <1>7

LEMMA EndedIs ==
  ASSUME NEW p \in Progress
  PROVE  LET q == Probes!Ended(p, TRUE)
             r == Probes!Ended(p, FALSE) IN
         /\ q \in Progress /\ q.state = "PASS"
         /\ q.client = p.client /\ q.failed = p.failed /\ q.log = p.log
         /\ r \in Progress /\ r.state = "FAIL"
         /\ r.client = p.client /\ r.failed = p.failed /\ r.log = p.log
<1>1. Probes!Ended(p, TRUE) = [p EXCEPT !.state = "PASS", !.tries = 0]
  BY DEF Probes!Ended
<1>2. Probes!Ended(p, FALSE) = [p EXCEPT !.state = "FAIL", !.tries = 0]
  BY DEF Probes!Ended
<1>3. PICK q : q = [p EXCEPT !.state = "PASS", !.tries = 0]
  OBVIOUS
<1>4. /\ q \in Progress /\ q.state = "PASS"
      /\ q.client = p.client /\ q.failed = p.failed /\ q.log = p.log
  BY <1>3 DEF Progress
<1>5. PICK r : r = [p EXCEPT !.state = "FAIL", !.tries = 0]
  OBVIOUS
<1>6. r \in Progress /\ r.state = "FAIL" /\ r.client = p.client /\ r.failed = p.failed /\ r.log = p.log
  BY <1>5 DEF Progress
<1>. QED BY <1>1, <1>2, <1>3, <1>4, <1>5, <1>6

\* What a request that is over leads to.
LEMMA OnwardIs ==
  ASSUME NEW p \in Progress
  PROVE  LET q == Probes!Onward(p) IN
         /\ q \in Progress
         /\ q.client = p.client /\ q.failed = p.failed /\ q.log = p.log /\ q.attempt = p.attempt
         /\ q.invoked = p.invoked
         /\ IF p.at = Len(Probes!Program(p))
            THEN q.at = p.at /\ q.state = IF p.failed THEN "FAIL" ELSE "PASS"
            ELSE q.at = p.at + 1 /\ q.state = p.state
<1>1. p.at \in Nat
  BY DEF Progress
<1>2. CASE p.at = Len(Probes!Program(p)) /\ p.failed
  <2>1. Probes!Onward(p) = [p EXCEPT !.state = "FAIL", !.tries = 0]
    BY <1>2 DEF Probes!Onward, Probes!Ended
  <2>2. PICK q : q = [p EXCEPT !.state = "FAIL", !.tries = 0]
    OBVIOUS
  <2>3. /\ q \in Progress
        /\ q.client = p.client /\ q.failed = p.failed /\ q.log = p.log /\ q.attempt = p.attempt
        /\ q.invoked = p.invoked /\ q.at = p.at /\ q.state = "FAIL"
    BY <2>2 DEF Progress
  <2>. QED BY <1>2, <2>1, <2>2, <2>3
<1>3. CASE p.at = Len(Probes!Program(p)) /\ ~ p.failed
  <2>1. Probes!Onward(p) = [p EXCEPT !.state = "PASS", !.tries = 0]
    BY <1>3 DEF Probes!Onward, Probes!Ended
  <2>2. PICK q : q = [p EXCEPT !.state = "PASS", !.tries = 0]
    OBVIOUS
  <2>3. /\ q \in Progress
        /\ q.client = p.client /\ q.failed = p.failed /\ q.log = p.log /\ q.attempt = p.attempt
        /\ q.invoked = p.invoked /\ q.at = p.at /\ q.state = "PASS"
    BY <2>2 DEF Progress
  <2>. QED BY <1>3, <2>1, <2>2, <2>3
<1>4. CASE p.at # Len(Probes!Program(p))
  <2>1. Probes!Onward(p) = [p EXCEPT !.at = p.at + 1, !.tries = 0]
    BY <1>4 DEF Probes!Onward
  <2>4. PICK n \in Nat : n = p.at + 1
    BY <1>1
  <2>2. PICK q : q = [p EXCEPT !.at = n, !.tries = 0]
    OBVIOUS
  <2>3. /\ q \in Progress
        /\ q.client = p.client /\ q.failed = p.failed /\ q.log = p.log /\ q.attempt = p.attempt
        /\ q.invoked = p.invoked /\ q.at = n /\ q.state = p.state
    BY <2>2 DEF Progress
  <2>. QED BY <1>4, <2>1, <2>2, <2>3, <2>4
<1>. QED BY <1>2, <1>3, <1>4

LEMMA NotedIs ==
  ASSUME NEW p \in Progress
  PROVE  LET q == Probes!Noted(p) IN
         /\ q \in Progress /\ q.failed
         /\ q.client = p.client /\ q.log = p.log /\ q.attempt = p.attempt
         /\ q.invoked = p.invoked /\ q.at = p.at /\ q.state = p.state
BY DEF Probes!Noted, Progress

LEMMA RetriedIs ==
  ASSUME NEW p \in Progress
  PROVE  LET q == Probes!Retried(p) IN Alike(p, q) /\ q.invoked = p.invoked
BY DEF Probes!Retried, Progress, Alike

-----------------------------------------------------------------------------

\* The log keeps its entries and may get one of the Space as it is.
LEMMA HistoryKept ==
  ASSUME Probes!TypeOK, Probes!HistoryInv, SameSpace,
         NEW q \in Progress, probe' = q,
         \A i \in 1..Len(q.log) :
           \/ i \in 1..Len(probe.log) /\ q.log[i] = probe.log[i]
           \/ q.log[i].revision = site.revision /\ q.log[i].deploys = site.deploys
  PROVE  Probes!HistoryInv'
<1>1. site.deploys \in Nat /\ probe \in Progress
  BY SiteIs
<1>2. \A i \in 1..Len(probe.log) : probe.log[i].deploys \in Nat
  <2>1. probe.log \in Seq(Probes!Entry)
    BY <1>1 DEF Progress
  <2>2. \A i \in 1..Len(probe.log) : probe.log[i] \in Probes!Entry
    BY <2>1
  <2>. QED BY <2>2 DEF Probes!Entry
<1>3. \A i \in 1..Len(probe.log) :
        /\ probe.log[i].deploys <= site.deploys
        /\ probe.log[i].deploys = site.deploys => probe.log[i].revision = site.revision
        /\ probe.log[i].deploys + 1 = site.deploys => probe.log[i].revision # site.revision
        /\ \A j \in 1..Len(probe.log) :
             probe.log[j].deploys = probe.log[i].deploys + 1 => probe.log[j].revision # probe.log[i].revision
  BY DEF Probes!HistoryInv
<1>4. \A i \in 1..Len(q.log) :
        /\ q.log[i].deploys \in Nat
        /\ q.log[i].deploys <= site.deploys
        /\ q.log[i].deploys = site.deploys => q.log[i].revision = site.revision
        /\ q.log[i].deploys + 1 = site.deploys => q.log[i].revision # site.revision
  BY <1>1, <1>2, <1>3
<1>5. ASSUME NEW i \in 1..Len(q.log), NEW j \in 1..Len(q.log), q.log[j].deploys = q.log[i].deploys + 1
      PROVE  q.log[j].revision # q.log[i].revision
  <2>1. CASE q.log[j].revision = site.revision /\ q.log[j].deploys = site.deploys
    BY <1>4, <1>5, <2>1
  <2>2. CASE j \in 1..Len(probe.log) /\ q.log[j] = probe.log[j]
    <3>1. CASE q.log[i].revision = site.revision /\ q.log[i].deploys = site.deploys
      BY <1>1, <1>4, <1>5, <3>1
    <3>2. CASE i \in 1..Len(probe.log) /\ q.log[i] = probe.log[i]
      BY <1>3, <1>5, <2>2, <3>2
    <3>. QED BY <3>1, <3>2
  <2>. QED BY <2>1, <2>2
<1>. QED BY <1>4, <1>5 DEF Probes!HistoryInv, SameSpace

\* A good answer to the next request of a list is logged.
LEMMA GoodGoesOn ==
  ASSUME Probes!TypeOK, Probes!HistoryInv, Probes!LogInv, SameSpace,
         probe.state = "RUNNING", probe.client \in Probes!Sequential, ~ site.private,
         probe.client = "identity" => site.revision = MaxCommit,
         probe.client = "khipu" /\ probe.at = 1 => site.revision = MaxCommit,
         NEW p, Alike(probe, p), probe' = Probes!Onward(Probes!Logged(p))
  PROVE  /\ Probes!HistoryInv' /\ Probes!LogInv'
         /\ probe' \in Progress /\ probe'.client = probe.client /\ probe'.failed = probe.failed
         /\ probe'.attempt = probe.attempt /\ probe'.invoked = p.invoked
         /\ IF probe.at = Len(Probes!Program(probe)) THEN probe'.state # "RUNNING"
            ELSE probe'.state = "RUNNING" /\ probe'.at = probe.at + 1
<1>. DEFINE l == Probes!Logged(p)
            q == Probes!Onward(l)
<1>1. /\ p \in Progress /\ p.client = probe.client /\ p.at = probe.at /\ p.failed = probe.failed
      /\ p.state = "RUNNING" /\ p.log = probe.log /\ p.attempt = probe.attempt /\ p.at \in Nat
  BY DEF Alike, Progress
<1>2. /\ l \in Progress /\ l = [p EXCEPT !.log = l.log]
      /\ Len(p.log) \in Nat /\ Len(l.log) = Len(p.log) + 1
      /\ \A i \in 1..Len(p.log) : l.log[i] = p.log[i]
      /\ l.log[Len(p.log) + 1].at = p.at /\ l.log[Len(p.log) + 1].attempt = p.attempt
      /\ l.log[Len(p.log) + 1].private = site.private
      /\ l.log[Len(p.log) + 1].revision = site.revision /\ l.log[Len(p.log) + 1].deploys = site.deploys
  BY <1>1, LoggedIs
<1>3. l.client = p.client /\ l.at = p.at /\ l.failed = p.failed /\ l.state = p.state /\ l.attempt = p.attempt
      /\ l.invoked = p.invoked
  <2>. HIDE DEF l
  <2>. QED BY <1>1, <1>2 DEF Progress
<1>. HIDE DEF l
<1>4. /\ q \in Progress /\ q.client = p.client /\ q.failed = p.failed /\ q.log = l.log /\ q.attempt = p.attempt
      /\ q.invoked = p.invoked
      /\ IF p.at = Len(Probes!Program(l)) THEN q.at = p.at /\ q.state = IF p.failed THEN "FAIL" ELSE "PASS"
         ELSE q.at = p.at + 1 /\ q.state = "RUNNING"
  BY <1>1, <1>2, <1>3, OnwardIs
<1>5. probe' = q
  BY DEF l
<1>. HIDE DEF q
<1>6. Probes!HistoryInv'
  BY <1>1, <1>2, <1>4, <1>5, HistoryKept
<1>7. ASSUME Probes!OnTrack'
      PROVE  /\ \A i \in 1..Len(q.log) : ~ q.log[i].private
             /\ Len(q.log) = IF q.state = "PASS" THEN Len(Probes!Program(q)) ELSE q.at - 1
             /\ \A i \in 1..Len(q.log) : q.log[i].at = i
             /\ q.client = "khipu" =>
                  \A i \in 1..Len(q.log) :
                    IF i = 1 THEN q.log[i].revision = MaxCommit ELSE q.log[i].attempt = q.attempt
             /\ q.client = "identity" => \A i \in 1..Len(q.log) : q.log[i].revision = MaxCommit
  <2>1. ~ q.failed /\ q.state # "FAIL" /\ ~ probe.failed
    BY <1>1, <1>4, <1>5, <1>7 DEF Probes!OnTrack
  <2>2. /\ \A i \in 1..Len(probe.log) : ~ probe.log[i].private
        /\ Len(probe.log) = probe.at - 1
        /\ \A i \in 1..Len(probe.log) : probe.log[i].at = i
        /\ probe.client = "khipu" =>
             \A i \in 1..Len(probe.log) :
               IF i = 1 THEN probe.log[i].revision = MaxCommit ELSE probe.log[i].attempt = probe.attempt
        /\ probe.client = "identity" => \A i \in 1..Len(probe.log) : probe.log[i].revision = MaxCommit
    BY <2>1 DEF Probes!LogInv, Probes!OnTrack
  <2>3. Len(Probes!Program(q)) = Len(Probes!Program(l))
    BY <1>3, <1>4, ProgramIs
  <2>4. Len(q.log) = probe.at /\ probe.at \in Nat /\ Len(q.log) \in Nat
    BY <1>1, <1>2, <1>4, <2>2
  <2>5. ASSUME NEW i \in 1..Len(q.log)
        PROVE  /\ ~ q.log[i].private /\ q.log[i].at = i
               /\ q.client = "khipu" =>
                    IF i = 1 THEN q.log[i].revision = MaxCommit ELSE q.log[i].attempt = q.attempt
               /\ q.client = "identity" => q.log[i].revision = MaxCommit
    <3>1. CASE i \in 1..Len(probe.log)
      <4>1. q.log[i] = probe.log[i]
        BY <1>1, <1>2, <1>4, <3>1
      <4>. QED BY <1>1, <1>4, <2>2, <3>1, <4>1
    <3>2. CASE i = Len(p.log) + 1
      <4>1. /\ q.log[i].at = p.at /\ q.log[i].attempt = p.attempt /\ q.log[i].private = site.private
            /\ q.log[i].revision = site.revision
        BY <1>2, <1>4, <3>2
      <4>2. i = probe.at
        BY <1>1, <2>2, <3>2
      <4>. QED BY <1>1, <1>4, <4>1, <4>2
    <3>. QED BY <1>1, <1>2, <1>4, <3>1, <3>2
  <2>9. Len(q.log) = IF q.state = "PASS" THEN Len(Probes!Program(q)) ELSE q.at - 1
    BY <1>1, <1>4, <2>1, <2>3, <2>4
  <2>. QED BY <2>5, <2>9
<1>8. q.client \in {"live", "khipu", "identity"}
  BY <1>1, <1>4 DEF Probes!Sequential
<1>9. Probes!LogInv'
  BY <1>1, <1>4, <1>5, <1>7, <1>8 DEF Probes!LogInv, Probes!Sequential
<1>10. Len(Probes!Program(l)) = Len(Probes!Program(probe))
  BY <1>1, <1>3, ProgramIs
<1>. QED BY <1>1, <1>4, <1>5, <1>6, <1>9, <1>10

\* A probe that cannot pass any more.
LEMMA LostStays ==
  ASSUME Probes!TypeOK, Probes!HistoryInv, SameSpace,
         NEW q \in Progress, probe' = q, q.log = probe.log,
         q.state \in {"FAIL", "RAISED"} \/ (q.failed /\ q.state = "RUNNING")
  PROVE  Probes!HistoryInv' /\ Probes!LogInv'
<1>1. Probes!HistoryInv'
  BY HistoryKept
<1>2. ~ Probes!OnTrack'
  BY DEF Probes!OnTrack
<1>. QED BY <1>1, <1>2 DEF Probes!LogInv

\* A request that is made again.
LEMMA AgainStays ==
  ASSUME Probes!TypeOK, Probes!HistoryInv, Probes!LogInv, SameSpace,
         NEW q, Alike(probe, q), probe' = q
  PROVE  Probes!HistoryInv' /\ Probes!LogInv'
<1>1. /\ q \in Progress /\ q.client = probe.client /\ q.at = probe.at /\ q.failed = probe.failed
      /\ q.state = probe.state /\ q.log = probe.log /\ q.attempt = probe.attempt
  BY DEF Alike
<1>2. Probes!HistoryInv'
  BY <1>1, HistoryKept
<1>3. Len(Probes!Program(probe)) = Len(Probes!Program(q))
  BY <1>1, ProgramIs
<1>4. Probes!OnTrack' <=> Probes!OnTrack
  BY <1>1 DEF Probes!OnTrack
<1>5. Probes!LogInv'
  BY <1>1, <1>3, <1>4 DEF Probes!LogInv
<1>. QED BY <1>2, <1>5

LEMMA AnswersAre ==
  ASSUME Probes!TypeOK, NEW request, NEW answer \in Probes!Answers(request)
  PROVE  /\ answer.is \in {"fault", "refused", "malformed", "wrong", "good", "busy"}
         /\ answer.is = "good" => ~ site.private /\ Probes!Holds(request)
         /\ answer.is \in {"wrong", "malformed"} => ~ site.private
         /\ answer.is = "busy" => request[1] = "invoke"
BY DEF Probes!Answers, Probes!Answer, Probes!Served

\* The connector's fetches, the page and the documents of a vertical: probe_live_verticals.
LEMMA LiveStays ==
  ASSUME Probes!TypeOK, Probes!HistoryInv, Probes!LogInv, SameSpace,
         probe.state = "RUNNING", probe.client = "live",
         NEW answer \in Probes!Answers(Probes!Request), probe' = Probes!LiveStep(probe, answer)
  PROVE  /\ Probes!HistoryInv' /\ Probes!LogInv'
         /\ probe' \in Progress /\ probe'.client = "live"
<1>1. probe \in Progress /\ Alike(probe, probe)
  BY SiteIs DEF Alike
<1>2. CASE answer.is = "good"
  <2>1. probe' = Probes!Onward(Probes!Logged(probe))
    BY <1>2 DEF Probes!LiveStep
  <2>2. ~ site.private
    BY <1>2, AnswersAre
  <2>. QED BY <1>1, <2>1, <2>2, GoodGoesOn DEF Probes!Sequential
<1>3. CASE probe' = Probes!Onward(Probes!Noted(probe))
  <2>1. PICK n : n = Probes!Noted(probe)
    OBVIOUS
  <2>2. PICK q : q = Probes!Onward(n)
    OBVIOUS
  <2>3. /\ n \in Progress /\ n.failed /\ n.client = probe.client /\ n.log = probe.log /\ n.state = "RUNNING"
    BY <1>1, <2>1, NotedIs
  <2>4. /\ q \in Progress /\ q.failed /\ q.client = probe.client /\ q.log = probe.log
        /\ q.state \in {"FAIL", "RUNNING"}
    BY <2>2, <2>3, OnwardIs
  <2>. QED BY <1>3, <2>1, <2>2, <2>4, LostStays
<1>4. CASE probe' = Probes!Ended(probe, FALSE)
  BY <1>1, <1>4, EndedIs, LostStays
<1>5. CASE probe' = Probes!Retried(probe)
  <2>1. Alike(probe, probe')
    BY <1>1, <1>5, RetriedIs
  <2>. QED BY <2>1, AgainStays DEF Alike
<1>6. answer.is # "good" =>
        \/ probe' = Probes!Onward(Probes!Noted(probe))
        \/ probe' = Probes!Ended(probe, FALSE)
        \/ probe' = Probes!Retried(probe)
  BY DEF Probes!LiveStep, Probes!RetriedOr, Probes!GivenUp
<1>. QED BY <1>2, <1>3, <1>4, <1>5, <1>6

\* The four documents of the identity: verify_runtime_identity.
LEMMA IdentityStays ==
  ASSUME Probes!TypeOK, Probes!HistoryInv, Probes!LogInv, SameSpace,
         probe.state = "RUNNING", probe.client = "identity",
         NEW answer \in Probes!Answers(Probes!Request), probe' = Probes!IdentityStep(probe, answer)
  PROVE  /\ Probes!HistoryInv' /\ Probes!LogInv'
         /\ probe' \in Progress /\ probe'.client = "identity"
<1>1. probe \in Progress /\ Alike(probe, probe)
  BY SiteIs DEF Alike
<1>2. CASE answer.is = "good" /\ site.revision = MaxCommit
  <2>1. probe' = Probes!Onward(Probes!Logged(probe))
    BY <1>2 DEF Probes!IdentityStep, Probes!AgreesWithExpected
  <2>2. ~ site.private
    BY <1>2, AnswersAre
  <2>. QED BY <1>1, <1>2, <2>1, <2>2, GoodGoesOn DEF Probes!Sequential
<1>3. CASE probe' = Probes!Onward(Probes!Noted(probe))
  <2>1. PICK n : n = Probes!Noted(probe)
    OBVIOUS
  <2>2. PICK q : q = Probes!Onward(n)
    OBVIOUS
  <2>3. /\ n \in Progress /\ n.failed /\ n.client = probe.client /\ n.log = probe.log /\ n.state = "RUNNING"
    BY <1>1, <2>1, NotedIs
  <2>4. /\ q \in Progress /\ q.failed /\ q.client = probe.client /\ q.log = probe.log
        /\ q.state \in {"FAIL", "RUNNING"}
    BY <2>2, <2>3, OnwardIs
  <2>. QED BY <1>3, <2>1, <2>2, <2>4, LostStays
<1>4. CASE probe' = Probes!Retried(probe)
  <2>1. Alike(probe, probe')
    BY <1>1, <1>4, RetriedIs
  <2>. QED BY <2>1, AgainStays DEF Alike
<1>5. ~ (answer.is = "good" /\ site.revision = MaxCommit) =>
        \/ probe' = Probes!Onward(Probes!Noted(probe))
        \/ probe' = Probes!Retried(probe)
  BY DEF Probes!IdentityStep, Probes!RetriedOr, Probes!AgreesWithExpected
<1>. QED BY <1>2, <1>3, <1>4, <1>5

\* A chain of observations, a plan and an answer, made twice at most: probe_public_khipu.
\* The model is asked once more, or not.
LEMMA AskedIs ==
  ASSUME probe \in Progress,
         NEW n \in Nat, n = probe.invoked + (IF Probes!Request[1] = "invoke" THEN 1 ELSE 0)
  PROVE  /\ Alike(probe, Probes!Asked(probe)) /\ Probes!Asked(probe) \in Progress
         /\ Probes!Asked(probe).invoked = n
<1>1. PICK q : q = [probe EXCEPT !.invoked = n]
  OBVIOUS
<1>2. Probes!Asked(probe) = q
  BY <1>1 DEF Probes!Asked
<1>3. Alike(probe, q) /\ q \in Progress /\ q.invoked = n
  BY <1>1 DEF Alike, Progress
<1>. QED BY <1>2, <1>3

LEMMA KhipuStays ==
  ASSUME Probes!TypeOK, Probes!HistoryInv, Probes!LogInv, Probes!CallsInv, SameSpace,
         probe.state = "RUNNING", probe.client = "khipu",
         NEW answer \in Probes!Answers(Probes!Request), probe' = Probes!KhipuStep(probe, answer)
  PROVE  /\ Probes!HistoryInv' /\ Probes!LogInv' /\ Probes!CallsInv'
         /\ probe' \in Progress
<1>1. /\ probe \in Progress /\ probe.at \in 1..6 /\ ~ probe.failed
      /\ probe.invoked \in Nat /\ probe.attempt \in {1, 2}
      /\ probe.invoked <= probe.attempt /\ (probe.at <= 5 => probe.invoked < probe.attempt)
  BY SiteIs, ProgramIs DEF Probes!CallsInv, Progress
<1>2. /\ Probes!Request[1] = "invoke" <=> probe.at = 5
      /\ probe.at = 1 => Probes!Request[1] = "identity"
  BY <1>1 DEF Probes!Request, Probes!Program, Probes!KhipuProgram
<1>3. PICK n \in Nat : n = probe.invoked + (IF Probes!Request[1] = "invoke" THEN 1 ELSE 0)
  BY <1>1
<1>4. PICK asked : asked = Probes!Asked(probe)
  OBVIOUS
<1>5. Alike(probe, asked) /\ asked.invoked = n /\ asked \in Progress /\ asked.attempt = probe.attempt
  <2>1. Alike(probe, asked) /\ asked.invoked = n /\ asked \in Progress
    BY <1>1, <1>3, <1>4, AskedIs
  <2>. QED BY <2>1 DEF Alike
<1>6. /\ n <= probe.attempt
      /\ probe.at # 5 => n = probe.invoked
  BY <1>1, <1>2, <1>3
<1>7. probe' = CASE answer.is = "good" -> Probes!Onward(Probes!Logged(asked))
                 [] answer.is = "busy" /\ probe.attempt = 1 -> Probes!StartAgain(asked)
                 [] OTHER -> Probes!Ended(asked, FALSE)
  BY <1>4 DEF Probes!KhipuStep
<1>8. CASE answer.is = "good"
  <2>1. probe' = Probes!Onward(Probes!Logged(asked))
    BY <1>7, <1>8
  <2>2. ~ site.private /\ (probe.at = 1 => site.revision = MaxCommit)
    BY <1>2, <1>8, AnswersAre DEF Probes!Holds
  <2>3. /\ Probes!HistoryInv' /\ Probes!LogInv'
        /\ probe' \in Progress /\ probe'.client = "khipu" /\ probe'.failed = probe.failed
        /\ probe'.attempt = probe.attempt /\ probe'.invoked = n
        /\ IF probe.at = Len(Probes!Program(probe)) THEN probe'.state # "RUNNING"
           ELSE probe'.state = "RUNNING" /\ probe'.at = probe.at + 1
    BY <1>5, <2>1, <2>2, GoodGoesOn DEF Probes!Sequential
  <2>4. Len(Probes!Program(probe)) = 6 /\ Len(Probes!Program(probe')) = 6
    BY <2>3, ProgramIs
  <2>5. probe'.state = "RUNNING" => probe'.at \in 1..6 /\ (probe'.at <= 5 => n < probe.attempt)
    BY <1>1, <1>6, <2>3, <2>4
  <2>. QED BY <1>1, <1>6, <2>3, <2>4, <2>5 DEF Probes!CallsInv
<1>9. CASE answer.is = "busy" /\ probe.attempt = 1
  <2>1. PICK log : log = SubSeq(probe.log, 1, 1)
    OBVIOUS
  <2>2. probe.at = 5
    BY <1>2, <1>9, AnswersAre
  <2>3. Len(probe.log) = 4 /\ probe.log \in Seq(Probes!Entry) /\ Probes!OnTrack
    BY <1>1, <2>2 DEF Probes!LogInv, Probes!OnTrack, Probes!Sequential, Progress
  <2>4. log \in Seq(Probes!Entry) /\ Len(log) = 1 /\ log[1] = probe.log[1]
    BY <2>1, <2>3
  <2>5. probe' = [asked EXCEPT !.at = 2, !.attempt = 2, !.log = log]
    BY <1>5, <1>7, <1>9, <2>1 DEF Probes!StartAgain, Alike
  <2>6. PICK q : q = [asked EXCEPT !.at = 2, !.attempt = 2, !.log = log]
    OBVIOUS
  <2>7. /\ q \in Progress /\ q.client = "khipu" /\ q.at = 2 /\ q.attempt = 2 /\ q.log = log
        /\ ~ q.failed /\ q.state = "RUNNING" /\ q.invoked = n
    BY <1>1, <1>5, <2>4, <2>6 DEF Progress, Alike
  <2>8. probe' = q
    BY <2>5, <2>6
  <2>9. Probes!HistoryInv'
    BY <2>3, <2>4, <2>7, <2>8, HistoryKept
  <2>10. ~ probe.log[1].private /\ probe.log[1].at = 1 /\ probe.log[1].revision = MaxCommit
    BY <2>3 DEF Probes!LogInv, Probes!Sequential
  <2>11. Probes!LogInv'
    <3>1. \A i \in 1..Len(q.log) :
            i = 1 /\ ~ q.log[i].private /\ q.log[i].at = i /\ q.log[i].revision = MaxCommit
      <4>. TAKE i \in 1..Len(q.log)
      <4>1. q.log = log
        BY <2>7
      <4>4. Len(q.log) = 1
        BY <2>4, <4>1
      <4>5. i \in 1..1
        BY <4>4
      <4>2. i = 1
        BY <4>5
      <4>3. q.log[i] = probe.log[1]
        BY <2>4, <4>1, <4>2
      <4>. QED BY <2>10, <4>2, <4>3
    <3>2. Len(q.log) = q.at - 1
      BY <2>4, <2>7
    <3>3. Len(probe'.log) = probe'.at - 1 /\ probe'.client = "khipu" /\ probe'.state = "RUNNING"
      BY <2>7, <2>8, <3>2
    <3>4. \A i \in 1..Len(probe'.log) :
            /\ ~ probe'.log[i].private /\ probe'.log[i].at = i
            /\ IF i = 1 THEN probe'.log[i].revision = MaxCommit ELSE probe'.log[i].attempt = probe'.attempt
      BY <2>8, <3>1
    <3>. QED BY <3>3, <3>4 DEF Probes!LogInv
  <2>12. n <= 1 /\ Len(Probes!Program(q)) = 6
    BY <1>6, <1>9, <2>7, ProgramIs
  <2>13. Probes!CallsInv'
    BY <2>7, <2>8, <2>12 DEF Probes!CallsInv
  <2>. QED BY <2>7, <2>8, <2>9, <2>11, <2>13
<1>10. CASE probe' = Probes!Ended(asked, FALSE)
  <2>1. PICK q : q = Probes!Ended(asked, FALSE)
    OBVIOUS
  <2>2. /\ q \in Progress /\ q.state = "FAIL" /\ q.log = probe.log /\ q.client = "khipu" /\ ~ q.failed
    BY <1>1, <1>5, <2>1, EndedIs DEF Alike
  <2>3. q.invoked = n /\ q.attempt = probe.attempt
    BY <1>5, <2>1 DEF Probes!Ended, Progress
  <2>. QED BY <1>6, <1>10, <2>1, <2>2, <2>3, LostStays DEF Probes!CallsInv
<1>. QED BY <1>7, <1>8, <1>9, <1>10

LEMMA AskStays ==
  ASSUME Probes!ProbesInv, Probes!Ask
  PROVE  Probes!ProbesInv'
<1>1. /\ Probes!TypeOK /\ Probes!HistoryInv /\ Probes!LogInv /\ Probes!CallsInv
  BY DEF Probes!ProbesInv
<1>2. PICK answer \in Probes!Answers(Probes!Request) :
        /\ site' = [site EXCEPT !.seen = answer.seen]
        /\ probe' = CASE probe.client = "live" -> Probes!LiveStep(probe, answer)
                      [] probe.client = "khipu" -> Probes!KhipuStep(probe, answer)
                      [] probe.client = "identity" -> Probes!IdentityStep(probe, answer)
  BY DEF Probes!Ask
<1>3. probe.state = "RUNNING" /\ probe.client \in {"live", "khipu", "identity"}
  BY DEF Probes!Ask
<1>4. /\ SameSpace
      /\ site' \in [revision : Commits, deploys : Nat, up : BOOLEAN, private : BOOLEAN, seen : {site'.seen}]
  BY <1>1, <1>2 DEF Probes!TypeOK, SameSpace
<1>5. CASE probe.client = "live"
  <2>1. Probes!HistoryInv' /\ Probes!LogInv' /\ probe' \in Progress /\ probe'.client = "live"
    BY <1>1, <1>2, <1>3, <1>4, <1>5, LiveStays
  <2>2. Probes!CallsInv'
    BY <2>1 DEF Probes!CallsInv
  <2>. QED BY <1>4, <2>1, <2>2 DEF Probes!ProbesInv, Probes!TypeOK, Progress
<1>6. CASE probe.client = "identity"
  <2>1. Probes!HistoryInv' /\ Probes!LogInv' /\ probe' \in Progress /\ probe'.client = "identity"
    BY <1>1, <1>2, <1>3, <1>4, <1>6, IdentityStays
  <2>2. Probes!CallsInv'
    BY <2>1 DEF Probes!CallsInv
  <2>. QED BY <1>4, <2>1, <2>2 DEF Probes!ProbesInv, Probes!TypeOK, Progress
<1>7. CASE probe.client = "khipu"
  <2>1. Probes!HistoryInv' /\ Probes!LogInv' /\ Probes!CallsInv' /\ probe' \in Progress
    BY <1>1, <1>2, <1>3, <1>4, <1>7, KhipuStays
  <2>. QED BY <1>4, <2>1 DEF Probes!ProbesInv, Probes!TypeOK, Progress
<1>. QED BY <1>3, <1>5, <1>6, <1>7

\* The pool of the operator payload asks for every document once.
LEMMA AskTargetStays ==
  ASSUME Probes!ProbesInv, Probes!AskTarget
  PROVE  Probes!ProbesInv'
<1>1. /\ Probes!TypeOK /\ Probes!HistoryInv /\ Probes!LogInv
      /\ probe \in Progress /\ probe.state = "RUNNING" /\ probe.client = "operator"
      /\ site' = site
  BY SiteIs DEF Probes!ProbesInv, Probes!AskTarget
<1>2. DOMAIN Probes!OperatorProgram = 1..3 /\ Len(Probes!OperatorProgram) = 3
  BY DEF Probes!OperatorProgram
<1>3. PICK i \in 1..3 :
        /\ i \notin {probe.log[k].at : k \in DOMAIN probe.log}
        /\ \E answer \in Probes!Answers(Probes!OperatorProgram[i]) :
             LET asked == Probes!Logged([probe EXCEPT !.at = i])
                 all == [asked EXCEPT !.failed = @ \/ answer.is \notin {"good", "wrong"}]
             IN probe' = IF Len(all.log) = 3 THEN Probes!Ended(all, ~all.failed) ELSE all
  BY <1>2 DEF Probes!AskTarget
<1>3a. PICK answer \in Probes!Answers(Probes!OperatorProgram[i]) :
         LET asked == Probes!Logged([probe EXCEPT !.at = i])
             all == [asked EXCEPT !.failed = @ \/ answer.is \notin {"good", "wrong"}]
         IN probe' = IF Len(all.log) = 3 THEN Probes!Ended(all, ~all.failed) ELSE all
  BY <1>3
<1>4. PICK bad \in BOOLEAN : bad = (answer.is \notin {"good", "wrong"})
  OBVIOUS
<1>5. ~ bad => ~ site.private
  BY <1>1, <1>4, AnswersAre
<1>6. PICK p : p = [probe EXCEPT !.at = i]
  OBVIOUS
<1>7. /\ p \in Progress /\ p.at = i /\ p.client = "operator" /\ p.state = "RUNNING"
      /\ p.failed = probe.failed /\ p.log = probe.log
  BY <1>1, <1>6 DEF Progress
<1>8. PICK l : l = Probes!Logged(p)
  OBVIOUS
<1>9. /\ l \in Progress /\ l = [p EXCEPT !.log = l.log]
      /\ Len(p.log) \in Nat /\ Len(l.log) = Len(p.log) + 1
      /\ \A k \in 1..Len(p.log) : l.log[k] = p.log[k]
      /\ l.log[Len(p.log) + 1].at = i /\ l.log[Len(p.log) + 1].private = site.private
      /\ l.log[Len(p.log) + 1].revision = site.revision /\ l.log[Len(p.log) + 1].deploys = site.deploys
  BY <1>1, <1>7, <1>8, LoggedIs
<1>10. l.client = "operator" /\ l.state = "RUNNING" /\ l.failed = probe.failed
  BY <1>7, <1>9 DEF Progress
<1>11. PICK f \in BOOLEAN : f = (l.failed \/ bad)
  OBVIOUS
<1>12. PICK all : all = [l EXCEPT !.failed = f]
  OBVIOUS
<1>13. /\ all \in Progress /\ all.client = "operator" /\ all.state = "RUNNING" /\ all.log = l.log
       /\ all.failed = f
  BY <1>9, <1>10, <1>12 DEF Progress
<1>14. probe' = IF Len(all.log) = 3 THEN Probes!Ended(all, ~all.failed) ELSE all
  BY <1>4, <1>6, <1>8, <1>11, <1>12, <1>3a
<1>15. /\ probe' \in Progress /\ probe'.client = "operator" /\ probe'.log = l.log
       /\ probe'.state # "FAIL" => ~ f \/ Len(l.log) # 3
       /\ probe'.state = "PASS" => Len(l.log) = 3
       /\ ~ probe'.failed /\ probe'.state # "FAIL" => ~ f
       /\ probe'.state = "PASS" => ~ probe'.failed
  <2>1. CASE Len(all.log) # 3
    BY <1>13, <1>14, <2>1
  <2>2. CASE Len(all.log) = 3 /\ f
    <3>1. probe' = Probes!Ended(all, FALSE)
      BY <1>13, <1>14, <2>2 DEF Probes!Ended
    <3>. QED BY <1>13, <3>1, EndedIs
  <2>3. CASE Len(all.log) = 3 /\ ~ f
    <3>1. probe' = Probes!Ended(all, TRUE)
      BY <1>13, <1>14, <2>3 DEF Probes!Ended
    <3>. QED BY <1>13, <2>3, <3>1, EndedIs
  <2>. QED BY <2>1, <2>2, <2>3
<1>16. \A k \in 1..Len(l.log) :
         \/ k \in 1..Len(probe.log) /\ l.log[k] = probe.log[k]
         \/ k = Len(probe.log) + 1
  BY <1>7, <1>9
<1>17. Probes!HistoryInv'
  <2>1. PICK q \in Progress : q = probe'
    BY <1>15
  <2>2. q.log = l.log /\ SameSpace
    BY <1>1, <1>15, <2>1 DEF SameSpace
  <2>. QED BY <1>1, <1>7, <1>9, <1>16, <2>1, <2>2, HistoryKept
<1>18. Probes!LogInv'
  <2>. SUFFICES ASSUME Probes!OnTrack' PROVE Probes!LogInv'
    BY <1>15 DEF Probes!LogInv
  <2>1. ~ f
    BY <1>15 DEF Probes!OnTrack
  <2>2. ~ probe.failed /\ ~ site.private /\ Probes!OnTrack
    BY <1>1, <1>5, <1>10, <1>11, <2>1 DEF Probes!OnTrack
  <2>3. /\ \A k \in 1..Len(probe.log) : ~ probe.log[k].private /\ probe.log[k].at \in 1..3
        /\ \A k, m \in 1..Len(probe.log) : probe.log[k].at = probe.log[m].at => k = m
    BY <1>1, <2>2 DEF Probes!LogInv
  <2>4. \A k \in 1..Len(probe.log) : probe.log[k].at # i
    <3>1. probe.log \in Seq(Probes!Entry)
      BY <1>1 DEF Progress
    <3>2. DOMAIN probe.log = 1..Len(probe.log)
      BY <3>1
    <3>. QED BY <1>3, <3>2
  <2>5. \A k \in 1..Len(l.log) :
          /\ ~ l.log[k].private /\ l.log[k].at \in 1..3
          /\ k = Len(probe.log) + 1 => l.log[k].at = i
          /\ k # Len(probe.log) + 1 => k \in 1..Len(probe.log) /\ l.log[k].at = probe.log[k].at
    <3>. TAKE k \in 1..Len(l.log)
    <3>1. CASE k = Len(probe.log) + 1
      <4>1. l.log[k].at = i /\ l.log[k].private = site.private
        BY <1>7, <1>9, <3>1
      <4>. QED BY <2>2, <3>1, <4>1
    <3>2. CASE k # Len(probe.log) + 1
      <4>1. k \in 1..Len(probe.log) /\ l.log[k] = probe.log[k]
        BY <1>16, <3>2
      <4>. QED BY <2>3, <3>2, <4>1
    <3>. QED BY <3>1, <3>2
  <2>6. \A k, m \in 1..Len(l.log) : l.log[k].at = l.log[m].at => k = m
    BY <2>3, <2>4, <2>5
  <2>7. /\ \A k \in 1..Len(probe'.log) : ~ probe'.log[k].private /\ probe'.log[k].at \in 1..3
        /\ \A k, m \in 1..Len(probe'.log) : probe'.log[k].at = probe'.log[m].at => k = m
        /\ probe'.state = "PASS" => Len(probe'.log) = 3
    BY <1>15, <2>5, <2>6
  <2>. QED BY <1>15, <2>7 DEF Probes!LogInv, Probes!Sequential
<1>19. Probes!CallsInv'
  BY <1>15 DEF Probes!CallsInv
<1>. QED BY <1>1, <1>15, <1>17, <1>18, <1>19 DEF Probes!ProbesInv, Probes!TypeOK, Progress

\* A private Space is set public and asked for again: ensure_public_space_visibility.
LEMMA EnsurePublicStays ==
  ASSUME Probes!ProbesInv, Probes!EnsurePublic
  PROVE  Probes!ProbesInv'
<1>1. /\ Probes!TypeOK /\ Probes!HistoryInv /\ Probes!LogInv
      /\ probe \in Progress /\ probe.state = "RUNNING" /\ probe.client = "visibility"
      /\ probe.at \in 1..4 /\ ~ probe.failed /\ site.private \in BOOLEAN
  <2>1. /\ Probes!TypeOK /\ Probes!HistoryInv /\ Probes!LogInv /\ Probes!CallsInv
        /\ probe.state = "RUNNING" /\ probe.client = "visibility"
    BY DEF Probes!ProbesInv, Probes!EnsurePublic
  <2>2. Len(Probes!Program(probe)) = 4
    BY <2>1, ProgramIs
  <2>3. probe.at \in 1..4 /\ ~ probe.failed
    BY <2>1, <2>2 DEF Probes!CallsInv
  <2>. QED BY <2>1, <2>3, SiteIs
<1>2. /\ Probes!Request[1] = "measure" <=> probe.at \in {1, 3}
      /\ Probes!Request[1] = "update" <=> probe.at = 2
      /\ Probes!Request[1] = "healthz" <=> probe.at = 4
  BY <1>1 DEF Probes!Request, Probes!Program, Probes!VisibilityProgram
<1>3. /\ SameSpace
      /\ site' \in [revision : Commits, deploys : Nat, up : BOOLEAN, private : BOOLEAN, seen : {site'.seen}]
  BY <1>1 DEF Probes!EnsurePublic, Probes!TypeOK, SameSpace
<1>4. ASSUME NEW q \in Progress, probe' = q, q.client = "visibility", q.log = probe.log,
             q.failed = probe.failed, q.state = "RUNNING" /\ q.at \in 1..4
      PROVE  Probes!ProbesInv'
  <2>1. Probes!HistoryInv'
    BY <1>1, <1>3, <1>4, HistoryKept
  <2>2. Probes!LogInv'
    <3>1. Probes!OnTrack' => q.state = "RUNNING" /\ Probes!OnTrack
      BY <1>1, <1>4 DEF Probes!OnTrack
    <3>2. Probes!OnTrack => probe.log = <<>> /\ Len(probe.log) = 0
      BY <1>1 DEF Probes!LogInv
    <3>. QED BY <1>4, <3>1, <3>2 DEF Probes!LogInv, Probes!Sequential
  <2>3. Probes!CallsInv'
    <3>1. Len(Probes!Program(q)) = 4
      BY <1>4, ProgramIs
    <3>. QED BY <1>1, <1>4, <3>1 DEF Probes!CallsInv
  <2>. QED BY <1>3, <1>4, <2>1, <2>2, <2>3 DEF Probes!ProbesInv, Probes!TypeOK, Progress
<1>5. ASSUME NEW p \in Progress, p.client = "visibility", p.state = "RUNNING", p.at = probe.at,
             p.failed = probe.failed, p.log = probe.log, probe.at \in 1..3, probe' = Probes!Onward(p)
      PROVE  Probes!ProbesInv'
  <2>1. Len(Probes!Program(p)) = 4
    BY <1>5, ProgramIs
  <2>2. PICK q : q = Probes!Onward(p)
    OBVIOUS
  <2>3. /\ q \in Progress /\ q.client = "visibility" /\ q.failed = probe.failed /\ q.log = probe.log
        /\ q.at = probe.at + 1 /\ q.state = "RUNNING"
    <3>1. p.at # Len(Probes!Program(p))
      BY <1>5, <2>1
    <3>. QED BY <1>5, <2>2, <3>1, OnwardIs
  <2>4. q.at \in 1..4
    BY <1>5, <2>3
  <2>. QED BY <1>4, <1>5, <2>2, <2>3, <2>4
<1>6. PICK m : m = [probe EXCEPT !.private = site.private]
  OBVIOUS
<1>7. /\ m \in Progress /\ m.client = "visibility" /\ m.state = "RUNNING" /\ m.at = probe.at
      /\ m.failed = probe.failed /\ m.log = probe.log
  BY <1>1, <1>6 DEF Progress
<1>8. CASE Probes!Request[1] = "measure" /\ probe' = [m EXCEPT !.at = 4]
  <2>1. PICK q : q = [m EXCEPT !.at = 4]
    OBVIOUS
  <2>2. /\ q \in Progress /\ q.client = "visibility" /\ q.state = "RUNNING" /\ q.at = 4
        /\ q.failed = probe.failed /\ q.log = probe.log
    BY <1>7, <2>1 DEF Progress
  <2>3. probe' = q /\ q.at \in 1..4
    BY <1>8, <2>1, <2>2
  <2>. QED BY <1>4, <2>2, <2>3
<1>9. CASE Probes!Request[1] = "measure" /\ probe' = Probes!Onward(m)
  BY <1>1, <1>2, <1>5, <1>7, <1>9
<1>10. CASE Probes!Request[1] = "update" /\ probe' = Probes!Onward(probe)
  BY <1>1, <1>2, <1>5, <1>10
<1>. QED BY <1>6, <1>8, <1>9, <1>10 DEF Probes!EnsurePublic, Probes!Measured

\* A tool that raises.
LEMMA RaiseStays ==
  ASSUME Probes!ProbesInv, Probes!Raise
  PROVE  Probes!ProbesInv'
<1>1. /\ Probes!TypeOK /\ Probes!HistoryInv /\ Probes!LogInv /\ Probes!CallsInv
      /\ probe \in Progress /\ probe.state = "RUNNING"
      /\ probe.client \in {"khipu", "identity", "visibility"} /\ site' = site
  BY SiteIs DEF Probes!ProbesInv, Probes!Raise
<1>2. PICK n \in Nat : n = probe.invoked + (IF Probes!Request[1] = "invoke" THEN 1 ELSE 0)
  BY <1>1 DEF Progress
<1>3. PICK asked : asked = Probes!Asked(probe)
  OBVIOUS
<1>4. Alike(probe, asked) /\ asked \in Progress /\ asked.invoked = n
  BY <1>1, <1>2, <1>3, AskedIs
<1>5. PICK q : q = [asked EXCEPT !.state = "RAISED", !.tries = 0]
  OBVIOUS
<1>6. /\ q \in Progress /\ q.state = "RAISED" /\ q.log = probe.log /\ q.client = probe.client
      /\ q.failed = probe.failed /\ q.invoked = n /\ q.attempt = probe.attempt
  BY <1>4, <1>5 DEF Progress, Alike
<1>7. probe' = q
  BY <1>3, <1>5 DEF Probes!Raise, Probes!Raised
<1>8. Probes!HistoryInv' /\ Probes!LogInv'
  BY <1>1, <1>6, <1>7, LostStays DEF SameSpace
<1>9. probe.client = "khipu" => n <= probe.attempt
  <2>. SUFFICES ASSUME probe.client = "khipu" PROVE n <= probe.attempt
    OBVIOUS
  <2>1. /\ probe.at \in 1..6 /\ probe.invoked \in Nat /\ probe.attempt \in {1, 2}
        /\ probe.invoked <= probe.attempt /\ (probe.at <= 5 => probe.invoked < probe.attempt)
    BY <1>1, ProgramIs DEF Probes!CallsInv, Progress
  <2>2. Probes!Request[1] = "invoke" => probe.at = 5
    BY <2>1 DEF Probes!Request, Probes!Program, Probes!KhipuProgram
  <2>. QED BY <1>2, <2>1, <2>2
<1>10. Probes!CallsInv'
  BY <1>1, <1>6, <1>7, <1>9 DEF Probes!CallsInv
<1>11. Probes!TypeOK'
  BY <1>1, <1>6, <1>7 DEF Probes!TypeOK, Progress
<1>. QED BY <1>8, <1>10, <1>11 DEF Probes!ProbesInv

LEMMA UnauthenticatedStays ==
  ASSUME Probes!ProbesInv, Probes!ProbeUnauthenticated
  PROVE  Probes!ProbesInv'
<1>1. /\ Probes!TypeOK /\ Probes!HistoryInv /\ Probes!LogInv
      /\ probe \in Progress /\ probe.state = "RUNNING" /\ probe.client = "visibility"
      /\ probe.at \in 1..4 /\ ~ probe.failed /\ site' = site /\ SameSpace
  <2>1. /\ Probes!TypeOK /\ Probes!HistoryInv /\ Probes!LogInv /\ Probes!CallsInv
        /\ probe.state = "RUNNING" /\ probe.client = "visibility" /\ site' = site
    BY DEF Probes!ProbesInv, Probes!ProbeUnauthenticated
  <2>2. Len(Probes!Program(probe)) = 4
    BY <2>1, ProgramIs
  <2>3. probe.at \in 1..4 /\ ~ probe.failed
    BY <2>1, <2>2 DEF Probes!CallsInv
  <2>. QED BY <2>1, <2>3, SiteIs DEF SameSpace
<1>2. probe.at = 4
  BY <1>1 DEF Probes!ProbeUnauthenticated, Probes!Request, Probes!Program, Probes!VisibilityProgram
<1>3. PICK answer \in Probes!Answers(Probes!Request) :
        LET ok == answer.is \in {"good", "wrong", "malformed"} /\ ~probe.private
        IN probe' = Probes!Ended(IF ok THEN Probes!Logged(probe) ELSE probe, ok)
  BY DEF Probes!ProbeUnauthenticated
<1>4. PICK ok \in BOOLEAN : ok = (answer.is \in {"good", "wrong", "malformed"} /\ ~probe.private)
  OBVIOUS
<1>5. CASE ~ ok
  <2>1. probe' = Probes!Ended(probe, FALSE)
    BY <1>3, <1>4, <1>5 DEF Probes!Ended
  <2>2. PICK q : q = Probes!Ended(probe, FALSE)
    OBVIOUS
  <2>3. q \in Progress /\ q.state = "FAIL" /\ q.client = "visibility" /\ q.log = probe.log /\ ~ q.failed
    BY <1>1, <2>2, EndedIs
  <2>4. Probes!HistoryInv' /\ Probes!LogInv'
    BY <1>1, <2>1, <2>2, <2>3, LostStays
  <2>5. Probes!CallsInv'
    BY <2>1, <2>2, <2>3 DEF Probes!CallsInv
  <2>. QED BY <1>1, <2>1, <2>2, <2>3, <2>4, <2>5 DEF Probes!ProbesInv, Probes!TypeOK, Progress
<1>6. CASE ok
  <2>1. ~ site.private
    BY <1>1, <1>4, <1>6, AnswersAre
  <2>2. PICK l : l = Probes!Logged(probe)
    OBVIOUS
  <2>3. /\ l \in Progress /\ l = [probe EXCEPT !.log = l.log]
        /\ Len(probe.log) \in Nat /\ Len(l.log) = Len(probe.log) + 1
        /\ \A k \in 1..Len(probe.log) : l.log[k] = probe.log[k]
        /\ l.log[Len(probe.log) + 1].at = 4 /\ l.log[Len(probe.log) + 1].private = site.private
        /\ l.log[Len(probe.log) + 1].revision = site.revision /\ l.log[Len(probe.log) + 1].deploys = site.deploys
    BY <1>1, <1>2, <2>2, LoggedIs
  <2>4. l.client = "visibility" /\ l.failed = probe.failed
    BY <1>1, <2>3 DEF Progress
  <2>5. probe' = Probes!Ended(l, TRUE)
    BY <1>3, <1>4, <1>6, <2>2 DEF Probes!Ended
  <2>6. PICK q : q = Probes!Ended(l, TRUE)
    OBVIOUS
  <2>7. /\ q \in Progress /\ q.state = "PASS" /\ q.client = "visibility" /\ q.failed = probe.failed
        /\ q.log = l.log
    BY <2>3, <2>4, <2>6, EndedIs
  <2>8. probe' = q
    BY <2>5, <2>6
  <2>9. \A k \in 1..Len(q.log) : k \in 1..Len(probe.log) \/ k = Len(probe.log) + 1
    BY <2>3, <2>7
  <2>10. Probes!HistoryInv'
    BY <1>1, <2>3, <2>7, <2>8, <2>9, HistoryKept
  <2>11. Probes!LogInv'
    <3>. SUFFICES ASSUME Probes!OnTrack' PROVE Probes!LogInv'
      BY <1>1, <2>4, <2>7, <2>8 DEF Probes!LogInv
    <3>1. probe.log = <<>> /\ Len(probe.log) = 0
      BY <1>1, <2>7, <2>8 DEF Probes!LogInv, Probes!OnTrack
    <3>2. Len(q.log) = 1 /\ q.log[1].at = 4 /\ ~ q.log[1].private
      BY <2>1, <2>3, <2>7, <3>1
    <3>3. \A k \in 1..Len(q.log) : k = 1
      BY <3>2
    <3>4. /\ probe'.client = "visibility" /\ probe'.state = "PASS" /\ ~ probe'.failed
          /\ Len(probe'.log) = 1 /\ probe'.log[1].at = 4
          /\ \A k \in 1..Len(probe'.log) : ~ probe'.log[k].private
      BY <1>1, <2>4, <2>7, <2>8, <3>2, <3>3
    <3>. QED BY <3>4 DEF Probes!LogInv, Probes!Sequential
  <2>12. Probes!CallsInv'
    BY <1>1, <2>4, <2>7, <2>8 DEF Probes!CallsInv
  <2>. QED BY <1>1, <2>7, <2>8, <2>10, <2>11, <2>12 DEF Probes!ProbesInv, Probes!TypeOK, Progress
<1>. QED BY <1>5, <1>6

\* What happens to the Space while a probe runs.
LEMMA ChangesStay ==
  ASSUME Probes!ProbesInv,
         (\E revision \in Commits : Probes!Deploy(revision)) \/ Probes!Restart \/ Probes!Stop \/ Probes!SetPrivate
  PROVE  Probes!ProbesInv'
<1>1. /\ Probes!TypeOK /\ Probes!HistoryInv /\ Probes!LogInv /\ Probes!CallsInv /\ probe \in Progress
      /\ site \in [revision : Commits, deploys : Nat, up : BOOLEAN, private : BOOLEAN, seen : {site.seen}]
  BY SiteIs DEF Probes!ProbesInv, Probes!TypeOK
<1>2. probe' = probe
  BY DEF Probes!Deploy, Probes!Restart, Probes!Stop, Probes!SetPrivate, Probes!Changes
<1>3. Probes!CallsInv'
  BY <1>1, <1>2 DEF Probes!CallsInv
<1>4. ASSUME site' \in [revision : Commits, deploys : Nat, up : BOOLEAN, private : BOOLEAN, seen : {site'.seen}],
             Probes!HistoryInv', Probes!LogInv'
      PROVE  Probes!ProbesInv'
  BY <1>1, <1>2, <1>3, <1>4 DEF Probes!ProbesInv, Probes!TypeOK, Progress
<1>5. CASE Probes!Restart \/ Probes!Stop \/ Probes!SetPrivate
  <2>1. /\ SameSpace
        /\ site' \in [revision : Commits, deploys : Nat, up : BOOLEAN, private : BOOLEAN, seen : {site'.seen}]
    BY <1>1, <1>5 DEF Probes!Restart, Probes!Stop, Probes!SetPrivate, Probes!Changes, SameSpace
  <2>2. Alike(probe, probe)
    BY <1>1 DEF Alike
  <2>. QED BY <1>1, <1>2, <1>4, <2>1, <2>2, AgainStays
<1>6. ASSUME NEW revision \in Commits, Probes!Deploy(revision) PROVE Probes!ProbesInv'
  <2>1. /\ revision # site.revision
        /\ site'.revision = revision /\ site'.deploys = site.deploys + 1
        /\ site' \in [revision : Commits, deploys : Nat, up : BOOLEAN, private : BOOLEAN, seen : {site'.seen}]
    <3>1. revision # site.revision
      BY <1>6 DEF Probes!Deploy
    <3>2. PICK seen : site' = [site EXCEPT !.revision = revision, !.deploys = @ + 1, !.up = TRUE, !.seen = seen]
      BY <1>6 DEF Probes!Deploy, Probes!Changes
    <3>3. PICK n \in Nat : n = site.deploys + 1
      BY <1>1
    <3>4. site' = [site EXCEPT !.revision = revision, !.deploys = n, !.up = TRUE, !.seen = seen]
      BY <1>1, <3>2, <3>3
    <3>5. /\ site'.revision = revision /\ site'.deploys = n /\ site'.seen = seen
          /\ site' \in [revision : Commits, deploys : Nat, up : BOOLEAN, private : BOOLEAN, seen : {seen}]
      BY <1>1, <3>4
    <3>. QED BY <3>1, <3>3, <3>5
  <2>2. site.deploys \in Nat
    BY <1>1
  <2>3. \A i \in 1..Len(probe.log) : probe.log[i].deploys \in Nat
    <3>1. probe.log \in Seq(Probes!Entry)
      BY <1>1 DEF Progress
    <3>2. \A i \in 1..Len(probe.log) : probe.log[i] \in Probes!Entry
      BY <3>1
    <3>. QED BY <3>2 DEF Probes!Entry
  <2>4. Probes!HistoryInv'
    BY <1>1, <1>2, <2>1, <2>2, <2>3 DEF Probes!HistoryInv
  <2>5. Probes!LogInv'
    BY <1>1, <1>2 DEF Probes!LogInv, Probes!OnTrack
  <2>. QED BY <1>4, <2>1, <2>4, <2>5
<1>. QED BY <1>5, <1>6

LEMMA ProbesStart == Probes!Init => Probes!ProbesInv
<1>. SUFFICES ASSUME Probes!Init PROVE Probes!ProbesInv
  OBVIOUS
<1>1. PICK c \in Probes!Clients :
        probe = [client |-> c, at |-> 1, tries |-> 0, failed |-> FALSE, state |-> "RUNNING",
                 log |-> <<>>, attempt |-> 1, invoked |-> 0, private |-> TRUE]
  BY DEF Probes!Init
<1>2. site \in [revision : Commits, deploys : {0}, up : BOOLEAN, private : BOOLEAN, seen : {{}}]
  BY DEF Probes!Init
<1>3. /\ probe.client = c /\ probe.at = 1 /\ ~ probe.failed /\ probe.state = "RUNNING" /\ probe.log = <<>>
      /\ probe.attempt = 1 /\ probe.invoked = 0 /\ Len(probe.log) = 0
  BY <1>1
<1>4. Probes!TypeOK
  <2>1. <<>> \in Seq(Probes!Entry)
    OBVIOUS
  <2>. QED BY <1>1, <1>2, <2>1 DEF Probes!TypeOK
<1>5. Probes!HistoryInv
  BY <1>3 DEF Probes!HistoryInv
<1>6. Probes!LogInv
  BY <1>3 DEF Probes!LogInv
<1>7. Probes!CallsInv
  <2>1. c \in {"khipu", "visibility"} => Len(Probes!Program(probe)) \in {4, 6}
    BY <1>3, ProgramIs
  <2>2. c \in {"khipu", "visibility"} => 1 \in 1..Len(Probes!Program(probe))
    BY <2>1
  <2>3. probe.client \in {"khipu", "visibility"} /\ probe.state = "RUNNING" =>
          probe.at \in 1..Len(Probes!Program(probe))
    BY <1>3, <2>2
  <2>4. probe.invoked <= probe.attempt /\ probe.invoked < probe.attempt
    BY <1>3
  <2>. QED BY <1>3, <2>3, <2>4 DEF Probes!CallsInv
<1>. QED BY <1>4, <1>5, <1>6, <1>7 DEF Probes!ProbesInv

LEMMA ProbesStay ==
  ASSUME Probes!ProbesInv, [Probes!Next]_probeVars
  PROVE  Probes!ProbesInv'
<1>1. CASE UNCHANGED probeVars
  <2>1. site' = site /\ probe' = probe
    BY <1>1 DEF probeVars
  <2>2. Probes!TypeOK' /\ Probes!HistoryInv'
    BY <2>1 DEF Probes!ProbesInv, Probes!TypeOK, Probes!HistoryInv
  <2>3. Probes!LogInv' /\ Probes!CallsInv'
    BY <2>1 DEF Probes!ProbesInv, Probes!LogInv, Probes!OnTrack, Probes!CallsInv
  <2>. QED BY <2>2, <2>3 DEF Probes!ProbesInv
<1>2. CASE Probes!ProbeStep
  BY <1>2, AskStays, AskTargetStays, EnsurePublicStays, UnauthenticatedStays, RaiseStays
     DEF Probes!ProbeStep
<1>3. CASE (\E revision \in Commits : Probes!Deploy(revision)) \/ Probes!Restart \/ Probes!Stop \/ Probes!SetPrivate
  BY <1>3, ChangesStay
<1>. QED BY <1>1, <1>2, <1>3 DEF Probes!Next

\* What a probe that passed has shown.
LEMMA WholeProbes == Probes!ProbesInv => Probes!ProbesAreWhole
<1>. SUFFICES ASSUME Probes!ProbesInv PROVE Probes!ProbesAreWhole
  OBVIOUS
<1>1. probe \in Progress /\ probe.log \in Seq(Probes!Entry) /\ DOMAIN probe.log = 1..Len(probe.log)
  BY SiteIs DEF Probes!ProbesInv, Progress
<1>. DEFINE n == Len(probe.log)
<1>2. ASSUME probe.state = "PASS"
      PROVE  /\ \A i \in 1..n : ~probe.log[i].private
             /\ probe.client \in {"live", "khipu", "identity"} =>
                  n = Len(Probes!Program(probe)) /\ \A i \in 1..n : probe.log[i].at = i
             /\ probe.client = "khipu" =>
                  \A i \in 1..n :
                    IF i = 1 THEN probe.log[i].revision = MaxCommit ELSE probe.log[i].attempt = probe.attempt
             /\ probe.client = "identity" => \A i \in 1..n : probe.log[i].revision = MaxCommit
             /\ probe.client = "operator" =>
                  /\ n = 3
                  /\ \A i \in 1..n : probe.log[i].at \in 1..3
                  /\ \A i, j \in 1..n : probe.log[i].at = probe.log[j].at => i = j
             /\ probe.client = "visibility" => n = 1 /\ probe.log[1].at = 4
  BY <1>2 DEF Probes!ProbesInv, Probes!LogInv, Probes!OnTrack, Probes!Sequential
<1>3. Probes!PassedIsWhole
  <2>1. Probes!Passed("live") => Probes!LogIs([i \in 1..Len(Probes!LiveProgram) |-> i])
    BY <1>2 DEF Probes!Passed, Probes!LogIs, Probes!Program
  <2>2. Probes!Passed("operator") => {probe.log[i].at : i \in DOMAIN probe.log} = DOMAIN Probes!OperatorProgram
    <3>. SUFFICES ASSUME Probes!Passed("operator")
                  PROVE  {probe.log[i].at : i \in 1..n} = 1..3
      BY <1>1 DEF Probes!OperatorProgram
    <3>1. /\ n = 3
          /\ \A i \in 1..3 : probe.log[i].at \in 1..3
          /\ \A i, j \in 1..3 : probe.log[i].at = probe.log[j].at => i = j
      BY <1>2 DEF Probes!Passed
    <3>2. /\ probe.log[1].at \in 1..3 /\ probe.log[2].at \in 1..3 /\ probe.log[3].at \in 1..3
          /\ probe.log[1].at # probe.log[2].at /\ probe.log[1].at # probe.log[3].at
          /\ probe.log[2].at # probe.log[3].at
      BY <3>1
    <3>3. \A k \in 1..3 : \E i \in 1..3 : probe.log[i].at = k
      BY <3>2
    <3>. QED BY <3>1, <3>3
  <2>3. Probes!Passed("visibility") => Probes!LogIs(<<4>>)
    BY <1>2 DEF Probes!Passed, Probes!LogIs
  <2>. QED BY <1>1, <1>2, <2>1, <2>2, <2>3 DEF Probes!PassedIsWhole
<1>4. Probes!VerifiedIsOneAttempt
  <2>1. probe.client = "khipu" => probe.invoked <= probe.attempt
    BY DEF Probes!ProbesInv, Probes!CallsInv
  <2>2. ASSUME Probes!Passed("khipu")
        PROVE  /\ Probes!LogIs(<<1, 2, 3, 4, 5, 6>>)
               /\ probe.log[1].revision = MaxCommit
               /\ \A i \in 2..6 : probe.log[i].attempt = probe.attempt
    <3>1. n = 6
      BY <1>2, <2>2, ProgramIs DEF Probes!Passed
    <3>. QED BY <1>2, <2>2, <3>1 DEF Probes!Passed, Probes!LogIs
  <2>. QED BY <2>1, <2>2 DEF Probes!VerifiedIsOneAttempt
<1>5. Probes!IdentityHeldThroughout
  <2>. SUFFICES ASSUME Probes!Passed("identity")
                PROVE  /\ Probes!LogIs(<<1, 2, 3, 4>>)
                       /\ \A i \in 1..4 : probe.log[i].revision = MaxCommit
                       /\ \A i, j \in 1..4 : probe.log[j].deploys # probe.log[i].deploys + 1
    BY DEF Probes!IdentityHeldThroughout
  <2>1. n = 4
    BY <1>2, ProgramIs DEF Probes!Passed
  <2>2. \A i \in 1..4 : probe.log[i].revision = MaxCommit
    BY <1>2, <2>1 DEF Probes!Passed
  <2>3. \A i, j \in 1..4 : probe.log[j].deploys # probe.log[i].deploys + 1
    BY <2>1, <2>2 DEF Probes!ProbesInv, Probes!HistoryInv
  <2>. QED BY <1>2, <2>1, <2>2, <2>3 DEF Probes!Passed, Probes!LogIs
<1>. QED BY <1>3, <1>4, <1>5 DEF Probes!ProbesAreWhole

\* A probe that passed got a good answer to every request of its list from a public Space,
\* of one attempt and of the expected revision, however the Space was deployed, restarted,
\* stopped or hidden between its requests (probe_live_verticals, probe_public_khipu,
\* verify_runtime_identity, ensure_public_space_visibility, szl_frontier_payload).
THEOREM PassedProbesAreWhole == ToolSpec => []ProbesAreWhole
<1>. DEFINE Inv == tool = "probe" => Probes!ProbesInv
<1>1. ToolInit => Inv
  BY ProbesStart DEF ToolInit
<1>2. Inv /\ [ToolNext]_toolVars => Inv'
  <2>. SUFFICES ASSUME Inv, [ToolNext]_toolVars, tool' = "probe" PROVE Probes!ProbesInv'
    OBVIOUS
  <2>1. tool = "probe" /\ [Probes!Next]_probeVars
    BY DEF ToolNext, toolVars, OnlyAttest, OnlyProbe
  <2>. QED BY <2>1, ProbesStay
<1>3. Inv => ProbesAreWhole
  BY WholeProbes DEF ProbesAreWhole
<1>. QED BY <1>1, <1>2, <1>3, PTL DEF ToolSpec

=============================================================================
