------------------------------- MODULE GuardTeeth -------------------------------
(***************************************************************************)
(* tools/guard_teeth.py: for every guard of a manifest the tests run on a  *)
(* copy of the working tree from which the guard was removed, after they   *)
(* ran on a copy that was not changed.  Guards run in a pool of threads;   *)
(* each copies the tree at its own time, file after file, while others     *)
(* (another agent, an editor) may edit it and the disk may fill up.  The   *)
(* files a run is about are hashed before and after it.                    *)
(*                                                                         *)
(* pytest and the import of a module are outside the repository: they are  *)
(* modelled by what they can report of a mutant of a given nature.  An     *)
(* edited file may make them report anything.  A failure that a full disk  *)
(* caused may tell so in the output or not, and the disk may be free again *)
(* when the tests have ended.                                              *)
(***************************************************************************)
EXTENDS Naturals, FiniteSets

CONSTANTS
  Guards,   \* ids of the manifest's guards
  MaxEdits, \* bound on the edits of the working tree
  MaxFills  \* bound on the times the disk fills up

\* One tracked file that holds the guards, one tracked test file and a scratch
\* file that Git does not track.
Files == {"code", "test", "scratch"}
Tracked == {"code", "test"}

Place(f) == CASE f = "code" -> 1 [] f = "test" -> 2 [] f = "scratch" -> 3

Baseline == "baseline"
Jobs == Guards \cup {Baseline}

TeethAssumption == Baseline \notin Guards

\* What a mutant that can be run is: its tests fail at it, pass with it, are none,
\* never end, or fail only in a fixture or only by a name that is not bound; or it
\* cannot be imported.
Natures == {"caught", "missed", "untested", "hanging", "fixture", "unbound", "unimportable"}

VARIABLES
  tree,     \* the working tree: for each file whether it differs from what was hashed
  edits,    \* edits made so far
  undone,   \* whether an edit has been taken back
  disk,     \* whether the free space is under the floor, and how often it came there
  options,  \* what the command line and the tree fix for the run
  jobs,     \* the baseline and the guards
  verdict   \* of the receipt, or "RUNNING"

vars == <<tree, edits, undone, disk, options, jobs, verdict>>

Idle == [step |-> "waiting", copy |-> [f \in {} |-> FALSE], nature |-> "none",
         hit |-> FALSE, status |-> "none"]

Init ==
  /\ tree = [f \in Files |-> FALSE]
  /\ edits = 0 /\ undone = FALSE
  /\ disk = [low |-> FALSE, fills |-> 0]
  /\ options \in [selected : (SUBSET Guards) \ {{}},  \* --only
                  copied : {Tracked, Files},        \* --include-untracked
                  probes : BOOLEAN,                 \* the baseline could import the module
                  sound : BOOLEAN]                  \* the tests pass on the tree as it is
  /\ jobs = [j \in Jobs |-> Idle]
  /\ verdict = "RUNNING"

-----------------------------------------------------------------------------
(* The working tree and the host *)

Edit(f) ==
  /\ verdict = "RUNNING"
  /\ edits < MaxEdits
  /\ f \in options.copied
  /\ ~tree[f]
  /\ tree' = [tree EXCEPT ![f] = TRUE]
  /\ edits' = edits + 1
  /\ UNCHANGED <<undone, disk, options, jobs, verdict>>

Undo(f) ==
  /\ verdict = "RUNNING"
  /\ tree[f]
  /\ tree' = [tree EXCEPT ![f] = FALSE]
  /\ undone' = TRUE
  /\ UNCHANGED <<edits, disk, options, jobs, verdict>>

Fill ==
  /\ verdict = "RUNNING"
  /\ ~disk.low
  /\ disk.fills < MaxFills
  /\ disk' = [low |-> TRUE, fills |-> disk.fills + 1]
  /\ jobs' = [j \in Jobs |-> [jobs[j] EXCEPT !.hit = @ \/ jobs[j].step = "testing"]]
  /\ UNCHANGED <<tree, edits, undone, options, verdict>>

Free ==
  /\ verdict = "RUNNING"
  /\ disk.low
  /\ disk' = [disk EXCEPT !.low = FALSE]
  /\ UNCHANGED <<tree, edits, undone, options, jobs, verdict>>

-----------------------------------------------------------------------------
(* One job *)

Goes(j, job) ==
  /\ jobs' = [jobs EXCEPT ![j] = job]
  /\ UNCHANGED <<tree, edits, undone, disk, options, verdict>>

\* The copy is removed; of what it was only that of a result is remembered here, and of
\* the disk only whether it was full while a guard was killed.
Ends(j, status) ==
  Goes(j, [IF status \in {"KILLED", "SURVIVED", "GREEN"} THEN jobs[j] ELSE Idle EXCEPT
             !.step = "done", !.status = status, !.hit = @ /\ status = "KILLED"])

Finished(j) == jobs[j].step = "done"

\* The baseline runs first and alone; a guard starts only if there is room.
Start(j) ==
  /\ verdict = "RUNNING"
  /\ jobs[j].step = "waiting"
  /\ j # Baseline => j \in options.selected /\ jobs[Baseline].status = "GREEN"
  /\ IF j # Baseline /\ disk.low THEN Ends(j, "ENVIRONMENT_FAULT")
     ELSE Goes(j, [jobs[j] EXCEPT !.step = "copying"])

Missing(j) == Files \ DOMAIN jobs[j].copy
NextFile(j) == CHOOSE f \in Missing(j) : \A g \in Missing(j) : Place(f) <= Place(g)

Copied(j, f) ==
  [g \in DOMAIN jobs[j].copy \cup {f} |-> IF g = f THEN tree[f] ELSE jobs[j].copy[g]]

\* copy_tree copies the working-tree bytes of one file after the other, in the
\* order of their names.
CopyFile(j) ==
  /\ jobs[j].step = "copying"
  /\ LET copy == Copied(j, NextFile(j))
     IN Goes(j, [jobs[j] EXCEPT
          !.copy = copy,
          !.step = IF DOMAIN copy # options.copied THEN @
                   ELSE IF j = Baseline THEN "testing" ELSE "mutating",
          !.hit = j = Baseline /\ disk.low])

\* mutate and import_probe: the text is not found exactly once; or the mutant
\* changes no byte, does not compile or cannot be imported; or it is run.
Mutate(g) ==
  /\ jobs[g].step = "mutating"
  /\ \/ \E status \in {"MANIFEST_STALE", "MUTANT_INVALID"} : Ends(g, status)
     \/ \E nature \in Natures \ (IF options.probes THEN {"unimportable"} ELSE {}) :
          Goes(g, [jobs[g] EXCEPT !.step = "testing", !.hit = disk.low, !.nature = nature])

\* A copy or a write for which there is no room raises: of a guard it is an
\* error, of the baseline the end of the run.
HarnessFault(j) ==
  /\ jobs[j].step \in {"copying", "mutating"}
  /\ disk.low
  /\ Ends(j, "ERROR")

-----------------------------------------------------------------------------
(* What pytest reports *)

Result(exit, nodes) == [exit |-> exit, timedOut |-> FALSE, told |-> FALSE, nodes |-> nodes]
TimedOut == [Result(0, {}) EXCEPT !.timedOut = TRUE]
Passed == Result(0, {})
Failed == Result(1, {"FAILED"})

Reports(nature) ==
  CASE nature = "caught" -> {Failed, Result(1, {"FAILED", "unbound"})}
    [] nature = "missed" -> {Passed}
    [] nature = "untested" -> {Result(5, {})}
    [] nature = "hanging" -> {TimedOut}
    [] nature = "fixture" -> {Result(1, {"setup"})}
    [] nature = "unbound" -> {Result(1, {"unbound"})}
    [] nature = "unimportable" -> {Result(2, {"file"}), Result(1, {"file"}), Failed}

Anything == {Passed, Failed, TimedOut, Result(1, {}), Result(1, {"setup"}),
             Result(1, {"unbound"}), Result(2, {"file"}), Result(4, {}), Result(5, {})}

\* What a job whose tests were hit by a full disk may report besides; told is that the
\* output has one of the messages ENV_FAULT_RE looks for.
Hit == {[r EXCEPT !.told = told] : r \in {Failed, Result(1, {"setup"})}, told \in BOOLEAN}

Pristine(j) == \A f \in DOMAIN jobs[j].copy : ~jobs[j].copy[f]

Outcomes(j) ==
  (IF ~Pristine(j) THEN Anything
   ELSE IF ~options.sound THEN {Failed}
   ELSE IF j = Baseline THEN {Passed} ELSE Reports(jobs[j].nature))
    \cup (IF jobs[j].hit THEN Hit ELSE {})

\* Mutant: every failing test counts, also one that only missed a name.
ClassifyAnyFailure(result) ==
  CASE result.timedOut -> "TIMEOUT"
    [] ~result.timedOut /\ result.exit = 0 -> "SURVIVED"
    [] ~result.timedOut /\ result.exit # 0 /\ result.told -> "ENVIRONMENT_FAULT"
    [] ~result.timedOut /\ result.exit = 5 /\ ~result.told -> "NO_TESTS"
    [] OTHER -> "KILLED"

\* classify, its conditions in their order.
Classify(result) ==
  IF result.timedOut THEN "TIMEOUT"
  ELSE IF result.exit = 0 THEN "SURVIVED"
  ELSE IF result.told THEN "ENVIRONMENT_FAULT"
  ELSE IF result.exit = 5 THEN "NO_TESTS"
  ELSE IF result.exit = 2 \/ "file" \in result.nodes THEN "MUTANT_INVALID"
  ELSE IF result.exit # 1 THEN "ERROR"
  ELSE IF result.nodes \cap {"FAILED", "unbound"} = {} THEN "UNPROVEN_ERROR"
  ELSE IF "FAILED" \notin result.nodes THEN "MUTANT_INVALID"
  ELSE "KILLED"

\* Under the floor, what was no survival is not attributed to the mutant.
Attributed(status, low) ==
  IF low /\ status \in {"KILLED", "UNPROVEN_ERROR", "MUTANT_INVALID"}
  THEN "ENVIRONMENT_FAULT" ELSE status

Test(g) ==
  /\ jobs[g].step = "testing"
  /\ g # Baseline
  /\ \E result \in Outcomes(g) : Ends(g, Attributed(Classify(result), disk.low))

TestBaseline ==
  /\ jobs[Baseline].step = "testing"
  /\ \E result \in Outcomes(Baseline) :
       Ends(Baseline, IF result = Passed THEN "GREEN" ELSE "BASELINE_RED")

-----------------------------------------------------------------------------
(* The verdict *)

\* Only the files that were hashed before the run are hashed after it.
Untouched == \A f \in Tracked : ~tree[f]

Statuses == {jobs[g].status : g \in options.selected}

Decide ==
  /\ verdict = "RUNNING"
  /\ \/ /\ Finished(Baseline) /\ jobs[Baseline].status # "GREEN"
        /\ verdict' = jobs[Baseline].status
     \/ /\ \A g \in options.selected : Finished(g)
        /\ verdict' =
             IF ~Untouched THEN "HARNESS_ERROR_WORKTREE_CHANGED"
             ELSE IF Statuses = {"KILLED"}
             THEN IF options.selected = Guards THEN "ALL_GUARDS_KILLED" ELSE "SELECTED_GUARDS_KILLED"
             ELSE IF "SURVIVED" \in Statuses THEN "SURVIVORS_FOUND"
             ELSE "MANIFEST_OR_HARNESS_PROBLEM"
  /\ UNCHANGED <<tree, edits, undone, disk, options, jobs>>

Next ==
  \/ \E f \in Files : Edit(f) \/ Undo(f)
  \/ Fill \/ Free
  \/ \E j \in Jobs : Start(j) \/ CopyFile(j) \/ HarnessFault(j)
  \/ \E g \in Guards : Mutate(g) \/ Test(g)
  \/ TestBaseline
  \/ Decide

Spec == Init /\ [][Next]_vars

-----------------------------------------------------------------------------
(* Properties *)

\* What the hashes of the tracked files cannot show: an edit that was taken back, and an
\* edit of a file Git does not track; and what neither the output of the tests nor the
\* look at the disk after them shows: that it was full meanwhile.
Unseen(j) ==
  undone \/ jobs[j].hit \/ \E f \in DOMAIN jobs[j].copy \ Tracked : jobs[j].copy[f]

\* A verdict about the guards is about the tree that was hashed: the guards said
\* to be killed are killed by a test that passes on this tree and fails because
\* the guard is gone, and a survivor is one whose tests pass without it, though the
\* tree was edited, and the disk was full while other guards were tested.
TeethAreReal ==
  LET Real(g, natures) ==
        \/ Unseen(g)
        \/ Unseen(Baseline)
        \/ Pristine(g) /\ options.sound /\ jobs[g].nature \in natures
  IN /\ verdict \in {"ALL_GUARDS_KILLED", "SELECTED_GUARDS_KILLED"} =>
          \A g \in options.selected :
            Real(g, IF options.probes THEN {"caught"} ELSE {"caught", "unimportable"})
     /\ verdict = "ALL_GUARDS_KILLED" => \A g \in Guards : jobs[g].status = "KILLED"
     /\ verdict = "SURVIVORS_FOUND" =>
          \E g \in options.selected : Real(g, {"missed"})

\* Why: a guard starts only after a baseline that passed; what a copy differs in is still
\* edited or was taken back; and what a test showed is what the mutant is, if its copy
\* was the tree and the tests pass on that.
Job ==
  [step : {"waiting", "copying", "mutating", "testing", "done"},
   copy : UNION {[files -> BOOLEAN] : files \in SUBSET Files},
   nature : Natures \cup {"none"}, hit : BOOLEAN,
   status : {"none", "GREEN", "BASELINE_RED", "ERROR", "KILLED", "SURVIVED", "TIMEOUT", "NO_TESTS",
             "ENVIRONMENT_FAULT", "MANIFEST_STALE", "MUTANT_INVALID", "UNPROVEN_ERROR"}]

Shows(g, natures) == Pristine(g) /\ options.sound => jobs[g].nature \in natures

Possible == Natures \ (IF options.probes THEN {"unimportable"} ELSE {})

TeethTypes ==
  /\ tree \in [Files -> BOOLEAN] /\ undone \in BOOLEAN /\ disk.low \in BOOLEAN
  /\ options \in [selected : (SUBSET Guards) \ {{}}, copied : {Tracked, Files},
                  probes : BOOLEAN, sound : BOOLEAN]
  /\ jobs \in [Jobs -> Job]

TeethInv ==
  /\ TeethTypes
  /\ \A j \in Jobs :
       /\ \A f \in DOMAIN jobs[j].copy \cap Tracked : jobs[j].copy[f] => undone \/ tree[f]
       /\ jobs[j].step \in {"waiting", "copying"} =>
            DOMAIN jobs[j].copy \in {{}, {"code"}, Tracked} \ {options.copied}
  /\ jobs[Baseline].status = "GREEN" =>
       Finished(Baseline) /\ (Pristine(Baseline) => options.sound)
  /\ \A g \in Guards :
       /\ jobs[g].step # "waiting" => jobs[Baseline].status = "GREEN" /\ g \in options.selected
       /\ jobs[g].step = "testing" => jobs[g].nature \in Possible
       /\ jobs[g].status = "KILLED" =>
            Finished(g) /\ (jobs[g].hit \/ Shows(g, {"caught", "unimportable"} \cap Possible))
       /\ jobs[g].status = "SURVIVED" => Finished(g) /\ Shows(g, {"missed"})
  /\ verdict # "RUNNING" => \A j \in Jobs : jobs[j].step \in {"waiting", "done"}
  /\ TeethAreReal

=============================================================================
