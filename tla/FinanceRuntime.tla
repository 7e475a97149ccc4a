----------------------------- MODULE FinanceRuntime -----------------------------
(***************************************************************************)
(* The standalone finance service from a commit to its identity: the       *)
(* export of a commit's files with a witness                               *)
(* (tools/export_finance_artifact.py), the image built from it, the        *)
(* identity the process tells of itself                                    *)
(* (services/finance/runtime_identity.py), what its routes compute         *)
(* (app.py, engine.py, feed.py), and the smoke test that asks it           *)
(* (tools/verify_finance_engine.py).                                       *)
(*                                                                         *)
(* A file is the revision whose bytes it has, or Altered.  The files of    *)
(* the process may be changed under it, and the process be started again.  *)
(***************************************************************************)
EXTENDS Naturals, Sequences, FiniteSets

CONSTANTS
  Revisions,
  Expected,   \* the revision the smoke test expects
  MaxChanges, \* bound on changed files and restarts
  MaxMinted   \* bound on receipts

RuntimeAssumption ==
  /\ Expected \in Revisions
  /\ MaxChanges \in Nat /\ MaxMinted \in Nat

\* The controlled files: those that Python loads and those that are only served.
Files == {"engine.py", "static"}
Code == "engine.py"
Altered == "altered"
Absent == "absent"
None == "none"

VARIABLES
  out,     \* the directory of the export, and the export that writes it
  root,    \* the files of the container
  setting, \* SZL_SOURCE_REVISION
  proc,    \* the process
  doc,     \* an identity document being made, or the last one
  chain,   \* ids of the receipts in the process's chain
  minted,  \* receipts so far
  smoke,   \* the smoke test
  changes

vars == <<out, root, setting, proc, doc, chain, minted, smoke, changes>>

Empty == [files |-> [f \in Files |-> Absent], witness |-> None]
NoDoc == [step |-> "none", checked |-> {}, failed |-> FALSE, revision |-> None]
Down == [phase |-> "down", loaded |-> None, witness |-> None, swapped |-> FALSE, life |-> 0]
NoSmoke == [at |-> 1, length |-> 0, receipts |-> {}, lives |-> <<>>, state |-> "RUNNING"]

Init ==
  /\ out = [exists |-> FALSE, writes |-> None, tree |-> Empty]
  /\ root = Empty
  /\ setting \in {None} \cup Revisions
  /\ proc = Down
  /\ doc = NoDoc
  /\ chain = {} /\ minted = 0
  /\ smoke = NoSmoke
  /\ changes = 0

-----------------------------------------------------------------------------
(* export: every blob is read from Git before the directory is made, which must  *)
(* be new; the witness is written last.                                        *)

ExportOnly == UNCHANGED <<root, setting, proc, doc, chain, minted, smoke, changes>>

Export(revision) ==
  /\ ~out.exists
  /\ out' = [exists |-> TRUE, writes |-> revision, tree |-> Empty]
  /\ ExportOnly

WriteFile(f) ==
  /\ out.writes # None
  /\ out.tree.files[f] = Absent
  /\ out' = [out EXCEPT !.tree.files[f] = out.writes]
  /\ ExportOnly

\* Mutant: the witness is written as soon as it is known.
WitnessFirst == out.writes # None /\ out.tree.witness = None

WitnessLast == out.writes # None /\ \A f \in Files : out.tree.files[f] # Absent

WriteWitness ==
  /\ WitnessLast
  /\ out' = [out EXCEPT !.tree.witness = out.writes, !.writes = None]
  /\ ExportOnly

\* What a crash leaves is not written to again.
ExportCrashes ==
  /\ out.writes # None
  /\ out' = [out EXCEPT !.writes = None]
  /\ ExportOnly

-----------------------------------------------------------------------------
(* The container *)

\* An image is built from the directory as it is, and its container started.
BuildImage ==
  /\ out.exists
  /\ root = Empty
  /\ root' = out.tree
  /\ UNCHANGED <<out, setting, proc, doc, chain, minted, smoke, changes>>

Changed == changes < MaxChanges /\ changes' = changes + 1

\* Someone changes a file, or puts another export in the place of the files.
Altering == {[root EXCEPT !.files[f] = Altered] : f \in Files}
Exchanging == {[files |-> [f \in Files |-> r], witness |-> r] : r \in Revisions}

Change(tree) ==
  /\ root # Empty /\ root # tree
  /\ Changed
  /\ root' = tree
  /\ proc' = [proc EXCEPT !.swapped = @ \/ proc.phase = "imported"]
  /\ UNCHANGED <<out, setting, doc, chain, minted, smoke>>

\* Python loads the modules; their receipts and identity are made afterwards.
Import ==
  /\ proc.phase = "down"
  /\ root.files[Code] # Absent
  /\ proc' = [proc EXCEPT !.phase = "imported", !.loaded = root.files[Code], !.swapped = FALSE]
  /\ UNCHANGED <<out, root, setting, doc, chain, minted, smoke, changes>>

\* RuntimeIdentity.__init__: the witness is kept if every file is as it says.
Startup ==
  /\ proc.phase = "imported"
  /\ proc' = [proc EXCEPT !.phase = "serving",
                !.witness = IF \A f \in Files : root.files[f] = root.witness
                            THEN root.witness ELSE None]
  /\ UNCHANGED <<out, root, setting, doc, chain, minted, smoke, changes>>

Restart ==
  /\ proc.phase = "serving"
  /\ Changed
  /\ proc' = [Down EXCEPT !.life = proc.life + 1]
  /\ doc' = NoDoc
  /\ chain' = {}
  /\ UNCHANGED <<out, root, setting, minted, smoke>>

-----------------------------------------------------------------------------
(* document: the witness, then the files one after the other, then the settings *)

\* Mutant: the witness is read anew, and the files are compared with it.
WitnessNow == root.witness

StartupWitness == proc.witness

BeginDocument ==
  /\ proc.phase = "serving"
  /\ doc.step # "reading"
  /\ doc' = [NoDoc EXCEPT !.step = "reading", !.revision = StartupWitness,
               !.failed = StartupWitness = None \/ root.witness # StartupWitness]
  /\ UNCHANGED <<out, root, setting, proc, chain, minted, smoke, changes>>

CheckFile(f) ==
  /\ doc.step = "reading"
  /\ f \notin doc.checked
  /\ doc' = [doc EXCEPT !.checked = @ \cup {f}, !.failed = @ \/ root.files[f] # doc.revision]
  /\ UNCHANGED <<out, root, setting, proc, chain, minted, smoke, changes>>

EndDocument ==
  /\ doc.step = "reading"
  /\ doc.checked = Files
  /\ LET failed == doc.failed \/ setting \notin {None, doc.revision}
     IN doc' = [NoDoc EXCEPT !.step = "answered", !.failed = failed,
                  !.revision = IF failed THEN None ELSE doc.revision]
  /\ UNCHANGED <<out, root, setting, proc, chain, minted, smoke, changes>>

-----------------------------------------------------------------------------
(* The routes that compute: they answer MEASURED or BLOCKED with a receipt, or   *)
(* fail, with a receipt if only the answer cannot be written.                  *)

\* Series of closes: long enough for every indicator, or only for the returns, or
\* a single return, or less; with a text or an infinite point; with a zero that
\* is not last; all equal; whose squares overflow; whose ratios do.
Series == {"good", "short", "pair", "empty", "text", "infinite", "zero", "flat",
           "overflows", "unbounded"}

Malformed == {"empty", "text", "infinite"}

SignalState(series) ==
  CASE series \in Malformed \cup {"short", "pair"} -> "BLOCKED"
    [] series = "overflows" -> "RAISES"
    [] OTHER -> "MEASURED"

\* volatility, sharpe, max_drawdown: two returns, none from a zero.
StatsState(series) ==
  CASE series \in Malformed \cup {"pair", "zero"} -> "BLOCKED"
    [] series = "overflows" -> "RAISES"
    [] series = "unbounded" -> "NOT_JSON"
    [] OTHER -> "MEASURED"

\* beta needs a benchmark that moves.
QuoteState(series, benchmark) ==
  CASE StatsState(series) \in {"BLOCKED", "RAISES"} -> StatsState(series)
    [] StatsState(series) \notin {"BLOCKED", "RAISES"} /\ benchmark \in {"flat", "pair"} -> "BLOCKED"
    [] OTHER -> IF StatsState(benchmark) = "MEASURED" THEN StatsState(series) ELSE StatsState(benchmark)

Receipted(state) == state # "RAISES"

Mint ==
  /\ minted < MaxMinted
  /\ minted' = minted + 1
  /\ chain' = chain \cup {minted'}

\* Another caller's computation.
Compute(state) ==
  /\ proc.phase = "serving"
  /\ Receipted(state)
  /\ Mint
  /\ UNCHANGED <<out, root, setting, proc, doc, smoke, changes>>

Computations ==
  {SignalState(s) : s \in Series} \cup {StatsState(s) : s \in Series}
    \cup {QuoteState(s, b) : s, b \in Series}

-----------------------------------------------------------------------------
(* verify_finance_engine.py, its requests one after the other *)

\* The identity documents are read between two looks at the length of the chain;
\* then three computations, and the chain.
Steps == <<"document", "length", "document", "document", "document", "same length",
           "compute", "compute", "compute", "ledger", "length of chain">>

SmokeGoes(new) ==
  smoke' = IF smoke.at = Len(Steps) THEN [new EXCEPT !.state = "PASSED"]
           ELSE [new EXCEPT !.at = @ + 1]

SmokeFails == smoke' = [NoSmoke EXCEPT !.state = "FAILED"]

Running(kind) ==
  /\ smoke.state = "RUNNING"
  /\ Steps[smoke.at] = kind
  /\ proc.phase = "serving"

ReadDocument ==
  /\ Running("document")
  /\ doc.step = "answered"
  /\ IF doc.revision = Expected
     THEN SmokeGoes(smoke) ELSE SmokeFails
  /\ doc' = NoDoc
  /\ UNCHANGED <<out, root, setting, proc, chain, minted, changes>>

ReadLength ==
  /\ UNCHANGED <<out, root, setting, proc, doc, chain, minted, changes>>
  /\ \/ Running("length") /\ SmokeGoes([smoke EXCEPT !.length = Cardinality(chain)])
     \/ /\ Running("same length")
        /\ IF Cardinality(chain) = smoke.length THEN SmokeGoes(smoke) ELSE SmokeFails

\* The fixture series is long and finite, so that it is measured.
SmokeComputes ==
  /\ Running("compute")
  /\ Mint
  /\ SmokeGoes([smoke EXCEPT !.receipts = @ \cup {minted'}, !.lives = Append(@, proc.life)])
  /\ UNCHANGED <<out, root, setting, proc, doc, changes>>

\* Mutant: only the length of the chain is looked at.
LongEnough == Cardinality(chain) >= 3

AllInLedger == smoke.receipts \subseteq chain

ReadLedger ==
  /\ Running("ledger")
  /\ IF AllInLedger
     THEN SmokeGoes([smoke EXCEPT !.length = Cardinality(chain), !.lives = Append(@, proc.life)])
     ELSE SmokeFails
  /\ UNCHANGED <<out, root, setting, proc, doc, chain, minted, changes>>

ReadVerification ==
  /\ Running("length of chain")
  /\ IF Cardinality(chain) = smoke.length THEN SmokeGoes(smoke) ELSE SmokeFails
  /\ UNCHANGED <<out, root, setting, proc, doc, chain, minted, changes>>

\* A request that fails ends the test.
RequestFails ==
  /\ smoke.state = "RUNNING" /\ proc.life > 0
  /\ SmokeFails
  /\ UNCHANGED <<out, root, setting, proc, doc, chain, minted, changes>>

Next ==
  \/ \E r \in Revisions : Export(r)
  \/ \E f \in Files : WriteFile(f) \/ CheckFile(f)
  \/ WriteWitness \/ ExportCrashes
  \/ BuildImage \/ Import \/ Startup \/ Restart
  \/ \E tree \in Altering \cup Exchanging : Change(tree)
  \/ BeginDocument \/ EndDocument
  \/ \E state \in Computations : Compute(state)
  \/ ReadDocument \/ ReadLength \/ SmokeComputes \/ ReadLedger \/ ReadVerification \/ RequestFails

Spec == Init /\ [][Next]_vars

-----------------------------------------------------------------------------
(* Properties *)

\* A directory with a witness holds every file of one revision, though the export
\* may crash at any file; and the revision that an identity document observes is
\* that of the code the process loaded, though its files and their witness may be
\* exchanged for those of another revision meanwhile.  Only what is exchanged
\* between the import of the modules and the look at their files goes unseen.
ObservedIsLoaded ==
  /\ out.tree.witness # None => \A f \in Files : out.tree.files[f] = out.tree.witness
  /\ doc.step = "answered" /\ doc.revision # None =>
       /\ proc.loaded = doc.revision \/ proc.swapped
       /\ setting \in {None, doc.revision}

\* A smoke test that passed found its three receipts in the chain of one life of
\* the process, though others compute and the process may be started again.
PassedInOneLife ==
  smoke.state = "PASSED" =>
    /\ Cardinality(smoke.receipts) = 3
    /\ \A i, j \in DOMAIN smoke.lives : smoke.lives[i] = smoke.lives[j]

Tree == [files : [Files -> {Absent, Altered} \cup Revisions], witness : {None} \cup Revisions]

TypeOK ==
  /\ out \in [exists : BOOLEAN, writes : {None} \cup Revisions, tree : Tree]
  /\ root \in Tree
  /\ setting \in {None} \cup Revisions
  /\ proc \in [phase : {"down", "imported", "serving"},
               loaded : {None, Absent, Altered} \cup Revisions, witness : {None} \cup Revisions,
               swapped : BOOLEAN, life : Nat]
  /\ doc \in [step : {"none", "reading", "answered"}, checked : SUBSET Files,
              failed : BOOLEAN, revision : {None} \cup Revisions]
  /\ minted \in Nat /\ chain \subseteq 1 .. minted
  /\ smoke \in [at : 1 .. Len(Steps), length : Nat, receipts : SUBSET (1 .. minted),
                lives : Seq(Nat), state : {"RUNNING", "PASSED", "FAILED"}]

\* Why ObservedIsLoaded: the witness of a process is that of its code unless its files were
\* exchanged before it looked at them, and a document tells that witness.
DocumentInv ==
  /\ out.writes # None =>
       out.tree.witness = None /\ \A f \in Files : out.tree.files[f] \in {Absent, out.writes}
  /\ proc.phase = "imported" =>
       proc.loaded # Absent /\ (root.files[Code] = proc.loaded \/ proc.swapped)
  /\ proc.phase = "serving" => proc.witness \in {None, proc.loaded} \/ proc.swapped
  /\ doc.step # "none" => proc.phase = "serving"
  /\ doc.step = "reading" =>
       doc.revision = proc.witness /\ (doc.revision = None => doc.failed)
  /\ doc.step = "answered" => doc.revision \in {None, proc.witness}
  /\ ObservedIsLoaded

\* Why PassedInOneLife: a new life has an empty chain, and an id is never minted again, so
\* that receipts which are all in the chain were all made in this life.
SmokeInv ==
  /\ Cardinality(smoke.receipts) = IF smoke.at <= 7 THEN 0 ELSE IF smoke.at <= 10 THEN smoke.at - 7 ELSE 3
  /\ smoke.at <= 10 =>
       /\ Len(smoke.lives) = Cardinality(smoke.receipts)
       /\ smoke.receipts \subseteq chain => \A i \in DOMAIN smoke.lives : smoke.lives[i] = proc.life
  /\ smoke.at = 11 => \A i, j \in DOMAIN smoke.lives : smoke.lives[i] = smoke.lives[j]
  /\ smoke.state = "PASSED" => smoke.at = 11

=============================================================================
