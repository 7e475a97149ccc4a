----------------------------- MODULE PublishedArchive -----------------------------
(***************************************************************************)
(* The research that is published with the application                     *)
(* (published_briefs.py): a directory of weekly issues that every listing  *)
(* reads anew and whole.  An entry that is no valid issue of its own date  *)
(* makes the archive unavailable, also to a listing that would not have    *)
(* shown it.                                                               *)
(*                                                                         *)
(* The directory comes with a release and is replaced by the next one; the *)
(* day passes.                                                             *)
(***************************************************************************)
EXTENDS Naturals, FiniteSets, Sequences, SequencesExt

CONSTANTS
  Days,         \* dates, numbered
  MaxFiles,     \* MAX_ARCHIVE_FILES
  MaxFileSize,  \* MAX_ARCHIVE_FILE_BYTES
  MaxTotalSize, \* MAX_ARCHIVE_TOTAL_BYTES
  MaxLimit,     \* the largest limit of a listing
  MaxReleases   \* bound on the directory's replacements

ArchiveAssumption ==
  /\ Days \subseteq Nat /\ IsFiniteSet(Days)
  /\ MaxFiles \in Nat /\ MaxFileSize \in Nat /\ MaxTotalSize \in Nat
  /\ MaxLimit \in Nat /\ MaxReleases \in Nat

\* An entry of the directory: its name is a date, or no name of an issue at all (0).
\* What it holds is a bundle whose window ends on some day, or no bundle.
Entry ==
  [name : {0} \cup Days, plain : BOOLEAN, size : 1 .. MaxFileSize + 1, bundle : BOOLEAN, end : Days]

VARIABLES
  directory, \* set of entries with names of their own
  today,
  answer,    \* of the last listing
  releases

vars == <<directory, today, answer, releases>>

NoAnswer == [status |-> "none", limit |-> 0, items |-> <<>>]

\* A release ships good issues and at most one entry that something is wrong with.
Good(day) == [name |-> day, plain |-> TRUE, size |-> 1, bundle |-> TRUE, end |-> day]
Directories ==
  {{Good(d) : d \in issues} : issues \in SUBSET Days}
  \cup {{Good(d) : d \in issues \ {e.name}} \cup {e} : issues \in SUBSET Days, e \in Entry}

Init ==
  /\ directory \in Directories
  /\ today \in Days
  /\ answer = NoAnswer
  /\ releases = 0

-----------------------------------------------------------------------------

\* ISSUE_FILENAME, a regular file, no link; ResearchBundle with the right date.
Listed(e) == e.name # 0 /\ e.plain
Valid(e) == e.size <= MaxFileSize /\ e.bundle /\ e.end <= today /\ e.name = e.end

Sizes(entries) == FoldSet(LAMBDA e, total : e.size + total, 0, entries)

\* The newest first.
ByDate(entries) ==
  CHOOSE seq \in [1 .. Cardinality(entries) -> entries] :
    \A i, j \in 1 .. Cardinality(entries) : i < j => seq[i].name > seq[j].name

Shown(limit) ==
  SubSeq(ByDate(directory), 1, IF limit < Cardinality(directory) THEN limit ELSE Cardinality(directory))

\* Mutant: only the issues that the listing shows are read.
ReadsShown(limit) ==
  /\ \A e \in directory : Listed(e)
  /\ Cardinality(directory) \in 1 .. MaxFiles
  /\ \A e \in ToSet(Shown(limit)) : Valid(e)
  /\ Sizes(ToSet(Shown(limit))) <= MaxTotalSize

Available(limit) ==
  /\ \A e \in directory : Listed(e) /\ Valid(e)
  /\ Cardinality(directory) \in 1 .. MaxFiles
  /\ Sizes(directory) <= MaxTotalSize

\* published_brief_summary; published_briefs raises what is answered here.
List(limit) ==
  /\ answer' =
       IF limit \notin 1 .. MaxLimit THEN [NoAnswer EXCEPT !.status = "BadLimit"]
       ELSE IF Available(limit)
       THEN [status |-> "AVAILABLE", limit |-> limit, items |-> Shown(limit)]
       ELSE [NoAnswer EXCEPT !.status = "UNAVAILABLE"]
  /\ UNCHANGED <<directory, today, releases>>

\* The day passes: the clock of the container.
NextDay ==
  /\ today + 1 \in Days
  /\ today' = today + 1
  /\ UNCHANGED <<directory, answer, releases>>

\* Another release is started: it ships another directory, and nothing was answered.
Release ==
  /\ releases < MaxReleases
  /\ directory' \in Directories
  /\ answer' = NoAnswer
  /\ releases' = releases + 1
  /\ UNCHANGED today

Next ==
  \/ \E limit \in 0 .. MaxLimit + 1 : List(limit)
  \/ NextDay
  \/ Release

Spec == Init /\ [][Next]_vars

-----------------------------------------------------------------------------
(* Properties *)

\* An answer that says AVAILABLE shows the newest issues without a gap, each of its own
\* date and none of the future, and it is given only of an archive every entry of which
\* is an issue: a broken one is never hidden by a small limit.
ArchiveSound ==
  answer.status = "AVAILABLE" =>
    LET shown == ToSet(answer.items)
        count == Cardinality(directory)
    IN  /\ \A e \in directory : e.plain /\ e.bundle /\ e.end = e.name /\ e.end <= today
        /\ Len(answer.items) = IF answer.limit < count THEN answer.limit ELSE count
        /\ \A e \in directory \ shown, s \in shown : s.end > e.end
        /\ \A i, j \in 1 .. Len(answer.items) : i < j => answer.items[i].end > answer.items[j].end

\* Why: the directory has each name once, and the day does not go back.
ArchiveInv == directory \in Directories /\ today \in Days /\ ArchiveSound

=============================================================================
