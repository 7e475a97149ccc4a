------------------------------ MODULE BriefStore ------------------------------
(***************************************************************************)
(* The private research briefs of one scope (briefs.py): put_brief stores  *)
(* a brief under the digest of its content, recent_briefs lists them.      *)
(*                                                                         *)
(* A submission is at least two steps: the body is validated and hashed,   *)
(* then one BEGIN IMMEDIATE transaction looks the digest up, counts and    *)
(* inserts.  The answer may be lost after the commit, and the caller tries *)
(* again.  The table is in the same file as the evidence ledger and shares *)
(* nothing else with it; the file outlives the process.                    *)
(***************************************************************************)
EXTENDS Integers, FiniteSets

CONSTANTS
  Callers,    \* concurrent submitters of the scope
  Contents,   \* digests of the bodies that pass validation, numbered in their order
  MaxBriefs,  \* MAX_BRIEFS_PER_SCOPE
  ListLimit,  \* limit of a listing
  ClockSteps, \* how the wall clock may move: {1}, or {1, -1} if it is reset
  MaxClock    \* bound on the clock

ASSUME BriefAssumption ==
  /\ Contents \subseteq Nat
  /\ MaxBriefs \in Nat
  /\ ListLimit \in Nat \ {0}
  /\ ClockSteps \subseteq Int
  /\ MaxClock \in Nat

VARIABLES
  briefs,    \* research_briefs: content_sha256 and created_at
  clock,     \* the store's clock
  requests,  \* what each caller is doing
  inserts    \* history: for each content, how many answers said inserted

vars == <<briefs, clock, requests, inserts>>

Brief == [content : Contents, createdAt : Nat]

Idle == [op |-> "idle"]
Request ==
  {Idle}
  \cup [op : {"submitted"}, content : Contents]
  \cup [op : {"answered"}, brief : Brief, inserted : BOOLEAN]
  \cup [op : {"refused"}, content : Contents]
  \cup [op : {"listed"}, listing : SUBSET Brief]

TypeOK ==
  /\ briefs \subseteq Brief
  /\ clock \in Nat
  /\ requests \in [Callers -> Request]
  /\ inserts \in [Contents -> Nat]

Init ==
  /\ briefs = {}
  /\ clock = 0
  /\ requests = [c \in Callers |-> Idle]
  /\ inserts = [d \in Contents |-> 0]

Reply(c, reply) == requests' = [requests EXCEPT ![c] = reply]

\* A body is submitted, for the first time or again after a lost answer.
Submit(c) ==
  /\ requests[c].op # "submitted"
  /\ \E d \in Contents : Reply(c, [op |-> "submitted", content |-> d])
  /\ UNCHANGED <<briefs, clock, inserts>>

Stored(d) == {b \in briefs : b.content = d}

\* Mutant: off by one.
RoomForOneMore == Cardinality(briefs) <= MaxBriefs

Room == Cardinality(briefs) < MaxBriefs

\* Mutant: the stored brief is replaced, as INSERT OR REPLACE would.
PutAgain(c) ==
  LET d == requests[c].content
      new == [content |-> d, createdAt |-> clock]
  IN
  /\ requests[c].op = "submitted"
  /\ \/ /\ Room \/ Stored(d) # {}
        /\ briefs' = (briefs \ Stored(d)) \cup {new}
        /\ Reply(c, [op |-> "answered", brief |-> new, inserted |-> TRUE])
        /\ inserts' = [inserts EXCEPT ![d] = @ + 1]
     \/ /\ ~Room /\ Stored(d) = {}
        /\ Reply(c, [op |-> "refused", content |-> d])
        /\ UNCHANGED <<briefs, inserts>>
  /\ UNCHANGED clock

\* Mutant: the capacity is tested before the digest is looked up.
PutCountingFirst(c) ==
  LET d == requests[c].content
      new == [content |-> d, createdAt |-> clock]
  IN
  /\ requests[c].op = "submitted"
  /\ \/ /\ ~Room
        /\ Reply(c, [op |-> "refused", content |-> d])
        /\ UNCHANGED <<briefs, inserts>>
     \/ /\ Room
        /\ \E b \in Stored(d) : Reply(c, [op |-> "answered", brief |-> b, inserted |-> FALSE])
        /\ UNCHANGED <<briefs, inserts>>
     \/ /\ Room /\ Stored(d) = {}
        /\ briefs' = briefs \cup {new}
        /\ Reply(c, [op |-> "answered", brief |-> new, inserted |-> TRUE])
        /\ inserts' = [inserts EXCEPT ![d] = @ + 1]
  /\ UNCHANGED clock

PutBrief(c) ==
  LET d == requests[c].content
      new == [content |-> d, createdAt |-> clock]
  IN
  /\ requests[c].op = "submitted"
  /\ \/ /\ \E b \in Stored(d) : Reply(c, [op |-> "answered", brief |-> b, inserted |-> FALSE])
        /\ UNCHANGED <<briefs, inserts>>
     \/ /\ Stored(d) = {} /\ ~Room
        /\ Reply(c, [op |-> "refused", content |-> d])
        /\ UNCHANGED <<briefs, inserts>>
     \/ /\ Stored(d) = {} /\ Room
        /\ briefs' = briefs \cup {new}
        /\ Reply(c, [op |-> "answered", brief |-> new, inserted |-> TRUE])
        /\ inserts' = [inserts EXCEPT ![d] = @ + 1]
  /\ UNCHANGED clock

\* ORDER BY created_at DESC, content_sha256 LIMIT ListLimit
Precedes(a, b) ==
  a.createdAt > b.createdAt \/ (a.createdAt = b.createdAt /\ a.content < b.content)

Listing(table) == {b \in table : Cardinality({a \in table : Precedes(a, b)}) < ListLimit}

Recent(c) ==
  /\ requests[c].op # "submitted"
  /\ Reply(c, [op |-> "listed", listing |-> Listing(briefs)])
  /\ UNCHANGED <<briefs, clock, inserts>>

\* The request fails before its transaction commits (SQLITE_BUSY, the clock,
\* the process), or its answer is lost after the commit.
Fail(c) ==
  /\ requests[c].op \in {"submitted", "answered"}
  /\ Reply(c, Idle)
  /\ UNCHANGED <<briefs, clock, inserts>>

Tick ==
  /\ \E step \in ClockSteps : clock + step \in 0..MaxClock /\ clock' = clock + step
  /\ UNCHANGED <<briefs, requests, inserts>>

\* A new process on the same file.
Restart ==
  /\ requests' = [c \in Callers |-> Idle]
  /\ UNCHANGED <<briefs, clock, inserts>>

Next ==
  \/ \E c \in Callers : Submit(c) \/ PutBrief(c) \/ Recent(c) \/ Fail(c)
  \/ Tick
  \/ Restart

Spec == Init /\ [][Next]_vars

-----------------------------------------------------------------------------
(* Properties *)

\* However submissions of one content race, repeat or lose their answers, it is
\* stored once and one answer at most says that it was inserted.
StoredOnce ==
  /\ \A a, b \in briefs : a.content = b.content => a = b
  /\ \A d \in Contents : inserts[d] = Cardinality(Stored(d))

\* The scope never holds more than its capacity.
WithinCapacity == Cardinality(briefs) <= MaxBriefs

\* What a caller was answered, or shown in a listing, stays in the table as it
\* was: the first submission's time is the one every repetition gets.
AnsweredIsStored ==
  \A c \in Callers :
    /\ requests[c].op = "answered" => requests[c].brief \in briefs
    /\ requests[c].op = "listed" => requests[c].listing \subseteq briefs

\* The three together, for a store whose answers can be relied on.
BriefsAreKept == StoredOnce /\ WithinCapacity /\ AnsweredIsStored

\* A submission is refused for want of room only when its content is not
\* stored: at capacity, a repetition still finds the original.
RefusedIsNew ==
  [][\A c \in Callers :
       requests[c].op = "submitted" /\ requests'[c].op = "refused" =>
         Stored(requests[c].content) = {}
    ]_vars

=============================================================================
