------------------------------ MODULE IntakeProofs ------------------------------
(***************************************************************************)
(* Theorems about what comes in, for every value of the constants: the     *)
(* briefs of a scope (BriefStore), for every set of callers and contents,  *)
(* every capacity and listing limit and every way the clock may move, and  *)
(* the parts that Intake puts beside them, each by an inductive invariant  *)
(* that its own module states.                                             *)
(***************************************************************************)
EXTENDS Intake, FiniteSetTheorems, SequenceTheorems, WellFoundedInduction, TLAPS

-----------------------------------------------------------------------------
(* Type correctness *)

LEMMA ReplyType ==
  ASSUME TypeOK, NEW c \in Callers, NEW reply \in Request, Reply(c, reply)
  PROVE  /\ requests' \in [Callers -> Request]
         /\ requests'[c] = reply
         /\ \A d \in Callers : d # c => requests'[d] = requests[d]
BY DEF TypeOK, Reply

\* The content of a submission in flight is one of the contents.
LEMMA SubmittedType ==
  ASSUME TypeOK, NEW c \in Callers, requests[c].op = "submitted"
  PROVE  requests[c].content \in Contents
<1>1. requests[c] \in Request
  BY DEF TypeOK
<1>. QED BY <1>1 DEF Request, Idle

\* The three outcomes of a submission, each with what it writes.
Repeats(c) ==
  \E b \in Stored(requests[c].content) :
    /\ Reply(c, [op |-> "answered", brief |-> b, inserted |-> FALSE])
    /\ UNCHANGED <<briefs, inserts>>

Refuses(c) ==
  /\ Stored(requests[c].content) = {} /\ ~Room
  /\ Reply(c, [op |-> "refused", content |-> requests[c].content])
  /\ UNCHANGED <<briefs, inserts>>

NewBrief(c) == [content |-> requests[c].content, createdAt |-> clock]

Inserts(c) ==
  /\ Stored(requests[c].content) = {} /\ Room
  /\ briefs' = briefs \cup {NewBrief(c)}
  /\ Reply(c, [op |-> "answered", brief |-> NewBrief(c), inserted |-> TRUE])
  /\ inserts' = [inserts EXCEPT ![requests[c].content] = @ + 1]

LEMMA PutOutcomes ==
  ASSUME NEW c \in Callers, PutBrief(c)
  PROVE  /\ requests[c].op = "submitted"
         /\ UNCHANGED clock
         /\ Repeats(c) \/ Refuses(c) \/ Inserts(c)
BY Zenon DEF PutBrief, Repeats, Refuses, Inserts, NewBrief

\* Every reachable state is well typed.
THEOREM TypeCorrect == Spec => []TypeOK
<1>1. Init => TypeOK
  BY DEF Init, TypeOK, Request
<1>2. TypeOK /\ [Next]_vars => TypeOK'
  <2>. SUFFICES ASSUME TypeOK, [Next]_vars PROVE TypeOK'
    OBVIOUS
  <2>1. ASSUME NEW c \in Callers, Submit(c) PROVE TypeOK'
    <3>1. PICK d \in Contents : Reply(c, [op |-> "submitted", content |-> d])
      BY <2>1 DEF Submit
    <3>2. [op |-> "submitted", content |-> d] \in Request
      BY DEF Request
    <3>3. requests' \in [Callers -> Request]
      BY <3>1, <3>2, ReplyType
    <3>. QED BY <2>1, <3>3 DEF Submit, TypeOK
  <2>2. ASSUME NEW c \in Callers, PutBrief(c) PROVE TypeOK'
    <3>1. requests[c].content \in Contents
      BY <2>2, PutOutcomes, SubmittedType
    <3>2. CASE Repeats(c)
      <4>1. PICK b \in Stored(requests[c].content) :
              Reply(c, [op |-> "answered", brief |-> b, inserted |-> FALSE])
        BY <3>2 DEF Repeats
      <4>2. [op |-> "answered", brief |-> b, inserted |-> FALSE] \in Request
        BY <4>1 DEF Stored, TypeOK, Request
      <4>3. requests' \in [Callers -> Request]
        BY <4>1, <4>2, ReplyType
      <4>. QED BY <2>2, <3>2, <4>3, PutOutcomes DEF Repeats, TypeOK
    <3>3. CASE Refuses(c)
      <4>1. [op |-> "refused", content |-> requests[c].content] \in Request
        BY <3>1 DEF Request
      <4>2. requests' \in [Callers -> Request]
        BY <3>3, <4>1, ReplyType DEF Refuses
      <4>. QED BY <2>2, <3>3, <4>2, PutOutcomes DEF Refuses, TypeOK
    <3>4. CASE Inserts(c)
      <4>1. NewBrief(c) \in Brief
        BY <3>1 DEF NewBrief, Brief, TypeOK
      <4>2. [op |-> "answered", brief |-> NewBrief(c), inserted |-> TRUE] \in Request
        BY <4>1 DEF Request
      <4>3. requests' \in [Callers -> Request]
        BY <3>4, <4>2, ReplyType DEF Inserts
      <4>4. inserts' \in [Contents -> Nat]
        BY <3>1, <3>4 DEF Inserts, TypeOK
      <4>. QED BY <2>2, <3>4, <4>1, <4>3, <4>4, PutOutcomes DEF Inserts, TypeOK
    <3>. QED BY <2>2, <3>2, <3>3, <3>4, PutOutcomes
  <2>3. ASSUME NEW c \in Callers, Recent(c) PROVE TypeOK'
    <3>1. [op |-> "listed", listing |-> Listing(briefs)] \in Request
      BY DEF Listing, TypeOK, Request
    <3>2. requests' \in [Callers -> Request]
      BY <2>3, <3>1, ReplyType DEF Recent
    <3>. QED BY <2>3, <3>2 DEF Recent, TypeOK
  <2>4. ASSUME NEW c \in Callers, Fail(c) PROVE TypeOK'
    <3>1. Idle \in Request
      BY DEF Request
    <3>2. requests' \in [Callers -> Request]
      BY <2>4, <3>1, ReplyType DEF Fail
    <3>. QED BY <2>4, <3>2 DEF Fail, TypeOK
  <2>5. CASE Tick
    BY <2>5, BriefAssumption DEF Tick, TypeOK
  <2>6. CASE Restart
    BY <2>6 DEF Restart, TypeOK, Request
  <2>7. CASE UNCHANGED vars
    BY <2>7 DEF vars, TypeOK
  <2>. QED BY <2>1, <2>2, <2>3, <2>4, <2>5, <2>6, <2>7 DEF Next
<1>. QED BY <1>1, <1>2, PTL DEF Spec

-----------------------------------------------------------------------------
(* One brief for each content, within the capacity *)

\* Inserted answers are counted by whether their content is stored: StoredOnce
\* without its cardinalities.
TableInv ==
  /\ IsFiniteSet(briefs)
  /\ \A a, b \in briefs : a.content = b.content => a = b
  /\ \A d \in Contents : inserts[d] = IF Stored(d) = {} THEN 0 ELSE 1
  /\ WithinCapacity

LEMMA TableInit == Init => TableInv
<1>1. Cardinality({}) = 0 /\ IsFiniteSet({})
  BY FS_EmptySet
<1>. QED BY <1>1, BriefAssumption DEF Init, TableInv, Stored, WithinCapacity

\* Only an inserting submission writes the table or the counts.
LEMMA TableFrame ==
  ASSUME TypeOK, TableInv, UNCHANGED <<briefs, inserts>>
  PROVE  TableInv'
BY DEF TableInv, Stored, WithinCapacity

LEMMA TableInsert ==
  ASSUME TypeOK, TableInv, NEW c \in Callers, requests[c].content \in Contents, Inserts(c)
  PROVE  TableInv'
<1>. DEFINE d == requests[c].content
            new == NewBrief(c)
<1>1. new.content = d
  BY DEF NewBrief
<1>2. Stored(d) = {} /\ briefs' = briefs \cup {new}
  BY DEF Inserts
<1>3. new \notin briefs
  BY <1>1, <1>2 DEF Stored
<1>4. IsFiniteSet(briefs') /\ Cardinality(briefs') = Cardinality(briefs) + 1
  BY <1>2, <1>3, FS_AddElement DEF TableInv
<1>5. \A a, b \in briefs' : a.content = b.content => a = b
  BY <1>1, <1>2 DEF TableInv, Stored
<1>6. ASSUME NEW e \in Contents
      PROVE  inserts'[e] = IF Stored(e)' = {} THEN 0 ELSE 1
  <2>1. CASE e = d
    <3>1. inserts'[e] = inserts[e] + 1 /\ inserts[e] = 0
      BY <1>2, <2>1 DEF Inserts, TypeOK, TableInv
    <3>2. new \in Stored(e)'
      BY <1>1, <1>2, <2>1 DEF Stored
    <3>. QED BY <3>1, <3>2
  <2>2. CASE e # d
    <3>1. inserts'[e] = inserts[e]
      BY <2>2 DEF Inserts, TypeOK
    <3>2. Stored(e)' = Stored(e)
      BY <1>1, <1>2, <2>2 DEF Stored
    <3>. QED BY <3>1, <3>2 DEF TableInv
  <2>. QED BY <2>1, <2>2
<1>7. Cardinality(briefs') <= MaxBriefs
  <2>1. Cardinality(briefs) \in Nat
    BY FS_CardinalityType DEF TableInv
  <2>. QED BY <1>4, <2>1, BriefAssumption DEF Inserts, Room
<1>. QED BY <1>4, <1>5, <1>6, <1>7 DEF TableInv, WithinCapacity

LEMMA TableInductive == Spec => []TableInv
<1>1. TypeOK /\ TableInv /\ [Next]_vars => TableInv'
  <2>. SUFFICES ASSUME TypeOK, TableInv, [Next]_vars PROVE TableInv'
    OBVIOUS
  <2>1. ASSUME NEW c \in Callers, PutBrief(c) PROVE TableInv'
    <3>1. CASE Inserts(c)
      BY <2>1, <3>1, PutOutcomes, SubmittedType, TableInsert
    <3>2. CASE Repeats(c) \/ Refuses(c)
      BY <3>2, TableFrame DEF Repeats, Refuses
    <3>. QED BY <2>1, <3>1, <3>2, PutOutcomes
  <2>2. CASE UNCHANGED <<briefs, inserts>>
    BY <2>2, TableFrame
  <2>. QED BY <2>1, <2>2 DEF Next, Submit, Recent, Fail, Tick, Restart, vars
<1>. QED BY <1>1, TableInit, TypeCorrect, PTL DEF Spec

\* The capacity of the scope is never exceeded, however submissions race.
THEOREM CapacityHolds == Spec => []WithinCapacity
BY TableInductive, PTL DEF TableInv

\* A content is stored once, and one answer at most says that it was inserted.
THEOREM ContentStoredOnce == Spec => []StoredOnce
<1>1. TableInv => StoredOnce
  <2>. SUFFICES ASSUME TableInv PROVE StoredOnce
    OBVIOUS
  <2>1. ASSUME NEW d \in Contents PROVE inserts[d] = Cardinality(Stored(d))
    <3>1. CASE Stored(d) = {}
      BY <3>1, FS_EmptySet DEF TableInv
    <3>2. CASE Stored(d) # {}
      <4>1. PICK b : Stored(d) = {b}
        BY <3>2 DEF TableInv, Stored
      <4>2. Cardinality({b}) = 1
        BY FS_Singleton
      <4>. QED BY <3>2, <4>1, <4>2 DEF TableInv
    <3>. QED BY <3>1, <3>2
  <2>. QED BY <2>1 DEF TableInv, StoredOnce
<1>. QED BY <1>1, TableInductive, PTL

-----------------------------------------------------------------------------
(* What callers were told *)

\* What a caller was answered or shown stays in the table, as it was.
THEOREM AnswersStand == Spec => []AnsweredIsStored
<1>1. Init => AnsweredIsStored
  BY DEF Init, AnsweredIsStored, Idle
<1>2. TypeOK /\ AnsweredIsStored /\ [Next]_vars => AnsweredIsStored'
  <2>. SUFFICES ASSUME TypeOK, AnsweredIsStored, [Next]_vars PROVE AnsweredIsStored'
    OBVIOUS
  <2>1. ASSUME NEW c \in Callers, NEW reply \in Request, Reply(c, reply),
               briefs \subseteq briefs',
               reply.op = "answered" => reply.brief \in briefs',
               reply.op = "listed" => reply.listing \subseteq briefs'
        PROVE  AnsweredIsStored'
    <3>1. /\ requests'[c] = reply
          /\ \A d \in Callers : d # c => requests'[d] = requests[d]
      BY <2>1, ReplyType
    <3>. QED BY <2>1, <3>1 DEF AnsweredIsStored
  <2>2. ASSUME NEW c \in Callers, Submit(c) PROVE AnsweredIsStored'
    <3>1. PICK d \in Contents : Reply(c, [op |-> "submitted", content |-> d])
      BY <2>2 DEF Submit
    <3>2. [op |-> "submitted", content |-> d] \in Request
      BY DEF Request
    <3>. QED BY <2>1, <2>2, <3>1, <3>2 DEF Submit
  <2>3. ASSUME NEW c \in Callers, PutBrief(c) PROVE AnsweredIsStored'
    <3>1. requests[c].content \in Contents
      BY <2>3, PutOutcomes, SubmittedType
    <3>2. CASE Repeats(c)
      <4>1. PICK b \in Stored(requests[c].content) :
              Reply(c, [op |-> "answered", brief |-> b, inserted |-> FALSE])
        BY <3>2 DEF Repeats
      <4>2. b \in briefs /\ [op |-> "answered", brief |-> b, inserted |-> FALSE] \in Request
        BY <4>1 DEF Stored, TypeOK, Request
      <4>. QED BY <2>1, <3>2, <4>1, <4>2 DEF Repeats
    <3>3. CASE Refuses(c)
      <4>1. [op |-> "refused", content |-> requests[c].content] \in Request
        BY <3>1 DEF Request
      <4>. QED BY <2>1, <3>3, <4>1 DEF Refuses
    <3>4. CASE Inserts(c)
      <4>1. NewBrief(c) \in Brief
        BY <3>1 DEF NewBrief, Brief, TypeOK
      <4>2. [op |-> "answered", brief |-> NewBrief(c), inserted |-> TRUE] \in Request
        BY <4>1 DEF Request
      <4>. QED BY <2>1, <3>4, <4>2 DEF Inserts
    <3>. QED BY <2>3, <3>2, <3>3, <3>4, PutOutcomes
  <2>4. ASSUME NEW c \in Callers, Recent(c) PROVE AnsweredIsStored'
    <3>1. [op |-> "listed", listing |-> Listing(briefs)] \in Request
      BY DEF Listing, TypeOK, Request
    <3>2. Listing(briefs) \subseteq briefs
      BY DEF Listing
    <3>. QED BY <2>1, <2>4, <3>1, <3>2 DEF Recent
  <2>5. ASSUME NEW c \in Callers, Fail(c) PROVE AnsweredIsStored'
    <3>1. Idle \in Request
      BY DEF Request
    <3>. QED BY <2>1, <2>5, <3>1 DEF Fail, Idle
  <2>6. CASE Tick
    BY <2>6 DEF Tick, AnsweredIsStored
  <2>7. CASE Restart
    BY <2>7 DEF Restart, AnsweredIsStored, Idle
  <2>8. CASE UNCHANGED vars
    BY <2>8 DEF vars, AnsweredIsStored
  <2>. QED BY <2>2, <2>3, <2>4, <2>5, <2>6, <2>7, <2>8 DEF Next
<1>. QED BY <1>1, <1>2, TypeCorrect, PTL DEF Spec

\* The store keeps its briefs once, within its capacity, and as it answered them.
THEOREM BriefsStay == Spec => []BriefsAreKept
BY CapacityHolds, ContentStoredOnce, AnswersStand, PTL DEF BriefsAreKept

\* Only new content is refused for want of room: at capacity a repetition still
\* finds the original.
THEOREM RefusalsAreOfNew == Spec => RefusedIsNew
<1>. DEFINE Turned(c) == requests[c].op = "submitted" /\ requests'[c].op = "refused"
<1>1. ASSUME TypeOK, [Next]_vars, NEW c \in Callers, Turned(c)
      PROVE  Stored(requests[c].content) = {}
  <2>1. ASSUME NEW d \in Callers, NEW reply \in Request, Reply(d, reply), reply.op # "refused"
        PROVE  FALSE
    BY <1>1, <2>1, ReplyType
  <2>2. CASE \E d \in Callers : Submit(d)
    <3>1. PICK d \in Callers, e \in Contents : Reply(d, [op |-> "submitted", content |-> e])
      BY <2>2 DEF Submit
    <3>2. [op |-> "submitted", content |-> e] \in Request
      BY DEF Request
    <3>. QED BY <2>1, <3>1, <3>2
  <2>3. ASSUME NEW d \in Callers, PutBrief(d) PROVE Stored(requests[c].content) = {}
    <3>1. requests[d].content \in Contents
      BY <1>1, <2>3, PutOutcomes, SubmittedType
    <3>2. CASE Repeats(d)
      <4>1. PICK b \in Stored(requests[d].content) :
              Reply(d, [op |-> "answered", brief |-> b, inserted |-> FALSE])
        BY <3>2 DEF Repeats
      <4>2. [op |-> "answered", brief |-> b, inserted |-> FALSE] \in Request
        BY <1>1, <4>1 DEF Stored, TypeOK, Request
      <4>. QED BY <2>1, <4>1, <4>2
    <3>3. CASE Refuses(d)
      <4>1. [op |-> "refused", content |-> requests[d].content] \in Request
        BY <3>1 DEF Request
      <4>2. c = d
        BY <1>1, <3>3, <4>1, ReplyType DEF Refuses
      <4>. QED BY <3>3, <4>2 DEF Refuses
    <3>4. CASE Inserts(d)
      <4>1. NewBrief(d) \in Brief
        BY <1>1, <3>1 DEF NewBrief, Brief, TypeOK
      <4>2. [op |-> "answered", brief |-> NewBrief(d), inserted |-> TRUE] \in Request
        BY <4>1 DEF Request
      <4>. QED BY <2>1, <3>4, <4>2 DEF Inserts
    <3>. QED BY <2>3, <3>2, <3>3, <3>4, PutOutcomes
  <2>4. CASE \E d \in Callers : Recent(d)
    <3>1. [op |-> "listed", listing |-> Listing(briefs)] \in Request
      BY <1>1 DEF Listing, TypeOK, Request
    <3>. QED BY <2>1, <2>4, <3>1 DEF Recent
  <2>5. CASE \E d \in Callers : Fail(d)
    <3>1. Idle \in Request /\ Idle.op # "refused"
      BY DEF Request, Idle
    <3>. QED BY <2>1, <2>5, <3>1 DEF Fail
  <2>6. CASE UNCHANGED requests
    BY <1>1, <2>6
  <2>7. CASE Restart
    BY <1>1, <2>7 DEF Restart, Idle
  <2>. QED BY <1>1, <2>2, <2>3, <2>4, <2>5, <2>6, <2>7 DEF Next, Tick, vars
<1>2. TypeOK /\ [Next]_vars =>
        [\A c \in Callers : Turned(c) => Stored(requests[c].content) = {}]_vars
  BY <1>1
<1>. QED BY <1>2, TypeCorrect, PTL DEF Spec, RefusedIsNew


-----------------------------------------------------------------------------
(* The parts side by side *)

\* A behaviour starts as one of the part it follows.
LEMMA PartsStart ==
  ASSUME PartInit
  PROVE  /\ part = "bodies" => Bodies!Init
         /\ part = "depths" => Depths!Init
         /\ part = "archive" => Archive!Init
         /\ part = "contracts" => Contracts!Init
         /\ part = "claims" => Claims!Init
BY DEF PartInit

\* Each of its steps is one of that part, or leaves that part alone.
LEMMA PartsStep ==
  ASSUME [PartNext]_partVars
  PROVE  /\ part' = part
         /\ part = "bodies" => [Bodies!Next]_bodyVars
         /\ part = "depths" => [Depths!Next]_text
         /\ part = "archive" => [Archive!Next]_archiveVars
         /\ part = "contracts" => [Contracts!Next]_contractVars
         /\ part = "claims" => [Claims!Next]_claimVars
BY DEF PartNext, partVars, OnlyBriefs, OnlyBodies, OnlyDepths, OnlyArchive, OnlyContracts, OnlyClaims

-----------------------------------------------------------------------------
(* BodyBounds *)

\* What a step that only moves on leaves alone.
LEMMA GoesKeeps ==
  ASSUME Bodies!ReadInv, NEW to, Bodies!Goes(to), to \notin {"reading", "parsing", "accepted"}
  PROVE  Bodies!ReadInv'
BY DEF Bodies!ReadInv, Bodies!TypeOK, Bodies!Goes

LEMMA TakenFits ==
  ASSUME Bodies!ReadInv, NEW n \in 1 .. BodyChunk, Bodies!Reading
  PROVE  /\ Bodies!Taken(n) \in 0 .. n
         /\ reader \in Bodies!Exact /\ head.declared >= 0 => got + Bodies!Taken(n) <= head.declared
<1>1. got \in Nat /\ head.declared \in Int /\ n \in Nat
  BY IntakeAssumption DEF Bodies!ReadInv, Bodies!TypeOK, Bodies!BoundsAssumption, Bodies!Lengths, Bodies!NoLength, Bodies!NoNumber
<1>2. CASE reader \in Bodies!Exact /\ head.declared >= 0
  BY <1>1, <1>2 DEF Bodies!ReadInv, Bodies!Taken
<1>3. CASE ~(reader \in Bodies!Exact /\ head.declared >= 0)
  BY <1>1, <1>3 DEF Bodies!Taken
<1>. QED BY <1>2, <1>3

LEMMA EndsKeeps ==
  ASSUME Bodies!ReadInv, Bodies!Ends, state = "reading", reader = "inbound" => elapsed <= BodyDeadline
  PROVE  Bodies!ReadInv'
<1>1. CASE ~Bodies!Whole
  BY <1>1, GoesKeeps DEF Bodies!Ends
<1>2. CASE Bodies!Whole
  BY <1>2 DEF Bodies!Ends, Bodies!ReadInv, Bodies!TypeOK, Bodies!Whole, Bodies!TypeFits, Bodies!LengthFits
<1>. QED BY <1>1, <1>2

LEMMA ReadInvStarts ==
  ASSUME Bodies!Init
  PROVE  Bodies!ReadInv
<1>1. Bodies!TypeOK
  BY IntakeAssumption DEF Bodies!BoundsAssumption, Bodies!Init, Bodies!TypeOK
<1>. QED BY <1>1 DEF Bodies!Init, Bodies!ReadInv

LEMMA ReadInvStays ==
  ASSUME Bodies!ReadInv, [Bodies!Next]_bodyVars
  PROVE  Bodies!ReadInv'
<1>1. CASE Bodies!ReadHead
  <2>1. CASE head.fine /\ Bodies!TypeFits /\ Bodies!LengthFits
    BY <1>1, <2>1 DEF Bodies!ReadHead, Bodies!Goes, Bodies!ReadInv, Bodies!TypeOK, Bodies!TypeFits, Bodies!LengthFits
  <2>2. CASE ~(head.fine /\ Bodies!TypeFits /\ Bodies!LengthFits)
    BY <1>1, <2>2, GoesKeeps DEF Bodies!ReadHead
  <2>. QED BY <2>1, <2>2
<1>2. ASSUME NEW n \in 1 .. BodyChunk, Bodies!Deliver(n) PROVE Bodies!ReadInv'
  <2>1. CASE Bodies!Goes("Late") \/ Bodies!Goes("TooLarge")
    BY <2>1, GoesKeeps
  <2>2. CASE /\ Bodies!Fits(Bodies!Taken(n)) /\ got' = got + Bodies!Taken(n) /\ quiet' = 0
             /\ UNCHANGED <<reader, head, elapsed, content, state>>
    <3>1. Bodies!Taken(n) \in Nat /\ got \in Nat /\ BodyBudget \in Nat /\ BodySilence \in Nat
      BY <1>2, TakenFits, IntakeAssumption DEF Bodies!Deliver, Bodies!BoundsAssumption, Bodies!ReadInv, Bodies!TypeOK
    <3>2. got' \in 0 .. BodyBudget /\ quiet' \in 0 .. BodySilence
      BY <2>2, <3>1 DEF Bodies!Fits
    <3>3. reader \in Bodies!Exact /\ head.declared >= 0 => got' <= head.declared
      BY <1>2, <2>2, TakenFits DEF Bodies!Deliver
    <3>4. state = "reading"
      BY <1>2 DEF Bodies!Deliver, Bodies!Reading
    <3>. QED BY <2>2, <3>2, <3>3, <3>4 DEF Bodies!ReadInv, Bodies!TypeOK, Bodies!TypeFits, Bodies!LengthFits
  <2>. QED BY <1>2, <2>1, <2>2 DEF Bodies!Deliver
<1>3. CASE Bodies!Finish
  <2>1. CASE Bodies!Late
    BY <1>3, <2>1, GoesKeeps DEF Bodies!Finish
  <2>2. CASE ~Bodies!Late
    <3>1. reader = "inbound" => elapsed <= BodyDeadline
      BY <2>2, IntakeAssumption DEF Bodies!Late, Bodies!ReadInv, Bodies!TypeOK, Bodies!BoundsAssumption
    <3>. QED BY <1>3, <2>2, <3>1, EndsKeeps DEF Bodies!Finish, Bodies!Reading
  <2>. QED BY <2>1, <2>2
<1>4. CASE Bodies!Filled
  <2>1. reader # "inbound"
    BY <1>4 DEF Bodies!Filled, Bodies!Full, Bodies!Exact
  <2>. QED BY <1>4, <2>1, EndsKeeps DEF Bodies!Filled
<1>5. CASE Bodies!Break
  BY <1>5, GoesKeeps DEF Bodies!Break
<1>6. CASE Bodies!Tick
  <2>1. elapsed' \in 0 .. BodyDeadline + 1 /\ quiet' \in 0 .. BodySilence
    BY <1>6, IntakeAssumption DEF Bodies!Tick, Bodies!ReadInv, Bodies!TypeOK, Bodies!BoundsAssumption
  <2>2. state = "reading" /\ UNCHANGED <<reader, head, got, content, state>>
    BY <1>6 DEF Bodies!Tick, Bodies!Reading
  <2>. QED BY <2>1, <2>2 DEF Bodies!ReadInv, Bodies!TypeOK, Bodies!TypeFits, Bodies!LengthFits
<1>7. CASE Bodies!TimeOut
  BY <1>7, GoesKeeps DEF Bodies!TimeOut
<1>8. CASE Bodies!Parse
  <2>1. CASE Bodies!Parsed => content \in Bodies!Accepts
    BY <1>8, <2>1 DEF Bodies!Parse, Bodies!Goes, Bodies!ReadInv, Bodies!TypeOK, Bodies!Whole, Bodies!TypeFits, Bodies!LengthFits, Bodies!Parsed, Bodies!Accepts
  <2>2. CASE ~(Bodies!Parsed => content \in Bodies!Accepts)
    BY <1>8, <2>2, GoesKeeps DEF Bodies!Parse
  <2>. QED BY <2>1, <2>2
<1>9. CASE UNCHANGED bodyVars
  BY <1>9 DEF bodyVars, Bodies!ReadInv, Bodies!TypeOK, Bodies!Whole, Bodies!TypeFits, Bodies!LengthFits, Bodies!Parsed, Bodies!Accepts
<1>. QED BY <1>1, <1>2, <1>3, <1>4, <1>5, <1>6, <1>7, <1>8, <1>9 DEF Bodies!Next

LEMMA ReadInvShows ==
  ASSUME Bodies!ReadInv
  PROVE  Bodies!AdmittedIsWhole
<1>. SUFFICES ASSUME state = "accepted" PROVE Bodies!AdmittedIsWhole
  BY DEF Bodies!AdmittedIsWhole
<1>1. /\ got <= BodyBudget
      /\ reader \in {"inbound", "provider", "fabric"} => head.declared \in {Bodies!NoLength, got}
      /\ reader \in Bodies!Exact /\ head.declared >= 0 => got <= head.declared
      /\ reader = "inbound" => elapsed <= BodyDeadline
  BY IntakeAssumption DEF Bodies!ReadInv, Bodies!TypeOK, Bodies!Whole, Bodies!BoundsAssumption
<1>2. ASSUME reader \notin {"connector", "registry"}, head.type = "json", got > 0
      PROVE  /\ content \notin {"scalar", "tooDeep", "notJson"}
             /\ reader \in {"inbound", "review", "provider"} => content \in {"object", "array"}
  <2>1. content \in Bodies!Accepts
    BY <1>2 DEF Bodies!ReadInv, Bodies!Parsed
  <2>. QED BY <2>1 DEF Bodies!Accepts
<1>. QED BY <1>1, <1>2 DEF Bodies!AdmittedIsWhole

\* What any of the eight readers hands on is within its budget and what was
\* declared, whole and in time where the reader looks, and read to its end by a
\* strict parser where it parses (http_bounds.py, provider_response.py, ...).
THEOREM AdmittedStaysWhole == PartSpec => []AdmittedIsWhole
<1>. DEFINE Inv == part = "bodies" => Bodies!ReadInv
<1>1. PartInit => Inv
  BY PartsStart, ReadInvStarts
<1>2. Inv /\ [PartNext]_partVars => Inv'
  BY PartsStep, ReadInvStays
<1>3. Inv => AdmittedIsWhole
  BY ReadInvShows DEF AdmittedIsWhole
<1>. QED BY <1>1, <1>2, <1>3, PTL DEF PartSpec

-----------------------------------------------------------------------------
(* EvidenceContracts *)

LEMMA WholeUnitsGrow ==
  ASSUME NEW d \in Nat \ {0}, NEW x \in Nat, NEW y \in Nat, x <= y
  PROVE  x \div d \in Nat /\ x \div d <= y \div d
OBVIOUS

\* While the clock goes on an observation stays admitted and gets no younger.
LEMMA TimePasses ==
  ASSUME Contracts!AgesInv, now' = now + 1, evidence' = evidence
  PROVE  /\ Contracts!Admitted => Contracts!Admitted'
         /\ Contracts!Fresh' => Contracts!Fresh
<1>1. now \in Nat /\ evidence.observedAt \in Nat /\ evidence.freshness \in Nat
  BY DEF Contracts!AgesInv
<1>2. TimeUnits \in Nat \ {0} /\ FutureSkew \in Nat
  BY IntakeAssumption DEF Contracts!ContractsAssumption
<1>3. Contracts!Admitted => Contracts!Admitted'
  <2>1. FutureSkew * TimeUnits \in Nat
    BY <1>2
  <2>. QED BY <1>1, <2>1 DEF Contracts!Admitted
<1>4. Contracts!Age \in Nat /\ Contracts!Age' \in Nat /\ Contracts!Age <= Contracts!Age'
  <2>1. CASE now >= evidence.observedAt
    <3>1. now - evidence.observedAt \in Nat /\ now' - evidence.observedAt \in Nat
      BY <1>1, <2>1
    <3>2. now - evidence.observedAt <= now' - evidence.observedAt
      BY <1>1
    <3>3. now' >= evidence.observedAt
      BY <1>1, <2>1
    <3>. QED BY <1>2, <2>1, <3>1, <3>2, <3>3, WholeUnitsGrow DEF Contracts!Age
  <2>2. CASE ~(now >= evidence.observedAt)
    <3>1. CASE now' >= evidence.observedAt
      <4>1. now' - evidence.observedAt \in Nat
        BY <1>1, <3>1
      <4>. QED BY <1>2, <2>2, <3>1, <4>1, WholeUnitsGrow DEF Contracts!Age
    <3>2. CASE ~(now' >= evidence.observedAt)
      BY <2>2, <3>2 DEF Contracts!Age
    <3>. QED BY <3>1, <3>2
  <2>. QED BY <2>1, <2>2
<1>. QED BY <1>1, <1>3, <1>4 DEF Contracts!Fresh

\* What a contract answers of one observation is never younger at a later time.
LEMMA VerdictsAge ==
  ASSUME Contracts!AgesInv, now' = now + 1, evidence' = evidence
  PROVE  /\ evidence.state = "OBSERVED" =>
              Contracts!Phase(Contracts!Coverage)' >= Contracts!Phase(Contracts!Coverage)
         /\ Contracts!Phase(Contracts!ReadDecision)' >= Contracts!Phase(Contracts!ReadDecision)
<1>1. /\ Contracts!Admitted => Contracts!Admitted'
      /\ Contracts!Fresh' => Contracts!Fresh
  BY TimePasses
<1>2. evidence.state = "OBSERVED" =>
        Contracts!Phase(Contracts!Coverage)' >= Contracts!Phase(Contracts!Coverage)
  BY <1>1 DEF Contracts!Phase, Contracts!Coverage, Contracts!Rejected
<1>3. Contracts!Phase(Contracts!ReadDecision)' >= Contracts!Phase(Contracts!ReadDecision)
  BY <1>1 DEF Contracts!Phase, Contracts!ReadDecision, Contracts!Rejected
<1>. QED BY <1>2, <1>3

LEMMA AgesInvStarts ==
  ASSUME Contracts!Init
  PROVE  Contracts!AgesInv
<1>1. /\ now = 0 /\ coverage = Contracts!Unasked /\ read = Contracts!Unasked
      /\ evidence.observedAt \in 0 .. TimeBound /\ evidence.freshness \in FreshFor
      /\ evidence.state \in Contracts!States
  BY DEF Contracts!Init
<1>2. FreshFor \subseteq Nat \ {0} /\ TimeBound \in Nat
  BY IntakeAssumption DEF Contracts!ContractsAssumption
<1>3. evidence.freshness \in Nat
  BY <1>1, <1>2
<1>4. evidence.observedAt \in Nat
  BY <1>1, <1>2
<1>. QED BY <1>1, <1>3, <1>4 DEF Contracts!AgesInv

LEMMA AgesInvStays ==
  ASSUME Contracts!AgesInv, [Contracts!Next]_contractVars
  PROVE  Contracts!AgesInv' /\ Contracts!Ages
<1>1. Contracts!Phase(Contracts!Coverage) \in Nat /\ Contracts!Phase(Contracts!ReadDecision) \in Nat
  BY DEF Contracts!Phase
<1>2. Contracts!Phase(coverage) \in Nat /\ Contracts!Phase(read) \in Nat
  BY DEF Contracts!Phase
<1>3. CASE Contracts!AskCoverage
  <2>1. /\ coverage' = Contracts!Coverage /\ UNCHANGED <<now, evidence, read>>
        /\ Contracts!Coverage' = Contracts!Coverage /\ Contracts!ReadDecision' = Contracts!ReadDecision
    BY <1>3 DEF Contracts!AskCoverage, Contracts!Coverage, Contracts!ReadDecision, Contracts!Admitted,
      Contracts!Fresh, Contracts!Age
  <2>2. /\ Contracts!Phase(coverage)' = Contracts!Phase(Contracts!Coverage)
        /\ Contracts!Phase(read)' = Contracts!Phase(read)
        /\ Contracts!Phase(Contracts!Coverage)' = Contracts!Phase(Contracts!Coverage)
        /\ Contracts!Phase(Contracts!ReadDecision)' = Contracts!Phase(Contracts!ReadDecision)
    BY <2>1 DEF Contracts!Phase
  <2>. QED BY <1>1, <1>2, <2>1, <2>2 DEF Contracts!AgesInv, Contracts!Ages
<1>4. CASE Contracts!AskRead
  <2>1. /\ read' = Contracts!ReadDecision /\ UNCHANGED <<now, evidence, coverage>>
        /\ Contracts!Coverage' = Contracts!Coverage /\ Contracts!ReadDecision' = Contracts!ReadDecision
    BY <1>4 DEF Contracts!AskRead, Contracts!Coverage, Contracts!ReadDecision, Contracts!Admitted,
      Contracts!Fresh, Contracts!Age
  <2>2. /\ Contracts!Phase(read)' = Contracts!Phase(Contracts!ReadDecision)
        /\ Contracts!Phase(coverage)' = Contracts!Phase(coverage)
        /\ Contracts!Phase(Contracts!Coverage)' = Contracts!Phase(Contracts!Coverage)
        /\ Contracts!Phase(Contracts!ReadDecision)' = Contracts!Phase(Contracts!ReadDecision)
    BY <2>1 DEF Contracts!Phase
  <2>3. read' = "ALLOW_READ" /\ evidence.state = "OBSERVED" => Contracts!Coverage # "STALE"
    BY <2>1 DEF Contracts!ReadDecision, Contracts!Coverage, Contracts!Rejected
  <2>. QED BY <1>1, <1>2, <2>1, <2>2, <2>3 DEF Contracts!AgesInv, Contracts!Ages
<1>5. CASE Contracts!Advance
  <2>1. now' = now + 1 /\ UNCHANGED <<evidence, coverage, read>>
    BY <1>5 DEF Contracts!Advance
  <2>2. /\ Contracts!Phase(coverage)' = Contracts!Phase(coverage)
        /\ Contracts!Phase(read)' = Contracts!Phase(read)
    BY <2>1 DEF Contracts!Phase
  <2>3. /\ Contracts!Phase(Contracts!Coverage)' \in Nat
        /\ Contracts!Phase(Contracts!ReadDecision)' \in Nat
    BY DEF Contracts!Phase
  <2>. QED BY <1>1, <1>2, <2>1, <2>2, <2>3, VerdictsAge DEF Contracts!AgesInv, Contracts!Ages
<1>6. CASE Contracts!AskProfile \/ UNCHANGED contractVars
  <2>1. UNCHANGED <<now, evidence, coverage, read>>
    BY <1>6 DEF Contracts!AskProfile, contractVars
  <2>2. Contracts!Coverage' = Contracts!Coverage /\ Contracts!ReadDecision' = Contracts!ReadDecision
    BY <2>1 DEF Contracts!Coverage, Contracts!ReadDecision, Contracts!Admitted, Contracts!Fresh, Contracts!Age
  <2>. QED BY <1>1, <1>2, <2>1, <2>2 DEF Contracts!AgesInv, Contracts!Ages, Contracts!Phase
<1>. QED BY <1>3, <1>4, <1>5, <1>6 DEF Contracts!Next

\* An observation only ages: whatever is asked in whatever order while the clock goes on,
\* what was refused as over is never current again, and a read is never allowed on what
\* the coverage calls over at that moment (frontier_contracts.py _admit_time, _age).
THEOREM ObservationsOnlyAge == PartSpec => EvidenceOnlyAges
<1>. DEFINE Inv == part = "contracts" => Contracts!AgesInv
<1>1. PartInit => Inv
  BY PartsStart, AgesInvStarts
<1>2. Inv /\ [PartNext]_partVars => Inv' /\ (part = "contracts" => Contracts!Ages)
  BY PartsStep, AgesInvStays
<1>. QED BY <1>1, <1>2, PTL DEF PartSpec, EvidenceOnlyAges

-----------------------------------------------------------------------------
(* ClaimReview *)

\* The finite sets of an instance are the finite sets.
LEMMA FiniteClaims ==
  /\ \A S : Claims!IsFiniteSet(S) <=> IsFiniteSet(S)
  /\ \A S : Claims!Cardinality(S) = Cardinality(S)
<1>1. \A S : Claims!IsFiniteSet(S) <=> IsFiniteSet(S)
  BY DEF IsFiniteSet, Claims!IsFiniteSet
<1>2. \A S : Claims!Cardinality(S) = Cardinality(S)
  BY DEF Cardinality, Claims!Cardinality
<1>. QED BY <1>1, <1>2

\* Every nonempty set of naturals has a least element.
LEMMA LeastNatural ==
  ASSUME NEW S \in SUBSET Nat, S # {}
  PROVE  \E m \in S : \A n \in S : m <= n
<1>1. PICK m \in S : \A n \in S : ~ (<<n, m>> \in OpToRel(<, Nat))
  BY WFMin, NatLessThanWellFounded
<1>2. \A n \in S : <<n, m>> \in OpToRel(<, Nat) <=> n < m
  BY DEF OpToRel
<1>3. \A n \in S : n \in Nat
  OBVIOUS
<1>4. ASSUME NEW n \in S PROVE m <= n
  <2>1. ~ (n < m)
    BY <1>1, <1>2, Zenon
  <2>. QED BY <1>3, <2>1
<1>. QED BY <1>4

LEMMA TextTypes ==
  ASSUME Claims!ReviewInv, NEW a \in anchors
  PROVE  /\ a.start \in Nat /\ a.end \in Nat /\ a.start < a.end
         /\ a.quote \in Seq(Nat) /\ Len(a.quote) > 0
         /\ a.document \in Nat /\ a.document \in DocumentIds /\ a.claim \in ClaimIds
         /\ documents[a.document].text \in Seq(Nat)
         /\ documents[a.document] = Claims!Absent => Len(documents[a.document].text) = 0
<1>1. a \in Claims!Anchor /\ documents \in [DocumentIds -> Claims!Documents]
  BY DEF Claims!ReviewInv
<1>2. /\ a.start \in Nat /\ a.end \in Nat /\ a.start < a.end
      /\ a.document \in DocumentIds /\ a.claim \in ClaimIds /\ a.quote \in AnchorQuotes
  BY <1>1 DEF Claims!Anchor, Claims!MaxEnd, Claims!ReviewInv
<1>3. /\ \A t \in DocumentTexts \cup AnchorQuotes : t \in Seq(Nat) \ {<<>>}
      /\ DocumentIds \subseteq Nat
  BY IntakeAssumption DEF Claims!ReviewAssumption
<1>4. a.quote \in Seq(Nat) /\ a.quote # <<>>
  BY <1>2, <1>3
<1>5. documents[a.document] \in Claims!Documents
  BY <1>1, <1>2
<1>6. documents[a.document].text \in Seq(Nat)
  <2>1. documents[a.document] = Claims!Absent \/ documents[a.document].text \in DocumentTexts
    BY <1>5 DEF Claims!Documents
  <2>2. <<>> \in Seq(Nat)
    BY EmptySeq
  <2>3. documents[a.document] = Claims!Absent => documents[a.document].text = <<>>
    BY DEF Claims!Absent
  <2>. QED BY <1>3, <2>1, <2>2, <2>3
<1>7. documents[a.document] = Claims!Absent => documents[a.document].text = <<>>
  BY DEF Claims!Absent
<1>8. Len(a.quote) > 0 /\ (documents[a.document] = Claims!Absent => Len(documents[a.document].text) = 0)
  BY <1>4, <1>7, EmptySeq
<1>. QED BY <1>2, <1>3, <1>4, <1>6, <1>8

\* An anchor is matched exactly if its letters stand in a document that is the
\* expected one: no slice that is cut short at the end of the text passes.
LEMMA MatchedStands ==
  ASSUME Claims!ReviewInv, NEW a \in anchors
  PROVE  Claims!Status(a) = "MATCHED" <=>
           /\ Claims!Stands(a)
           /\ documents[a.document].text = documents[a.document].expected
<1>. DEFINE doc == documents[a.document]
<1>1. /\ a.start \in Nat /\ a.end \in Nat /\ a.start < a.end
      /\ a.quote \in Seq(Nat) /\ Len(a.quote) > 0
      /\ doc.text \in Seq(Nat)
      /\ doc = Claims!Absent => Len(doc.text) = 0
  BY TextTypes
<1>2. Claims!Status(a) = "MATCHED" <=>
        /\ doc # Claims!Absent
        /\ doc.text = doc.expected
        /\ a.end <= Len(doc.text)
        /\ Claims!Slice(doc.text, a.start, a.end) = a.quote
  BY <1>1 DEF Claims!Status
<1>3. ASSUME a.end <= Len(doc.text)
      PROVE  /\ Claims!Slice(doc.text, a.start, a.end) \in Seq(Nat)
             /\ Len(Claims!Slice(doc.text, a.start, a.end)) = a.end - a.start
             /\ \A i \in 1 .. a.end - a.start :
                  Claims!Slice(doc.text, a.start, a.end)[i] = doc.text[a.start + i]
  <2>. DEFINE first == a.start + 1
  <2>1. first \in Int /\ a.end \in Int /\ \A i \in first .. a.end : doc.text[i] \in Nat
    <3>1. \A i \in first .. a.end : i \in 1 .. Len(doc.text)
      BY <1>1, <1>3
    <3>2. \A i \in 1 .. Len(doc.text) : doc.text[i] \in Nat
      BY <1>1, ElementOfSeq
    <3>. QED BY <1>1, <3>1, <3>2
  <2>. HIDE DEF first
  <2>2. /\ SubSeq(doc.text, first, a.end) \in Seq(Nat)
        /\ Len(SubSeq(doc.text, first, a.end)) = IF first <= a.end THEN a.end - first + 1 ELSE 0
        /\ \A i \in 1 .. a.end - first + 1 :
             SubSeq(doc.text, first, a.end)[i] = doc.text[first + i - 1]
    BY <2>1, SubSeqProperties
  <2>. USE DEF first
  <2>3. first <= a.end /\ a.end - first + 1 = a.end - a.start
    BY <1>1
  <2>4. \A i \in 1 .. a.end - a.start : first + i - 1 = a.start + i
    BY <1>1
  <2>. QED BY <2>2, <2>3, <2>4 DEF Claims!Slice
<1>4. ASSUME Claims!Status(a) = "MATCHED"
      PROVE  Claims!Stands(a) /\ doc.text = doc.expected
  <2>1. /\ doc.text = doc.expected /\ a.end <= Len(doc.text)
        /\ Claims!Slice(doc.text, a.start, a.end) = a.quote
    BY <1>2, <1>4
  <2>2. Len(a.quote) = a.end - a.start
    BY <1>3, <2>1
  <2>3. ASSUME NEW i \in 1 .. Len(a.quote)
        PROVE  a.start + i \in 1 .. Len(doc.text) /\ doc.text[a.start + i] = a.quote[i]
    <3>1. i \in 1 .. a.end - a.start
      BY <2>2
    <3>2. doc.text[a.start + i] = a.quote[i]
      BY <1>3, <2>1, <3>1
    <3>3. a.start + i \in 1 .. Len(doc.text)
      <4>1. Len(doc.text) \in Nat
        BY <1>1
      <4>. QED BY SMTT(30), <1>1, <2>1, <3>1, <4>1
    <3>. QED BY <3>2, <3>3
  <2>. QED BY <2>1, <2>2, <2>3 DEF Claims!Stands
<1>5. ASSUME Claims!Stands(a), doc.text = doc.expected
      PROVE  Claims!Status(a) = "MATCHED"
  <2>1. /\ Len(a.quote) = a.end - a.start
        /\ \A i \in 1 .. Len(a.quote) :
             a.start + i \in 1 .. Len(doc.text) /\ doc.text[a.start + i] = a.quote[i]
    BY <1>5 DEF Claims!Stands
  <2>2. a.end <= Len(doc.text)
    <3>1. Len(a.quote) \in 1 .. Len(a.quote)
      BY <1>1
    <3>. QED BY <1>1, <2>1, <3>1
  <2>3. doc # Claims!Absent
    BY <1>1, <2>2
  <2>4. Claims!Slice(doc.text, a.start, a.end) = a.quote
    <3>1. /\ Claims!Slice(doc.text, a.start, a.end) \in Seq(Nat)
          /\ Len(Claims!Slice(doc.text, a.start, a.end)) = Len(a.quote)
          /\ \A i \in 1 .. Len(a.quote) : Claims!Slice(doc.text, a.start, a.end)[i] = a.quote[i]
      BY <1>3, <2>1, <2>2
    <3>. QED BY <1>1, <3>1, SeqEqual
  <2>. QED BY <1>2, <1>5, <2>2, <2>3, <2>4
<1>. QED BY <1>4, <1>5

\* What of the matched anchors of a claim and a relationship is not a duplicate.
Counted(claim, relationship) ==
  {a \in Claims!Matched(claim) \ Claims!Duplicates(claim) : a.relationship = relationship}

Passages(claim, relationship) ==
  {Claims!Content(a) : a \in {b \in Claims!Matched(claim) : b.relationship = relationship}}

\* Each passage is counted once, by the anchor that names its first document.
LEMMA OnePerPassage ==
  ASSUME Claims!ReviewInv, NEW claim \in ClaimIds, NEW relationship
  PROVE  /\ IsFiniteSet(Counted(claim, relationship))
         /\ Cardinality(Passages(claim, relationship)) = Cardinality(Counted(claim, relationship))
<1>. DEFINE S == Counted(claim, relationship)
            T == Passages(claim, relationship)
            f == [a \in S |-> Claims!Content(a)]
<1>1. S \subseteq anchors /\ Claims!Matched(claim) \subseteq anchors
  BY DEF Counted, Claims!Matched
<1>2. IsFiniteSet(S)
  BY <1>1, FS_Subset, FiniteClaims DEF Claims!ReviewInv
<1>3. f \in [S -> T]
  BY DEF Counted, Passages
<1>4. ASSUME NEW a \in S, NEW b \in S, f[a] = f[b]
      PROVE  a = b
  <2>1. a.document \in Nat /\ b.document \in Nat
    BY <1>1, TextTypes
  <2>2. Claims!Content(a) = Claims!Content(b) /\ a.relationship = b.relationship
    BY <1>4 DEF Counted
  <2>3. ~(a.document < b.document) /\ ~(b.document < a.document)
    BY <2>2 DEF Counted, Claims!Duplicates
  <2>4. a.document = b.document
    BY <2>1, <2>3
  <2>5. a.start = b.start /\ a.end = b.end
    BY <2>2 DEF Claims!Content
  <2>6. a.claim = claim /\ b.claim = claim
    BY DEF Counted, Claims!Matched
  <2>7. Claims!Key(a) = Claims!Key(b)
    BY <2>2, <2>4, <2>5, <2>6 DEF Claims!Key
  <2>. QED BY <1>1, <2>7 DEF Claims!ReviewInv
<1>5. ASSUME NEW t \in T
      PROVE  \E a \in S : f[a] = t
  <2>. DEFINE Same == {a \in Claims!Matched(claim) : a.relationship = relationship /\ Claims!Content(a) = t}
              Places == {a.document : a \in Same}
  <2>1. Same # {} /\ Same \subseteq anchors
    BY <1>1 DEF Passages
  <2>2. Places \in SUBSET Nat /\ Places # {}
    BY <2>1, TextTypes
  <2>3. PICK least \in Places : \A n \in Places : least <= n
    BY <2>2, LeastNatural
  <2>4. PICK a \in Same : a.document = least
    BY <2>3
  <2>5. a \notin Claims!Duplicates(claim)
    <3>. SUFFICES ASSUME NEW b \in Claims!Matched(claim), b.document < a.document,
                         Claims!Content(b) = Claims!Content(a), b.relationship = a.relationship
                  PROVE  FALSE
      BY DEF Claims!Duplicates
    <3>1. b \in Same
      OBVIOUS
    <3>2. least <= b.document
      BY <2>3, <3>1
    <3>3. a.document \in Nat /\ b.document \in Nat
      BY <2>1, <3>1, TextTypes
    <3>. QED BY <2>4, <3>2, <3>3
  <2>6. a \in S
    BY <2>5 DEF Counted
  <2>. QED BY <2>6
<1>6. f \in Bijection(S, T)
  BY <1>3, <1>4, <1>5 DEF Bijection, Injection, IsInjective, Surjection
<1>. HIDE DEF f
<1>. QED BY <1>2, <1>6, FS_Bijection DEF ExistsBijection

LEMMA ReviewInvShows ==
  ASSUME Claims!ReviewInv
  PROVE  Claims!AnchoredIsText
<1>. SUFFICES ASSUME report # Claims!NoReport PROVE Claims!AnchoredIsText
  BY DEF Claims!AnchoredIsText
<1>1. report = Claims!Report
  BY DEF Claims!ReviewInv
<1>0. \A c, relationship :
        Claims!Cited(c, relationship) = {a \in Claims!Matched(c) : a.relationship = relationship}
  BY MatchedStands DEF Claims!Cited, Claims!Matched
<1>2. ASSUME report.decision = "READY_FOR_TEXT_REVIEW"
      PROVE  /\ \A c \in ClaimIds : Claims!Cited(c, "SUPPORT") # {}
             /\ \A a \in anchors : Claims!Stands(a)
             /\ \A d \in DocumentIds : documents[d].text = documents[d].expected
  <2>1. Claims!Blockers = {}
    BY <1>1, <1>2 DEF Claims!Report
  <2>2. /\ Claims!Failed = {}
        /\ \A d \in DocumentIds : documents[d].text = documents[d].expected
        /\ \A c \in ClaimIds : Claims!Supporting(c) # {}
    BY <2>1 DEF Claims!Blockers
  <2>3. \A c \in ClaimIds : Claims!Cited(c, "SUPPORT") # {}
    BY <1>0, <2>2 DEF Claims!Supporting
  <2>4. \A a \in anchors : Claims!Stands(a)
    BY <2>2, MatchedStands DEF Claims!Failed
  <2>. QED BY <2>2, <2>3, <2>4
<1>3. ASSUME NEW c \in ClaimIds
      PROVE  /\ report.supports[c] =
                  Claims!Cardinality(Claims!Cited(c, "SUPPORT") \ report.duplicates[c])
             /\ report.adverse[c] =
                  Claims!Cardinality(Claims!Cited(c, "ADVERSE") \ report.duplicates[c])
  <2>1. /\ report.supports[c] = Cardinality(Passages(c, "SUPPORT"))
        /\ report.adverse[c] = Cardinality(Passages(c, "ADVERSE"))
        /\ report.duplicates[c] = Claims!Duplicates(c)
    BY <1>1, FiniteClaims DEF Claims!Report, Claims!Supporting, Claims!Adverse, Passages
  <2>2. \A relationship :
          Claims!Cited(c, relationship) \ Claims!Duplicates(c) = Counted(c, relationship)
    BY <1>0 DEF Counted
  <2>. QED BY <2>1, <2>2, OnePerPassage, FiniteClaims
<1>. QED BY <1>2, <1>3 DEF Claims!AnchoredIsText

LEMMA ReviewInvStarts ==
  ASSUME Claims!Init
  PROVE  Claims!ReviewInv
BY FS_EmptySet, FiniteClaims DEF Claims!Init, Claims!ReviewInv

LEMMA ReviewInvStays ==
  ASSUME Claims!ReviewInv, [Claims!Next]_claimVars
  PROVE  Claims!ReviewInv'
<1>1. CASE Claims!Review
  <2>1. /\ report' = Claims!Report /\ UNCHANGED <<documents, bound, anchors>>
        /\ Claims!Report' = Claims!Report
    BY <1>1 DEF Claims!Review, Claims!Report, Claims!Blockers, Claims!Failed, Claims!Supporting,
      Claims!Adverse, Claims!Duplicates, Claims!Matched, Claims!Status, Claims!Content
  <2>. QED BY <2>1 DEF Claims!ReviewInv, Claims!Documents
<1>2. ASSUME NEW a \in Claims!Anchor, Claims!Cite(a)
      PROVE  Claims!ReviewInv'
  <2>1. /\ anchors' = anchors \cup {a} /\ report' = Claims!NoReport /\ documents' = documents
        /\ a.start < a.end /\ \A b \in anchors : Claims!Key(b) # Claims!Key(a)
    BY <1>2 DEF Claims!Cite
  <2>2. IsFiniteSet(anchors')
    BY <2>1, FS_AddElement, FiniteClaims DEF Claims!ReviewInv
  <2>. QED BY <2>1, <2>2, FiniteClaims DEF Claims!ReviewInv
<1>3. CASE UNCHANGED claimVars
  <2>1. UNCHANGED <<documents, bound, anchors, report>> /\ Claims!Report' = Claims!Report
    BY <1>3 DEF claimVars, Claims!Report, Claims!Blockers, Claims!Failed, Claims!Supporting,
      Claims!Adverse, Claims!Duplicates, Claims!Matched, Claims!Status, Claims!Content
  <2>. QED BY <2>1 DEF Claims!ReviewInv
<1>. QED BY <1>1, <1>2, <1>3 DEF Claims!Next

\* A review that is ready rests on supporting passages that stand in the expected
\* documents, and a passage counts once, and for its own relationship only, however
\* many documents hold it (claim_integrity.py
\* review_claims), for any texts, claims and number of anchors.
THEOREM ReadyIsAnchored == PartSpec => []AnchoredIsText
<1>. DEFINE Inv == part = "claims" => Claims!ReviewInv
<1>1. PartInit => Inv
  BY PartsStart, ReviewInvStarts
<1>2. Inv /\ [PartNext]_partVars => Inv'
  BY PartsStep, ReviewInvStays
<1>3. Inv => AnchoredIsText
  BY ReviewInvShows DEF AnchoredIsText
<1>. QED BY <1>1, <1>2, <1>3, PTL DEF PartSpec

-----------------------------------------------------------------------------
(* PublishedArchive *)

LEMMA FiniteArchive ==
  /\ \A S : Archive!Cardinality(S) = Cardinality(S)
  /\ \A S : Archive!IsFiniteSet(S) <=> IsFiniteSet(S)
BY DEF Cardinality, Archive!Cardinality, IsFiniteSet, Archive!IsFiniteSet

\* What a listing needs of a directory: finitely many entries, each with a number of its own.
Numbered(S) ==
  /\ IsFiniteSet(S)
  /\ \A e \in S : e.name \in Nat
  /\ \A e, f \in S : e.name = f.name => e = f

LEMMA DirectoryIsNumbered ==
  ASSUME Archive!ArchiveAssumption, NEW D \in Archive!Directories
  PROVE  Numbered(D)
<1>1. IssueDays \subseteq Nat /\ IsFiniteSet(IssueDays)
  BY FiniteArchive DEF Archive!ArchiveAssumption
<1>2. ASSUME NEW issues \in SUBSET IssueDays
      PROVE  /\ Numbered({Archive!Good(d) : d \in issues})
             /\ \A g \in {Archive!Good(d) : d \in issues} : g.name \in issues
  <2> DEFINE S == {Archive!Good(d) : d \in issues}
  <2>1. \A d \in issues : Archive!Good(d).name = d
    BY DEF Archive!Good
  <2>2. \A e \in S : e.name \in issues /\ e = Archive!Good(e.name)
    BY <2>1
  <2>3. IsFiniteSet(S)
    <3> DEFINE f == [e \in S |-> e.name]
    <3>1. f \in Injection(S, issues)
      BY <2>2 DEF Injection, IsInjective
    <3>2. IsFiniteSet(issues)
      BY <1>1, FS_Subset
    <3>. QED BY <3>1, <3>2, FS_Injection
  <2>. QED BY <1>1, <2>2, <2>3 DEF Numbered
<1>3. CASE \E issues \in SUBSET IssueDays : D = {Archive!Good(d) : d \in issues}
  BY <1>2, <1>3
<1>4. ASSUME NEW issues \in SUBSET IssueDays, NEW e \in Archive!Entry,
             D = {Archive!Good(d) : d \in issues \ {e.name}} \cup {e}
      PROVE  Numbered(D)
  <2> DEFINE S == {Archive!Good(d) : d \in issues \ {e.name}}
  <2>1. Numbered(S) /\ \A g \in S : g.name \in issues \ {e.name}
    BY <1>2
  <2>. HIDE DEF S
  <2>2. e.name \in Nat
    <3>1. e.name = 0 \/ e.name \in IssueDays
      BY DEF Archive!Entry
    <3>2. e.name \in IssueDays => e.name \in Nat
      BY <1>1
    <3>. QED BY <3>1, <3>2
  <2>3. IsFiniteSet(D)
    BY <1>4, <2>1, FS_AddElement DEF Numbered, S
  <2>4. D = S \cup {e}
    BY <1>4 DEF S
  <2>. QED BY <2>1, <2>2, <2>3, <2>4 DEF Numbered
<1>. QED BY <1>3, <1>4 DEF Archive!Directories

\* A function from as many numbers that never takes a value twice takes all of them.
LEMMA EachOnce ==
  ASSUME NEW S, IsFiniteSet(S), NEW f \in [1 .. Cardinality(S) -> S],
         \A i, j \in 1 .. Cardinality(S) : f[i] = f[j] => i = j
  PROVE  \A e \in S : \E i \in 1 .. Cardinality(S) : f[i] = e
<1> DEFINE n == Cardinality(S)
<1>1. n \in Nat
  BY FS_CardinalityType
<1>2. IsFiniteSet(1 .. n) /\ Cardinality(1 .. n) = n
  BY <1>1, FS_Interval
<1>3. f \in Injection(1 .. n, S)
  BY DEF Injection, IsInjective
<1>4. f \in Surjection(1 .. n, S)
  BY <1>2, <1>3, FS_Injection
<1>. QED BY <1>4 DEF Surjection

\* The entries can be put in the order of their names: each at the place that the number
\* of later names tells.
LEMMA OrderExists ==
  ASSUME NEW S, Numbered(S)
  PROVE  \E seq \in [1 .. Cardinality(S) -> S] :
           \A i, j \in 1 .. Cardinality(S) : i < j => seq[i].name > seq[j].name
<1> DEFINE n == Cardinality(S)
           Later(e) == {f \in S : f.name > e.name}
           place == [e \in S |-> Cardinality(Later(e)) + 1]
<1>1. n \in Nat /\ IsFiniteSet(1 .. n) /\ Cardinality(1 .. n) = n
  BY FS_CardinalityType, FS_Interval DEF Numbered
<1>2. ASSUME NEW e \in S
      PROVE  IsFiniteSet(Later(e)) /\ Cardinality(Later(e)) \in Nat /\ place[e] \in 1 .. n
  <2>1. Later(e) \in SUBSET S /\ Later(e) # S
    BY DEF Numbered
  <2>2. IsFiniteSet(Later(e)) /\ Cardinality(Later(e)) <= n /\ Cardinality(Later(e)) # n
    BY <2>1, FS_Subset DEF Numbered
  <2>3. Cardinality(Later(e)) \in Nat
    BY <2>2, FS_CardinalityType
  <2>4. place[e] = Cardinality(Later(e)) + 1
    OBVIOUS
  <2>. HIDE DEF Later, place
  <2>. QED BY <1>1, <2>2, <2>3, <2>4
<1>3. ASSUME NEW e \in S, NEW f \in S, e.name > f.name
      PROVE  place[e] < place[f]
  <2>1. Later(e) \in SUBSET Later(f) /\ Later(e) # Later(f)
    BY <1>3 DEF Numbered
  <2>2. Cardinality(Later(e)) <= Cardinality(Later(f)) /\ Cardinality(Later(e)) # Cardinality(Later(f))
    BY <1>2, <2>1, FS_Subset
  <2>3. /\ place[e] = Cardinality(Later(e)) + 1 /\ place[f] = Cardinality(Later(f)) + 1
        /\ Cardinality(Later(e)) \in Nat /\ Cardinality(Later(f)) \in Nat
    BY <1>2
  <2>. HIDE DEF Later, place
  <2>. QED BY <2>2, <2>3
<1>. HIDE DEF Later
<1>4. \A e, f \in S : place[e] = place[f] => e = f
  <2>. SUFFICES ASSUME NEW e \in S, NEW f \in S, place[e] = place[f], e # f PROVE FALSE
    OBVIOUS
  <2>. HIDE DEF place
  <2>1. e.name > f.name \/ f.name > e.name
    BY DEF Numbered
  <2>. QED BY <1>2, <1>3, <2>1
<1>5. place \in Surjection(S, 1 .. n)
  <2>1. place \in [S -> 1 .. n]
    BY <1>2
  <2>2. place \in Injection(S, 1 .. n)
    <3>. HIDE DEF place
    <3>. QED BY <1>4, <2>1 DEF Injection, IsInjective
  <2>. HIDE DEF place
  <2>. QED BY <1>1, <2>2, FS_Injection
<1>. HIDE DEF place
<1> DEFINE seq == [i \in 1 .. n |-> CHOOSE e \in S : place[e] = i]
<1>6. \A i \in 1 .. n : seq[i] \in S /\ place[seq[i]] = i
  <2>1. \A i \in 1 .. n : \E e \in S : place[e] = i
    BY <1>5 DEF Surjection
  <2>. QED BY <2>1
<1>7. seq \in [1 .. n -> S]
  BY <1>6
<1>. HIDE DEF seq
<1>8. ASSUME NEW i \in 1 .. n, NEW j \in 1 .. n, i < j PROVE seq[i].name > seq[j].name
  <2>1. seq[i] \in S /\ seq[j] \in S /\ place[seq[i]] = i /\ place[seq[j]] = j
    BY <1>6
  <2>2. seq[i] # seq[j] /\ ~ (place[seq[j]] < place[seq[i]])
    BY <1>8, <2>1
  <2>3. seq[i].name \in Nat /\ seq[j].name \in Nat /\ seq[i].name # seq[j].name
    BY <2>1, <2>2 DEF Numbered
  <2>4. ~ (seq[j].name > seq[i].name)
    BY <1>3, <2>1, <2>2
  <2>. QED BY <2>3, <2>4
<1>. QED BY <1>7, <1>8

LEMMA ByDateIs ==
  ASSUME NEW S, Numbered(S)
  PROVE  LET n == Cardinality(S)
             seq == Archive!ByDate(S)
         IN  /\ n \in Nat /\ seq \in [1 .. n -> S]
             /\ \A i, j \in 1 .. n : i < j => seq[i].name > seq[j].name
             /\ \A e \in S : \E i \in 1 .. n : seq[i] = e
<1> DEFINE n == Cardinality(S)
           seq == Archive!ByDate(S)
<1>0. n \in Nat
  BY FS_CardinalityType DEF Numbered
<1>1. seq \in [1 .. n -> S] /\ \A i, j \in 1 .. n : i < j => seq[i].name > seq[j].name
  BY OrderExists, FiniteArchive DEF Archive!ByDate
<1>. HIDE DEF seq
<1>2. ASSUME NEW i \in 1 .. n, NEW j \in 1 .. n, seq[i] = seq[j] PROVE i = j
  <2>1. seq[i].name \in Nat
    BY <1>1 DEF Numbered
  <2>. QED BY <1>0, <1>1, <1>2, <2>1
<1>3. \A e \in S : \E i \in 1 .. n : seq[i] = e
  BY <1>1, <1>2, EachOnce DEF Numbered
<1>. QED BY <1>0, <1>1, <1>3 DEF seq

LEMMA ShownIs ==
  ASSUME Archive!ArchiveAssumption, directory \in Archive!Directories, NEW limit \in Nat
  PROVE  LET n == Cardinality(directory)
             k == IF limit < n THEN limit ELSE n
             seq == Archive!ByDate(directory)
         IN  /\ n \in Nat /\ k \in 0 .. n
             /\ Len(Archive!Shown(limit)) = k
             /\ \A i \in 1 .. k : Archive!Shown(limit)[i] = seq[i]
             /\ Archive!ToSet(Archive!Shown(limit)) = {seq[i] : i \in 1 .. k}
<1> DEFINE n == Cardinality(directory)
           k == IF limit < n THEN limit ELSE n
           seq == Archive!ByDate(directory)
           shown == Archive!Shown(limit)
<1>1. n \in Nat /\ seq \in [1 .. n -> directory]
  BY DirectoryIsNumbered, ByDateIs
<1>. HIDE DEF seq, n
<1>2. k \in 0 .. n /\ k \in Nat /\ k <= n
  BY <1>1
<1>3. shown = SubSeq(seq, 1, k)
  BY FiniteArchive DEF Archive!Shown, seq, n
<1>. HIDE DEF k, shown
<1>4. /\ shown \in Seq(directory) /\ Len(shown) = IF 1 <= k THEN k - 1 + 1 ELSE 0
      /\ \A i \in 1 .. k - 1 + 1 : shown[i] = seq[1 + i - 1]
  <2>1. \A i \in 1 .. k : i \in 1 .. n
    BY <1>1, <1>2
  <2>2. \A i \in 1 .. k : seq[i] \in directory
    BY <1>1, <2>1
  <2>. QED BY <1>2, <1>3, <2>2, SubSeqProperties
<1>5. Len(shown) = k /\ \A i \in 1 .. k : shown[i] = seq[i]
  <2>1. \A i \in 1 .. k : i \in 1 .. k - 1 + 1 /\ 1 + i - 1 = i
    BY <1>2
  <2>2. Len(shown) = k
    BY <1>2, <1>4
  <2>. QED BY <1>4, <2>1, <2>2
<1>6. Archive!ToSet(shown) = {seq[i] : i \in 1 .. k}
  <2>1. Archive!ToSet(shown) = {shown[i] : i \in 1 .. k}
    BY <1>4, <1>5 DEF Archive!ToSet
  <2>. QED BY <1>5, <2>1
<1>. QED BY <1>1, <1>2, <1>5, <1>6 DEF k, n, shown, seq

LEMMA ListStays ==
  ASSUME Archive!ArchiveAssumption, Archive!ArchiveInv, NEW limit \in Nat, Archive!List(limit)
  PROVE  Archive!ArchiveSound'
<1> DEFINE D == directory
           n == Cardinality(D)
           k == IF limit < n THEN limit ELSE n
           seq == Archive!ByDate(D)
<1>. SUFFICES ASSUME answer'.status = "AVAILABLE" PROVE Archive!ArchiveSound'
  BY DEF Archive!ArchiveSound
<1>1. /\ directory' = D /\ today' = today /\ Archive!Available(limit)
      /\ answer' = [status |-> "AVAILABLE", limit |-> limit, items |-> Archive!Shown(limit)]
  BY DEF Archive!List, Archive!NoAnswer
<1>2. \A e \in D : e.plain /\ e.bundle /\ e.end = e.name /\ e.end <= today
  BY <1>1 DEF Archive!Available, Archive!Listed, Archive!Valid
<1>3. Numbered(D)
  BY DirectoryIsNumbered DEF Archive!ArchiveInv
<1>. HIDE DEF seq, n
<1>4. /\ n \in Nat /\ seq \in [1 .. n -> D]
      /\ \A i, j \in 1 .. n : i < j => seq[i].name > seq[j].name
      /\ \A e \in D : \E i \in 1 .. n : seq[i] = e
  BY <1>3, ByDateIs DEF seq, n
<1>5. /\ k \in 0 .. n /\ Len(Archive!Shown(limit)) = k
      /\ \A i \in 1 .. k : Archive!Shown(limit)[i] = seq[i]
      /\ Archive!ToSet(Archive!Shown(limit)) = {seq[i] : i \in 1 .. k}
  BY ShownIs DEF Archive!ArchiveInv, seq, n
<1>6. k = IF limit < n THEN limit ELSE n
  OBVIOUS
<1>. HIDE DEF k
<1>7. \A i \in 1 .. k : i \in 1 .. n /\ seq[i] \in D
  BY <1>4, <1>5
<1>8. ASSUME NEW e \in D, e \notin {seq[i] : i \in 1 .. k}, NEW s \in {seq[i] : i \in 1 .. k}
      PROVE  s.end > e.end
  <2>1. PICK i \in 1 .. k : s = seq[i]
    OBVIOUS
  <2>2. PICK j \in 1 .. n : e = seq[j]
    BY <1>4
  <2>3. ~ (j \in 1 .. k)
    BY <1>8, <2>2
  <2>4. i < j /\ i \in 1 .. n
    BY <1>4, <1>5, <2>3
  <2>5. s.name > e.name
    BY <1>4, <2>1, <2>2, <2>4
  <2>. QED BY <1>2, <1>7, <2>1, <2>5
<1>9. \A i, j \in 1 .. k : i < j => seq[i].end > seq[j].end
  <2>. TAKE i, j \in 1 .. k
  <2>1. seq[i].end = seq[i].name /\ seq[j].end = seq[j].name
    BY <1>2, <1>7
  <2>. QED BY <1>4, <1>7, <2>1
<1>10. /\ answer'.limit = limit /\ Len(answer'.items) = k
       /\ Archive!ToSet(answer'.items) = {seq[i] : i \in 1 .. k}
       /\ \A i \in 1 .. k : answer'.items[i] = seq[i]
  BY <1>1, <1>5
<1>11. Archive!Cardinality(directory') = n
  BY <1>1, FiniteArchive DEF n
<1>12. \A i, j \in 1 .. Len(answer'.items) : i < j => answer'.items[i].end > answer'.items[j].end
  BY <1>9, <1>10
<1>13. \A e \in D \ Archive!ToSet(answer'.items), s \in Archive!ToSet(answer'.items) : s.end > e.end
  BY <1>8, <1>10
<1>14. (Archive!ToSet(answer.items))' = Archive!ToSet(answer'.items)
  BY DEF Archive!ToSet
<1>. QED BY <1>1, <1>2, <1>6, <1>10, <1>11, <1>12, <1>13, <1>14, FiniteArchive DEF Archive!ArchiveSound

LEMMA ArchiveStarts ==
  ASSUME Archive!Init
  PROVE  Archive!ArchiveInv
BY DEF Archive!Init, Archive!ArchiveInv, Archive!ArchiveSound, Archive!NoAnswer

LEMMA ArchiveStays ==
  ASSUME Archive!ArchiveAssumption, Archive!ArchiveInv, [Archive!Next]_archiveVars
  PROVE  Archive!ArchiveInv'
<1>0. /\ directory \in Archive!Directories /\ today \in IssueDays /\ Archive!ArchiveSound
      /\ IssueDays \subseteq Nat /\ IssueLimit \in Nat
  BY DEF Archive!ArchiveInv, Archive!ArchiveAssumption
<1>1. ASSUME NEW limit \in 0 .. IssueLimit + 1, Archive!List(limit)
      PROVE  Archive!ArchiveInv'
  <2>1. limit \in Nat
    BY <1>0
  <2>2. Archive!ArchiveSound'
    BY <1>1, <2>1, ListStays
  <2>3. directory' = directory /\ today' = today
    BY <1>1 DEF Archive!List
  <2>. QED BY <1>0, <2>2, <2>3 DEF Archive!ArchiveInv, Archive!Directories, Archive!Good, Archive!Entry
<1>2. CASE Archive!NextDay
  <2>1. /\ directory' = directory /\ answer' = answer /\ today' = today + 1 /\ today' \in IssueDays
    BY <1>2 DEF Archive!NextDay
  <2>2. Numbered(directory)
    BY <1>0, DirectoryIsNumbered
  <2>3. \A e \in directory : e.end = e.name /\ e.end <= today => e.end <= today'
    <3>1. \A e \in directory : e.name \in Nat
      BY <2>2 DEF Numbered
    <3>. QED BY <1>0, <2>1, <3>1
  <2>4. Archive!ArchiveSound'
    BY <1>0, <2>1, <2>3 DEF Archive!ArchiveSound, Archive!ToSet
  <2>. QED BY <1>0, <2>1, <2>4 DEF Archive!ArchiveInv, Archive!Directories, Archive!Good, Archive!Entry
<1>3. CASE Archive!Release
  <2>1. directory' \in Archive!Directories /\ answer' = Archive!NoAnswer /\ today' = today
    BY <1>3 DEF Archive!Release
  <2>2. Archive!ArchiveSound'
    BY <2>1 DEF Archive!ArchiveSound, Archive!NoAnswer
  <2>3. Archive!Directories' = Archive!Directories
    BY DEF Archive!Directories, Archive!Good, Archive!Entry
  <2>. QED BY <1>0, <2>1, <2>2, <2>3 DEF Archive!ArchiveInv
<1>4. CASE UNCHANGED archiveVars
  BY <1>0, <1>4 DEF archiveVars, Archive!ArchiveInv, Archive!ArchiveSound, Archive!ToSet
<1>. QED BY <1>1, <1>2, <1>3, <1>4 DEF Archive!Next

\* An archive that is shown is whole, and shows its newest issues without a gap
\* (published_briefs.py _archive_briefs, published_brief_summary), however many issues
\* there are, whatever is wrong with one of them, and as the days pass.
THEOREM ShownIsWhole == PartSpec => []ArchiveSound
<1>. DEFINE Inv == part = "archive" => Archive!ArchiveInv
<1>0. Archive!ArchiveAssumption
  BY IntakeAssumption
<1>1. PartInit => Inv
  BY PartsStart, ArchiveStarts
<1>2. Inv /\ [PartNext]_partVars => Inv'
  BY <1>0, PartsStep, ArchiveStays
<1>3. Inv => ArchiveSound
  BY DEF ArchiveSound, Archive!ArchiveInv
<1>. QED BY <1>1, <1>2, <1>3, PTL DEF PartSpec


-----------------------------------------------------------------------------
(* JsonDepth *)

\* A set of numbers that has 0 and with each the next has all of them up to n.
LEMMA EachNumber ==
  ASSUME NEW n \in Nat, NEW P, 0 \in P, \A k \in 1 .. n : k - 1 \in P => k \in P
  PROVE  \A k \in 0 .. n : k \in P
<1> DEFINE Left == {k \in 0 .. n : k \notin P}
<1>. SUFFICES ASSUME Left # {} PROVE FALSE
  OBVIOUS
<1>1. PICK m \in Left : \A k \in Left : ~ (<<k, m>> \in OpToRel(<, Nat))
  <2>1. Left \in SUBSET Nat
    OBVIOUS
  <2>. HIDE DEF Left
  <2>. QED BY <2>1, WFMin, NatLessThanWellFounded
<1>2. m \in Nat /\ m # 0 /\ m <= n
  OBVIOUS
<1>3. m - 1 \in 0 .. n /\ <<m - 1, m>> \in OpToRel(<, Nat)
  BY <1>2 DEF OpToRel
<1>4. m - 1 \in P
  BY <1>1, <1>3
<1>5. m \in 1 .. n
  BY <1>2
<1>. QED BY <1>4, <1>5

Letters == Depths!Alphabet

\* The last character of a text, and the text without it.
LEMMA LastOf ==
  ASSUME NEW s \in Seq(Letters), NEW c \in Letters
  PROVE  /\ Append(s, c) \in Seq(Letters) /\ Append(s, c) # <<>>
         /\ Depths!Last(Append(s, c)) = c /\ Depths!Front(Append(s, c)) = s
<1>1. /\ Append(s, c) \in Seq(Letters) /\ Append(s, c) # <<>> /\ Len(s) \in Nat
      /\ Len(Append(s, c)) = Len(s) + 1 /\ Append(s, c)[Len(s) + 1] = c
      /\ \A i \in 1 .. Len(s) : Append(s, c)[i] = s[i]
  OBVIOUS
<1>2. Depths!Last(Append(s, c)) = c
  BY <1>1 DEF Depths!Last
<1>3. Depths!Front(Append(s, c)) = SubSeq(Append(s, c), 1, Len(s))
  BY <1>1 DEF Depths!Front
<1>4. /\ SubSeq(Append(s, c), 1, Len(s)) \in Seq(Letters)
      /\ Len(SubSeq(Append(s, c), 1, Len(s))) = Len(s)
      /\ \A i \in 1 .. Len(s) : SubSeq(Append(s, c), 1, Len(s))[i] = s[i]
  <2>1. \A i \in 1 .. Len(s) : Append(s, c)[i] \in Letters
    BY <1>1
  <2>2. \A i \in 1 .. Len(s) - 1 + 1 : i \in 1 .. Len(s) /\ 1 + i - 1 = i
    BY <1>1
  <2>3. Len(SubSeq(Append(s, c), 1, Len(s))) = IF 1 <= Len(s) THEN Len(s) - 1 + 1 ELSE 0
    BY <1>1, <2>1, SubSeqProperties
  <2>4. SubSeq(Append(s, c), 1, Len(s)) \in Seq(Letters)
    BY <1>1, <2>1, SubSeqProperties
  <2>5. \A i \in 1 .. Len(s) - 1 + 1 : SubSeq(Append(s, c), 1, Len(s))[i] = Append(s, c)[1 + i - 1]
    BY <1>1, <2>1, SubSeqProperties
  <2>. QED BY <1>1, <2>2, <2>3, <2>4, <2>5
<1>5. SubSeq(Append(s, c), 1, Len(s)) = s
  BY <1>1, <1>4, SeqEqual
<1>. QED BY <1>1, <1>2, <1>3, <1>5

LEMMA FrontOf ==
  ASSUME NEW s \in Seq(Letters), s # <<>>
  PROVE  /\ Depths!Front(s) \in Seq(Letters) /\ Depths!Last(s) \in Letters
         /\ s = Append(Depths!Front(s), Depths!Last(s))
<1>1. PICK q \in Seq(Letters), c \in Letters : s = Append(q, c)
  BY SequenceEmptyOrAppend
<1>. QED BY <1>1, LastOf

LEMMA FrontOfNone == Depths!Front(<<>>) \in Seq(Letters)
<1>1. Depths!Front(<<>>) = SubSeq(<<>>, 1, 0 - 1)
  BY DEF Depths!Front
<1>2. SubSeq(<<>>, 1, 0 - 1) = <<>>
  BY SubSeqEmpty
<1>. QED BY <1>1, <1>2

\* What json_nesting_depth keeps of a text as it replaces a pair, character by character.
PassState == [kept : Seq(Letters), pending : BOOLEAN]

IsPass(f, first, second, t) ==
  f = [k \in 0 .. Len(t) |->
         IF k = 0 THEN Depths!Nothing ELSE Depths!Pass(first, second, f[k - 1], t[k])]

LEMMA PassType ==
  ASSUME NEW first, NEW second, NEW s \in PassState, NEW c \in Letters
  PROVE  Depths!Pass(first, second, s, c) \in PassState
<1>1. Depths!Front(s.kept) \in Seq(Letters)
  BY FrontOf, FrontOfNone DEF PassState
<1>2. Append(s.kept, c) \in Seq(Letters)
  BY DEF PassState
<1>. QED BY <1>1, <1>2 DEF Depths!Pass, PassState

LEMMA PassExists ==
  ASSUME NEW first, NEW second, NEW t \in Seq(Letters)
  PROVE  \E f : IsPass(f, first, second, t)
<1> DEFINE Runs(f, n) == f = [k \in 0 .. n |->
              IF k = 0 THEN Depths!Nothing ELSE Depths!Pass(first, second, f[k - 1], t[k])]
           P == {n \in Nat : \E f : Runs(f, n)}
<1>1. 0 \in P
  <2>1. Runs([k \in 0 .. 0 |-> Depths!Nothing], 0)
    OBVIOUS
  <2>. QED BY <2>1
<1>2. ASSUME NEW m \in Nat \ {0}, m - 1 \in P PROVE m \in P
  <2>1. PICK f : Runs(f, m - 1)
    BY <1>2
  <2> DEFINE g == [k \in 0 .. m |->
                IF k = 0 THEN Depths!Nothing ELSE Depths!Pass(first, second, f[k - 1], t[k])]
  <2>2. ASSUME NEW k \in 1 .. m PROVE g[k - 1] = f[k - 1]
    <3>1. k - 1 \in 0 .. m - 1 /\ k - 1 \in 0 .. m
      BY <1>2
    <3>2. f[k - 1] = IF k - 1 = 0 THEN Depths!Nothing
                     ELSE Depths!Pass(first, second, f[k - 1 - 1], t[k - 1])
      <4>. DEFINE j == k - 1
      <4>1. j \in 0 .. m - 1
        BY <3>1
      <4>. HIDE DEF j
      <4>2. f[j] = IF j = 0 THEN Depths!Nothing ELSE Depths!Pass(first, second, f[j - 1], t[j])
        BY <2>1, <4>1
      <4>. QED BY <4>2 DEF j
    <3>. QED BY <3>1, <3>2
  <2>3. Runs(g, m)
    <3>1. \A k \in 0 .. m : k # 0 => k \in 1 .. m
      OBVIOUS
    <3>2. \A k \in 0 .. m : (IF k = 0 THEN Depths!Nothing ELSE Depths!Pass(first, second, f[k - 1], t[k]))
                          = (IF k = 0 THEN Depths!Nothing ELSE Depths!Pass(first, second, g[k - 1], t[k]))
      <4>. HIDE DEF g
      <4>. QED BY <2>2, <3>1
    <3>. QED BY <3>2, Zenon
  <2>. QED BY <2>3
<1>3. Len(t) \in Nat
  OBVIOUS
<1>. HIDE DEF P
<1>4. \A k \in 0 .. Len(t) : k \in P
  <2>1. \A k \in 1 .. Len(t) : k - 1 \in P => k \in P
    BY <1>2
  <2>. QED BY <1>1, <1>3, <2>1, EachNumber
<1>5. Len(t) \in P
  BY <1>3, <1>4
<1>. QED BY <1>5 DEF P, IsPass

LEMMA PassedIs ==
  ASSUME NEW first, NEW second, NEW t \in Seq(Letters)
  PROVE  \E f : /\ IsPass(f, first, second, t)
                /\ Depths!Passed(first, second, t) = f[Len(t)]
<1>1. PICK f : f = CHOOSE g : IsPass(g, first, second, t)
  OBVIOUS
<1>2. IsPass(f, first, second, t)
  BY <1>1, PassExists
<1>3. Depths!Passed(first, second, t) = (CHOOSE g : IsPass(g, first, second, t))[Len(t)]
  BY Zenon DEF Depths!Passed, IsPass
<1>. QED BY <1>1, <1>2, <1>3

\* Two texts that begin alike pass alike.
LEMMA PassesAlike ==
  ASSUME NEW first, NEW second, NEW t \in Seq(Letters), NEW c \in Letters,
         NEW f, IsPass(f, first, second, t), NEW g, IsPass(g, first, second, Append(t, c))
  PROVE  /\ g[Len(t) + 1] = Depths!Pass(first, second, f[Len(t)], c)
         /\ f[Len(t)] \in PassState
<1> DEFINE n == Len(t)
           u == Append(t, c)
           P == {k \in 0 .. n : f[k] = g[k] /\ f[k] \in PassState}
<1>1. n \in Nat /\ Len(u) = n + 1 /\ u[n + 1] = c
      /\ \A k \in 1 .. n : u[k] = t[k] /\ t[k] \in Letters
  OBVIOUS
<1>2. \A k \in 0 .. n : f[k] = IF k = 0 THEN Depths!Nothing ELSE Depths!Pass(first, second, f[k - 1], t[k])
  BY DEF IsPass
<1>3. \A k \in 0 .. n + 1 : g[k] = IF k = 0 THEN Depths!Nothing ELSE Depths!Pass(first, second, g[k - 1], u[k])
  BY <1>1 DEF IsPass
<1>. HIDE DEF n, u
<1>4. 0 \in P
  <2>1. Depths!Nothing \in PassState
    BY DEF Depths!Nothing, PassState
  <2>2. 0 \in 0 .. n /\ 0 \in 0 .. n + 1
    BY <1>1
  <2>3. f[0] = Depths!Nothing
    <3>. HIDE DEF P
    <3>. QED BY <1>2, <2>2
  <2>4. g[0] = Depths!Nothing
    <3>. HIDE DEF P
    <3>. QED BY <1>3, <2>2
  <2>. QED BY <2>1, <2>2, <2>3, <2>4
<1>5. ASSUME NEW k \in 1 .. n, k - 1 \in P PROVE k \in P
  <2>1. k \in 0 .. n /\ k \in 0 .. n + 1 /\ k # 0
    BY <1>1
  <2>2. f[k - 1] = g[k - 1] /\ f[k - 1] \in PassState
    BY <1>5
  <2>3. f[k] = Depths!Pass(first, second, f[k - 1], t[k]) /\ g[k] = Depths!Pass(first, second, f[k - 1], t[k])
    BY <1>1, <1>2, <1>3, <2>1, <2>2
  <2>. QED BY <1>1, <2>1, <2>2, <2>3, PassType
<1>. HIDE DEF P
<1>6. \A k \in 0 .. n : k \in P
  BY <1>1, <1>4, <1>5, EachNumber
<1>7. n \in P /\ n + 1 \in 0 .. n + 1 /\ n + 1 # 0 /\ n + 1 - 1 = n
  BY <1>1, <1>6
<1>. QED BY <1>1, <1>3, <1>7 DEF P, n

LEMMA PassedEmpty ==
  ASSUME NEW first, NEW second
  PROVE  Depths!Passed(first, second, <<>>) = Depths!Nothing
<1>1. <<>> \in Seq(Letters) /\ Len(<<>>) = 0
  OBVIOUS
<1>2. PICK f : IsPass(f, first, second, <<>>) /\ Depths!Passed(first, second, <<>>) = f[0]
  BY <1>1, PassedIs
<1>3. f[0] = Depths!Nothing
  BY <1>1, <1>2 DEF IsPass
<1>. QED BY <1>2, <1>3

LEMMA PassedMore ==
  ASSUME NEW first, NEW second, NEW t \in Seq(Letters), NEW c \in Letters
  PROVE  /\ Depths!Passed(first, second, Append(t, c))
              = Depths!Pass(first, second, Depths!Passed(first, second, t), c)
         /\ Depths!Passed(first, second, t) \in PassState
<1>1. Append(t, c) \in Seq(Letters) /\ Len(Append(t, c)) = Len(t) + 1
  OBVIOUS
<1>2. PICK f : IsPass(f, first, second, t) /\ Depths!Passed(first, second, t) = f[Len(t)]
  BY PassedIs
<1>3. PICK g : IsPass(g, first, second, Append(t, c))
               /\ Depths!Passed(first, second, Append(t, c)) = g[Len(t) + 1]
  BY <1>1, PassedIs
<1>. QED BY <1>2, <1>3, PassesAlike


\* What the parser knows of a text, character by character.
ScanState == [in : {"value", "string", "escape", "error"}, open : Nat, reach : Nat]

IsScan(f, t) ==
  f = [k \in 0 .. Len(t) |-> IF k = 0 THEN Depths!Start ELSE Depths!Read(f[k - 1], t[k])]

LEMMA ReadIs ==
  ASSUME NEW s \in ScanState, NEW c \in Letters
  PROVE  /\ Depths!Read(s, c) \in ScanState
         /\ s.in = "error" => Depths!Read(s, c) = s
         /\ s.in = "escape" =>
              Depths!Read(s, c) = [in |-> IF c \in {Depths!Open, Depths!Close} THEN "error" ELSE "string",
                                   open |-> s.open, reach |-> s.reach]
         /\ s.in = "string" =>
              Depths!Read(s, c) = [in |-> IF c = Depths!Quote THEN "value"
                                          ELSE IF c = Depths!Backslash THEN "escape" ELSE "string",
                                   open |-> s.open, reach |-> s.reach]
         /\ s.in = "value" =>
              /\ c = Depths!Quote =>
                   Depths!Read(s, c) = [in |-> "string", open |-> s.open, reach |-> s.reach]
              /\ c = Depths!Open =>
                   Depths!Read(s, c) = [in |-> "value", open |-> s.open + 1,
                                        reach |-> IF s.open + 1 > s.reach THEN s.open + 1 ELSE s.reach]
              /\ c = Depths!Close =>
                   Depths!Read(s, c) = IF s.open > 0
                                       THEN [in |-> "value", open |-> s.open - 1, reach |-> s.reach]
                                       ELSE [in |-> "error", open |-> s.open, reach |-> s.reach]
              /\ c = Depths!Backslash =>
                   Depths!Read(s, c) = [in |-> "error", open |-> s.open, reach |-> s.reach]
              /\ c = "other" => Depths!Read(s, c) = s
<1>1. s.in \in {"value", "string", "escape", "error"} /\ s.open \in Nat /\ s.reach \in Nat
      /\ s = [in |-> s.in, open |-> s.open, reach |-> s.reach]
  BY DEF ScanState
<1>2. /\ c \in {"open", "close", "quote", "backslash", "other"}
      /\ Depths!Open = "open" /\ Depths!Close = "close" /\ Depths!Quote = "quote"
      /\ Depths!Backslash = "backslash"
  BY DEF Letters, Depths!Alphabet, Depths!Open, Depths!Close, Depths!Quote, Depths!Backslash
<1>3. CASE s.in = "error"
  <2>1. Depths!Read(s, c) = s
    BY <1>3 DEF Depths!Read
  <2>. QED BY <1>3, <2>1
<1>4. CASE s.in = "escape"
  <2>1. Depths!Read(s, c) = [in |-> IF c \in {Depths!Open, Depths!Close} THEN "error" ELSE "string",
                             open |-> s.open, reach |-> s.reach]
    BY <1>1, <1>2, <1>4 DEF Depths!Read
  <2>. QED BY <1>1, <1>4, <2>1 DEF ScanState
<1>5. CASE s.in = "string"
  <2>1. Depths!Read(s, c) = [in |-> IF c = Depths!Quote THEN "value"
                                    ELSE IF c = Depths!Backslash THEN "escape" ELSE "string",
                             open |-> s.open, reach |-> s.reach]
    BY <1>1, <1>2, <1>5 DEF Depths!Read
  <2>. QED BY <1>1, <1>5, <2>1 DEF ScanState
<1>6. CASE s.in = "value"
  <2>1. CASE c = "quote"
    <3>1. Depths!Read(s, c) = [in |-> "string", open |-> s.open, reach |-> s.reach]
      BY <1>1, <1>2, <1>6, <2>1 DEF Depths!Read
    <3>. QED BY <1>1, <1>2, <1>6, <2>1, <3>1 DEF ScanState
  <2>2. CASE c = "open"
    <3>1. Depths!Read(s, c) = [in |-> "value", open |-> s.open + 1,
                               reach |-> IF s.open + 1 > s.reach THEN s.open + 1 ELSE s.reach]
      BY <1>1, <1>2, <1>6, <2>2 DEF Depths!Read
    <3>. QED BY <1>1, <1>2, <1>6, <2>2, <3>1 DEF ScanState
  <2>3. CASE c = "close" /\ s.open > 0
    <3>1. Depths!Read(s, c) = [in |-> "value", open |-> s.open - 1, reach |-> s.reach]
      BY <1>1, <1>2, <1>6, <2>3 DEF Depths!Read
    <3>. QED BY <1>1, <1>2, <1>6, <2>3, <3>1 DEF ScanState
  <2>4. CASE c = "close" /\ ~ (s.open > 0)
    <3>1. Depths!Read(s, c) = [in |-> "error", open |-> s.open, reach |-> s.reach]
      BY <1>1, <1>2, <1>6, <2>4 DEF Depths!Read
    <3>. QED BY <1>1, <1>2, <1>6, <2>4, <3>1 DEF ScanState
  <2>5. CASE c = "backslash"
    <3>1. Depths!Read(s, c) = [s EXCEPT !.in = "error"]
      BY <1>2, <1>6, <2>5 DEF Depths!Read
    <3>2. Depths!Read(s, c) = [in |-> "error", open |-> s.open, reach |-> s.reach]
      BY <1>1, <3>1
    <3>. QED BY <1>1, <1>2, <1>6, <2>5, <3>2 DEF ScanState
  <2>6. CASE c = "other"
    <3>1. Depths!Read(s, c) = s
      BY <1>1, <1>2, <1>6, <2>6 DEF Depths!Read
    <3>. QED BY <1>1, <1>2, <1>6, <2>6, <3>1 DEF ScanState
  <2>. QED BY <1>2, <2>1, <2>2, <2>3, <2>4, <2>5, <2>6
<1>. QED BY <1>1, <1>3, <1>4, <1>5, <1>6

LEMMA ScanExists ==
  ASSUME NEW t \in Seq(Letters)
  PROVE  \E f : IsScan(f, t)
<1> DEFINE Runs(f, n) ==
             f = [k \in 0 .. n |-> IF k = 0 THEN Depths!Start ELSE Depths!Read(f[k - 1], t[k])]
           P == {n \in Nat : \E f : Runs(f, n)}
<1>1. 0 \in P
  <2>1. Runs([k \in 0 .. 0 |-> Depths!Start], 0)
    OBVIOUS
  <2>. QED BY <2>1
<1>2. ASSUME NEW m \in Nat \ {0}, m - 1 \in P PROVE m \in P
  <2>1. PICK f : Runs(f, m - 1)
    BY <1>2
  <2> DEFINE g == [k \in 0 .. m |-> IF k = 0 THEN Depths!Start ELSE Depths!Read(f[k - 1], t[k])]
  <2>2. ASSUME NEW k \in 1 .. m PROVE g[k - 1] = f[k - 1]
    <3>. DEFINE j == k - 1
    <3>1. j \in 0 .. m - 1 /\ j \in 0 .. m
      BY <1>2
    <3>. HIDE DEF j
    <3>2. f[j] = IF j = 0 THEN Depths!Start ELSE Depths!Read(f[j - 1], t[j])
      BY <2>1, <3>1
    <3>3. g[j] = f[j]
      BY <3>1, <3>2
    <3>. HIDE DEF g
    <3>. QED BY <3>3 DEF j
  <2>3. Runs(g, m)
    <3>1. \A k \in 0 .. m : k # 0 => k \in 1 .. m
      OBVIOUS
    <3>2. \A k \in 0 .. m : (IF k = 0 THEN Depths!Start ELSE Depths!Read(f[k - 1], t[k]))
                          = (IF k = 0 THEN Depths!Start ELSE Depths!Read(g[k - 1], t[k]))
      <4>. HIDE DEF g
      <4>. QED BY <2>2, <3>1
    <3>. QED BY <3>2, Zenon
  <2>. QED BY <2>3
<1>3. Len(t) \in Nat
  OBVIOUS
<1>. HIDE DEF P
<1>4. \A k \in 0 .. Len(t) : k \in P
  <2>1. \A k \in 1 .. Len(t) : k - 1 \in P => k \in P
    BY <1>2
  <2>. QED BY <1>1, <1>3, <2>1, EachNumber
<1>5. Len(t) \in P
  BY <1>3, <1>4
<1>. QED BY <1>5 DEF P, IsScan

LEMMA ScanIs ==
  ASSUME NEW t \in Seq(Letters)
  PROVE  \E f : IsScan(f, t) /\ Depths!Scan(t) = f[Len(t)]
<1>1. PICK f : f = CHOOSE g : IsScan(g, t)
  OBVIOUS
<1>2. IsScan(f, t)
  BY <1>1, ScanExists
<1>3. Depths!Scan(t) = (CHOOSE g : IsScan(g, t))[Len(t)]
  BY Zenon DEF Depths!Scan, IsScan
<1>. QED BY <1>1, <1>2, <1>3

LEMMA ScansAlike ==
  ASSUME NEW t \in Seq(Letters), NEW c \in Letters,
         NEW f, IsScan(f, t), NEW g, IsScan(g, Append(t, c))
  PROVE  g[Len(t) + 1] = Depths!Read(f[Len(t)], c) /\ f[Len(t)] \in ScanState
<1> DEFINE n == Len(t)
           u == Append(t, c)
           P == {k \in 0 .. n : f[k] = g[k] /\ f[k] \in ScanState}
<1>1. n \in Nat /\ Len(u) = n + 1 /\ u[n + 1] = c
      /\ \A k \in 1 .. n : u[k] = t[k] /\ t[k] \in Letters
  OBVIOUS
<1>2. \A k \in 0 .. n : f[k] = IF k = 0 THEN Depths!Start ELSE Depths!Read(f[k - 1], t[k])
  BY DEF IsScan
<1>3. \A k \in 0 .. n + 1 : g[k] = IF k = 0 THEN Depths!Start ELSE Depths!Read(g[k - 1], u[k])
  BY <1>1 DEF IsScan
<1>. HIDE DEF n, u
<1>4. 0 \in P
  <2>1. Depths!Start \in ScanState
    BY DEF Depths!Start, ScanState
  <2>2. 0 \in 0 .. n /\ 0 \in 0 .. n + 1
    BY <1>1
  <2>3. f[0] = Depths!Start
    <3>. HIDE DEF P
    <3>. QED BY <1>2, <2>2
  <2>4. g[0] = Depths!Start
    <3>. HIDE DEF P
    <3>. QED BY <1>3, <2>2
  <2>. QED BY <2>1, <2>2, <2>3, <2>4
<1>5. ASSUME NEW k \in 1 .. n, k - 1 \in P PROVE k \in P
  <2>1. k \in 0 .. n /\ k \in 0 .. n + 1 /\ k # 0
    BY <1>1
  <2>2. f[k - 1] = g[k - 1] /\ f[k - 1] \in ScanState
    BY <1>5
  <2>3. f[k] = Depths!Read(f[k - 1], t[k]) /\ g[k] = Depths!Read(f[k - 1], t[k])
    BY <1>1, <1>2, <1>3, <2>1, <2>2
  <2>. QED BY <1>1, <2>1, <2>2, <2>3, ReadIs
<1>. HIDE DEF P
<1>6. \A k \in 0 .. n : k \in P
  BY <1>1, <1>4, <1>5, EachNumber
<1>7. n \in P /\ n + 1 \in 0 .. n + 1 /\ n + 1 # 0 /\ n + 1 - 1 = n
  BY <1>1, <1>6
<1>. QED BY <1>1, <1>3, <1>7 DEF P, n

LEMMA ScanEmpty == Depths!Scan(<<>>) = Depths!Start
<1>1. <<>> \in Seq(Letters) /\ Len(<<>>) = 0
  OBVIOUS
<1>2. PICK f : IsScan(f, <<>>) /\ Depths!Scan(<<>>) = f[0]
  BY <1>1, ScanIs
<1>3. f[0] = Depths!Start
  BY <1>1, <1>2 DEF IsScan
<1>. QED BY <1>2, <1>3

LEMMA ScanMore ==
  ASSUME NEW t \in Seq(Letters), NEW c \in Letters
  PROVE  /\ Depths!Scan(Append(t, c)) = Depths!Read(Depths!Scan(t), c)
         /\ Depths!Scan(t) \in ScanState
<1>1. Append(t, c) \in Seq(Letters) /\ Len(Append(t, c)) = Len(t) + 1
  OBVIOUS
<1>2. PICK f : IsScan(f, t) /\ Depths!Scan(t) = f[Len(t)]
  BY ScanIs
<1>3. PICK g : IsScan(g, Append(t, c)) /\ Depths!Scan(Append(t, c)) = g[Len(t) + 1]
  BY <1>1, ScanIs
<1>. QED BY <1>2, <1>3, ScansAlike


\* The brackets of a text.
LEMMA FiniteDepths == \A S : Depths!Cardinality(S) = Cardinality(S)
BY DEF Cardinality, Depths!Cardinality

LEMMA Odd ==
  ASSUME NEW n \in Nat
  PROVE  /\ n % 2 \in {0, 1}
         /\ n % 2 = 0 <=> (n + 1) % 2 # 0
OBVIOUS

Opened(u, n) == {i \in Depths!Brackets(u) : i <= n /\ u[i] = Depths!Open}
Closed(u, n) == {i \in Depths!Brackets(u) : i <= n /\ u[i] = Depths!Close}
Between(u, c) == c \in {Depths!Open, Depths!Close} /\ Depths!Quotes(u, Len(u)) % 2 = 0

LEMMA BalanceIs ==
  ASSUME NEW u, Len(u) \in Nat, NEW n
  PROVE  /\ Depths!Balance(u, n) = Cardinality(Opened(u, n)) - Cardinality(Closed(u, n))
         /\ IsFiniteSet(Opened(u, n)) /\ Cardinality(Opened(u, n)) \in Nat
         /\ IsFiniteSet(Closed(u, n)) /\ Cardinality(Closed(u, n)) \in Nat
         /\ Depths!Balance(u, n) \in Int
<1>1. Depths!Balance(u, n) = Cardinality(Opened(u, n)) - Cardinality(Closed(u, n))
  BY FiniteDepths DEF Depths!Balance, Opened, Closed
<1>2. IsFiniteSet(1 .. Len(u))
  BY FS_Interval
<1>3. Opened(u, n) \in SUBSET (1 .. Len(u)) /\ Closed(u, n) \in SUBSET (1 .. Len(u))
  BY DEF Opened, Closed, Depths!Brackets
<1>4. IsFiniteSet(Opened(u, n)) /\ IsFiniteSet(Closed(u, n))
  BY <1>2, <1>3, FS_Subset
<1>5. Cardinality(Opened(u, n)) \in Nat /\ Cardinality(Closed(u, n)) \in Nat
  BY <1>4, FS_CardinalityType
<1>. QED BY <1>1, <1>4, <1>5

LEMMA QuotesAre ==
  ASSUME NEW u \in Seq(Letters), NEW c \in Letters
  PROVE  /\ Depths!Quotes(u, Len(u)) \in Nat
         /\ \A n \in 0 .. Len(u) : Depths!Quotes(Append(u, c), n) = Depths!Quotes(u, n)
         /\ Depths!Quotes(Append(u, c), Len(u) + 1)
              = IF c = Depths!Quote THEN Depths!Quotes(u, Len(u)) + 1 ELSE Depths!Quotes(u, Len(u))
<1> DEFINE v == Append(u, c)
           Q(w, n) == {i \in 1 .. n : w[i] = Depths!Quote}
<1>1. Len(u) \in Nat /\ v[Len(u) + 1] = c /\ \A i \in 1 .. Len(u) : v[i] = u[i]
  OBVIOUS
<1>. HIDE DEF v
<1>2. \A w, n : Depths!Quotes(w, n) = Cardinality(Q(w, n))
  BY FiniteDepths DEF Depths!Quotes
<1>3. \A n \in 0 .. Len(u) : Q(v, n) = Q(u, n)
  BY <1>1
<1>4. IsFiniteSet(Q(u, Len(u)))
  <2>1. IsFiniteSet(1 .. Len(u)) /\ Q(u, Len(u)) \in SUBSET (1 .. Len(u))
    BY <1>1, FS_Interval
  <2>. QED BY <2>1, FS_Subset
<1>5. Q(v, Len(u) + 1) = Q(u, Len(u)) \cup (IF c = Depths!Quote THEN {Len(u) + 1} ELSE {})
  <2>1. \A i : i \in 1 .. Len(u) + 1 <=> i \in 1 .. Len(u) \/ i = Len(u) + 1
    BY <1>1
  <2>. QED BY <1>1, <2>1
<1>6. Len(u) + 1 \notin Q(u, Len(u))
  BY <1>1
<1>. HIDE DEF Q
<1>7. Cardinality(Q(u, Len(u))) \in Nat
  BY <1>4, FS_CardinalityType
<1>8. CASE c = Depths!Quote
  <2>1. Q(v, Len(u) + 1) = Q(u, Len(u)) \cup {Len(u) + 1}
    BY <1>5, <1>8
  <2>2. Cardinality(Q(v, Len(u) + 1)) = Cardinality(Q(u, Len(u))) + 1
    BY <1>4, <1>6, <2>1, FS_AddElement
  <2>. QED BY <1>2, <1>3, <1>7, <1>8, <2>2 DEF v
<1>9. CASE c # Depths!Quote
  <2>1. Q(v, Len(u) + 1) = Q(u, Len(u))
    BY <1>5, <1>9
  <2>. QED BY <1>2, <1>3, <1>7, <1>9, <2>1 DEF v
<1>. QED BY <1>8, <1>9

LEMMA BracketsAre ==
  ASSUME NEW u \in Seq(Letters), NEW c \in Letters
  PROVE  Depths!Brackets(Append(u, c))
           = Depths!Brackets(u) \cup (IF Between(u, c) THEN {Len(u) + 1} ELSE {})
<1> DEFINE v == Append(u, c)
<1>1. Len(u) \in Nat /\ Len(v) = Len(u) + 1 /\ v[Len(u) + 1] = c /\ \A i \in 1 .. Len(u) : v[i] = u[i]
  OBVIOUS
<1>2. \A i \in 1 .. Len(u) : Depths!Quotes(v, i) = Depths!Quotes(u, i)
  BY <1>1, QuotesAre
<1>3. c \in {Depths!Open, Depths!Close} => Depths!Quotes(v, Len(u) + 1) = Depths!Quotes(u, Len(u))
  <2>1. c \in {Depths!Open, Depths!Close} => c # Depths!Quote
    BY DEF Depths!Open, Depths!Close, Depths!Quote
  <2>. QED BY <2>1, QuotesAre
<1>. HIDE DEF v
<1>4. \A i : i \in 1 .. Len(v) <=> i \in 1 .. Len(u) \/ i = Len(u) + 1
  BY <1>1
<1>5. \A i : i \in Depths!Brackets(v) <=>
               i \in Depths!Brackets(u) \/ (i = Len(u) + 1 /\ Between(u, c))
  BY <1>1, <1>2, <1>3, <1>4 DEF Depths!Brackets, Between
<1>. QED BY <1>5 DEF v

\* One more character leaves the balances before it alone, and adds its own if it is a
\* bracket between strings.
LEMMA BalancesAre ==
  ASSUME NEW u \in Seq(Letters), NEW c \in Letters
  PROVE  LET n == Len(u)
             last == Depths!Balance(Append(u, c), n + 1)
         IN  /\ Len(Append(u, c)) = n + 1
             /\ Depths!Balance(u, n) \in Int
             /\ last = IF ~ Between(u, c) THEN Depths!Balance(u, n)
                       ELSE IF c = Depths!Open THEN Depths!Balance(u, n) + 1
                       ELSE Depths!Balance(u, n) - 1
             /\ Depths!Balances(Append(u, c))
                  = Depths!Balances(u) \cup (IF Between(u, c) THEN {last} ELSE {})
<1> DEFINE n == Len(u)
           v == Append(u, c)
<1>1. n \in Nat /\ Len(v) = n + 1 /\ v[n + 1] = c /\ \A i \in 1 .. n : v[i] = u[i]
  OBVIOUS
<1>2. Depths!Brackets(v) = Depths!Brackets(u) \cup (IF Between(u, c) THEN {n + 1} ELSE {})
  BY BracketsAre
<1>3. Depths!Brackets(u) \subseteq 1 .. n
  BY DEF Depths!Brackets
<1>. HIDE DEF n, v
<1>4. \A i \in Depths!Brackets(u) : i \in 1 .. n /\ v[i] = u[i] /\ i <= n /\ i <= n + 1 /\ i # n + 1
  BY <1>1, <1>3
<1>5. ASSUME NEW m \in 0 .. n
      PROVE  Depths!Balance(v, m) = Depths!Balance(u, m)
  <2>1. ~ (n + 1 <= m)
    BY <1>1
  <2>2. Opened(v, m) = Opened(u, m) /\ Closed(v, m) = Closed(u, m)
    BY <1>2, <1>4, <2>1 DEF Opened, Closed
  <2>3. Len(v) \in Nat /\ Len(u) \in Nat
    BY <1>1
  <2>. QED BY <2>2, <2>3, BalanceIs
<1>6. Depths!Open # Depths!Close
  BY DEF Depths!Open, Depths!Close
<1>7. /\ Opened(v, n + 1) = Opened(u, n) \cup (IF Between(u, c) /\ c = Depths!Open THEN {n + 1} ELSE {})
      /\ Closed(v, n + 1) = Closed(u, n) \cup (IF Between(u, c) /\ c = Depths!Close THEN {n + 1} ELSE {})
      /\ n + 1 \notin Opened(u, n) /\ n + 1 \notin Closed(u, n)
  <2>1. n + 1 <= n + 1 /\ ~ (n + 1 <= n)
    BY <1>1
  <2>. QED BY <1>1, <1>2, <1>4, <2>1 DEF Opened, Closed
<1>8. /\ IsFiniteSet(Opened(u, n)) /\ Cardinality(Opened(u, n)) \in Nat
      /\ IsFiniteSet(Closed(u, n)) /\ Cardinality(Closed(u, n)) \in Nat
      /\ Depths!Balance(u, n) = Cardinality(Opened(u, n)) - Cardinality(Closed(u, n))
      /\ Depths!Balance(u, n) \in Int
      /\ Depths!Balance(v, n + 1) = Cardinality(Opened(v, n + 1)) - Cardinality(Closed(v, n + 1))
  <2>1. Len(u) \in Nat /\ Len(v) \in Nat
    BY <1>1
  <2>. QED BY <2>1, BalanceIs
<1>9. Depths!Balance(v, n + 1) = IF ~ Between(u, c) THEN Depths!Balance(u, n)
                                 ELSE IF c = Depths!Open THEN Depths!Balance(u, n) + 1
                                 ELSE Depths!Balance(u, n) - 1
  <2>1. CASE ~ Between(u, c)
    <3>1. Opened(v, n + 1) = Opened(u, n) /\ Closed(v, n + 1) = Closed(u, n)
      BY <1>7, <2>1
    <3>. QED BY <1>8, <2>1, <3>1
  <2>2. CASE Between(u, c) /\ c = Depths!Open
    <3>1. Opened(v, n + 1) = Opened(u, n) \cup {n + 1} /\ Closed(v, n + 1) = Closed(u, n)
      BY <1>6, <1>7, <2>2
    <3>2. Cardinality(Opened(v, n + 1)) = Cardinality(Opened(u, n)) + 1
      BY <1>7, <1>8, <3>1, FS_AddElement
    <3>. QED BY <1>8, <2>2, <3>1, <3>2
  <2>3. CASE Between(u, c) /\ c = Depths!Close
    <3>1. Closed(v, n + 1) = Closed(u, n) \cup {n + 1} /\ Opened(v, n + 1) = Opened(u, n)
      BY <1>6, <1>7, <2>3
    <3>2. Cardinality(Closed(v, n + 1)) = Cardinality(Closed(u, n)) + 1
      BY <1>7, <1>8, <3>1, FS_AddElement
    <3>. QED BY <1>6, <1>8, <2>3, <3>1, <3>2
  <2>4. Between(u, c) => c = Depths!Open \/ c = Depths!Close
    BY DEF Between
  <2>. QED BY <2>1, <2>2, <2>3, <2>4
<1>10. Depths!Balances(v)
         = Depths!Balances(u) \cup (IF Between(u, c) THEN {Depths!Balance(v, n + 1)} ELSE {})
  <2>1. \A i \in Depths!Brackets(u) : Depths!Balance(v, i) = Depths!Balance(u, i)
    <3>1. \A i \in 1 .. n : i \in 0 .. n
      BY <1>1
    <3>. QED BY <1>4, <1>5, <3>1
  <2>2. CASE Between(u, c)
    <3>1. Depths!Brackets(v) = Depths!Brackets(u) \cup {n + 1}
      BY <1>2, <2>2
    <3>. QED BY <2>1, <2>2, <3>1 DEF Depths!Balances
  <2>3. CASE ~ Between(u, c)
    <3>1. Depths!Brackets(v) = Depths!Brackets(u)
      BY <1>2, <2>3
    <3>. QED BY <2>1, <2>3, <3>1 DEF Depths!Balances
  <2>. QED BY <2>2, <2>3
<1>. QED BY <1>1, <1>8, <1>9, <1>10 DEF n, v

\* A backslash at the end makes no difference.
LEMMA BackslashIsSilent ==
  ASSUME NEW u \in Seq(Letters)
  PROVE  LET v == Append(u, Depths!Backslash)
         IN  /\ Depths!Balances(v) = Depths!Balances(u)
             /\ Depths!Balance(v, Len(v)) = Depths!Balance(u, Len(u))
             /\ Depths!Quotes(v, Len(v)) = Depths!Quotes(u, Len(u))
<1>1. /\ Depths!Backslash \in Letters /\ ~ Between(u, Depths!Backslash) /\ Depths!Backslash # Depths!Quote
  BY DEF Letters, Depths!Alphabet, Between, Depths!Backslash, Depths!Open, Depths!Close, Depths!Quote
<1>. QED BY <1>1, BalancesAre, QuotesAre


\* The two passes over a text hold the same backslash back, and leave no pair of them.
Agree(one, two) ==
  /\ one.pending = two.pending
  /\ one.pending <=> one.kept # <<>> /\ Depths!Last(one.kept) = Depths!Backslash
  /\ \A i \in 1 .. Len(one.kept) - 1 :
       ~ (one.kept[i] = Depths!Backslash /\ one.kept[i + 1] = Depths!Backslash)
  /\ two.pending => two.kept # <<>> /\ Depths!Last(two.kept) = Depths!Backslash

One(t) == Depths!Passed(Depths!Backslash, Depths!Backslash, t)
Two(t) == Depths!Passed(Depths!Backslash, Depths!Quote, One(t).kept)

LEMMA PassDrops ==
  ASSUME NEW second, NEW s, s.pending
  PROVE  Depths!Pass(Depths!Backslash, second, s, second)
           = [kept |-> Depths!Front(s.kept), pending |-> FALSE]
BY DEF Depths!Pass

LEMMA PassKeeps ==
  ASSUME NEW second, NEW s, NEW c, ~ (s.pending /\ c = second)
  PROVE  Depths!Pass(Depths!Backslash, second, s, c)
           = [kept |-> Append(s.kept, c), pending |-> c = Depths!Backslash]
BY DEF Depths!Pass

LEMMA PassPends ==
  ASSUME NEW second, NEW s, NEW c, c # Depths!Backslash
  PROVE  ~ Depths!Pass(Depths!Backslash, second, s, c).pending
<1>1. CASE s.pending /\ c = second
  BY <1>1, PassDrops
<1>2. CASE ~ (s.pending /\ c = second)
  <2> DEFINE next == Depths!Pass(Depths!Backslash, second, s, c)
  <2>1. next = [kept |-> Append(s.kept, c), pending |-> c = Depths!Backslash]
    BY <1>2, PassKeeps
  <2>. HIDE DEF next
  <2>2. next.pending = (c = Depths!Backslash)
    BY <2>1
  <2>3. ~ next.pending
    BY <2>2
  <2>. QED BY <2>3 DEF next
<1>. QED BY <1>1, <1>2

LEMMA OneMore ==
  ASSUME NEW t \in Seq(Letters), NEW c \in Letters
  PROVE  /\ One(Append(t, c)) = Depths!Pass(Depths!Backslash, Depths!Backslash, One(t), c)
         /\ One(t) \in PassState
BY PassedMore DEF One

LEMMA TwoTypes ==
  ASSUME NEW t \in Seq(Letters)
  PROVE  One(t) \in PassState /\ Two(t) \in PassState
<1>1. One(t) \in PassState
  <2>1. Depths!Quote \in Letters
    BY DEF Letters, Depths!Alphabet
  <2>. QED BY <2>1, OneMore
<1>2. One(t).kept \in Seq(Letters)
  BY <1>1 DEF PassState
<1>3. Depths!Quote \in Letters
  BY DEF Letters, Depths!Alphabet
<1>. QED BY <1>1, <1>2, <1>3, PassedMore DEF Two

\* What one more character does to the text that is left after both.
LEMMA BothMore ==
  ASSUME NEW t \in Seq(Letters), NEW c \in Letters, Agree(One(t), Two(t))
  PROVE  LET u == Append(t, c)
         IN  /\ Agree(One(u), Two(u))
             /\ IF Two(t).pending /\ c \in {Depths!Backslash, Depths!Quote}
                THEN Two(u).kept = Depths!Front(Two(t).kept) /\ ~ Two(u).pending
                ELSE Two(u).kept = Append(Two(t).kept, c) /\ (Two(u).pending <=> c = Depths!Backslash)
<1> DEFINE w == One(t).kept
           u == Append(t, c)
<1>1. /\ One(t) \in PassState /\ Two(t) \in PassState /\ w \in Seq(Letters) /\ Two(t).kept \in Seq(Letters)
      /\ u \in Seq(Letters)
  BY TwoTypes DEF PassState
<1>2. One(u) = Depths!Pass(Depths!Backslash, Depths!Backslash, One(t), c)
  BY OneMore
<1>3. Depths!Quote # Depths!Backslash /\ Depths!Quote \in Letters /\ Depths!Backslash \in Letters
  BY DEF Depths!Quote, Depths!Backslash, Letters, Depths!Alphabet
<1>4. /\ One(t).pending = Two(t).pending
      /\ One(t).pending <=> w # <<>> /\ Depths!Last(w) = Depths!Backslash
      /\ \A i \in 1 .. Len(w) - 1 : ~ (w[i] = Depths!Backslash /\ w[i + 1] = Depths!Backslash)
  BY DEF Agree
<1>. HIDE DEF w, u
<1>5. CASE One(t).pending /\ c = Depths!Backslash
  <2> DEFINE r == Depths!Front(w)
  <2>1. r \in Seq(Letters) /\ w = Append(r, Depths!Backslash)
    BY <1>1, <1>4, <1>5, FrontOf
  <2>2. One(u) = [kept |-> r, pending |-> FALSE]
    BY <1>2, <1>5, PassDrops DEF w
  <2>. HIDE DEF r
  <2> DEFINE before == Depths!Passed(Depths!Backslash, Depths!Quote, r)
  <2>3. before \in PassState /\ Two(t) = Depths!Pass(Depths!Backslash, Depths!Quote, before, Depths!Backslash)
    BY <1>3, <2>1, PassedMore DEF Two, w
  <2>4. Two(u) = before
    BY <2>2 DEF Two
  <2>5. Two(t).kept = Append(before.kept, Depths!Backslash)
    <3>1. ~ (before.pending /\ Depths!Backslash = Depths!Quote)
      BY <1>3
    <3>. HIDE DEF before
    <3>. QED BY <2>3, <3>1, PassKeeps
  <2>6. Len(r) \in Nat /\ Len(w) = Len(r) + 1 /\ w[Len(r) + 1] = Depths!Backslash
        /\ \A i \in 1 .. Len(r) : w[i] = r[i]
    BY <1>3, <2>1
  <2>7. r # <<>> => Depths!Last(r) # Depths!Backslash
    <3>. SUFFICES ASSUME r # <<>>, r[Len(r)] = Depths!Backslash PROVE FALSE
      BY DEF Depths!Last
    <3>1. Len(r) \in 1 .. Len(w) - 1
      BY <2>1, <2>6
    <3>2. w[Len(r)] = Depths!Backslash
      BY <2>6, <3>1
    <3>. QED BY <1>4, <2>6, <3>1, <3>2
  <2>8. ~ before.pending
    <3>1. CASE r = <<>>
      <4>1. before = Depths!Nothing
        BY <3>1, PassedEmpty
      <4>. QED BY <4>1 DEF Depths!Nothing
    <3>2. CASE r # <<>>
      <4> DEFINE q == Depths!Front(r)
                 e == Depths!Last(r)
                 earlier == Depths!Passed(Depths!Backslash, Depths!Quote, q)
      <4>1. q \in Seq(Letters) /\ e \in Letters /\ r = Append(q, e)
        BY <2>1, <3>2, FrontOf
      <4>2. e # Depths!Backslash
        BY <2>7, <3>2, Zenon
      <4>. HIDE DEF q, e, before
      <4>3. Depths!Passed(Depths!Backslash, Depths!Quote, Append(q, e))
              = Depths!Pass(Depths!Backslash, Depths!Quote, earlier, e)
        BY <4>1, PassedMore
      <4>4. ~ Depths!Pass(Depths!Backslash, Depths!Quote, earlier, e).pending
        BY <4>2, PassPends
      <4>. QED BY <4>1, <4>3, <4>4, Zenon DEF before
    <3>. QED BY <3>1, <3>2
  <2>9. before.kept \in Seq(Letters)
    BY <2>3 DEF PassState
  <2>. HIDE DEF before
  <2>10. Depths!Front(Two(t).kept) = before.kept
    BY <1>3, <2>5, <2>9, LastOf
  <2>11. \A i \in 1 .. Len(r) - 1 : ~ (r[i] = Depths!Backslash /\ r[i + 1] = Depths!Backslash)
    <3>. TAKE i \in 1 .. Len(r) - 1
    <3>1. i \in 1 .. Len(r) /\ i + 1 \in 1 .. Len(r) /\ i \in 1 .. Len(w) - 1
      BY <2>6
    <3>. QED BY <1>4, <2>6, <3>1
  <2>12. One(u).kept = r /\ One(u).pending = FALSE
    BY <2>2
  <2>13. before.pending = FALSE
    BY <2>3, <2>8 DEF PassState
  <2>14. Agree(One(u), Two(u))
    <3>1. One(u).pending = Two(u).pending /\ Two(u).pending = FALSE
      BY <2>4, <2>12, <2>13
    <3>. QED BY <2>7, <2>11, <2>12, <3>1 DEF Agree
  <2>. QED BY <1>4, <1>5, <2>4, <2>8, <2>10, <2>14 DEF u
<1>6. CASE ~ (One(t).pending /\ c = Depths!Backslash)
  <2>1. One(u) = [kept |-> Append(w, c), pending |-> c = Depths!Backslash]
    BY <1>2, <1>6, PassKeeps DEF w
  <2> DEFINE v == Append(w, c)
  <2>2. Two(u) = Depths!Pass(Depths!Backslash, Depths!Quote, Two(t), c)
    <3>1. Depths!Passed(Depths!Backslash, Depths!Quote, v)
            = Depths!Pass(Depths!Backslash, Depths!Quote, Depths!Passed(Depths!Backslash, Depths!Quote, w), c)
      BY <1>1, PassedMore
    <3>2. One(u).kept = v
      BY <2>1
    <3>. HIDE DEF v
    <3>. QED BY <3>1, <3>2 DEF Two, w
  <2>3. v # <<>> /\ Depths!Last(v) = c
    BY <1>1, LastOf
  <2>4. \A i \in 1 .. Len(v) - 1 : ~ (v[i] = Depths!Backslash /\ v[i + 1] = Depths!Backslash)
    <3>1. Len(w) \in Nat /\ Len(v) = Len(w) + 1 /\ v[Len(w) + 1] = c /\ \A i \in 1 .. Len(w) : v[i] = w[i]
      BY <1>1
    <3>. HIDE DEF v
    <3>. SUFFICES ASSUME NEW i \in 1 .. Len(w), v[i] = Depths!Backslash, v[i + 1] = Depths!Backslash
                  PROVE FALSE
      BY <3>1
    <3>2. CASE i = Len(w)
      <4>1. w # <<>> /\ Depths!Last(w) = Depths!Backslash /\ c = Depths!Backslash
        BY <1>1, <3>1, <3>2 DEF Depths!Last
      <4>. QED BY <1>4, <1>6, <4>1
    <3>3. CASE i # Len(w)
      <4>1. i \in 1 .. Len(w) - 1 /\ i + 1 \in 1 .. Len(w)
        BY <3>1, <3>3
      <4>. QED BY <1>4, <3>1, <4>1
    <3>. QED BY <3>2, <3>3
  <2>5. One(u).kept = v /\ One(u).pending = (c = Depths!Backslash)
    BY <2>1
  <2>. HIDE DEF v
  <2>6. CASE Two(t).pending /\ c = Depths!Quote
    <3>1. Two(u) = [kept |-> Depths!Front(Two(t).kept), pending |-> FALSE]
      BY <2>2, <2>6, PassDrops
    <3>2. Two(u).kept = Depths!Front(Two(t).kept) /\ Two(u).pending = FALSE
      BY <3>1
    <3>3. Agree(One(u), Two(u))
      BY <1>3, <2>3, <2>4, <2>5, <2>6, <3>2 DEF Agree
    <3>. QED BY <2>6, <3>2, <3>3 DEF u
  <2>7. CASE ~ (Two(t).pending /\ c = Depths!Quote)
    <3>1. Two(u) = [kept |-> Append(Two(t).kept, c), pending |-> c = Depths!Backslash]
      BY <2>2, <2>7, PassKeeps
    <3>2. Two(u).kept = Append(Two(t).kept, c) /\ Two(u).pending = (c = Depths!Backslash)
      BY <3>1
    <3>3. Two(u).kept # <<>> /\ Depths!Last(Two(u).kept) = c
      <4>1. Append(Two(t).kept, c) # <<>> /\ Depths!Last(Append(Two(t).kept, c)) = c
        BY <1>1, LastOf
      <4>. QED BY <3>2, <4>1
    <3>4. Agree(One(u), Two(u))
      BY <2>3, <2>4, <2>5, <3>2, <3>3 DEF Agree
    <3>. QED BY <1>4, <1>6, <2>7, <3>2, <3>4 DEF u
  <2>. QED BY <2>6, <2>7
<1>. QED BY <1>5, <1>6


\* What the parser has read of a text, as the brackets that are left of it tell.
HasGreatest(S) == S # {} => \E d \in S : \A e \in S : e <= d

Follows(u, pending, scan) ==
  /\ HasGreatest(Depths!Balances(u))
  /\ scan.reach > 0 => scan.reach \in Depths!Balances(u)
  /\ scan.in # "error" =>
       /\ pending <=> scan.in = "escape"
       /\ Depths!Quotes(u, Len(u)) % 2 = 0 <=> scan.in = "value"
       /\ scan.open = Depths!Balance(u, Len(u))
       /\ scan.open <= scan.reach
       /\ \A b \in Depths!Balances(u) : b <= scan.reach
       /\ Depths!Balances(u) # {} => scan.reach > 0

LEMMA ScanInvIs ==
  Depths!ScanInv <=> Agree(One(text), Two(text)) /\ Follows(Two(text).kept, Two(text).pending, Depths!Scan(text))
BY Zenon DEF Depths!ScanInv, Agree, Follows, HasGreatest, One, Two

LEMMA BalancesAreNumbers ==
  ASSUME NEW u \in Seq(Letters)
  PROVE  \A b \in Depths!Balances(u) : b \in Int
<1>1. Len(u) \in Nat
  OBVIOUS
<1>. QED BY <1>1, BalanceIs DEF Depths!Balances

LEMMA OneGreater ==
  ASSUME NEW S, \A b \in S : b \in Int, HasGreatest(S), NEW e \in Int
  PROVE  HasGreatest(S \cup {e})
<1>1. CASE S = {}
  BY <1>1 DEF HasGreatest
<1>2. CASE S # {}
  <2>1. PICK d \in S : \A b \in S : b <= d
    BY <1>2 DEF HasGreatest
  <2>2. CASE e <= d
    BY <2>1, <2>2 DEF HasGreatest
  <2>3. CASE ~ (e <= d)
    <3>1. \A b \in S : b <= e
      BY <2>1, <2>3
    <3>. QED BY <3>1 DEF HasGreatest
  <2>. QED BY <2>2, <2>3
<1>. QED BY <1>1, <1>2

\* A pair that is deleted: its backslash was silent, and the parser was in a string.
LEMMA FollowsPair ==
  ASSUME NEW u \in Seq(Letters), NEW scan \in ScanState,
         Follows(Append(u, Depths!Backslash), TRUE, scan),
         NEW c \in {Depths!Backslash, Depths!Quote}
  PROVE  Follows(u, FALSE, Depths!Read(scan, c))
<1> DEFINE v == Append(u, Depths!Backslash)
           next == Depths!Read(scan, c)
<1>1. /\ Depths!Balances(v) = Depths!Balances(u)
      /\ Depths!Balance(v, Len(v)) = Depths!Balance(u, Len(u))
      /\ Depths!Quotes(v, Len(v)) = Depths!Quotes(u, Len(u))
  BY BackslashIsSilent
<1>2. c \in Letters /\ c \notin {Depths!Open, Depths!Close}
  BY DEF Letters, Depths!Alphabet, Depths!Backslash, Depths!Quote, Depths!Open, Depths!Close
<1>3. CASE scan.in = "error"
  <2>1. next = scan
    BY <1>2, <1>3, ReadIs
  <2>. HIDE DEF v, next
  <2>. QED BY <1>1, <1>3, <2>1 DEF Follows, v, next
<1>4. CASE scan.in # "error"
  <2>1. scan.in = "escape"
    BY <1>4 DEF Follows
  <2>2. next = [in |-> "string", open |-> scan.open, reach |-> scan.reach]
    BY <1>2, <2>1, ReadIs
  <2>3. next.in = "string" /\ next.open = scan.open /\ next.reach = scan.reach
    BY <2>2
  <2>. HIDE DEF next
  <2>. QED BY <1>1, <2>1, <2>3 DEF Follows, next
<1>. QED BY <1>3, <1>4

\* A character that is no bracket between strings.
LEMMA FollowsSilent ==
  ASSUME NEW u \in Seq(Letters), NEW scan \in ScanState, NEW pending \in BOOLEAN,
         Follows(u, pending, scan),
         NEW c \in Letters, ~ Between(u, c), ~ (pending /\ c \in {Depths!Backslash, Depths!Quote})
  PROVE  Follows(Append(u, c), c = Depths!Backslash, Depths!Read(scan, c))
<1> DEFINE v == Append(u, c)
           next == Depths!Read(scan, c)
           n == Depths!Quotes(u, Len(u))
<1>1. /\ Depths!Balances(v) = Depths!Balances(u)
      /\ Depths!Balance(v, Len(v)) = Depths!Balance(u, Len(u))
      /\ n \in Nat /\ Depths!Quotes(v, Len(v)) = IF c = Depths!Quote THEN n + 1 ELSE n
  BY BalancesAre, QuotesAre
<1>2. /\ c \in {Depths!Open, Depths!Close, Depths!Quote, Depths!Backslash, "other"}
      /\ Depths!Quote # Depths!Backslash
      /\ \A b \in {Depths!Open, Depths!Close} : b # Depths!Quote /\ b # Depths!Backslash
      /\ Depths!Quote # "other" /\ Depths!Backslash # "other"
  BY DEF Letters, Depths!Alphabet, Depths!Backslash, Depths!Quote, Depths!Open, Depths!Close
<1>. HIDE DEF n, v
<1>3. /\ HasGreatest(Depths!Balances(v))
      /\ scan.reach > 0 => scan.reach \in Depths!Balances(v)
  BY <1>1 DEF Follows
<1>4. CASE scan.in = "error"
  <2>1. next = scan
    BY <1>4, ReadIs
  <2>. HIDE DEF next
  <2>. QED BY <1>3, <1>4, <2>1 DEF Follows, v, next
<1>5. scan.in # "error" =>
        /\ pending <=> scan.in = "escape"
        /\ n % 2 = 0 <=> scan.in = "value"
        /\ scan.open = Depths!Balance(v, Len(v))
        /\ scan.open <= scan.reach
        /\ \A b \in Depths!Balances(v) : b <= scan.reach
        /\ Depths!Balances(v) # {} => scan.reach > 0
  BY <1>1 DEF Follows, n
<1>6. ASSUME scan.in # "error"
      PROVE  /\ next.open = scan.open /\ next.reach = scan.reach
             /\ next.in # "error" =>
                  /\ c = Depths!Backslash <=> next.in = "escape"
                  /\ Depths!Quotes(v, Len(v)) % 2 = 0 <=> next.in = "value"
  <2>1. n % 2 = 0 <=> (n + 1) % 2 # 0
    BY <1>1, Odd
  <2>2. scan.in \in {"value", "string", "escape"}
    BY <1>6 DEF ScanState
  <2>3. CASE scan.in = "escape"
    <3>1. next = [in |-> IF c \in {Depths!Open, Depths!Close} THEN "error" ELSE "string",
                  open |-> scan.open, reach |-> scan.reach]
      BY <2>3, ReadIs
    <3>2. c # Depths!Backslash /\ c # Depths!Quote
      BY <1>5, <2>3
    <3>. HIDE DEF next
    <3>3. next.open = scan.open /\ next.reach = scan.reach /\ next.in \in {"error", "string"}
      BY <3>1
    <3>. QED BY <1>1, <1>5, <2>3, <3>2, <3>3
  <2>4. CASE scan.in = "string"
    <3>1. next = [in |-> IF c = Depths!Quote THEN "value"
                         ELSE IF c = Depths!Backslash THEN "escape" ELSE "string",
                  open |-> scan.open, reach |-> scan.reach]
      BY <2>4, ReadIs
    <3>. HIDE DEF next
    <3>2. /\ next.open = scan.open /\ next.reach = scan.reach
          /\ next.in = IF c = Depths!Quote THEN "value"
                       ELSE IF c = Depths!Backslash THEN "escape" ELSE "string"
      BY <3>1
    <3>. QED BY <1>1, <1>2, <1>5, <2>1, <2>4, <3>2
  <2>5. CASE scan.in = "value"
    <3>1. c \notin {Depths!Open, Depths!Close}
      BY <1>5, <2>5 DEF Between, n
    <3>2. CASE c = Depths!Quote
      <4>1. next = [in |-> "string", open |-> scan.open, reach |-> scan.reach]
        BY <2>5, <3>2, ReadIs
      <4>. HIDE DEF next
      <4>. QED BY <1>1, <1>2, <1>5, <2>1, <2>5, <3>2, <4>1
    <3>3. CASE c = Depths!Backslash
      <4>1. next = [in |-> "error", open |-> scan.open, reach |-> scan.reach]
        BY <2>5, <3>3, ReadIs
      <4>. HIDE DEF next
      <4>. QED BY <4>1
    <3>4. CASE c = "other"
      <4>1. next = scan
        BY <2>5, <3>4, ReadIs
      <4>. HIDE DEF next
      <4>. QED BY <1>1, <1>2, <1>5, <2>5, <3>4, <4>1
    <3>. QED BY <1>2, <3>1, <3>2, <3>3, <3>4
  <2>. QED BY <2>2, <2>3, <2>4, <2>5
<1>. HIDE DEF next
<1>. QED BY <1>3, <1>4, <1>5, <1>6 DEF Follows, v, next


\* A bracket between strings.
LEMMA FollowsBracket ==
  ASSUME NEW u \in Seq(Letters), NEW scan \in ScanState, NEW pending \in BOOLEAN,
         Follows(u, pending, scan), NEW c \in Letters, Between(u, c)
  PROVE  Follows(Append(u, c), FALSE, Depths!Read(scan, c))
<1> DEFINE v == Append(u, c)
           next == Depths!Read(scan, c)
           last == Depths!Balance(v, Len(v))
<1>1. /\ Depths!Balances(v) = Depths!Balances(u) \cup {last}
      /\ Depths!Balance(u, Len(u)) \in Int
      /\ last = IF c = Depths!Open THEN Depths!Balance(u, Len(u)) + 1 ELSE Depths!Balance(u, Len(u)) - 1
  BY BalancesAre
<1>2. /\ c = Depths!Open \/ c = Depths!Close
      /\ Depths!Open # Depths!Close
      /\ Depths!Quotes(u, Len(u)) % 2 = 0
      /\ c # Depths!Quote
  BY DEF Between, Depths!Open, Depths!Close, Depths!Quote
<1>3. Depths!Quotes(v, Len(v)) % 2 = 0
  <2>1. Len(v) = Len(u) + 1
    OBVIOUS
  <2>. HIDE DEF v
  <2>. QED BY <1>2, <2>1, QuotesAre DEF v
<1>. HIDE DEF v, last
<1>4. last \in Int /\ \A b \in Depths!Balances(u) : b \in Int
  BY <1>1, <1>2, BalancesAreNumbers
<1>5. /\ HasGreatest(Depths!Balances(v))
      /\ scan.reach > 0 => scan.reach \in Depths!Balances(v)
  BY <1>1, <1>4, OneGreater DEF Follows
<1>6. scan.open \in Nat /\ scan.reach \in Nat
  BY DEF ScanState
<1>7. CASE scan.in = "error"
  <2>1. next = scan
    BY <1>7, ReadIs
  <2>. HIDE DEF next
  <2>. QED BY <1>5, <1>7, <2>1 DEF Follows, v, next
<1>8. CASE scan.in # "error"
  <2>1. /\ scan.in = "value"
        /\ scan.open = Depths!Balance(u, Len(u))
        /\ scan.open <= scan.reach
        /\ \A b \in Depths!Balances(u) : b <= scan.reach
        /\ Depths!Balances(u) # {} => scan.reach > 0
    BY <1>2, <1>8 DEF Follows
  <2>2. CASE c = Depths!Open
    <3>1. next = [in |-> "value", open |-> scan.open + 1,
                  reach |-> IF scan.open + 1 > scan.reach THEN scan.open + 1 ELSE scan.reach]
      BY <2>1, <2>2, ReadIs
    <3>. HIDE DEF next
    <3>2. last = scan.open + 1
      BY <1>1, <2>1, <2>2
    <3>3. next.in = "value" /\ next.open = last /\ next.reach = IF last > scan.reach THEN last ELSE scan.reach
      BY <3>1, <3>2
    <3>4. next.reach > 0 /\ next.reach \in Depths!Balances(v)
      BY <1>1, <1>5, <1>6, <3>2, <3>3
    <3>5. next.open <= next.reach /\ \A b \in Depths!Balances(v) : b <= next.reach
      BY <1>1, <1>4, <1>6, <2>1, <3>3
    <3>. QED BY <1>3, <1>5, <3>3, <3>4, <3>5 DEF Follows, v, next, last
  <2>3. CASE c = Depths!Close /\ scan.open > 0
    <3>1. next = [in |-> "value", open |-> scan.open - 1, reach |-> scan.reach]
      BY <2>1, <2>3, ReadIs
    <3>. HIDE DEF next
    <3>2. last = scan.open - 1
      BY <1>1, <1>2, <2>1, <2>3
    <3>3. next.in = "value" /\ next.open = last /\ next.reach = scan.reach
      BY <3>1, <3>2
    <3>4. next.reach > 0 /\ next.open <= next.reach /\ \A b \in Depths!Balances(v) : b <= next.reach
      BY <1>1, <1>4, <1>6, <2>1, <2>3, <3>2, <3>3
    <3>. QED BY <1>3, <1>5, <3>3, <3>4 DEF Follows, v, next, last
  <2>4. CASE c = Depths!Close /\ ~ (scan.open > 0)
    <3>1. next = [in |-> "error", open |-> scan.open, reach |-> scan.reach]
      BY <2>1, <2>4, ReadIs
    <3>. HIDE DEF next
    <3>2. next.in = "error" /\ next.reach = scan.reach
      BY <3>1
    <3>. QED BY <1>5, <3>2 DEF Follows, v, next
  <2>. QED BY <1>2, <2>2, <2>3, <2>4
<1>. QED BY <1>7, <1>8

LEMMA NothingRead ==
  ASSUME NEW u, Len(u) = 0
  PROVE  Depths!Balances(u) = {} /\ Depths!Balance(u, Len(u)) = 0 /\ Depths!Quotes(u, Len(u)) = 0
<1>1. Depths!Brackets(u) = {} /\ Cardinality({}) = 0
  BY FS_EmptySet DEF Depths!Brackets
<1>2. Opened(u, Len(u)) = {} /\ Closed(u, Len(u)) = {} /\ {i \in 1 .. Len(u) : u[i] = Depths!Quote} = {}
  BY <1>1 DEF Opened, Closed
<1>3. Depths!Balance(u, Len(u)) = Cardinality(Opened(u, Len(u))) - Cardinality(Closed(u, Len(u)))
  BY BalanceIs
<1>4. Depths!Balance(u, Len(u)) = Cardinality({}) - Cardinality({})
  BY <1>2, <1>3
<1>5. Depths!Quotes(u, Len(u)) = Cardinality({})
  BY <1>2, FiniteDepths DEF Depths!Quotes
<1>. QED BY <1>1, <1>4, <1>5 DEF Depths!Balances

LEMMA ScanInvAfter ==
  Depths!ScanInv' <=> Agree(One(text'), Two(text'))
                      /\ Follows(Two(text').kept, Two(text').pending, Depths!Scan(text'))
BY Zenon DEF Depths!ScanInv, Agree, Follows, HasGreatest, One, Two

LEMMA ScanStarts ==
  ASSUME Depths!Init
  PROVE  text \in Seq(Letters) /\ Depths!ScanInv
<1>1. text = <<>> /\ text \in Seq(Letters)
  BY DEF Depths!Init
<1>2. One(text) = Depths!Nothing /\ Two(text) = Depths!Nothing
  <2>1. One(text) = Depths!Nothing
    BY <1>1, PassedEmpty DEF One
  <2>. QED BY <2>1, PassedEmpty DEF Two, Depths!Nothing
<1>3. One(text).kept = <<>> /\ One(text).pending = FALSE /\ Two(text).kept = <<>> /\ Two(text).pending = FALSE
  BY <1>2 DEF Depths!Nothing
<1>4. Depths!Scan(text) = [in |-> "value", open |-> 0, reach |-> 0]
  BY <1>1, ScanEmpty DEF Depths!Start
<1>5. Agree(One(text), Two(text))
  <2>1. \A i \in 1 .. Len(One(text).kept) - 1 : FALSE
    BY <1>3
  <2>2. ~ One(text).pending /\ ~ Two(text).pending /\ One(text).pending = Two(text).pending
    BY <1>3
  <2>3. One(text).kept = <<>>
    BY <1>3
  <2>. QED BY <2>1, <2>2, <2>3, Zenon DEF Agree
<1>6. Follows(text, FALSE, Depths!Scan(text))
  <2> DEFINE scan == Depths!Scan(text)
  <2>1. scan.in = "value" /\ scan.open = 0 /\ scan.reach = 0
    BY <1>4
  <2>2. HasGreatest({})
    BY DEF HasGreatest
  <2>3. Len(text) = 0
    BY <1>1
  <2>4. Depths!Balances(text) = {} /\ Depths!Balance(text, Len(text)) = 0 /\ Depths!Quotes(text, Len(text)) = 0
    BY <2>3, NothingRead
  <2>. HIDE DEF scan
  <2>. QED BY <2>1, <2>2, <2>4 DEF Follows, scan
<1>. QED BY <1>1, <1>3, <1>5, <1>6, ScanInvIs

LEMMA ScanStays ==
  ASSUME text \in Seq(Letters), Depths!ScanInv, [Depths!Next]_text
  PROVE  text' \in Seq(Letters) /\ Depths!ScanInv'
<1>1. CASE text' = text
  BY <1>1, ScanInvIs, ScanInvAfter
<1>2. ASSUME NEW c \in Letters, text' = Append(text, c)
      PROVE  text' \in Seq(Letters) /\ Depths!ScanInv'
  <2> DEFINE next == Append(text, c)
             scan == Depths!Scan(text)
             u == Two(text).kept
             pending == Two(text).pending
  <2>1. Agree(One(text), Two(text)) /\ Follows(u, pending, scan)
    BY ScanInvIs
  <2>2. Depths!Scan(next) = Depths!Read(scan, c) /\ scan \in ScanState
    BY ScanMore
  <2>3. u \in Seq(Letters) /\ pending \in BOOLEAN /\ next \in Seq(Letters) /\ Two(next) \in PassState
    <3>1. next \in Seq(Letters)
      OBVIOUS
    <3>2. Two(text) \in PassState
      BY TwoTypes
    <3>3. Two(next) \in PassState
      BY <3>1, TwoTypes
    <3>. QED BY <3>1, <3>2, <3>3 DEF PassState
  <2>4. /\ Agree(One(next), Two(next))
        /\ IF pending /\ c \in {Depths!Backslash, Depths!Quote}
           THEN Two(next).kept = Depths!Front(u) /\ ~ Two(next).pending
           ELSE Two(next).kept = Append(u, c) /\ (Two(next).pending <=> c = Depths!Backslash)
    BY <2>1, BothMore
  <2>5. Two(next).pending \in BOOLEAN
    BY <2>3 DEF PassState
  <2>6. pending => u # <<>> /\ Depths!Last(u) = Depths!Backslash
    BY <2>1 DEF Agree
  <2>. HIDE DEF next, scan, u, pending
  <2>7. Follows(Two(next).kept, Two(next).pending, Depths!Scan(next))
    <3>1. CASE pending /\ c \in {Depths!Backslash, Depths!Quote}
      <4>1. Depths!Front(u) \in Seq(Letters) /\ u = Append(Depths!Front(u), Depths!Backslash)
        BY <2>3, <2>6, <3>1, FrontOf
      <4>2. pending = TRUE /\ Two(next).pending = FALSE /\ Two(next).kept = Depths!Front(u)
        BY <2>3, <2>4, <2>5, <3>1
      <4>3. Follows(Depths!Front(u), FALSE, Depths!Read(scan, c))
        BY <2>1, <2>2, <3>1, <4>1, <4>2, FollowsPair
      <4>. QED BY <2>2, <4>2, <4>3
    <3>2. CASE ~ (pending /\ c \in {Depths!Backslash, Depths!Quote}) /\ ~ Between(u, c)
      <4>1. Two(next).kept = Append(u, c) /\ Two(next).pending = (c = Depths!Backslash)
        BY <2>4, <2>5, <3>2
      <4>2. Follows(Append(u, c), c = Depths!Backslash, Depths!Read(scan, c))
        BY <2>1, <2>2, <2>3, <3>2, FollowsSilent
      <4>. QED BY <2>2, <4>1, <4>2
    <3>3. CASE ~ (pending /\ c \in {Depths!Backslash, Depths!Quote}) /\ Between(u, c)
      <4>1. c # Depths!Backslash
        BY <3>3 DEF Between, Depths!Backslash, Depths!Open, Depths!Close
      <4>2. Two(next).kept = Append(u, c) /\ Two(next).pending = FALSE
        BY <2>4, <2>5, <3>3, <4>1
      <4>3. Follows(Append(u, c), FALSE, Depths!Read(scan, c))
        BY <2>1, <2>2, <2>3, <3>3, FollowsBracket
      <4>. QED BY <2>2, <4>2, <4>3
    <3>. QED BY <3>1, <3>2, <3>3
  <2>. QED BY <1>2, <2>3, <2>4, <2>7, ScanInvAfter DEF next
<1>. QED BY <1>1, <1>2 DEF Depths!Next, Depths!Type, Letters

LEMMA ScanShows ==
  ASSUME text \in Seq(Letters), Depths!ScanInv
  PROVE  Depths!DepthNeverBelow
<1> DEFINE u == Two(text).kept
           scan == Depths!Scan(text)
           B == Depths!Balances(u)
<1>1. Follows(u, Two(text).pending, scan)
  BY ScanInvIs
<1>2. /\ scan \in ScanState /\ \A b \in B : b \in Int
  <2>1. "other" \in Letters
    BY DEF Letters, Depths!Alphabet
  <2>2. scan \in ScanState
    BY <2>1, ScanMore
  <2>3. u \in Seq(Letters)
    BY TwoTypes DEF PassState
  <2>. QED BY <2>2, <2>3, BalancesAreNumbers
<1>3. Depths!Unescaped(text) = u
  BY DEF Depths!Unescaped, Depths!Delete, One, Two
<1> DEFINE d == Depths!Depth(text)
<1>4. d = IF B = {} THEN 0 ELSE CHOOSE e \in B : \A b \in B : b <= e
  BY <1>3 DEF Depths!Depth
<1>5. scan.reach \in Nat
  BY <1>2 DEF ScanState
<1>6. B # {} => d \in B /\ \A b \in B : b <= d
  BY <1>1, <1>4 DEF Follows, HasGreatest
<1>. HIDE DEF u, B, d, scan
<1>7. scan.reach > 0 => d >= scan.reach
  BY <1>1, <1>2, <1>5, <1>6 DEF Follows, B
<1>8. scan.in = "value" /\ scan.open = 0 => d = scan.reach
  BY <1>1, <1>2, <1>4, <1>5, <1>6 DEF Follows, B
<1>. QED BY <1>7, <1>8 DEF Depths!DepthNeverBelow, d, scan

\* The depth that is computed without recursion is never below the one the parser
\* reaches, and it is exact for a text that the parser reads to its end
\* (http_bounds.py json_nesting_depth), for texts of every length.
THEOREM DepthIsEnough == PartSpec => []DepthNeverBelow
<1>. DEFINE Inv == part = "depths" => text \in Seq(Letters) /\ Depths!ScanInv
<1>1. PartInit => Inv
  BY PartsStart, ScanStarts
<1>2. Inv /\ [PartNext]_partVars => Inv'
  <2>. SUFFICES ASSUME Inv, [PartNext]_partVars, part' = "depths" PROVE Inv'
    OBVIOUS
  <2>1. part = "depths" /\ [Depths!Next]_text
    BY PartsStep
  <2>. QED BY <2>1, ScanStays
<1>3. Inv => DepthNeverBelow
  BY ScanShows DEF DepthNeverBelow
<1>. QED BY <1>1, <1>2, <1>3, PTL DEF PartSpec

=============================================================================
