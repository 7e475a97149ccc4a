------------------------------- MODULE SampleDesks -------------------------------
(***************************************************************************)
(* The standalone sample desks (services/counsel, terra, vessels, lyte and *)
(* sentra): tables in the memory of one process.  FastAPI runs a plain     *)
(* handler in a thread of its own, and no desk takes a lock; only the      *)
(* evaluation of Sentra is a coroutine without a pause in it.  The requests *)
(* are not checked for what their numbers are good for: a zero divides, a  *)
(* sum overflows, and what is not finite cannot be sent as JSON.           *)
(*                                                                         *)
(* A behaviour follows one desk.                                           *)
(***************************************************************************)
EXTENDS Integers, FiniteSets

CONSTANTS
  Threads,
  Seeds,    \* sample entries at the start
  MaxItems, \* bound on what is put in
  Limit,    \* rate_per_minute
  Window,   \* 60 seconds
  MaxClock  \* bound on the clock

DesksAssumption ==
  /\ Seeds \in Nat \ {0} /\ MaxItems \in Nat
  /\ Limit \in Nat /\ Window \in Nat \ {0} /\ MaxClock \in Nat

VARIABLES
  desk,
  table,    \* entries: id, what was put in (0: a seed), and its state; of Sentra, the
            \* listed verdicts that cannot be sent
  threads,  \* what each thread does
  items,    \* put in so far
  accepted, \* history: entries whose answers said accepted
  crossed,  \* history: ids that two threads had made at once
  now,      \* Sentra: the clock
  rate,     \* RATE of one actor: the nth call at each time
  allowed   \* history: when the actor was allowed

vars == <<desk, table, threads, items, accepted, crossed, now, rate, allowed>>

Idle == [op |-> "idle"]

\* Without its position, readable, or with numbers that a reader may not be able to
\* work with or to send.
States == {"half", "whole", "ill"}

\* What an ingestion leaves: the matters of Counsel are texts.
Ingested(d) == IF d = "counsel" THEN {"whole"} ELSE {"whole", "ill"}

Init ==
  /\ desk \in {"counsel", "terra", "vessels", "lyte", "sentra"}
  /\ table = {[id |-> i, item |-> 0, state |-> "whole"] :
                i \in IF desk = "sentra" THEN {} ELSE 1 .. Seeds}
  /\ threads = [t \in Threads |-> Idle]
  /\ items = 0 /\ accepted = {} /\ crossed = {}
  /\ now = 0 /\ rate = {} /\ allowed = {}

\* disturbed: an ingestion crossed the reading; ill: the reader came upon an ill entry,
\* and for one that failed, such an entry was in the table then.
TypeOK ==
  /\ desk \in {"counsel", "terra", "vessels", "lyte", "sentra"}
  /\ table \subseteq [id : Nat, item : Nat, state : States]
  /\ threads \in [Threads ->
       [op : {"idle", "answered"}] \cup [op : {"put"}, id : Nat, item : Nat] \cup [op : {"entered"}, id : Nat]
       \cup [op : {"reading"}, size : Nat, left : SUBSET Nat, disturbed : BOOLEAN, ill : BOOLEAN]
       \cup [op : {"failed"}, disturbed : BOOLEAN, ill : BOOLEAN]]
  /\ items \in Nat
  /\ now \in Nat
  /\ rate \subseteq [at : 0 .. now, nth : Nat]
  /\ allowed \subseteq [at : 0 .. now, nth : Nat]

Others(t) == Threads \ {t}
Resting(t) == threads[t].op \in {"idle", "answered", "failed"}

\* What an ingestion does to the readers that are on their way.
Disturb(t, op) ==
  threads' = [u \in Threads |->
    IF u = t THEN op
    ELSE IF threads[u].op = "reading" THEN [threads[u] EXCEPT !.disturbed = TRUE] ELSE threads[u]]

Put(id, item, state) ==
  table' = {e \in table : e.id # id} \cup {[id |-> id, item |-> item, state |-> state]}

\* The entry keeps its place in the table.
Become(id, state) ==
  table' = {[e EXCEPT !.state = state] : e \in {f \in table : f.id = id}} \cup {e \in table : e.id # id}

Entered(id) == \E e \in table : e.id = id

\* The ids that other threads are about to put in.
Awaited(t) == {threads[u].id : u \in {v \in Others(t) : threads[v].op = "put"}}

SentraRests == UNCHANGED <<desk, now, rate, allowed>>

-----------------------------------------------------------------------------
(* Counsel and Terra: the id is made from the number of entries *)

\* Mutant: the sample entries are counted from zero.
IdOfLast == Cardinality(table)

NextId == Cardinality(table) + 1

Make(t, id) ==
  /\ Resting(t) /\ items < MaxItems
  /\ items' = items + 1
  /\ crossed' = crossed \cup ({id} \cap Awaited(t))
  /\ threads' = [threads EXCEPT ![t] = [op |-> "put", id |-> id, item |-> items + 1]]
  /\ SentraRests /\ UNCHANGED <<table, accepted>>

MakeId(t) == desk \in {"counsel", "terra"} /\ Make(t, NextId)

Store(t) ==
  /\ threads[t].op = "put"
  /\ \E state \in Ingested(desk) : Put(threads[t].id, threads[t].item, state)
  /\ accepted' = accepted \cup {[id |-> threads[t].id, item |-> threads[t].item]}
  /\ Disturb(t, Idle)
  /\ SentraRests /\ UNCHANGED <<items, crossed>>

-----------------------------------------------------------------------------
(* Vessels: a vessel is put in, then its position, which a later one replaces *)

Enter(t, id) ==
  /\ desk = "vessels"
  /\ Resting(t) /\ items < MaxItems
  /\ items' = items + 1
  /\ IF Entered(id) THEN UNCHANGED table ELSE Put(id, items + 1, "half")
  /\ Disturb(t, [op |-> "entered", id |-> id])
  /\ SentraRests /\ UNCHANGED <<accepted, crossed>>

Place(t) ==
  /\ threads[t].op = "entered"
  /\ \E state \in Ingested(desk) : Become(threads[t].id, state)
  /\ Disturb(t, Idle)
  /\ SentraRests /\ UNCHANGED <<items, accepted, crossed>>

-----------------------------------------------------------------------------
(* Lyte: a point is appended to a stream *)

\* A stream that is missing is made by the factory of the defaultdict, a Python function,
\* and then put in with its first point, also if another thread has put one in since.
MakeStream(t, id) == desk = "lyte" /\ ~Entered(id) /\ Make(t, id)

\* An ill point may have pushed the stream's oldest out, or be pushed out itself.
AppendPoint(t, id) ==
  /\ desk = "lyte"
  /\ Resting(t) /\ items < MaxItems /\ Entered(id)
  /\ items' = items + 1
  /\ \E state \in Ingested(desk) : Become(id, state)
  /\ Disturb(t, Idle)
  /\ SentraRests /\ UNCHANGED <<accepted, crossed>>

-----------------------------------------------------------------------------
(* docket, analysis, fleet, summary: the table is read entry by entry *)

Busy == {u \in Threads : threads[u].op \in {"put", "entered"}}

Look(t) ==
  /\ desk # "sentra" /\ Resting(t)
  /\ threads' = [threads EXCEPT ![t] =
       [op |-> "reading", size |-> Cardinality(table), left |-> {e.id : e \in table},
        disturbed |-> Busy # {}, ill |-> FALSE]]
  /\ SentraRests /\ UNCHANGED <<table, items, accepted, crossed>>

\* The iterator ends on a table that has grown.
Grown(t) == Cardinality(table) # threads[t].size

Failed(t) == [op |-> "failed", disturbed |-> threads[t].disturbed, ill |-> \E e \in table : e.state = "ill"]

\* An entry without its position raises, an ill one may, and so may a stream of Lyte
\* to which a point came.
LookAt(t, id) ==
  /\ threads[t].op = "reading" /\ id \in threads[t].left
  /\ \E e \in table :
       /\ e.id = id
       /\ \/ /\ Grown(t) \/ e.state # "whole" \/ (desk = "lyte" /\ threads[t].disturbed)
             /\ threads' = [threads EXCEPT ![t] = Failed(t)]
          \/ /\ ~Grown(t) /\ e.state # "half"
             /\ threads' = [threads EXCEPT ![t].left = @ \ {id}, ![t].ill = @ \/ e.state = "ill"]
  /\ SentraRests /\ UNCHANGED <<table, items, accepted, crossed>>

\* The iterator looks at the size once more.  What is told of all entries together may
\* overflow or divide by a median of zero, and what is not finite cannot be sent.
Show(t) ==
  /\ threads[t].op = "reading" /\ threads[t].left = {}
  /\ \/ /\ Grown(t) \/ threads[t].ill
        /\ threads' = [threads EXCEPT ![t] = Failed(t)]
     \/ /\ ~Grown(t)
        /\ threads' = [threads EXCEPT ![t] = [op |-> "answered"]]
  /\ SentraRests /\ UNCHANGED <<table, items, accepted, crossed>>

-----------------------------------------------------------------------------
(* Sentra: run_gates and evaluate, without a pause *)

Recent == {h \in rate : now - h.at < Window}

\* The other gates are one: they pass or not.  A denied call counts as well.  A verdict
\* that repeats what is not finite cannot be sent, then or in a listing, until it has
\* left the listed ones.
Evaluate(t, others) ==
  LET hit == [at |-> now, nth |-> Cardinality({h \in rate : h.at = now})] IN
  /\ desk = "sentra" /\ Resting(t)
  /\ Cardinality(rate) < 2 * Limit
  /\ allowed' = IF others /\ Cardinality(Recent) < Limit THEN allowed \cup {hit} ELSE allowed
  /\ rate' = Recent \cup {hit}
  /\ \/ /\ Put(1, 0, "ill")
        /\ threads' = [threads EXCEPT ![t] = [op |-> "failed", disturbed |-> FALSE, ill |-> TRUE]]
     \/ /\ table' \in {table, {}}
        /\ threads' = [threads EXCEPT ![t] = [op |-> "answered"]]
  /\ UNCHANGED <<desk, items, accepted, crossed, now>>

\* A gate raises on a field it cannot compare, or on a body that is no object: there is
\* no verdict, and the call is not counted.
GateFails(t) ==
  /\ desk = "sentra" /\ Resting(t)
  /\ rate' \in {rate, Recent}
  /\ threads' = [threads EXCEPT ![t] = [op |-> "failed", disturbed |-> FALSE, ill |-> TRUE]]
  /\ UNCHANGED <<desk, table, items, accepted, crossed, now, allowed>>

\* The listing is copied at once.
ListVerdicts(t) ==
  /\ desk = "sentra" /\ Resting(t)
  /\ threads' = [threads EXCEPT ![t] =
       IF table = {} THEN [op |-> "answered"] ELSE [op |-> "failed", disturbed |-> FALSE, ill |-> TRUE]]
  /\ SentraRests /\ UNCHANGED <<table, items, accepted, crossed>>

Tick ==
  /\ desk = "sentra" /\ now < MaxClock
  /\ now' = now + 1
  /\ UNCHANGED <<desk, table, threads, items, accepted, crossed, rate, allowed>>

Next ==
  \/ \E t \in Threads :
       \/ MakeId(t) \/ Store(t) \/ Place(t) \/ Look(t) \/ Show(t)
       \/ \E id \in Seeds .. Seeds + 1 : Enter(t, id) \/ MakeStream(t, id) \/ AppendPoint(t, id)
       \/ \E id \in 1 .. Seeds + MaxItems : LookAt(t, id)
       \/ \E others \in BOOLEAN : Evaluate(t, others)
       \/ GateFails(t) \/ ListVerdicts(t)
  \/ Tick

Spec == Init /\ [][Next]_vars

-----------------------------------------------------------------------------
(* Properties *)

\* A matter, listing or new stream that was accepted is in the book, and a seed is never
\* replaced, unless two threads had made the same id at once.  A reader fails only if an
\* ingestion came between, or if the book holds an ill entry as it fails: one that was
\* replaced before the reader began fails no one.  And Sentra allows an actor at most
\* Limit calls in a window, those that raise left out of the count.
DesksLoseOnlyWhenCrossed ==
  /\ \A a \in accepted : a.id \in crossed \/ \E e \in table : e.id = a.id /\ e.item = a.item
  /\ desk # "sentra" => \A i \in 1 .. Seeds : \E e \in table : e.id = i /\ e.item = 0
  /\ \A t \in Threads : threads[t].op = "failed" => threads[t].disturbed \/ threads[t].ill
  /\ \A a \in allowed : Cardinality({b \in allowed : a.at - b.at \in 0 .. Window - 1}) <= Limit

\* Why.  Counsel and Terra number their entries without a gap, so that an id on its way is
\* that of the next entry, or was made twice; a stream on its way is missing, or as well.
Numbered == desk \in {"counsel", "terra"}

Pending == {threads[t].id : t \in {u \in Threads : threads[u].op = "put"}}

TableInv ==
  /\ IsFiniteSet(table)
  /\ \A e, f \in table : e.id = f.id => e = f
  /\ desk # "sentra" => \A i \in 1 .. Seeds : \E e \in table : e.id = i /\ e.item = 0
  /\ Numbered => {e.id : e \in table} = 1 .. Cardinality(table)
  /\ \A e \in table : e.state = "half" =>
       desk = "vessels" /\ \E t \in Threads : threads[t].op = "entered" /\ threads[t].id = e.id
  /\ \A a \in accepted : a.id \in crossed \/ \E e \in table : e.id = a.id /\ e.item = a.item

\* A reader that nothing disturbed sees the table as it was.
ThreadsInv ==
  /\ desk \in {"vessels", "sentra"} => Pending = {} /\ accepted = {}
  /\ desk = "sentra" => \A t \in Threads : threads[t].op # "reading"
  /\ desk # "vessels" => \A t \in Threads : threads[t].op # "entered"
  /\ \A id \in Pending : id > Seeds /\ (id \in crossed \/ ~Entered(id))
  /\ Numbered => \A id \in Pending : id <= Cardinality(table) + 1
  /\ \A t, u \in Threads :
       t # u /\ threads[t].op = "put" /\ threads[u].op = "put" /\ threads[t].id = threads[u].id
         => threads[t].id \in crossed
  /\ \A t \in Threads : threads[t].op = "reading" /\ ~threads[t].disturbed =>
       /\ ~Grown(t)
       /\ \A u \in Threads : threads[u].op # "entered"
       /\ threads[t].ill => \E e \in table : e.state = "ill"
  /\ \A t \in Threads : threads[t].op = "failed" => threads[t].disturbed \/ threads[t].ill

\* The calls that were allowed less than a window ago are still counted.
SentraInv ==
  /\ IsFiniteSet(rate)
  /\ \A h \in rate : h.nth < Cardinality({g \in rate : g.at = h.at})
  /\ \A a \in allowed : now - a.at < Window => a \in rate
  /\ \A a \in allowed : Cardinality({b \in allowed : a.at - b.at \in 0 .. Window - 1}) <= Limit

DesksInv == TypeOK /\ TableInv /\ ThreadsInv /\ SentraInv

=============================================================================
