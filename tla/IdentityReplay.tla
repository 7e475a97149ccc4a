---------------------------- MODULE IdentityReplay ----------------------------
(***************************************************************************)
(* replay_identity_lifecycle (frontier_contracts.py): designations and     *)
(* their removals are replayed per stream, that is per entity and source,  *)
(* from the beginning or from a snapshot an earlier reply returned, and    *)
(* screened.                                                               *)
(*                                                                         *)
(* The server keeps nothing: the caller sends what it has received of what *)
(* the source published, and any snapshot, whose digest shows only that it *)
(* is well formed.  Whether that is the stream's history is told by a      *)
(* history verifier, which is not part of the code.  Here the source is an *)
(* actor of its own, and what the replay says is compared with its list.   *)
(***************************************************************************)
EXTENDS Integers, FiniteSets

CONSTANTS
  Streams,       \* pairs of an entity and a source
  Designations,
  EventIds,      \* event ids, numbered in their textual order
  States,        \* source states of events: "observed" or "degraded"
  Verifier,      \* "none", "list" or "record": see Accepts
  Skew,          \* ALLOWED_FUTURE_SKEW_SECONDS
  StaleAfter,    \* IDENTITY_STALE_AFTER
  MaxTime,       \* bound on the dates and the clock
  MaxEvents      \* bound on the events published

ASSUME ReplayAssumption ==
  /\ EventIds \subseteq Nat
  /\ States \subseteq {"observed", "degraded"}
  /\ Verifier \in {"none", "list", "record"}
  /\ Skew \in Nat /\ StaleAfter \in Nat /\ MaxTime \in Nat /\ MaxEvents \in Nat

VARIABLES
  clock,      \* the server's clock
  published,  \* the events the source published
  listed,     \* the source's list: for each stream, what is designated at each time
  reply       \* the last answer, forgotten once the source or the clock moves

vars == <<clock, published, listed, reply>>

Times == 0..MaxTime

Event == [stream : Streams, id : EventIds, at : Times, kind : {"add", "remove", "change"},
          designation : Designations, state : States]

Snapshot == [asOf : Times, active : SUBSET Designations]

\* prior holds at most one snapshot of each stream.  A request is qualified if it
\* names opaque prior events, reports conflicts or does not claim completeness.
Request == [events : SUBSET Event, prior : [Streams -> SUBSET Snapshot], qualified : BOOLEAN]

Screening == {"UNAVAILABLE", "CLEAR", "REVIEW_REQUIRED"}

Reply ==
  [status : {"none", "refused"}]
  \cup [status : {"replayed"}, known : BOOLEAN, screening : Screening, complete : BOOLEAN,
        snapshots : [Streams -> SUBSET Snapshot]]

TypeOK ==
  /\ clock \in Times
  /\ published \subseteq Event
  /\ listed \in [Streams -> [Times -> SUBSET Designations]]
  /\ reply \in Reply

NoReply == [status |-> "none"]

Init ==
  /\ clock = 0
  /\ published = {}
  /\ listed = [s \in Streams |-> [t \in Times |-> {}]]
  /\ reply = NoReply

-----------------------------------------------------------------------------
(* The source *)

Listing(e, before) ==
  CASE e.kind = "add"    -> before \cup {e.designation}
    [] e.kind = "remove" -> before \ {e.designation}
    [] e.kind = "change" -> before

\* The source publishes in the order of its dates; two events may have one date,
\* and nothing in them says which came first.
Publish ==
  /\ Cardinality(published) < MaxEvents
  /\ \E e \in Event :
       /\ \A f \in published : f.stream = e.stream => f.at <= e.at /\ f.id # e.id
       /\ published' = published \cup {e}
       /\ listed' = [listed EXCEPT ![e.stream] =
                       [t \in Times |-> IF t >= e.at THEN Listing(e, @[t]) ELSE @[t]]]
  /\ reply' = NoReply
  /\ UNCHANGED clock

Tick ==
  /\ clock < MaxTime
  /\ clock' = clock + 1
  /\ reply' = NoReply
  /\ UNCHANGED <<published, listed>>

-----------------------------------------------------------------------------
(* The replay of a request *)

EventsOf(events, s) == {e \in events : e.stream = s}

\* Dates too far ahead, events not after their stream's snapshot, and copies of
\* one event that differ are refused.
Admitted(request) ==
  /\ \A e \in request.events :
       /\ e.at <= clock + Skew
       /\ \A p \in request.prior[e.stream] : p.asOf < e.at
  /\ \A s \in Streams : \A p \in request.prior[s] : p.asOf <= clock + Skew
  /\ \A e, f \in request.events : e.stream = f.stream /\ e.id = f.id => e = f

Precedes(e, f) == e.at < f.at \/ (e.at = f.at /\ e.id < f.id)

Listings(events, s, d) ==
  {e \in EventsOf(events, s) : e.kind \in {"add", "remove"} /\ e.designation = d}

Last(events) == {e \in events : \A f \in events : ~Precedes(e, f)}

\* Whether d is active after the given listings of it, replayed in order.
ActiveAfter(listings, prior, d) ==
  IF listings = {}
  THEN \E p \in prior : d \in p.active
  ELSE \E e \in Last(listings) : e.kind = "add"

ActiveIn(events, prior, s) ==
  {d \in Designations : ActiveAfter(Listings(events, s, d), prior[s], d)}

UnmatchedRemoval(request) ==
  \E e \in request.events :
    LET earlier == {f \in Listings(request.events, e.stream, e.designation) : Precedes(f, e)} IN
    /\ e.kind = "remove"
    /\ ~ActiveAfter(earlier, request.prior[e.stream], e.designation)

\* Mutant: the designations at one instant are not compared.
NeverAmbiguous(events) == FALSE

OrderingAmbiguity(events) ==
  \E e, f \in events :
    /\ e.stream = f.stream /\ e.designation = f.designation /\ e.at = f.at
    /\ e.kind = "add" /\ f.kind = "remove"

Replayed(request) ==
  {s \in Streams : EventsOf(request.events, s) # {} \/ request.prior[s] # {}}

Since(s, prior) == {e \in EventsOf(published, s) : \A p \in prior : p.asOf < e.at}

\* The verifier of one stream is given its events and its snapshot.  "list"
\* compares the events with what the source published since the snapshot and the
\* snapshot with what the source lists at that date; "record" has the published
\* events only, and compares the snapshot with a replay of them.
Accepts(s, events, prior) ==
  /\ Verifier # "none"
  /\ events = Since(s, prior)
  /\ \A p \in prior :
       CASE Verifier = "list"   -> p.active = listed[s][p.asOf]
         [] Verifier = "record" ->
              p.active = ActiveIn(published \ Since(s, prior), [t \in Streams |-> {}], s)

\* Mutant: one verified stream vouches for the others.
SomeVerified(request) ==
  \E s \in Replayed(request) : Accepts(s, EventsOf(request.events, s), request.prior[s])

Verified(request) ==
  /\ Replayed(request) # {}
  /\ \A s \in Replayed(request) : Accepts(s, EventsOf(request.events, s), request.prior[s])

Observed(events) == {e \in events : e.state = "observed"}

Stale(events) ==
  \/ Observed(events) # events
  \/ \E e \in events : clock - e.at > StaleAfter

\* There is no reason for an unknown state.
Known(request) ==
  /\ ~request.qualified
  /\ Verified(request)
  /\ Observed(request.events) = request.events
  /\ ~UnmatchedRemoval(request)
  /\ ~OrderingAmbiguity(request.events)

Complete(request) ==
  /\ ~request.qualified
  /\ Verified(request)
  /\ Observed(request.events) = request.events

Active(request, s) == ActiveIn(request.events, request.prior, s)

Screen(request) ==
  IF Observed(request.events) = {} THEN "UNAVAILABLE"
  ELSE IF /\ Known(request)
          /\ \A s \in Replayed(request) : Active(request, s) = {}
          /\ ~Stale(request.events)
       THEN "CLEAR"
       ELSE "REVIEW_REQUIRED"

Dates(request, s) ==
  {e.at : e \in EventsOf(request.events, s)} \cup {p.asOf : p \in request.prior[s]}

\* The state of each replayed stream at its latest date, for a later replay.
NextSnapshot(request, s) ==
  {[asOf |-> t, active |-> Active(request, s)] :
     t \in {u \in Dates(request, s) : \A v \in Dates(request, s) : v <= u}}

Answer(request) ==
  [status |-> "replayed",
   known |-> Known(request),
   screening |-> Screen(request),
   complete |-> Complete(request),
   snapshots |-> [s \in Streams |-> NextSnapshot(request, s)]]

-----------------------------------------------------------------------------

\* What a caller may send: some of what was published, one event of it altered,
\* and any snapshot of each stream.
Altered == {[e EXCEPT !.kind = "change"] : e \in published}

AtMostOne(set) == {{}} \cup {{x} : x \in set}

Replay ==
  \E events \in SUBSET published, altered \in AtMostOne(Altered),
     prior \in [Streams -> AtMostOne(Snapshot)], qualified \in BOOLEAN :
    LET request == [events |-> events \cup altered, prior |-> prior, qualified |-> qualified] IN
    /\ reply' = IF Admitted(request) THEN Answer(request) ELSE [status |-> "refused"]
    /\ UNCHANGED <<clock, published, listed>>

Next == Publish \/ Tick \/ Replay

Spec == Init /\ [][Next]_vars

-----------------------------------------------------------------------------
(* Properties *)

Answered == reply.status = "replayed"

Covered == {s \in Streams : Answered /\ reply.snapshots[s] # {}}

\* With a verifier that knows the source's list, a state that is called known is
\* the source's own, at the date of the snapshot returned for each stream and,
\* since no later event is missing, at every later date: whatever was lost,
\* altered, dated alike or continued from which snapshot.
KnownIsListed ==
  Answered /\ reply.known =>
    \A s \in Streams : \A p \in reply.snapshots[s], t \in Times :
      t >= p.asOf => p.active = listed[s][t]

\* A definitive clear is never given for a stream in which the source still
\* lists a designation (docs/FRONTIER_EVIDENCE_CONTRACTS.md: a CLEAR state only
\* for a complete, verified, observed chain with no active designation).
ClearIsListedClear ==
  Answered /\ reply.screening = "CLEAR" =>
    /\ reply.complete
    /\ Covered # {}
    /\ \A s \in Covered, t \in Times : t >= clock + Skew => listed[s][t] = {}

\* What a replay says for certain, known or CLEAR, is so in the source's own list.
ScreensAreSound == KnownIsListed /\ ClearIsListedClear

\* An add and a removal of one designation at one instant keep its state unknown,
\* in the replay of both and in what is continued from there
\* (docs/FRONTIER_EVIDENCE_CONTRACTS.md).
AmbiguityStaysUnknown ==
  Answered /\ reply.known => \A s \in Covered : ~OrderingAmbiguity(EventsOf(published, s))

\* Why, with the source's list at hand: the list at a time is decided by the listings of
\* the latest date before it unless they disagree; it only changes with a listing; and
\* what is published has a last event, whatever is left out of it.
ListingsUntil(s, d, t) == {e \in Listings(published, s, d) : e.at <= t}

Decides(e, listings) ==
  \A f \in listings : f.at <= e.at /\ (f.at = e.at => f.kind = e.kind)

SourceInv ==
  /\ \A s \in Streams, d \in Designations, t \in Times :
       /\ ListingsUntil(s, d, t) = {} => d \notin listed[s][t]
       /\ \A e \in ListingsUntil(s, d, t) :
            Decides(e, ListingsUntil(s, d, t)) => (d \in listed[s][t] <=> e.kind = "add")
       /\ \A u \in 0..t :
            ListingsUntil(s, d, t) = ListingsUntil(s, d, u) =>
              (d \in listed[s][t] <=> d \in listed[s][u])
  /\ \A events \in SUBSET published : events # {} => Last(events) # {}

=============================================================================
