----------------------------- MODULE EnginesProofs -----------------------------
(***************************************************************************)
(* Theorems about the engines that Engines puts side by side, and about    *)
(* the identity replay, for every value of their constants: the guard of   *)
(* the tests, the finance service, Counsel.  EngineTablesProofs has the    *)
(* rate windows, the sample desks and the series.                          *)
(*                                                                         *)
(* Each engine has an inductive invariant that its own module states next  *)
(* to the property it carries (SourceInv, MattersInv, EntriesInv,          *)
(* DocumentInv, TeethInv); here are its steps, one lemma to an action, and *)
(* the theorems of the whole.  What the code finds with a loop (the latest *)
(* event, the first bad entry) is a least element of a set of numbers,     *)
(* which exists because those are well-founded: no proof needs induction   *)
(* over the data.                                                          *)
(***************************************************************************)
EXTENDS Engines, IdentityReplay, FiniteSetTheorems, SequenceTheorems, WellFoundedInduction, TLAPS

-----------------------------------------------------------------------------
(* IdentityReplay: the source's list *)

LEMMA EventTypes ==
  ASSUME NEW e \in Event
  PROVE  /\ e.stream \in Streams /\ e.id \in Nat /\ e.at \in Times /\ e.at \in Nat /\ e.at <= MaxTime
         /\ e.kind \in {"add", "remove", "change"} /\ e.designation \in Designations
<1>1. /\ e.stream \in Streams /\ e.id \in EventIds /\ e.at \in Times
      /\ e.kind \in {"add", "remove", "change"} /\ e.designation \in Designations
  BY DEF Event
<1>2. MaxTime \in Nat /\ EventIds \subseteq Nat
  BY ReplayAssumption
<1>3. e.at \in Nat /\ e.at <= MaxTime
  BY <1>1, <1>2 DEF Times
<1>. QED BY <1>1, <1>2, <1>3

LEMMA SourceInvStarts == Init => SourceInv
<1>. SUFFICES ASSUME Init PROVE SourceInv
  OBVIOUS
<1>1. published = {} /\ listed = [s \in Streams |-> [t \in Times |-> {}]]
  BY DEF Init
<1>2. ASSUME NEW s \in Streams, NEW d \in Designations, NEW t
      PROVE  ListingsUntil(s, d, t) = {}
  BY <1>1 DEF ListingsUntil, Listings, EventsOf
<1>3. \A t \in Times : \A u \in 0..t : u \in Times
  BY ReplayAssumption DEF Times
<1>. QED BY <1>1, <1>2, <1>3 DEF SourceInv

\* One more event, not before the others of its stream.
Publishes(e) ==
  /\ \A f \in published : f.stream = e.stream => f.at <= e.at /\ f.id # e.id
  /\ published' = published \cup {e}
  /\ listed' = [listed EXCEPT ![e.stream] =
                  [t \in Times |-> IF t >= e.at THEN Listing(e, @[t]) ELSE @[t]]]

LEMMA LastStays ==
  ASSUME TypeOK, NEW e \in Event, published' = published \cup {e},
         \A events \in SUBSET published : events # {} => Last(events) # {}
  PROVE  \A events \in SUBSET published' : events # {} => Last(events) # {}
<1>. SUFFICES ASSUME NEW events \in SUBSET (published \cup {e}), events # {}
              PROVE  Last(events) # {}
  OBVIOUS
<1>1. \A f \in published \cup {e} : f.at \in Nat /\ f.id \in Nat
  BY EventTypes DEF TypeOK
<1>2. CASE e \notin events
  BY <1>2
<1>3. CASE e \in events /\ events \ {e} = {}
  <2>1. ~ Precedes(e, e)
    BY <1>1 DEF Precedes
  <2>. QED BY <1>3, <2>1 DEF Last
<1>4. CASE e \in events /\ events \ {e} # {}
  <2>1. PICK m \in events \ {e} : \A f \in events \ {e} : ~ Precedes(m, f)
    BY <1>4 DEF Last
  <2>2. CASE ~ Precedes(m, e)
    BY <2>1, <2>2 DEF Last
  <2>3. CASE Precedes(m, e)
    <3>1. ASSUME NEW f \in events PROVE ~ Precedes(e, f)
      <4>1. /\ e.at \in Nat /\ e.id \in Nat /\ f.at \in Nat /\ f.id \in Nat
            /\ m.at \in Nat /\ m.id \in Nat
        BY <1>1
      <4>2. f = e \/ ~ Precedes(m, f)
        BY <2>1
      <4>. QED BY <2>3, <4>1, <4>2 DEF Precedes
    <3>. QED BY <1>4, <3>1 DEF Last
  <2>. QED BY <2>2, <2>3
<1>. QED BY <1>2, <1>3, <1>4

LEMMA ListStays ==
  ASSUME TypeOK, SourceInv, NEW e \in Event, Publishes(e),
         NEW s \in Streams, NEW d \in Designations, NEW t \in Times
  PROVE  /\ ListingsUntil(s, d, t)' = {} => d \notin listed'[s][t]
         /\ \A g \in ListingsUntil(s, d, t)' :
              Decides(g, ListingsUntil(s, d, t)') => (d \in listed'[s][t] <=> g.kind = "add")
         /\ \A u \in 0..t :
              ListingsUntil(s, d, t)' = ListingsUntil(s, d, u)' =>
                (d \in listed'[s][t] <=> d \in listed'[s][u])
<1>. DEFINE L(u) == ListingsUntil(s, d, u)
            New == e.stream = s /\ e.designation = d /\ e.kind \in {"add", "remove"}
<1>1. /\ e.at \in Nat /\ t \in Nat /\ e.kind \in {"add", "remove", "change"}
      /\ e.stream \in Streams
      /\ \A f \in published : f.at \in Nat
  BY EventTypes, ReplayAssumption DEF TypeOK, Times
<1>2. \A u \in 0..t : u \in Times /\ u \in Nat /\ u <= t
  BY <1>1, ReplayAssumption DEF Times
<1>3. t \in 0..t
  BY <1>1
<1>4. ASSUME NEW u \in 0..t
      PROVE  L(u)' = IF New /\ u >= e.at THEN L(u) \cup {e} ELSE L(u)
  BY <1>1, <1>2 DEF Publishes, ListingsUntil, Listings, EventsOf
<1>5. ASSUME NEW u \in 0..t
      PROVE  d \in listed'[s][u] <=> IF New /\ u >= e.at THEN e.kind = "add" ELSE d \in listed[s][u]
  <2>1. u \in Times
    BY <1>2
  <2>2. listed'[s][u] = IF e.stream = s /\ u >= e.at THEN Listing(e, listed[s][u]) ELSE listed[s][u]
    BY <2>1 DEF Publishes, TypeOK
  <2>. QED BY <1>1, <2>2 DEF Listing
<1>6. \A u \in Times :
        /\ L(u) = {} => d \notin listed[s][u]
        /\ \A g \in L(u) : Decides(g, L(u)) => (d \in listed[s][u] <=> g.kind = "add")
        /\ \A v \in 0..u : L(u) = L(v) => (d \in listed[s][u] <=> d \in listed[s][v])
  BY DEF SourceInv
<1>7. CASE ~ (New /\ t >= e.at)
  <2>1. \A u \in 0..t : ~ (New /\ u >= e.at)
    BY <1>1, <1>2, <1>7
  <2>2. \A u \in 0..t : L(u)' = L(u) /\ (d \in listed'[s][u] <=> d \in listed[s][u])
    BY <1>4, <1>5, <2>1
  <2>. HIDE DEF L
  <2>3. /\ L(t)' = {} => d \notin listed'[s][t]
        /\ \A g \in L(t)' : Decides(g, L(t)') => (d \in listed'[s][t] <=> g.kind = "add")
        /\ \A u \in 0..t : L(t)' = L(u)' => (d \in listed'[s][t] <=> d \in listed'[s][u])
    BY <1>3, <1>6, <2>2
  <2>. QED BY <2>3 DEF L
<1>8. CASE New /\ t >= e.at
  <2>1. L(t)' = L(t) \cup {e} /\ (d \in listed'[s][t] <=> e.kind = "add")
    BY <1>3, <1>4, <1>5, <1>8
  <2>2. \A f \in L(t) : f \in published /\ f.stream = s
    BY DEF ListingsUntil, Listings, EventsOf
  <2>3. ASSUME NEW g \in L(t)', Decides(g, L(t)')
        PROVE  g.kind = e.kind
    <3>1. e \in L(t)' /\ e.at <= g.at /\ (e.at = g.at => e.kind = g.kind)
      BY <2>1, <2>3 DEF Decides
    <3>2. g = e \/ g.at <= e.at
      BY <1>8, <2>1, <2>2 DEF Publishes
    <3>3. g.at \in Nat
      BY <1>1, <2>1, <2>2
    <3>. QED BY <1>1, <3>1, <3>2, <3>3
  <2>4. ASSUME NEW u \in 0..t, L(t)' = L(u)'
        PROVE  d \in listed'[s][u] <=> e.kind = "add"
    <3>1. e \in L(u)'
      BY <2>1, <2>4
    <3>2. CASE u >= e.at
      BY <1>5, <1>8, <3>2
    <3>3. CASE ~ (u >= e.at)
      <4>1. e \in L(u)
        BY <1>4, <3>1, <3>3
      <4>. QED BY <1>1, <1>2, <3>3, <4>1 DEF ListingsUntil
    <3>. QED BY <3>2, <3>3
  <2>. QED BY <2>1, <2>3, <2>4
<1>. QED BY <1>7, <1>8

LEMMA SourceInvStays ==
  ASSUME TypeOK, SourceInv, [Next]_vars
  PROVE  SourceInv'
<1>1. CASE Publish
  <2>1. PICK e \in Event : Publishes(e)
    BY <1>1 DEF Publish, Publishes
  <2>2. \A events \in SUBSET published' : events # {} => Last(events) # {}
    BY <2>1, LastStays DEF SourceInv, Publishes
  <2>3. \A s \in Streams, d \in Designations, t \in Times :
         /\ ListingsUntil(s, d, t)' = {} => d \notin listed'[s][t]
         /\ \A g \in ListingsUntil(s, d, t)' :
              Decides(g, ListingsUntil(s, d, t)') => (d \in listed'[s][t] <=> g.kind = "add")
         /\ \A u \in 0..t :
              ListingsUntil(s, d, t)' = ListingsUntil(s, d, u)' =>
                (d \in listed'[s][t] <=> d \in listed'[s][u])
    BY <2>1, ListStays
  <2>. QED BY <2>2, <2>3 DEF SourceInv, Last, Precedes, Decides
<1>2. CASE UNCHANGED <<published, listed>>
  BY <1>2 DEF SourceInv, ListingsUntil, Listings, EventsOf, Decides, Last, Precedes
<1>. QED BY <1>1, <1>2 DEF Next, Tick, Replay, vars

-----------------------------------------------------------------------------
(* IdentityReplay: the replay *)

\* What the caller may have sent, replayed or refused.
Requested(request) ==
  /\ request \in Request
  /\ Admitted(request)

LEMMA RequestType ==
  ASSUME TypeOK, NEW events \in SUBSET published, NEW altered \in AtMostOne(Altered),
         NEW prior \in [Streams -> AtMostOne(Snapshot)], NEW qualified \in BOOLEAN
  PROVE  /\ [events |-> events \cup altered, prior |-> prior, qualified |-> qualified] \in Request
         /\ \A s \in Streams : \A p, q \in prior[s] : p = q
<1>1. altered \subseteq Event
  <2>1. ASSUME NEW e \in published PROVE [e EXCEPT !.kind = "change"] \in Event
    <3>1. e \in Event
      BY DEF TypeOK
    <3>. QED BY <3>1 DEF Event
  <2>. QED BY <2>1 DEF AtMostOne, Altered
<1>2. events \cup altered \subseteq Event
  BY <1>1 DEF TypeOK
<1>3. \A s \in Streams : prior[s] \in AtMostOne(Snapshot)
  OBVIOUS
<1>4. prior \in [Streams -> SUBSET Snapshot]
  BY <1>3 DEF AtMostOne
<1>. QED BY <1>2, <1>3, <1>4 DEF Request, AtMostOne

\* Every nonempty set of times has a latest.
LEMMA LatestTime ==
  ASSUME NEW S \in SUBSET Times, S # {}
  PROVE  \E m \in S : \A n \in S : n <= m
<1>. DEFINE Back == {MaxTime - n : n \in S}
<1>1. MaxTime \in Nat /\ \A n \in S : n \in Nat /\ n <= MaxTime
  BY ReplayAssumption DEF Times
<1>2. Back \in SUBSET Nat /\ Back # {}
  BY <1>1
<1>3. PICK least \in Back : \A n \in Back : ~ (<<n, least>> \in OpToRel(<, Nat))
  BY <1>2, WFMin, NatLessThanWellFounded
<1>4. \A n \in Back : <<n, least>> \in OpToRel(<, Nat) <=> n < least
  BY <1>2 DEF OpToRel
<1>5. PICK m \in S : least = MaxTime - m
  OBVIOUS
<1>6. ASSUME NEW n \in S PROVE n <= m
  <2>1. ~ (MaxTime - n < least)
    BY <1>3, <1>4, Zenon
  <2>. QED BY <1>1, <1>5, <2>1
<1>. QED BY <1>6

LEMMA DatesType ==
  ASSUME NEW request \in Request, NEW s \in Streams
  PROVE  /\ Dates(request, s) \subseteq Times
         /\ Dates(request, s) # {} <=> s \in Replayed(request)
         /\ Dates(request, s) # {} => NextSnapshot(request, s) # {}
         /\ NextSnapshot(request, s) \subseteq Snapshot
<1>1. request.events \subseteq Event /\ request.prior[s] \subseteq Snapshot
  BY DEF Request
<1>2. \A e \in EventsOf(request.events, s) : e.at \in Times
  BY <1>1, EventTypes DEF EventsOf
<1>3. \A p \in request.prior[s] : p.asOf \in Times
  BY <1>1 DEF Snapshot
<1>4. Dates(request, s) \subseteq Times
  BY <1>2, <1>3 DEF Dates
<1>5. Dates(request, s) # {} <=> s \in Replayed(request)
  BY DEF Dates, Replayed
<1>6. Active(request, s) \subseteq Designations
  BY DEF Active, ActiveIn
<1>7. NextSnapshot(request, s) \subseteq Snapshot
  BY <1>4, <1>6 DEF NextSnapshot, Snapshot
<1>8. ASSUME Dates(request, s) # {} PROVE NextSnapshot(request, s) # {}
  BY <1>4, <1>8, LatestTime DEF NextSnapshot
<1>. QED BY <1>4, <1>5, <1>7, <1>8

\* Whether a designation is active after the events since a snapshot of the list is
\* whether the source lists it, from the latest date on.
LEMMA KnownDesignation ==
  ASSUME TypeOK, SourceInv, Verifier # "record",
         NEW request \in Request, Known(request),
         NEW s \in Replayed(request), \A p, q \in request.prior[s] : p = q,
         NEW d \in Designations,
         NEW t \in Times, \A u \in Dates(request, s) : u <= t
  PROVE  d \in Active(request, s) <=> d \in listed[s][t]
<1>. DEFINE prior == request.prior[s]
            R == Listings(request.events, s, d)
            L == ListingsUntil(s, d, t)
<1>1. /\ EventsOf(request.events, s) = Since(s, prior)
      /\ \A p \in prior : p.active = listed[s][p.asOf]
  BY ReplayAssumption DEF Known, Verified, Accepts
<1>2. s \in Streams
  BY DEF Replayed
<1>3. R = {e \in Listings(published, s, d) : \A p \in prior : p.asOf < e.at}
  BY <1>1 DEF Listings, Since, EventsOf
<1>4. \A e \in published : e.at \in Nat /\ e.id \in Nat
  BY EventTypes DEF TypeOK
<1>5. t \in Nat /\ \A p \in prior : p.asOf \in Times /\ p.asOf \in Nat /\ p.asOf <= t
  <2>1. \A p \in prior : p.asOf \in Times
    BY <1>2 DEF Request, Snapshot
  <2>2. \A p \in prior : p.asOf \in Dates(request, s)
    BY DEF Dates
  <2>. QED BY <2>1, <2>2, ReplayAssumption DEF Times
<1>6. \A e \in R : e.at \in Dates(request, s) /\ e.at <= t
  BY DEF Listings, Dates
<1>7. /\ L = {} => d \notin listed[s][t]
      /\ \A e \in L : Decides(e, L) => (d \in listed[s][t] <=> e.kind = "add")
      /\ \A u \in 0..t : L = ListingsUntil(s, d, u) => (d \in listed[s][t] <=> d \in listed[s][u])
  BY <1>2 DEF SourceInv
<1>8. d \in Active(request, s) <=> ActiveAfter(R, prior, d)
  BY DEF Active, ActiveIn
<1>9. CASE R = {} /\ prior = {}
  <2>1. L = {}
    BY <1>3, <1>9 DEF ListingsUntil
  <2>. QED BY <1>7, <1>8, <1>9, <2>1 DEF ActiveAfter
<1>10. CASE R = {} /\ prior # {}
  <2>1. PICK p \in prior : prior = {p}
    BY <1>10
  <2>2. d \in Active(request, s) <=> d \in listed[s][p.asOf]
    BY <1>1, <1>8, <1>10, <2>1 DEF ActiveAfter
  <2>3. L = ListingsUntil(s, d, p.asOf)
    <3>1. ASSUME NEW e \in Listings(published, s, d)
          PROVE  e.at <= t <=> e.at <= p.asOf
      <4>1. ~ (p.asOf < e.at)
        BY <1>3, <1>10, <2>1
      <4>2. e.at \in Nat
        BY <1>4 DEF Listings, EventsOf
      <4>. QED BY <1>5, <4>1, <4>2
    <3>. QED BY <3>1 DEF ListingsUntil
  <2>4. p.asOf \in 0..t
    BY <1>5
  <2>. QED BY <1>7, <2>2, <2>3, <2>4
<1>11. CASE R # {}
  <2>1. R \in SUBSET published
    BY <1>3 DEF Listings, EventsOf
  <2>2. Last(R) # {}
    BY <1>11, <2>1 DEF SourceInv
  <2>3. ASSUME NEW e \in Last(R)
        PROVE  d \in listed[s][t] <=> e.kind = "add"
    <3>1. e \in R /\ \A f \in R : ~ Precedes(e, f)
      BY DEF Last
    <3>2. e \in L
      BY <1>3, <1>6, <3>1 DEF ListingsUntil
    <3>3. ASSUME NEW f \in L PROVE f.at <= e.at /\ (f.at = e.at => f.kind = e.kind)
      <4>1. f \in published /\ f.at \in Nat /\ e.at \in Nat
        BY <1>4, <2>1, <3>1 DEF ListingsUntil, Listings, EventsOf
      <4>2. CASE f \in R
        <5>1. f.at <= e.at
          BY <3>1, <4>1, <4>2 DEF Precedes
        <5>2. /\ e \in request.events /\ f \in request.events
              /\ e.stream = f.stream /\ e.designation = f.designation
              /\ e.kind \in {"add", "remove"} /\ f.kind \in {"add", "remove"}
          BY <3>1, <4>2 DEF Listings, EventsOf
        <5>3. f.at = e.at => f.kind = e.kind
          BY <5>2 DEF Known, OrderingAmbiguity
        <5>. QED BY <5>1, <5>3
      <4>3. CASE f \notin R
        <5>1. f \in Listings(published, s, d)
          BY DEF ListingsUntil
        <5>2. PICK p \in prior : ~ (p.asOf < f.at)
          BY <1>3, <4>3, <5>1
        <5>3. p.asOf < e.at
          BY <1>3, <3>1
        <5>. QED BY <1>5, <4>1, <5>2, <5>3
      <4>. QED BY <4>2, <4>3
    <3>. QED BY <1>7, <3>2, <3>3 DEF Decides
  <2>4. ActiveAfter(R, prior, d) <=> \E e \in Last(R) : e.kind = "add"
    BY <1>11 DEF ActiveAfter
  <2>. QED BY <1>8, <2>2, <2>3, <2>4
<1>. QED BY <1>9, <1>10, <1>11

LEMMA KnownStream ==
  ASSUME TypeOK, SourceInv, Verifier # "record",
         NEW request \in Request, \A r \in Streams : \A p, q \in request.prior[r] : p = q,
         Known(request), NEW s \in Streams,
         NEW p \in NextSnapshot(request, s), NEW t \in Times, t >= p.asOf
  PROVE  p.active = listed[s][t]
<1>1. /\ p.asOf \in Dates(request, s) /\ \A v \in Dates(request, s) : v <= p.asOf
      /\ p.active = Active(request, s)
  BY DEF NextSnapshot
<1>2. s \in Replayed(request) /\ Dates(request, s) \subseteq Times
  BY <1>1, DatesType
<1>3. \A u \in Times : u \in Nat
  BY ReplayAssumption DEF Times
<1>4. \A v \in Dates(request, s) : v <= t
  BY <1>1, <1>2, <1>3
<1>5. \A d \in Designations : d \in Active(request, s) <=> d \in listed[s][t]
  BY <1>2, <1>4, KnownDesignation
<1>6. Active(request, s) \subseteq Designations /\ listed[s][t] \subseteq Designations
  BY DEF Active, ActiveIn, TypeOK
<1>. QED BY <1>1, <1>5, <1>6

LEMMA ReplayIsSound ==
  ASSUME TypeOK, SourceInv, Verifier # "record", Replay
  PROVE  ScreensAreSound'
<1>1. PICK request :
        /\ request \in Request
        /\ \A s \in Streams : \A p, q \in request.prior[s] : p = q
        /\ reply' = IF Admitted(request) THEN Answer(request) ELSE [status |-> "refused"]
        /\ UNCHANGED <<clock, published, listed>>
  BY SMTT(30), RequestType DEF Replay
<1>2. CASE ~ Admitted(request)
  <2>1. reply'.status = "refused"
    BY <1>1, <1>2
  <2>. QED BY <2>1 DEF ScreensAreSound, KnownIsListed, ClearIsListedClear, Answered
<1>3. CASE Admitted(request)
  <2>1. /\ reply'.known = Known(request) /\ reply'.screening = Screen(request)
        /\ reply'.complete = Complete(request)
        /\ \A s \in Streams : reply'.snapshots[s] = NextSnapshot(request, s)
    BY <1>1, <1>3 DEF Answer
  <2>2. ASSUME Known(request), NEW s \in Streams, NEW p \in NextSnapshot(request, s),
               NEW t \in Times, t >= p.asOf
        PROVE  p.active = listed[s][t]
    BY <1>1, <2>2, KnownStream
  <2>3. KnownIsListed'
    BY <1>1, <2>1, <2>2 DEF KnownIsListed
  <2>4. ASSUME Screen(request) = "CLEAR"
        PROVE  /\ Complete(request)
               /\ \E s \in Streams : NextSnapshot(request, s) # {}
               /\ \A s \in Streams : NextSnapshot(request, s) # {} =>
                    \A t \in Times : t >= clock + Skew => listed[s][t] = {}
    <3>1. Known(request) /\ \A s \in Replayed(request) : Active(request, s) = {}
      BY <2>4 DEF Screen
    <3>2. Complete(request) /\ Replayed(request) # {} /\ Replayed(request) \subseteq Streams
      BY <3>1 DEF Known, Complete, Verified, Replayed
    <3>3. \E s \in Streams : NextSnapshot(request, s) # {}
      BY <1>1, <3>2, DatesType
    <3>4. ASSUME NEW s \in Streams, NEW p \in NextSnapshot(request, s),
                 NEW t \in Times, t >= clock + Skew
          PROVE  listed[s][t] = {}
      <4>1. p.asOf \in Dates(request, s) /\ p.active = Active(request, s)
        BY DEF NextSnapshot
      <4>2. s \in Replayed(request) /\ p.asOf \in Times
        BY <1>1, <4>1, DatesType
      <4>3. p.asOf <= clock + Skew
        BY <1>3, <4>1 DEF Admitted, Dates, EventsOf
      <4>4. t >= p.asOf
        BY <3>4, <4>2, <4>3, ReplayAssumption DEF Times, TypeOK
      <4>. QED BY <2>2, <3>1, <4>1, <4>2, <4>4
    <3>. QED BY <3>2, <3>3, <3>4
  <2>5. ClearIsListedClear'
    BY <1>1, <2>1, <2>4 DEF ClearIsListedClear, Covered, Answered, Answer
  <2>. QED BY <2>3, <2>5 DEF ScreensAreSound
<1>. QED BY <1>2, <1>3

LEMMA TypeStays ==
  ASSUME TypeOK, [Next]_vars
  PROVE  TypeOK'
<1>1. CASE Publish
  <2>1. PICK e \in Event : Publishes(e)
    BY <1>1 DEF Publish, Publishes
  <2>2. published' \subseteq Event /\ reply' \in Reply /\ clock' \in Times
    BY <1>1, <2>1 DEF Publish, Publishes, TypeOK, NoReply, Reply
  <2>3. ASSUME NEW before \in SUBSET Designations
        PROVE  Listing(e, before) \in SUBSET Designations
    BY EventTypes DEF Listing
  <2>4. listed' \in [Streams -> [Times -> SUBSET Designations]]
    BY <2>1, <2>3 DEF Publishes, TypeOK
  <2>. QED BY <2>2, <2>4 DEF TypeOK
<1>2. CASE Tick
  BY <1>2, ReplayAssumption DEF Tick, TypeOK, Times, NoReply, Reply
<1>3. CASE Replay
  <2>1. PICK request :
          /\ request \in Request
          /\ reply' = IF Admitted(request) THEN Answer(request) ELSE [status |-> "refused"]
          /\ UNCHANGED <<clock, published, listed>>
    BY <1>3, RequestType DEF Replay
  <2>2. Answer(request) \in Reply
    <3>1. Screen(request) \in Screening
      BY DEF Screen, Screening
    <3>2. Known(request) \in BOOLEAN /\ Complete(request) \in BOOLEAN
      BY DEF Known, Complete
    <3>3. [s \in Streams |-> NextSnapshot(request, s)] \in [Streams -> SUBSET Snapshot]
      BY <2>1, DatesType
    <3>. QED BY <3>1, <3>2, <3>3 DEF Answer, Reply
  <2>. QED BY <2>1, <2>2 DEF TypeOK, Reply
<1>4. CASE UNCHANGED vars
  BY <1>4 DEF vars, TypeOK
<1>. QED BY <1>1, <1>2, <1>3, <1>4 DEF Next

\* Whoever verifies the history by the source's own list, or no one: what a replay says
\* for certain is so in the source's list, for any streams, dates, losses and snapshots
\* (frontier_contracts.py replay_identity_lifecycle).  With a verifier that has the
\* events only it is not so.
THEOREM RepliesAreSound ==
  ASSUME Verifier # "record"
  PROVE  Spec => []ScreensAreSound
<1>. DEFINE Inv == TypeOK /\ SourceInv /\ ScreensAreSound
<1>1. Init => Inv
  <2>. SUFFICES ASSUME Init PROVE Inv
    OBVIOUS
  <2>1. TypeOK
    BY ReplayAssumption DEF Init, TypeOK, Times, NoReply, Reply
  <2>2. ScreensAreSound
    BY DEF Init, NoReply, ScreensAreSound, KnownIsListed, ClearIsListedClear, Answered
  <2>. QED BY <2>1, <2>2, SourceInvStarts
<1>2. Inv /\ [Next]_vars => Inv'
  <2>. SUFFICES ASSUME Inv, [Next]_vars PROVE Inv'
    OBVIOUS
  <2>1. CASE Publish \/ Tick
    <3>1. reply' = NoReply
      BY <2>1 DEF Publish, Tick
    <3>2. ScreensAreSound'
      BY <3>1 DEF NoReply, ScreensAreSound, KnownIsListed, ClearIsListedClear, Answered
    <3>. QED BY <3>2, TypeStays, SourceInvStays
  <2>2. CASE Replay
    BY <2>2, TypeStays, SourceInvStays, ReplayIsSound
  <2>3. CASE UNCHANGED vars
    <3>1. ScreensAreSound'
      BY <2>3 DEF vars, ScreensAreSound, KnownIsListed, ClearIsListedClear, Answered, Covered
    <3>. QED BY <3>1, TypeStays, SourceInvStays
  <2>. QED BY <2>1, <2>2, <2>3 DEF Next
<1>. QED BY <1>1, <1>2, PTL DEF Spec

-----------------------------------------------------------------------------
(* Engines: one behaviour at a time *)

LEMMA EnginesStart ==
  ASSUME EnginesInit
  PROVE  /\ Counsel!Init /\ Finance!Init
         /\ engine = "runtime" => Runtime!Init
         /\ engine = "teeth" => Teeth!Init
BY DEF EnginesInit

LEMMA EnginesStep ==
  ASSUME [EnginesNext]_engineVars
  PROVE  /\ [Counsel!Next]_counselVars /\ [Finance!Next]_financeVars
         /\ UNCHANGED engine
         /\ engine = "runtime" => [Runtime!Next]_runtimeVars
         /\ engine = "teeth" => [Teeth!Next]_teethVars
BY DEF EnginesNext, engineVars, receiptVars, otherVars, SentraStep, CounselStep, FinanceStep,
  RuntimeStep, SeriesStep, DeskStep, TeethStep

-----------------------------------------------------------------------------
(* GuardTeeth *)

LEMMA TeethStarts ==
  ASSUME Teeth!Init
  PROVE  Teeth!TeethInv
<1>1. /\ tree = [f \in Teeth!Files |-> FALSE] /\ undone = FALSE /\ disk.low = FALSE
      /\ jobs = [j \in Teeth!Jobs |-> Teeth!Idle] /\ verdict = "RUNNING"
      /\ options \in [selected : (SUBSET TeethGuards) \ {{}}, copied : {Teeth!Tracked, Teeth!Files},
                      probes : BOOLEAN, sound : BOOLEAN]
  BY DEF Teeth!Init
<1>2. DOMAIN Teeth!Idle.copy = {}
  BY DEF Teeth!Idle
<1>3. Teeth!Idle \in Teeth!Job
  <2>1. Teeth!Idle.copy \in [{} -> BOOLEAN]
    BY DEF Teeth!Idle
  <2>. QED BY <2>1 DEF Teeth!Idle, Teeth!Job
<1>4. Teeth!TeethTypes
  BY <1>1, <1>3 DEF Teeth!TeethTypes
<1>5. \A j \in Teeth!Jobs : jobs[j] = Teeth!Idle
  BY <1>1
<1>6. Teeth!Baseline \in Teeth!Jobs /\ TeethGuards \subseteq Teeth!Jobs
  BY DEF Teeth!Jobs
<1>7. {} # options.copied
  BY <1>1 DEF Teeth!Tracked, Teeth!Files
<1>8. Teeth!TeethAreReal
  BY <1>1 DEF Teeth!TeethAreReal
<1>9. Teeth!Idle.step = "waiting" /\ Teeth!Idle.status = "none"
  BY DEF Teeth!Idle
<1>. QED BY <1>1, <1>2, <1>4, <1>5, <1>6, <1>7, <1>8, <1>9 DEF Teeth!TeethInv

CopyIsPristine(copy) == \A f \in DOMAIN copy : ~copy[f]

\* What a job may become while the verdict is open.
MayBecome(j, job) ==
  /\ job \in Teeth!Job
  /\ \A f \in DOMAIN job.copy \cap Teeth!Tracked : job.copy[f] => undone \/ tree[f]
  /\ job.step \in {"waiting", "copying"} =>
       DOMAIN job.copy \in {{}, {"code"}, Teeth!Tracked} \ {options.copied}
  /\ j = Teeth!Baseline =>
       (job.status = "GREEN" => job.step = "done" /\ (CopyIsPristine(job.copy) => options.sound))
  /\ j # Teeth!Baseline =>
       /\ jobs[Teeth!Baseline].status = "GREEN" /\ j \in options.selected
       /\ job.step = "testing" => job.nature \in Teeth!Possible
       /\ job.status = "KILLED" =>
            /\ job.step = "done"
            /\ CopyIsPristine(job.copy) /\ options.sound /\ ~ job.hit =>
                 job.nature \in {"caught", "unimportable"} \cap Teeth!Possible
       /\ job.status = "SURVIVED" =>
            /\ job.step = "done"
            /\ CopyIsPristine(job.copy) /\ options.sound => job.nature = "missed"

LEMMA GoesStays ==
  ASSUME Teeth!TeethInv, NEW j \in Teeth!Jobs, NEW job, Teeth!Goes(j, job),
         jobs[j].step # "done", verdict = "RUNNING", MayBecome(j, job)
  PROVE  Teeth!TeethInv'
<1>. DEFINE B == Teeth!Baseline
<1>1. /\ jobs' = [jobs EXCEPT ![j] = job] /\ jobs \in [Teeth!Jobs -> Teeth!Job]
      /\ UNCHANGED <<tree, undone, disk, options, verdict>>
  BY DEF Teeth!Goes, Teeth!TeethInv, Teeth!TeethTypes
<1>2. B \in Teeth!Jobs /\ B \notin TeethGuards /\ TeethGuards \subseteq Teeth!Jobs
      /\ (j # B => j \in TeethGuards)
  BY EnginesAssumption DEF Teeth!Jobs, Teeth!TeethAssumption
<1>3. jobs'[j] = job /\ \A k \in Teeth!Jobs : k # j => jobs'[k] = jobs[k]
  BY <1>1
<1>4. Teeth!TeethTypes'
  BY <1>1 DEF Teeth!TeethTypes, Teeth!TeethInv, MayBecome, Teeth!Job
<1>5. ASSUME NEW k \in Teeth!Jobs
      PROVE  /\ \A f \in DOMAIN jobs'[k].copy \cap Teeth!Tracked : jobs'[k].copy[f] => undone' \/ tree'[f]
             /\ jobs'[k].step \in {"waiting", "copying"} =>
                  DOMAIN jobs'[k].copy \in {{}, {"code"}, Teeth!Tracked} \ {options'.copied}
  BY <1>1, <1>3 DEF Teeth!TeethInv, MayBecome
<1>6. ASSUME jobs'[B].status = "GREEN"
      PROVE  jobs'[B].step = "done" /\ (CopyIsPristine(jobs'[B].copy) => options'.sound)
  <2>1. CASE j = B
    BY <1>1, <1>3, <1>6, <2>1 DEF MayBecome
  <2>2. CASE j # B
    <3>1. jobs'[B] = jobs[B]
      BY <1>2, <1>3, <2>2
    <3>. QED BY <1>1, <1>6, <3>1 DEF Teeth!TeethInv, Teeth!Finished, Teeth!Pristine, CopyIsPristine
  <2>. QED BY <2>1, <2>2
<1>7. ASSUME NEW g \in TeethGuards
      PROVE  /\ jobs'[g].step # "waiting" => jobs'[B].status = "GREEN" /\ g \in options'.selected
             /\ jobs'[g].step = "testing" => jobs'[g].nature \in Teeth!Possible'
             /\ jobs'[g].status = "KILLED" =>
                  /\ jobs'[g].step = "done"
                  /\ CopyIsPristine(jobs'[g].copy) /\ options'.sound /\ ~ jobs'[g].hit =>
                       jobs'[g].nature \in {"caught", "unimportable"} \cap Teeth!Possible'
             /\ jobs'[g].status = "SURVIVED" =>
                  /\ jobs'[g].step = "done"
                  /\ CopyIsPristine(jobs'[g].copy) /\ options'.sound => jobs'[g].nature \in {"missed"}
  <2>1. Teeth!Possible' = Teeth!Possible
    BY <1>1 DEF Teeth!Possible
  <2>2. CASE g = j
    <3>1. j # B /\ jobs'[B] = jobs[B] /\ jobs'[g] = job
      BY <1>2, <1>3, <2>2
    <3>. QED BY <1>1, <2>1, <2>2, <3>1 DEF MayBecome
  <2>3. CASE g # j
    <3>1. jobs'[g] = jobs[g]
      BY <1>2, <1>3, <2>3
    <3>2. jobs[g].step # "waiting" => jobs[B].status = "GREEN" /\ g \in options.selected
      BY DEF Teeth!TeethInv
    <3>3. jobs[B].status = "GREEN" => j # B
      BY DEF Teeth!TeethInv, Teeth!Finished
    <3>4. j # B => jobs'[B] = jobs[B]
      BY <1>2, <1>3
    <3>. QED BY <1>1, <2>1, <3>1, <3>2, <3>3, <3>4
         DEF Teeth!TeethInv, Teeth!Finished, Teeth!Shows, Teeth!Pristine, CopyIsPristine
  <2>. QED BY <2>2, <2>3
<1>8. Teeth!TeethAreReal'
  BY <1>1 DEF Teeth!TeethAreReal
<1>. QED BY <1>1, <1>4, <1>5, <1>6, <1>7, <1>8
     DEF Teeth!TeethInv, Teeth!Finished, Teeth!Shows, Teeth!Pristine, CopyIsPristine

LEMMA JobTypes ==
  ASSUME Teeth!TeethInv, NEW j \in Teeth!Jobs
  PROVE  /\ jobs[j] \in Teeth!Job
         /\ j # Teeth!Baseline => j \in TeethGuards
         /\ DOMAIN jobs[j].copy \subseteq Teeth!Files
         /\ jobs[j].copy \in [DOMAIN jobs[j].copy -> BOOLEAN]
         /\ verdict # "RUNNING" => jobs[j].step \in {"waiting", "done"}
         /\ jobs[j].step \notin {"waiting", "done"} /\ j # Teeth!Baseline =>
              jobs[Teeth!Baseline].status = "GREEN" /\ j \in options.selected
<1>1. jobs[j] \in Teeth!Job
  BY DEF Teeth!TeethInv, Teeth!TeethTypes
<1>2. j # Teeth!Baseline => j \in TeethGuards
  BY DEF Teeth!Jobs
<1>. QED BY <1>1, <1>2 DEF Teeth!Job, Teeth!TeethInv

\* A job that ends with no result is idle but for its status.
LEMMA EndsStays ==
  ASSUME Teeth!TeethInv, NEW j \in Teeth!Jobs, NEW status, Teeth!Ends(j, status),
         jobs[j].step # "done", verdict = "RUNNING",
         status \in {"ERROR", "TIMEOUT", "NO_TESTS", "ENVIRONMENT_FAULT", "MANIFEST_STALE",
                     "MUTANT_INVALID", "UNPROVEN_ERROR", "BASELINE_RED"},
         j # Teeth!Baseline => jobs[Teeth!Baseline].status = "GREEN" /\ j \in options.selected
  PROVE  Teeth!TeethInv'
<1>. DEFINE job == [Teeth!Idle EXCEPT !.step = "done", !.status = status,
                                      !.hit = @ /\ status = "KILLED"]
<1>1. Teeth!Goes(j, job)
  BY DEF Teeth!Ends
<1>2. job.step = "done" /\ job.status = status /\ DOMAIN job.copy = {} /\ job \in Teeth!Job
  <2>1. Teeth!Idle.copy \in [{} -> BOOLEAN]
    BY DEF Teeth!Idle
  <2>. QED BY <2>1 DEF Teeth!Idle, Teeth!Job
<1>. HIDE DEF job
<1>3. MayBecome(j, job)
  BY <1>2 DEF MayBecome
<1>. QED BY <1>1, <1>3, GoesStays

LEMMA StartStays ==
  ASSUME Teeth!TeethInv, NEW j \in Teeth!Jobs, Teeth!Start(j)
  PROVE  Teeth!TeethInv'
<1>1. /\ verdict = "RUNNING" /\ jobs[j].step = "waiting"
      /\ j # Teeth!Baseline => j \in options.selected /\ jobs[Teeth!Baseline].status = "GREEN"
  BY DEF Teeth!Start
<1>2. CASE Teeth!Ends(j, "ENVIRONMENT_FAULT")
  BY <1>1, <1>2, EndsStays
<1>3. CASE Teeth!Goes(j, [jobs[j] EXCEPT !.step = "copying"])
  <2>. DEFINE job == [jobs[j] EXCEPT !.step = "copying"]
  <2>1. /\ jobs[j] \in Teeth!Job /\ job \in Teeth!Job /\ job.step = "copying" /\ job.copy = jobs[j].copy
        /\ job.status = jobs[j].status
    BY JobTypes DEF Teeth!Job
  <2>2. IF j = Teeth!Baseline THEN jobs[j].status # "GREEN" ELSE jobs[j].status \notin {"KILLED", "SURVIVED"}
    BY <1>1, <2>1, JobTypes DEF Teeth!TeethInv, Teeth!Finished
  <2>. HIDE DEF job
  <2>3. MayBecome(j, job)
    BY <1>1, <2>1, <2>2 DEF MayBecome, Teeth!TeethInv
  <2>. QED BY <1>1, <1>3, <2>3, GoesStays DEF job
<1>. QED BY <1>2, <1>3 DEF Teeth!Start

\* The next file of a copy is the first that is missing.
LEMMA NextFile ==
  ASSUME NEW j, DOMAIN jobs[j].copy \in {{}, {"code"}, Teeth!Tracked}
  PROVE  Teeth!NextFile(j) = IF DOMAIN jobs[j].copy = {} THEN "code"
                             ELSE IF DOMAIN jobs[j].copy = {"code"} THEN "test" ELSE "scratch"
<1>. DEFINE done == DOMAIN jobs[j].copy
<1>1. Teeth!Place("code") = 1 /\ Teeth!Place("test") = 2 /\ Teeth!Place("scratch") = 3
  BY DEF Teeth!Place
<1>2. Teeth!Files = {"code", "test", "scratch"} /\ Teeth!Tracked = {"code", "test"}
  BY DEF Teeth!Files, Teeth!Tracked
<1>3. \A f \in Teeth!Files \ done :
        (\A g \in Teeth!Files \ done : Teeth!Place(f) <= Teeth!Place(g)) =>
          f = IF done = {} THEN "code" ELSE IF done = {"code"} THEN "test" ELSE "scratch"
  BY <1>1, <1>2
<1>4. \E f \in Teeth!Files \ done : \A g \in Teeth!Files \ done : Teeth!Place(f) <= Teeth!Place(g)
  <2>1. CASE done = {}
    BY <1>1, <1>2, <2>1
  <2>2. CASE done = {"code"}
    <3>1. Teeth!Files \ done = {"test", "scratch"}
      BY <1>2, <2>2
    <3>. QED BY <1>1, <3>1
  <2>3. CASE done = Teeth!Tracked
    <3>1. Teeth!Files \ done = {"scratch"}
      BY <1>2, <2>3
    <3>. QED BY <1>1, <3>1
  <2>. QED BY <2>1, <2>2, <2>3
<1>. QED BY <1>3, <1>4 DEF Teeth!NextFile, Teeth!Missing

LEMMA CopyFileStays ==
  ASSUME Teeth!TeethInv, NEW j \in Teeth!Jobs, Teeth!CopyFile(j)
  PROVE  Teeth!TeethInv'
<1>. DEFINE done == DOMAIN jobs[j].copy
            f == IF done = {} THEN "code" ELSE IF done = {"code"} THEN "test" ELSE "scratch"
            copy == [g \in done \cup {f} |-> IF g = f THEN tree[f] ELSE jobs[j].copy[g]]
            job == [jobs[j] EXCEPT
                      !.copy = copy,
                      !.step = IF DOMAIN copy # options.copied THEN @
                               ELSE IF j = Teeth!Baseline THEN "testing" ELSE "mutating",
                      !.hit = j = Teeth!Baseline /\ disk.low]
<1>1. jobs[j].step = "copying" /\ verdict = "RUNNING"
  BY JobTypes DEF Teeth!CopyFile
<1>2. done \in {{}, {"code"}, Teeth!Tracked} \ {options.copied}
  BY <1>1 DEF Teeth!TeethInv
<1>3. Teeth!Goes(j, job)
  <2>1. Teeth!NextFile(j) = f
    BY <1>2, NextFile
  <2>2. Teeth!Copied(j, Teeth!NextFile(j)) = copy
    BY <2>1 DEF Teeth!Copied
  <2>. QED BY <2>2 DEF Teeth!CopyFile
<1>4. /\ options.copied \in {Teeth!Tracked, Teeth!Files} /\ tree \in [Teeth!Files -> BOOLEAN]
      /\ disk.low \in BOOLEAN
  BY DEF Teeth!TeethInv, Teeth!TeethTypes
<1>5. f \in Teeth!Files /\ done \cup {f} \subseteq Teeth!Files
  BY <1>2 DEF Teeth!Files, Teeth!Tracked
<1>6. /\ DOMAIN copy = done \cup {f} /\ copy \in [done \cup {f} -> BOOLEAN]
      /\ \A g \in done : g # f => copy[g] = jobs[j].copy[g]
      /\ copy[f] = tree[f]
  BY <1>4, <1>5, JobTypes
<1>7. done \cup {f} # options.copied => done \cup {f} \in {{}, {"code"}, Teeth!Tracked} \ {options.copied}
  BY <1>2, <1>4 DEF Teeth!Files, Teeth!Tracked
<1>. HIDE DEF f, done, copy
<1>8. /\ job.copy = copy /\ job.status = jobs[j].status /\ job.nature = jobs[j].nature
      /\ job.step \in {"copying", "testing", "mutating"}
      /\ job.step = "copying" => done \cup {f} # options.copied
      /\ job.step = "testing" => j = Teeth!Baseline
      /\ job \in Teeth!Job
  <2>1. jobs[j] \in Teeth!Job
    BY JobTypes
  <2>2. copy \in UNION {[files -> BOOLEAN] : files \in SUBSET Teeth!Files}
    BY <1>5, <1>6
  <2>. QED BY <1>1, <1>4, <1>6, <2>1, <2>2 DEF Teeth!Job
<1>. HIDE DEF job
<1>9. \A g \in DOMAIN job.copy \cap Teeth!Tracked : job.copy[g] => undone \/ tree[g]
  <2>1. \A g \in done \cap Teeth!Tracked : jobs[j].copy[g] => undone \/ tree[g]
    BY DEF Teeth!TeethInv, done
  <2>. QED BY <1>6, <1>8, <2>1
<1>10. IF j = Teeth!Baseline THEN jobs[j].status # "GREEN" ELSE jobs[j].status \notin {"KILLED", "SURVIVED"}
  BY <1>1, JobTypes DEF Teeth!TeethInv, Teeth!Finished
<1>11. MayBecome(j, job)
  BY <1>1, <1>6, <1>7, <1>8, <1>9, <1>10, JobTypes DEF MayBecome
<1>. QED BY <1>1, <1>3, <1>11, GoesStays

LEMMA MutateStays ==
  ASSUME Teeth!TeethInv, NEW g \in TeethGuards, Teeth!Mutate(g)
  PROVE  Teeth!TeethInv'
<1>1. jobs[g].step = "mutating" /\ g \in Teeth!Jobs
  BY DEF Teeth!Mutate, Teeth!Jobs
<1>2. g # Teeth!Baseline
  BY EnginesAssumption DEF Teeth!TeethAssumption
<1>3. /\ verdict = "RUNNING" /\ jobs[g] \in Teeth!Job
      /\ jobs[Teeth!Baseline].status = "GREEN" /\ g \in options.selected
  BY <1>1, <1>2, JobTypes
<1>4. CASE \E status \in {"MANIFEST_STALE", "MUTANT_INVALID"} : Teeth!Ends(g, status)
  BY <1>1, <1>3, <1>4, EndsStays
<1>5. ASSUME NEW nature \in Teeth!Possible,
             Teeth!Goes(g, [jobs[g] EXCEPT !.step = "testing", !.hit = disk.low, !.nature = nature])
      PROVE  Teeth!TeethInv'
  <2>. DEFINE job == [jobs[g] EXCEPT !.step = "testing", !.hit = disk.low, !.nature = nature]
  <2>1. nature \in Teeth!Natures /\ disk.low \in BOOLEAN
    BY DEF Teeth!Possible, Teeth!TeethInv, Teeth!TeethTypes
  <2>2. /\ job.step = "testing" /\ job.copy = jobs[g].copy /\ job.status = jobs[g].status
        /\ job.nature = nature /\ job \in Teeth!Job
    BY <1>3, <2>1 DEF Teeth!Job
  <2>. HIDE DEF job
  <2>3. jobs[g].status \notin {"KILLED", "SURVIVED"}
    BY <1>1 DEF Teeth!TeethInv, Teeth!Finished
  <2>4. MayBecome(g, job)
    BY <1>1, <1>2, <1>3, <2>2, <2>3 DEF MayBecome, Teeth!TeethInv
  <2>. QED BY <1>1, <1>3, <1>5, <2>4, GoesStays DEF job
<1>. QED BY <1>4, <1>5 DEF Teeth!Mutate, Teeth!Possible

LEMMA FaultStays ==
  ASSUME Teeth!TeethInv, NEW j \in Teeth!Jobs, Teeth!HarnessFault(j)
  PROVE  Teeth!TeethInv'
<1>1. jobs[j].step \in {"copying", "mutating"} /\ Teeth!Ends(j, "ERROR")
  BY DEF Teeth!HarnessFault
<1>. QED BY <1>1, JobTypes, EndsStays

LEMMA TestStays ==
  ASSUME Teeth!TeethInv, NEW g \in TeethGuards, Teeth!Test(g)
  PROVE  Teeth!TeethInv'
<1>1. jobs[g].step = "testing" /\ g \in Teeth!Jobs /\ g # Teeth!Baseline
  BY DEF Teeth!Test, Teeth!Jobs
<1>2. /\ verdict = "RUNNING" /\ jobs[g] \in Teeth!Job
      /\ jobs[Teeth!Baseline].status = "GREEN" /\ g \in options.selected
      /\ jobs[g].nature \in Teeth!Possible
      /\ disk.low \in BOOLEAN /\ options.sound \in BOOLEAN
  BY <1>1, JobTypes DEF Teeth!TeethInv, Teeth!TeethTypes
<1>3. PICK result \in Teeth!Outcomes(g) :
        Teeth!Ends(g, Teeth!Attributed(Teeth!Classify(result), disk.low))
  BY DEF Teeth!Test
<1>. DEFINE status == Teeth!Attributed(Teeth!Classify(result), disk.low)
<1>4. /\ status \in {"ERROR", "TIMEOUT", "NO_TESTS", "ENVIRONMENT_FAULT", "MUTANT_INVALID",
                     "UNPROVEN_ERROR", "KILLED", "SURVIVED"}
      /\ status = "SURVIVED" => ~ result.timedOut /\ result.exit = 0
      /\ status = "KILLED" => /\ ~ result.timedOut /\ result.exit = 1 /\ ~ result.told
                              /\ "FAILED" \in result.nodes /\ ~ disk.low
  BY DEF Teeth!Attributed, Teeth!Classify
<1>5. ASSUME Teeth!Pristine(g), options.sound
      PROVE  /\ status = "KILLED" =>
                  jobs[g].hit \/ jobs[g].nature \in {"caught", "unimportable"}
             /\ status = "SURVIVED" => jobs[g].nature = "missed"
  <2>1. result \in Teeth!Reports(jobs[g].nature) \/ (jobs[g].hit /\ result \in Teeth!Hit)
    BY <1>1, <1>3, <1>5 DEF Teeth!Outcomes
  <2>2. result \in Teeth!Hit => result.exit = 1
    BY DEF Teeth!Hit, Teeth!Failed, Teeth!Result
  <2>3. jobs[g].nature \in Teeth!Natures
    BY <1>2 DEF Teeth!Possible
  <2>4. ASSUME result \in Teeth!Reports(jobs[g].nature)
        PROVE  /\ ~ result.timedOut /\ result.exit = 0 => jobs[g].nature = "missed"
               /\ result.exit = 1 /\ "FAILED" \in result.nodes => jobs[g].nature \in {"caught", "unimportable"}
    BY <2>3, <2>4 DEF Teeth!Reports, Teeth!Natures, Teeth!Failed, Teeth!Passed, Teeth!TimedOut, Teeth!Result
  <2>. QED BY <1>4, <2>1, <2>2, <2>4
<1>6. CASE status \in {"KILLED", "SURVIVED"}
  <2>. DEFINE job == [jobs[g] EXCEPT !.step = "done", !.status = status,
                                     !.hit = @ /\ status = "KILLED"]
  <2>1. Teeth!Goes(g, job)
    BY <1>3, <1>6 DEF Teeth!Ends
  <2>2. /\ job.step = "done" /\ job.status = status /\ job.copy = jobs[g].copy
        /\ job.nature = jobs[g].nature /\ (status = "KILLED" => job.hit = jobs[g].hit)
        /\ job \in Teeth!Job
    BY <1>2, <1>6 DEF Teeth!Job
  <2>. HIDE DEF job, status
  <2>3. CopyIsPristine(job.copy) => Teeth!Pristine(g)
    BY <2>2 DEF CopyIsPristine, Teeth!Pristine
  <2>4. MayBecome(g, job)
    BY <1>1, <1>2, <1>5, <2>2, <2>3 DEF MayBecome, Teeth!TeethInv
  <2>. QED BY <1>1, <1>2, <2>1, <2>4, GoesStays
<1>7. CASE status \notin {"KILLED", "SURVIVED"}
  <2>. HIDE DEF status
  <2>1. Teeth!Ends(g, status)
    BY <1>3 DEF status
  <2>. QED BY <1>1, <1>2, <1>4, <1>7, <2>1, EndsStays
<1>. QED BY <1>6, <1>7

\* A baseline that passed was of an edited tree, or the tests pass on the tree.
LEMMA TestBaselineStays ==
  ASSUME Teeth!TeethInv, Teeth!TestBaseline
  PROVE  Teeth!TeethInv'
<1>. DEFINE B == Teeth!Baseline
<1>1. jobs[B].step = "testing" /\ B \in Teeth!Jobs
  BY DEF Teeth!TestBaseline, Teeth!Jobs
<1>2. /\ verdict = "RUNNING" /\ jobs[B] \in Teeth!Job
      /\ disk.low \in BOOLEAN /\ options.sound \in BOOLEAN
  BY <1>1, JobTypes DEF Teeth!TeethInv, Teeth!TeethTypes
<1>3. PICK result \in Teeth!Outcomes(B) :
        Teeth!Ends(B, IF result = Teeth!Passed THEN "GREEN" ELSE "BASELINE_RED")
  BY DEF Teeth!TestBaseline
<1>4. CASE result # Teeth!Passed
  <2>1. Teeth!Ends(B, "BASELINE_RED")
    BY <1>3, <1>4
  <2>. QED BY <1>1, <1>2, <2>1, EndsStays
<1>5. CASE result = Teeth!Passed
  <2>. DEFINE job == [jobs[B] EXCEPT !.step = "done", !.status = "GREEN",
                                     !.hit = @ /\ "GREEN" = "KILLED"]
  <2>1. Teeth!Goes(B, job)
    BY <1>3, <1>5 DEF Teeth!Ends
  <2>2. job.step = "done" /\ job.copy = jobs[B].copy /\ job \in Teeth!Job
    BY <1>2 DEF Teeth!Job
  <2>3. Teeth!Pristine(B) => options.sound
    <3>1. Teeth!Passed.exit = 0 /\ Teeth!Failed.exit = 1
      BY DEF Teeth!Passed, Teeth!Failed, Teeth!Result
    <3>2. ASSUME NEW hit \in Teeth!Hit PROVE hit.exit = 1
      <4>1. PICK r \in {Teeth!Failed, Teeth!Result(1, {"setup"})}, told \in BOOLEAN :
              hit = [r EXCEPT !.told = told]
        BY <3>2 DEF Teeth!Hit
      <4>2. CASE r = Teeth!Failed
        BY <4>1, <4>2 DEF Teeth!Failed, Teeth!Result
      <4>3. CASE r = Teeth!Result(1, {"setup"})
        BY <4>1, <4>3 DEF Teeth!Result
      <4>. QED BY <4>1, <4>2, <4>3
    <3>3. Teeth!Passed \notin Teeth!Hit /\ Teeth!Passed # Teeth!Failed
      BY <3>1, <3>2
    <3>. QED BY <1>5, <3>3 DEF Teeth!Outcomes
  <2>. HIDE DEF job
  <2>4. CopyIsPristine(job.copy) => Teeth!Pristine(B)
    BY <2>2 DEF CopyIsPristine, Teeth!Pristine
  <2>5. MayBecome(B, job)
    BY <1>1, <1>2, <2>2, <2>3, <2>4 DEF MayBecome, Teeth!TeethInv
  <2>. QED BY <1>1, <1>2, <2>1, <2>5, GoesStays
<1>. QED BY <1>4, <1>5

\* When the hashes agree at the end, what was copied was the tree unless an edit was
\* taken back.
LEMMA DecideStays ==
  ASSUME Teeth!TeethInv, Teeth!Decide
  PROVE  Teeth!TeethInv'
<1>. DEFINE B == Teeth!Baseline
<1>1. verdict = "RUNNING" /\ UNCHANGED <<tree, edits, undone, disk, options, jobs>>
  BY DEF Teeth!Decide
<1>2. /\ B \in Teeth!Jobs /\ TeethGuards \subseteq Teeth!Jobs
      /\ options.selected \subseteq TeethGuards /\ options.selected # {}
  BY DEF Teeth!Jobs, Teeth!TeethInv, Teeth!TeethTypes
<1>3. CASE Teeth!Finished(B) /\ jobs[B].status # "GREEN" /\ verdict' = jobs[B].status
  <2>1. \A g \in TeethGuards : jobs[g].step = "waiting"
    BY <1>3 DEF Teeth!TeethInv
  <2>2. \A j \in Teeth!Jobs : jobs[j].step \in {"waiting", "done"}
    BY <1>3, <2>1 DEF Teeth!Jobs, Teeth!Finished
  <2>3. jobs[B] \in Teeth!Job
    BY <1>2, JobTypes
  <2>4. verdict' \notin {"ALL_GUARDS_KILLED", "SELECTED_GUARDS_KILLED", "SURVIVORS_FOUND"}
    BY <1>3, <2>3 DEF Teeth!Job
  <2>. QED BY <1>1, <2>2, <2>4 DEF Teeth!TeethInv, Teeth!TeethTypes, Teeth!Finished, Teeth!Pristine,
         Teeth!Shows, Teeth!Possible, Teeth!TeethAreReal
<1>4. CASE /\ \A g \in options.selected : Teeth!Finished(g)
           /\ verdict' = IF ~ Teeth!Untouched THEN "HARNESS_ERROR_WORKTREE_CHANGED"
                         ELSE IF Teeth!Statuses = {"KILLED"}
                         THEN IF options.selected = TeethGuards THEN "ALL_GUARDS_KILLED"
                              ELSE "SELECTED_GUARDS_KILLED"
                         ELSE IF "SURVIVED" \in Teeth!Statuses THEN "SURVIVORS_FOUND"
                         ELSE "MANIFEST_OR_HARNESS_PROBLEM"
  <2>1. PICK h \in options.selected : jobs[h].step = "done"
    BY <1>2, <1>4 DEF Teeth!Finished
  <2>2. jobs[B].status = "GREEN" /\ jobs[B].step = "done"
    BY <1>2, <2>1 DEF Teeth!TeethInv, Teeth!Finished
  <2>3. \A j \in Teeth!Jobs : jobs[j].step \in {"waiting", "done"}
    <3>1. ASSUME NEW g \in TeethGuards PROVE jobs[g].step \in {"waiting", "done"}
      BY <1>4 DEF Teeth!TeethInv, Teeth!Finished
    <3>. QED BY <2>2, <3>1 DEF Teeth!Jobs
  <2>4. ASSUME Teeth!Untouched, NEW j \in Teeth!Jobs, ~ Teeth!Unseen(j)
        PROVE  Teeth!Pristine(j)
    <3>1. \A f \in Teeth!Tracked : ~ tree[f]
      BY <2>4 DEF Teeth!Untouched
    <3>2. ~ undone /\ ~ jobs[j].hit /\ \A f \in DOMAIN jobs[j].copy \ Teeth!Tracked : ~ jobs[j].copy[f]
      BY <2>4 DEF Teeth!Unseen
    <3>3. \A f \in DOMAIN jobs[j].copy \cap Teeth!Tracked : ~ jobs[j].copy[f]
      BY <3>1, <3>2 DEF Teeth!TeethInv
    <3>. QED BY <3>2, <3>3 DEF Teeth!Pristine
  <2>5. Teeth!Pristine(B) => options.sound
    BY <2>2 DEF Teeth!TeethInv
  <2>6. ASSUME Teeth!Untouched, NEW g \in options.selected, jobs[g].status = "KILLED"
        PROVE  \/ Teeth!Unseen(g) \/ Teeth!Unseen(B)
               \/ /\ Teeth!Pristine(g) /\ options.sound
                  /\ jobs[g].nature \in IF options.probes THEN {"caught"} ELSE {"caught", "unimportable"}
    <3>1. g \in TeethGuards /\ g \in Teeth!Jobs
      BY <1>2
    <3>2. jobs[g].hit \/ Teeth!Shows(g, {"caught", "unimportable"} \cap Teeth!Possible)
      BY <2>6, <3>1 DEF Teeth!TeethInv
    <3>3. jobs[g].hit => Teeth!Unseen(g)
      BY DEF Teeth!Unseen
    <3>. QED BY <1>2, <2>4, <2>5, <2>6, <3>1, <3>2, <3>3 DEF Teeth!Shows, Teeth!Possible
  <2>7. ASSUME Teeth!Untouched, NEW g \in options.selected, jobs[g].status = "SURVIVED"
        PROVE  \/ Teeth!Unseen(g) \/ Teeth!Unseen(B)
               \/ Teeth!Pristine(g) /\ options.sound /\ jobs[g].nature \in {"missed"}
    <3>1. g \in TeethGuards /\ g \in Teeth!Jobs
      BY <1>2
    <3>2. Teeth!Shows(g, {"missed"})
      BY <2>7, <3>1 DEF Teeth!TeethInv
    <3>. QED BY <1>2, <2>4, <2>5, <2>7, <3>1, <3>2 DEF Teeth!Shows
  <2>8. verdict' \in {"ALL_GUARDS_KILLED", "SELECTED_GUARDS_KILLED"} =>
          Teeth!Untouched /\ \A g \in options.selected : jobs[g].status = "KILLED"
    BY <1>4 DEF Teeth!Statuses
  <2>9. verdict' = "ALL_GUARDS_KILLED" => options.selected = TeethGuards
    BY <1>4
  <2>10. verdict' = "SURVIVORS_FOUND" =>
           Teeth!Untouched /\ \E g \in options.selected : jobs[g].status = "SURVIVED"
    BY <1>4 DEF Teeth!Statuses
  <2>11. Teeth!TeethAreReal'
    BY <1>1, <2>6, <2>7, <2>8, <2>9, <2>10 DEF Teeth!TeethAreReal, Teeth!Unseen, Teeth!Pristine
  <2>. QED BY <1>1, <2>3, <2>11 DEF Teeth!TeethInv, Teeth!TeethTypes, Teeth!Finished, Teeth!Pristine,
         Teeth!Shows, Teeth!Possible
<1>. QED BY <1>3, <1>4 DEF Teeth!Decide

LEMMA TeethStays ==
  ASSUME Teeth!TeethInv, [Teeth!Next]_teethVars
  PROVE  Teeth!TeethInv'
<1>1. ASSUME NEW f \in Teeth!Files, Teeth!Edit(f)
      PROVE  Teeth!TeethInv'
  <2>1. /\ verdict = "RUNNING" /\ tree' = [tree EXCEPT ![f] = TRUE]
        /\ UNCHANGED <<undone, disk, options, jobs, verdict>>
    BY <1>1 DEF Teeth!Edit
  <2>2. \A g \in Teeth!Files : tree[g] => tree'[g]
    BY <2>1 DEF Teeth!TeethInv, Teeth!TeethTypes
  <2>3. Teeth!Tracked \subseteq Teeth!Files
    BY DEF Teeth!Tracked, Teeth!Files
  <2>4. tree' \in [Teeth!Files -> BOOLEAN]
    BY <2>1 DEF Teeth!TeethInv, Teeth!TeethTypes
  <2>. QED BY <2>1, <2>2, <2>3, <2>4 DEF Teeth!TeethInv, Teeth!TeethTypes, Teeth!Finished, Teeth!Pristine,
         Teeth!Shows, Teeth!Possible, Teeth!TeethAreReal
<1>2. ASSUME NEW f \in Teeth!Files, Teeth!Undo(f)
      PROVE  Teeth!TeethInv'
  <2>1. /\ verdict = "RUNNING" /\ tree' = [tree EXCEPT ![f] = FALSE] /\ undone' = TRUE
        /\ UNCHANGED <<disk, options, jobs, verdict>>
    BY <1>2 DEF Teeth!Undo
  <2>2. tree' \in [Teeth!Files -> BOOLEAN]
    BY <2>1 DEF Teeth!TeethInv, Teeth!TeethTypes
  <2>. QED BY <2>1, <2>2 DEF Teeth!TeethInv, Teeth!TeethTypes, Teeth!Finished, Teeth!Pristine,
         Teeth!Shows, Teeth!Possible, Teeth!TeethAreReal
<1>3. CASE Teeth!Fill
  <2>1. /\ verdict = "RUNNING" /\ disk'.low = TRUE
        /\ jobs' = [j \in Teeth!Jobs |-> [jobs[j] EXCEPT !.hit = @ \/ jobs[j].step = "testing"]]
        /\ UNCHANGED <<tree, undone, options, verdict>>
    BY <1>3 DEF Teeth!Fill
  <2>2. ASSUME NEW j \in Teeth!Jobs
        PROVE  /\ jobs'[j] \in Teeth!Job
               /\ jobs'[j].step = jobs[j].step /\ jobs'[j].copy = jobs[j].copy
               /\ jobs'[j].nature = jobs[j].nature /\ jobs'[j].status = jobs[j].status
               /\ jobs[j].hit => jobs'[j].hit
    <3>1. jobs[j] \in Teeth!Job
      BY JobTypes
    <3>. QED BY <2>1, <3>1 DEF Teeth!Job
  <2>3. jobs' \in [Teeth!Jobs -> Teeth!Job]
    BY <2>1, <2>2
  <2>4. Teeth!TeethTypes'
    BY <2>1, <2>3 DEF Teeth!TeethTypes, Teeth!TeethInv
  <2>5. Teeth!Baseline \in Teeth!Jobs /\ TeethGuards \subseteq Teeth!Jobs
    BY DEF Teeth!Jobs
  <2>6. Teeth!TeethAreReal'
    BY <2>1 DEF Teeth!TeethAreReal
  <2>7. Teeth!Possible' = Teeth!Possible
    BY <2>1 DEF Teeth!Possible
  <2>8. ASSUME NEW j \in Teeth!Jobs
        PROVE  /\ \A f \in DOMAIN jobs'[j].copy \cap Teeth!Tracked : jobs'[j].copy[f] => undone' \/ tree'[f]
               /\ jobs'[j].step \in {"waiting", "copying"} =>
                    DOMAIN jobs'[j].copy \in {{}, {"code"}, Teeth!Tracked} \ {options'.copied}
    BY <2>1, <2>2 DEF Teeth!TeethInv
  <2>9. Teeth!Pristine(Teeth!Baseline)' = Teeth!Pristine(Teeth!Baseline)
    BY <2>2, <2>5 DEF Teeth!Pristine
  <2>10. ASSUME NEW g \in TeethGuards
         PROVE  /\ jobs'[g].step # "waiting" => jobs'[Teeth!Baseline].status = "GREEN" /\ g \in options'.selected
                /\ jobs'[g].step = "testing" => jobs'[g].nature \in Teeth!Possible'
                /\ jobs'[g].status = "KILLED" =>
                     /\ Teeth!Finished(g)'
                     /\ jobs'[g].hit \/ Teeth!Shows(g, {"caught", "unimportable"} \cap Teeth!Possible)'
                /\ jobs'[g].status = "SURVIVED" => Teeth!Finished(g)' /\ Teeth!Shows(g, {"missed"})'
    <3>1. g \in Teeth!Jobs /\ Teeth!Pristine(g)' = Teeth!Pristine(g)
      BY <2>2, <2>5 DEF Teeth!Pristine
    <3>2. /\ Teeth!Shows(g, {"caught", "unimportable"} \cap Teeth!Possible)
               => Teeth!Shows(g, {"caught", "unimportable"} \cap Teeth!Possible)'
          /\ Teeth!Shows(g, {"missed"}) => Teeth!Shows(g, {"missed"})'
      BY <2>1, <2>2, <2>7, <3>1 DEF Teeth!Shows
    <3>3. /\ jobs[g].step # "waiting" => jobs[Teeth!Baseline].status = "GREEN" /\ g \in options.selected
          /\ jobs[g].step = "testing" => jobs[g].nature \in Teeth!Possible
          /\ jobs[g].status = "KILLED" =>
               /\ jobs[g].step = "done"
               /\ jobs[g].hit \/ Teeth!Shows(g, {"caught", "unimportable"} \cap Teeth!Possible)
          /\ jobs[g].status = "SURVIVED" => jobs[g].step = "done" /\ Teeth!Shows(g, {"missed"})
      BY DEF Teeth!TeethInv, Teeth!Finished
    <3>4. /\ jobs'[g].step = jobs[g].step /\ jobs'[g].nature = jobs[g].nature
          /\ jobs'[g].status = jobs[g].status /\ options' = options
          /\ jobs'[Teeth!Baseline].status = jobs[Teeth!Baseline].status
          /\ jobs[g].hit => jobs'[g].hit
      BY <2>1, <2>2, <2>5, <3>1
    <3>. QED BY <2>7, <3>2, <3>3, <3>4 DEF Teeth!Finished
  <2>11. /\ jobs'[Teeth!Baseline].status = "GREEN" =>
              Teeth!Finished(Teeth!Baseline)' /\ (Teeth!Pristine(Teeth!Baseline)' => options'.sound)
         /\ verdict' # "RUNNING" => \A j \in Teeth!Jobs : jobs'[j].step \in {"waiting", "done"}
    BY <2>1, <2>2, <2>5, <2>9 DEF Teeth!TeethInv, Teeth!Finished
  <2>. QED BY <2>4, <2>6, <2>8, <2>10, <2>11 DEF Teeth!TeethInv
<1>4. CASE Teeth!Free
  <2>1. disk'.low = FALSE /\ UNCHANGED <<tree, undone, options, jobs, verdict>>
    BY <1>4 DEF Teeth!Free, Teeth!TeethInv, Teeth!TeethTypes
  <2>2. Teeth!Possible' = Teeth!Possible /\ Teeth!TeethAreReal' = Teeth!TeethAreReal
    BY <2>1 DEF Teeth!Possible, Teeth!TeethAreReal, Teeth!Pristine, Teeth!Unseen
  <2>3. Teeth!TeethTypes'
    BY <2>1 DEF Teeth!TeethInv, Teeth!TeethTypes
  <2>. QED BY <2>1, <2>2, <2>3 DEF Teeth!TeethInv, Teeth!Finished, Teeth!Pristine, Teeth!Shows
<1>5. CASE UNCHANGED teethVars
  <2>1. UNCHANGED <<tree, undone, disk, options, jobs, verdict>>
    BY <1>5 DEF teethVars
  <2>2. Teeth!Possible' = Teeth!Possible /\ Teeth!TeethAreReal' = Teeth!TeethAreReal
    BY <2>1 DEF Teeth!Possible, Teeth!TeethAreReal, Teeth!Pristine, Teeth!Unseen
  <2>. QED BY <2>1, <2>2 DEF Teeth!TeethInv, Teeth!TeethTypes, Teeth!Finished, Teeth!Pristine,
         Teeth!Shows
<1>. QED BY <1>1, <1>2, <1>3, <1>4, <1>5, StartStays, CopyFileStays, FaultStays, MutateStays,
       TestStays, TestBaselineStays, DecideStays DEF Teeth!Next

\* A verdict about the guards is about the tree that was hashed, for any manifest, any
\* edits and any number of full disks (tools/guard_teeth.py run_guard, classify, main):
\* except for edits that were taken back and untracked files, which no hash shows.
THEOREM VerdictsAreOfTheTree == EnginesSpec => []TeethAreReal
<1>. DEFINE Inv == engine = "teeth" => Teeth!TeethInv
<1>1. EnginesInit => Inv
  BY EnginesStart, TeethStarts
<1>2. Inv /\ [EnginesNext]_engineVars => Inv'
  BY EnginesStep, TeethStays
<1>3. Inv => TeethAreReal
  BY DEF TeethAreReal, Teeth!TeethInv
<1>. QED BY <1>1, <1>2, <1>3, PTL DEF EnginesSpec

-----------------------------------------------------------------------------
(* FinanceRuntime *)

\* The finite sets of the instance are the finite sets.
LEMMA FiniteRuntime == \A S : Runtime!Cardinality(S) = Cardinality(S)
BY DEF Cardinality, Runtime!Cardinality

LEMMA RuntimeStarts ==
  ASSUME Runtime!Init
  PROVE  Runtime!TypeOK /\ Runtime!DocumentInv /\ Runtime!SmokeInv
<1>1. /\ out = [exists |-> FALSE, writes |-> Runtime!None, tree |-> Runtime!Empty]
      /\ root = Runtime!Empty /\ setting \in {Runtime!None} \cup CodeRevisions
      /\ proc = Runtime!Down /\ doc = Runtime!NoDoc /\ ledger = {} /\ minted = 0
      /\ smoke = Runtime!NoSmoke
  BY DEF Runtime!Init
<1>2. Runtime!Empty \in Runtime!Tree
  BY DEF Runtime!Empty, Runtime!Tree
<1>3. Runtime!Down.life = 0 /\ Runtime!Down.phase = "down"
  BY DEF Runtime!Down
<1>4. Runtime!TypeOK
  <2>1. Len(Runtime!Steps) = 11
    BY DEF Runtime!Steps
  <2>2. <<>> \in Seq(Nat)
    OBVIOUS
  <2>. QED BY <1>1, <1>2, <2>1, <2>2 DEF Runtime!TypeOK, Runtime!Down, Runtime!NoDoc, Runtime!NoSmoke
<1>5. Runtime!DocumentInv
  BY <1>1 DEF Runtime!DocumentInv, Runtime!ObservedIsLoaded, Runtime!Down, Runtime!NoDoc, Runtime!Empty
<1>6. Runtime!SmokeInv
  BY <1>1, FS_EmptySet, FiniteRuntime DEF Runtime!SmokeInv, Runtime!NoSmoke
<1>. QED BY <1>4, <1>5, <1>6

LEMMA StepsAre ==
  /\ Len(Runtime!Steps) = 11
  /\ \A i \in 1 .. 11 : /\ Runtime!Steps[i] = "compute" <=> i \in {7, 8, 9}
                        /\ Runtime!Steps[i] = "ledger" <=> i = 10
                        /\ Runtime!Steps[i] = "length of chain" <=> i = 11
BY DEF Runtime!Steps

\* A step of the smoke test goes to the next one, or is the last and passes.
LEMMA GoesOn ==
  ASSUME Runtime!TypeOK, NEW new, new.at = smoke.at, Runtime!SmokeGoes(new),
         new \in [at : 1 .. 11, length : Nat, receipts : SUBSET Nat, lives : Seq(Nat),
                  state : {"RUNNING", "PASSED", "FAILED"}]
  PROVE  /\ smoke' \in [at : 1 .. 11, length : Nat, receipts : SUBSET Nat, lives : Seq(Nat),
                        state : {"RUNNING", "PASSED", "FAILED"}]
         /\ smoke'.receipts = new.receipts /\ smoke'.lives = new.lives
         /\ smoke.at = 11 => smoke'.at = 11
         /\ smoke.at # 11 => smoke'.at = smoke.at + 1 /\ smoke'.state = new.state
<1>1. smoke.at \in 1 .. 11
  BY StepsAre DEF Runtime!TypeOK
<1>2. CASE smoke.at = 11
  BY <1>2, StepsAre DEF Runtime!SmokeGoes
<1>3. CASE smoke.at # 11
  <2>1. smoke' = [new EXCEPT !.at = smoke.at + 1]
    BY <1>3, StepsAre DEF Runtime!SmokeGoes
  <2>2. smoke.at + 1 \in 1 .. 11
    BY <1>1, <1>3
  <2>. QED BY <1>3, <2>1, <2>2
<1>. QED BY <1>2, <1>3

\* What a request of the smoke test may make of it.
LEMMA SmokeSteps ==
  ASSUME Runtime!TypeOK, Runtime!SmokeInv,
         \/ Runtime!ReadDocument \/ Runtime!ReadLength \/ Runtime!SmokeComputes
         \/ Runtime!ReadLedger \/ Runtime!ReadVerification \/ Runtime!RequestFails
  PROVE  /\ UNCHANGED <<out, root, setting, proc, fileChanges>>
         /\ minted' \in {minted, minted + 1} /\ ledger \subseteq ledger'
         /\ ledger' \subseteq 1 .. minted'
         /\ UNCHANGED doc \/ doc' = Runtime!NoDoc
         /\ \/ smoke' = [Runtime!NoSmoke EXCEPT !.state = "FAILED"]
            \/ /\ smoke.state = "RUNNING"
               /\ \E new \in [at : {smoke.at}, length : Nat, receipts : SUBSET Nat, lives : Seq(Nat),
                              state : {"RUNNING"}] :
                    /\ Runtime!SmokeGoes(new)
                    /\ \/ /\ smoke.at \notin {7, 8, 9, 10}
                          /\ new.receipts = smoke.receipts /\ new.lives = smoke.lives
                          /\ UNCHANGED <<minted, ledger>>
                       \/ /\ smoke.at \in {7, 8, 9}
                          /\ minted' = minted + 1 /\ ledger' = ledger \cup {minted + 1}
                          /\ new.receipts = smoke.receipts \cup {minted + 1}
                          /\ new.lives = Append(smoke.lives, proc.life)
                       \/ /\ smoke.at = 10 /\ smoke.receipts \subseteq ledger
                          /\ new.receipts = smoke.receipts
                          /\ new.lives = Append(smoke.lives, proc.life)
                          /\ UNCHANGED <<minted, ledger>>
<1>1. /\ minted \in Nat /\ ledger \subseteq 1 .. minted /\ smoke.at \in 1 .. 11
      /\ smoke \in [at : {smoke.at}, length : Nat, receipts : SUBSET Nat, lives : Seq(Nat),
                    state : {"RUNNING", "PASSED", "FAILED"}]
      /\ proc.life \in Nat
  <2>1. minted \in Nat /\ ledger \subseteq 1 .. minted /\ proc.life \in Nat
    BY DEF Runtime!TypeOK
  <2>2. smoke \in [at : 1 .. 11, length : Nat, receipts : SUBSET (1 .. minted),
                   lives : Seq(Nat), state : {"RUNNING", "PASSED", "FAILED"}]
    BY StepsAre DEF Runtime!TypeOK
  <2>3. smoke.receipts \in SUBSET Nat
    BY <2>1, <2>2
  <2>. QED BY <2>1, <2>2, <2>3
<1>2. Runtime!Cardinality(ledger) \in Nat
  <2>1. IsFiniteSet(1 .. minted)
    <3>1. minted \in Int /\ 1 \in Int
      BY <1>1
    <3>. QED BY <3>1, FS_Interval
  <2>2. IsFiniteSet(ledger)
    BY <1>1, <2>1, FS_Subset
  <2>. QED BY <2>2, FiniteRuntime, FS_CardinalityType
<1>3. Append(smoke.lives, proc.life) \in Seq(Nat)
  BY <1>1
<1>4. \A kind : Runtime!Running(kind) => smoke.state = "RUNNING" /\ Runtime!Steps[smoke.at] = kind
  BY DEF Runtime!Running
<1>5. CASE Runtime!ReadDocument
  <2>1. smoke.at \notin {7, 8, 9, 10} /\ smoke.state = "RUNNING"
    BY <1>1, <1>5, StepsAre DEF Runtime!ReadDocument, Runtime!Running
  <2>2. Runtime!SmokeGoes(smoke) \/ Runtime!SmokeFails
    BY <1>5 DEF Runtime!ReadDocument
  <2>3. doc' = Runtime!NoDoc /\ UNCHANGED <<out, root, setting, proc, ledger, minted, fileChanges>>
    BY <1>5 DEF Runtime!ReadDocument
  <2>. QED BY <1>1, <2>1, <2>2, <2>3 DEF Runtime!SmokeFails
<1>6. CASE Runtime!ReadLength
  <2>1. UNCHANGED <<out, root, setting, proc, doc, ledger, minted, fileChanges>>
    BY <1>6 DEF Runtime!ReadLength
  <2>2. smoke.at \notin {7, 8, 9, 10} /\ smoke.state = "RUNNING"
    BY <1>1, <1>6, StepsAre DEF Runtime!ReadLength, Runtime!Running
  <2>3. PICK new \in {smoke, [smoke EXCEPT !.length = Runtime!Cardinality(ledger)]} :
          Runtime!SmokeGoes(new) \/ Runtime!SmokeFails
    BY <1>6 DEF Runtime!ReadLength
  <2>4. /\ new \in [at : {smoke.at}, length : Nat, receipts : SUBSET Nat, lives : Seq(Nat),
                    state : {"RUNNING"}]
        /\ new.receipts = smoke.receipts /\ new.lives = smoke.lives
    BY <1>1, <1>2, <2>2, <2>3
  <2>. QED BY <1>1, <2>1, <2>2, <2>3, <2>4 DEF Runtime!SmokeFails
<1>7. CASE Runtime!SmokeComputes
  <2>. DEFINE new == [smoke EXCEPT !.receipts = @ \cup {minted'}, !.lives = Append(@, proc.life)]
  <2>1. /\ smoke.at \in {7, 8, 9} /\ smoke.state = "RUNNING"
        /\ minted' = minted + 1 /\ ledger' = ledger \cup {minted + 1}
        /\ UNCHANGED <<out, root, setting, proc, doc, fileChanges>>
    BY <1>1, <1>7, StepsAre DEF Runtime!SmokeComputes, Runtime!Running, Runtime!Mint
  <2>2. Runtime!SmokeGoes(new)
    BY <1>7 DEF Runtime!SmokeComputes
  <2>3. /\ new \in [at : {smoke.at}, length : Nat, receipts : SUBSET Nat, lives : Seq(Nat),
                    state : {"RUNNING"}]
        /\ new.receipts = smoke.receipts \cup {minted + 1} /\ new.lives = Append(smoke.lives, proc.life)
    <3>1. minted' = minted + 1 /\ smoke.state = "RUNNING"
      BY <2>1
    <3>2. smoke.receipts \cup {minted + 1} \in SUBSET Nat
      BY <1>1
    <3>3. new = [smoke EXCEPT !.receipts = @ \cup {minted + 1}, !.lives = Append(@, proc.life)]
      BY <3>1
    <3>. QED BY <1>1, <1>3, <3>1, <3>2, <3>3
  <2>. HIDE DEF new
  <2>. QED BY SMTT(30), <1>1, <2>1, <2>2, <2>3
<1>8. CASE Runtime!ReadLedger
  <2>. DEFINE new == [smoke EXCEPT !.length = Runtime!Cardinality(ledger), !.lives = Append(@, proc.life)]
  <2>1. /\ smoke.at = 10 /\ smoke.state = "RUNNING"
        /\ UNCHANGED <<out, root, setting, proc, doc, ledger, minted, fileChanges>>
    BY <1>1, <1>8, StepsAre DEF Runtime!ReadLedger, Runtime!Running
  <2>2. (smoke.receipts \subseteq ledger /\ Runtime!SmokeGoes(new)) \/ Runtime!SmokeFails
    BY <1>8 DEF Runtime!ReadLedger, Runtime!AllInLedger
  <2>3. /\ new \in [at : {smoke.at}, length : Nat, receipts : SUBSET Nat, lives : Seq(Nat),
                    state : {"RUNNING"}]
        /\ new.receipts = smoke.receipts /\ new.lives = Append(smoke.lives, proc.life)
    BY <1>1, <1>2, <1>3, <2>1
  <2>. HIDE DEF new
  <2>. QED BY <1>1, <2>1, <2>2, <2>3 DEF Runtime!SmokeFails
<1>9. CASE Runtime!ReadVerification
  <2>1. /\ smoke.at = 11 /\ smoke.state = "RUNNING"
        /\ UNCHANGED <<out, root, setting, proc, doc, ledger, minted, fileChanges>>
    BY <1>1, <1>9, StepsAre DEF Runtime!ReadVerification, Runtime!Running
  <2>2. Runtime!SmokeGoes(smoke) \/ Runtime!SmokeFails
    BY <1>9 DEF Runtime!ReadVerification
  <2>. QED BY <1>1, <2>1, <2>2 DEF Runtime!SmokeFails
<1>10. CASE Runtime!RequestFails
  BY <1>1, <1>10 DEF Runtime!RequestFails, Runtime!SmokeFails
<1>. QED BY <1>5, <1>6, <1>7, <1>8, <1>9, <1>10

\* A receipt more of the life that made the others, or the end of the comparison.
LEMMA SmokeStays ==
  ASSUME Runtime!TypeOK, Runtime!SmokeInv,
         \/ Runtime!ReadDocument \/ Runtime!ReadLength \/ Runtime!SmokeComputes
         \/ Runtime!ReadLedger \/ Runtime!ReadVerification \/ Runtime!RequestFails
  PROVE  /\ Runtime!SmokeInv'
         /\ smoke' \in [at : 1 .. 11, length : Nat, receipts : SUBSET (1 .. minted'),
                        lives : Seq(Nat), state : {"RUNNING", "PASSED", "FAILED"}]
<1>1. /\ minted \in Nat /\ minted' \in Nat /\ ledger \subseteq 1 .. minted /\ smoke.at \in 1 .. 11
      /\ smoke.receipts \subseteq 1 .. minted /\ smoke.lives \in Seq(Nat) /\ proc.life \in Nat
      /\ IsFiniteSet(smoke.receipts)
  <2>1. minted \in Nat /\ smoke.receipts \subseteq 1 .. minted
    BY DEF Runtime!TypeOK
  <2>2. IsFiniteSet(1 .. minted)
    BY <2>1, FS_Interval
  <2>3. IsFiniteSet(smoke.receipts)
    BY <2>1, <2>2, FS_Subset
  <2>4. minted' \in {minted, minted + 1}
    BY SmokeSteps
  <2>5. minted' \in Nat
    BY <2>1, <2>4
  <2>6. ledger \subseteq 1 .. minted /\ smoke.at \in 1 .. 11 /\ smoke.lives \in Seq(Nat) /\ proc.life \in Nat
    BY StepsAre DEF Runtime!TypeOK
  <2>. QED BY <2>1, <2>3, <2>5, <2>6
<1>2. UNCHANGED proc
  BY SmokeSteps
<1>3. CASE smoke' = [Runtime!NoSmoke EXCEPT !.state = "FAILED"]
  <2>1. smoke' = [at |-> 1, length |-> 0, receipts |-> {}, lives |-> <<>>, state |-> "FAILED"]
    BY <1>3 DEF Runtime!NoSmoke
  <2>2. <<>> \in Seq(Nat) /\ {} \in SUBSET (1 .. minted') /\ DOMAIN <<>> = {} /\ Len(<<>>) = 0
    OBVIOUS
  <2>3. smoke' \in [at : 1 .. 11, length : Nat, receipts : SUBSET (1 .. minted'),
                    lives : Seq(Nat), state : {"RUNNING", "PASSED", "FAILED"}]
    BY <2>1, <2>2
  <2>4. /\ smoke'.at = 1 /\ smoke'.receipts = {} /\ smoke'.lives = <<>> /\ smoke'.state = "FAILED"
    BY <2>1
  <2>5. Runtime!Cardinality(smoke'.receipts) = 0
    BY <2>4, FS_EmptySet, FiniteRuntime
  <2>. QED BY <2>2, <2>3, <2>4, <2>5 DEF Runtime!SmokeInv
<1>4. ASSUME NEW new \in [at : {smoke.at}, length : Nat, receipts : SUBSET Nat, lives : Seq(Nat),
                          state : {"RUNNING"}],
             smoke.state = "RUNNING",
             Runtime!SmokeGoes(new),
             \/ /\ smoke.at \notin {7, 8, 9, 10}
                /\ new.receipts = smoke.receipts /\ new.lives = smoke.lives
                /\ UNCHANGED <<minted, ledger>>
             \/ /\ smoke.at \in {7, 8, 9}
                /\ minted' = minted + 1 /\ ledger' = ledger \cup {minted + 1}
                /\ new.receipts = smoke.receipts \cup {minted + 1}
                /\ new.lives = Append(smoke.lives, proc.life)
             \/ /\ smoke.at = 10 /\ smoke.receipts \subseteq ledger
                /\ new.receipts = smoke.receipts
                /\ new.lives = Append(smoke.lives, proc.life)
                /\ UNCHANGED <<minted, ledger>>
      PROVE  /\ Runtime!SmokeInv'
             /\ smoke' \in [at : 1 .. 11, length : Nat, receipts : SUBSET (1 .. minted'),
                            lives : Seq(Nat), state : {"RUNNING", "PASSED", "FAILED"}]
  <2>1. /\ smoke' \in [at : 1 .. 11, length : Nat, receipts : SUBSET Nat, lives : Seq(Nat),
                       state : {"RUNNING", "PASSED", "FAILED"}]
        /\ smoke'.receipts = new.receipts /\ smoke'.lives = new.lives
        /\ smoke.at = 11 => smoke'.at = 11
        /\ smoke.at # 11 => smoke'.at = smoke.at + 1 /\ smoke'.state = "RUNNING"
    BY <1>1, <1>4, GoesOn
  <2>2. smoke'.receipts \subseteq 1 .. minted'
    BY <1>1, <1>4, <2>1
  <2>3. smoke' \in [at : 1 .. 11, length : Nat, receipts : SUBSET (1 .. minted'),
                    lives : Seq(Nat), state : {"RUNNING", "PASSED", "FAILED"}]
    BY <2>1, <2>2
  <2>4. /\ Cardinality(smoke.receipts) = IF smoke.at <= 7 THEN 0 ELSE IF smoke.at <= 10 THEN smoke.at - 7 ELSE 3
        /\ smoke.at <= 10 =>
             /\ Len(smoke.lives) = Cardinality(smoke.receipts)
             /\ smoke.receipts \subseteq ledger => \A i \in DOMAIN smoke.lives : smoke.lives[i] = proc.life
        /\ smoke.at = 11 => \A i, j \in DOMAIN smoke.lives : smoke.lives[i] = smoke.lives[j]
    BY FiniteRuntime DEF Runtime!SmokeInv
  <2>5. DOMAIN smoke.lives = 1 .. Len(smoke.lives) /\ Len(smoke.lives) \in Nat
    BY <1>1
  <2>6. /\ DOMAIN Append(smoke.lives, proc.life) = 1 .. Len(smoke.lives) + 1
        /\ Len(Append(smoke.lives, proc.life)) = Len(smoke.lives) + 1
        /\ \A i \in 1 .. Len(smoke.lives) : Append(smoke.lives, proc.life)[i] = smoke.lives[i]
        /\ Append(smoke.lives, proc.life)[Len(smoke.lives) + 1] = proc.life
    BY <1>1
  <2>7. CASE smoke.at \notin {7, 8, 9, 10}
    <3>1. /\ smoke'.receipts = smoke.receipts /\ smoke'.lives = smoke.lives
          /\ UNCHANGED <<minted, ledger>>
      BY <1>4, <2>1, <2>7
    <3>2. \/ smoke.at = 11 /\ smoke'.at = 11
          \/ smoke.at <= 6 /\ smoke'.at <= 7 /\ smoke'.at \in Nat /\ smoke'.state = "RUNNING"
      BY <1>1, <2>1, <2>7, SMTT(30)
    <3>3. CASE smoke.at = 11 /\ smoke'.at = 11
      BY <2>3, <2>4, <3>1, <3>3, FiniteRuntime DEF Runtime!SmokeInv
    <3>4. CASE smoke.at <= 6 /\ smoke'.at <= 7 /\ smoke'.at \in Nat /\ smoke'.state = "RUNNING"
      <4>1. Cardinality(smoke.receipts) = 0
        <5>1. smoke.at <= 7
          BY SMTT(30), <1>1, <3>4
        <5>. QED BY <2>4, <5>1
      <4>3. Len(smoke.lives) = 0
        <5>1. smoke.at <= 10
          BY <1>1, <3>4, SMTT(30)
        <5>. QED BY <2>4, <4>1, <5>1
      <4>2. DOMAIN smoke.lives = {}
        BY <2>5, <4>3
      <4>. QED BY <2>3, <3>1, <3>4, <4>1, <4>2, <4>3, FiniteRuntime DEF Runtime!SmokeInv
    <3>. QED BY <3>2, <3>3, <3>4
  <2>8. CASE smoke.at \in {7, 8, 9}
    <3>1. /\ smoke'.receipts = smoke.receipts \cup {minted + 1}
          /\ smoke'.lives = Append(smoke.lives, proc.life)
          /\ ledger' = ledger \cup {minted + 1}
      BY <1>4, <2>1, <2>8
    <3>2. smoke'.at = smoke.at + 1 /\ smoke'.at \in {8, 9, 10} /\ smoke'.state = "RUNNING"
      BY <2>1, <2>8
    <3>3. minted + 1 \notin smoke.receipts
      BY <1>1
    <3>4. Cardinality(smoke'.receipts) = Cardinality(smoke.receipts) + 1
      <4>1. Cardinality(smoke.receipts \cup {minted + 1}) = Cardinality(smoke.receipts) + 1
        BY <1>1, <3>3, FS_AddElement
      <4>. QED BY <3>1, <4>1
    <3>5. Cardinality(smoke.receipts) = smoke.at - 7
      BY <2>4, <2>8
    <3>6. Len(smoke'.lives) = Cardinality(smoke'.receipts)
      BY <2>4, <2>6, <2>8, <3>1, <3>4
    <3>7. smoke'.receipts \subseteq ledger' => \A i \in DOMAIN smoke'.lives : smoke'.lives[i] = proc.life
      <4>1. smoke'.receipts \subseteq ledger' => smoke.receipts \subseteq ledger
        BY <3>1, <3>3
      <4>2. smoke.receipts \subseteq ledger => \A i \in DOMAIN smoke.lives : smoke.lives[i] = proc.life
        BY <2>4, <2>8
      <4>3. ASSUME smoke.receipts \subseteq ledger, NEW i \in DOMAIN smoke'.lives
            PROVE  smoke'.lives[i] = proc.life
        <5>1. i \in 1 .. Len(smoke.lives) \/ i = Len(smoke.lives) + 1
          BY <2>5, <2>6, <3>1
        <5>. QED BY <2>5, <2>6, <3>1, <4>2, <4>3, <5>1
      <4>. QED BY <4>1, <4>3
    <3>8. Cardinality(smoke'.receipts) = smoke'.at - 7
      BY <2>8, <3>2, <3>4, <3>5
    <3>9. Cardinality(smoke'.receipts) =
            IF smoke'.at <= 7 THEN 0 ELSE IF smoke'.at <= 10 THEN smoke'.at - 7 ELSE 3
      BY <3>2, <3>8
    <3>10. smoke'.at # 11 /\ smoke'.state # "PASSED"
      BY <3>2
    <3>11. Runtime!SmokeInv'
      BY <1>2, <3>6, <3>7, <3>9, <3>10, FiniteRuntime DEF Runtime!SmokeInv
    <3>. QED BY <2>3, <3>11
  <2>9. CASE smoke.at = 10
    <3>1. /\ smoke'.receipts = smoke.receipts /\ smoke.receipts \subseteq ledger
          /\ smoke'.lives = Append(smoke.lives, proc.life)
          /\ smoke'.at = 11
      BY <1>4, <2>1, <2>9
    <3>2. \A i \in DOMAIN smoke.lives : smoke.lives[i] = proc.life
      BY <2>4, <2>9, <3>1
    <3>3. ASSUME NEW i \in DOMAIN smoke'.lives PROVE smoke'.lives[i] = proc.life
      <4>1. i \in 1 .. Len(smoke.lives) \/ i = Len(smoke.lives) + 1
        BY <2>5, <2>6, <3>1
      <4>. QED BY <2>5, <2>6, <3>1, <3>2, <4>1
    <3>4. Cardinality(smoke'.receipts) = 3
      BY <2>4, <2>9, <3>1
    <3>. QED BY SMTT(30), <2>3, <3>1, <3>3, <3>4, FiniteRuntime DEF Runtime!SmokeInv
  <2>. QED BY <2>7, <2>8, <2>9
<1>. QED BY <1>3, <1>4, SmokeSteps

\* A document of a process that was swapped is not claimed to be of its code; of one that was
\* not, its witness is.
LEMMA TreesAre ==
  ASSUME Runtime!RuntimeAssumption, Runtime!TypeOK
  PROVE  /\ Runtime!Empty \in Runtime!Tree
         /\ Runtime!Altering \cup Runtime!Exchanging \subseteq Runtime!Tree
         /\ Runtime!Code \in Runtime!Files
BY DEF Runtime!TypeOK, Runtime!Tree, Runtime!Empty, Runtime!Altering, Runtime!Exchanging,
       Runtime!Code, Runtime!Files

LEMMA RuntimeStays ==
  ASSUME Runtime!RuntimeAssumption, Runtime!TypeOK, Runtime!DocumentInv, Runtime!SmokeInv,
         Runtime!Next \/ UNCHANGED runtimeVars
  PROVE  Runtime!TypeOK' /\ Runtime!DocumentInv' /\ Runtime!SmokeInv'
<1>. USE DEF Runtime!TypeOK, Runtime!DocumentInv, Runtime!ObservedIsLoaded
<1>1. /\ Runtime!Empty \in Runtime!Tree
      /\ Runtime!Altering \cup Runtime!Exchanging \subseteq Runtime!Tree
      /\ Runtime!Code \in Runtime!Files
  BY TreesAre
<1>2. ASSUME UNCHANGED <<proc, ledger, smoke>> PROVE Runtime!SmokeInv'
  BY <1>2 DEF Runtime!SmokeInv
<1>3. ASSUME NEW r \in CodeRevisions, Runtime!Export(r)
      PROVE  Runtime!TypeOK' /\ Runtime!DocumentInv' /\ Runtime!SmokeInv'
  <2>1. /\ out' = [exists |-> TRUE, writes |-> r, tree |-> Runtime!Empty]
        /\ UNCHANGED <<root, setting, proc, doc, ledger, minted, smoke, fileChanges>>
    BY <1>3 DEF Runtime!Export, Runtime!ExportOnly
  <2>2. Runtime!TypeOK'
    BY <1>1, <2>1
  <2>3. Runtime!DocumentInv'
    BY <2>1 DEF Runtime!Empty
  <2>. QED BY <1>2, <2>1, <2>2, <2>3
<1>4. ASSUME NEW f \in Runtime!Files, Runtime!WriteFile(f)
      PROVE  Runtime!TypeOK' /\ Runtime!DocumentInv' /\ Runtime!SmokeInv'
  <2>1. /\ out.writes # Runtime!None
        /\ out' = [out EXCEPT !.tree.files[f] = out.writes]
        /\ UNCHANGED <<root, setting, proc, doc, ledger, minted, smoke, fileChanges>>
    BY <1>4 DEF Runtime!WriteFile, Runtime!ExportOnly
  <2>2. /\ out.tree.files \in [Runtime!Files -> {Runtime!Absent, Runtime!Altered} \cup CodeRevisions]
        /\ out.writes \in CodeRevisions
    BY <2>1 DEF Runtime!Tree
  <2>3. /\ out'.writes = out.writes /\ out'.exists = out.exists
        /\ out'.tree.witness = out.tree.witness
        /\ out'.tree.files = [out.tree.files EXCEPT ![f] = out.writes]
    BY <2>1 DEF Runtime!Tree
  <2>4. out' \in [exists : BOOLEAN, writes : {Runtime!None} \cup CodeRevisions, tree : Runtime!Tree]
    BY <2>1, <2>2 DEF Runtime!Tree
  <2>5. Runtime!TypeOK'
    BY <2>1, <2>4
  <2>6. out.tree.witness = Runtime!None
    BY <2>1
  <2>7. \A g \in Runtime!Files : out'.tree.files[g] \in {Runtime!Absent, out.writes}
    <3>1. \A g \in Runtime!Files : out.tree.files[g] \in {Runtime!Absent, out.writes}
      BY <2>1
    <3>. QED BY <2>2, <2>3, <3>1
  <2>8. Runtime!DocumentInv'
    BY <2>1, <2>3, <2>6, <2>7
  <2>. QED BY <1>2, <2>1, <2>5, <2>8
<1>5. CASE Runtime!WriteWitness
  <2>1. /\ out.writes # Runtime!None /\ \A f \in Runtime!Files : out.tree.files[f] # Runtime!Absent
        /\ out' = [out EXCEPT !.tree.witness = out.writes, !.writes = Runtime!None]
        /\ UNCHANGED <<root, setting, proc, doc, ledger, minted, smoke, fileChanges>>
    BY <1>5 DEF Runtime!WriteWitness, Runtime!WitnessLast, Runtime!ExportOnly
  <2>2. out.writes \in CodeRevisions
    BY <2>1
  <2>3. /\ out'.writes = Runtime!None /\ out'.tree.witness = out.writes
        /\ out'.tree.files = out.tree.files
    BY <2>1 DEF Runtime!Tree
  <2>4. out' \in [exists : BOOLEAN, writes : {Runtime!None} \cup CodeRevisions, tree : Runtime!Tree]
    BY <2>1, <2>2 DEF Runtime!Tree
  <2>5. Runtime!TypeOK'
    BY <2>1, <2>4
  <2>6. \A f \in Runtime!Files : out.tree.files[f] = out.writes
    BY <2>1
  <2>7. Runtime!DocumentInv'
    BY <2>1, <2>3, <2>6
  <2>. QED BY <1>2, <2>1, <2>5, <2>7
<1>6. CASE Runtime!ExportCrashes
  <2>1. /\ out' = [out EXCEPT !.writes = Runtime!None]
        /\ UNCHANGED <<root, setting, proc, doc, ledger, minted, smoke, fileChanges>>
    BY <1>6 DEF Runtime!ExportCrashes, Runtime!ExportOnly
  <2>. QED BY <1>2, <2>1
<1>7. CASE Runtime!BuildImage
  <2>1. /\ root = Runtime!Empty /\ root' = out.tree
        /\ UNCHANGED <<out, setting, proc, doc, ledger, minted, smoke, fileChanges>>
    BY <1>7 DEF Runtime!BuildImage
  <2>2. out.tree \in Runtime!Tree
    BY DEF Runtime!Tree
  <2>3. Runtime!TypeOK'
    BY <2>1, <2>2
  <2>4. root.files[Runtime!Code] = Runtime!Absent
    BY <1>1, <2>1 DEF Runtime!Empty
  <2>5. Runtime!DocumentInv'
    BY <2>1, <2>4
  <2>. QED BY <1>2, <2>1, <2>3, <2>5
<1>8. ASSUME NEW left \in Runtime!Altering \cup Runtime!Exchanging, Runtime!Change(left)
      PROVE  Runtime!TypeOK' /\ Runtime!DocumentInv' /\ Runtime!SmokeInv'
  <2>1. /\ root' = left
        /\ proc' = [proc EXCEPT !.swapped = @ \/ proc.phase = "imported"]
        /\ UNCHANGED <<out, setting, doc, ledger, minted, smoke>>
    BY <1>8 DEF Runtime!Change
  <2>2. /\ proc'.phase = proc.phase /\ proc'.loaded = proc.loaded /\ proc'.witness = proc.witness
        /\ proc'.life = proc.life
        /\ proc'.swapped = (proc.swapped \/ proc.phase = "imported")
    BY <2>1
  <2>3. Runtime!TypeOK'
    BY ZenonT(60), <1>1, <2>1
  <2>4. Runtime!DocumentInv'
    BY <2>1, <2>2
  <2>5. Runtime!SmokeInv'
    BY <2>1, <2>2 DEF Runtime!SmokeInv
  <2>. QED BY <2>3, <2>4, <2>5
<1>9. CASE Runtime!Import
  <2>1. /\ proc.phase = "down" /\ root.files[Runtime!Code] # Runtime!Absent
        /\ proc' = [proc EXCEPT !.phase = "imported", !.loaded = root.files[Runtime!Code],
                                !.swapped = FALSE]
        /\ UNCHANGED <<out, root, setting, doc, ledger, minted, smoke, fileChanges>>
    BY <1>9 DEF Runtime!Import
  <2>2. root.files[Runtime!Code] \in {Runtime!Absent, Runtime!Altered} \cup CodeRevisions
    BY <1>1 DEF Runtime!Tree
  <2>3. /\ proc'.phase = "imported" /\ proc'.loaded = root.files[Runtime!Code]
        /\ proc'.life = proc.life
    BY <2>1
  <2>4. Runtime!TypeOK'
    BY <2>1, <2>2
  <2>5. Runtime!DocumentInv'
    BY <2>1, <2>3
  <2>6. Runtime!SmokeInv'
    BY <2>1, <2>3 DEF Runtime!SmokeInv
  <2>. QED BY <2>4, <2>5, <2>6
<1>10. CASE Runtime!Startup
  <2>. DEFINE kept == IF \A f \in Runtime!Files : root.files[f] = root.witness
                      THEN root.witness ELSE Runtime!None
  <2>1. /\ proc.phase = "imported"
        /\ proc' = [proc EXCEPT !.phase = "serving", !.witness = kept]
        /\ UNCHANGED <<out, root, setting, doc, ledger, minted, smoke, fileChanges>>
    BY <1>10 DEF Runtime!Startup
  <2>2. kept \in {Runtime!None} \cup CodeRevisions
    BY DEF Runtime!Tree
  <2>3. kept \in {Runtime!None, root.files[Runtime!Code]}
    BY <1>1
  <2>. HIDE DEF kept
  <2>4. /\ proc'.phase = "serving" /\ proc'.loaded = proc.loaded /\ proc'.witness = kept
        /\ proc'.swapped = proc.swapped /\ proc'.life = proc.life
    BY <2>1
  <2>5. Runtime!TypeOK'
    BY <2>1, <2>2
  <2>6. doc.step = "none"
    BY <2>1
  <2>7. Runtime!DocumentInv'
    BY <2>1, <2>3, <2>4, <2>6
  <2>8. Runtime!SmokeInv'
    BY <2>1, <2>4 DEF Runtime!SmokeInv
  <2>. QED BY <2>5, <2>7, <2>8
<1>11. CASE Runtime!Restart
  <2>1. /\ proc' = [Runtime!Down EXCEPT !.life = proc.life + 1]
        /\ doc' = Runtime!NoDoc /\ ledger' = {}
        /\ UNCHANGED <<out, root, setting, minted, smoke>>
    BY <1>11 DEF Runtime!Restart
  <2>2. /\ proc' = [phase |-> "down", loaded |-> Runtime!None, witness |-> Runtime!None,
                    swapped |-> FALSE, life |-> proc.life + 1]
        /\ doc' = [step |-> "none", checked |-> {}, failed |-> FALSE, revision |-> Runtime!None]
    BY <2>1 DEF Runtime!Down, Runtime!NoDoc
  <2>7. proc.life + 1 \in Nat
    OBVIOUS
  <2>8. /\ proc' \in [phase : {"down", "imported", "serving"},
                     loaded : {Runtime!None, Runtime!Absent, Runtime!Altered} \cup CodeRevisions,
                     witness : {Runtime!None} \cup CodeRevisions, swapped : BOOLEAN, life : Nat]
        /\ doc' \in [step : {"none", "reading", "answered"}, checked : SUBSET Runtime!Files,
                    failed : BOOLEAN, revision : {Runtime!None} \cup CodeRevisions]
    BY <2>2, <2>7
  <2>3. Runtime!TypeOK'
    BY <2>1, <2>8
  <2>4. Runtime!DocumentInv'
    BY <2>1, <2>2
  <2>5. smoke.receipts \subseteq {} => \A i \in DOMAIN smoke.lives : smoke.at <= 10 => FALSE
    <3>1. smoke.at \in 1 .. 11 /\ smoke.lives \in Seq(Nat)
      BY StepsAre
    <3>2. ASSUME smoke.receipts \subseteq {}, smoke.at <= 10
          PROVE  DOMAIN smoke.lives = {}
      <4>1. Cardinality(smoke.receipts) = 0
        BY <3>2, FS_EmptySet
      <4>2. Len(smoke.lives) = 0
        BY <3>2, <4>1, FiniteRuntime DEF Runtime!SmokeInv
      <4>. QED BY <3>1, <4>2
    <3>. QED BY <3>2
  <2>6. Runtime!SmokeInv'
    BY <2>1, <2>5 DEF Runtime!SmokeInv
  <2>. QED BY <2>3, <2>4, <2>6
<1>12. CASE Runtime!BeginDocument
  <2>1. /\ proc.phase = "serving"
        /\ doc' = [Runtime!NoDoc EXCEPT !.step = "reading", !.revision = proc.witness,
                     !.failed = proc.witness = Runtime!None \/ root.witness # proc.witness]
        /\ UNCHANGED <<out, root, setting, proc, ledger, minted, smoke, fileChanges>>
    BY <1>12 DEF Runtime!BeginDocument, Runtime!StartupWitness
  <2>2. doc' = [step |-> "reading", checked |-> {}, revision |-> proc.witness,
                failed |-> (proc.witness = Runtime!None \/ root.witness # proc.witness)]
    BY <2>1 DEF Runtime!NoDoc
  <2>5. proc.witness \in {Runtime!None} \cup CodeRevisions
    OBVIOUS
  <2>6. doc' \in [step : {"none", "reading", "answered"}, checked : SUBSET Runtime!Files,
                 failed : BOOLEAN, revision : {Runtime!None} \cup CodeRevisions]
    BY <2>2, <2>5
  <2>3. Runtime!TypeOK'
    BY <2>1, <2>6
  <2>4. Runtime!DocumentInv'
    BY <2>1, <2>2
  <2>. QED BY <1>2, <2>1, <2>3, <2>4
<1>13. ASSUME NEW f \in Runtime!Files, Runtime!CheckFile(f)
       PROVE  Runtime!TypeOK' /\ Runtime!DocumentInv' /\ Runtime!SmokeInv'
  <2>1. /\ doc.step = "reading"
        /\ doc' = [doc EXCEPT !.checked = @ \cup {f},
                              !.failed = @ \/ root.files[f] # doc.revision]
        /\ UNCHANGED <<out, root, setting, proc, ledger, minted, smoke, fileChanges>>
    BY <1>13 DEF Runtime!CheckFile
  <2>2. /\ doc'.step = "reading" /\ doc'.revision = doc.revision
        /\ doc'.failed = (doc.failed \/ root.files[f] # doc.revision)
    BY <2>1
  <2>3. Runtime!TypeOK'
    BY <2>1
  <2>4. Runtime!DocumentInv'
    BY <2>1, <2>2
  <2>. QED BY <1>2, <2>1, <2>3, <2>4
<1>14. CASE Runtime!EndDocument
  <2>. DEFINE failed == doc.failed \/ setting \notin {Runtime!None, doc.revision}
  <2>1. /\ doc.step = "reading"
        /\ doc' = [Runtime!NoDoc EXCEPT !.step = "answered", !.failed = failed,
                     !.revision = IF failed THEN Runtime!None ELSE doc.revision]
        /\ UNCHANGED <<out, root, setting, proc, ledger, minted, smoke, fileChanges>>
    BY <1>14 DEF Runtime!EndDocument
  <2>2. doc' = [step |-> "answered", checked |-> {}, failed |-> failed,
                revision |-> IF failed THEN Runtime!None ELSE doc.revision]
    BY <2>1 DEF Runtime!NoDoc
  <2>3. failed \in BOOLEAN /\ (doc.revision = Runtime!None => failed)
    BY <2>1
  <2>4. ~ failed => setting \in {Runtime!None, doc.revision}
    OBVIOUS
  <2>. HIDE DEF failed
  <2>7. doc.revision \in {Runtime!None} \cup CodeRevisions
    OBVIOUS
  <2>8. doc' \in [step : {"none", "reading", "answered"}, checked : SUBSET Runtime!Files,
                 failed : BOOLEAN, revision : {Runtime!None} \cup CodeRevisions]
    BY <2>2, <2>3, <2>7
  <2>5. Runtime!TypeOK'
    BY <2>1, <2>8
  <2>6. Runtime!DocumentInv'
    BY <2>1, <2>2, <2>3, <2>4
  <2>. QED BY <1>2, <2>1, <2>5, <2>6
<1>15. ASSUME NEW state, Runtime!Compute(state)
       PROVE  Runtime!TypeOK' /\ Runtime!DocumentInv' /\ Runtime!SmokeInv'
  <2>1. /\ minted' = minted + 1 /\ ledger' = ledger \cup {minted + 1}
        /\ UNCHANGED <<out, root, setting, proc, doc, smoke, fileChanges>>
    BY <1>15 DEF Runtime!Compute, Runtime!Mint
  <2>7. /\ minted \in Nat /\ smoke.receipts \subseteq 1 .. minted /\ ledger \subseteq 1 .. minted
        /\ smoke \in [at : 1 .. Len(Runtime!Steps), length : Nat, receipts : SUBSET (1 .. minted),
                      lives : Seq(Nat), state : {"RUNNING", "PASSED", "FAILED"}]
    OBVIOUS
  <2>2. /\ smoke.receipts \subseteq 1 .. minted /\ 1 .. minted \subseteq 1 .. minted + 1
        /\ minted + 1 \in Nat /\ ledger \cup {minted + 1} \subseteq 1 .. minted + 1
    <3>1. minted \in Nat /\ smoke.receipts \subseteq 1 .. minted /\ ledger \subseteq 1 .. minted
      BY <2>7
    <3>. HIDE DEF Runtime!TypeOK, Runtime!DocumentInv, Runtime!ObservedIsLoaded
    <3>2. minted + 1 \in Nat
      BY <3>1
    <3>3. 1 .. minted \subseteq 1 .. minted + 1 /\ minted + 1 \in 1 .. minted + 1
      BY <3>1
    <3>. QED BY <3>1, <3>2, <3>3
  <2>8. smoke' \in [at : 1 .. Len(Runtime!Steps), length : Nat, receipts : SUBSET (1 .. minted'),
                   lives : Seq(Nat), state : {"RUNNING", "PASSED", "FAILED"}]
    BY <2>1, <2>2, <2>7
  <2>3. Runtime!TypeOK'
    BY <2>1, <2>2, <2>8
  <2>4. Runtime!DocumentInv'
    BY <2>1
  <2>5. smoke.receipts \subseteq ledger' => smoke.receipts \subseteq ledger
    BY <2>1, <2>2
  <2>6. Runtime!SmokeInv'
    BY <2>1, <2>5 DEF Runtime!SmokeInv
  <2>. QED BY <2>3, <2>4, <2>6
<1>16. CASE \/ Runtime!ReadDocument \/ Runtime!ReadLength \/ Runtime!SmokeComputes
            \/ Runtime!ReadLedger \/ Runtime!ReadVerification \/ Runtime!RequestFails
  <2>1. /\ UNCHANGED <<out, root, setting, proc, fileChanges>>
        /\ minted' \in {minted, minted + 1} /\ ledger' \subseteq 1 .. minted'
        /\ UNCHANGED doc \/ doc' = Runtime!NoDoc
    BY <1>16, SmokeSteps
  <2>2. /\ Runtime!SmokeInv'
        /\ smoke' \in [at : 1 .. 11, length : Nat, receipts : SUBSET (1 .. minted'),
                       lives : Seq(Nat), state : {"RUNNING", "PASSED", "FAILED"}]
    BY <1>16, SmokeStays
  <2>5. doc' \in [step : {"none", "reading", "answered"}, checked : SUBSET Runtime!Files,
                 failed : BOOLEAN, revision : {Runtime!None} \cup CodeRevisions]
    <3>1. doc \in [step : {"none", "reading", "answered"}, checked : SUBSET Runtime!Files,
                   failed : BOOLEAN, revision : {Runtime!None} \cup CodeRevisions]
      OBVIOUS
    <3>2. Runtime!NoDoc \in [step : {"none", "reading", "answered"}, checked : SUBSET Runtime!Files,
                             failed : BOOLEAN, revision : {Runtime!None} \cup CodeRevisions]
      BY DEF Runtime!NoDoc
    <3>. QED BY <2>1, <3>1, <3>2
  <2>6. minted' \in Nat
    BY <2>1
  <2>3. Runtime!TypeOK'
    BY <2>1, <2>2, <2>5, <2>6, StepsAre
  <2>4. Runtime!DocumentInv'
    BY <2>1 DEF Runtime!NoDoc
  <2>. QED BY <2>2, <2>3, <2>4
<1>17. CASE UNCHANGED runtimeVars
  <2>1. UNCHANGED <<out, root, setting, proc, doc, ledger, minted, smoke>>
    BY <1>17 DEF runtimeVars
  <2>. QED BY <1>2, <2>1
<1>. QED BY <1>3, <1>4, <1>5, <1>6, <1>7, <1>8, <1>9, <1>10, <1>11, <1>12, <1>13, <1>14, <1>15,
       <1>16, <1>17 DEF Runtime!Next

\* A directory with a witness is whole, a document tells the revision of the code that is
\* loaded, and a smoke test that passed saw one life of the process, for any revisions,
\* exchanges of files, restarts and callers (tools/export_finance_artifact.py,
\* services/finance/runtime_identity.py, tools/verify_finance_engine.py).
THEOREM DocumentsTellTheCode == EnginesSpec => []RuntimeIsWhatItSays
<1>. DEFINE Inv == engine = "runtime" =>
                     Runtime!TypeOK /\ Runtime!DocumentInv /\ Runtime!SmokeInv
<1>1. EnginesInit => Inv
  BY EnginesStart, RuntimeStarts
<1>2. Inv /\ [EnginesNext]_engineVars => Inv'
  BY EnginesStep, RuntimeStays, EnginesAssumption
<1>3. Inv => RuntimeIsWhatItSays
  <2>1. ASSUME Runtime!TypeOK, Runtime!DocumentInv, Runtime!SmokeInv
        PROVE  Runtime!ObservedIsLoaded /\ Runtime!PassedInOneLife
    <3>1. Runtime!ObservedIsLoaded
      BY <2>1 DEF Runtime!DocumentInv
    <3>2. ASSUME smoke.state = "PASSED"
          PROVE  /\ Runtime!Cardinality(smoke.receipts) = 3
                 /\ \A i, j \in DOMAIN smoke.lives : smoke.lives[i] = smoke.lives[j]
      <4>1. smoke.at = 11
        BY <2>1, <3>2 DEF Runtime!SmokeInv
      <4>. QED BY <2>1, <4>1 DEF Runtime!SmokeInv
    <3>. QED BY <3>1, <3>2 DEF Runtime!PassedInOneLife
  <2>. QED BY <2>1 DEF RuntimeIsWhatItSays
<1>. QED BY <1>1, <1>2, <1>3, PTL DEF EnginesSpec

-----------------------------------------------------------------------------
(* FinanceReceipts *)

LEMMA LeastNumber ==
  ASSUME NEW S \in SUBSET Nat, S # {}
  PROVE  \E m \in S : \A n \in S : m <= n
<1>1. PICK m \in S : \A n \in S : ~ (<<n, m>> \in OpToRel(<, Nat))
  BY WFMin, NatLessThanWellFounded
<1>2. \A n \in S : <<n, m>> \in OpToRel(<, Nat) <=> n < m
  BY DEF OpToRel
<1>3. ASSUME NEW n \in S PROVE m <= n
  <2>1. ~ (n < m)
    BY <1>1, <1>2, Zenon
  <2>. QED BY <2>1
<1>. QED BY <1>3

LEMMA EntriesStart == Finance!Init => Finance!EntriesInv
<1>. SUFFICES ASSUME Finance!Init PROVE Finance!EntriesInv
  OBVIOUS
<1>1. entries = <<>> /\ poolCalls = [w \in Threads |-> [op |-> "idle"]]
  BY DEF Finance!Init
<1>. QED BY <1>1 DEF Finance!EntriesInv, Finance!ToSet, Finance!AnsweredIsEmitted

\* The list with one more entry.
LEMMA OneMore ==
  ASSUME Finance!EntriesInv, NEW e
  PROVE  LET longer == Append(entries, e) IN
         /\ longer \in Seq(Finance!ToSet(longer))
         /\ Len(entries) \in Nat /\ DOMAIN entries = 1 .. Len(entries)
         /\ DOMAIN longer = 1 .. Len(entries) + 1
         /\ longer[Len(entries) + 1] = e
         /\ \A i \in 1 .. Len(entries) : longer[i] = entries[i]
<1>. DEFINE S == Finance!ToSet(entries) \cup {e}
            longer == Append(entries, e)
<1>1. entries \in Seq(Finance!ToSet(entries))
  BY DEF Finance!EntriesInv
<1>2. entries \in Seq(S) /\ e \in S
  BY <1>1, SeqMonotonic
<1>3. /\ longer \in Seq(S)
      /\ Len(entries) \in Nat /\ DOMAIN entries = 1 .. Len(entries)
      /\ DOMAIN longer = 1 .. Len(entries) + 1 /\ Len(longer) = Len(entries) + 1
      /\ longer[Len(entries) + 1] = e
      /\ \A i \in 1 .. Len(entries) : longer[i] = entries[i]
  BY <1>2, AppendProperties, LenProperties
<1>. HIDE DEF longer
<1>4. longer \in Seq(Finance!ToSet(longer))
  <2>1. \A i \in 1 .. Len(longer) : longer[i] \in Finance!ToSet(longer)
    BY <1>3 DEF Finance!ToSet
  <2>2. longer \in [1 .. Len(longer) -> S] /\ Len(longer) \in Nat
    BY <1>3, LenProperties
  <2>. HIDE DEF S
  <2>3. longer \in [1 .. Len(longer) -> Finance!ToSet(longer)]
    BY <2>1, <2>2
  <2>. QED BY <2>2, <2>3, SeqDef
<1>. QED BY <1>3, <1>4 DEF longer

LEMMA EntriesStay ==
  ASSUME Finance!EntriesInv, [Finance!Next]_financeVars
  PROVE  Finance!EntriesInv'
<1>. DEFINE Well(es, i) ==
       /\ es[i] = Finance!Entry(es[i].body)
       /\ es[i].body = Finance!Body(es[i].body.seq, es[i].body.payload, es[i].body.prev)
       /\ es[i].body.seq \in 0 .. i - 1
     Waiting(cs, w) == cs[w].op = "body" =>
       /\ cs[w].body = Finance!Body(cs[w].body.seq, cs[w].body.payload, cs[w].body.prev)
       /\ cs[w].body.seq \in 0 .. Len(entries)
     Emitted(cs, es, w) == cs[w].op = "answered" =>
       \E i \in DOMAIN es : es[i].digest = cs[w].digest /\ i > es[i].body.seq
<1>1. /\ entries \in Seq(Finance!ToSet(entries)) /\ DOMAIN poolCalls = Threads
      /\ Len(entries) \in Nat /\ DOMAIN entries = 1 .. Len(entries)
      /\ \A w \in Threads : Waiting(poolCalls, w) /\ Emitted(poolCalls, entries, w)
      /\ \A i \in 1 .. Len(entries) : Well(entries, i)
  BY LenProperties DEF Finance!EntriesInv, Finance!AnsweredIsEmitted
<1>2. ASSUME NEW w \in Threads, NEW new,
             UNCHANGED entries, poolCalls' = [poolCalls EXCEPT ![w] = new],
             new.op \in {"head", "body"},
             new.op = "body" =>
               /\ new.body = Finance!Body(new.body.seq, new.body.payload, new.body.prev)
               /\ new.body.seq \in 0 .. Len(entries)
      PROVE  Finance!EntriesInv'
  <2>1. /\ DOMAIN poolCalls' = Threads
        /\ \A v \in Threads : poolCalls'[v] = IF v = w THEN new ELSE poolCalls[v]
    BY <1>1, <1>2
  <2>. QED BY <1>1, <1>2, <2>1 DEF Finance!EntriesInv, Finance!AnsweredIsEmitted
<1>3. ASSUME NEW w \in Threads, Finance!ReadHead(w) PROVE Finance!EntriesInv'
  <2>1. PICK p \in Things : Finance!Go(w, [op |-> "head", payload |-> p, prev |-> Finance!ChainHead(entries)])
    BY <1>3 DEF Finance!ReadHead
  <2>. QED BY <1>2, <1>3, <2>1 DEF Finance!ReadHead, Finance!Go
<1>4. ASSUME NEW w \in Threads, Finance!MakeBody(w) PROVE Finance!EntriesInv'
  <2>. DEFINE body == Finance!Body(Len(entries), poolCalls[w].payload, poolCalls[w].prev)
  <2>1. UNCHANGED entries /\ poolCalls' = [poolCalls EXCEPT ![w] = [op |-> "body", body |-> body]]
    BY <1>4 DEF Finance!MakeBody, Finance!Go
  <2>2. body.seq = Len(entries) /\ body = Finance!Body(body.seq, body.payload, body.prev)
    BY DEF Finance!Body
  <2>. HIDE DEF body
  <2>3. Len(entries) \in 0 .. Len(entries)
    BY <1>1
  <2>. DEFINE new == [op |-> "body", body |-> body]
  <2>4. new.op = "body" /\ new.body = body
    OBVIOUS
  <2>. HIDE DEF new
  <2>5. poolCalls' = [poolCalls EXCEPT ![w] = new]
    BY <2>1 DEF new
  <2>. QED BY <1>2, <2>1, <2>2, <2>3, <2>4, <2>5
<1>5. ASSUME NEW w \in Threads, Finance!AppendEntry(w) PROVE Finance!EntriesInv'
  <2>. DEFINE e == Finance!Entry(poolCalls[w].body)
              n == Len(entries) + 1
  <2>1. /\ poolCalls[w].op = "body" /\ entries' = Append(entries, e)
        /\ poolCalls' = [poolCalls EXCEPT ![w] = [op |-> "answered", digest |-> e.digest]]
    BY <1>5 DEF Finance!AppendEntry, Finance!Go
  <2>2. /\ entries' \in Seq(Finance!ToSet(entries')) /\ DOMAIN entries' = 1 .. n
        /\ Len(entries') = n
        /\ entries'[n] = e /\ \A i \in 1 .. Len(entries) : entries'[i] = entries[i]
    BY <2>1, OneMore, LenProperties
  <2>3. e.body = poolCalls[w].body /\ Finance!Entry(e.body) = e
    BY DEF Finance!Entry
  <2>4. e.body.seq \in 0 .. n - 1 /\ e.body = Finance!Body(e.body.seq, e.body.payload, e.body.prev)
    BY <1>1, <2>1, <2>3
  <2>5. /\ DOMAIN poolCalls' = Threads
        /\ \A v \in Threads : poolCalls'[v] = IF v = w THEN [op |-> "answered", digest |-> e.digest]
                                              ELSE poolCalls[v]
    BY <1>1, <2>1
  <2>. HIDE DEF e
  <2>6. \A i \in 1 .. n : Well(entries', i)
    BY <1>1, <2>2, <2>3, <2>4
  <2>7. ASSUME NEW v \in Threads PROVE Emitted(poolCalls', entries', v)
    <3>1. CASE v = w
      <4>1. n \in DOMAIN entries' /\ entries'[n].digest = e.digest /\ n > entries'[n].body.seq
        BY <1>1, <2>2, <2>4
      <4>. QED BY <2>5, <3>1, <4>1
    <3>2. CASE v # w
      BY <1>1, <2>2, <2>5, <3>2
    <3>. QED BY <3>1, <3>2
  <2>8. ASSUME NEW v \in Threads, poolCalls'[v].op = "body"
        PROVE  /\ poolCalls'[v].body = Finance!Body(poolCalls'[v].body.seq, poolCalls'[v].body.payload, poolCalls'[v].body.prev)
               /\ poolCalls'[v].body.seq \in 0 .. Len(entries')
    <3>1. poolCalls'[v] = poolCalls[v]
      BY <2>5, <2>8
    <3>. QED BY <1>1, <2>2, <2>8, <3>1
  <2>. QED BY <2>2, <2>5, <2>6, <2>7, <2>8 DEF Finance!EntriesInv, Finance!AnsweredIsEmitted
<1>6. CASE Finance!VerifyReceipts
  BY <1>1, <1>6 DEF Finance!VerifyReceipts, Finance!EntriesInv, Finance!AnsweredIsEmitted
<1>7. CASE Finance!Restart
  BY <1>7 DEF Finance!Restart, Finance!EntriesInv, Finance!AnsweredIsEmitted, Finance!ToSet
<1>8. CASE UNCHANGED financeVars
  BY <1>8 DEF financeVars, Finance!EntriesInv, Finance!AnsweredIsEmitted
<1>. QED BY <1>3, <1>4, <1>5, <1>6, <1>7, <1>8 DEF Finance!Next

\* Where a chain is found divergent.
BadAt(es) == {i \in DOMAIN es : ~ Finance!Linked(es, i) \/ ~ Finance!Intact(es, i)}

LEMMA Verdict ==
  ASSUME NEW es
  PROVE  /\ BadAt(es) # {} <=> Finance!Verify(es).state = "DIVERGENT"
         /\ BadAt(es) = {} <=> Finance!Verify(es).state = "CONSISTENT"
         /\ BadAt(es) # {} =>
              Finance!Verify(es) = [state |-> "DIVERGENT",
                at |-> CHOOSE i \in BadAt(es) : \A j \in BadAt(es) : i <= j]
BY DEF BadAt, Finance!Verify

LEMMA DivergentOnceAndForAll ==
  ASSUME Finance!EntriesInv, [Finance!Next]_financeVars,
         Finance!Verify(entries).state = "DIVERGENT", entries' # <<>>
  PROVE  Finance!Verify(entries') = Finance!Verify(entries)
<1>1. CASE UNCHANGED entries
  BY <1>1 DEF Finance!Verify, Finance!Linked, Finance!Intact, Finance!ChainHead, Finance!Last, Finance!Genesis
<1>2. ASSUME NEW e, entries' = Append(entries, e)
      PROVE  Finance!Verify(entries') = Finance!Verify(entries)
  <2>. DEFINE n == Len(entries) + 1
  <2>1. /\ Len(entries) \in Nat /\ DOMAIN entries = 1 .. Len(entries)
        /\ DOMAIN entries' = 1 .. n
        /\ \A i \in 1 .. Len(entries) : entries'[i] = entries[i]
    BY <1>2, OneMore
  <2>2. ASSUME NEW i \in 1 .. Len(entries)
        PROVE  SubSeq(entries', 1, i - 1) = SubSeq(entries, 1, i - 1)
    BY <2>1
  <2>3. ASSUME NEW i \in 1 .. Len(entries)
        PROVE  i \in BadAt(entries') <=> i \in BadAt(entries)
    <3>1. entries'[i] = entries[i] /\ i \in DOMAIN entries /\ i \in DOMAIN entries'
      BY <2>1
    <3>2. Finance!Linked(entries', i) <=> Finance!Linked(entries, i)
      BY <2>2, <3>1 DEF Finance!Linked
    <3>3. Finance!Intact(entries', i) <=> Finance!Intact(entries, i)
      BY <3>1 DEF Finance!Intact
    <3>. QED BY <3>1, <3>2, <3>3 DEF BadAt
  <2>4. BadAt(entries) \subseteq 1 .. Len(entries) /\ BadAt(entries') \subseteq 1 .. n
    BY <2>1 DEF BadAt
  <2>5. BadAt(entries) # {} /\ BadAt(entries) \in SUBSET Nat
    BY <2>1, <2>4, Verdict
  <2>6. PICK m \in BadAt(entries) : \A j \in BadAt(entries) : m <= j
    BY <2>5, LeastNumber
  <2>7. m \in BadAt(entries') /\ \A j \in BadAt(entries') : m <= j
    BY <2>1, <2>3, <2>4, <2>6
  <2>8. \A k \in BadAt(entries) : (\A j \in BadAt(entries) : k <= j) => k = m
    BY <2>1, <2>4, <2>6
  <2>9. \A k \in BadAt(entries') : (\A j \in BadAt(entries') : k <= j) => k = m
    BY <2>1, <2>4, <2>7
  <2>10. /\ m = CHOOSE k \in BadAt(entries) : \A j \in BadAt(entries) : k <= j
         /\ m = CHOOSE k \in BadAt(entries') : \A j \in BadAt(entries') : k <= j
    BY <2>6, <2>7, <2>8, <2>9
  <2>. QED BY <2>5, <2>7, <2>10, Verdict
<1>. QED BY <1>1, <1>2 DEF Finance!Next, Finance!ReadHead, Finance!MakeBody, Finance!AppendEntry,
       Finance!VerifyReceipts, Finance!Restart, financeVars


\* In a chain that verifies every entry has its number, its digest and its predecessor's.
LEMMA ChainVerified ==
  ASSUME Finance!EntriesInv, Finance!Verify(entries).state = "CONSISTENT"
  PROVE  /\ Len(entries) \in Nat /\ DOMAIN entries = 1 .. Len(entries)
         /\ \A i \in DOMAIN entries :
              /\ entries[i] = Finance!Entry(entries[i].body)
              /\ entries[i].body = Finance!Body(i - 1, entries[i].body.payload, entries[i].body.prev)
              /\ i + 1 \in DOMAIN entries => entries[i + 1].body.prev = entries[i].digest
<1>1. entries \in Seq(Finance!ToSet(entries)) /\ Len(entries) \in Nat /\ DOMAIN entries = 1 .. Len(entries)
  BY LenProperties DEF Finance!EntriesInv
<1>2. \A i \in DOMAIN entries : Finance!Linked(entries, i)
  BY Verdict DEF BadAt
<1>3. \A i \in DOMAIN entries : entries[i].body.seq = i - 1
  BY <1>2 DEF Finance!Linked
<1>4. \A i \in DOMAIN entries :
        /\ entries[i] = Finance!Entry(entries[i].body)
        /\ entries[i].body = Finance!Body(entries[i].body.seq, entries[i].body.payload, entries[i].body.prev)
  BY DEF Finance!EntriesInv
<1>5. ASSUME NEW i \in DOMAIN entries, i + 1 \in DOMAIN entries
      PROVE  entries[i + 1].body.prev = entries[i].digest
  <2>1. entries[i + 1].body.prev = Finance!ChainHead(SubSeq(entries, 1, i))
    <3>1. (i + 1) - 1 = i
      BY <1>1
    <3>. QED BY <1>2, <1>5, <3>1 DEF Finance!Linked
  <2>2. /\ Len(SubSeq(entries, 1, i)) = i /\ SubSeq(entries, 1, i)[i] = entries[i]
        /\ SubSeq(entries, 1, i) # <<>>
    <3>1. i \in 1 .. Len(entries) /\ i \in Int /\ 1 <= i
      BY <1>1
    <3>2. \A k \in 1 .. i : entries[k] \in Finance!ToSet(entries)
      BY <1>1, <3>1 DEF Finance!ToSet
    <3>3. /\ Len(SubSeq(entries, 1, i)) = i
          /\ \A k \in 1 .. i : SubSeq(entries, 1, i)[k] = entries[1 + k - 1]
      BY <3>1, <3>2, SubSeqProperties
    <3>. QED BY <3>1, <3>3
  <2>. QED BY <2>1, <2>2 DEF Finance!ChainHead, Finance!Last
<1>. QED BY <1>1, <1>3, <1>4, <1>5

LEMMA FoundDivergent ==
  ASSUME NEW copy, NEW i \in DOMAIN copy,
         copy[i].body.seq # i - 1 \/ ~ Finance!Linked(copy, i) \/ ~ Finance!Intact(copy, i)
  PROVE  Finance!Verify(copy).state = "DIVERGENT"
<1>1. i \in BadAt(copy)
  BY DEF BadAt, Finance!Linked
<1>. QED BY <1>1, Verdict

LEMMA EntriesAre ==
  /\ \A body : Finance!Entry(body).body = body /\ Finance!Entry(body).digest = <<body>>
  /\ \A seq, payload, prev, p :
       LET body == Finance!Body(seq, payload, prev) IN
       /\ body.seq = seq
       /\ Finance!WithPayload(body, p) = Finance!Body(seq, p, prev)
  /\ \A a, b : <<a>> = <<b>> => a = b
<1>1. \A a, b : <<a>> = <<b>> => a = b
  <2>1. \A a : <<a>>[1] = a
    OBVIOUS
  <2>. QED BY <2>1, Zenon
<1>. QED BY <1>1 DEF Finance!Entry, Finance!Body, Finance!WithPayload

LEMMA TamperingIsFound ==
  ASSUME Finance!EntriesInv, Finance!Verify(entries).state = "CONSISTENT",
         NEW copy \in Finance!Mutations(entries) \cup Finance!Swaps(entries)
                        \cup Finance!Drops(entries) \cup Finance!Injections(entries),
         copy # entries
  PROVE  Finance!Verify(copy).state = "DIVERGENT"
<1>. DEFINE n == Len(entries)
<1>1. /\ n \in Nat /\ DOMAIN entries = 1 .. n
      /\ \A i \in 1 .. n :
              /\ entries[i] = Finance!Entry(entries[i].body)
              /\ entries[i].body = Finance!Body(i - 1, entries[i].body.payload, entries[i].body.prev)
              /\ i + 1 \in 1 .. n => entries[i + 1].body.prev = entries[i].digest
  BY ChainVerified
<1>2. ASSUME NEW i \in 1 .. n
      PROVE  /\ entries[i].digest = <<entries[i].body>>
             /\ entries[i].body.seq = i - 1
             /\ \A p : Finance!WithPayload(entries[i].body, p).seq = i - 1
  <2>1. PICK body : entries[i] = Finance!Entry(body)
    BY <1>1
  <2>2. entries[i].digest = <<body>> /\ entries[i].body = body
    BY <2>1, EntriesAre
  <2>3. PICK q, r : entries[i].body = Finance!Body(i - 1, q, r)
    BY <1>1
  <2>4. entries[i].body.seq = i - 1 /\ \A p : Finance!WithPayload(entries[i].body, p).seq = i - 1
    BY <2>3, EntriesAre
  <2>. QED BY <2>2, <2>4
<1>3. entries \in Seq(Finance!ToSet(entries)) /\ \A i \in 1 .. n : entries[i] \in Finance!ToSet(entries)
  BY <1>1 DEF Finance!EntriesInv, Finance!ToSet
<1>4. entries = [k \in 1 .. n |-> entries[k]]
  BY <1>3, LenProperties
<1>5. ASSUME NEW i \in 1 .. n, NEW e, copy = [entries EXCEPT ![i] = e]
      PROVE  /\ DOMAIN copy = 1 .. n /\ copy[i] = e
             /\ \A k \in 1 .. n : k # i => copy[k] = entries[k]
             /\ e # entries[i]
  <2>1. /\ DOMAIN copy = 1 .. n /\ copy[i] = e
        /\ \A k \in 1 .. n : k # i => copy[k] = entries[k]
    BY <1>1, <1>4, <1>5
  <2>2. e = entries[i] => copy = entries
    BY <1>4, <1>5
  <2>. QED BY <2>1, <2>2
<1>6. ASSUME NEW i \in 1 .. n, NEW p, NEW j \in 1 .. n,
             copy = [entries EXCEPT ![i] =
               [body |-> Finance!WithPayload(entries[i].body, p), digest |-> entries[j].digest]]
      PROVE  ~ Finance!Intact(copy, i)
  <2>. DEFINE body == Finance!WithPayload(entries[i].body, p)
  <2>2. body.seq = i - 1
    BY <1>2
  <2>6. copy = [entries EXCEPT ![i] = [body |-> body, digest |-> entries[j].digest]]
    BY <1>6
  <2>. HIDE DEF body
  <2>. DEFINE e == [body |-> body, digest |-> entries[j].digest]
  <2>1. copy = [entries EXCEPT ![i] = e]
    BY <2>6
  <2>3. /\ e.body = body /\ e.digest = entries[j].digest
        /\ entries[j].digest = <<body>> => e = Finance!Entry(body)
    BY DEF Finance!Entry
  <2>. HIDE DEF e
  <2>4. copy[i] = e /\ e # entries[i]
    BY <1>5, <2>1
  <2>5. ASSUME Finance!Intact(copy, i) PROVE FALSE
    <3>1. entries[j].digest = <<body>>
      BY <2>3, <2>4, <2>5 DEF Finance!Intact
    <3>2. entries[j].body = body
      BY <1>2, <3>1, EntriesAre
    <3>3. j - 1 = i - 1
      BY <1>2, <2>2, <3>2
    <3>4. j = i
      BY <3>3
    <3>5. entries[i] = Finance!Entry(body) /\ e = Finance!Entry(body)
      BY <1>1, <2>3, <3>1, <3>2, <3>4
    <3>. QED BY <2>4, <3>5
  <2>. QED BY <2>5
<1>7. ASSUME NEW i \in 1 .. n - 1, NEW p,
             copy = [entries EXCEPT ![i] = Finance!Entry(Finance!WithPayload(entries[i].body, p))]
      PROVE  i + 1 \in DOMAIN copy /\ ~ Finance!Linked(copy, i + 1)
  <2>. DEFINE body == Finance!WithPayload(entries[i].body, p)
              e == Finance!Entry(body)
  <2>1. copy = [entries EXCEPT ![i] = e] /\ i \in 1 .. n /\ i + 1 \in 1 .. n /\ i \in Int
    BY <1>1, <1>7
  <2>2. e.body = body /\ e.digest = <<body>> /\ e = Finance!Entry(body)
    BY EntriesAre
  <2>. HIDE DEF body, e
  <2>3. copy[i] = e /\ copy[i + 1] = entries[i + 1] /\ e # entries[i] /\ DOMAIN copy = 1 .. n
    <3>1. /\ DOMAIN copy = 1 .. n /\ copy[i] = e /\ e # entries[i]
          /\ \A k \in 1 .. n : k # i => copy[k] = entries[k]
      BY <1>5, <2>1
    <3>2. i + 1 # i
      BY <2>1
    <3>. QED BY <2>1, <3>1, <3>2
  <2>4. entries[i].digest # e.digest
    <3>1. ASSUME entries[i].digest = e.digest PROVE FALSE
      <4>1. <<entries[i].body>> = <<body>>
        BY <1>2, <2>1, <2>2, <3>1
      <4>2. entries[i].body = body
        BY <4>1, EntriesAre
      <4>. QED BY <1>1, <2>1, <2>2, <2>3, <4>2
    <3>. QED BY <3>1
  <2>5. Finance!ChainHead(SubSeq(copy, 1, i)) = e.digest
    <3>1. copy \in Seq(Finance!ToSet(entries) \cup {e}) /\ Len(copy) = n
      <4>1. entries \in Seq(Finance!ToSet(entries) \cup {e})
        BY <1>3, SeqMonotonic
      <4>. QED BY <2>1, <4>1, ExceptSeq
    <3>2. \A k \in 1 .. i : copy[k] \in Finance!ToSet(entries) \cup {e}
      BY <2>1, <3>1, ElementOfSeq
    <3>3. /\ Len(SubSeq(copy, 1, i)) = i
          /\ \A k \in 1 .. i : SubSeq(copy, 1, i)[k] = copy[1 + k - 1]
      BY <2>1, <3>2, SubSeqProperties
    <3>4. SubSeq(copy, 1, i) # <<>> /\ SubSeq(copy, 1, i)[i] = e
      BY <2>1, <2>3, <3>3
    <3>. QED BY <3>3, <3>4 DEF Finance!ChainHead, Finance!Last
  <2>6. copy[i + 1].body.prev = entries[i].digest
    BY <1>1, <2>1, <2>3
  <2>7. (i + 1) - 1 = i
    BY <2>1
  <2>. QED BY <2>1, <2>3, <2>4, <2>5, <2>6, <2>7 DEF Finance!Linked
<1>8. CASE copy \in Finance!Mutations(entries)
  <2>1. CASE \E i \in DOMAIN entries, p \in Things, d \in {entries[j].digest : j \in DOMAIN entries} :
               copy = [entries EXCEPT ![i] =
                 [body |-> Finance!WithPayload(entries[i].body, p), digest |-> d]]
    <3>1. PICK i \in 1 .. n, p \in Things, j \in 1 .. n :
               copy = [entries EXCEPT ![i] =
                 [body |-> Finance!WithPayload(entries[i].body, p), digest |-> entries[j].digest]]
      <4>1. PICK i \in DOMAIN entries, p \in Things, d \in {entries[j].digest : j \in DOMAIN entries} :
               copy = [entries EXCEPT ![i] =
                 [body |-> Finance!WithPayload(entries[i].body, p), digest |-> d]]
        BY <2>1
      <4>2. PICK j \in DOMAIN entries : d = entries[j].digest
        OBVIOUS
      <4>. QED BY <1>1, <4>1, <4>2
    <3>2. i \in DOMAIN copy /\ ~ Finance!Intact(copy, i)
      BY <1>1, <1>5, <1>6, <3>1
    <3>. QED BY <3>2, FoundDivergent
  <2>2. CASE \E i \in 1 .. n - 1, p \in Things :
               copy = [entries EXCEPT ![i] = Finance!Entry(Finance!WithPayload(entries[i].body, p))]
    <3>1. \E i \in 1 .. n - 1 : i + 1 \in DOMAIN copy /\ ~ Finance!Linked(copy, i + 1)
      BY <1>7, <2>2
    <3>. QED BY <3>1, FoundDivergent
  <2>. DEFINE Kept == {[entries EXCEPT ![i] = [body |-> Finance!WithPayload(entries[i].body, p), digest |-> d]] :
                         i \in DOMAIN entries, p \in Things, d \in {entries[j].digest : j \in DOMAIN entries}}
              Anew == {[entries EXCEPT ![i] = Finance!Entry(Finance!WithPayload(entries[i].body, p))] :
                         i \in 1 .. n - 1, p \in Things}
  <2>3. copy \in Kept \/ copy \in Anew
    BY <1>8 DEF Finance!Mutations
  <2>4. copy \in Kept =>
          \E i \in DOMAIN entries, p \in Things, d \in {entries[j].digest : j \in DOMAIN entries} :
               copy = [entries EXCEPT ![i] =
                 [body |-> Finance!WithPayload(entries[i].body, p), digest |-> d]]
    OBVIOUS
  <2>5. copy \in Anew =>
          \E i \in 1 .. n - 1, p \in Things :
               copy = [entries EXCEPT ![i] = Finance!Entry(Finance!WithPayload(entries[i].body, p))]
    OBVIOUS
  <2>. HIDE DEF Kept, Anew
  <2>. QED BY <2>1, <2>2, <2>3, <2>4, <2>5
<1>9. CASE copy \in Finance!Swaps(entries)
  <2>1. PICK i \in 1 .. n, j \in 1 .. n :
          copy = [k \in 1 .. n |-> IF k = i THEN entries[j] ELSE IF k = j THEN entries[i] ELSE entries[k]]
    BY <1>1, <1>9 DEF Finance!Swaps
  <2>2. i # j
    BY <1>4, <2>1
  <2>3. i \in DOMAIN copy /\ copy[i] = entries[j]
    BY <2>1
  <2>4. copy[i].body.seq # i - 1
    <3>1. copy[i].body.seq = j - 1
      BY <1>2, <2>3
    <3>2. j - 1 # i - 1
      BY <2>2
    <3>. QED BY <3>1, <3>2
  <2>. QED BY <2>3, <2>4, FoundDivergent
<1>10. ASSUME NEW i \in 1 .. n, NEW e, copy = Finance!InsertAt(entries, i, e)
       PROVE  i + 1 \in DOMAIN copy /\ copy[i + 1] = entries[i]
  <2>. DEFINE S == Finance!ToSet(entries) \cup {e}
              before == SubSeq(entries, 1, i - 1)
              after == SubSeq(entries, i, n)
  <2>1. \A k \in 1 .. n : entries[k] \in S
    BY <1>3
  <2>2. i \in Int /\ n \in Int /\ 1 <= i /\ i <= n
    BY <1>1
  <2>3. before \in Seq(S) /\ Len(before) = i - 1
    <3>1. i - 1 \in Int /\ \A k \in 1 .. i - 1 : entries[k] \in S
      BY <2>1, <2>2
    <3>. QED BY <2>2, <3>1, SubSeqProperties
  <2>4. after \in Seq(S) /\ Len(after) = n - i + 1 /\ after[1] = entries[i]
    <3>1. \A k \in i .. n : entries[k] \in S
      BY <2>1, <2>2
    <3>2. /\ after \in Seq(S) /\ Len(after) = n - i + 1
          /\ \A k \in 1 .. n - i + 1 : after[k] = entries[i + k - 1]
      BY <2>2, <3>1, SubSeqProperties
    <3>3. 1 \in 1 .. n - i + 1 /\ i + 1 - 1 = i
      BY <2>2
    <3>. QED BY <3>2, <3>3
  <2>5. copy = before \o <<e>> \o after
    BY <1>10 DEF Finance!InsertAt
  <2>. HIDE DEF before, after, S
  <2>6. <<e>> \in Seq(S) /\ Len(<<e>>) = 1
    BY DEF S
  <2>7. before \o <<e>> \in Seq(S) /\ Len(before \o <<e>>) = i
    BY <2>2, <2>3, <2>6, ConcatProperties
  <2>. DEFINE first == before \o <<e>>
  <2>10. first \in Seq(S) /\ Len(first) = i /\ copy = first \o after
    BY <2>5, <2>7
  <2>. HIDE DEF first
  <2>11. /\ copy \in Seq(S) /\ Len(copy) = Len(first) + Len(after)
         /\ \A k \in 1 .. Len(first) + Len(after) :
              copy[k] = IF k <= Len(first) THEN first[k] ELSE after[k - Len(first)]
    BY <2>4, <2>10, ConcatProperties
  <2>8. /\ copy \in Seq(S) /\ Len(copy) = i + (n - i + 1)
        /\ \A k \in 1 .. i + (n - i + 1) : copy[k] = IF k <= i THEN first[k] ELSE after[k - i]
    BY <2>4, <2>10, <2>11
  <2>9. i + 1 \in 1 .. i + (n - i + 1) /\ ~ (i + 1 <= i) /\ (i + 1) - i = 1
    BY <2>2
  <2>. QED BY <2>4, <2>8, <2>9, LenProperties
<1>11. ASSUME NEW i \in 1 .. n - 1, copy = Finance!RemoveAt(entries, i)
       PROVE  i \in DOMAIN copy /\ copy[i] = entries[i + 1]
  <2>. DEFINE S == Finance!ToSet(entries)
              before == SubSeq(entries, 1, i - 1)
              after == SubSeq(entries, i + 1, n)
  <2>1. \A k \in 1 .. n : entries[k] \in S
    BY <1>3
  <2>2. i \in Int /\ n \in Int /\ 1 <= i /\ i < n
    BY <1>1
  <2>3. before \in Seq(S) /\ Len(before) = i - 1
    <3>1. i - 1 \in Int /\ \A k \in 1 .. i - 1 : entries[k] \in S
      BY <2>1, <2>2
    <3>. QED BY <2>2, <3>1, SubSeqProperties
  <2>4. after \in Seq(S) /\ Len(after) = n - i /\ after[1] = entries[i + 1]
    <3>1. i + 1 \in Int /\ \A k \in i + 1 .. n : entries[k] \in S
      BY <2>1, <2>2
    <3>2. /\ after \in Seq(S) /\ Len(after) = n - (i + 1) + 1
          /\ \A k \in 1 .. n - (i + 1) + 1 : after[k] = entries[(i + 1) + k - 1]
      BY <2>2, <3>1, SubSeqProperties
    <3>3. 1 \in 1 .. n - (i + 1) + 1 /\ (i + 1) + 1 - 1 = i + 1
      BY <2>2
    <3>. QED BY <2>2, <3>2, <3>3
  <2>5. copy = before \o after
    BY <1>11 DEF Finance!RemoveAt
  <2>. HIDE DEF before, after, S
  <2>8. /\ copy \in Seq(S) /\ Len(copy) = Len(before) + Len(after)
        /\ \A k \in 1 .. Len(before) + Len(after) :
             copy[k] = IF k <= Len(before) THEN before[k] ELSE after[k - Len(before)]
    BY <2>3, <2>4, <2>5, ConcatProperties
  <2>6. /\ copy \in Seq(S) /\ Len(copy) = (i - 1) + (n - i)
        /\ \A k \in 1 .. (i - 1) + (n - i) : copy[k] = IF k <= i - 1 THEN before[k] ELSE after[k - (i - 1)]
    BY <2>3, <2>4, <2>8
  <2>7. i \in 1 .. (i - 1) + (n - i) /\ ~ (i <= i - 1) /\ i - (i - 1) = 1
    BY <2>2
  <2>. QED BY <2>4, <2>6, <2>7, LenProperties
<1>12. CASE copy \in Finance!Drops(entries)
  <2>1. PICK i \in 1 .. n - 1 : copy = Finance!RemoveAt(entries, i)
    BY <1>12 DEF Finance!Drops
  <2>2. i + 1 \in 1 .. n /\ i \in Int
    BY <1>1
  <2>3. i \in DOMAIN copy /\ copy[i].body.seq = (i + 1) - 1
    BY <1>2, <1>11, <2>1, <2>2
  <2>. QED BY <2>2, <2>3, FoundDivergent
<1>13. CASE copy \in Finance!Injections(entries)
  <2>1. PICK i \in 1 .. n : \E e : copy = Finance!InsertAt(entries, i, e)
    BY <1>1, <1>13 DEF Finance!Injections
  <2>2. i + 1 \in DOMAIN copy /\ copy[i + 1].body.seq = i - 1
    BY <1>2, <1>10, <2>1
  <2>3. i - 1 # (i + 1) - 1
    BY <1>1
  <2>. QED BY <2>2, <2>3, FoundDivergent
<1>. QED BY <1>8, <1>9, <1>12, <1>13

-----------------------------------------------------------------------------
(* CounselMatters *)

\* The finite sets of the instance are the finite sets.
LEMMA FiniteMatters ==
  /\ \A S : Counsel!Cardinality(S) = Cardinality(S)
  /\ \A S : Counsel!IsFiniteSet(S) <=> IsFiniteSet(S)
BY DEF Cardinality, Counsel!Cardinality, IsFiniteSet, Counsel!IsFiniteSet

Recording == {c \in Threads : matterCalls[c].op = "recorded"}

LEMMA RecordingIs ==
  ASSUME Counsel!MattersAssumption
  PROVE  /\ IsFiniteSet(Recording) /\ Cardinality(Recording) \in Nat
         /\ Counsel!Pending = {matterCalls[c].step : c \in Recording}
<1>1. IsFiniteSet(Threads)
  BY FiniteMatters DEF Counsel!MattersAssumption
<1>2. IsFiniteSet(Recording)
  BY <1>1, FS_Subset DEF Recording
<1>. QED BY <1>2, FS_CardinalityType DEF Counsel!Pending, Recording

LEMMA RecordedAre ==
  \A s : s \in Counsel!StepsRecorded <=>
          \E m \in DOMAIN matters :
            s = <<m, 0>> \/ \E i \in DOMAIN matters[m] : s = <<m, matters[m][i]>>
BY DEF Counsel!StepsRecorded, Counsel!Opened, Counsel!ToSet

LEMMA RecordedThen ==
  \A s : s \in Counsel!StepsRecorded' <=>
          \E m \in DOMAIN matters' :
            s = <<m, 0>> \/ \E i \in DOMAIN matters'[m] : s = <<m, matters'[m][i]>>
BY DEF Counsel!StepsRecorded, Counsel!Opened, Counsel!ToSet

LEMMA MattersStart ==
  ASSUME Counsel!MattersAssumption, Counsel!Init
  PROVE  Counsel!MattersInv
<1>1. /\ DOMAIN matters = {} /\ chain = <<>> /\ previous = <<>>
      /\ matterCalls = [c \in Threads |-> [op |-> "idle"]] /\ used = {}
  BY DEF Counsel!Init, Counsel!Genesis
<1>2. Counsel!TypeOK
  BY <1>1 DEF Counsel!MattersAssumption, Counsel!TypeOK, Counsel!Opened, Counsel!Hash
<1>3. Counsel!KeptChainIsLinked
  BY <1>1 DEF Counsel!MattersAssumption, Counsel!KeptChainIsLinked, Counsel!Genesis
<1>4. Counsel!StepsRecorded = {}
  BY <1>1 DEF Counsel!StepsRecorded, Counsel!Opened
<1>5. Recording = {} /\ Counsel!Pending = {}
  BY <1>1 DEF Recording, Counsel!Pending
<1>6. Counsel!ToSet(previous) = {} /\ Len(previous) = 0
  BY <1>1 DEF Counsel!ToSet
<1>7. Counsel!RecordedIsChainedOnce
  BY <1>4, <1>5, <1>6, FiniteMatters, FS_EmptySet DEF Counsel!RecordedIsChainedOnce, Recording
<1>. QED BY <1>1, <1>2, <1>3, <1>4, <1>7, FiniteMatters, FS_EmptySet DEF Counsel!MattersInv, Counsel!Opened

\* A step that is recorded and to be chained: one more of each.
LEMMA RecordedOnce ==
  ASSUME Counsel!MattersAssumption, Counsel!MattersInv,
         NEW c \in Threads, NEW step,
         matterCalls[c].op # "recorded",
         matterCalls' = [matterCalls EXCEPT ![c] = [op |-> "recorded", step |-> step]],
         UNCHANGED previous,
         step \notin Counsel!StepsRecorded, Counsel!StepsRecorded' = Counsel!StepsRecorded \cup {step}
  PROVE  Counsel!RecordedIsChainedOnce' /\ IsFiniteSet(Counsel!StepsRecorded')
<1>1. /\ DOMAIN matterCalls = Threads /\ Len(previous) \in Nat
      /\ IsFiniteSet(Counsel!StepsRecorded)
      /\ Counsel!ToSet(previous) \cup Counsel!Pending = Counsel!StepsRecorded
      /\ Len(previous) + Cardinality(Recording) = Cardinality(Counsel!StepsRecorded)
  BY FiniteMatters, LenProperties
     DEF Counsel!MattersInv, Counsel!TypeOK, Counsel!Hash, Counsel!RecordedIsChainedOnce, Recording
<1>2. /\ c \notin Recording /\ Recording' = Recording \cup {c}
      /\ \A d \in Recording : matterCalls'[d] = matterCalls[d]
      /\ matterCalls'[c].step = step
  BY <1>1 DEF Recording
<1>3. Counsel!Pending' = Counsel!Pending \cup {step}
  BY <1>2, RecordingIs DEF Counsel!Pending, Recording
<1>4. Counsel!ToSet(previous)' = Counsel!ToSet(previous)
  BY DEF Counsel!ToSet
<1>5. Cardinality(Recording') = Cardinality(Recording) + 1
  BY <1>2, RecordingIs, FS_AddElement
<1>6. /\ Cardinality(Counsel!StepsRecorded') = Cardinality(Counsel!StepsRecorded) + 1
      /\ IsFiniteSet(Counsel!StepsRecorded')
  BY <1>1, FS_AddElement
<1>7. Len(previous') + Cardinality(Recording') = Cardinality(Counsel!StepsRecorded')
  BY <1>1, <1>5, <1>6, RecordingIs
<1>8. Counsel!ToSet(previous)' \cup Counsel!Pending' = Counsel!StepsRecorded'
  BY <1>1, <1>3, <1>4
<1>. QED BY <1>6, <1>7, <1>8, FiniteMatters DEF Counsel!RecordedIsChainedOnce, Recording

LEMMA OpenStays ==
  ASSUME Counsel!MattersAssumption, Counsel!MattersInv, NEW c \in Threads, Counsel!Open(c)
  PROVE  Counsel!MattersInv'
<1>1. PICK m \in Things \ used :
        /\ matters' = [n \in DOMAIN matters \cup {m} |-> IF n = m THEN <<>> ELSE matters[n]]
        /\ used' = used \cup {m}
        /\ matterCalls' = [matterCalls EXCEPT ![c] = [op |-> "recorded", step |-> <<m, 0>>]]
  BY DEF Counsel!Open, Counsel!Opened, Counsel!Becomes, Counsel!Recorded
<1>2. UNCHANGED <<chain, previous>> /\ matterCalls[c].op # "recorded"
  BY DEF Counsel!Open
<1>3. m \notin DOMAIN matters /\ DOMAIN matters \subseteq used /\ DOMAIN matters \subseteq Things
  BY DEF Counsel!MattersInv, Counsel!TypeOK, Counsel!Opened
<1>4. /\ DOMAIN matters' = DOMAIN matters \cup {m} /\ matters'[m] = <<>>
      /\ \A n \in DOMAIN matters : matters'[n] = matters[n]
  BY <1>1, <1>3
<1>5. \A n \in DOMAIN matters :
        /\ matters[n] \in Seq(Nat \ {0}) /\ Len(matters[n]) <= MatterItems
        /\ \A i \in DOMAIN matters[n] : matters[n][i] = i
  BY DEF Counsel!MattersInv, Counsel!TypeOK, Counsel!Opened
<1>6. /\ <<>> \in Seq(Nat \ {0}) /\ Len(<<>>) <= MatterItems /\ DOMAIN <<>> = {} /\ Len(<<>>) = 0
  BY DEF Counsel!MattersAssumption
<1>7. \A n \in DOMAIN matters' :
        /\ matters'[n] \in Seq(Nat \ {0}) /\ Len(matters'[n]) <= MatterItems
        /\ \A i \in DOMAIN matters'[n] : matters'[n][i] = i
  BY <1>4, <1>5, <1>6
<1>8. Counsel!TypeOK'
  <2>1. matterCalls \in [Threads -> [op : {"idle"}] \cup [op : {"recorded"}, step : Counsel!Step]
                           \cup [op : {"answered"}, receipt : Counsel!Receipt]
                           \cup [op : {"refused"}, matter : Things]]
    BY DEF Counsel!MattersInv, Counsel!TypeOK
  <2>2. [op |-> "recorded", step |-> <<m, 0>>] \in [op : {"recorded"}, step : Counsel!Step]
    BY <1>1 DEF Counsel!Step
  <2>3. matterCalls' \in [Threads -> [op : {"idle"}] \cup [op : {"recorded"}, step : Counsel!Step]
                           \cup [op : {"answered"}, receipt : Counsel!Receipt]
                           \cup [op : {"refused"}, matter : Things]]
    BY <1>1, <2>1, <2>2
  <2>4. used' \subseteq Things
    BY <1>1 DEF Counsel!MattersInv, Counsel!TypeOK
  <2>. QED BY <1>1, <1>2, <1>3, <1>4, <1>7, <2>3, <2>4 DEF Counsel!MattersInv, Counsel!TypeOK, Counsel!Opened
<1>9. Counsel!KeptChainIsLinked'
  BY <1>2 DEF Counsel!MattersInv, Counsel!KeptChainIsLinked
<1>10. <<m, 0>> \notin Counsel!StepsRecorded
  BY <1>3, RecordedAre
<1>11. Counsel!StepsRecorded' = Counsel!StepsRecorded \cup {<<m, 0>>}
  BY <1>4, <1>6, RecordedAre, RecordedThen
<1>12. Counsel!RecordedIsChainedOnce' /\ IsFiniteSet(Counsel!StepsRecorded')
  BY <1>1, <1>2, <1>10, <1>11, RecordedOnce
<1>13. Counsel!Opened' \subseteq used'
  BY <1>1, <1>3, <1>4 DEF Counsel!Opened
<1>. QED BY <1>7, <1>8, <1>9, <1>12, <1>13, FiniteMatters DEF Counsel!MattersInv, Counsel!Opened

LEMMA MapObligationStays ==
  ASSUME Counsel!MattersAssumption, Counsel!MattersInv, NEW c \in Threads, Counsel!MapObligation(c)
  PROVE  Counsel!MattersInv'
<1>1. UNCHANGED <<chain, previous, used>> /\ matterCalls[c].op # "recorded"
  BY DEF Counsel!MapObligation
<1>2. /\ matterCalls \in [Threads -> [op : {"idle"}] \cup [op : {"recorded"}, step : Counsel!Step]
                           \cup [op : {"answered"}, receipt : Counsel!Receipt]
                           \cup [op : {"refused"}, matter : Things]]
      /\ DOMAIN matters \subseteq Things
  BY DEF Counsel!MattersInv, Counsel!TypeOK, Counsel!Opened
<1>3. Counsel!KeptChainIsLinked'
  BY <1>1 DEF Counsel!MattersInv, Counsel!KeptChainIsLinked
<1>4. \A n \in DOMAIN matters :
        /\ matters[n] \in Seq(Nat \ {0}) /\ Len(matters[n]) <= MatterItems
        /\ \A i \in DOMAIN matters[n] : matters[n][i] = i
  BY DEF Counsel!MattersInv, Counsel!TypeOK, Counsel!Opened
<1>5. ASSUME NEW m \in DOMAIN matters, Len(matters[m]) < MatterItems,
             matters' = [matters EXCEPT ![m] = Append(@, Counsel!NextItem(m))],
             Counsel!Becomes(c, Counsel!Recorded(m, Counsel!NextItem(m)))
      PROVE  Counsel!MattersInv'
  <2>. DEFINE n == Len(matters[m]) + 1
              old == matters[m]
  <2>1. /\ matters' = [matters EXCEPT ![m] = Append(old, n)]
        /\ matterCalls' = [matterCalls EXCEPT ![c] = [op |-> "recorded", step |-> <<m, n>>]]
    BY <1>5 DEF Counsel!NextItem, Counsel!Becomes, Counsel!Recorded
  <2>2. /\ old \in Seq(Nat \ {0}) /\ Len(old) \in Nat /\ DOMAIN old = 1 .. Len(old)
        /\ n \in Nat \ {0} /\ \A i \in DOMAIN old : old[i] = i
    BY <1>4, LenProperties
  <2>3. /\ Append(old, n) \in Seq(Nat \ {0}) /\ Len(Append(old, n)) = n
        /\ DOMAIN Append(old, n) = 1 .. n
        /\ \A i \in 1 .. Len(old) : Append(old, n)[i] = old[i]
        /\ Append(old, n)[n] = n
    BY <2>2, AppendProperties, LenProperties
  <2>4. DOMAIN matters' = DOMAIN matters /\ \A k \in DOMAIN matters : k # m => matters'[k] = matters[k]
    BY <2>1
  <2>5. matters'[m] = Append(old, n)
    BY <2>1
  <2>6. n <= MatterItems
    BY <1>5, <2>2 DEF Counsel!MattersAssumption
  <2>7. \A i \in 1 .. n : Append(old, n)[i] = i
    BY <2>2, <2>3
  <2>. HIDE DEF n, old
  <2>8. \A k \in DOMAIN matters' :
          /\ matters'[k] \in Seq(Nat \ {0}) /\ Len(matters'[k]) <= MatterItems
          /\ \A i \in DOMAIN matters'[k] : matters'[k][i] = i
    BY <1>4, <2>3, <2>4, <2>5, <2>6, <2>7
  <2>9. Counsel!TypeOK'
    <3>1. [op |-> "recorded", step |-> <<m, n>>] \in [op : {"recorded"}, step : Counsel!Step]
      BY <1>2, <2>2 DEF Counsel!Step
    <3>2. matterCalls' \in [Threads -> [op : {"idle"}] \cup [op : {"recorded"}, step : Counsel!Step]
                           \cup [op : {"answered"}, receipt : Counsel!Receipt]
                           \cup [op : {"refused"}, matter : Things]]
      BY <1>2, <2>1, <3>1
    <3>. QED BY <1>1, <2>4, <2>8, <3>2 DEF Counsel!MattersInv, Counsel!TypeOK, Counsel!Opened
  <2>10. <<m, n>> \notin Counsel!StepsRecorded
    <3>1. ASSUME <<m, n>> \in Counsel!StepsRecorded PROVE FALSE
      <4>1. n = 0 \/ \E i \in DOMAIN old : n = old[i]
        BY <3>1, RecordedAre DEF old
      <4>2. n \notin 1 .. Len(old)
        BY <2>2 DEF n, old
      <4>. QED BY <2>2, <4>1, <4>2
    <3>. QED BY <3>1
  <2>11. Counsel!StepsRecorded' = Counsel!StepsRecorded \cup {<<m, n>>}
    <3>1. 1 .. n = 1 .. Len(old) \cup {n}
      BY <2>2 DEF n, old
    <3>2. \A s : (\E i \in DOMAIN matters'[m] : s = <<m, matters'[m][i]>>)
                   <=> (\E i \in DOMAIN old : s = <<m, old[i]>>) \/ s = <<m, n>>
      BY <2>2, <2>3, <2>5, <3>1
    <3>3. \A s : s \in Counsel!StepsRecorded' <=> s \in Counsel!StepsRecorded \cup {<<m, n>>}
      BY <2>4, <3>2, RecordedAre, RecordedThen DEF old
    <3>. QED BY <3>3
  <2>12. Counsel!RecordedIsChainedOnce' /\ IsFiniteSet(Counsel!StepsRecorded')
    BY <1>1, <2>1, <2>10, <2>11, RecordedOnce
  <2>13. Counsel!Opened' \subseteq used'
    BY <1>1, <2>4 DEF Counsel!MattersInv, Counsel!Opened
  <2>. QED BY <1>3, <2>8, <2>9, <2>12, <2>13, FiniteMatters DEF Counsel!MattersInv, Counsel!Opened
<1>6. ASSUME NEW m \in Things, UNCHANGED matters,
             Counsel!Becomes(c, [op |-> "refused", matter |-> m])
      PROVE  Counsel!MattersInv'
  <2>1. matterCalls' = [matterCalls EXCEPT ![c] = [op |-> "refused", matter |-> m]]
    BY <1>6 DEF Counsel!Becomes
  <2>2. matterCalls' \in [Threads -> [op : {"idle"}] \cup [op : {"recorded"}, step : Counsel!Step]
                           \cup [op : {"answered"}, receipt : Counsel!Receipt]
                           \cup [op : {"refused"}, matter : Things]]
    BY <1>2, <2>1
  <2>3. Counsel!TypeOK'
    BY <1>1, <1>6, <2>2 DEF Counsel!MattersInv, Counsel!TypeOK, Counsel!Opened
  <2>4. Recording' = Recording /\ \A d \in Recording : matterCalls'[d] = matterCalls[d]
    BY <1>1, <1>2, <2>1 DEF Recording
  <2>5. Counsel!StepsRecorded' = Counsel!StepsRecorded
    BY <1>6 DEF Counsel!StepsRecorded, Counsel!Opened, Counsel!ToSet
  <2>6. Counsel!Pending' = Counsel!Pending
    BY <2>4 DEF Counsel!Pending, Recording
  <2>7. Counsel!RecordedIsChainedOnce'
    BY <1>1, <2>4, <2>5, <2>6, FiniteMatters
       DEF Counsel!MattersInv, Counsel!RecordedIsChainedOnce, Recording, Counsel!ToSet
  <2>. QED BY <1>1, <1>3, <1>6, <2>3, <2>5, <2>7, FiniteMatters DEF Counsel!MattersInv, Counsel!Opened
<1>. QED BY <1>5, <1>6 DEF Counsel!MapObligation, Counsel!Opened

LEMMA ChainStays ==
  ASSUME Counsel!MattersAssumption, Counsel!MattersInv, NEW c \in Threads, Counsel!Chain(c)
  PROVE  Counsel!MattersInv'
<1>. DEFINE step == matterCalls[c].step
            receipt == Counsel!Link(step)
            longer == Append(chain, receipt)
<1>1. /\ matterCalls[c].op = "recorded" /\ previous' = receipt.hash
      /\ chain' = IF Len(longer) > KeptReceipts THEN Tail(longer) ELSE longer
      /\ matterCalls' = [matterCalls EXCEPT ![c] = [op |-> "answered", receipt |-> receipt]]
      /\ UNCHANGED <<matters, used>>
  BY DEF Counsel!Chain, Counsel!Newest, Counsel!Becomes
<1>2. /\ matterCalls \in [Threads -> [op : {"idle"}] \cup [op : {"recorded"}, step : Counsel!Step]
                           \cup [op : {"answered"}, receipt : Counsel!Receipt]
                           \cup [op : {"refused"}, matter : Things]]
      /\ chain \in Seq(Counsel!Receipt) /\ previous \in Seq(Counsel!Step)
      /\ KeptReceipts \in Nat /\ KeptReceipts > 0
  BY DEF Counsel!MattersInv, Counsel!TypeOK, Counsel!Hash, Counsel!MattersAssumption
<1>3. step \in Counsel!Step
  BY <1>1, <1>2
<1>4. receipt.step = step /\ receipt.prev = previous /\ receipt.hash = Append(previous, step)
  BY DEF Counsel!Link
<1>5. /\ Append(previous, step) \in Seq(Counsel!Step) /\ Len(previous) \in Nat
      /\ Len(Append(previous, step)) = Len(previous) + 1
      /\ DOMAIN Append(previous, step) = 1 .. Len(previous) + 1
      /\ DOMAIN previous = 1 .. Len(previous)
      /\ \A i \in 1 .. Len(previous) : Append(previous, step)[i] = previous[i]
      /\ Append(previous, step)[Len(previous) + 1] = step
  BY <1>2, <1>3, AppendProperties, LenProperties
<1>6. receipt \in Counsel!Receipt
  BY <1>2, <1>3, <1>5 DEF Counsel!Receipt, Counsel!Hash, Counsel!Link
<1>. HIDE DEF receipt, step
<1>7. /\ longer \in Seq(Counsel!Receipt) /\ Len(chain) \in Nat /\ Len(longer) = Len(chain) + 1
      /\ DOMAIN longer = 1 .. Len(chain) + 1 /\ DOMAIN chain = 1 .. Len(chain)
      /\ \A i \in 1 .. Len(chain) : longer[i] = chain[i]
      /\ longer[Len(chain) + 1] = receipt /\ longer # <<>>
  BY <1>2, <1>6, AppendProperties, LenProperties
<1>. HIDE DEF longer
<1>8. /\ \A i \in 1 .. Len(chain) :
           /\ chain[i].hash = Append(chain[i].prev, chain[i].step)
           /\ i > 1 => chain[i].prev = chain[i - 1].hash
      /\ previous = IF chain = <<>> THEN <<>> ELSE chain[Len(chain)].hash
      /\ Len(chain) = IF Len(previous) > KeptReceipts THEN KeptReceipts ELSE Len(previous)
  BY <1>7 DEF Counsel!MattersInv, Counsel!KeptChainIsLinked, Counsel!Last, Counsel!Genesis
<1>9. ASSUME NEW i \in 1 .. Len(chain) + 1
      PROVE  /\ longer[i].hash = Append(longer[i].prev, longer[i].step)
             /\ i > 1 => longer[i].prev = longer[i - 1].hash
  <2>1. CASE i = Len(chain) + 1
    <3>1. longer[i].hash = Append(longer[i].prev, longer[i].step)
      BY <1>4, <1>7, <2>1
    <3>2. ASSUME i > 1 PROVE longer[i].prev = longer[i - 1].hash
      <4>1. i - 1 = Len(chain) /\ Len(chain) \in 1 .. Len(chain) /\ chain # <<>>
        BY <1>2, <1>7, <2>1, <3>2
      <4>. QED BY <1>4, <1>7, <1>8, <2>1, <4>1
    <3>. QED BY <3>1, <3>2
  <2>2. CASE i \in 1 .. Len(chain)
    <3>1. i > 1 => i - 1 \in 1 .. Len(chain)
      BY <1>7, <2>2
    <3>. QED BY <1>7, <1>8, <2>2, <3>1
  <2>. QED BY <1>7, <2>1, <2>2
<1>10. Counsel!KeptChainIsLinked' /\ chain' \in Seq(Counsel!Receipt) /\ Len(chain') <= KeptReceipts
  <2>1. CASE Len(longer) > KeptReceipts
    <3>1. /\ chain' \in Seq(Counsel!Receipt) /\ Len(chain') = Len(chain)
          /\ \A i \in 1 .. Len(chain') : chain'[i] = longer[i + 1]
      BY <1>1, <1>7, <2>1, HeadTailProperties
    <3>2. Len(chain) = KeptReceipts /\ Len(previous) >= KeptReceipts
      <4>1. Len(chain) = IF Len(previous) > KeptReceipts THEN KeptReceipts ELSE Len(previous)
        BY <1>8
      <4>2. Len(chain) + 1 > KeptReceipts
        BY <1>7, <2>1
      <4>3. KeptReceipts \in Nat /\ Len(previous) \in Nat /\ Len(chain) \in Nat
        BY <1>2, <1>5, <1>7
      <4>. QED BY <4>1, <4>2, <4>3
    <3>3. DOMAIN chain' = 1 .. Len(chain)
      BY <3>1, LenProperties
    <3>4. ASSUME NEW i \in 1 .. Len(chain)
          PROVE  /\ chain'[i].hash = Append(chain'[i].prev, chain'[i].step)
                 /\ i > 1 => chain'[i].prev = chain'[i - 1].hash
      <4>1. /\ i + 1 \in 1 .. Len(chain) + 1 /\ chain'[i] = longer[i + 1]
            /\ i > 1 => i - 1 \in 1 .. Len(chain) /\ (i - 1) + 1 = (i + 1) - 1 /\ i + 1 > 1
        BY <1>7, <3>1
      <4>2. i > 1 => chain'[i - 1] = longer[(i + 1) - 1]
        BY <3>1, <4>1
      <4>. QED BY <1>9, <4>1, <4>2
    <3>5. chain'[Len(chain')] = receipt /\ chain' # <<>>
      BY <1>2, <1>7, <3>1, <3>2, <3>3
    <3>6. Len(chain') = KeptReceipts /\ Len(previous') > KeptReceipts
      BY <1>1, <1>4, <1>5, <3>1, <3>2, <1>2
    <3>7. /\ Len(chain') = IF Len(previous') > KeptReceipts THEN KeptReceipts ELSE Len(previous')
          /\ previous' = chain'[Len(chain')].hash
          /\ Len(chain') <= KeptReceipts
      BY <1>1, <1>2, <3>5, <3>6
    <3>. QED BY <3>1, <3>3, <3>4, <3>5, <3>7 DEF Counsel!KeptChainIsLinked, Counsel!Last, Counsel!Genesis
  <2>2. CASE ~ (Len(longer) > KeptReceipts)
    <3>1. chain' = longer
      BY <1>1, <2>2
    <3>2. Len(chain) = Len(previous) /\ Len(previous') = Len(previous) + 1 /\ Len(previous') <= KeptReceipts
      <4>1. Len(chain) < KeptReceipts
        BY <1>2, <1>7, <2>2
      <4>2. Len(chain) = Len(previous)
        BY <1>2, <1>5, <1>8, <4>1
      <4>3. Len(previous') = Len(previous) + 1
        BY <1>1, <1>4, <1>5
      <4>. QED BY <1>2, <1>5, <4>1, <4>2, <4>3
    <3>3. chain'[Len(chain')] = receipt /\ chain' # <<>> /\ Len(chain') = Len(previous')
      BY <1>7, <3>1, <3>2
    <3>4. DOMAIN chain' = 1 .. Len(chain) + 1
      BY <1>7, <3>1
    <3>5. Len(chain') = IF Len(previous') > KeptReceipts THEN KeptReceipts ELSE Len(previous')
      BY <1>2, <1>5, <3>2, <3>3
    <3>6. previous' = chain'[Len(chain')].hash
      BY <1>1, <3>3
    <3>. QED BY <1>1, <1>2, <1>5, <1>7, <1>9, <3>1, <3>2, <3>3, <3>4, <3>5, <3>6
             DEF Counsel!KeptChainIsLinked, Counsel!Last, Counsel!Genesis
  <2>. QED BY <2>1, <2>2
<1>11. Counsel!TypeOK'
  <2>1. [op |-> "answered", receipt |-> receipt] \in [op : {"answered"}, receipt : Counsel!Receipt]
    BY <1>6
  <2>2. matterCalls' \in [Threads -> [op : {"idle"}] \cup [op : {"recorded"}, step : Counsel!Step]
                           \cup [op : {"answered"}, receipt : Counsel!Receipt]
                           \cup [op : {"refused"}, matter : Things]]
    BY <1>1, <1>2, <2>1
  <2>3. previous' \in Counsel!Hash
    BY <1>1, <1>4, <1>5 DEF Counsel!Hash
  <2>. QED BY <1>1, <1>10, <2>2, <2>3 DEF Counsel!MattersInv, Counsel!TypeOK, Counsel!Opened
<1>12. Counsel!StepsRecorded' = Counsel!StepsRecorded
  BY <1>1 DEF Counsel!StepsRecorded, Counsel!Opened, Counsel!ToSet
<1>13. /\ c \in Recording /\ Recording' = Recording \ {c}
       /\ \A d \in Recording' : matterCalls'[d] = matterCalls[d]
  BY <1>1, <1>2 DEF Recording
<1>14. Counsel!Pending' \cup {step} = Counsel!Pending
  <2>1. Counsel!Pending = {matterCalls[d].step : d \in Recording}
    BY RecordingIs
  <2>2. Counsel!Pending' = {matterCalls[d].step : d \in Recording'}
    BY <1>13 DEF Counsel!Pending, Recording
  <2>. QED BY <1>13, <2>1, <2>2 DEF step
<1>15. Counsel!ToSet(previous)' = Counsel!ToSet(previous) \cup {step}
  BY <1>1, <1>4, <1>5 DEF Counsel!ToSet
<1>16. Cardinality(Recording') = Cardinality(Recording) - 1
  BY <1>13, RecordingIs, FS_RemoveElement
<1>17. Counsel!RecordedIsChainedOnce'
  <2>1. /\ Counsel!ToSet(previous) \cup Counsel!Pending = Counsel!StepsRecorded
        /\ Len(previous) + Cardinality(Recording) = Cardinality(Counsel!StepsRecorded)
    BY FiniteMatters DEF Counsel!MattersInv, Counsel!RecordedIsChainedOnce, Recording
  <2>2. Len(previous') + Cardinality(Recording') = Len(previous) + Cardinality(Recording)
    BY <1>1, <1>4, <1>5, <1>16, RecordingIs
  <2>3. Counsel!ToSet(previous)' \cup Counsel!Pending' = Counsel!StepsRecorded'
    BY <1>12, <1>14, <1>15, <2>1
  <2>. QED BY <1>12, <2>1, <2>2, <2>3, FiniteMatters DEF Counsel!RecordedIsChainedOnce, Recording
<1>. QED BY <1>1, <1>10, <1>11, <1>12, <1>17, FiniteMatters DEF Counsel!MattersInv, Counsel!Opened

LEMMA MattersStay ==
  ASSUME Counsel!MattersAssumption, Counsel!MattersInv, [Counsel!Next]_counselVars
  PROVE  Counsel!MattersInv'
<1>1. CASE Counsel!Restart
  <2>1. /\ DOMAIN matters' = {} /\ chain' = <<>> /\ previous' = <<>>
        /\ matterCalls' = [c \in Threads |-> [op |-> "idle"]] /\ UNCHANGED used
    BY <1>1 DEF Counsel!Restart, Counsel!Genesis
  <2>2. Counsel!TypeOK'
    BY <2>1 DEF Counsel!MattersAssumption, Counsel!MattersInv, Counsel!TypeOK, Counsel!Opened, Counsel!Hash
  <2>3. Counsel!KeptChainIsLinked'
    BY <2>1 DEF Counsel!MattersAssumption, Counsel!KeptChainIsLinked, Counsel!Genesis
  <2>4. Counsel!StepsRecorded' = {}
    BY <2>1 DEF Counsel!StepsRecorded, Counsel!Opened
  <2>5. Recording' = {} /\ Counsel!Pending' = {}
    BY <2>1 DEF Recording, Counsel!Pending
  <2>6. Counsel!ToSet(previous)' = {} /\ Len(previous') = 0
    BY <2>1 DEF Counsel!ToSet
  <2>7. Counsel!RecordedIsChainedOnce'
    BY <2>4, <2>5, <2>6, FiniteMatters, FS_EmptySet DEF Counsel!RecordedIsChainedOnce, Recording
  <2>. QED BY <2>1, <2>2, <2>3, <2>4, <2>7, FiniteMatters, FS_EmptySet DEF Counsel!MattersInv, Counsel!Opened
<1>2. CASE UNCHANGED counselVars
  BY <1>2 DEF counselVars, Counsel!MattersInv, Counsel!TypeOK, Counsel!Opened, Counsel!StepsRecorded,
    Counsel!KeptChainIsLinked, Counsel!RecordedIsChainedOnce, Counsel!Pending
<1>. QED BY <1>1, <1>2, OpenStays, MapObligationStays, ChainStays DEF Counsel!Next


-----------------------------------------------------------------------------
(* Engines: the receipts *)

\* Counsel: every matter and obligation is chained once, or about to be, and the receipts
\* kept are the newest of one linked chain (routers/counsel.py).  Finance: an answered
\* receipt is in the chain, and of a chain that verifies every copy altered before its last
\* entry is found divergent (services/finance/receipts.py), for any threads and lengths.
THEOREM ReceiptsStayChained == EnginesSpec => []ReceiptsAreChained
<1>. DEFINE Inv == Counsel!MattersInv /\ Finance!EntriesInv
<1>1. EnginesInit => Inv
  BY EnginesStart, MattersStart, EntriesStart, EnginesAssumption
<1>2. Inv /\ [EnginesNext]_engineVars => Inv'
  BY EnginesStep, MattersStay, EntriesStay, EnginesAssumption
<1>3. Inv => ReceiptsAreChained
  <2>1. Counsel!MattersInv => Counsel!KeptChainIsLinked /\ Counsel!RecordedIsChainedOnce
    BY DEF Counsel!MattersInv
  <2>2. Finance!EntriesInv => Finance!AnsweredIsEmitted
    BY DEF Finance!EntriesInv
  <2>3. Finance!EntriesInv => Finance!TamperingDetected
    BY TamperingIsFound DEF Finance!TamperingDetected
  <2>. QED BY <2>1, <2>2, <2>3 DEF ReceiptsAreChained
<1>. QED BY <1>1, <1>2, <1>3, PTL DEF EnginesSpec

\* A receipt chain that diverged diverges at the same entry until the process ends: no later
\* receipt repairs it (services/finance/receipts.py).
THEOREM DivergesForGood == EnginesSpec => DivergenceStays
<1>. DEFINE Stays == Finance!Verify(entries).state = "DIVERGENT" /\ entries' # <<>>
                       => Finance!Verify(entries') = Finance!Verify(entries)
<1>1. EnginesInit => Finance!EntriesInv
  BY EnginesStart, EntriesStart
<1>2. Finance!EntriesInv /\ [EnginesNext]_engineVars => Finance!EntriesInv'
  BY EnginesStep, EntriesStay
<1>3. Finance!EntriesInv /\ [EnginesNext]_engineVars => [Stays]_financeVars
  BY EnginesStep, DivergentOnceAndForAll
<1>. QED BY <1>1, <1>2, <1>3, PTL DEF EnginesSpec, DivergenceStays, Finance!DivergenceStays,
       Finance!vars, financeVars

=============================================================================
