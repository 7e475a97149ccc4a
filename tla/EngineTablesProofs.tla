--------------------------- MODULE EngineTablesProofs ---------------------------
(***************************************************************************)
(* Theorems about the engines that keep tables and windows, for every      *)
(* value of their constants: Sentra's rate windows, the sample desks, and  *)
(* the series of Lyte, finance and Vessels.                                *)
(*                                                                         *)
(* Each has an inductive invariant that its own module states next to the  *)
(* property it carries (RateInv, DesksInv, SeriesInv).  What the code      *)
(* finds with a loop (the first hit that has not expired, the deepest fall *)
(* of a price) is told by a least counterexample in a set of numbers, and  *)
(* so is that the recursive function of the falls exists: no proof needs   *)
(* induction over the data.                                                *)
(***************************************************************************)
EXTENDS Engines, FiniteSetTheorems, SequenceTheorems, WellFoundedInduction, TLAPS

-----------------------------------------------------------------------------
(* Engines: one behaviour at a time *)

LEMMA LeastNumber ==
  ASSUME NEW S \in SUBSET Nat, S # {}
  PROVE  \E m \in S : \A n \in S : m <= n
<1>1. PICK m \in S : \A n \in S : ~ (<<n, m>> \in OpToRel(<, Nat))
  BY WFMin, NatLessThanWellFounded
<1>2. \A n \in S : <<n, m>> \in OpToRel(<, Nat) <=> n < m
  BY DEF OpToRel
<1>3. ASSUME NEW n \in S PROVE m <= n
  <2>1. ~ (n < m)
    BY <1>1, <1>2, Zenon
  <2>. QED BY <2>1
<1>. QED BY <1>3

LEMMA TablesStart ==
  ASSUME EnginesInit
  PROVE  /\ Sentra!Init
         /\ engine = "series" => Series!Init
         /\ engine = "desks" => Desks!Init
BY DEF EnginesInit

LEMMA TablesStep ==
  ASSUME [EnginesNext]_engineVars
  PROVE  /\ [Sentra!Next]_sentraVars
         /\ UNCHANGED engine
         /\ engine = "series" => [Series!Next]_seriesVars
         /\ engine = "desks" => [Desks!Next]_deskVars
BY DEF EnginesNext, engineVars, receiptVars, otherVars, SentraStep, CounselStep, FinanceStep,
  RuntimeStep, SeriesStep, DeskStep, TeethStep

-----------------------------------------------------------------------------
(* SentraRate *)

\* The finite sets of the instance are the finite sets.
LEMMA FiniteHits ==
  /\ \A S : Sentra!Cardinality(S) = Cardinality(S)
  /\ \A S : Sentra!IsFiniteSet(S) <=> IsFiniteSet(S)
BY DEF Cardinality, Sentra!Cardinality, IsFiniteSet, Sentra!IsFiniteSet

\* A set of numbers that fits into a finite one when it is shifted is no larger.
LEMMA Shifted ==
  ASSUME NEW S \in SUBSET Int, NEW T, IsFiniteSet(T), NEW d \in Int,
         \A x \in S : x + d \in T
  PROVE  /\ IsFiniteSet(S) /\ Cardinality(S) \in Nat /\ Cardinality(T) \in Nat
         /\ Cardinality(S) <= Cardinality(T)
<1>. DEFINE f == [x \in S |-> x + d]
<1>1. f \in Injection(S, T)
  <2>1. f \in [S -> T]
    OBVIOUS
  <2>2. \A x, y \in S : f[x] = f[y] => x = y
    OBVIOUS
  <2>. QED BY <2>1, <2>2 DEF Injection, IsInjective
<1>2. IsFiniteSet(S) /\ Cardinality(S) <= Cardinality(T)
  BY <1>1, FS_Injection
<1>. QED BY <1>2, FS_CardinalityType

\* What is kept of a queue: all but hits that have expired.
LEMMA KeptIs ==
  ASSUME NEW queue \in Seq(Nat), NEW now \in Nat
  PROVE  \E d \in 0 .. Len(queue) :
           /\ Sentra!Kept(queue, now) = SubSeq(queue, d + 1, Len(queue))
           /\ \A i \in 1 .. d : Sentra!Expired(queue[i], now)
           /\ d = Len(queue) \/ ~ Sentra!Expired(queue[d + 1], now)
<1>. DEFINE S == {i \in DOMAIN queue : ~ Sentra!Expired(queue[i], now)} \cup {Len(queue) + 1}
            first == Sentra!Min(S)
<1>1. Len(queue) \in Nat /\ DOMAIN queue = 1 .. Len(queue)
  OBVIOUS
<1>2. S \in SUBSET Nat /\ S # {}
  BY <1>1
<1>3. \E m \in S : \A n \in S : m <= n
  <2>. HIDE DEF S
  <2>. QED BY <1>2, LeastNumber
<1>4. first \in S /\ \A n \in S : first <= n
  BY <1>3 DEF Sentra!Min
<1>5. first - 1 \in 0 .. Len(queue) /\ (first - 1) + 1 = first
  BY <1>1, <1>4
<1>6. Sentra!Kept(queue, now) = SubSeq(queue, first, Len(queue))
  BY DEF Sentra!Kept
<1>7. ASSUME NEW i \in 1 .. first - 1 PROVE Sentra!Expired(queue[i], now)
  <2>1. i \notin S
    <3>. HIDE DEF S, first
    <3>1. first \in Nat /\ i \in Nat /\ i < first
      BY <1>1, <1>5
    <3>. QED BY <1>4, <3>1
  <2>2. i \in DOMAIN queue
    <3>. HIDE DEF S, first
    <3>. QED BY <1>1, <1>5
  <2>. QED BY <2>1, <2>2
<1>8. first = Len(queue) + 1 \/ ~ Sentra!Expired(queue[first], now)
  BY <1>4
<1>. DEFINE d == first - 1
<1>9. d \in 0 .. Len(queue) /\ d + 1 = first
  BY <1>5
<1>10. d = Len(queue) \/ ~ Sentra!Expired(queue[d + 1], now)
  <2>1. first = Len(queue) + 1 => d = Len(queue)
    BY <1>1, <1>9
  <2>. QED BY <1>8, <1>9, <2>1
<1>11. Sentra!Kept(queue, now) = SubSeq(queue, d + 1, Len(queue))
  BY <1>6, <1>9
<1>12. \A i \in 1 .. d : Sentra!Expired(queue[i], now)
  BY <1>7
<1>. HIDE DEF S, first, d
<1>. QED BY <1>9, <1>10, <1>11, <1>12

\* The numbers of hits and of calls, without the instance.
Window(t) == {g \in granted : g.at <= t /\ t - g.at < RateWindow}
Hits(t) == {i \in 1 .. Len(hits) : hits[i] <= t /\ t - hits[i] < RateWindow}
Readers == {c \in Threads : rateCalls[c].op = "read"}
Early(t) == {c \in Readers : rateCalls[c].now <= t}
Before(t) == {c \in Readers : rateCalls[c].now < t}
After(i) == {j \in i + 1 .. Len(hits) : hits[j] < hits[i]}
Same(t) == {g \in granted : g.at = t}

Phases(t) ==
  \/ /\ \A u \in 0 .. RateTime : made[u] > 0 => u <= t
     /\ Cardinality(Window(t)) <= RateLimit
     /\ Cardinality(Window(t)) <= Cardinality(Hits(t))
  \/ /\ t < rateClock
     /\ Cardinality(Window(t)) + Cardinality(Early(t)) <= RateLimit + Cardinality(Threads) - 1

RatePlain ==
  /\ rateClock \in 0 .. RateTime
  /\ hits \in Seq(0 .. RateTime) /\ Len(hits) <= RateCapacity
  /\ rateCalls \in [Threads -> [op : {"idle"}] \cup [op : {"read"}, now : 0 .. RateTime]
                               \cup [op : {"answered"}, allowed : BOOLEAN]]
  /\ made \in [0 .. RateTime -> Nat]
  /\ granted \subseteq [at : 0 .. RateTime, nth : Nat]
  /\ \A c \in Readers : rateCalls[c].now <= rateClock
  /\ \A u \in 0 .. RateTime : made[u] > 0 => u <= rateClock
  /\ \A i \in 1 .. Len(hits) : made[hits[i]] > 0
  /\ IsFiniteSet(granted)
  /\ \A g \in granted : g.nth < Cardinality(Same(g.at))
  /\ \A i \in 1 .. Len(hits) :
       Cardinality(After(i)) + Cardinality(Before(hits[i])) <= Cardinality(Threads) - 1
  /\ \A t \in 0 .. RateTime : Phases(t)

RateNumbers ==
  /\ RateLimit \in Nat \ {0} /\ RateWindow \in Nat \ {0}
  /\ IsFiniteSet(Threads) /\ Cardinality(Threads) \in Nat \ {0}
  /\ RateCapacity \in Nat /\ RateCapacity >= RateLimit + Cardinality(Threads) - 1
  /\ RateTime \in Nat /\ RateCalls \in Nat

LEMMA RateNumbersAre == Sentra!RateAssumption => RateNumbers
<1>. SUFFICES ASSUME Sentra!RateAssumption PROVE RateNumbers
  OBVIOUS
<1>1. IsFiniteSet(Threads) /\ Threads # {}
  BY FiniteHits DEF Sentra!RateAssumption
<1>2. Cardinality(Threads) \in Nat \ {0}
  BY <1>1, FS_CardinalityType, FS_EmptySet
<1>. QED BY <1>1, <1>2, FiniteHits DEF Sentra!RateAssumption, RateNumbers

LEMMA PlainIs ==
  ASSUME RateNumbers
  PROVE  Sentra!RateInv <=> RatePlain
<1>. DEFINE T == 0 .. RateTime
<1>1. Sentra!Times = T
  BY DEF Sentra!Times
<1>2. \A u, t \in T : Sentra!InWindow(u, t) <=> u <= t /\ t - u < RateWindow
  BY DEF Sentra!InWindow, Sentra!Expired, RateNumbers
<1>3. Sentra!TypeOK <=>
        /\ rateClock \in T
        /\ hits \in Seq(T) /\ Len(hits) <= RateCapacity
        /\ rateCalls \in [Threads -> [op : {"idle"}] \cup [op : {"read"}, now : T]
                               \cup [op : {"answered"}, allowed : BOOLEAN]]
        /\ made \in [T -> Nat]
        /\ granted \subseteq [at : T, nth : Nat]
  BY <1>1 DEF Sentra!TypeOK
<1>. SUFFICES ASSUME Sentra!TypeOK PROVE Sentra!RateInv <=> RatePlain
  BY <1>3 DEF Sentra!RateInv, RatePlain
<1>4. Sentra!Reading = Readers
  BY DEF Sentra!Reading, Readers
<1>5. ASSUME NEW t \in T
      PROVE  /\ Sentra!Granted(t) = Window(t) /\ Sentra!Queued(t) = Hits(t)
             /\ Sentra!Pending(t) = Early(t)
  <2>1. DOMAIN hits = 1 .. Len(hits) /\ \A i \in DOMAIN hits : hits[i] \in T
    <3>1. hits \in Seq(T)
      BY <1>3
    <3>. QED BY <3>1, LenProperties, ElementOfSeq
  <2>. QED BY <1>2, <1>3, <1>4, <2>1 DEF Sentra!Granted, Window, Sentra!Queued, Hits, Sentra!Pending, Early
<1>6. ASSUME NEW t \in T PROVE Phases(t) <=> Sentra!Open(t) \/ Sentra!Closed(t)
  BY <1>1, <1>5, FiniteHits DEF Phases, Sentra!Open, Sentra!Closed
<1>7. Len(hits) \in Nat /\ DOMAIN hits = 1 .. Len(hits)
  BY <1>3
<1>8. ASSUME NEW i \in DOMAIN hits
      PROVE  /\ Sentra!Overtaken(i) = After(i)
             /\ {c \in Sentra!Reading : rateCalls[c].now < hits[i]} = Before(hits[i])
  BY <1>4, <1>7 DEF Sentra!Overtaken, After, Before
<1>9. \A t : Sentra!GrantedAt(t) = Same(t)
  BY DEF Sentra!GrantedAt, Same
<1>. QED BY <1>1, <1>3, <1>4, <1>6, <1>7, <1>8, <1>9, FiniteHits DEF Sentra!RateInv, RatePlain

\* What _rate_ok makes of the deque: the first hits go, expired or, when it is full of hits
\* that count, the first of them.
HitsMoved(now, d, ok) ==
  LET n == Len(hits) IN
  /\ hits' \in Seq(0 .. RateTime) /\ Len(hits') = n - d + 1 /\ n - d + 1 <= RateCapacity
  /\ \A i \in 1 .. n - d : hits'[i] = hits[i + d]
  /\ hits'[n - d + 1] = now
  /\ \/ /\ \A i \in 1 .. d : now - hits[i] >= RateWindow
        /\ ok <=> n - d < RateLimit
        /\ d = n \/ now - hits[d + 1] < RateWindow
     \/ d = 1 /\ n = RateCapacity /\ ~ ok /\ now - hits[1] < RateWindow

Counted(c, now, ok) ==
  /\ rateCalls' = [rateCalls EXCEPT ![c] = [op |-> "answered", allowed |-> ok]]
  /\ made' = [made EXCEPT ![now] = @ + 1]
  /\ granted' = IF ok THEN granted \cup {[at |-> now, nth |-> Cardinality(Same(now))]}
                ELSE granted
  /\ UNCHANGED rateClock

LEMMA HitsMove ==
  ASSUME RateNumbers, RatePlain, NEW c \in Threads, Sentra!RateOk(c)
  PROVE  /\ c \in Readers /\ rateCalls[c].now \in 0 .. RateTime
         /\ \E ok \in BOOLEAN, d \in 0 .. Len(hits) :
              Counted(c, rateCalls[c].now, ok) /\ HitsMoved(rateCalls[c].now, d, ok)
<1>. DEFINE T == 0 .. RateTime
            now == rateCalls[c].now
            n == Len(hits)
            kept == Sentra!Kept(hits, now)
            ok == Len(kept) < RateLimit
<1>1. /\ rateCalls[c].op = "read"
      /\ hits' = Sentra!AppendBounded(kept, now)
      /\ rateCalls' = [rateCalls EXCEPT ![c] = [op |-> "answered", allowed |-> ok]]
      /\ made' = [made EXCEPT ![now] = @ + 1]
      /\ granted' = IF ok THEN granted \cup {[at |-> now, nth |-> Cardinality(Same(now))]}
                    ELSE granted
      /\ UNCHANGED rateClock
  BY FiniteHits DEF Sentra!RateOk, Sentra!GrantedAt, Same
<1>2. now \in T /\ hits \in Seq(T) /\ n \in Nat /\ n <= RateCapacity /\ c \in Readers
  <2>1. rateCalls[c] \in [op : {"idle"}] \cup [op : {"read"}, now : 0 .. RateTime]
                               \cup [op : {"answered"}, allowed : BOOLEAN]
    BY DEF RatePlain
  <2>. QED BY <1>1, <2>1, LenProperties DEF RatePlain, Readers
<1>3. T \subseteq Nat /\ hits \in Seq(Nat) /\ now \in Nat
  <2>1. T \subseteq Nat
    BY DEF RateNumbers
  <2>. QED BY <1>2, <2>1, SeqMonotonic
<1>4. PICK d \in 0 .. n : /\ kept = SubSeq(hits, d + 1, n)
                          /\ \A i \in 1 .. d : Sentra!Expired(hits[i], now)
                          /\ d = n \/ ~ Sentra!Expired(hits[d + 1], now)
  <2>. HIDE DEF now
  <2>. QED BY <1>3, KeptIs
<1>5. \A i \in 1 .. n : hits[i] \in T
  BY <1>2, ElementOfSeq
<1>6. /\ kept \in Seq(T) /\ Len(kept) = n - d
      /\ \A i \in 1 .. n - d : kept[i] = hits[i + d]
  <2>1. \A i \in d + 1 .. n : hits[i] \in T
    BY <1>2, <1>5
  <2>2. /\ SubSeq(hits, d + 1, n) \in Seq(T)
        /\ Len(SubSeq(hits, d + 1, n)) = IF d + 1 <= n THEN n - (d + 1) + 1 ELSE 0
        /\ \A i \in 1 .. n - (d + 1) + 1 : SubSeq(hits, d + 1, n)[i] = hits[d + 1 + i - 1]
    <3>. HIDE DEF T, n
    <3>1. d + 1 \in Int /\ n \in Int
      BY <1>2
    <3>. QED BY <2>1, <3>1, SubSeqProperties
  <2>3. n - (d + 1) + 1 = n - d /\ \A i \in Int : d + 1 + i - 1 = i + d
    BY <1>2
  <2>4. Len(kept) = n - d
    BY <1>2, <1>4, <2>2
  <2>5. kept \in Seq(T)
    BY <1>4, <2>2
  <2>6. ASSUME NEW i \in 1 .. n - d PROVE kept[i] = hits[i + d]
    <3>. HIDE DEF n, kept
    <3>1. i \in 1 .. n - (d + 1) + 1 /\ d + 1 + i - 1 = i + d
      BY <1>2, <2>3
    <3>2. SubSeq(hits, d + 1, n)[i] = hits[d + 1 + i - 1]
      BY <2>2, <3>1
    <3>. QED BY <1>4, <3>1, <3>2
  <2>. QED BY <2>4, <2>5, <2>6
<1>. DEFINE longer == Append(kept, now)
<1>7. /\ longer \in Seq(T) /\ longer # <<>> /\ Len(longer) = n - d + 1
      /\ \A i \in 1 .. n - d : longer[i] = hits[i + d]
      /\ longer[n - d + 1] = now
  <2>1. /\ longer \in Seq(T) /\ longer # <<>> /\ Len(longer) = Len(kept) + 1
        /\ \A i \in 1 .. Len(kept) : longer[i] = kept[i]
        /\ longer[Len(kept) + 1] = now
    <3>. HIDE DEF kept, now, T
    <3>. QED BY ZenonT(60), <1>2, <1>6, AppendProperties
  <2>. HIDE DEF longer, kept, now, T
  <2>. QED BY <1>6, <2>1
<1>8. \A i \in 1 .. d : now - hits[i] >= RateWindow
  BY <1>4 DEF Sentra!Expired
<1>9. d = n \/ now - hits[d + 1] < RateWindow
  <2>1. d = n \/ (d + 1 \in 1 .. n /\ hits[d + 1] \in T)
    BY <1>2, <1>5
  <2>. QED BY SMTT(30), <1>3, <1>4, <2>1 DEF Sentra!Expired, RateNumbers
<1>14. Len(longer) \in Nat /\ RateCapacity \in Nat
  BY <1>7, LenProperties DEF RateNumbers
<1>15. hits' = IF Len(longer) > RateCapacity THEN Tail(longer) ELSE longer
  BY <1>1 DEF Sentra!AppendBounded
<1>12. Counted(c, now, ok) /\ ok \in BOOLEAN
  BY <1>1 DEF Counted
<1>13. ok <=> n - d < RateLimit
  BY <1>6
<1>. HIDE DEF longer, kept, ok
<1>10. CASE n - d + 1 <= RateCapacity
  <2>1. hits' = longer
    BY <1>7, <1>10, <1>14, <1>15
  <2>2. HitsMoved(now, d, ok)
    BY <1>7, <1>8, <1>9, <1>10, <1>13, <2>1 DEF HitsMoved
  <2>. QED BY <1>2, <1>12, <2>2
<1>11. CASE n - d + 1 > RateCapacity
  <2>1. d = 0 /\ n = RateCapacity /\ n > 0 /\ ~ ok
    BY <1>2, <1>13, <1>11 DEF RateNumbers
  <2>2. hits' = Tail(longer)
    BY <1>7, <1>11, <1>14, <1>15
  <2>3. /\ Tail(longer) \in Seq(T) /\ Len(Tail(longer)) = Len(longer) - 1
        /\ \A i \in 1 .. Len(Tail(longer)) : Tail(longer)[i] = longer[i + 1]
    <3>. HIDE DEF T
    <3>. QED BY <1>7, HeadTailProperties
  <2>4. hits' \in Seq(T) /\ Len(hits') = n /\ \A i \in 1 .. n : hits'[i] = longer[i + 1]
    BY <1>2, <1>7, <2>1, <2>2, <2>3
  <2>5. \A i \in 1 .. n - 1 : hits'[i] = hits[i + 1]
    BY <1>2, <1>7, <2>1, <2>4
  <2>6. hits'[n] = now
    BY <1>2, <1>7, <2>1, <2>4
  <2>8. 1 \in 0 .. n /\ n - 1 + 1 = n
    BY <1>2, <2>1
  <2>10. now - hits[1] < RateWindow
    BY <1>2, <1>9, <2>1
  <2>9. HitsMoved(now, 1, ok)
    BY <2>1, <2>4, <2>5, <2>6, <2>8, <2>10, <1>2 DEF HitsMoved
  <2>. QED BY <1>2, <1>12, <2>8, <2>9
<1>. QED BY <1>2, <1>10, <1>11 DEF RateNumbers

LEMMA ReadersThen ==
  ASSUME RatePlain, NEW c \in Readers, NEW now, NEW ok, Counted(c, now, ok)
  PROVE  /\ Readers' = Readers \ {c}
         /\ \A x \in Threads \ {c} : rateCalls'[x] = rateCalls[x]
         /\ \A t : Early(t)' = Early(t) \ {c} /\ Before(t)' = Before(t) \ {c}
<1>1. /\ rateCalls' = [rateCalls EXCEPT ![c] = [op |-> "answered", allowed |-> ok]]
      /\ DOMAIN rateCalls = Threads /\ c \in Threads
  BY DEF Counted, RatePlain, Readers
<1>2. rateCalls'[c].op = "answered" /\ \A x \in Threads \ {c} : rateCalls'[x] = rateCalls[x]
  BY <1>1
<1>3. Readers' = Readers \ {c}
  BY <1>2 DEF Readers
<1>4. ASSUME NEW t PROVE Early(t)' = Early(t) \ {c} /\ Before(t)' = Before(t) \ {c}
  <2>1. \A x \in Readers \ {c} : rateCalls'[x] = rateCalls[x]
    BY <1>2 DEF Readers
  <2>. QED BY <1>3, <2>1 DEF Early, Before
<1>. QED BY <1>2, <1>3, <1>4

\* A call counted more, and perhaps granted.
LEMMA GrantedThen ==
  ASSUME RateNumbers, RatePlain, NEW c \in Readers, NEW now \in 0 .. RateTime, NEW ok \in BOOLEAN,
         Counted(c, now, ok)
  PROVE  /\ made' \in [0 .. RateTime -> Nat]
         /\ \A u \in 0 .. RateTime : made'[u] > 0 <=> made[u] > 0 \/ u = now
         /\ granted' \subseteq [at : 0 .. RateTime, nth : Nat] /\ IsFiniteSet(granted')
         /\ \A g \in granted' : g.nth < Cardinality(Same(g.at)')
         /\ \A t \in 0 .. RateTime :
              /\ Cardinality(Window(t)) \in Nat
              /\ Cardinality(Window(t)') =
                   Cardinality(Window(t)) + (IF ok /\ now <= t /\ t - now < RateWindow THEN 1 ELSE 0)
<1>. DEFINE T == 0 .. RateTime
            new == [at |-> now, nth |-> Cardinality(Same(now))]
<1>1. /\ made' = [made EXCEPT ![now] = @ + 1]
      /\ granted' = IF ok THEN granted \cup {new} ELSE granted
  BY DEF Counted
<1>2. /\ made \in [T -> Nat] /\ granted \subseteq [at : T, nth : Nat] /\ IsFiniteSet(granted)
      /\ \A g \in granted : g.nth < Cardinality(Same(g.at))
      /\ T \subseteq Nat /\ now \in Nat
  BY DEF RatePlain, RateNumbers
<1>3. /\ made' \in [T -> Nat]
      /\ \A u \in T : made'[u] > 0 <=> made[u] > 0 \/ u = now
  BY <1>1, <1>2
<1>4. \A t : IsFiniteSet(Same(t)) /\ Cardinality(Same(t)) \in Nat
  <2>1. \A t : Same(t) \in SUBSET granted
    BY DEF Same
  <2>. QED BY <1>2, <2>1, FS_Subset, FS_CardinalityType
<1>5. \A t : IsFiniteSet(Window(t)) /\ Cardinality(Window(t)) \in Nat
  <2>1. \A t : Window(t) \in SUBSET granted
    BY DEF Window
  <2>. QED BY <1>2, <2>1, FS_Subset, FS_CardinalityType
<1>6. new \in [at : T, nth : Nat] /\ new \notin granted
  <2>1. new \in [at : T, nth : Nat] /\ new.at = now /\ new.nth = Cardinality(Same(now))
    BY <1>4
  <2>2. new \in granted => new.nth < Cardinality(Same(now))
    BY <1>2, <2>1
  <2>. QED BY <1>4, <2>1, <2>2
<1>7. granted' \subseteq [at : T, nth : Nat] /\ IsFiniteSet(granted')
  BY <1>1, <1>2, <1>6, FS_AddElement
<1>8. CASE ~ ok
  <2>1. granted' = granted
    BY <1>1, <1>8
  <2>2. \A t : Same(t)' = Same(t) /\ Window(t)' = Window(t)
    BY <2>1 DEF Same, Window
  <2>3. \A g \in granted' : g.nth < Cardinality(Same(g.at)')
    BY <1>2, <2>1, <2>2
  <2>. QED BY <1>3, <1>5, <1>7, <1>8, <2>2, <2>3
<1>9. CASE ok
  <2>1. granted' = granted \cup {new} /\ new.at = now /\ new.nth = Cardinality(Same(now))
    BY <1>1, <1>9
  <2>2. Same(now)' = Same(now) \cup {new} /\ new \notin Same(now)
        /\ \A t : t # now => Same(t)' = Same(t)
    <3>. HIDE DEF new
    <3>. QED BY <1>6, <2>1 DEF Same
  <2>3. Cardinality(Same(now)') = Cardinality(Same(now)) + 1
    <3>. HIDE DEF new
    <3>. QED BY <1>4, <2>2, FS_AddElement
  <2>4. ASSUME NEW g \in granted' PROVE g.nth < Cardinality(Same(g.at)')
    <3>1. CASE g = new
      BY <1>4, <2>1, <2>3, <3>1
    <3>2. CASE g \in granted
      <4>1. g.nth \in Nat /\ g.nth < Cardinality(Same(g.at))
        BY <1>2, <3>2
      <4>2. CASE g.at = now
        BY <1>4, <2>3, <4>1, <4>2
      <4>3. CASE g.at # now
        BY <2>2, <4>1, <4>3
      <4>. QED BY <4>2, <4>3
    <3>. QED BY <2>1, <3>1, <3>2
  <2>5. ASSUME NEW t \in T
        PROVE  Cardinality(Window(t)') =
                 Cardinality(Window(t)) + (IF now <= t /\ t - now < RateWindow THEN 1 ELSE 0)
    <3>. HIDE DEF new
    <3>1. CASE now <= t /\ t - now < RateWindow
      <4>1. Window(t)' = Window(t) \cup {new} /\ new \notin Window(t)
        BY <1>6, <2>1, <3>1 DEF Window
      <4>. QED BY <1>5, <3>1, <4>1, FS_AddElement
    <3>2. CASE ~ (now <= t /\ t - now < RateWindow)
      <4>1. Window(t)' = Window(t)
        BY <2>1, <3>2 DEF Window
      <4>2. Cardinality(Window(t)) + 0 = Cardinality(Window(t))
        BY <1>5
      <4>. QED BY <3>2, <4>1, <4>2
    <3>. QED BY <3>1, <3>2
  <2>. QED BY <1>3, <1>5, <1>7, <1>9, <2>4, <2>5
<1>. QED BY <1>8, <1>9

LEMMA ReadersAre ==
  ASSUME RateNumbers
  PROVE  /\ IsFiniteSet(Readers)
         /\ \A R \in SUBSET Readers :
              /\ IsFiniteSet(R) /\ Cardinality(R) \in Nat /\ Cardinality(R) <= Cardinality(Threads)
              /\ \A c \in Threads : IsFiniteSet(R \ {c})
                   /\ Cardinality(R \ {c}) = IF c \in R THEN Cardinality(R) - 1 ELSE Cardinality(R)
              /\ \A c \in Threads : c \notin R => Cardinality(R) <= Cardinality(Threads) - 1
<1>1. IsFiniteSet(Threads) /\ Cardinality(Threads) \in Nat /\ Readers \in SUBSET Threads
  BY DEF RateNumbers, Readers
<1>2. ASSUME NEW R \in SUBSET Readers
      PROVE  IsFiniteSet(R) /\ Cardinality(R) \in Nat /\ Cardinality(R) <= Cardinality(Threads)
  <2>1. R \in SUBSET Threads
    BY <1>1
  <2>. QED BY <1>1, <2>1, FS_Subset, FS_CardinalityType
<1>3. ASSUME NEW R \in SUBSET Readers, NEW c \in Threads, c \notin R
      PROVE  Cardinality(R) <= Cardinality(Threads) - 1
  <2>1. R \in SUBSET (Threads \ {c})
    BY <1>1, <1>3
  <2>2. IsFiniteSet(Threads \ {c}) /\ Cardinality(Threads \ {c}) = Cardinality(Threads) - 1
    BY <1>1, FS_RemoveElement
  <2>3. Cardinality(R) <= Cardinality(Threads \ {c})
    BY <2>1, <2>2, FS_Subset
  <2>. QED BY <2>2, <2>3
<1>4. ASSUME NEW R \in SUBSET Readers, NEW c \in Threads
      PROVE  /\ IsFiniteSet(R \ {c})
             /\ Cardinality(R \ {c}) = IF c \in R THEN Cardinality(R) - 1 ELSE Cardinality(R)
  BY <1>2, FS_RemoveElement
<1>. QED BY <1>2, <1>3, <1>4

LEMMA AfterIs ==
  ASSUME RatePlain, NEW i \in Int
  PROVE  /\ IsFiniteSet(After(i)) /\ Cardinality(After(i)) \in Nat /\ After(i) \in SUBSET Int
         /\ \A t : IsFiniteSet(Hits(t)) /\ Cardinality(Hits(t)) \in Nat /\ Hits(t) \in SUBSET Int
<1>1. Len(hits) \in Nat
  BY LenProperties DEF RatePlain
<1>2. After(i) \in SUBSET (i + 1 .. Len(hits)) /\ \A t : Hits(t) \in SUBSET (1 .. Len(hits))
  BY DEF After, Hits
<1>3. IsFiniteSet(i + 1 .. Len(hits)) /\ IsFiniteSet(1 .. Len(hits))
  <2>1. i + 1 \in Int /\ 1 \in Int /\ Len(hits) \in Int
    BY <1>1
  <2>. QED BY <2>1, FS_Interval
<1>4. After(i) \in SUBSET Int /\ \A t : Hits(t) \in SUBSET Int
  BY <1>1, <1>2
<1>. QED BY <1>2, <1>3, <1>4, FS_Subset, FS_CardinalityType

\* A thread that is overtaken has read the clock before, and does so once.
LEMMA OvertakenThen ==
  ASSUME RateNumbers, RatePlain, NEW c \in Readers, NEW now \in 0 .. RateTime, NEW ok,
         now = rateCalls[c].now,
         Counted(c, now, ok), NEW d \in 0 .. Len(hits), HitsMoved(now, d, ok),
         NEW k \in 1 .. Len(hits'), NEW h, h = hits'[k]
  PROVE  Cardinality(After(k)') + Cardinality(Before(h)') <= Cardinality(Threads) - 1
<1>. DEFINE n == Len(hits)
            A == {j \in k + 1 .. Len(hits') : hits'[j] < h}
            B == {x \in Readers \ {c} : rateCalls[x].now < h}
<1>1. n \in Nat /\ Len(hits') = n - d + 1 /\ k \in 1 .. n - d + 1 /\ k \in Int /\ d \in Int
  BY LenProperties DEF RatePlain, HitsMoved
<1>2. /\ \A i \in 1 .. n - d : hits'[i] = hits[i + d]
      /\ hits'[n - d + 1] = now
      /\ \A i \in 1 .. n : hits[i] \in Nat
      /\ now \in Nat
  <2>1. \A i \in 1 .. n : hits[i] \in 0 .. RateTime
    BY ElementOfSeq DEF RatePlain
  <2>2. \A i \in 0 .. RateTime : i \in Nat
    BY DEF RateNumbers
  <2>3. /\ \A i \in 1 .. n - d : hits'[i] = hits[i + d]
        /\ hits'[n - d + 1] = now
    BY DEF HitsMoved
  <2>. QED BY <2>1, <2>2, <2>3
<1>3. After(k)' = A
  BY DEF After
<1>4. Before(h)' = B
  <2>1. /\ Readers' = Readers \ {c}
        /\ \A x \in Threads \ {c} : rateCalls'[x] = rateCalls[x]
    BY ReadersThen
  <2>2. \A x \in Readers : x \in Threads
    BY DEF Readers
  <2>3. Before(h)' = {x \in Readers' : rateCalls'[x].now < h}
    BY DEF Before
  <2>. QED BY <2>1, <2>2, <2>3
<1>5. c \in Threads /\ B \in SUBSET Readers /\ c \notin B
  BY DEF Readers
<1>6. Cardinality(B) \in Nat /\ Cardinality(B) <= Cardinality(Threads) - 1
  BY <1>5, ReadersAre
<1>7. Cardinality(Threads) \in Nat
  BY DEF RateNumbers
<1>8. CASE k = n - d + 1
  <2>1. A = {}
    BY <1>1, <1>8
  <2>2. Cardinality(A) = 0
    BY <2>1, FS_EmptySet
  <2>. QED BY <1>3, <1>4, <1>6, <1>7, <2>2
<1>9. CASE k \in 1 .. n - d
  <2>1. k + d \in 1 .. n /\ h = hits[k + d] /\ h \in Nat
    BY <1>1, <1>2, <1>9
  <2>2. /\ Cardinality(After(k + d)) + Cardinality(Before(h)) <= Cardinality(Threads) - 1
        /\ IsFiniteSet(After(k + d)) /\ Cardinality(After(k + d)) \in Nat
    BY <2>1, AfterIs DEF RatePlain
  <2>3. Before(h) \in SUBSET Readers /\ B = Before(h) \ {c} /\ (c \in Before(h) <=> now < h)
    BY DEF Before
  <2>4. /\ Cardinality(Before(h)) \in Nat
        /\ Cardinality(B) = IF now < h THEN Cardinality(Before(h)) - 1 ELSE Cardinality(Before(h))
    BY <1>5, <2>3, ReadersAre
  <2>5. /\ A \ {n - d + 1} \in SUBSET Int
        /\ \A j \in A \ {n - d + 1} : j + d \in After(k + d)
    <3>1. ASSUME NEW j \in A \ {n - d + 1}
          PROVE  j \in Int /\ j + d \in k + d + 1 .. n /\ hits[j + d] < h
      <4>1. j \in k + 1 .. n - d + 1 /\ j # n - d + 1 /\ hits'[j] < h
        BY <1>1
      <4>. HIDE DEF A, n
      <4>2. j \in 1 .. n - d
        BY <1>1, <4>1
      <4>. QED BY <1>1, <1>2, <4>1, <4>2
    <3>. HIDE DEF A
    <3>. QED BY <2>1, <3>1 DEF After
  <2>6. IsFiniteSet(A \ {n - d + 1}) /\ Cardinality(A \ {n - d + 1}) \in Nat
        /\ Cardinality(A \ {n - d + 1}) <= Cardinality(After(k + d))
    <3>. HIDE DEF A, n
    <3>. QED BY <1>1, <2>2, <2>5, Shifted
  <2>7. CASE now < h
    <3>1. A = (A \ {n - d + 1}) \cup {n - d + 1}
      BY <1>1, <1>2, <1>9, <2>7
    <3>2. Cardinality((A \ {n - d + 1}) \cup {n - d + 1}) = Cardinality(A \ {n - d + 1}) + 1
      <4>. HIDE DEF A, n
      <4>. QED BY <2>6, FS_AddElement
    <3>3. Cardinality(A) = Cardinality(A \ {n - d + 1}) + 1
      <4>. HIDE DEF A, n
      <4>. QED BY <3>1, <3>2
    <3>. HIDE DEF A, B, n
    <3>. QED BY <1>3, <1>4, <1>6, <1>7, <2>2, <2>4, <2>6, <2>7, <3>3
  <2>8. CASE ~ (now < h)
    <3>1. A = A \ {n - d + 1}
      BY <1>1, <1>2, <1>9, <2>8
    <3>2. Cardinality(A) <= Cardinality(After(k + d)) /\ Cardinality(A) \in Nat
      <4>. HIDE DEF A, n
      <4>. QED BY <2>6, <3>1
    <3>3. Cardinality(B) <= Cardinality(Before(h))
      <4>. HIDE DEF B
      <4>. QED BY <2>4
    <3>. HIDE DEF A, B, n
    <3>. QED BY <1>3, <1>4, <1>6, <1>7, <2>2, <2>4, <3>2, <3>3
  <2>. QED BY <2>7, <2>8
<1>. QED BY <1>1, <1>8, <1>9

\* A window that is open stays so, or is closed by a call of a later time; a window that is
\* closed is entered only by threads that have read the clock before.
LEMMA PhaseThen ==
  ASSUME RateNumbers, RatePlain, NEW c \in Readers, NEW now \in 0 .. RateTime,
         NEW ok \in BOOLEAN, now = rateCalls[c].now,
         Counted(c, now, ok), NEW d \in 0 .. Len(hits), HitsMoved(now, d, ok),
         NEW t \in 0 .. RateTime
  PROVE  Phases(t)'
<1>. DEFINE n == Len(hits)
            N == Cardinality(Threads)
            G == Cardinality(Window(t))
            H == Cardinality(Hits(t))
            Hn == {i \in 1 .. Len(hits') : hits'[i] <= t /\ t - hits'[i] < RateWindow}
            inside == now <= t /\ t - now < RateWindow
<1>1. /\ n \in Nat /\ Len(hits') = n - d + 1 /\ d \in Int
      /\ n - d + 1 <= RateCapacity /\ n <= RateCapacity
  BY LenProperties DEF RatePlain, HitsMoved
<1>2. /\ \A i \in 1 .. n - d : hits'[i] = hits[i + d]
      /\ hits'[n - d + 1] = now
      /\ \A i \in 1 .. n : hits[i] \in 0 .. RateTime /\ hits[i] \in Nat
      /\ now \in Nat /\ t \in Nat
  <2>1. \A i \in 1 .. n : hits[i] \in 0 .. RateTime
    BY ElementOfSeq DEF RatePlain
  <2>2. \A i \in 0 .. RateTime : i \in Nat
    BY DEF RateNumbers
  <2>3. /\ \A i \in 1 .. n - d : hits'[i] = hits[i + d]
        /\ hits'[n - d + 1] = now
    BY DEF HitsMoved
  <2>. QED BY <2>1, <2>2, <2>3
<1>3. /\ \A u \in 0 .. RateTime : made'[u] > 0 <=> made[u] > 0 \/ u = now
      /\ G \in Nat
      /\ Cardinality(Window(t)') = G + (IF ok /\ inside THEN 1 ELSE 0)
  BY GrantedThen
<1>4. /\ H \in Nat /\ IsFiniteSet(Hits(t))
      /\ Hits(t)' = Hn
  <2>1. IsFiniteSet(Hits(t)) /\ H \in Nat
    BY AfterIs, 0 \in Int
  <2>. QED BY <2>1 DEF Hits
<1>5. /\ Hn \in SUBSET (1 .. n - d + 1) /\ IsFiniteSet(Hn) /\ Cardinality(Hn) \in Nat
  <2>1. Hn \in SUBSET (1 .. n - d + 1) /\ IsFiniteSet(1 .. n - d + 1)
    <3>1. n - d + 1 \in Int /\ 1 \in Int
      BY <1>1
    <3>2. IsFiniteSet(1 .. n - d + 1)
      <4>. HIDE DEF n
      <4>. QED BY <3>1, FS_Interval
    <3>. QED BY <1>1, <3>2
  <2>. HIDE DEF Hn, n
  <2>. QED BY <2>1, FS_Subset, FS_CardinalityType
<1>6. /\ Early(t) \in SUBSET Readers /\ Early(t)' = Early(t) \ {c} /\ c \in Threads
      /\ (c \in Early(t) <=> now <= t)
  BY ReadersThen DEF Early, Readers
<1>7. /\ Cardinality(Early(t)) \in Nat /\ Cardinality(Early(t)') \in Nat
      /\ Cardinality(Early(t)') = IF now <= t THEN Cardinality(Early(t)) - 1 ELSE Cardinality(Early(t))
      /\ Cardinality(Early(t)') <= N - 1
  <2>1. Early(t) \ {c} \in SUBSET Readers /\ c \notin Early(t) \ {c}
    BY <1>6
  <2>. QED BY <1>6, <2>1, ReadersAre
<1>8. /\ N \in Nat \ {0} /\ RateLimit \in Nat \ {0} /\ RateWindow \in Nat \ {0}
      /\ RateCapacity \in Nat /\ RateCapacity >= RateLimit + N - 1
  BY DEF RateNumbers
<1>9. /\ \A u \in 0 .. RateTime : made[u] > 0 => u <= rateClock
      /\ now <= rateClock /\ rateClock' = rateClock /\ rateClock \in Nat
  <2>1. rateClock \in 0 .. RateTime /\ now <= rateClock /\ rateClock' = rateClock
    BY DEF RatePlain, Counted
  <2>. QED BY <2>1, <1>2 DEF RatePlain, RateNumbers
<1>10. \/ /\ \A u \in 0 .. RateTime : made[u] > 0 => u <= t
          /\ G <= RateLimit /\ G <= H
       \/ t < rateClock /\ G + Cardinality(Early(t)) <= RateLimit + N - 1
  BY DEF RatePlain, Phases
<1>11. CASE t < rateClock /\ G + Cardinality(Early(t)) <= RateLimit + N - 1
  <2>1. Cardinality(Window(t)') + Cardinality(Early(t)') <= RateLimit + N - 1
    <3>. HIDE DEF G, N
    <3>. QED BY <1>3, <1>7, <1>8, <1>11
  <2>. QED BY <1>9, <1>11, <2>1 DEF Phases
<1>12. CASE /\ \A u \in 0 .. RateTime : made[u] > 0 => u <= t
            /\ G <= RateLimit /\ G <= H
  <2>1. CASE now > t
    <3>1. t < rateClock
      BY <1>2, <1>9, <2>1
    <3>2. Cardinality(Window(t)') + Cardinality(Early(t)') <= RateLimit + N - 1
      <4>1. ~ inside
        BY <1>2, <2>1
      <4>. HIDE DEF G, N, inside
      <4>. QED BY <1>3, <1>7, <1>8, <1>12, <4>1
    <3>. QED BY <1>9, <3>1, <3>2 DEF Phases
  <2>2. CASE now <= t
    <3>1. \A u \in 0 .. RateTime : made'[u] > 0 => u <= t
      BY <1>3, <1>12, <2>2
    <3>2. \A i \in 1 .. n : hits[i] <= t
      BY <1>2, <1>12 DEF RatePlain
    \* What is in the window and does not go.
    <3>3. ASSUME \A i \in 1 .. d : t - hits[i] >= RateWindow
          PROVE  /\ H <= Cardinality(Hn \ {n - d + 1})
                 /\ Cardinality(Hn \ {n - d + 1}) \in Nat
                 /\ Cardinality(Hn) = IF inside THEN Cardinality(Hn \ {n - d + 1}) + 1
                                       ELSE Cardinality(Hn \ {n - d + 1})
                 /\ H <= n - d
      <4>1. ASSUME NEW i \in Hits(t) PROVE i + (- d) \in Hn \ {n - d + 1} /\ i \in Int
        <5>1. i \in 1 .. n /\ hits[i] <= t /\ t - hits[i] < RateWindow /\ hits[i] \in Nat
          BY <1>2 DEF Hits
        <5>2. i \notin 1 .. d
          BY <1>2, <1>8, <3>3, <5>1
        <5>3. i - d \in 1 .. n - d /\ (i - d) + d = i
          BY <1>1, <5>1, <5>2
        <5>4. hits'[i - d] = hits[i]
          BY <1>2, <5>3
        <5>. QED BY <1>1, <5>1, <5>3, <5>4
      <4>2. IsFiniteSet(Hn \ {n - d + 1})
        <5>. HIDE DEF Hn, n
        <5>. QED BY <1>5, FS_RemoveElement
      <4>3. H <= Cardinality(Hn \ {n - d + 1}) /\ Cardinality(Hn \ {n - d + 1}) \in Nat
        <5>1. Hits(t) \in SUBSET Int /\ - d \in Int
          BY <1>1, <4>1
        <5>. HIDE DEF Hn, n
        <5>. QED BY <4>1, <4>2, <5>1, Shifted
      <4>4. n - d + 1 \in Hn <=> inside
        BY <1>1, <1>2
      <4>5. Cardinality(Hn \ {n - d + 1}) = IF inside THEN Cardinality(Hn) - 1 ELSE Cardinality(Hn)
        <5>. HIDE DEF Hn, n, inside
        <5>. QED BY <1>5, <4>4, FS_RemoveElement
      <4>6. Cardinality(Hn \ {n - d + 1}) <= n - d
        <5>1. Hn \ {n - d + 1} \in SUBSET (1 .. n - d)
          BY <1>1, <1>5
        <5>2. n - d \in Int /\ 1 \in Int /\ (1 > n - d => 0 = n - d) /\ n - d - 1 + 1 = n - d
          BY <1>1
        <5>3. IsFiniteSet(1 .. n - d) /\ Cardinality(1 .. n - d) = n - d
          <6>1. IsFiniteSet(1 .. n - d) /\ Cardinality(1 .. n - d) = IF 1 > n - d THEN 0 ELSE n - d - 1 + 1
            <7>. HIDE DEF n
            <7>. QED BY <5>2, FS_Interval
          <6>. QED BY <5>2, <6>1
        <5>. HIDE DEF Hn, n
        <5>. QED BY ZenonT(60), <5>1, <5>3, FS_Subset
      <4>7. H <= n - d
        <5>. HIDE DEF Hn, H, n
        <5>. QED BY <1>1, <1>4, <4>3, <4>6
      <4>8. Cardinality(Hn) = IF inside THEN Cardinality(Hn \ {n - d + 1}) + 1
                              ELSE Cardinality(Hn \ {n - d + 1})
        <5>. HIDE DEF Hn, n, inside
        <5>. QED BY <1>5, <4>3, <4>5
      <4>. QED BY <4>3, <4>7, <4>8
    <3>4. CASE /\ \A i \in 1 .. d : now - hits[i] >= RateWindow
               /\ ok <=> n - d < RateLimit
      <4>1. \A i \in 1 .. d : t - hits[i] >= RateWindow
        <5>. TAKE i \in 1 .. d
        <5>1. i \in 1 .. n /\ hits[i] \in Nat
          BY <1>1, <1>2
        <5>2. now - hits[i] >= RateWindow
          BY <3>4
        <5>. QED BY <1>2, <1>8, <2>2, <5>1, <5>2, SMTT(30)
      <4>2. /\ H <= Cardinality(Hn \ {n - d + 1})
            /\ Cardinality(Hn \ {n - d + 1}) \in Nat
            /\ Cardinality(Hn) = IF inside THEN Cardinality(Hn \ {n - d + 1}) + 1
                                  ELSE Cardinality(Hn \ {n - d + 1})
            /\ H <= n - d
        BY <3>3, <4>1
      <4>3. Cardinality(Window(t)') <= RateLimit /\ Cardinality(Window(t)') <= Cardinality(Hn)
        <5>. HIDE DEF G, H, Hn, inside, n
        <5>. QED BY SMTT(30), <1>1, <1>3, <1>4, <1>8, <1>12, <3>4, <4>2
      <4>. QED BY <1>4, <3>1, <4>3 DEF Phases
    <3>5. CASE d = 1 /\ n = RateCapacity /\ ~ ok
      <4>1. CASE t - hits[1] >= RateWindow
        <5>1. \A i \in 1 .. d : t - hits[i] >= RateWindow
          BY <3>5, <4>1
        <5>2. /\ H <= Cardinality(Hn \ {n - d + 1})
              /\ Cardinality(Hn \ {n - d + 1}) \in Nat
              /\ Cardinality(Hn) = IF inside THEN Cardinality(Hn \ {n - d + 1}) + 1
                                    ELSE Cardinality(Hn \ {n - d + 1})
          BY <3>3, <5>1
        <5>3. Cardinality(Window(t)') <= RateLimit /\ Cardinality(Window(t)') <= Cardinality(Hn)
          <6>. HIDE DEF G, H, Hn, inside, n
          <6>. QED BY <1>3, <1>4, <1>12, <3>5, <5>2
        <5>. QED BY <1>4, <3>1, <5>3 DEF Phases
      <4>2. CASE t - hits[1] < RateWindow
        \* Those outside the window were counted after the first hit and bear earlier times.
        <5>. DEFINE Out == (1 .. n) \ Hn
        <5>1. n >= 1 /\ 1 \in 1 .. n /\ hits[1] \in Nat
          BY <1>1, <1>2, <1>8, <3>5
        <5>2. /\ Cardinality(After(1)) + Cardinality(Before(hits[1])) <= N - 1
              /\ IsFiniteSet(After(1)) /\ Cardinality(After(1)) \in Nat
          BY <5>1, AfterIs DEF RatePlain
        <5>3. /\ Before(hits[1]) \in SUBSET Readers /\ (c \in Before(hits[1]) <=> now < hits[1])
          BY DEF Before
        <5>4. Cardinality(Before(hits[1])) \in Nat /\ (now < hits[1] => Cardinality(Before(hits[1])) >= 1)
          <6>1. Cardinality(Before(hits[1])) \in Nat
            BY <5>3, ReadersAre
          <6>2. IsFiniteSet(Before(hits[1])) /\ (now < hits[1] => Before(hits[1]) # {})
            BY <5>3, ReadersAre
          <6>3. now < hits[1] => Cardinality(Before(hits[1])) # 0
            BY <6>2, FS_EmptySet
          <6>. QED BY <6>1, <6>3
        <5>5. \A j \in Out \ {n} : j + 1 \in After(1)
          <6>. TAKE j \in Out \ {n}
          <6>1. j \in 1 .. n - 1 /\ j + 1 \in 2 .. n
            BY <1>1
          <6>2. hits'[j] = hits[j + 1] /\ hits[j + 1] \in Nat /\ hits[j + 1] <= t
            BY <1>2, <3>2, <3>5, <6>1
          <6>3. ~ (t - hits[j + 1] < RateWindow)
            BY <1>1, <3>5, <6>1, <6>2
          <6>4. hits[j + 1] < hits[1]
            BY SMTT(30), <1>2, <1>8, <4>2, <5>1, <6>2, <6>3
          <6>. QED BY <6>1, <6>4 DEF After
        <5>6. Cardinality(Out \ {n}) <= Cardinality(After(1)) /\ Cardinality(Out \ {n}) \in Nat
              /\ IsFiniteSet(Out \ {n})
          <6>1. Out \ {n} \in SUBSET Int /\ 1 \in Int
            OBVIOUS
          <6>. HIDE DEF Out, n
          <6>. QED BY <5>2, <5>5, <6>1, Shifted
        <5>7. n \in Out => now < hits[1]
          <6>1. hits'[n] = now
            BY <1>1, <1>2, <3>5
          <6>2. n \in Out => ~ (t - now < RateWindow)
            BY <1>1, <2>2, <3>5, <6>1
          <6>3. now \in Nat /\ t \in Nat /\ hits[1] \in Nat /\ RateWindow \in Nat
            BY <1>2, <1>8, <5>1
          <6>. HIDE DEF Out, n
          <6>. QED BY <4>2, <6>2, <6>3
        <5>8. Cardinality(Out) = (IF n \in Out THEN Cardinality(Out \ {n}) + 1 ELSE Cardinality(Out \ {n}))
          <6>1. CASE n \in Out
            <7>1. Out = (Out \ {n}) \cup {n} /\ n \notin Out \ {n}
              BY <6>1
            <7>. HIDE DEF Out, n
            <7>2. Cardinality((Out \ {n}) \cup {n}) = Cardinality(Out \ {n}) + 1
              BY <5>6, FS_AddElement
            <7>. QED BY <6>1, <7>1, <7>2
          <6>2. CASE n \notin Out
            <7>1. Out \ {n} = Out
              BY <6>2
            <7>. HIDE DEF Out, n
            <7>. QED BY <6>2, <7>1
          <6>. QED BY <6>1, <6>2
        <5>9. Cardinality(Out) <= N - 1
          <6>. HIDE DEF Out, n, N
          <6>. QED BY <1>8, <5>2, <5>4, <5>6, <5>7, <5>8
        <5>10. Cardinality(Out) = n - Cardinality(Hn)
          <6>1. IsFiniteSet(1 .. n) /\ Cardinality(1 .. n) = n
            <7>1. 1 \in Int /\ n \in Int /\ ~ (1 > n) /\ n - 1 + 1 = n
              BY <5>1, <1>1
            <7>2. IsFiniteSet(1 .. n) /\ Cardinality(1 .. n) = IF 1 > n THEN 0 ELSE n - 1 + 1
              <8>. HIDE DEF n
              <8>. QED BY <7>1, FS_Interval
            <7>. QED BY <7>1, <7>2
          <6>2. (1 .. n) \cap Hn = Hn
            BY <1>1, <1>5, <3>5
          <6>. HIDE DEF Hn, n
          <6>3. Cardinality((1 .. n) \ Hn) = Cardinality(1 .. n) - Cardinality((1 .. n) \cap Hn)
            BY <6>1, FS_Difference
          <6>. QED BY <6>1, <6>2, <6>3
        <5>11. Cardinality(Window(t)') <= RateLimit /\ Cardinality(Window(t)') <= Cardinality(Hn)
          <6>. HIDE DEF G, H, Hn, inside, n, N, Out
          <6>. QED BY <1>1, <1>3, <1>5, <1>8, <1>12, <3>5, <5>9, <5>10
        <5>. QED BY <1>4, <3>1, <5>11 DEF Phases
      <4>. QED BY <1>2, <1>8, <3>5, <4>1, <4>2
    <3>. QED BY <3>4, <3>5 DEF HitsMoved
  <2>. QED BY <1>2, <2>1, <2>2
<1>. QED BY <1>10, <1>11, <1>12

LEMMA RateStarts ==
  ASSUME RateNumbers, Sentra!Init
  PROVE  RatePlain
<1>1. /\ rateClock = 0 /\ hits = <<>> /\ granted = {}
      /\ rateCalls = [c \in Threads |-> [op |-> "idle"]]
      /\ made = [t \in 0 .. RateTime |-> 0]
  BY DEF Sentra!Init, Sentra!Times
<1>2. Len(hits) = 0 /\ hits \in Seq(0 .. RateTime) /\ 0 \in 0 .. RateTime
  BY <1>1 DEF RateNumbers
<1>3. /\ rateCalls \in [Threads -> [op : {"idle"}] \cup [op : {"read"}, now : 0 .. RateTime]
                               \cup [op : {"answered"}, allowed : BOOLEAN]]
      /\ Readers = {}
  BY <1>1 DEF Readers
<1>4. \A t : Window(t) = {} /\ Hits(t) = {}
  BY <1>1, <1>2 DEF Window, Hits
<1>5. \A t \in 0 .. RateTime : Phases(t)
  BY <1>1, <1>4, FS_EmptySet DEF Phases, RateNumbers
<1>6. IsFiniteSet(granted)
  BY <1>1, FS_EmptySet
<1>. QED BY <1>1, <1>2, <1>3, <1>5, <1>6 DEF RatePlain, RateNumbers

LEMMA RateStays ==
  ASSUME RateNumbers, RatePlain, [Sentra!Next]_sentraVars
  PROVE  RatePlain'
<1>. DEFINE T == 0 .. RateTime
            Call == [op : {"idle"}] \cup [op : {"read"}, now : T]
                      \cup [op : {"answered"}, allowed : BOOLEAN]
<1>1. CASE Sentra!Tick
  <2>1. /\ rateClock < RateTime /\ rateClock' = rateClock + 1
        /\ UNCHANGED <<hits, rateCalls, made, granted>>
    BY <1>1 DEF Sentra!Tick
  <2>2. rateClock' \in T /\ rateClock \in Nat /\ rateClock <= rateClock'
    BY <2>1, SMTT(30) DEF RatePlain, RateNumbers
  <2>3. /\ Readers' = Readers
        /\ \A t : /\ Window(t)' = Window(t) /\ Hits(t)' = Hits(t) /\ Early(t)' = Early(t)
                  /\ Same(t)' = Same(t)
        /\ \A i : After(i)' = After(i)
    BY <2>1 DEF Readers, Window, Hits, Early, Same, After
  <2>4. \A i : Before(hits[i])' = Before(hits[i])
    BY <2>1 DEF Before, Readers
  <2>5. ASSUME NEW t \in T PROVE Phases(t)'
    <3>1. Phases(t)
      BY DEF RatePlain
    <3>2. t < rateClock => t < rateClock'
      BY <2>2 DEF RateNumbers
    <3>. QED BY <2>1, <2>3, <3>1, <3>2 DEF Phases
  <2>6. \A c \in Readers : rateCalls[c].now \in T /\ rateCalls[c].now <= rateClock
    BY DEF RatePlain, Readers
  <2>7. \A x \in T : x <= rateClock => x <= rateClock'
    BY <2>2 DEF RateNumbers
  <2>8. /\ \A c \in Readers' : rateCalls'[c].now <= rateClock'
        /\ \A u \in T : made'[u] > 0 => u <= rateClock'
    BY <2>1, <2>3, <2>6, <2>7 DEF RatePlain
  <2>9. \A i \in 1 .. Len(hits') :
          Cardinality(After(i)') + Cardinality(Before(hits[i])') <= Cardinality(Threads) - 1
    BY <2>1, <2>3, <2>4 DEF RatePlain
  <2>10. \A g \in granted' : g.nth < Cardinality(Same(g.at)')
    BY <2>1, <2>3 DEF RatePlain
  <2>. QED BY <2>1, <2>2, <2>5, <2>8, <2>9, <2>10 DEF RatePlain
<1>2. ASSUME NEW c \in Threads, Sentra!ReadClock(c) PROVE RatePlain'
  <2>1. /\ rateCalls[c].op # "read"
        /\ rateCalls' = [rateCalls EXCEPT ![c] = [op |-> "read", now |-> rateClock]]
        /\ UNCHANGED <<rateClock, hits, made, granted>>
    BY <1>2 DEF Sentra!ReadClock
  <2>2. /\ rateClock \in T /\ rateCalls \in [Threads -> Call]
        /\ hits \in Seq(T) /\ \A i \in 1 .. Len(hits) : hits[i] \in T /\ hits[i] <= rateClock
    <3>1. hits \in Seq(T)
      BY DEF RatePlain
    <3>2. \A i \in 1 .. Len(hits) : hits[i] \in T
      BY <3>1, ElementOfSeq
    <3>. QED BY <3>1, <3>2 DEF RatePlain
  <2>3. rateCalls' \in [Threads -> Call]
    BY <2>1, <2>2
  <2>4. /\ Readers' = Readers \cup {c} /\ c \notin Readers
        /\ rateCalls'[c].now = rateClock
        /\ \A x \in Readers : rateCalls'[x] = rateCalls[x]
    BY <2>1, <2>2 DEF Readers
  <2>5. /\ \A t : Window(t)' = Window(t) /\ Hits(t)' = Hits(t) /\ Same(t)' = Same(t)
        /\ \A i : After(i)' = After(i)
    BY <2>1 DEF Window, Hits, Same, After
  <2>6. ASSUME NEW t \in T PROVE Phases(t)'
    <3>1. t < rateClock => Early(t)' = Early(t)
      <4>. SUFFICES ASSUME t < rateClock PROVE Early(t)' = Early(t)
        OBVIOUS
      <4>1. ~ (rateClock <= t)
        BY <2>2 DEF RateNumbers
      <4>. QED BY <2>4, <4>1 DEF Early
    <3>. QED BY <2>1, <2>5, <3>1 DEF Phases, RatePlain
  <2>7. ASSUME NEW i \in 1 .. Len(hits)
        PROVE  {x \in Readers' : rateCalls'[x].now < hits[i]} = Before(hits[i])
    <3>1. ~ (rateClock < hits[i])
      BY <2>2 DEF RateNumbers
    <3>. QED BY <2>4, <3>1 DEF Before
  <2>8. \A i \in 1 .. Len(hits') :
          Cardinality(After(i)') + Cardinality({x \in Readers' : rateCalls'[x].now < hits'[i]})
            <= Cardinality(Threads) - 1
    BY <2>1, <2>5, <2>7 DEF RatePlain
  <2>9. \A x \in Readers' : rateCalls'[x].now <= rateClock'
    <3>1. rateClock <= rateClock
      BY <2>2 DEF RateNumbers
    <3>. QED BY <2>1, <2>4, <3>1 DEF RatePlain
  <2>10. \A g \in granted' : g.nth < Cardinality(Same(g.at)')
    BY <2>1, <2>5 DEF RatePlain
  <2>. QED BY <2>1, <2>3, <2>6, <2>8, <2>9, <2>10 DEF RatePlain, Before
<1>3. ASSUME NEW c \in Threads, Sentra!RateOk(c) PROVE RatePlain'
  <2>. DEFINE now == rateCalls[c].now
  <2>1. PICK ok \in BOOLEAN, d \in 0 .. Len(hits) :
          c \in Readers /\ now \in T /\ Counted(c, now, ok) /\ HitsMoved(now, d, ok)
    BY <1>3, HitsMove
  <2>2. PICK at \in T : at = now
    BY <2>1
  <2>. HIDE DEF now
  <2>3. Counted(c, at, ok) /\ HitsMoved(at, d, ok) /\ at = rateCalls[c].now
    BY <2>1, <2>2 DEF now
  <2>4. \A t \in T : Phases(t)'
    BY <2>1, <2>3, PhaseThen
  <2>5. ASSUME NEW i \in 1 .. Len(hits')
        PROVE  Cardinality(After(i)') + Cardinality({x \in Readers' : rateCalls'[x].now < hits'[i]})
                 <= Cardinality(Threads) - 1
    <3>1. PICK h : h = hits'[i]
      OBVIOUS
    <3>2. Cardinality(After(i)') + Cardinality(Before(h)') <= Cardinality(Threads) - 1
      BY <2>1, <2>3, <3>1, OvertakenThen
    <3>. QED BY <3>1, <3>2 DEF Before
  <2>6. /\ made' \in [T -> Nat]
        /\ \A u \in T : made'[u] > 0 <=> made[u] > 0 \/ u = at
        /\ granted' \subseteq [at : T, nth : Nat] /\ IsFiniteSet(granted')
        /\ \A g \in granted' : g.nth < Cardinality(Same(g.at)')
    BY <2>1, <2>3, GrantedThen
  <2>7. /\ rateCalls' = [rateCalls EXCEPT ![c] = [op |-> "answered", allowed |-> ok]]
        /\ rateClock' = rateClock /\ rateCalls \in [Threads -> Call] /\ rateClock \in T
        /\ at <= rateClock
    BY <2>1, <2>3 DEF Counted, RatePlain
  <2>8. rateCalls' \in [Threads -> Call]
    BY <2>7
  <2>9. /\ Readers' = Readers \ {c}
        /\ \A x \in Readers \ {c} : rateCalls'[x] = rateCalls[x]
    <3>1. \A x \in Readers : x \in Threads
      BY DEF Readers
    <3>. QED BY <2>1, <2>3, <3>1, ReadersThen
  <2>10. \A x \in Readers' : rateCalls'[x].now <= rateClock'
    BY <2>7, <2>9 DEF RatePlain
  <2>11. \A u \in T : made'[u] > 0 => u <= rateClock'
    BY <2>6, <2>7 DEF RatePlain
  <2>12. hits' \in Seq(T) /\ Len(hits') <= RateCapacity
    BY <2>3 DEF HitsMoved
  <2>13. ASSUME NEW i \in 1 .. Len(hits') PROVE made'[hits'[i]] > 0
    <3>1. /\ Len(hits) \in Nat /\ \A j \in 1 .. Len(hits) : hits[j] \in T /\ made[hits[j]] > 0
      <4>1. hits \in Seq(T)
        BY DEF RatePlain
      <4>2. Len(hits) \in Nat /\ \A j \in 1 .. Len(hits) : hits[j] \in T
        BY <4>1, LenProperties, ElementOfSeq
      <4>. QED BY <4>2 DEF RatePlain
    <3>2. /\ Len(hits') = Len(hits) - d + 1
          /\ \A j \in 1 .. Len(hits) - d : hits'[j] = hits[j + d]
          /\ hits'[Len(hits) - d + 1] = at
      BY <2>3 DEF HitsMoved
    <3>3. CASE i = Len(hits) - d + 1
      BY <2>6, <3>2, <3>3
    <3>4. CASE i \in 1 .. Len(hits) - d
      <4>1. i + d \in 1 .. Len(hits)
        BY <3>1, <3>4
      <4>. QED BY <2>6, <3>1, <3>2, <3>4, <4>1
    <3>. QED BY <3>1, <3>2, <3>3, <3>4
  <2>. QED BY <2>4, <2>5, <2>6, <2>7, <2>8, <2>10, <2>11, <2>12, <2>13 DEF RatePlain, Before
<1>4. CASE UNCHANGED sentraVars
  <2>1. UNCHANGED <<rateClock, hits, rateCalls, made, granted>>
    BY <1>4 DEF sentraVars
  <2>2. \A t : /\ Window(t)' = Window(t) /\ Hits(t)' = Hits(t) /\ Early(t)' = Early(t)
               /\ Same(t)' = Same(t)
    BY <2>1 DEF Readers, Window, Hits, Early, Same
  <2>. QED BY <2>1, <2>2 DEF RatePlain, Phases, After, Before, Readers, Same
<1>. QED BY <1>1, <1>2, <1>3, <1>4 DEF Sentra!Next

\* Who comes when every hit has expired finds room.
LEMMA SilentIsAllowed ==
  ASSUME RateNumbers, RatePlain, NEW c \in Threads, Sentra!RateOk(c),
         \A t \in 0 .. RateTime : made[t] > 0 => rateCalls[c].now - t >= RateWindow
  PROVE  rateCalls'[c].allowed
<1>1. PICK ok \in BOOLEAN, d \in 0 .. Len(hits) :
        Counted(c, rateCalls[c].now, ok) /\ HitsMoved(rateCalls[c].now, d, ok)
  BY HitsMove
<1>2. Len(hits) \in Nat /\ rateCalls[c].now \in 0 .. RateTime
  <2>1. hits \in Seq(0 .. RateTime)
    BY DEF RatePlain
  <2>. QED BY <2>1, LenProperties, HitsMove
<1>3. ASSUME NEW i \in 1 .. Len(hits)
      PROVE  hits[i] \in 0 .. RateTime /\ rateCalls[c].now - hits[i] >= RateWindow
  <2>1. hits \in Seq(0 .. RateTime) /\ made[hits[i]] > 0
    BY DEF RatePlain
  <2>2. hits[i] \in 0 .. RateTime
    BY <2>1, ElementOfSeq
  <2>. QED BY <2>1, <2>2
<1>4. ok
  <2>1. ASSUME NEW i \in 1 .. Len(hits) PROVE ~ (rateCalls[c].now - hits[i] < RateWindow)
    <3>1. 0 .. RateTime \subseteq Nat /\ RateWindow \in Nat
      BY DEF RateNumbers
    <3>. QED BY <1>2, <1>3, <3>1
  <2>2. d # Len(hits) => d + 1 \in 1 .. Len(hits)
    BY <1>2
  <2>3. RateCapacity >= 1 /\ RateCapacity \in Nat /\ RateLimit \in Nat \ {0}
    BY DEF RateNumbers
  <2>4. RateCapacity = Len(hits) => 1 \in 1 .. Len(hits)
    BY <1>2, <2>3
  <2>5. d = Len(hits) /\ (ok <=> Len(hits) - d < RateLimit)
    BY <1>1, <2>1, <2>2, <2>4 DEF HitsMoved
  <2>. QED BY <1>2, <2>3, <2>5
<1>5. rateCalls'[c].allowed = ok
  BY <1>1 DEF Counted, RatePlain
<1>. QED BY <1>4, <1>5

\* In every window, wherever it lies, the allowed calls of one actor exceed the limit by no
\* more than the threads that may have read the clock before: the clock is read before the
\* lock is taken, and a refused call takes a place in the deque (sentra.py, _rate_ok).
THEOREM WindowsAreBounded == EnginesSpec => []WindowBound
<1>1. RateNumbers
  BY RateNumbersAre, EnginesAssumption
<1>2. EnginesInit => Sentra!RateInv
  BY <1>1, TablesStart, RateStarts, PlainIs
<1>3. Sentra!RateInv /\ [EnginesNext]_engineVars => Sentra!RateInv'
  <2>. SUFFICES ASSUME Sentra!RateInv, [EnginesNext]_engineVars PROVE Sentra!RateInv'
    OBVIOUS
  <2>1. RatePlain /\ [Sentra!Next]_sentraVars
    BY <1>1, TablesStep, PlainIs
  <2>2. RatePlain'
    BY <1>1, <2>1, RateStays
  <2>. QED BY <1>1, <2>2, PlainIs, PTL
<1>4. Sentra!RateInv => WindowBound
  <2>. SUFFICES ASSUME Sentra!RateInv, NEW t \in 0 .. RateTime
                PROVE  Cardinality(Sentra!Granted(t)) <= RateLimit + Cardinality(Threads) - 1
    BY FiniteHits DEF WindowBound, Sentra!WindowBound, Sentra!Times
  <2>1. RatePlain /\ Phases(t)
    BY <1>1, PlainIs DEF RatePlain
  <2>2. Sentra!Granted(t) = Window(t)
    <3>1. \A g \in granted : g.at \in 0 .. RateTime
      BY <2>1 DEF RatePlain
    <3>2. \A u \in 0 .. RateTime : Sentra!InWindow(u, t) <=> u <= t /\ t - u < RateWindow
      BY <1>1 DEF Sentra!InWindow, Sentra!Expired, RateNumbers
    <3>. QED BY <3>1, <3>2 DEF Sentra!Granted, Window
  <2>3. Cardinality(Window(t)) \in Nat /\ Cardinality(Early(t)) \in Nat
    <3>1. IsFiniteSet(granted) /\ Window(t) \in SUBSET granted /\ Early(t) \in SUBSET Readers
      BY <2>1 DEF RatePlain, Window, Early
    <3>. QED BY <1>1, <3>1, FS_Subset, FS_CardinalityType, ReadersAre
  <2>. QED BY <1>1, <2>1, <2>2, <2>3 DEF Phases, RateNumbers
<1>. QED BY <1>2, <1>3, <1>4, PTL DEF EnginesSpec

\* An actor that was silent for a window is allowed, however many of its calls were refused
\* before and in whatever order they were counted (sentra.py, _rate_ok).
THEOREM SilenceIsEnough == EnginesSpec => SilenceRestores
<1>. DEFINE Restores ==
       \A c \in Threads :
         rateCalls[c].op = "read" /\ rateCalls'[c].op = "answered"
           /\ (\A t \in Sentra!Times : made[t] > 0 => Sentra!Expired(t, rateCalls[c].now))
         => rateCalls'[c].allowed
<1>1. RateNumbers
  BY RateNumbersAre, EnginesAssumption
<1>2. EnginesInit => RatePlain
  BY <1>1, TablesStart, RateStarts
<1>3. RatePlain /\ [EnginesNext]_engineVars => RatePlain'
  BY <1>1, TablesStep, RateStays
<1>4. RatePlain /\ [EnginesNext]_engineVars => [Restores]_sentraVars
  <2>. SUFFICES ASSUME RatePlain, [Sentra!Next]_sentraVars, NEW c \in Threads,
                       rateCalls[c].op = "read", rateCalls'[c].op = "answered",
                       \A t \in 0 .. RateTime : made[t] > 0 => rateCalls[c].now - t >= RateWindow
                PROVE  rateCalls'[c].allowed
    BY TablesStep DEF Sentra!Times, Sentra!Expired
  <2>1. rateCalls'[c] # rateCalls[c]
    OBVIOUS
  <2>2. ASSUME NEW x \in Threads, Sentra!RateOk(x) PROVE rateCalls'[c].allowed
    <3>1. x = c
      <4>1. PICK ok \in BOOLEAN : Counted(x, rateCalls[x].now, ok)
        BY <1>1, <2>2, HitsMove
      <4>. QED BY <2>1, <4>1 DEF Counted, RatePlain
    <3>. QED BY <1>1, <2>2, <3>1, SilentIsAllowed
  <2>3. ASSUME NEW x \in Threads, Sentra!ReadClock(x) PROVE FALSE
    BY <2>3 DEF Sentra!ReadClock, RatePlain
  <2>4. ~ Sentra!Tick
    BY <2>1 DEF Sentra!Tick
  <2>5. ~ UNCHANGED sentraVars
    BY <2>1 DEF sentraVars
  <2>. QED BY <2>2, <2>3, <2>4, <2>5 DEF Sentra!Next
<1>. QED BY <1>2, <1>3, <1>4, PTL DEF EnginesSpec, SilenceRestores, Sentra!SilenceRestores,
       Sentra!vars, sentraVars

-----------------------------------------------------------------------------
(* SampleDesks *)

LEMMA FiniteDesks ==
  /\ \A S : Desks!Cardinality(S) = Cardinality(S)
  /\ \A S : Desks!IsFiniteSet(S) <=> IsFiniteSet(S)
BY DEF Cardinality, Desks!Cardinality, IsFiniteSet, Desks!IsFiniteSet

DeskEntry == [id : Nat, item : Nat, state : Desks!States]

DeskReader == [op : {"reading"}, size : Nat, left : SUBSET Nat, disturbed : BOOLEAN, ill : BOOLEAN]

DeskThread ==
  [op : {"idle", "answered"}] \cup [op : {"put"}, id : Nat, item : Nat] \cup [op : {"entered"}, id : Nat]
    \cup DeskReader \cup [op : {"failed"}, disturbed : BOOLEAN, ill : BOOLEAN]

\* What a desk is besides its call counter.
BookInv == Desks!TypeOK /\ Desks!TableInv /\ Desks!ThreadsInv

LEMMA BookIs ==
  ASSUME BookInv
  PROVE  /\ threads \in [Threads -> DeskThread] /\ items \in Nat
         /\ table \subseteq DeskEntry /\ IsFiniteSet(table) /\ Cardinality(table) \in Nat
         /\ \A e, f \in table : e.id = f.id => e = f
         /\ \A id \in Desks!Pending : id \in Nat
         /\ \A t \in Threads : threads[t].op = "put" => threads[t].id \in Desks!Pending
                                 /\ threads[t].id \in Nat /\ threads[t].item \in Nat
         /\ \A t \in Threads : threads[t].op = "reading" => threads[t] \in DeskReader
<1>1. threads \in [Threads -> DeskThread] /\ items \in Nat
  BY DEF BookInv, Desks!TypeOK, DeskThread, DeskReader
<1>2. /\ table \subseteq DeskEntry /\ IsFiniteSet(table) /\ Cardinality(table) \in Nat
      /\ \A e, f \in table : e.id = f.id => e = f
  BY FiniteDesks, FS_CardinalityType DEF BookInv, Desks!TableInv, Desks!TypeOK, DeskEntry
<1>3. ASSUME NEW t \in Threads, threads[t].op = "put"
      PROVE  threads[t].id \in Desks!Pending /\ threads[t].id \in Nat /\ threads[t].item \in Nat
  <2>1. threads[t] \in [op : {"put"}, id : Nat, item : Nat]
    BY <1>1, <1>3 DEF DeskThread, DeskReader
  <2>. QED BY <1>3, <2>1 DEF Desks!Pending
<1>4. \A t \in Threads : threads[t].op = "reading" => threads[t] \in DeskReader
  BY <1>1 DEF DeskThread, DeskReader
<1>. QED BY <1>1, <1>2, <1>3, <1>4 DEF Desks!Pending

LEMMA BookTyped ==
  ASSUME BookInv, UNCHANGED <<desk, deskClock, rate, allowed>>, items' \in Nat,
         table' \subseteq DeskEntry, threads' \in [Threads -> DeskThread]
  PROVE  Desks!TypeOK'
BY DEF BookInv, Desks!TypeOK, DeskEntry, DeskThread, DeskReader

\* An entry that is put in replaces the one of its id.
LEMMA PutIs ==
  ASSUME table \subseteq DeskEntry, IsFiniteSet(table), \A e, f \in table : e.id = f.id => e = f,
         NEW id \in Nat, NEW item \in Nat, NEW state \in Desks!States, Desks!Put(id, item, state)
  PROVE  LET new == [id |-> id, item |-> item, state |-> state] IN
         /\ table' \subseteq DeskEntry
         /\ IsFiniteSet(table') /\ Cardinality(table) \in Nat
         /\ table' = {e \in table : e.id # id} \cup {new}
         /\ \A e, f \in table' : e.id = f.id => e = f
         /\ Cardinality(table') = IF Desks!Entered(id) THEN Cardinality(table)
                                  ELSE Cardinality(table) + 1
<1>. DEFINE new == [id |-> id, item |-> item, state |-> state]
            Rest == {e \in table : e.id # id}
<1>1. /\ table' = Rest \cup {new}
      /\ new \in DeskEntry /\ new.id = id
  BY DEF Desks!Put, DeskEntry
<1>2. new \notin Rest
  BY <1>1
<1>3. Cardinality(table) \in Nat
  BY FS_CardinalityType
<1>4. /\ IsFiniteSet(Rest) /\ Cardinality(Rest) \in Nat
      /\ Cardinality(Rest) = IF Desks!Entered(id) THEN Cardinality(table) - 1 ELSE Cardinality(table)
  <2>1. CASE Desks!Entered(id)
    <3>1. PICK e \in table : e.id = id
      BY <2>1 DEF Desks!Entered
    <3>2. Rest = table \ {e}
      BY <3>1
    <3>3. IsFiniteSet(table \ {e}) /\ Cardinality(table \ {e}) = Cardinality(table) - 1
      BY <3>1, FS_RemoveElement
    <3>4. Cardinality(table \ {e}) \in Nat
      BY <3>3, FS_CardinalityType
    <3>. QED BY <2>1, <3>2, <3>3, <3>4
  <2>2. CASE ~ Desks!Entered(id)
    <3>1. Rest = table
      BY <2>2 DEF Desks!Entered
    <3>. QED BY <1>3, <2>2, <3>1
  <2>. QED BY <2>1, <2>2
<1>5. IsFiniteSet(table') /\ Cardinality(table') = Cardinality(Rest) + 1
  <2>. HIDE DEF new, Rest
  <2>. QED BY <1>1, <1>2, <1>4, FS_AddElement
<1>6. \A e, f \in table' : e.id = f.id => e = f
  BY <1>1
<1>7. Cardinality(table') = IF Desks!Entered(id) THEN Cardinality(table) ELSE Cardinality(table) + 1
  <2>. HIDE DEF Rest
  <2>. QED BY <1>3, <1>4, <1>5
<1>8. table' \subseteq DeskEntry
  BY <1>1
<1>. HIDE DEF Rest
<1>. QED BY <1>1, <1>3, <1>5, <1>6, <1>7, <1>8 DEF Rest

\* An entry that becomes another keeps its place, and what was put in.
LEMMA BecomeIs ==
  ASSUME table \subseteq DeskEntry, IsFiniteSet(table), \A e, f \in table : e.id = f.id => e = f,
         NEW id \in Nat, NEW state \in Desks!States, Desks!Become(id, state)
  PROVE  /\ table' \subseteq DeskEntry /\ IsFiniteSet(table')
         /\ \A e, f \in table' : e.id = f.id => e = f
         /\ \A e \in table' : \E f \in table :
              /\ e.id = f.id /\ e.item = f.item
              /\ IF e.id = id THEN e.state = state ELSE e = f
         /\ \A f \in table : \E e \in table' : e.id = f.id /\ e.item = f.item
<1>. DEFINE Made(f) == [f EXCEPT !.state = state]
<1>1. table' = {Made(e) : e \in {f \in table : f.id = id}} \cup {e \in table : e.id # id}
  BY DEF Desks!Become
<1>2. \A f \in table : /\ Made(f) \in DeskEntry
                       /\ Made(f).id = f.id /\ Made(f).item = f.item /\ Made(f).state = state
  BY DEF DeskEntry
<1>. HIDE DEF Made
<1>3. ASSUME NEW e \in table'
      PROVE  /\ e \in DeskEntry
             /\ \E f \in table : /\ e.id = f.id /\ e.item = f.item
                                 /\ IF e.id = id THEN e.state = state ELSE e = f
  <2>1. CASE e \in {f \in table : f.id # id}
    BY <2>1
  <2>2. CASE e \in {Made(f) : f \in {g \in table : g.id = id}}
    <3>1. PICK f \in table : f.id = id /\ e = Made(f)
      BY <2>2
    <3>. QED BY <1>2, <3>1
  <2>. QED BY <1>1, <2>1, <2>2
<1>4. ASSUME NEW f \in table PROVE \E e \in table' : e.id = f.id /\ e.item = f.item
  <2>1. CASE f.id = id
    <3>1. Made(f) \in table'
      BY <1>1, <2>1
    <3>. QED BY <1>2, <3>1
  <2>2. CASE f.id # id
    BY <1>1, <2>2
  <2>. QED BY <2>1, <2>2
<1>5. ASSUME NEW e \in table', NEW f \in table', e.id = f.id PROVE e = f
  <2>1. PICK e1 \in table : e.id = e1.id /\ e.item = e1.item /\ IF e.id = id THEN e.state = state ELSE e = e1
    BY <1>3
  <2>2. PICK f1 \in table : f.id = f1.id /\ f.item = f1.item /\ IF f.id = id THEN f.state = state ELSE f = f1
    BY <1>3
  <2>3. e1 = f1
    BY <1>5, <2>1, <2>2
  <2>4. CASE e.id # id
    BY <1>5, <2>1, <2>2, <2>3, <2>4
  <2>5. CASE e.id = id
    <3>1. e \in DeskEntry /\ f \in DeskEntry
      BY <1>3
    <3>. QED BY <1>5, <2>1, <2>2, <2>3, <2>5, <3>1 DEF DeskEntry
  <2>. QED BY <2>4, <2>5
<1>6. IsFiniteSet(table')
  <2>. DEFINE g == [e \in table' |-> CHOOSE f \in table : f.id = e.id]
  <2>1. \A e \in table' : g[e] \in table /\ g[e].id = e.id
    BY <1>3
  <2>2. g \in Injection(table', table)
    <3>1. g \in [table' -> table]
      BY <2>1
    <3>2. \A e, f \in table' : g[e] = g[f] => e = f
      <4>. HIDE DEF g
      <4>. QED BY <1>5, <2>1
    <3>. HIDE DEF g
    <3>. QED BY <3>1, <3>2 DEF Injection, IsInjective
  <2>. HIDE DEF g
  <2>. QED BY <2>2, FS_Injection
<1>. QED BY <1>3, <1>4, <1>5, <1>6

LEMMA DesksStart ==
  ASSUME Desks!DesksAssumption, Desks!Init
  PROVE  Desks!DesksInv
<1>. DEFINE Entry(i) == [id |-> i, item |-> 0, state |-> "whole"]
            n == IF desk = "sentra" THEN 0 ELSE DeskSeeds
<1>1. /\ desk \in {"counsel", "terra", "vessels", "lyte", "sentra"}
      /\ threads = [t \in Threads |-> [op |-> "idle"]]
      /\ items = 0 /\ accepted = {} /\ crossed = {}
      /\ deskClock = 0 /\ rate = {} /\ allowed = {}
      /\ DeskSeeds \in Nat
  BY DEF Desks!Init, Desks!Idle, Desks!DesksAssumption
<1>2. n \in Nat /\ table = {Entry(i) : i \in 1 .. n}
  <2>1. CASE desk = "sentra"
    <3>1. table = {} /\ 1 .. n = {}
      BY <2>1 DEF Desks!Init
    <3>. QED BY <2>1, <3>1
  <2>2. CASE desk # "sentra"
    BY <1>1, <2>2 DEF Desks!Init
  <2>. QED BY <2>1, <2>2
<1>. HIDE DEF n
<1>3. IsFiniteSet(table) /\ Cardinality(table) = n
  <2>. DEFINE f == [i \in 1 .. n |-> Entry(i)]
  <2>1. f \in Bijection(1 .. n, table)
    <3>1. f \in [1 .. n -> table]
      BY <1>2
    <3>2. \A i, j \in 1 .. n : f[i] = f[j] => i = j
      <4>1. \A i \in 1 .. n : f[i].id = i
        OBVIOUS
      <4>. HIDE DEF f
      <4>. QED BY <4>1
    <3>3. \A e \in table : \E i \in 1 .. n : f[i] = e
      BY <1>2
    <3>. HIDE DEF f
    <3>. QED BY <3>1, <3>2, <3>3 DEF Bijection, Injection, Surjection, IsInjective
  <2>2. IsFiniteSet(1 .. n) /\ Cardinality(1 .. n) = n
    <3>1. 1 \in Int /\ n \in Int /\ (1 > n => n = 0) /\ n - 1 + 1 = n
      BY <1>2
    <3>. QED BY <3>1, FS_Interval
  <2>. HIDE DEF f
  <2>. QED BY <2>1, <2>2, FS_Bijection DEF ExistsBijection
<1>4. Desks!TypeOK
  <2>1. table \subseteq [id : Nat, item : Nat, state : Desks!States]
    <3>1. \A i \in 1 .. n : Entry(i) \in [id : Nat, item : Nat, state : Desks!States]
      BY <1>2 DEF Desks!States
    <3>. HIDE DEF Entry
    <3>. QED BY <1>2, <3>1
  <2>2. threads \in [Threads -> [op : {"idle", "answered"}]]
    BY <1>1
  <2>. HIDE DEF Entry
  <2>. QED BY <1>1, <2>1, <2>2 DEF Desks!TypeOK
<1>5. \A e \in table : e.id \in 1 .. n /\ e.item = 0 /\ e.state = "whole" /\ e = Entry(e.id)
  BY <1>2
<1>6. \A i \in 1 .. n : \E e \in table : e.id = i /\ e.item = 0
  <2>. TAKE i \in 1 .. n
  <2>1. Entry(i) \in table /\ Entry(i).id = i /\ Entry(i).item = 0
    BY <1>2
  <2>. HIDE DEF Entry
  <2>. QED BY <2>1
<1>7. {e.id : e \in table} = 1 .. Cardinality(table)
  BY <1>3, <1>5, <1>6
<1>8. \A e, f \in table : e.id = f.id => e = f
  BY <1>5
<1>9. desk # "sentra" => \A i \in 1 .. DeskSeeds : \E e \in table : e.id = i /\ e.item = 0
  BY <1>6 DEF n
<1>10. \A e \in table : e.state # "half"
  BY <1>5
<1>. HIDE DEF Entry
<1>11. Desks!TableInv
  <2>1. Desks!IsFiniteSet(table) /\ {e.id : e \in table} = 1 .. Desks!Cardinality(table)
    BY <1>3, <1>7, FiniteDesks
  <2>2. \A a \in accepted : a.id \in crossed \/ \E e \in table : e.id = a.id /\ e.item = a.item
    BY <1>1
  <2>3. \A e \in table : e.state = "half" =>
          desk = "vessels" /\ \E t \in Threads : threads[t].op = "entered" /\ threads[t].id = e.id
    BY <1>10
  <2>4. Desks!Numbered => {e.id : e \in table} = 1 .. Desks!Cardinality(table)
    BY <2>1
  <2>5. Desks!IsFiniteSet(table)
    BY <1>3, FiniteDesks
  <2>. QED BY <1>8, <1>9, <2>2, <2>3, <2>4, <2>5 DEF Desks!TableInv
<1>12. \A t \in Threads : threads[t].op = "idle"
  BY <1>1
<1>13. Desks!ThreadsInv
  BY <1>1, <1>12 DEF Desks!ThreadsInv, Desks!Pending
<1>14. Desks!SentraInv
  BY <1>1, FS_EmptySet, FiniteDesks DEF Desks!SentraInv
<1>. QED BY <1>4, <1>11, <1>13, <1>14 DEF Desks!DesksInv

\* A thread of its own goes on, the readers on their way are disturbed.
LEMMA Disturbed ==
  ASSUME threads \in [Threads -> DeskThread], NEW t \in Threads, NEW op \in DeskThread, Desks!Disturb(t, op)
  PROVE  /\ threads' \in [Threads -> DeskThread]
         /\ threads'[t] = op
         /\ \A u \in Threads \ {t} :
              /\ threads'[u].op = threads[u].op
              /\ threads[u].op # "reading" => threads'[u] = threads[u]
              /\ threads[u].op = "reading" => threads'[u].disturbed
<1>1. threads' = [u \in Threads |->
         IF u = t THEN op
         ELSE IF threads[u].op = "reading" THEN [threads[u] EXCEPT !.disturbed = TRUE] ELSE threads[u]]
  BY DEF Desks!Disturb
<1>2. ASSUME NEW u \in Threads \ {t}, threads[u].op = "reading"
      PROVE  /\ threads'[u].op = "reading" /\ threads'[u].disturbed
             /\ threads'[u] \in DeskReader
  <2>1. threads'[u] = [threads[u] EXCEPT !.disturbed = TRUE]
    BY <1>1, <1>2
  <2>2. threads[u] \in DeskReader
    BY <1>2 DEF DeskThread, DeskReader
  <2>. QED BY <2>1, <2>2 DEF DeskReader
<1>3. \A u \in Threads \ {t} : threads[u].op # "reading" => threads'[u] = threads[u]
  BY <1>1
<1>4. threads'[t] = op
  BY <1>1
<1>5. \A u \in Threads : threads'[u] \in DeskThread
  BY <1>2, <1>3, <1>4 DEF DeskThread
<1>6. threads' = [u \in Threads |-> threads'[u]]
  BY <1>1
<1>. QED BY <1>2, <1>3, <1>4, <1>5, <1>6

-----------------------------------------------------------------------------
(* Counsel, Terra and the new streams of Lyte: made, then put in *)

\* An id above the seeds that is not in the book may be on its way.
LEMMA MakeStays ==
  ASSUME BookInv, DeskSeeds \in Nat, NEW t \in Threads, NEW id \in Nat, Desks!Make(t, id),
         desk \in {"counsel", "terra", "lyte"}, id > DeskSeeds, ~ Desks!Entered(id),
         Desks!Numbered => id <= Cardinality(table) + 1
  PROVE  BookInv'
<1>1. /\ Desks!Resting(t)
      /\ items' = items + 1
      /\ crossed' = crossed \cup ({id} \cap {threads[u].id : u \in {v \in Threads \ {t} : threads[v].op = "put"}})
      /\ threads' = [threads EXCEPT ![t] = [op |-> "put", id |-> id, item |-> items + 1]]
      /\ UNCHANGED <<desk, deskClock, rate, allowed, table, accepted>>
  BY DEF Desks!Make, Desks!Awaited, Desks!Others, Desks!SentraRests
<1>2. /\ threads \in [Threads -> DeskThread] /\ table \subseteq DeskEntry /\ items \in Nat
      /\ \A z \in Desks!Pending : z \in Nat
  BY BookIs
<1>3. [op |-> "put", id |-> id, item |-> items + 1] \in DeskThread
  BY <1>2 DEF DeskThread
<1>4. /\ threads'[t] = [op |-> "put", id |-> id, item |-> items + 1]
      /\ threads'[t].op = "put" /\ threads'[t].id = id
      /\ \A u \in Threads \ {t} : threads'[u] = threads[u]
      /\ threads' \in [Threads -> DeskThread]
  BY <1>1, <1>2, <1>3
<1>5. Desks!TypeOK'
  BY <1>1, <1>2, <1>4, BookTyped
<1>6. (Desks!Numbered' <=> Desks!Numbered) /\ crossed \subseteq crossed' /\ desk \notin {"vessels", "sentra"}
  BY <1>1 DEF Desks!Numbered
<1>7. \A u \in Threads : threads[u].op = "entered" => u # t /\ threads'[u] = threads[u]
  BY <1>1, <1>4 DEF Desks!Resting
<1>8. Desks!TableInv'
  BY <1>1, <1>6, <1>7 DEF BookInv, Desks!TableInv
<1>9. Desks!Pending' = Desks!Pending \cup {id}
  BY <1>1, <1>4 DEF Desks!Pending, Desks!Resting
<1>10. ASSUME NEW u \in Threads, NEW v \in Threads, u # v,
              threads'[u].op = "put", threads'[v].op = "put", threads'[u].id = threads'[v].id
       PROVE  threads'[u].id \in crossed'
  <2>1. CASE u # t /\ v # t
    BY <1>4, <1>6, <1>10, <2>1 DEF BookInv, Desks!ThreadsInv
  <2>2. CASE u = t
    <3>1. v \in Threads \ {t} /\ threads[v].op = "put" /\ threads[v].id = id
      BY <1>4, <1>10, <2>2
    <3>. QED BY <1>1, <1>4, <2>2, <3>1
  <2>3. CASE v = t
    <3>1. u \in Threads \ {t} /\ threads[u].op = "put" /\ threads[u].id = id
      BY <1>4, <1>10, <2>3
    <3>. QED BY <1>1, <1>4, <3>1
  <2>. QED BY <2>1, <2>2, <2>3
<1>11. \A z : Desks!Entered(z)' <=> Desks!Entered(z)
  BY <1>1 DEF Desks!Entered
<1>12. \A z \in Desks!Pending' : z > DeskSeeds /\ (z \in crossed' \/ ~ Desks!Entered(z)')
  BY <1>6, <1>9, <1>11 DEF BookInv, Desks!ThreadsInv
<1>13. Desks!Numbered => \A z \in Desks!Pending' : z <= Cardinality(table) + 1
  BY <1>9, FiniteDesks DEF BookInv, Desks!ThreadsInv
<1>14. ASSUME NEW u \in Threads, threads'[u].op = "reading", ~ threads'[u].disturbed
       PROVE  /\ threads'[u].size = Cardinality(table)
              /\ \A v \in Threads : threads'[v].op # "entered"
              /\ threads'[u].ill => \E e \in table : e.state = "ill"
  <2>1. u # t /\ threads'[u] = threads[u]
    BY <1>4, <1>14
  <2>2. /\ threads[u].size = Cardinality(table)
        /\ \A v \in Threads : threads[v].op # "entered"
        /\ threads[u].ill => \E e \in table : e.state = "ill"
    BY <1>14, <2>1, FiniteDesks DEF BookInv, Desks!ThreadsInv, Desks!Grown
  <2>. QED BY <1>4, <2>1, <2>2
<1>15. \A u \in Threads : threads'[u].op = "failed" => threads'[u].disturbed \/ threads'[u].ill
  BY <1>4 DEF BookInv, Desks!ThreadsInv
<1>16. \A u \in Threads : threads'[u].op # "entered"
  BY <1>4, <1>6 DEF BookInv, Desks!ThreadsInv
<1>17. Desks!ThreadsInv'
  BY <1>1, <1>6, <1>10, <1>12, <1>13, <1>14, <1>15, <1>16, FiniteDesks DEF Desks!ThreadsInv, Desks!Grown
<1>. QED BY <1>5, <1>8, <1>17 DEF BookInv

LEMMA MakersStay ==
  ASSUME BookInv, Desks!DesksAssumption, NEW t \in Threads,
         Desks!MakeId(t) \/ \E id \in DeskSeeds .. DeskSeeds + 1 : Desks!MakeStream(t, id)
  PROVE  BookInv'
<1>1. DeskSeeds \in Nat /\ DeskSeeds # 0
  BY DEF Desks!DesksAssumption
<1>2. CASE Desks!MakeId(t)
  <2>. DEFINE n == Cardinality(table)
  <2>1. desk \in {"counsel", "terra"} /\ Desks!Make(t, n + 1)
    BY <1>2, FiniteDesks DEF Desks!MakeId, Desks!NextId
  <2>2. n \in Nat /\ {e.id : e \in table} = 1 .. n
    BY <2>1, FiniteDesks, BookIs DEF BookInv, Desks!TableInv, Desks!Numbered
  <2>3. ~ Desks!Entered(n + 1)
    <3>1. n + 1 \notin 1 .. n
      BY <2>2
    <3>. QED BY <2>2, <3>1 DEF Desks!Entered
  <2>4. n >= DeskSeeds
    <3>1. \E e \in table : e.id = DeskSeeds
      BY <1>1, <2>1 DEF BookInv, Desks!TableInv
    <3>. QED BY <1>1, <2>2, <3>1
  <2>. QED BY <1>1, <2>1, <2>2, <2>3, <2>4, MakeStays
<1>3. ASSUME NEW id \in DeskSeeds .. DeskSeeds + 1, Desks!MakeStream(t, id) PROVE BookInv'
  <2>1. desk = "lyte" /\ ~ Desks!Entered(id) /\ Desks!Make(t, id)
    BY <1>3 DEF Desks!MakeStream
  <2>2. id # DeskSeeds
    <3>1. \E e \in table : e.id = DeskSeeds
      BY <1>1, <2>1 DEF BookInv, Desks!TableInv
    <3>. QED BY <2>1, <3>1 DEF Desks!Entered
  <2>. QED BY <1>1, <2>1, <2>2, MakeStays DEF Desks!Numbered
<1>. QED BY <1>2, <1>3

LEMMA StoreStays ==
  ASSUME BookInv, Desks!DesksAssumption, NEW t \in Threads, Desks!Store(t)
  PROVE  BookInv'
<1>. DEFINE n == Cardinality(table)
            id == threads[t].id
            item == threads[t].item
<1>1. PICK state \in Desks!Ingested(desk) :
        /\ threads[t].op = "put"
        /\ Desks!Put(id, item, state)
        /\ accepted' = accepted \cup {[id |-> id, item |-> item]}
        /\ Desks!Disturb(t, [op |-> "idle"])
        /\ UNCHANGED <<desk, deskClock, rate, allowed, items, crossed>>
  BY DEF Desks!Store, Desks!SentraRests, Desks!Idle
<1>2. /\ threads \in [Threads -> DeskThread] /\ n \in Nat /\ items \in Nat
      /\ table \subseteq DeskEntry /\ IsFiniteSet(table)
      /\ \A e, f \in table : e.id = f.id => e = f
      /\ id \in Desks!Pending /\ id \in Nat /\ item \in Nat
  BY <1>1, BookIs
<1>3. PICK x \in Nat, y \in Nat : x = id /\ y = item
  BY <1>2
<1>4. state \in Desks!States /\ state # "half"
  BY <1>1 DEF Desks!Ingested, Desks!States
<1>. HIDE DEF id, item, n
<1>. DEFINE new == [id |-> x, item |-> y, state |-> state]
<1>5. /\ table' \subseteq DeskEntry
      /\ IsFiniteSet(table')
      /\ table' = {e \in table : e.id # x} \cup {new}
      /\ \A e, f \in table' : e.id = f.id => e = f
      /\ Cardinality(table') = IF Desks!Entered(x) THEN n ELSE n + 1
  BY <1>1, <1>2, <1>3, <1>4, PutIs DEF n
<1>6. /\ threads' \in [Threads -> DeskThread]
      /\ threads'[t].op = "idle"
      /\ \A u \in Threads \ {t} :
           /\ threads'[u].op = threads[u].op
           /\ threads[u].op # "reading" => threads'[u] = threads[u]
           /\ threads[u].op = "reading" => threads'[u].disturbed
  <2>1. [op |-> "idle"] \in DeskThread
    BY DEF DeskThread
  <2>. QED BY <1>1, <1>2, <2>1, Disturbed
<1>7. Desks!TypeOK'
  BY <1>1, <1>2, <1>5, <1>6, BookTyped
<1>8. desk \in {"counsel", "terra", "lyte"} /\ (Desks!Numbered' <=> Desks!Numbered)
  BY <1>1, <1>2 DEF BookInv, Desks!TypeOK, Desks!ThreadsInv, Desks!Numbered
<1>9. x > DeskSeeds /\ (x \in crossed \/ ~ Desks!Entered(x)) /\ (Desks!Numbered => x <= n + 1)
  BY <1>2, <1>3, FiniteDesks DEF BookInv, Desks!ThreadsInv, n
<1>10. new \in table' /\ new.id = x /\ new.item = y /\ new.state = state
  BY <1>5
<1>. HIDE DEF new
<1>11. \A e \in table' : e = new \/ (e \in table /\ e.id # x)
  BY <1>5
<1>12. DeskSeeds \in Nat
  BY DEF Desks!DesksAssumption
<1>13. Desks!TableInv'
  <2>1. \A i \in 1 .. DeskSeeds : \E e \in table' : e.id = i /\ e.item = 0
    <3>. TAKE i \in 1 .. DeskSeeds
    <3>1. PICK e \in table : e.id = i /\ e.item = 0
      BY <1>8 DEF BookInv, Desks!TableInv
    <3>2. i # x
      BY <1>9, <1>12
    <3>. QED BY <1>5, <3>1, <3>2
  <2>2. ASSUME Desks!Numbered PROVE {e.id : e \in table'} = 1 .. Cardinality(table')
    <3>1. {e.id : e \in table} = 1 .. n
      BY <2>2, FiniteDesks DEF BookInv, Desks!TableInv, n
    <3>2. Desks!Entered(x) <=> x \in 1 .. n
      BY <3>1 DEF Desks!Entered
    <3>3. {e.id : e \in table'} = 1 .. n \cup {x}
      <4>1. \A e \in table' : e.id \in 1 .. n \cup {x}
        BY <1>10, <1>11, <3>1
      <4>2. x \in {e.id : e \in table'}
        BY <1>10
      <4>3. ASSUME NEW i \in 1 .. n PROVE i \in {e.id : e \in table'}
        <5>1. PICK e \in table : e.id = i
          BY <3>1
        <5>. QED BY <1>5, <4>2, <5>1
      <4>. QED BY <4>1, <4>2, <4>3
    <3>4. x >= 1 /\ x <= n + 1
      BY <1>9, <1>12, <2>2
    <3>5. CASE Desks!Entered(x)
      <4>1. Cardinality(table') = n /\ 1 .. n \cup {x} = 1 .. n
        BY <1>5, <3>2, <3>5
      <4>. QED BY <3>3, <4>1
    <3>6. CASE ~ Desks!Entered(x)
      <4>1. Cardinality(table') = n + 1 /\ x = n + 1
        BY <1>2, <1>5, <3>2, <3>4, <3>6
      <4>2. 1 .. n \cup {n + 1} = 1 .. n + 1
        BY <1>2
      <4>. QED BY <3>3, <4>1, <4>2
    <3>. QED BY <3>5, <3>6
  <2>3. \A e \in table' : e.state # "half"
    BY <1>4, <1>8, <1>10, <1>11 DEF BookInv, Desks!TableInv
  <2>4. ASSUME NEW a \in accepted'
        PROVE  a.id \in crossed \/ \E e \in table' : e.id = a.id /\ e.item = a.item
    <3>1. CASE a = [id |-> x, item |-> y]
      BY <1>10, <3>1
    <3>2. CASE a \in accepted /\ a.id \notin crossed
      <4>1. PICK e \in table : e.id = a.id /\ e.item = a.item
        BY <3>2 DEF BookInv, Desks!TableInv
      <4>2. e.id # x
        BY <1>9, <3>2, <4>1 DEF Desks!Entered
      <4>. QED BY <1>5, <4>1, <4>2
    <3>. QED BY <1>1, <1>3, <3>1, <3>2
  <2>. QED BY <1>1, <1>5, <1>8, <2>1, <2>2, <2>3, <2>4, FiniteDesks DEF Desks!TableInv
<1>14. \A u \in Threads : threads'[u].op = "put" => u # t /\ threads'[u] = threads[u]
  BY <1>6
<1>15. ASSUME NEW z \in Desks!Pending'
       PROVE  /\ z \in Desks!Pending
              /\ z \in crossed \/ (z # x /\ ~ Desks!Entered(z))
  <2>1. PICK u \in Threads : threads'[u].op = "put" /\ z = threads'[u].id
    BY DEF Desks!Pending
  <2>2. u # t /\ threads[u].op = "put" /\ z = threads[u].id
    BY <1>14, <2>1
  <2>3. z \in Desks!Pending
    BY <2>2 DEF Desks!Pending
  <2>4. z = x => z \in crossed
    BY <1>1, <1>3, <2>2 DEF BookInv, Desks!ThreadsInv, id
  <2>. QED BY <2>3, <2>4 DEF BookInv, Desks!ThreadsInv
<1>16. ASSUME NEW z, z # x, ~ Desks!Entered(z) PROVE ~ Desks!Entered(z)'
  BY <1>10, <1>11, <1>16 DEF Desks!Entered
<1>17. ASSUME Desks!Numbered, NEW z \in Desks!Pending' PROVE z <= Cardinality(table') + 1
  <2>1. z \in Desks!Pending /\ z \in Nat
    BY <1>15, BookIs
  <2>2. z <= n + 1
    BY <1>17, <2>1, FiniteDesks DEF BookInv, Desks!ThreadsInv, n
  <2>3. Cardinality(table') \in {n, n + 1}
    BY <1>5
  <2>. QED BY <1>2, <2>1, <2>2, <2>3
<1>18. Desks!ThreadsInv'
  <2>1. \A z \in Desks!Pending' : z > DeskSeeds /\ (z \in crossed \/ ~ Desks!Entered(z)')
    BY <1>15, <1>16 DEF BookInv, Desks!ThreadsInv
  <2>2. \A u, v \in Threads :
          u # v /\ threads'[u].op = "put" /\ threads'[v].op = "put" /\ threads'[u].id = threads'[v].id
            => threads'[u].id \in crossed
    BY <1>14 DEF BookInv, Desks!ThreadsInv
  <2>3. \A u \in Threads : ~ (threads'[u].op = "reading" /\ ~ threads'[u].disturbed)
    BY <1>6
  <2>4. \A u \in Threads : threads'[u].op = "failed" => threads'[u].disturbed \/ threads'[u].ill
    BY <1>6 DEF BookInv, Desks!ThreadsInv
  <2>5. \A u \in Threads : threads'[u].op # "entered"
    BY <1>6, <1>8 DEF BookInv, Desks!ThreadsInv
  <2>. QED BY <1>1, <1>8, <1>17, <2>1, <2>2, <2>3, <2>4, <2>5, FiniteDesks DEF Desks!ThreadsInv
<1>. QED BY <1>7, <1>13, <1>18 DEF BookInv

-----------------------------------------------------------------------------
(* Vessels and Lyte: entries that are there change *)

LEMMA EnterStays ==
  ASSUME BookInv, NEW t \in Threads, NEW id \in Nat, Desks!Enter(t, id)
  PROVE  BookInv'
<1>1. /\ desk = "vessels" /\ Desks!Resting(t) /\ items' = items + 1
      /\ IF Desks!Entered(id) THEN UNCHANGED table ELSE Desks!Put(id, items + 1, "half")
      /\ Desks!Disturb(t, [op |-> "entered", id |-> id])
      /\ UNCHANGED <<desk, deskClock, rate, allowed, accepted, crossed>>
  BY DEF Desks!Enter, Desks!SentraRests
<1>2. /\ threads \in [Threads -> DeskThread] /\ items \in Nat /\ items + 1 \in Nat
      /\ table \subseteq DeskEntry /\ IsFiniteSet(table)
      /\ \A e, f \in table : e.id = f.id => e = f
  BY BookIs
<1>3. PICK y \in Nat : y = items + 1
  BY <1>2
<1>4. /\ table' \subseteq DeskEntry
      /\ IsFiniteSet(table')
      /\ \A e, f \in table' : e.id = f.id => e = f
      /\ table \subseteq table'
      /\ \A e \in table' : e \in table \/ e.id = id
  <2>1. CASE Desks!Entered(id)
    <3>1. table' = table
      BY <1>1, <2>1
    <3>. QED BY <1>2, <3>1
  <2>2. CASE ~ Desks!Entered(id)
    <3>. DEFINE new == [id |-> id, item |-> y, state |-> "half"]
    <3>1. "half" \in Desks!States /\ Desks!Put(id, y, "half")
      BY <1>1, <1>3, <2>2 DEF Desks!States
    <3>2. /\ table' \subseteq DeskEntry
          /\ IsFiniteSet(table')
          /\ table' = {e \in table : e.id # id} \cup {new}
          /\ \A e, f \in table' : e.id = f.id => e = f
      BY <1>2, <3>1, PutIs
    <3>3. table = {e \in table : e.id # id}
      BY <2>2 DEF Desks!Entered
    <3>. QED BY <3>2, <3>3
  <2>. QED BY <2>1, <2>2
<1>5. /\ threads' \in [Threads -> DeskThread]
      /\ threads'[t].op = "entered" /\ threads'[t].id = id
      /\ \A u \in Threads \ {t} :
           /\ threads'[u].op = threads[u].op
           /\ threads[u].op # "reading" => threads'[u] = threads[u]
           /\ threads[u].op = "reading" => threads'[u].disturbed
  <2>1. [op |-> "entered", id |-> id] \in DeskThread
    BY DEF DeskThread
  <2>2. PICK op \in DeskThread : op = [op |-> "entered", id |-> id]
    BY <2>1
  <2>3. op.op = "entered" /\ op.id = id
    BY <2>2
  <2>. QED BY <1>1, <1>2, <2>2, <2>3, Disturbed
<1>6. Desks!TypeOK'
  BY <1>1, <1>2, <1>4, <1>5, BookTyped
<1>7. ~ Desks!Numbered /\ ~ Desks!Numbered' /\ desk' = "vessels"
  BY <1>1 DEF Desks!Numbered
<1>8. accepted = {} /\ \A u \in Threads : threads[u].op # "put"
  BY <1>1, BookIs DEF BookInv, Desks!ThreadsInv
<1>9. accepted' = {} /\ Desks!Pending' = {} /\ \A u \in Threads : threads'[u].op # "put"
  BY <1>1, <1>5, <1>8 DEF Desks!Pending
<1>10. Desks!TableInv'
  <2>1. \A i \in 1 .. DeskSeeds : \E e \in table' : e.id = i /\ e.item = 0
    BY <1>1, <1>4 DEF BookInv, Desks!TableInv
  <2>2. ASSUME NEW e \in table', e.state = "half"
        PROVE  \E u \in Threads : threads'[u].op = "entered" /\ threads'[u].id = e.id
    <3>1. CASE e.id = id
      BY <1>5, <3>1
    <3>2. CASE e \in table
      <4>1. PICK u \in Threads : threads[u].op = "entered" /\ threads[u].id = e.id
        BY <2>2, <3>2 DEF BookInv, Desks!TableInv
      <4>2. u # t
        BY <1>1, <4>1 DEF Desks!Resting
      <4>3. threads'[u] = threads[u]
        BY <1>5, <4>1, <4>2
      <4>. QED BY <4>1, <4>3
    <3>. QED BY <1>4, <3>1, <3>2
  <2>. QED BY <1>4, <1>7, <1>9, <2>1, <2>2, FiniteDesks DEF Desks!TableInv
<1>11. \A u \in Threads : ~ (threads'[u].op = "reading" /\ ~ threads'[u].disturbed)
  BY <1>5
<1>12. \A u \in Threads : threads'[u].op = "failed" => threads'[u].disturbed \/ threads'[u].ill
  BY <1>5 DEF BookInv, Desks!ThreadsInv
<1>13. Desks!ThreadsInv'
  BY <1>7, <1>9, <1>11, <1>12 DEF Desks!ThreadsInv
<1>. QED BY <1>6, <1>10, <1>13 DEF BookInv

\* An entry that got its position or another point.
LEMMA BecomeStays ==
  ASSUME BookInv, NEW t \in Threads, NEW id \in Nat, NEW state \in {"whole", "ill"},
         Desks!Become(id, state), Desks!Disturb(t, [op |-> "idle"]), desk \in {"vessels", "lyte"},
         threads[t].op # "put", threads[t].op = "entered" => threads[t].id = id,
         items' \in Nat, UNCHANGED <<desk, deskClock, rate, allowed, accepted, crossed>>
  PROVE  BookInv'
<1>1. /\ threads \in [Threads -> DeskThread]
      /\ table \subseteq DeskEntry /\ IsFiniteSet(table)
      /\ \A e, f \in table : e.id = f.id => e = f
      /\ state \in Desks!States /\ state # "half"
  BY BookIs DEF Desks!States
<1>2. /\ table' \subseteq DeskEntry /\ IsFiniteSet(table')
      /\ \A e, f \in table' : e.id = f.id => e = f
      /\ \A e \in table' : \E f \in table :
           /\ e.id = f.id /\ e.item = f.item
           /\ IF e.id = id THEN e.state = state ELSE e = f
      /\ \A f \in table : \E e \in table' : e.id = f.id /\ e.item = f.item
  BY <1>1, BecomeIs
<1>3. /\ threads' \in [Threads -> DeskThread]
      /\ threads'[t].op = "idle"
      /\ \A u \in Threads \ {t} :
           /\ threads'[u].op = threads[u].op
           /\ threads[u].op # "reading" => threads'[u] = threads[u]
           /\ threads[u].op = "reading" => threads'[u].disturbed
  <2>1. [op |-> "idle"] \in DeskThread
    BY DEF DeskThread
  <2>. QED BY <1>1, <2>1, Disturbed
<1>4. Desks!TypeOK'
  BY <1>1, <1>2, <1>3, BookTyped
<1>5. ~ Desks!Numbered' /\ desk # "sentra" /\ desk' # "sentra"
  BY DEF Desks!Numbered
<1>6. \A u \in Threads : /\ threads'[u].op = "put" <=> threads[u].op = "put"
                         /\ threads[u].op = "put" => threads'[u] = threads[u]
  BY <1>3
<1>7. Desks!Pending' = Desks!Pending
  BY <1>6 DEF Desks!Pending
<1>8. \A z : Desks!Entered(z)' <=> Desks!Entered(z)
  BY <1>2 DEF Desks!Entered
<1>9. Desks!TableInv'
  <2>1. ASSUME NEW i \in 1 .. DeskSeeds PROVE \E e \in table' : e.id = i /\ e.item = 0
    <3>1. PICK f \in table : f.id = i /\ f.item = 0
      BY <1>5 DEF BookInv, Desks!TableInv
    <3>. QED BY <1>2, <3>1
  <2>2. ASSUME NEW e \in table', e.state = "half"
        PROVE  desk = "vessels" /\ \E u \in Threads : threads'[u].op = "entered" /\ threads'[u].id = e.id
    <3>1. e.id # id /\ e \in table
      BY <1>1, <1>2, <2>2
    <3>2. PICK u \in Threads : desk = "vessels" /\ threads[u].op = "entered" /\ threads[u].id = e.id
      BY <2>2, <3>1 DEF BookInv, Desks!TableInv
    <3>3. u # t
      BY <3>1, <3>2
    <3>. QED BY <1>3, <3>2, <3>3
  <2>3. ASSUME NEW a \in accepted
        PROVE  a.id \in crossed \/ \E e \in table' : e.id = a.id /\ e.item = a.item
    <3>1. CASE a.id \in crossed
      BY <3>1
    <3>2. CASE a.id \notin crossed
      <4>1. PICK f \in table : f.id = a.id /\ f.item = a.item
        BY <3>2 DEF BookInv, Desks!TableInv
      <4>. QED BY <1>2, <4>1
    <3>. QED BY <3>1, <3>2
  <2>. QED BY <1>2, <1>5, <2>1, <2>2, <2>3, FiniteDesks DEF Desks!TableInv
<1>10. Desks!ThreadsInv'
  <2>1. desk \in {"vessels", "sentra"} => Desks!Pending' = {} /\ accepted = {}
    BY <1>7 DEF BookInv, Desks!ThreadsInv
  <2>2. \A z \in Desks!Pending' : z > DeskSeeds /\ (z \in crossed \/ ~ Desks!Entered(z)')
    BY <1>7, <1>8 DEF BookInv, Desks!ThreadsInv
  <2>3. \A u, v \in Threads :
          u # v /\ threads'[u].op = "put" /\ threads'[v].op = "put" /\ threads'[u].id = threads'[v].id
            => threads'[u].id \in crossed
    BY <1>6 DEF BookInv, Desks!ThreadsInv
  <2>4. \A u \in Threads : ~ (threads'[u].op = "reading" /\ ~ threads'[u].disturbed)
    BY <1>3
  <2>5. \A u \in Threads : threads'[u].op = "failed" => threads'[u].disturbed \/ threads'[u].ill
    BY <1>3 DEF BookInv, Desks!ThreadsInv
  <2>6. desk # "vessels" => \A u \in Threads : threads'[u].op # "entered"
    BY <1>3 DEF BookInv, Desks!ThreadsInv
  <2>. QED BY <1>5, <2>1, <2>2, <2>3, <2>4, <2>5, <2>6 DEF Desks!ThreadsInv
<1>. QED BY <1>4, <1>9, <1>10 DEF BookInv

LEMMA PlaceStays ==
  ASSUME BookInv, NEW t \in Threads,
         Desks!Place(t) \/ \E id \in Nat : Desks!AppendPoint(t, id)
  PROVE  BookInv'
<1>1. items \in Nat /\ threads \in [Threads -> DeskThread]
  BY BookIs
<1>2. CASE Desks!Place(t)
  <2>1. PICK state \in Desks!Ingested(desk) :
          /\ threads[t].op = "entered" /\ Desks!Become(threads[t].id, state)
          /\ Desks!Disturb(t, [op |-> "idle"])
          /\ UNCHANGED <<desk, deskClock, rate, allowed, items, accepted, crossed>>
    BY <1>2 DEF Desks!Place, Desks!SentraRests, Desks!Idle
  <2>2. threads[t] \in [op : {"entered"}, id : Nat]
    BY <1>1, <2>1 DEF DeskThread, DeskReader
  <2>3. PICK id \in Nat : id = threads[t].id
    BY <2>2
  <2>4. desk = "vessels"
    BY <2>1 DEF BookInv, Desks!ThreadsInv
  <2>5. state \in {"whole", "ill"}
    BY <2>1 DEF Desks!Ingested
  <2>. QED BY <1>1, <2>1, <2>3, <2>4, <2>5, BecomeStays
<1>3. ASSUME NEW id \in Nat, Desks!AppendPoint(t, id) PROVE BookInv'
  <2>1. PICK state \in Desks!Ingested(desk) :
          /\ desk = "lyte" /\ Desks!Resting(t) /\ items' = items + 1
          /\ Desks!Become(id, state)
          /\ Desks!Disturb(t, [op |-> "idle"])
          /\ UNCHANGED <<desk, deskClock, rate, allowed, accepted, crossed>>
    BY <1>3 DEF Desks!AppendPoint, Desks!SentraRests, Desks!Idle
  <2>2. state \in {"whole", "ill"} /\ items' \in Nat
    BY <1>1, <2>1 DEF Desks!Ingested
  <2>. QED BY <2>1, <2>2, BecomeStays DEF Desks!Resting
<1>. QED BY <1>2, <1>3

-----------------------------------------------------------------------------
(* The readers, and Sentra *)

\* What a reader may do next.
ReadsAs(t, op) ==
  /\ op \in DeskThread /\ op.op \in {"answered", "reading", "failed"}
  /\ threads[t].op \notin {"put", "entered"}
  /\ op.op = "reading" => desk # "sentra"
  /\ op.op = "reading" /\ ~ op.disturbed =>
       /\ op.size = Cardinality(table)
       /\ \A u \in Threads : threads[u].op # "entered"
       /\ op.ill => \E e \in table : e.state = "ill"
  /\ op.op = "failed" => op.disturbed \/ op.ill

\* A reader changes nothing but its own state.
LEMMA ReadStays ==
  ASSUME BookInv, NEW t \in Threads, NEW op, ReadsAs(t, op),
         threads' = [threads EXCEPT ![t] = op],
         UNCHANGED <<desk, table, items, accepted, crossed, deskClock, rate, allowed>>
  PROVE  BookInv'
<1>1. threads \in [Threads -> DeskThread] /\ table \subseteq DeskEntry /\ items \in Nat
  BY BookIs
<1>2. /\ threads'[t] = op /\ threads'[t].op \notin {"put", "entered"}
      /\ \A u \in Threads \ {t} : threads'[u] = threads[u]
      /\ threads' \in [Threads -> DeskThread]
  BY <1>1 DEF ReadsAs
<1>3. /\ \A u \in Threads : threads'[u].op = "put" <=> threads[u].op = "put"
      /\ \A u \in Threads : threads[u].op = "put" => threads'[u] = threads[u]
      /\ \A u \in Threads : threads'[u].op = "entered" <=> threads[u].op = "entered"
      /\ \A u \in Threads : threads[u].op = "entered" => threads'[u] = threads[u]
  BY <1>2 DEF ReadsAs
<1>4. Desks!Pending' = Desks!Pending /\ (Desks!Numbered' <=> Desks!Numbered)
  BY <1>3 DEF Desks!Pending, Desks!Numbered
<1>5. Desks!TypeOK'
  BY <1>1, <1>2, BookTyped
<1>6. Desks!TableInv'
  BY <1>3, <1>4 DEF BookInv, Desks!TableInv
<1>7. \A u \in Threads : threads'[u].op = "reading" /\ ~ threads'[u].disturbed =>
         /\ threads'[u].size = Cardinality(table)
         /\ \A v \in Threads : threads'[v].op # "entered"
         /\ threads'[u].ill => \E e \in table : e.state = "ill"
  <2>1. \A u \in Threads : threads[u].op = "reading" /\ ~ threads[u].disturbed =>
         /\ threads[u].size = Cardinality(table)
         /\ \A v \in Threads : threads[v].op # "entered"
         /\ threads[u].ill => \E e \in table : e.state = "ill"
    BY FiniteDesks DEF BookInv, Desks!ThreadsInv, Desks!Grown
  <2>. QED BY <1>2, <1>3, <2>1 DEF ReadsAs
<1>8. \A u \in Threads : threads'[u].op = "failed" => threads'[u].disturbed \/ threads'[u].ill
  BY <1>2 DEF BookInv, Desks!ThreadsInv, ReadsAs
<1>9. \A u \in Threads : threads'[u].op = "reading" => desk # "sentra"
  BY <1>2 DEF BookInv, Desks!ThreadsInv, ReadsAs
<1>10. Desks!ThreadsInv'
  <2>1. \A z : Desks!Entered(z)' <=> Desks!Entered(z)
    BY DEF Desks!Entered
  <2>2. \A z \in Desks!Pending : z > DeskSeeds /\ (z \in crossed \/ ~ Desks!Entered(z)')
    BY <2>1 DEF BookInv, Desks!ThreadsInv
  <2>3. \A u, v \in Threads :
          u # v /\ threads'[u].op = "put" /\ threads'[v].op = "put" /\ threads'[u].id = threads'[v].id
            => threads'[u].id \in crossed
    BY <1>3 DEF BookInv, Desks!ThreadsInv
  <2>4. desk # "vessels" => \A u \in Threads : threads'[u].op # "entered"
    BY <1>3 DEF BookInv, Desks!ThreadsInv
  <2>5. /\ desk \in {"vessels", "sentra"} => Desks!Pending = {} /\ accepted = {}
        /\ Desks!Numbered => \A z \in Desks!Pending : z <= Cardinality(table) + 1
    BY FiniteDesks DEF BookInv, Desks!ThreadsInv
  <2>. QED BY <1>4, <1>7, <1>8, <1>9, <2>2, <2>3, <2>4, <2>5, FiniteDesks DEF Desks!ThreadsInv, Desks!Grown
<1>. QED BY <1>5, <1>6, <1>10 DEF BookInv

LEMMA ReadersStay ==
  ASSUME BookInv, NEW t \in Threads,
         Desks!Look(t) \/ Desks!Show(t) \/ \E id \in Nat : Desks!LookAt(t, id)
  PROVE  BookInv'
<1>1. /\ threads \in [Threads -> DeskThread] /\ Cardinality(table) \in Nat
      /\ table \subseteq DeskEntry
      /\ threads[t].op = "reading" => threads[t] \in DeskReader
  BY BookIs
<1>2. CASE Desks!Look(t)
  <2>1. PICK d \in BOOLEAN : d = (Desks!Busy # {})
    OBVIOUS
  <2>2. PICK left : left = {e.id : e \in table}
    OBVIOUS
  <2>3. PICK op : op = [op |-> "reading", size |-> Cardinality(table), left |-> left,
                        disturbed |-> d, ill |-> FALSE]
    OBVIOUS
  <2>4. /\ desk # "sentra" /\ Desks!Resting(t) /\ threads' = [threads EXCEPT ![t] = op]
        /\ UNCHANGED <<desk, table, items, accepted, crossed, deskClock, rate, allowed>>
    BY <1>2, <2>1, <2>2, <2>3, FiniteDesks DEF Desks!Look, Desks!SentraRests
  <2>5. left \in SUBSET Nat
    BY <1>1, <2>2 DEF DeskEntry
  <2>6. op \in DeskThread /\ op.op = "reading" /\ op.size = Cardinality(table) /\ op.disturbed = d /\ ~ op.ill
    BY <1>1, <2>3, <2>5 DEF DeskThread, DeskReader
  <2>7. Desks!Busy = {} => \A u \in Threads : threads[u].op # "entered"
    BY DEF Desks!Busy
  <2>8. threads[t].op \notin {"put", "entered"}
    BY <2>4 DEF Desks!Resting
  <2>9. ReadsAs(t, op)
    BY <2>1, <2>4, <2>6, <2>7, <2>8 DEF ReadsAs
  <2>. QED BY <2>4, <2>9, ReadStays
<1>3. ASSUME threads[t].op = "reading"
      PROVE  /\ threads[t] \in DeskReader /\ desk # "sentra"
             /\ ~ threads[t].disturbed =>
                  /\ threads[t].size = Cardinality(table)
                  /\ \A u \in Threads : threads[u].op # "entered"
                  /\ threads[t].ill => \E e \in table : e.state = "ill"
  BY <1>1, <1>3, FiniteDesks DEF BookInv, Desks!ThreadsInv, Desks!Grown
<1>4. ASSUME NEW op, op = Desks!Failed(t), threads[t].op = "reading",
             threads[t].disturbed \/ \E e \in table : e.state = "ill"
      PROVE  ReadsAs(t, op)
  <2>1. PICK ill \in BOOLEAN : ill = (\E e \in table : e.state = "ill")
    OBVIOUS
  <2>2. PICK d \in BOOLEAN : d = threads[t].disturbed
    BY <1>3, <1>4 DEF DeskReader
  <2>3. op = [op |-> "failed", disturbed |-> d, ill |-> ill]
    BY <1>4, <2>1, <2>2 DEF Desks!Failed
  <2>4. op \in DeskThread /\ op.op = "failed" /\ op.disturbed = d /\ op.ill = ill
    BY <2>3 DEF DeskThread
  <2>. QED BY <1>4, <2>1, <2>2, <2>4 DEF ReadsAs
<1>5. CASE Desks!Show(t)
  <2>1. /\ threads[t].op = "reading"
        /\ UNCHANGED <<desk, table, items, accepted, crossed, deskClock, rate, allowed>>
    BY <1>5 DEF Desks!Show, Desks!SentraRests
  <2>2. CASE /\ Desks!Grown(t) \/ threads[t].ill
             /\ threads' = [threads EXCEPT ![t] = Desks!Failed(t)]
    <3>1. PICK op : op = Desks!Failed(t)
      OBVIOUS
    <3>2. threads[t].disturbed \/ \E e \in table : e.state = "ill"
      BY <1>3, <2>1, <2>2, FiniteDesks DEF Desks!Grown
    <3>3. ReadsAs(t, op) /\ threads' = [threads EXCEPT ![t] = op]
      BY <1>4, <2>1, <2>2, <3>1, <3>2
    <3>. QED BY <2>1, <3>3, ReadStays
  <2>3. CASE threads' = [threads EXCEPT ![t] = [op |-> "answered"]]
    <3>1. PICK op : op = [op |-> "answered"]
      OBVIOUS
    <3>2. op \in DeskThread /\ op.op = "answered" /\ threads' = [threads EXCEPT ![t] = op]
      BY <2>3, <3>1 DEF DeskThread
    <3>3. ReadsAs(t, op)
      BY <2>1, <3>2 DEF ReadsAs
    <3>. QED BY <2>1, <3>2, <3>3, ReadStays
  <2>. QED BY <1>5, <2>2, <2>3 DEF Desks!Show
<1>6. ASSUME NEW id \in Nat, Desks!LookAt(t, id) PROVE BookInv'
  <2>1. /\ threads[t].op = "reading"
        /\ UNCHANGED <<desk, table, items, accepted, crossed, deskClock, rate, allowed>>
    BY <1>6 DEF Desks!LookAt, Desks!SentraRests
  <2>2. PICK e \in table :
          \/ /\ Desks!Grown(t) \/ e.state # "whole" \/ (desk = "lyte" /\ threads[t].disturbed)
             /\ threads' = [threads EXCEPT ![t] = Desks!Failed(t)]
          \/ threads' = [threads EXCEPT ![t].left = @ \ {id}, ![t].ill = @ \/ e.state = "ill"]
    BY <1>6 DEF Desks!LookAt
  <2>3. CASE /\ Desks!Grown(t) \/ e.state # "whole" \/ (desk = "lyte" /\ threads[t].disturbed)
             /\ threads' = [threads EXCEPT ![t] = Desks!Failed(t)]
    <3>1. PICK op : op = Desks!Failed(t)
      OBVIOUS
    <3>2. e.state \in {"half", "whole", "ill"}
      BY <1>1 DEF DeskEntry, Desks!States
    <3>3. e.state = "half" => \E u \in Threads : threads[u].op = "entered"
      BY DEF BookInv, Desks!TableInv
    <3>4. threads[t].disturbed \/ \E f \in table : f.state = "ill"
      BY <1>3, <2>1, <2>3, <3>2, <3>3, FiniteDesks DEF Desks!Grown
    <3>5. ReadsAs(t, op) /\ threads' = [threads EXCEPT ![t] = op]
      BY <1>4, <2>1, <2>3, <3>1, <3>4
    <3>. QED BY <2>1, <3>5, ReadStays
  <2>4. CASE threads' = [threads EXCEPT ![t].left = @ \ {id}, ![t].ill = @ \/ e.state = "ill"]
    <3>1. PICK op : op = [threads[t] EXCEPT !.left = @ \ {id}, !.ill = @ \/ e.state = "ill"]
      OBVIOUS
    <3>2. /\ op \in DeskReader /\ op.op = "reading" /\ op.size = threads[t].size
          /\ op.disturbed = threads[t].disturbed
          /\ op.ill => threads[t].ill \/ e.state = "ill"
      BY <1>3, <2>1, <3>1 DEF DeskReader
    <3>3. threads' = [threads EXCEPT ![t] = op]
      BY <1>1, <2>4, <3>1
    <3>4. op \in DeskThread
      BY <3>2 DEF DeskThread
    <3>5. ReadsAs(t, op)
      BY <1>3, <2>1, <3>2, <3>4 DEF ReadsAs
    <3>. QED BY <2>1, <3>3, <3>5, ReadStays
  <2>. QED BY <2>2, <2>3, <2>4
<1>. QED BY <1>2, <1>5, <1>6

\* Sentra: the verdicts that cannot be sent come and go, and a call ends at once.
LEMMA VerdictsStay ==
  ASSUME BookInv, desk = "sentra", NEW t \in Threads, NEW op \in DeskThread,
         op.op \in {"answered", "failed"}, op.op = "failed" => op.disturbed \/ op.ill,
         threads' = [threads EXCEPT ![t] = op],
         table' = table \/ table' = {} \/ Desks!Put(1, 0, "ill"),
         rate' \subseteq [at : 0 .. deskClock, nth : Nat], allowed' \subseteq [at : 0 .. deskClock, nth : Nat],
         UNCHANGED <<desk, items, accepted, crossed, deskClock>>
  PROVE  BookInv'
<1>1. /\ threads \in [Threads -> DeskThread] /\ items \in Nat
      /\ table \subseteq DeskEntry /\ IsFiniteSet(table)
      /\ \A e, f \in table : e.id = f.id => e = f
  BY BookIs
<1>2. /\ table' \subseteq DeskEntry /\ IsFiniteSet(table')
      /\ \A e, f \in table' : e.id = f.id => e = f
      /\ \A e \in table' : e.state # "half"
  <2>1. \A e \in table : e.state # "half"
    BY DEF BookInv, Desks!TableInv
  <2>2. CASE table' = table
    BY <1>1, <2>1, <2>2
  <2>3. CASE table' = {}
    BY <2>3, FS_EmptySet
  <2>4. CASE Desks!Put(1, 0, "ill")
    <3>1. "ill" \in Desks!States
      BY DEF Desks!States
    <3>2. /\ table' \subseteq DeskEntry /\ IsFiniteSet(table')
          /\ table' = {e \in table : e.id # 1} \cup {[id |-> 1, item |-> 0, state |-> "ill"]}
          /\ \A e, f \in table' : e.id = f.id => e = f
      BY <1>1, <2>4, <3>1, PutIs
    <3>. QED BY <2>1, <3>2
  <2>. QED BY <2>2, <2>3, <2>4
<1>3. /\ threads'[t] = op
      /\ \A u \in Threads \ {t} : threads'[u] = threads[u]
      /\ threads' \in [Threads -> DeskThread]
  BY <1>1
<1>4. Desks!TypeOK'
  BY <1>1, <1>2, <1>3 DEF BookInv, Desks!TypeOK, DeskEntry, DeskThread, DeskReader
<1>5. Desks!Pending = {} /\ accepted = {} /\ \A u \in Threads : threads[u].op \notin {"put", "reading", "entered"}
  BY BookIs DEF BookInv, Desks!ThreadsInv
<1>6. \A u \in Threads : threads'[u].op \notin {"put", "reading", "entered"}
  BY <1>3, <1>5
<1>7. Desks!Pending' = {} /\ accepted' = {} /\ ~ Desks!Numbered' /\ desk' = "sentra"
  BY <1>5, <1>6 DEF Desks!Pending, Desks!Numbered
<1>8. Desks!TableInv'
  BY <1>2, <1>7, FiniteDesks DEF Desks!TableInv
<1>9. \A u \in Threads : threads'[u].op = "failed" => threads'[u].disturbed \/ threads'[u].ill
  BY <1>3 DEF BookInv, Desks!ThreadsInv
<1>10. Desks!ThreadsInv'
  BY <1>6, <1>7, <1>9 DEF Desks!ThreadsInv
<1>. QED BY <1>4, <1>8, <1>10 DEF BookInv

\* A call is counted among those of less than a window ago, under a number of its own.
LEMMA EvaluateStays ==
  ASSUME Desks!DesksAssumption, Desks!TypeOK, Desks!SentraInv, 
         NEW t \in Threads, NEW others \in BOOLEAN, Desks!Evaluate(t, others)
  PROVE  /\ Desks!SentraInv'
         /\ rate' \subseteq [at : 0 .. deskClock, nth : Nat]
         /\ allowed' \subseteq [at : 0 .. deskClock, nth : Nat]
<1>. DEFINE Class(R, x) == {h \in R : h.at = x}
            Lately(x) == {b \in allowed : x - b.at \in 0 .. DeskWindow - 1}
<1>1. /\ DeskLimit \in Nat /\ DeskWindow \in Nat \ {0} /\ deskClock \in Nat
      /\ rate \subseteq [at : 0 .. deskClock, nth : Nat]
      /\ allowed \subseteq [at : 0 .. deskClock, nth : Nat]
      /\ IsFiniteSet(rate)
      /\ \A h \in rate : h.nth < Cardinality(Class(rate, h.at))
      /\ \A a \in allowed : deskClock - a.at < DeskWindow => a \in rate
      /\ \A a \in allowed : Cardinality(Lately(a.at)) <= DeskLimit
  BY FiniteDesks DEF Desks!DesksAssumption, Desks!TypeOK, Desks!SentraInv
<1>2. PICK hit : hit = [at |-> deskClock, nth |-> Cardinality(Class(rate, deskClock))]
  OBVIOUS
<1>3. PICK Recent : Recent = {h \in rate : deskClock - h.at < DeskWindow}
  OBVIOUS
<1>4. /\ deskClock' = deskClock
      /\ rate' = Recent \cup {hit}
      /\ \/ allowed' = allowed
         \/ allowed' = allowed \cup {hit} /\ Cardinality(Recent) < DeskLimit
  BY <1>2, <1>3, FiniteDesks DEF Desks!Evaluate, Desks!Recent
<1>5. /\ \A x : IsFiniteSet(Class(rate, x)) /\ Cardinality(Class(rate, x)) \in Nat
      /\ IsFiniteSet(Recent) /\ Cardinality(Recent) \in Nat
  <2>1. \A x : Class(rate, x) \subseteq rate
    OBVIOUS
  <2>2. Recent \subseteq rate
    BY <1>3
  <2>. HIDE DEF Class
  <2>. QED BY <1>1, <2>1, <2>2, FS_Subset, FS_CardinalityType
<1>6. /\ hit.at = deskClock /\ hit.nth = Cardinality(Class(rate, deskClock))
      /\ hit \in [at : 0 .. deskClock, nth : Nat]
  <2>. HIDE DEF Class
  <2>. QED BY <1>1, <1>2, <1>5
<1>7. hit \notin rate
  <2>. SUFFICES ASSUME hit \in rate PROVE FALSE
    OBVIOUS
  <2>1. hit.nth < Cardinality(Class(rate, hit.at))
    BY <1>1
  <2>. HIDE DEF Class
  <2>. QED BY <1>5, <1>6, <2>1
<1>8. /\ IsFiniteSet(Recent \cup {hit})
      /\ Cardinality(Recent \cup {hit}) = Cardinality(Recent) + 1
  BY <1>3, <1>5, <1>7, FS_AddElement
<1>9. /\ rate' \subseteq [at : 0 .. deskClock, nth : Nat]
      /\ allowed' \subseteq [at : 0 .. deskClock, nth : Nat]
  BY <1>1, <1>3, <1>4, <1>6
<1>10. ASSUME NEW h \in rate' PROVE h.nth < Cardinality(Class(rate', h.at))
  <2>1. CASE h.at = deskClock
    <3>1. Class(rate', deskClock) = Class(rate, deskClock) \cup {hit}
      BY <1>1, <1>3, <1>4, <1>6
    <3>2. Cardinality(Class(rate', deskClock)) = Cardinality(Class(rate, deskClock)) + 1
      <4>1. hit \notin Class(rate, deskClock)
        BY <1>7
      <4>. HIDE DEF Class
      <4>. QED BY <1>5, <3>1, <4>1, FS_AddElement
    <3>3. h = hit \/ h \in rate
      BY <1>3, <1>4
    <3>4. h = hit => h.nth = Cardinality(Class(rate, deskClock))
      BY <1>6
    <3>5. h \in rate => h.nth < Cardinality(Class(rate, deskClock)) /\ h.nth \in Nat
      BY <1>1, <2>1
    <3>. HIDE DEF Class
    <3>. QED BY <1>5, <2>1, <3>2, <3>3, <3>4, <3>5
  <2>2. CASE h.at # deskClock
    <3>1. h \in rate /\ deskClock - h.at < DeskWindow
      BY <1>3, <1>4, <1>6, <2>2
    <3>2. Class(rate', h.at) = Class(rate, h.at)
      BY <1>3, <1>4, <1>6, <2>2, <3>1
    <3>3. h.nth < Cardinality(Class(rate, h.at))
      BY <1>1, <3>1
    <3>. HIDE DEF Class
    <3>. QED BY <3>2, <3>3
  <2>. QED BY <2>1, <2>2
<1>11. \A a \in allowed' : deskClock - a.at < DeskWindow => a \in rate'
  BY <1>1, <1>3, <1>4
<1>12. ASSUME NEW a \in allowed'
       PROVE  Cardinality({b \in allowed' : a.at - b.at \in 0 .. DeskWindow - 1}) <= DeskLimit
  <2>. DEFINE Now == {b \in allowed' : a.at - b.at \in 0 .. DeskWindow - 1}
  <2>1. CASE allowed' = allowed
    BY <1>1, <2>1
  <2>2. CASE /\ allowed' = allowed \cup {hit} /\ Cardinality(Recent) < DeskLimit
             /\ a.at # deskClock
    <3>1. a \in allowed /\ a.at \in Nat /\ a.at < deskClock
      BY <1>1, <1>6, <2>2
    <3>2. Now = Lately(a.at)
      <4>1. a.at - hit.at \notin 0 .. DeskWindow - 1
        BY <1>1, <1>6, <3>1
      <4>. QED BY <2>2, <4>1
    <3>3. Cardinality(Lately(a.at)) <= DeskLimit
      BY <1>1, <3>1
    <3>. HIDE DEF Lately
    <3>. QED BY <3>2, <3>3
  <2>3. CASE /\ allowed' = allowed \cup {hit} /\ Cardinality(Recent) < DeskLimit
             /\ a.at = deskClock
    <3>1. Now \subseteq Recent \cup {hit}
      <4>1. ASSUME NEW b \in allowed, deskClock - b.at \in 0 .. DeskWindow - 1
            PROVE  b \in Recent
        <5>1. deskClock - b.at < DeskWindow
          BY <1>1, <4>1
        <5>. QED BY <1>1, <1>3, <5>1
      <4>. QED BY <2>3, <4>1
    <3>2. IsFiniteSet(Now) /\ Cardinality(Now) <= Cardinality(Recent) + 1 /\ Cardinality(Now) \in Nat
      <4>. HIDE DEF Now
      <4>. QED BY <1>8, <3>1, FS_Subset, FS_CardinalityType
    <3>. HIDE DEF Now
    <3>3. Cardinality(Now) <= DeskLimit
      BY <1>1, <1>5, <2>3, <3>2
    <3>. QED BY <3>3 DEF Now
  <2>. QED BY <1>4, <2>1, <2>2, <2>3
<1>13. IsFiniteSet(rate')
  BY <1>4, <1>8
<1>. QED BY <1>4, <1>9, <1>10, <1>11, <1>12, <1>13, FiniteDesks DEF Desks!SentraInv

LEMMA TickStays ==
  ASSUME Desks!DesksAssumption, Desks!TypeOK, Desks!SentraInv,
         deskClock' = deskClock + 1, rate' = rate, allowed' = allowed
  PROVE  /\ Desks!SentraInv'
         /\ rate' \subseteq [at : 0 .. deskClock', nth : Nat]
         /\ allowed' \subseteq [at : 0 .. deskClock', nth : Nat]
<1>1. /\ deskClock \in Nat /\ DeskWindow \in Nat
      /\ rate \subseteq [at : 0 .. deskClock, nth : Nat]
      /\ allowed \subseteq [at : 0 .. deskClock, nth : Nat]
  BY DEF Desks!DesksAssumption, Desks!TypeOK
<1>2. /\ rate' \subseteq [at : 0 .. deskClock', nth : Nat]
      /\ allowed' \subseteq [at : 0 .. deskClock', nth : Nat]
  <2>1. 0 .. deskClock \subseteq 0 .. deskClock + 1
    BY <1>1
  <2>. QED BY <1>1, <2>1
<1>3. \A a \in allowed' : deskClock' - a.at < DeskWindow => a \in rate'
  <2>. TAKE a \in allowed'
  <2>1. a.at \in Nat
    BY <1>1
  <2>2. deskClock' - a.at < DeskWindow => deskClock - a.at < DeskWindow
    BY <1>1, <2>1
  <2>. QED BY <2>2 DEF Desks!SentraInv
<1>. QED BY <1>2, <1>3 DEF Desks!SentraInv

LEMMA PruneStays ==
  ASSUME Desks!DesksAssumption, Desks!TypeOK, Desks!SentraInv,
         rate' \in {rate, Desks!Recent}, allowed' = allowed, deskClock' = deskClock
  PROVE  /\ Desks!SentraInv'
         /\ rate' \subseteq [at : 0 .. deskClock, nth : Nat]
         /\ allowed' \subseteq [at : 0 .. deskClock, nth : Nat]
<1>1. /\ rate \subseteq [at : 0 .. deskClock, nth : Nat] /\ deskClock \in Nat
      /\ allowed \subseteq [at : 0 .. deskClock, nth : Nat]
      /\ IsFiniteSet(rate)
      /\ \A h \in rate : h.nth < Cardinality({g \in rate : g.at = h.at})
      /\ \A a \in allowed : deskClock - a.at < DeskWindow => a \in rate
  BY FiniteDesks DEF Desks!TypeOK, Desks!SentraInv
<1>2. CASE rate' = rate
  BY <1>1, <1>2 DEF Desks!SentraInv
<1>3. CASE rate' = Desks!Recent
  <2>1. rate' = {h \in rate : deskClock - h.at < DeskWindow}
    BY <1>3 DEF Desks!Recent
  <2>2. rate' \subseteq rate /\ IsFiniteSet(rate')
    BY <1>1, <2>1, FS_Subset
  <2>3. ASSUME NEW h \in rate' PROVE h.nth < Cardinality({g \in rate' : g.at = h.at})
    <3>1. {g \in rate' : g.at = h.at} = {g \in rate : g.at = h.at}
      BY <2>1
    <3>. QED BY <1>1, <2>2, <3>1
  <2>4. \A a \in allowed : deskClock - a.at < DeskWindow => a \in rate'
    BY <1>1, <2>1
  <2>. QED BY <1>1, <2>2, <2>3, <2>4, FiniteDesks DEF Desks!SentraInv
<1>. QED BY <1>2, <1>3

LEMMA SentraStays ==
  ASSUME Desks!DesksAssumption, BookInv, Desks!SentraInv, NEW t \in Threads,
         Desks!GateFails(t) \/ Desks!ListVerdicts(t) \/ \E others \in BOOLEAN : Desks!Evaluate(t, others)
  PROVE  BookInv' /\ Desks!SentraInv'
<1>. DEFINE Failed == [op |-> "failed", disturbed |-> FALSE, ill |-> TRUE]
            Answered == [op |-> "answered"]
<1>1. /\ Failed \in DeskThread /\ Failed.op = "failed" /\ Failed.ill
      /\ Answered \in DeskThread /\ Answered.op = "answered"
  BY DEF DeskThread
<1>2. ASSUME desk = "sentra",
             threads' = [threads EXCEPT ![t] = Failed] \/ threads' = [threads EXCEPT ![t] = Answered],
             table' = table \/ table' = {} \/ Desks!Put(1, 0, "ill"),
             rate' \subseteq [at : 0 .. deskClock, nth : Nat],
             allowed' \subseteq [at : 0 .. deskClock, nth : Nat],
             UNCHANGED <<desk, items, accepted, crossed, deskClock>>
      PROVE  BookInv'
  <2>. HIDE DEF Failed, Answered
  <2>1. CASE threads' = [threads EXCEPT ![t] = Failed]
    BY <1>1, <1>2, <2>1, VerdictsStay
  <2>2. CASE threads' = [threads EXCEPT ![t] = Answered]
    BY <1>1, <1>2, <2>2, VerdictsStay
  <2>. QED BY <1>2, <2>1, <2>2
<1>3. Desks!TypeOK
  BY DEF BookInv
<1>4. CASE Desks!GateFails(t)
  <2>1. /\ Desks!SentraInv' /\ rate' \subseteq [at : 0 .. deskClock, nth : Nat]
        /\ allowed' \subseteq [at : 0 .. deskClock, nth : Nat]
    BY <1>3, <1>4, PruneStays DEF Desks!GateFails
  <2>2. BookInv'
    BY <1>2, <1>4, <2>1 DEF Desks!GateFails
  <2>. QED BY <2>1, <2>2
<1>5. CASE Desks!ListVerdicts(t)
  <2>1. UNCHANGED <<desk, deskClock, rate, allowed, table, items, accepted, crossed>>
    BY <1>5 DEF Desks!ListVerdicts, Desks!SentraRests
  <2>2. /\ Desks!SentraInv' /\ rate' \subseteq [at : 0 .. deskClock, nth : Nat]
        /\ allowed' \subseteq [at : 0 .. deskClock, nth : Nat]
    BY <1>3, <2>1, PruneStays
  <2>3. BookInv'
    BY <1>2, <1>5, <2>1, <2>2 DEF Desks!ListVerdicts
  <2>. QED BY <2>2, <2>3
<1>6. ASSUME NEW others \in BOOLEAN, Desks!Evaluate(t, others)
      PROVE  BookInv' /\ Desks!SentraInv'
  <2>1. /\ Desks!SentraInv' /\ rate' \subseteq [at : 0 .. deskClock, nth : Nat]
        /\ allowed' \subseteq [at : 0 .. deskClock, nth : Nat]
    BY <1>3, <1>6, EvaluateStays
  <2>2. BookInv'
    BY <1>2, <1>6, <2>1 DEF Desks!Evaluate
  <2>. QED BY <2>1, <2>2
<1>. QED BY <1>4, <1>5, <1>6

LEMMA DesksStay ==
  ASSUME Desks!DesksAssumption, Desks!DesksInv, [Desks!Next]_deskVars
  PROVE  Desks!DesksInv'
<1>. DEFINE Still == UNCHANGED <<desk, deskClock, rate, allowed>>
            Aside == UNCHANGED <<desk, table, threads, items, accepted, crossed>>
<1>1. BookInv /\ Desks!SentraInv /\ Desks!TypeOK
  BY DEF Desks!DesksInv, BookInv
<1>2. ASSUME Still, BookInv' PROVE Desks!DesksInv'
  <2>1. Desks!SentraInv'
    BY <1>1, <1>2 DEF Desks!SentraInv
  <2>. QED BY <1>2, <2>1 DEF Desks!DesksInv, BookInv
<1>3. ASSUME Aside, Desks!SentraInv', deskClock' \in Nat,
             rate' \subseteq [at : 0 .. deskClock', nth : Nat],
             allowed' \subseteq [at : 0 .. deskClock', nth : Nat]
      PROVE  Desks!DesksInv'
  <2>1. Desks!TypeOK'
    BY <1>1, <1>3 DEF Desks!TypeOK
  <2>2. Desks!Pending' = Desks!Pending /\ (Desks!Numbered' <=> Desks!Numbered)
    BY <1>3 DEF Desks!Pending, Desks!Numbered
  <2>3. Desks!TableInv'
    BY <1>1, <1>3, <2>2 DEF BookInv, Desks!TableInv
  <2>4. Desks!ThreadsInv'
    BY <1>1, <1>3, <2>2 DEF BookInv, Desks!ThreadsInv, Desks!Entered, Desks!Grown
  <2>. QED BY <1>3, <2>1, <2>3, <2>4 DEF Desks!DesksInv
<1>4. CASE UNCHANGED deskVars
  <2>1. Aside /\ Still
    BY <1>4 DEF deskVars
  <2>2. Desks!SentraInv'
    BY <1>1, <2>1 DEF Desks!SentraInv
  <2>. QED BY <1>1, <1>3, <2>1, <2>2 DEF Desks!TypeOK
<1>5. ASSUME NEW t \in Threads,
             \/ Desks!MakeId(t) \/ Desks!Store(t) \/ Desks!Place(t) \/ Desks!Look(t) \/ Desks!Show(t)
             \/ \E id \in DeskSeeds .. DeskSeeds + 1 :
                  Desks!Enter(t, id) \/ Desks!MakeStream(t, id) \/ Desks!AppendPoint(t, id)
             \/ \E id \in 1 .. DeskSeeds + DeskItems : Desks!LookAt(t, id)
      PROVE  Desks!DesksInv'
  <2>1. Still
    BY <1>5 DEF Desks!MakeId, Desks!Make, Desks!MakeStream, Desks!Store, Desks!Place, Desks!Look,
      Desks!Show, Desks!Enter, Desks!AppendPoint, Desks!LookAt, Desks!SentraRests
  <2>2. /\ \A id \in DeskSeeds .. DeskSeeds + 1 : id \in Nat
        /\ \A id \in 1 .. DeskSeeds + DeskItems : id \in Nat
    BY DEF Desks!DesksAssumption
  <2>3. BookInv'
    BY <1>1, <1>5, <2>2, MakersStay, StoreStays, EnterStays, PlaceStays, ReadersStay
  <2>. QED BY <1>2, <2>1, <2>3
<1>6. ASSUME NEW t \in Threads,
             Desks!GateFails(t) \/ Desks!ListVerdicts(t) \/ \E others \in BOOLEAN : Desks!Evaluate(t, others)
      PROVE  Desks!DesksInv'
  BY <1>1, <1>6, SentraStays DEF Desks!DesksInv, BookInv
<1>7. CASE Desks!Tick
  <2>1. Aside /\ deskClock' = deskClock + 1 /\ rate' = rate /\ allowed' = allowed
    BY <1>7 DEF Desks!Tick
  <2>2. deskClock' \in Nat
    BY <1>1, <2>1 DEF Desks!TypeOK
  <2>. QED BY <1>1, <1>3, <2>1, <2>2, TickStays
<1>. QED BY <1>4, <1>5, <1>6, <1>7 DEF Desks!Next

\* A matter, listing or new stream that was accepted is in the book, and no seed is ever
\* replaced, unless two threads had made the same id at once.  A reader fails only on a
\* table that an ingestion changed under it, or that holds an entry it cannot work with as
\* it fails: what was replaced before fails no one.  And Sentra never allows an actor more
\* than its limit in a window (services/counsel, terra, vessels, lyte and sentra).
THEOREM DesksLoseNothingUncrossed == EnginesSpec => []DesksLoseOnlyWhenCrossed
<1>. DEFINE Inv == engine = "desks" => Desks!DesksInv
<1>0. Desks!DesksAssumption
  BY EnginesAssumption
<1>1. EnginesInit => Inv
  BY <1>0, TablesStart, DesksStart
<1>2. Inv /\ [EnginesNext]_engineVars => Inv'
  <2>. SUFFICES ASSUME Inv, [EnginesNext]_engineVars, engine' = "desks" PROVE Desks!DesksInv'
    OBVIOUS
  <2>1. engine = "desks" /\ [Desks!Next]_deskVars
    BY TablesStep
  <2>. QED BY <1>0, <2>1, DesksStay
<1>3. Inv => DesksLoseOnlyWhenCrossed
  <2>. SUFFICES ASSUME Desks!DesksInv PROVE Desks!DesksLoseOnlyWhenCrossed
    BY DEF DesksLoseOnlyWhenCrossed
  <2>. QED BY DEF Desks!DesksInv, Desks!TableInv, Desks!ThreadsInv, Desks!SentraInv,
             Desks!DesksLoseOnlyWhenCrossed
<1>. QED BY <1>1, <1>2, <1>3, PTL DEF EnginesSpec

-----------------------------------------------------------------------------
(* SeriesEngines: the deepest fall *)

Begin(pts) == [peak |-> pts[1].price, worst |-> <<1, 1>>]

FallsTo(f, pts, n) ==
  f = [k \in 1 .. n |-> Series!Fall(IF k = 1 THEN Begin(pts) ELSE f[k - 1], pts[k])]

\* The recursive function exists for every length, hence is what its definition says.
LEMMA FallsExist ==
  ASSUME NEW pts, NEW n \in Nat
  PROVE  \E f : FallsTo(f, pts, n)
<1> DEFINE Without == {m \in Nat : ~ \E f : FallsTo(f, pts, m)}
<1>. SUFFICES ASSUME Without # {} PROVE FALSE
  OBVIOUS
<1>1. PICK m \in Without : \A l \in Without : m <= l
  <2>. HIDE DEF Without
  <2>1. Without \in SUBSET Nat
    BY DEF Without
  <2>. QED BY <2>1, LeastNumber
<1>2. m # 0
  <2>1. FallsTo([k \in 1 .. 0 |-> 0], pts, 0)
    BY DEF FallsTo
  <2>. QED BY <2>1
<1>3. PICK f : FallsTo(f, pts, m - 1)
  <2>1. m - 1 \in Nat /\ ~ (m <= m - 1)
    BY <1>2
  <2>. QED BY <1>1, <2>1
<1> DEFINE g == [k \in 1 .. m |->
                   Series!Fall(IF k = 1 THEN Begin(pts) ELSE f[k - 1], pts[k])]
<1>4. \A k \in 1 .. m - 1 : g[k] = f[k]
  BY <1>3 DEF FallsTo
<1>5. ASSUME NEW k \in 1 .. m, k # 1 PROVE g[k - 1] = f[k - 1]
  <2>1. k - 1 \in 1 .. m - 1
    BY <1>5
  <2>. QED BY <1>4, <2>1
<1>6. g = [k \in 1 .. m |-> Series!Fall(IF k = 1 THEN Begin(pts) ELSE g[k - 1], pts[k])]
  <2>1. ASSUME NEW k \in 1 .. m
        PROVE  (IF k = 1 THEN Begin(pts) ELSE f[k - 1]) = (IF k = 1 THEN Begin(pts) ELSE g[k - 1])
    <3>. HIDE DEF g
    <3>. QED BY <1>5
  <2>. QED BY <2>1, Zenon
<1>7. FallsTo(g, pts, m)
  BY <1>6 DEF FallsTo
<1>. QED BY <1>7

LEMMA FallsAre ==
  ASSUME NEW pts, Len(pts) \in Nat
  PROVE  FallsTo(Series!Falls(pts), pts, Len(pts))
<1>1. \E f : FallsTo(f, pts, Len(pts))
  BY FallsExist
<1>2. Series!Falls(pts) = CHOOSE f : FallsTo(f, pts, Len(pts))
  BY Zenon DEF Series!Falls, FallsTo, Begin
<1>. QED BY <1>1, <1>2

LEMMA TimesMore ==
  ASSUME NEW a \in Nat, NEW b \in Nat, NEW c \in Nat
  PROVE  /\ a * c \in Nat
         /\ a <= b => a * c <= b * c
         /\ a < b /\ c > 0 => a * c < b * c
  OBVIOUS

LEMMA NotBelow ==
  ASSUME NEW x \in Nat, NEW y \in Nat \ {0}, NEW v \in Nat, NEW w \in Nat \ {0}, NEW m \in Nat, NEW n \in Nat,
         v * y <= x * w, m * w < v * n
  PROVE  ~ (x * n < m * y)
<1>. SUFFICES ASSUME x * n < m * y PROVE FALSE
  OBVIOUS
<1>1. /\ v * y \in Nat /\ x * w \in Nat /\ m * w \in Nat /\ v * n \in Nat /\ x * n \in Nat /\ m * y \in Nat
  BY TimesMore
<1>2. (x * n) * w < (m * y) * w
  BY <1>1, TimesMore
<1>3. (m * w) * y < (v * n) * y
  BY <1>1, TimesMore
<1>4. (v * y) * n <= (x * w) * n
  BY <1>1, TimesMore
<1>5. /\ (m * y) * w = (m * w) * y /\ (v * n) * y = (v * y) * n /\ (x * w) * n = (x * n) * w
  OBVIOUS
<1>6. /\ (x * n) * w \in Nat /\ (m * y) * w \in Nat /\ (v * n) * y \in Nat
  BY <1>1, TimesMore
<1>. QED BY <1>2, <1>3, <1>4, <1>5, <1>6

Priced(pts, n) == \A i \in 1 .. n : pts[i].price \in Nat \ {0}

\* What the fold knows of the first k prices: the highest, and the deepest fall.
Deepest(pts, acc, k) ==
  /\ \E i \in 1 .. k : acc.peak = pts[i].price
  /\ \A i \in 1 .. k : pts[i].price <= acc.peak
  /\ acc.worst = <<1, 1>> \/ \E i, j \in 1 .. k : i <= j /\ acc.worst = <<pts[j].price, pts[i].price>>
  /\ \A i, j \in 1 .. k : i <= j => ~ Series!Below(<<pts[j].price, pts[i].price>>, acc.worst)

LEMMA BelowIs ==
  ASSUME NEW a, NEW b, NEW c, NEW d
  PROVE  Series!Below(<<a, b>>, <<c, d>>) <=> a * d < c * b
BY DEF Series!Below

LEMMA DeepestOfOne ==
  ASSUME NEW pts, Priced(pts, 1)
  PROVE  Deepest(pts, Series!Fall(Begin(pts), pts[1]), 1)
<1>1. pts[1].price \in Nat \ {0} /\ 1 \in 1 .. 1 /\ \A i \in 1 .. 1 : i = 1
  BY DEF Priced
<1>2. ~ Series!Below(<<pts[1].price, pts[1].price>>, <<1, 1>>)
  BY <1>1, BelowIs
<1>3. Series!Fall(Begin(pts), pts[1]) = [peak |-> pts[1].price, worst |-> <<1, 1>>]
  BY <1>1, <1>2 DEF Series!Fall, Begin
<1>. QED BY <1>1, <1>2, <1>3 DEF Deepest

LEMMA DeepestOfMore ==
  ASSUME NEW pts, NEW k \in Nat \ {0}, Priced(pts, k + 1), NEW acc, Deepest(pts, acc, k)
  PROVE  Deepest(pts, Series!Fall(acc, pts[k + 1]), k + 1)
<1> DEFINE p == pts[k + 1].price
           peak == IF p > acc.peak THEN p ELSE acc.peak
           now == <<p, peak>>
           new == Series!Fall(acc, pts[k + 1])
<1>1. /\ new.peak = peak
      /\ new.worst = IF Series!Below(now, acc.worst) THEN now ELSE acc.worst
  BY DEF Series!Fall
<1>2. PICK top \in 1 .. k : acc.peak = pts[top].price
  BY DEF Deepest
<1>3. /\ p \in Nat \ {0} /\ acc.peak \in Nat \ {0} /\ peak \in Nat \ {0}
      /\ p <= peak /\ acc.peak <= peak
      /\ 1 .. k \subseteq 1 .. k + 1 /\ k + 1 \in 1 .. k + 1
      /\ \A i \in 1 .. k + 1 : i \in 1 .. k \/ i = k + 1
  BY <1>2 DEF Priced
<1>4. \A i \in 1 .. k + 1 : pts[i].price \in Nat \ {0}
  BY DEF Priced
<1>5. PICK high \in 1 .. k + 1 : peak = pts[high].price
  BY <1>2, <1>3
<1>. HIDE DEF new
<1>6. \A i \in 1 .. k + 1 : pts[i].price <= peak
  <2>1. \A i \in 1 .. k : pts[i].price <= acc.peak
    BY DEF Deepest
  <2>. TAKE i \in 1 .. k + 1
  <2>2. CASE i \in 1 .. k
    <3>. HIDE DEF peak
    <3>1. pts[i].price <= acc.peak /\ pts[i].price \in Nat
      BY <1>4, <2>1, <2>2
    <3>. QED BY <1>3, <3>1
  <2>3. CASE i = k + 1
    BY <1>3, <2>3
  <2>. QED BY <1>3, <2>2, <2>3
<1>. HIDE DEF p, peak
<1>7. PICK v \in Nat \ {0}, w \in Nat \ {0} : acc.worst = <<v, w>>
  <2>1. CASE acc.worst = <<1, 1>>
    BY <2>1
  <2>2. CASE \E i, j \in 1 .. k : i <= j /\ acc.worst = <<pts[j].price, pts[i].price>>
    BY <1>3, <1>4, <2>2
  <2>. QED BY <2>1, <2>2 DEF Deepest
<1>8. new.worst = <<1, 1>> \/ \E i, j \in 1 .. k + 1 : i <= j /\ new.worst = <<pts[j].price, pts[i].price>>
  <2>1. CASE Series!Below(now, acc.worst)
    <3>1. new.worst = <<pts[k + 1].price, pts[high].price>> /\ high <= k + 1
      BY <1>1, <1>5, <2>1 DEF p
    <3>. QED BY <1>3, <3>1
  <2>2. CASE ~ Series!Below(now, acc.worst)
    <3>1. new.worst = acc.worst
      BY <1>1, <2>2
    <3>. QED BY <1>3, <3>1 DEF Deepest
  <2>. QED BY <2>1, <2>2
<1>9. ASSUME NEW i \in 1 .. k + 1, NEW j \in 1 .. k + 1, i <= j
      PROVE  ~ Series!Below(<<pts[j].price, pts[i].price>>, new.worst)
  <2> DEFINE x == pts[j].price
             y == pts[i].price
  <2>1. x \in Nat \ {0} /\ y \in Nat \ {0} /\ y <= peak
    BY <1>4, <1>6
  <2>2. Series!Below(now, acc.worst) <=> p * w < v * peak
    BY <1>7, BelowIs
  <2>3. CASE j \in 1 .. k
    <3>1. i \in 1 .. k
      BY <1>9, <2>3
    <3>2. ~ Series!Below(<<x, y>>, acc.worst)
      BY <1>9, <2>3, <3>1 DEF Deepest
    <3>3. ~ (x * w < v * y)
      <4>. HIDE DEF x, y
      <4>. QED BY <1>7, <3>2, BelowIs
    <3>4. v * y <= x * w
      <4>. HIDE DEF x, y
      <4>1. v * y \in Nat /\ x * w \in Nat
        BY <1>7, <2>1, TimesMore
      <4>. QED BY <3>3, <4>1
    <3>5. CASE p * w < v * peak
      <4>1. ~ (x * peak < p * y)
        <5>. HIDE DEF x, y
        <5>. QED BY <1>3, <1>7, <2>1, <3>4, <3>5, NotBelow
      <4>2. new.worst = <<p, peak>>
        BY <1>1, <2>2, <3>5
      <4>. HIDE DEF x, y
      <4>3. ~ Series!Below(<<x, y>>, new.worst)
        BY <4>1, <4>2, BelowIs
      <4>. QED BY <4>3 DEF x, y
    <3>6. CASE ~ (p * w < v * peak)
      BY <1>1, <2>2, <3>2, <3>6
    <3>. QED BY <3>5, <3>6
  <2>4. CASE j = k + 1
    <3>1. x = p
      BY <2>4 DEF p
    <3>. HIDE DEF x, y
    <3>2. p * y <= p * peak /\ p * y \in Nat /\ p * peak \in Nat
      <4>1. y * p <= peak * p /\ y * p \in Nat /\ peak * p \in Nat
        BY <1>3, <2>1, TimesMore
      <4>2. y * p = p * y /\ peak * p = p * peak
        BY <1>3, <2>1
      <4>. QED BY <4>1, <4>2
    <3>3. CASE p * w < v * peak
      <4>1. new.worst = <<p, peak>>
        BY <1>1, <2>2, <3>3
      <4>2. ~ (p * peak < p * y)
        BY <3>2
      <4>3. ~ Series!Below(<<x, y>>, new.worst)
        BY <3>1, <4>1, <4>2, BelowIs
      <4>. QED BY <4>3 DEF x, y
    <3>4. CASE ~ (p * w < v * peak)
      <4>1. new.worst = <<v, w>>
        BY <1>1, <1>7, <2>2, <3>4
      <4>2. v * y <= v * peak /\ v * y \in Nat /\ v * peak \in Nat /\ p * w \in Nat
        <5>1. y * v <= peak * v /\ y * v \in Nat /\ peak * v \in Nat /\ p * w \in Nat
          BY <1>3, <1>7, <2>1, TimesMore
        <5>2. y * v = v * y /\ peak * v = v * peak
          BY <1>3, <1>7, <2>1
        <5>. QED BY <5>1, <5>2
      <4>3. ~ (p * w < v * y)
        BY <3>4, <4>2
      <4>4. ~ Series!Below(<<x, y>>, new.worst)
        BY <3>1, <4>1, <4>3, BelowIs
      <4>. QED BY <4>4 DEF x, y
    <3>. QED BY <3>3, <3>4
  <2>. QED BY <1>3, <2>3, <2>4
<1>. QED BY <1>1, <1>5, <1>6, <1>8, <1>9 DEF Deepest, new

LEMMA DrawdownIs ==
  ASSUME NEW pts, Len(pts) \in Nat \ {0}, Priced(pts, Len(pts))
  PROVE  Deepest(pts, Series!Falls(pts)[Len(pts)], Len(pts))
<1> DEFINE n == Len(pts)
           f == Series!Falls(pts)
           Wrong == {k \in 1 .. n : ~ Deepest(pts, f[k], k)}
<1>1. f = [k \in 1 .. n |-> Series!Fall(IF k = 1 THEN Begin(pts) ELSE f[k - 1], pts[k])]
  BY FallsAre DEF FallsTo
<1>2. \A k \in 1 .. n : f[k] = Series!Fall(IF k = 1 THEN Begin(pts) ELSE f[k - 1], pts[k])
  <2>. HIDE DEF f
  <2>. QED BY <1>1
<1>. HIDE DEF f
<1>3. \A k \in 1 .. n : Priced(pts, k)
  BY DEF Priced
<1>4. ASSUME Wrong # {} PROVE FALSE
  <2>1. PICK k \in Wrong : \A l \in Wrong : k <= l
    <3>1. Wrong \in SUBSET Nat
      OBVIOUS
    <3>. HIDE DEF Wrong
    <3>. QED BY <1>4, <3>1, LeastNumber
  <2>2. k \in 1 .. n /\ k \in Nat
    BY <2>1
  <2>3. CASE k = 1
    BY <1>2, <1>3, <2>1, <2>2, <2>3, DeepestOfOne
  <2>4. CASE k # 1
    <3>1. k - 1 \in 1 .. n /\ k - 1 \in Nat \ {0} /\ (k - 1) + 1 = k /\ ~ (k <= k - 1)
      BY <2>2, <2>4
    <3>2. Deepest(pts, f[k - 1], k - 1)
      BY <2>1, <3>1
    <3>3. f[k] = Series!Fall(f[k - 1], pts[k])
      BY <1>2, <2>2, <2>4
    <3>4. Priced(pts, (k - 1) + 1)
      BY <1>3, <2>2, <3>1
    <3>5. Deepest(pts, Series!Fall(f[k - 1], pts[(k - 1) + 1]), (k - 1) + 1)
      BY <3>1, <3>2, <3>4, DeepestOfMore
    <3>. QED BY <2>1, <3>1, <3>3, <3>5
  <2>. QED BY <2>3, <2>4
<1>5. n \in 1 .. n
  OBVIOUS
<1>. QED BY <1>4, <1>5 DEF f

\* In a track that arrived in its order, nothing that came later is of an earlier time.
LEMMA LaterIsLater ==
  ASSUME NEW pts, NEW n \in Nat, \A i \in 1 .. n : pts[i].ts \in Nat,
         \A i \in 1 .. n - 1 : pts[i].ts <= pts[i + 1].ts,
         NEW i \in 1 .. n, NEW j \in i .. n
  PROVE  pts[i].ts <= pts[j].ts
<1> DEFINE Earlier == {l \in i .. n : ~ (pts[i].ts <= pts[l].ts)}
<1>1. ASSUME Earlier # {} PROVE FALSE
  <2>1. PICK l \in Earlier : \A m \in Earlier : l <= m
    <3>1. Earlier \in SUBSET Nat
      OBVIOUS
    <3>. HIDE DEF Earlier
    <3>. QED BY <1>1, <3>1, LeastNumber
  <2>2. l \in i .. n /\ ~ (pts[i].ts <= pts[l].ts) /\ l # i
    BY <2>1
  <2>3. l - 1 \in i .. n /\ ~ (l <= l - 1) /\ l - 1 \in 1 .. n - 1 /\ (l - 1) + 1 = l /\ l \in 1 .. n /\ l - 1 \in 1 .. n
    BY <2>2
  <2>4. pts[i].ts <= pts[l - 1].ts
    BY <2>1, <2>3
  <2>5. pts[l - 1].ts <= pts[l].ts
    BY <2>3
  <2>6. pts[i].ts \in Nat /\ pts[l - 1].ts \in Nat /\ pts[l].ts \in Nat
    BY <2>3
  <2>. QED BY <2>2, <2>4, <2>5, <2>6
<1>. QED BY <1>1

LEMMA PointsAre ==
  ASSUME Series!SeriesAssumption, NEW pts \in Seq(Series!Point)
  PROVE  /\ Len(pts) \in Nat
         /\ \A i \in 1 .. Len(pts) : pts[i].price \in Nat \ {0} /\ pts[i].ts \in Nat
<1>1. Len(pts) \in Nat /\ \A i \in 1 .. Len(pts) : pts[i] \in Series!Point
  OBVIOUS
<1>2. \A p \in Series!Point : p.price \in Nat \ {0} /\ p.ts \in Nat
  BY DEF Series!Point, Series!SeriesAssumption
<1>. QED BY <1>1, <1>2

LEMMA GapsAre ==
  ASSUME Series!SeriesAssumption, NEW pts \in Seq(Series!Point), Series!InOrder(pts)
  PROVE  {i \in 1 .. Len(pts) - 1 : pts[i + 1].ts - pts[i].ts > SeriesGap}
           = {i \in 1 .. Len(pts) - 1 :
                \A j \in 1 .. Len(pts) : j > i => pts[j].ts > pts[i].ts + SeriesGap}
<1>1. Len(pts) \in Nat /\ \A i \in 1 .. Len(pts) : pts[i].ts \in Nat
  BY PointsAre
<1>2. SeriesGap \in Nat /\ \A i \in 1 .. Len(pts) - 1 : pts[i].ts <= pts[i + 1].ts
  BY DEF Series!SeriesAssumption, Series!InOrder
<1>3. ASSUME NEW i \in 1 .. Len(pts) - 1
      PROVE  pts[i + 1].ts - pts[i].ts > SeriesGap
               <=> \A j \in 1 .. Len(pts) : j > i => pts[j].ts > pts[i].ts + SeriesGap
  <2>1. i \in 1 .. Len(pts) /\ i + 1 \in 1 .. Len(pts) /\ i + 1 > i
    BY <1>1
  <2>2. pts[i].ts \in Nat /\ pts[i + 1].ts \in Nat
    BY <1>1, <2>1
  <2>3. ASSUME pts[i + 1].ts - pts[i].ts > SeriesGap, NEW j \in 1 .. Len(pts), j > i
        PROVE  pts[j].ts > pts[i].ts + SeriesGap
    <3>1. j \in i + 1 .. Len(pts)
      BY <1>1, <2>3
    <3>2. pts[i + 1].ts <= pts[j].ts /\ pts[j].ts \in Nat
      BY <1>1, <1>2, <2>1, <3>1, LaterIsLater
    <3>. QED BY <1>2, <2>2, <2>3, <3>2
  <2>4. ASSUME \A j \in 1 .. Len(pts) : j > i => pts[j].ts > pts[i].ts + SeriesGap
        PROVE  pts[i + 1].ts - pts[i].ts > SeriesGap
    <3>1. pts[i + 1].ts > pts[i].ts + SeriesGap
      BY <2>1, <2>4
    <3>. QED BY <1>2, <2>2, <3>1
  <2>. QED BY <2>3, <2>4
<1>. QED BY <1>3

\* What is said of a row that was computed from points, with enough of them.
LEMMA RowTells ==
  ASSUME Series!SeriesAssumption, NEW pts \in Seq(Series!Point), Len(pts) >= SeriesEnough
  PROVE  Series!Tells(Series!Row(pts), pts)
<1> DEFINE row == Series!Row(pts)
<1>1. /\ row.n = Len(pts) /\ row.last = pts[Len(pts)].price
      /\ row.drawdown = Series!Drawdown(pts) /\ row.gaps = Series!DarkGaps(pts)
      /\ row.pivot = Series!Pivot(pts)
  BY DEF Series!Row
<1>. HIDE DEF row
<1>2. Len(pts) \in Nat /\ Len(pts) >= 2 /\ Priced(pts, Len(pts))
  <2>1. SeriesEnough \in Nat \ {0, 1} /\ Len(pts) \in Nat
    BY DEF Series!SeriesAssumption
  <2>2. Priced(pts, Len(pts))
    BY PointsAre DEF Priced
  <2>. QED BY <2>1, <2>2
<1>3. Deepest(pts, Series!Falls(pts)[Len(pts)], Len(pts)) /\ row.drawdown = Series!Falls(pts)[Len(pts)].worst
  BY <1>1, <1>2, DrawdownIs DEF Series!Drawdown
<1>4. row.pivot \in 1 .. Len(pts) - 1
  <2> DEFINE cut == (Len(pts) * SeriesSplit) \div 10
  <2>1. cut \in Int
    <3>1. SeriesSplit \in Nat
      BY DEF Series!SeriesAssumption
    <3>2. Len(pts) * SeriesSplit \in Nat
      BY <1>2, <3>1, TimesMore
    <3>. QED BY <3>2
  <2>2. row.pivot = IF (IF cut < 1 THEN 1 ELSE cut) > Len(pts) - 1 THEN Len(pts) - 1 ELSE (IF cut < 1 THEN 1 ELSE cut)
    BY <1>1 DEF Series!Pivot
  <2>. HIDE DEF cut
  <2>. QED BY <1>2, <2>1, <2>2
<1>5. Series!InOrder(pts) =>
        row.gaps = Series!Cardinality({i \in 1 .. Len(pts) - 1 :
                     \A j \in 1 .. Len(pts) : j > i => pts[j].ts > pts[i].ts + SeriesGap})
  <2>1. row.gaps = Series!Cardinality({i \in 1 .. Len(pts) - 1 : pts[i + 1].ts - pts[i].ts > SeriesGap})
    BY <1>1 DEF Series!DarkGaps
  <2>. QED BY <2>1, GapsAre
<1>6. /\ \A i, j \in 1 .. Len(pts) : i <= j => ~ Series!Below(<<pts[j].price, pts[i].price>>, row.drawdown)
      /\ row.drawdown = <<1, 1>> \/ \E i, j \in 1 .. Len(pts) : i <= j /\ row.drawdown = <<pts[j].price, pts[i].price>>
  BY <1>3 DEF Deepest
<1>. QED BY <1>1, <1>4, <1>5, <1>6 DEF Series!Tells, row

-----------------------------------------------------------------------------
(* SeriesEngines: the newest reports *)

LEMMA NewestIs ==
  ASSUME SeriesKeep \in Nat, NEW q \in Seq(Series!Point)
  PROVE  /\ Series!Newest(q) \in Seq(Series!Point)
         /\ Len(Series!Newest(q)) = IF Len(q) > SeriesKeep THEN SeriesKeep ELSE Len(q)
         /\ \A i \in 1 .. Len(Series!Newest(q)) :
              Series!Newest(q)[i] = q[Len(q) - Len(Series!Newest(q)) + i]
<1> DEFINE first == IF Len(q) > SeriesKeep THEN Len(q) - SeriesKeep + 1 ELSE 1
<1>0. Len(q) \in Nat
  OBVIOUS
<1>1. Len(q) \in Nat /\ \A i \in 1 .. Len(q) : q[i] \in Series!Point
  OBVIOUS
<1>2. first \in Int /\ \A i \in first .. Len(q) : q[i] \in Series!Point
  BY <1>1
<1>3. Series!Newest(q) = SubSeq(q, first, Len(q))
  BY DEF Series!Newest
<1>. HIDE DEF first
<1>4. /\ SubSeq(q, first, Len(q)) \in Seq(Series!Point)
      /\ Len(SubSeq(q, first, Len(q))) = IF first <= Len(q) THEN Len(q) - first + 1 ELSE 0
      /\ \A i \in 1 .. Len(q) - first + 1 : SubSeq(q, first, Len(q))[i] = q[first + i - 1]
  BY <1>1, <1>2, SubSeqProperties
<1>5. Len(Series!Newest(q)) = IF Len(q) > SeriesKeep THEN SeriesKeep ELSE Len(q)
  <2>1. (IF first <= Len(q) THEN Len(q) - first + 1 ELSE 0) = IF Len(q) > SeriesKeep THEN SeriesKeep ELSE Len(q)
    <3>1. CASE Len(q) > SeriesKeep
      <4>1. first = Len(q) - SeriesKeep + 1
        BY <3>1 DEF first
      <4>2. (IF first <= Len(q) THEN Len(q) - first + 1 ELSE 0) = SeriesKeep
        BY <1>0, <4>1
      <4>. QED BY <3>1, <4>2
    <3>2. CASE ~ (Len(q) > SeriesKeep)
      <4>1. first = 1
        BY <3>2 DEF first
      <4>2. (IF first <= Len(q) THEN Len(q) - first + 1 ELSE 0) = Len(q)
        BY <1>0, <4>1
      <4>. QED BY <3>2, <4>2
    <3>. QED BY <3>1, <3>2
  <2>. QED BY <1>3, <1>4, <2>1
<1>6. ASSUME NEW i \in 1 .. Len(Series!Newest(q))
      PROVE  Series!Newest(q)[i] = q[Len(q) - Len(Series!Newest(q)) + i]
  <2>1. /\ i \in 1 .. Len(q) - first + 1
        /\ first + i - 1 = Len(q) - Len(Series!Newest(q)) + i
    BY <1>1, <1>5, <1>6 DEF first
  <2>. QED BY <1>3, <1>4, <2>1
<1>. QED BY <1>3, <1>4, <1>5, <1>6

\* A bounded series that takes one report more keeps what it would have kept of all of them.
LEMMA NewestOfOneMore ==
  ASSUME SeriesKeep \in Nat \ {0}, NEW q \in Seq(Series!Point), NEW p \in Series!Point
  PROVE  Series!Newest(Append(Series!Newest(q), p)) = Series!Newest(Append(q, p))
<1> DEFINE kept == Series!Newest(q)
           a == Append(kept, p)
           b == Append(q, p)
           s == Series!Newest(a)
           t == Series!Newest(b)
<1>0. SeriesKeep \in Nat /\ Len(q) \in Nat
  OBVIOUS
<1>1. /\ kept \in Seq(Series!Point)
      /\ Len(kept) = IF Len(q) > SeriesKeep THEN SeriesKeep ELSE Len(q)
      /\ \A i \in 1 .. Len(kept) : kept[i] = q[Len(q) - Len(kept) + i]
  BY <1>0, NewestIs
<1>. HIDE DEF kept
<1>2. /\ a \in Seq(Series!Point) /\ Len(a) = Len(kept) + 1
      /\ \A i \in 1 .. Len(kept) : a[i] = kept[i]
      /\ a[Len(kept) + 1] = p
  BY <1>1, AppendProperties
<1>3. /\ b \in Seq(Series!Point) /\ Len(b) = Len(q) + 1
      /\ \A i \in 1 .. Len(q) : b[i] = q[i]
      /\ b[Len(q) + 1] = p
  BY AppendProperties
<1>. HIDE DEF a, b
<1>4. /\ s \in Seq(Series!Point)
      /\ Len(s) = IF Len(a) > SeriesKeep THEN SeriesKeep ELSE Len(a)
      /\ \A i \in 1 .. Len(s) : s[i] = a[Len(a) - Len(s) + i]
  BY <1>0, <1>2, NewestIs
<1>5. /\ t \in Seq(Series!Point)
      /\ Len(t) = IF Len(b) > SeriesKeep THEN SeriesKeep ELSE Len(b)
      /\ \A i \in 1 .. Len(t) : t[i] = b[Len(b) - Len(t) + i]
  BY <1>0, <1>3, NewestIs
<1>. HIDE DEF s, t
<1>6. Len(s) = Len(t) /\ Len(s) \in Nat /\ Len(s) <= Len(a) /\ Len(s) <= Len(b)
      /\ Len(kept) \in Nat /\ Len(kept) <= Len(q)
  BY <1>0, <1>1, <1>2, <1>3, <1>4, <1>5
<1>7. ASSUME NEW i \in 1 .. Len(s) PROVE s[i] = t[i]
  <2> DEFINE j == Len(a) - Len(s) + i
             k == Len(b) - Len(t) + i
  <2>1. j \in 1 .. Len(kept) + 1 /\ k \in 1 .. Len(q) + 1 /\ k = Len(q) - Len(kept) + j
    BY <1>0, <1>2, <1>3, <1>6
  <2>2. s[i] = a[j] /\ t[i] = b[k]
    BY <1>4, <1>5, <1>6
  <2>. HIDE DEF j, k
  <2>3. CASE j = Len(kept) + 1
    <3>1. k = Len(q) + 1
      BY <1>0, <1>6, <2>1, <2>3
    <3>. QED BY <1>2, <1>3, <2>2, <2>3, <3>1
  <2>4. CASE j # Len(kept) + 1
    <3>1. j \in 1 .. Len(kept) /\ k \in 1 .. Len(q)
      BY <1>0, <1>6, <2>1, <2>4
    <3>2. a[j] = kept[j] /\ b[k] = q[k] /\ kept[j] = q[k]
      BY <1>1, <1>2, <1>3, <2>1, <3>1
    <3>. QED BY <2>2, <3>2
  <2>. QED BY <2>3, <2>4
<1>8. s = t
  BY <1>4, <1>5, <1>6, <1>7, SeqEqual
<1>. QED BY <1>8 DEF s, t, a, b, kept

\* What had been reported at an earlier moment does not change.
LEMMA EarlierIsKept ==
  ASSUME NEW q \in Seq(Series!Point), NEW p \in Series!Point, NEW k \in 0 .. Len(q)
  PROVE  SubSeq(Append(q, p), 1, k) = SubSeq(q, 1, k)
<1>1. /\ Append(q, p) \in Seq(Series!Point) /\ Len(q) \in Nat
      /\ \A i \in 1 .. Len(q) : Append(q, p)[i] = q[i] /\ q[i] \in Series!Point
  BY AppendProperties
<1>2. k \in Int /\ \A i \in 1 .. k : i \in 1 .. Len(q)
  BY <1>1
<1>3. \A i \in 1 .. k : Append(q, p)[i] \in Series!Point /\ q[i] \in Series!Point
  BY <1>1, <1>2
<1> DEFINE s == SubSeq(Append(q, p), 1, k)
           t == SubSeq(q, 1, k)
<1>4. /\ s \in Seq(Series!Point) /\ Len(s) = (IF 1 <= k THEN k - 1 + 1 ELSE 0)
      /\ \A i \in 1 .. k - 1 + 1 : s[i] = Append(q, p)[1 + i - 1]
  BY <1>2, <1>3, SubSeqProperties
<1>5. /\ t \in Seq(Series!Point) /\ Len(t) = (IF 1 <= k THEN k - 1 + 1 ELSE 0)
      /\ \A i \in 1 .. k - 1 + 1 : t[i] = q[1 + i - 1]
  BY <1>2, <1>3, SubSeqProperties
<1>. HIDE DEF s, t
<1>6. Len(s) = Len(t) /\ \A i \in 1 .. Len(s) : i \in 1 .. k /\ i \in 1 .. k - 1 + 1 /\ 1 + i - 1 = i
  BY <1>2, <1>4, <1>5
<1>7. \A i \in 1 .. Len(s) : s[i] = t[i]
  BY <1>1, <1>2, <1>4, <1>5, <1>6
<1>8. s = t
  BY <1>4, <1>5, <1>6, <1>7, SeqEqual
<1>. QED BY <1>8 DEF s, t

-----------------------------------------------------------------------------
(* SeriesEngines: what the readers find *)

LEMMA SeriesStarts ==
  ASSUME Series!SeriesAssumption, Series!Init
  PROVE  Series!SeriesInv
<1>1. /\ series = [s \in SeriesSessions |-> [n \in Things |-> <<>>]]
      /\ reported = series /\ call.op = "idle"
  BY DEF Series!Init, Series!Idle
<1>2. SeriesKeep \in Nat /\ <<>> \in Seq(Series!Point) /\ Len(<<>>) = 0
  BY EmptySeq DEF Series!SeriesAssumption
<1>3. Series!Newest(<<>>) = <<>>
  <2>1. ~ (0 > SeriesKeep)
    BY <1>2
  <2>2. Series!Newest(<<>>) = SubSeq(<<>>, 1, 0)
    BY <1>2, <2>1 DEF Series!Newest
  <2>. QED BY <2>2, SubSeqEmpty
<1>4. reported \in [SeriesSessions -> [Things -> Seq(Series!Point)]]
  BY <1>1, <1>2
<1>5. series = [s \in SeriesSessions |-> [n \in Things |-> Series!Newest(reported[s][n])]]
  BY <1>1, <1>3
<1>. QED BY <1>1, <1>4, <1>5 DEF Series!SeriesInv, Series!KeptInv, Series!CallInv

LEMMA ReportsKept ==
  ASSUME Series!SeriesAssumption, Series!KeptInv, NEW s \in SeriesSessions, NEW n \in Things
  PROVE  /\ reported[s][n] \in Seq(Series!Point) /\ Len(reported[s][n]) \in Nat
         /\ series[s][n] = Series!Newest(reported[s][n])
         /\ Len(reported[s][n]) >= SeriesEnough => Len(series[s][n]) >= SeriesEnough
<1>1. reported[s][n] \in Seq(Series!Point) /\ series[s][n] = Series!Newest(reported[s][n])
  BY DEF Series!KeptInv
<1>2. SeriesKeep \in Nat /\ SeriesEnough \in Nat /\ SeriesKeep >= SeriesEnough
  BY DEF Series!SeriesAssumption
<1>3. Len(series[s][n]) = IF Len(reported[s][n]) > SeriesKeep THEN SeriesKeep ELSE Len(reported[s][n])
  BY <1>1, <1>2, NewestIs
<1>4. Len(reported[s][n]) \in Nat
  BY <1>1
<1>. QED BY <1>1, <1>2, <1>3, <1>4

LEMMA IngestAdds ==
  ASSUME Series!SeriesAssumption, Series!KeptInv,
         NEW s \in SeriesSessions, NEW n \in Things, NEW p \in Series!Point, Series!Ingest(s, n, p)
  PROVE  /\ Series!KeptInv'
         /\ \A t \in SeriesSessions, m \in Things :
              /\ Len(reported[t][m]) \in Nat /\ Len(reported'[t][m]) \in Nat
              /\ Len(reported'[t][m]) >= Len(reported[t][m])
              /\ \A k \in 0 .. Len(reported[t][m]) :
                   SubSeq(reported'[t][m], 1, k) = SubSeq(reported[t][m], 1, k)
<1> DEFINE all == reported[s][n]
<1>1. /\ series' = [series EXCEPT ![s][n] = Series!Newest(Append(series[s][n], p))]
      /\ reported' = [reported EXCEPT ![s][n] = Append(all, p)]
  BY DEF Series!Ingest
<1>2. all \in Seq(Series!Point) /\ series[s][n] = Series!Newest(all)
  BY ReportsKept
<1>3. SeriesKeep \in Nat \ {0}
  BY DEF Series!SeriesAssumption
<1>4. Append(all, p) \in Seq(Series!Point) /\ Len(Append(all, p)) = Len(all) + 1
  BY <1>2, AppendProperties
<1>5. reported \in [SeriesSessions -> [Things -> Seq(Series!Point)]]
  BY DEF Series!KeptInv
<1>6. Series!Newest(Append(series[s][n], p)) = Series!Newest(Append(all, p))
  BY <1>2, <1>3, NewestOfOneMore
<1>. HIDE DEF all
<1>7. reported' \in [SeriesSessions -> [Things -> Seq(Series!Point)]]
  BY <1>1, <1>4, <1>5
<1>8. \A t \in SeriesSessions, m \in Things :
        reported'[t][m] = IF t = s /\ m = n THEN Append(all, p) ELSE reported[t][m]
  BY <1>1, <1>5
<1>9. series' = [t \in SeriesSessions |-> [m \in Things |-> Series!Newest(reported'[t][m])]]
  <2>1. series = [t \in SeriesSessions |-> [m \in Things |-> Series!Newest(reported[t][m])]]
    BY DEF Series!KeptInv
  <2>2. \A t \in SeriesSessions, m \in Things :
          series'[t][m] = IF t = s /\ m = n THEN Series!Newest(Append(all, p)) ELSE Series!Newest(reported[t][m])
    BY <1>1, <1>6, <2>1
  <2>3. /\ series' = [t \in SeriesSessions |-> series'[t]]
        /\ \A t \in SeriesSessions : series'[t] = [m \in Things |-> series'[t][m]]
    BY <1>1, <2>1
  <2>4. \A t \in SeriesSessions, m \in Things : series'[t][m] = Series!Newest(reported'[t][m])
    BY <1>8, <2>2
  <2>5. \A t \in SeriesSessions : series'[t] = [m \in Things |-> Series!Newest(reported'[t][m])]
    <3>. TAKE t \in SeriesSessions
    <3>1. [m \in Things |-> series'[t][m]] = [m \in Things |-> Series!Newest(reported'[t][m])]
      BY <2>4
    <3>. QED BY <2>3, <3>1
  <2>. QED BY <2>3, <2>5
<1>10. Series!KeptInv'
  BY <1>7, <1>9 DEF Series!KeptInv, Series!Newest
<1>11. ASSUME NEW t \in SeriesSessions, NEW m \in Things
       PROVE  /\ Len(reported[t][m]) \in Nat /\ Len(reported'[t][m]) \in Nat
              /\ Len(reported'[t][m]) >= Len(reported[t][m])
              /\ \A k \in 0 .. Len(reported[t][m]) :
                   SubSeq(reported'[t][m], 1, k) = SubSeq(reported[t][m], 1, k)
  <2>1. Len(reported[t][m]) \in Nat
    BY ReportsKept
  <2>2. CASE t = s /\ m = n
    <3>1. reported'[t][m] = Append(all, p) /\ reported[t][m] = all
      BY <1>8, <2>2 DEF all
    <3>2. \A k \in 0 .. Len(all) : SubSeq(Append(all, p), 1, k) = SubSeq(all, 1, k)
      BY <1>2, EarlierIsKept DEF all
    <3>. QED BY <1>4, <2>1, <3>1, <3>2
  <2>3. CASE ~ (t = s /\ m = n)
    BY <1>8, <2>1, <2>3
  <2>. QED BY <2>2, <2>3
<1>. QED BY <1>10, <1>11

\* A report leaves what a reader has found.
LEMMA IngestStays ==
  ASSUME Series!SeriesAssumption, Series!SeriesInv,
         NEW s \in SeriesSessions, NEW n \in Things, NEW p \in Series!Point, Series!Ingest(s, n, p)
  PROVE  Series!SeriesInv'
<1>1. Series!KeptInv
  BY DEF Series!SeriesInv
<1>2. call' = call
  BY DEF Series!Ingest
<1>3. /\ Series!KeptInv'
      /\ \A t \in SeriesSessions, m \in Things :
           /\ Len(reported[t][m]) \in Nat /\ Len(reported'[t][m]) \in Nat
           /\ Len(reported'[t][m]) >= Len(reported[t][m])
           /\ \A k \in 0 .. Len(reported[t][m]) :
                SubSeq(reported'[t][m], 1, k) = SubSeq(reported[t][m], 1, k)
  BY <1>1, IngestAdds
<1>4. ASSUME NEW t \in SeriesSessions, NEW m \in Things, NEW from \in Nat, NEW row, Series!RowInv(t, m, from, row)
      PROVE  Series!RowInv(t, m, from, row)'
  <2>1. PICK k \in from .. Len(reported[t][m]) :
          /\ k > 0 /\ Len(Series!Moment(t, m, k)) >= SeriesEnough
          /\ row = Series!Row(Series!Moment(t, m, k))
    BY <1>4 DEF Series!RowInv
  <2>2. k \in from .. Len(reported'[t][m]) /\ k \in 0 .. Len(reported[t][m])
    BY <1>3, <2>1
  <2>3. Series!Moment(t, m, k)' = Series!Moment(t, m, k)
    BY <1>3, <2>2 DEF Series!Moment, Series!Newest
  <2>. QED BY <2>1, <2>2, <2>3 DEF Series!RowInv
<1>5. ASSUME NEW t, NEW asked, NEW todo, NEW rows, NEW from, Series!ReadInv(t, asked, todo, rows, from)
      PROVE  Series!ReadInv(t, asked, todo, rows, from)'
  <2>1. /\ t \in SeriesSessions /\ asked \subseteq Things /\ todo \subseteq asked /\ DOMAIN rows \subseteq asked
        /\ \A m \in Things : from[m] \in 0 .. Len(reported[t][m])
        /\ \A m \in DOMAIN rows : Series!RowInv(t, m, from[m], rows[m])
        /\ \A m \in asked : from[m] >= SeriesEnough => m \in DOMAIN rows \cup todo
    BY <1>5 DEF Series!ReadInv
  <2>2. \A m \in Things : from[m] \in 0 .. Len(reported'[t][m]) /\ from[m] \in Nat
    BY <1>3, <2>1
  <2>3. ASSUME NEW m \in DOMAIN rows PROVE Series!RowInv(t, m, from[m], rows[m])'
    BY <1>4, <2>1, <2>2
  <2>. QED BY <2>1, <2>2, <2>3 DEF Series!ReadInv
<1>6. Series!CallInv'
  <2>1. Series!CallInv
    BY DEF Series!SeriesInv
  <2>2. CASE call.op \in {"reading", "done"}
    <3>1. Series!ReadInv(call.session, call.asked, call.todo, call.rows, call.from)
      BY <2>1, <2>2 DEF Series!CallInv
    <3>2. Series!ReadInv(call.session, call.asked, call.todo, call.rows, call.from)'
      BY <1>2, <1>5, <3>1
    <3>. QED BY <1>2, <2>1, <3>2 DEF Series!CallInv
  <2>3. CASE ~ (call.op \in {"reading", "done"})
    BY <1>2, <2>1, <2>3 DEF Series!CallInv
  <2>. QED BY <2>2, <2>3
<1>. QED BY <1>3, <1>6 DEF Series!SeriesInv

\* The reports rest while a reader takes a step.
LEMMA ReadersRest ==
  ASSUME series' = series, reported' = reported
  PROVE  /\ Series!KeptInv => Series!KeptInv'
         /\ \A s, asked, todo, rows, from :
              Series!ReadInv(s, asked, todo, rows, from) => Series!ReadInv(s, asked, todo, rows, from)'
<1>1. Series!KeptInv => Series!KeptInv'
  BY DEF Series!KeptInv, Series!Newest
<1>2. ASSUME NEW s, NEW n, NEW from, NEW row, Series!RowInv(s, n, from, row)
      PROVE  Series!RowInv(s, n, from, row)'
  BY <1>2 DEF Series!RowInv, Series!Moment, Series!Newest
<1>3. ASSUME NEW s, NEW asked, NEW todo, NEW rows, NEW from, Series!ReadInv(s, asked, todo, rows, from)
      PROVE  Series!ReadInv(s, asked, todo, rows, from)'
  BY <1>2, <1>3 DEF Series!ReadInv
<1>. QED BY <1>1, <1>3

LEMMA ReadingHolds ==
  ASSUME Series!KeptInv, series' = series, reported' = reported,
         NEW op \in {"reading", "done"}, NEW s, NEW asked, NEW todo, NEW rows, NEW from,
         call' = [op |-> op, session |-> s, asked |-> asked, todo |-> todo, rows |-> rows, from |-> from],
         Series!ReadInv(s, asked, todo, rows, from), op = "done" => todo = {}
  PROVE  Series!SeriesInv'
<1>1. Series!KeptInv' /\ Series!ReadInv(s, asked, todo, rows, from)'
  BY ReadersRest
<1>2. /\ call'.op = op /\ call'.session = s /\ call'.asked = asked /\ call'.todo = todo
      /\ call'.rows = rows /\ call'.from = from
  OBVIOUS
<1>3. Series!ReadInv(call.session, call.asked, call.todo, call.rows, call.from)'
  BY <1>1, <1>2
<1>. QED BY <1>1, <1>2, <1>3 DEF Series!SeriesInv, Series!CallInv

LEMMA AskStays ==
  ASSUME Series!SeriesAssumption, Series!SeriesInv, NEW s \in SeriesSessions,
         NEW asked, NEW todo, asked \subseteq Things, todo \subseteq asked,
         asked \cap Series!Known(s) \subseteq todo,
         series' = series, reported' = reported,
         call' = [op |-> "reading", session |-> s, asked |-> asked, todo |-> todo,
                  rows |-> <<>>, from |-> Series!Began(s)]
  PROVE  Series!SeriesInv'
<1> DEFINE from == Series!Began(s)
<1>1. Series!KeptInv
  BY DEF Series!SeriesInv
<1>2. \A n \in Things : from[n] = Len(reported[s][n])
  BY DEF Series!Began
<1>3. \A n \in Things : from[n] \in 0 .. Len(reported[s][n])
  <2>1. \A n \in Things : Len(reported[s][n]) \in Nat
    BY <1>1, ReportsKept
  <2>. QED BY <1>2, <2>1
<1>. HIDE DEF from
<1>4. ASSUME NEW n \in asked, from[n] >= SeriesEnough PROVE n \in todo
  <2>1. n \in Things /\ SeriesEnough \in Nat \ {0}
    BY DEF Series!SeriesAssumption
  <2>2. Len(series[s][n]) >= SeriesEnough
    BY <1>1, <1>2, <1>4, <2>1, ReportsKept
  <2>3. series[s][n] # <<>>
    BY <2>1, <2>2, EmptySeq
  <2>. QED BY <2>1, <2>3 DEF Series!Known
<1>5. DOMAIN <<>> = {}
  OBVIOUS
<1>6. Series!ReadInv(s, asked, todo, <<>>, from)
  BY <1>3, <1>4, <1>5 DEF Series!ReadInv
<1>7. call' = [op |-> "reading", session |-> s, asked |-> asked, todo |-> todo, rows |-> <<>>, from |-> from]
  BY DEF from
<1>. QED BY <1>1, <1>6, <1>7, ReadingHolds

LEMMA ReadOneStays ==
  ASSUME Series!SeriesAssumption, Series!SeriesInv, NEW n \in Things, Series!ReadOne(n)
  PROVE  Series!SeriesInv'
<1> DEFINE s == call.session
           asked == call.asked
           todo == call.todo
           rows == call.rows
           from == call.from
           pts == series[s][n]
           found == IF Len(pts) < SeriesEnough THEN rows ELSE Series!WithRow(rows, n, Series!Row(pts))
<1>1. Series!KeptInv /\ Series!CallInv /\ call.op = "reading" /\ n \in todo
      /\ series' = series /\ reported' = reported
  BY DEF Series!SeriesInv, Series!ReadOne
<1>2. /\ call = [op |-> "reading", session |-> s, asked |-> asked, todo |-> todo, rows |-> rows, from |-> from]
      /\ Series!ReadInv(s, asked, todo, rows, from)
  BY <1>1 DEF Series!CallInv
<1>3. call' = [call EXCEPT !.todo = todo \ {n}, !.rows = found]
  BY DEF Series!ReadOne
<1>. HIDE DEF s, asked, todo, rows, from, found
<1>4. call' = [op |-> "reading", session |-> s, asked |-> asked, todo |-> todo \ {n}, rows |-> found, from |-> from]
  BY <1>2, <1>3
<1>5. /\ s \in SeriesSessions /\ asked \subseteq Things /\ todo \subseteq asked /\ DOMAIN rows \subseteq asked
      /\ \A m \in Things : from[m] \in 0 .. Len(reported[s][m])
      /\ \A m \in DOMAIN rows : Series!RowInv(s, m, from[m], rows[m])
      /\ \A m \in asked : from[m] >= SeriesEnough => m \in DOMAIN rows \cup todo
  BY <1>2 DEF Series!ReadInv
<1>6. /\ reported[s][n] \in Seq(Series!Point) /\ Len(reported[s][n]) \in Nat
      /\ pts = Series!Newest(reported[s][n])
      /\ Len(reported[s][n]) >= SeriesEnough => Len(pts) >= SeriesEnough
  BY <1>1, <1>5, ReportsKept
<1>. HIDE DEF pts
<1>7. SeriesEnough \in Nat \ {0} /\ SeriesKeep \in Nat
  BY DEF Series!SeriesAssumption
<1>8. Len(pts) \in Nat /\ Len(pts) <= Len(reported[s][n])
  <2>1. Len(pts) = IF Len(reported[s][n]) > SeriesKeep THEN SeriesKeep ELSE Len(reported[s][n])
    BY <1>6, <1>7, NewestIs
  <2>. QED BY <1>6, <1>7, <2>1
<1>9. from[n] \in Nat /\ from[n] <= Len(reported[s][n])
  BY <1>5, <1>6
<1>10. CASE Len(pts) < SeriesEnough
  <2>1. found = rows
    BY <1>10 DEF found
  <2>2. ~ (from[n] >= SeriesEnough)
    BY <1>6, <1>7, <1>8, <1>9, <1>10
  <2>3. Series!ReadInv(s, asked, todo \ {n}, rows, from)
    BY <1>5, <2>2 DEF Series!ReadInv
  <2>. QED BY <1>1, <1>4, <2>1, <2>3, ReadingHolds
<1>11. CASE ~ (Len(pts) < SeriesEnough)
  <2>1. found = [m \in DOMAIN rows \cup {n} |-> IF m = n THEN Series!Row(pts) ELSE rows[m]]
    BY <1>11 DEF found, Series!WithRow
  <2>2. DOMAIN found = DOMAIN rows \cup {n} /\ found[n] = Series!Row(pts)
        /\ \A m \in DOMAIN rows : m # n => found[m] = rows[m]
    BY <2>1
  <2>3. Series!RowInv(s, n, from[n], Series!Row(pts))
    <3> DEFINE k == Len(reported[s][n])
    <3>1. Series!Moment(s, n, k) = pts
      BY <1>6, SubSeqFull DEF Series!Moment
    <3>2. k > 0 /\ Len(pts) >= SeriesEnough /\ k \in from[n] .. Len(reported[s][n])
      BY <1>6, <1>7, <1>8, <1>9, <1>11
    <3>. HIDE DEF k
    <3>. QED BY <3>1, <3>2 DEF Series!RowInv
  <2>4. \A m \in DOMAIN found : Series!RowInv(s, m, from[m], found[m])
    BY <1>5, <2>2, <2>3
  <2>5. Series!ReadInv(s, asked, todo \ {n}, found, from)
    BY <1>1, <1>5, <2>2, <2>4 DEF Series!ReadInv
  <2>. QED BY <1>1, <1>4, <2>5, ReadingHolds
<1>. QED BY <1>10, <1>11

LEMMA SeriesStay ==
  ASSUME Series!SeriesAssumption, Series!SeriesInv, [Series!Next]_seriesVars
  PROVE  Series!SeriesInv'
<1>1. Series!KeptInv /\ Series!CallInv
  BY DEF Series!SeriesInv
<1>2. ASSUME NEW s \in SeriesSessions, NEW n \in Things, NEW p \in Series!Point, Series!Ingest(s, n, p)
      PROVE  Series!SeriesInv'
  BY <1>2, IngestStays
<1>3. ASSUME NEW s \in SeriesSessions, Series!AskAll(s) PROVE Series!SeriesInv'
  <2>1. Series!Known(s) \subseteq Things
    BY DEF Series!Known
  <2>. QED BY <1>3, <2>1, AskStays DEF Series!AskAll
<1>4. ASSUME NEW s \in SeriesSessions, NEW n \in Things, Series!AskOne(s, n) PROVE Series!SeriesInv'
  BY <1>4, AskStays DEF Series!AskOne
<1>5. ASSUME NEW n \in Things, Series!ReadOne(n) PROVE Series!SeriesInv'
  BY <1>5, ReadOneStays
<1>6. CASE Series!Answer
  <2>1. /\ call = [op |-> "reading", session |-> call.session, asked |-> call.asked, todo |-> {},
                   rows |-> call.rows, from |-> call.from]
        /\ Series!ReadInv(call.session, call.asked, {}, call.rows, call.from)
    BY <1>1, <1>6 DEF Series!Answer, Series!CallInv
  <2>2. PICK s, asked, rows, from :
          /\ call = [op |-> "reading", session |-> s, asked |-> asked, todo |-> {}, rows |-> rows, from |-> from]
          /\ Series!ReadInv(s, asked, {}, rows, from)
    BY <2>1
  <2>3. call' = [op |-> "done", session |-> s, asked |-> asked, todo |-> {}, rows |-> rows, from |-> from]
        /\ series' = series /\ reported' = reported
    BY <1>6, <2>2 DEF Series!Answer
  <2>. QED BY <1>1, <2>2, <2>3, ReadingHolds
<1>7. CASE Series!AskHealth \/ Series!HealthStep \/ Series!Recover
  <2>1. series' = series /\ reported' = reported
    BY <1>7 DEF Series!AskHealth, Series!HealthStep, Series!Recover
  <2>2. call'.op \in {"idle", "error"}
        \/ \E sessions, left : call' = [op |-> "health", sessions |-> sessions, left |-> left]
    <3>1. CASE Series!AskHealth
      BY <3>1 DEF Series!AskHealth
    <3>2. CASE Series!HealthStep
      <4>1. PICK sessions, left : call = [op |-> "health", sessions |-> sessions, left |-> left]
        BY <1>1, <3>2 DEF Series!HealthStep, Series!CallInv
      <4>2. CASE \E s \in call.left : call' = [call EXCEPT !.left = @ \ {s}]
        BY <4>1, <4>2
      <4>3. CASE call'.op \in {"idle", "error"}
        BY <4>3
      <4>. QED BY <3>2, <4>2, <4>3 DEF Series!HealthStep, Series!Idle
    <3>3. CASE Series!Recover
      BY <3>3 DEF Series!Recover, Series!Idle
    <3>. QED BY <1>7, <3>1, <3>2, <3>3
  <2>3. Series!CallInv'
    BY <2>2 DEF Series!CallInv
  <2>. QED BY <1>1, <2>1, <2>3, ReadersRest DEF Series!SeriesInv
<1>8. CASE UNCHANGED seriesVars
  <2>1. series' = series /\ reported' = reported /\ call' = call
    BY <1>8 DEF seriesVars
  <2>2. Series!CallInv'
    <3>1. CASE call.op \in {"reading", "done"}
      BY <1>1, <2>1, <3>1, ReadersRest DEF Series!CallInv
    <3>2. CASE ~ (call.op \in {"reading", "done"})
      BY <1>1, <2>1, <3>2 DEF Series!CallInv
    <3>. QED BY <3>1, <3>2
  <2>. QED BY <1>1, <2>1, <2>2, ReadersRest DEF Series!SeriesInv
<1>. QED BY <1>2, <1>3, <1>4, <1>5, <1>6, <1>7, <1>8 DEF Series!Next

LEMMA RowsTell ==
  ASSUME Series!SeriesAssumption, Series!SeriesInv
  PROVE  Series!RowsAreOfTheCall
<1>. SUFFICES ASSUME call.op = "done", NEW n \in Things
              PROVE  LET all == reported[call.session][n]
                     IN  /\ n \in DOMAIN call.rows =>
                              \E k \in call.from[n] .. Len(all) :
                                k > 0 /\ Series!Tells(call.rows[n], Series!Newest(SubSeq(all, 1, k)))
                         /\ n \in call.asked /\ call.from[n] >= SeriesEnough => n \in DOMAIN call.rows
  BY DEF Series!RowsAreOfTheCall
<1> DEFINE s == call.session
           rows == call.rows
           from == call.from
           all == reported[s][n]
<1>1. Series!KeptInv /\ Series!ReadInv(s, call.asked, {}, rows, from)
  BY DEF Series!SeriesInv, Series!CallInv
<1>2. SeriesKeep \in Nat
  BY DEF Series!SeriesAssumption
<1>. HIDE DEF s, rows, from
<1>3. ASSUME n \in DOMAIN rows
      PROVE  \E k \in from[n] .. Len(all) : k > 0 /\ Series!Tells(rows[n], Series!Newest(SubSeq(all, 1, k)))
  <2>1. PICK k \in from[n] .. Len(all) :
          k > 0 /\ Len(Series!Moment(s, n, k)) >= SeriesEnough /\ rows[n] = Series!Row(Series!Moment(s, n, k))
    BY <1>1, <1>3 DEF Series!ReadInv, Series!RowInv
  <2>2. all \in Seq(Series!Point) /\ from[n] \in Nat /\ Len(all) \in Nat
    <3>1. s \in SeriesSessions /\ from[n] \in 0 .. Len(all)
      BY <1>1 DEF Series!ReadInv
    <3>. QED BY <1>1, <3>1, ReportsKept
  <2>3. SubSeq(all, 1, k) \in Seq(Series!Point)
    <3>. HIDE DEF all
    <3>1. k \in Int /\ \A i \in 1 .. k : i \in 1 .. Len(all)
      BY <2>1, <2>2
    <3>2. \A i \in 1 .. k : all[i] \in Series!Point
      BY <2>2, <3>1, ElementOfSeq
    <3>. QED BY <3>1, <3>2, SubSeqProperties
  <2>4. Series!Moment(s, n, k) \in Seq(Series!Point) /\ Series!Moment(s, n, k) = Series!Newest(SubSeq(all, 1, k))
    BY <1>2, <2>3, NewestIs DEF Series!Moment
  <2>5. Series!Tells(Series!Row(Series!Moment(s, n, k)), Series!Moment(s, n, k))
    BY <2>1, <2>4, RowTells
  <2>. QED BY <2>1, <2>4, <2>5
<1>4. n \in call.asked /\ from[n] >= SeriesEnough => n \in DOMAIN rows
  BY <1>1 DEF Series!ReadInv
<1>. QED BY <1>3, <1>4 DEF s, rows, from

\* Every row of a portfolio, a fleet or a single brief tells one moment of its series,
\* between the call and the answer, with its deepest fall, its gaps and its pivot those of
\* the newest reports there were at that moment; and a series that was long enough when the
\* call began is never missing (finance.py, vessels.py, lyte.py, killinchu.py).
THEOREM RowsTellTheCall == EnginesSpec => []RowsAreOfTheCall
<1>. DEFINE Inv == engine = "series" => Series!SeriesInv
<1>0. Series!SeriesAssumption
  BY EnginesAssumption
<1>1. EnginesInit => Inv
  BY <1>0, TablesStart, SeriesStarts
<1>2. Inv /\ [EnginesNext]_engineVars => Inv'
  <2>. SUFFICES ASSUME Inv, [EnginesNext]_engineVars, engine' = "series" PROVE Series!SeriesInv'
    OBVIOUS
  <2>1. engine = "series" /\ [Series!Next]_seriesVars
    BY TablesStep
  <2>. QED BY <1>0, <2>1, SeriesStay
<1>3. Inv => RowsAreOfTheCall
  BY <1>0, RowsTell DEF RowsAreOfTheCall
<1>. QED BY <1>1, <1>2, <1>3, PTL DEF EnginesSpec

=============================================================================
