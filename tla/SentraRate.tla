------------------------------ MODULE SentraRate ------------------------------
(***************************************************************************)
(* The ninth gate of Sentra (sentra.py): calls of one actor in one session *)
(* are counted in a sliding window.  The clock is read before the lock is  *)
(* taken, so calls may be counted in another order than their times; every *)
(* call is counted, also a denied one, and the count is kept in a deque of *)
(* bounded length.  Each pair of session and actor has a deque of its own. *)
(***************************************************************************)
EXTENDS Integers, Sequences, FiniteSets, FiniteSetsExt

CONSTANTS
  Callers,     \* threads that evaluate calls of the actor
  Limit,       \* calls allowed in a window
  Window,      \* length of the window
  Capacity,    \* maxlen of the deque
  MaxClock,    \* bound on the clock
  MaxCalls     \* bound on the calls counted

\* The deque keeps 120 hits, 60 calls are allowed, and the server has 40 threads.
RateAssumption ==
  /\ Limit \in Nat \ {0} /\ Window \in Nat \ {0}
  /\ IsFiniteSet(Callers) /\ Callers # {}
  /\ Capacity \in Nat /\ Capacity >= Limit + Cardinality(Callers) - 1
  /\ MaxClock \in Nat /\ MaxCalls \in Nat

VARIABLES
  clock,  \* time.time()
  hits,   \* RATE[(session, actor)], the oldest first
  calls,  \* what each thread is doing
  made,   \* history: for each time, how many calls were counted at it
  granted \* history: the allowed among them, the nth at each time

vars == <<clock, hits, calls, made, granted>>

Times == 0..MaxClock

TypeOK ==
  /\ clock \in Times
  /\ hits \in Seq(Times) /\ Len(hits) <= Capacity
  /\ calls \in [Callers -> [op : {"idle"}] \cup [op : {"read"}, now : Times]
                           \cup [op : {"answered"}, allowed : BOOLEAN]]
  /\ made \in [Times -> Nat]
  /\ granted \subseteq [at : Times, nth : Nat]

Init ==
  /\ clock = 0
  /\ hits = <<>>
  /\ calls = [c \in Callers |-> [op |-> "idle"]]
  /\ made = [t \in Times |-> 0]
  /\ granted = {}

Tick ==
  /\ clock < MaxClock
  /\ clock' = clock + 1
  /\ UNCHANGED <<hits, calls, made, granted>>

ReadClock(c) ==
  /\ calls[c].op # "read"
  /\ calls' = [calls EXCEPT ![c] = [op |-> "read", now |-> clock]]
  /\ UNCHANGED <<clock, hits, made, granted>>

Expired(t, now) == now - t >= Window

\* Mutant: at most one hit is dropped.
DropFirst(queue, now) ==
  IF queue # <<>> /\ Expired(queue[1], now) THEN Tail(queue) ELSE queue

\* The hits before the first that has not expired are dropped.
Kept(queue, now) ==
  LET first == Min({i \in DOMAIN queue : ~Expired(queue[i], now)} \cup {Len(queue) + 1})
  IN SubSeq(queue, first, Len(queue))

\* Mutant: a full queue is begun anew.
AppendAnew(queue, t) == IF Len(queue) = Capacity THEN <<t>> ELSE Append(queue, t)

\* A deque drops its first element when it is full.
AppendBounded(queue, t) ==
  LET longer == Append(queue, t)
  IN IF Len(longer) > Capacity THEN Tail(longer) ELSE longer

GrantedAt(t) == {g \in granted : g.at = t}

\* _rate_ok: under the lock the window is brought up to date and the call counted.
RateOk(c) ==
  LET now == calls[c].now
      kept == Kept(hits, now)
      allowed == Len(kept) < Limit
  IN
  /\ calls[c].op = "read"
  /\ MapThenSumSet(LAMBDA t : made[t], Times) < MaxCalls
  /\ hits' = AppendBounded(kept, now)
  /\ calls' = [calls EXCEPT ![c] = [op |-> "answered", allowed |-> allowed]]
  /\ made' = [made EXCEPT ![now] = @ + 1]
  /\ granted' = IF allowed THEN granted \cup {[at |-> now, nth |-> Cardinality(GrantedAt(now))]}
                ELSE granted
  /\ UNCHANGED clock

Next ==
  \/ Tick
  \/ \E c \in Callers : ReadClock(c) \/ RateOk(c)

Spec == Init /\ [][Next]_vars

-----------------------------------------------------------------------------
(* Properties *)

InWindow(u, t) == u <= t /\ ~Expired(u, t)

Granted(t) == {g \in granted : InWindow(g.at, t)}

\* In any window the allowed calls exceed the limit by no more than the threads
\* that may have read the clock before another's call was counted.
WindowBound ==
  \A t \in Times : Cardinality(Granted(t)) <= Limit + Cardinality(Callers) - 1

\* An actor that was silent for a window is allowed, however many of its calls
\* were denied before and in whatever order they were counted.
SilenceRestores ==
  [][\A c \in Callers :
       calls[c].op = "read" /\ calls'[c].op = "answered"
         /\ (\A t \in Times : made[t] > 0 => Expired(t, calls[c].now))
       => calls'[c].allowed
    ]_vars

\* Why WindowBound.  Until a later call is counted, a window holds no more allowed calls
\* than hits, and no more than the limit; from then on only the calls can be added whose
\* threads read the clock before.  The hits stand in the order of their times but for
\* those of other threads that read the clock before and were counted after.
Queued(t) == {i \in DOMAIN hits : InWindow(hits[i], t)}

Reading == {c \in Callers : calls[c].op = "read"}

Pending(t) == {c \in Reading : calls[c].now <= t}

Overtaken(i) == {j \in DOMAIN hits : j > i /\ hits[j] < hits[i]}

Open(t) ==
  /\ \A u \in Times : made[u] > 0 => u <= t
  /\ Cardinality(Granted(t)) <= Limit
  /\ Cardinality(Granted(t)) <= Cardinality(Queued(t))

Closed(t) ==
  /\ t < clock
  /\ Cardinality(Granted(t)) + Cardinality(Pending(t)) <= Limit + Cardinality(Callers) - 1

RateInv ==
  /\ TypeOK
  /\ \A c \in Reading : calls[c].now <= clock
  /\ \A u \in Times : made[u] > 0 => u <= clock
  /\ \A i \in DOMAIN hits : made[hits[i]] > 0
  /\ IsFiniteSet(granted)
  /\ \A g \in granted : g.nth < Cardinality(GrantedAt(g.at))
  /\ \A i \in DOMAIN hits :
       Cardinality(Overtaken(i)) + Cardinality({c \in Reading : calls[c].now < hits[i]})
         <= Cardinality(Callers) - 1
  /\ \A t \in Times : Open(t) \/ Closed(t)

=============================================================================
