------------------------------ MODULE SeriesEngines ------------------------------
(***************************************************************************)
(* The engines that keep what a caller reports as bounded series and       *)
(* compute over them: Lyte's metrics, the prices of PURIQ Finance, the     *)
(* tracks of Vessels, which Killinchu shows as its own (lyte.py,           *)
(* finance.py, vessels.py, killinchu.py).                                  *)
(*                                                                         *)
(* A report is appended in one section of STATE_LOCK.  A portfolio or a    *)
(* fleet reads the names in one section and each series in one of its own, *)
(* and reports come in between; Killinchu's health takes no lock at all.   *)
(*                                                                         *)
(* A report carries a price and a time, and each engine looks at its own.  *)
(* Positions, speeds and rounding are left out.                            *)
(***************************************************************************)
EXTENDS Integers, Sequences, FiniteSets, SequencesExt

CONSTANTS
  Sessions,
  Names,     \* symbols, vessels or streams
  Prices,
  Times,
  Keep,      \* maxlen of a series
  Enough,    \* reports that a computation asks for: 3 prices, 20 metrics
  DarkGap,   \* DARK_GAP_S
  Split,     \* of a drift, in tenths
  MaxReports \* bound on the reports

SeriesAssumption ==
  /\ Prices \subseteq Nat \ {0} /\ Times \subseteq Nat
  /\ Enough \in Nat \ {0, 1} /\ Keep \in Nat /\ Keep >= Enough
  /\ DarkGap \in Nat /\ Split \in 1 .. 9 /\ MaxReports \in Nat

VARIABLES
  series,   \* the kept reports of each session
  reported, \* history: all reports of each session
  call      \* the reader: a portfolio, a single brief, or Killinchu's health

vars == <<series, reported, call>>

Point == [price : Prices, ts : Times]
Idle == [op |-> "idle"]

Init ==
  /\ series = [s \in Sessions |-> [n \in Names |-> <<>>]]
  /\ reported = series
  /\ call = Idle

\* A name or a session is in the table as soon as something was reported of it.
Known(s) == {n \in Names : series[s][n] # <<>>}
Open == {s \in Sessions : Known(s) # {}}

Reports == FoldSet(LAMBDA s, total : total + FoldSet(LAMBDA n, sum : sum + Len(reported[s][n]), 0, Names),
                   0, Sessions)

\* The newest Keep of a sequence: what a deque of that length holds.
Newest(seq) == SubSeq(seq, IF Len(seq) > Keep THEN Len(seq) - Keep + 1 ELSE 1, Len(seq))

\* lyte_ingest, finance_ingest, vessels_ingest.
Ingest(s, n, p) ==
  /\ Reports < MaxReports
  /\ series' = [series EXCEPT ![s][n] = Newest(Append(series[s][n], p))]
  /\ reported' = [reported EXCEPT ![s][n] = Append(@, p)]
  /\ UNCHANGED call

-----------------------------------------------------------------------------
(* The computations, over the kept reports of one name *)

\* The deepest fall from a peak, as the price and the peak it fell from.
Below(a, b) == a[1] * b[2] < b[1] * a[2]

\* Mutant: the first price is taken for the peak throughout.
FallFromFirst(acc, p) ==
  LET now == <<p.price, acc.peak>>
  IN  [peak |-> acc.peak, worst |-> IF Below(now, acc.worst) THEN now ELSE acc.worst]

Fall(acc, p) ==
  LET peak == IF p.price > acc.peak THEN p.price ELSE acc.peak
      now == <<p.price, peak>>
  IN  [peak |-> peak, worst |-> IF Below(now, acc.worst) THEN now ELSE acc.worst]

\* For each length, the peak and the deepest fall of as many prices.
Falls(pts) ==
  LET fall[k \in 1 .. Len(pts)] ==
        Fall(IF k = 1 THEN [peak |-> pts[1].price, worst |-> <<1, 1>>] ELSE fall[k - 1], pts[k])
  IN  fall

Drawdown(pts) == Falls(pts)[Len(pts)].worst

\* The momentum compares the last price with one a while ago.
Lookback(pts) == IF Len(pts) - 1 < 20 THEN Len(pts) - 1 ELSE 20
Momentum(pts) == <<pts[Len(pts)].price, pts[Len(pts) - Lookback(pts)].price>>

\* The gaps of a track, in the order of arrival.
DarkGaps(pts) == Cardinality({i \in 1 .. Len(pts) - 1 : pts[i + 1].ts - pts[i].ts > DarkGap})

\* Where a drift cuts the series in two.
Pivot(pts) ==
  LET cut == (Len(pts) * Split) \div 10
      low == IF cut < 1 THEN 1 ELSE cut
  IN  IF low > Len(pts) - 1 THEN Len(pts) - 1 ELSE low

Row(pts) ==
  [n |-> Len(pts), last |-> pts[Len(pts)].price, drawdown |-> Drawdown(pts),
   momentum |-> Momentum(pts), gaps |-> DarkGaps(pts), pivot |-> Pivot(pts)]

-----------------------------------------------------------------------------
(* The readers *)

\* history: how much of each series had been reported when the call began.
Began(s) == [n \in Names |-> Len(reported[s][n])]

\* portfolio_brief, fleet_risk: the names first.
AskAll(s) ==
  /\ call.op \in {"idle", "done"}
  /\ call' = [op |-> "reading", session |-> s, asked |-> Names, todo |-> Known(s),
               rows |-> <<>>, from |-> Began(s)]
  /\ UNCHANGED <<series, reported>>

\* finance_brief, vessel_risk, lyte_summary, lyte_drift: one name, which must be known.
\* A name here is one as it is stored; Lyte, which strips a name on its way in and looks
\* one up as it was given, knows none with a blank at an end, and asks nothing.
AskOne(s, n) ==
  /\ call.op \in {"idle", "done"}
  /\ n \in Known(s)
  /\ call' = [op |-> "reading", session |-> s, asked |-> {n}, todo |-> {n},
               rows |-> <<>>, from |-> Began(s)]
  /\ UNCHANGED <<series, reported>>

WithRow(rows, n, row) == [m \in DOMAIN rows \cup {n} |-> IF m = n THEN row ELSE rows[m]]

\* A series that is too short is left out.
ReadOne(n) ==
  /\ call.op = "reading" /\ n \in call.todo
  /\ LET pts == series[call.session][n]
     IN  call' = [call EXCEPT !.todo = @ \ {n},
                              !.rows = IF Len(pts) < Enough THEN @ ELSE WithRow(@, n, Row(pts))]
  /\ UNCHANGED <<series, reported>>

Answer ==
  /\ call.op = "reading" /\ call.todo = {}
  /\ call' = [call EXCEPT !.op = "done"]
  /\ UNCHANGED <<series, reported>>

\* killinchu_health adds up the sessions' tracks while others are put in.
AskHealth ==
  /\ call.op \in {"idle", "done"}
  /\ call' = [op |-> "health", sessions |-> Open, left |-> Open]
  /\ UNCHANGED <<series, reported>>

\* The iterator notices that the table has grown: RuntimeError.
HealthStep ==
  /\ call.op = "health"
  /\ \/ Cardinality(Open) # Cardinality(call.sessions) /\ call' = [op |-> "error", began |-> call.sessions]
     \/ /\ Cardinality(Open) = Cardinality(call.sessions)
        /\ IF call.left = {} THEN call' = Idle
           ELSE \E s \in call.left : call' = [call EXCEPT !.left = @ \ {s}]
  /\ UNCHANGED <<series, reported>>

Recover == call.op = "error" /\ call' = Idle /\ UNCHANGED <<series, reported>>

Next ==
  \/ \E s \in Sessions, n \in Names, p \in Point : Ingest(s, n, p)
  \/ \E s \in Sessions : AskAll(s)
  \/ \E s \in Sessions, n \in Names : AskOne(s, n)
  \/ \E n \in Names : ReadOne(n)
  \/ Answer
  \/ AskHealth \/ HealthStep \/ Recover

Spec == Init /\ [][Next]_vars

-----------------------------------------------------------------------------
(* Properties *)

InOrder(pts) == \A i \in 1 .. Len(pts) - 1 : pts[i].ts <= pts[i + 1].ts

\* What a row says, told from the reports themselves.
Tells(row, pts) ==
  /\ row.n = Len(pts) /\ row.last = pts[Len(pts)].price
  /\ \A i, j \in 1 .. Len(pts) : i <= j => ~Below(<<pts[j].price, pts[i].price>>, row.drawdown)
  /\ \/ row.drawdown = <<1, 1>>
     \/ \E i, j \in 1 .. Len(pts) : i <= j /\ row.drawdown = <<pts[j].price, pts[i].price>>
  /\ row.pivot \in 1 .. Len(pts) - 1
  \* A track that arrived in its order has a gap wherever no fix is within DarkGap after one.
  /\ InOrder(pts) =>
       row.gaps = Cardinality({i \in 1 .. Len(pts) - 1 :
                     \A j \in 1 .. Len(pts) : j > i => pts[j].ts > pts[i].ts + DarkGap})

\* Every row of an answer tells one moment of its series, between the call and the
\* answer, of the newest Keep reports there were; and a series that was long enough when
\* the call began is never missing.  Rows of one answer may be of different moments.
RowsAreOfTheCall ==
  call.op = "done" =>
    \A n \in Names :
      LET all == reported[call.session][n]
      IN  /\ n \in DOMAIN call.rows =>
               \E k \in call.from[n] .. Len(all) : k > 0 /\ Tells(call.rows[n], Newest(SubSeq(all, 1, k)))
          /\ n \in call.asked /\ call.from[n] >= Enough => n \in DOMAIN call.rows

\* Why: what is kept of a series is the newest of what was reported, and a row that was
\* read tells a moment since the call began.
KeptInv ==
  /\ reported \in [Sessions -> [Names -> Seq(Point)]]
  /\ series = [s \in Sessions |-> [n \in Names |-> Newest(reported[s][n])]]

Moment(s, n, k) == Newest(SubSeq(reported[s][n], 1, k))

RowInv(s, n, from, row) ==
  \E k \in from .. Len(reported[s][n]) :
    k > 0 /\ Len(Moment(s, n, k)) >= Enough /\ row = Row(Moment(s, n, k))

ReadInv(s, asked, todo, rows, from) ==
  /\ s \in Sessions /\ asked \subseteq Names /\ todo \subseteq asked /\ DOMAIN rows \subseteq asked
  /\ \A n \in Names : from[n] \in 0 .. Len(reported[s][n])
  /\ \A n \in DOMAIN rows : RowInv(s, n, from[n], rows[n])
  /\ \A n \in asked : from[n] >= Enough => n \in DOMAIN rows \cup todo

CallInv ==
  /\ call.op \in {"reading", "done"} =>
       /\ call = [op |-> call.op, session |-> call.session, asked |-> call.asked, todo |-> call.todo,
                  rows |-> call.rows, from |-> call.from]
       /\ ReadInv(call.session, call.asked, call.todo, call.rows, call.from)
  /\ call.op = "done" => call.todo = {}
  /\ call.op = "health" => call = [op |-> "health", sessions |-> call.sessions, left |-> call.left]

SeriesInv == KeptInv /\ CallInv

=============================================================================
