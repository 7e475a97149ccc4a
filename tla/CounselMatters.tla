---------------------------- MODULE CounselMatters ----------------------------
(***************************************************************************)
(* The matters of one session and its receipt chain (counsel.py).  To open *)
(* a matter, or to map an obligation to it, is two steps, each under the   *)
(* lock: the matter is changed, then the receipt is chained.  Other calls  *)
(* come between them, and the docket shows a matter before its receipt     *)
(* exists.  All of it is process memory, and the chain keeps its newest    *)
(* receipts only.                                                          *)
(*                                                                         *)
(* A hash stands for what it commits to, the steps chained so far.  An id  *)
(* is the hash of a title, a client and the time: no two matters have one. *)
(***************************************************************************)
EXTENDS Integers, SequencesExt

CONSTANTS
  Callers,    \* threads that serve calls of the session
  MatterIds,
  MaxItems,   \* bound on the obligations of a matter
  Retained    \* maxlen of the receipt chain

MattersAssumption == IsFiniteSet(Callers) /\ MaxItems \in Nat /\ Retained \in Nat \ {0}

VARIABLES
  matters,   \* MATTERS[session]: for each matter opened, its obligations' ids
  chain,     \* RECEIPT_CHAIN[session]
  previous,  \* PREVIOUS_HASH[session]
  calls,     \* what each thread is doing
  used       \* history: the ids ever given

vars == <<matters, chain, previous, calls, used>>

Genesis == <<>>

\* Item 0 is the matter itself.
Step == MatterIds \X Nat
Hash == Seq(Step)
Receipt == [step : Step, prev : Hash, hash : Hash]

Opened == DOMAIN matters

TypeOK ==
  /\ Opened \subseteq MatterIds /\ \A m \in Opened : matters[m] \in Seq(Nat \ {0})
  /\ chain \in Seq(Receipt) /\ Len(chain) <= Retained
  /\ previous \in Hash
  /\ calls \in [Callers -> [op : {"idle"}] \cup [op : {"recorded"}, step : Step]
                           \cup [op : {"answered"}, receipt : Receipt]
                           \cup [op : {"refused"}, matter : MatterIds]]
  /\ used \subseteq MatterIds

Init ==
  /\ matters = [m \in {} |-> <<>>]
  /\ chain = <<>>
  /\ previous = Genesis
  /\ calls = [c \in Callers |-> [op |-> "idle"]]
  /\ used = {}

Becomes(c, call) == calls' = [calls EXCEPT ![c] = call]

Recorded(m, item) == [op |-> "recorded", step |-> <<m, item>>]

Open(c) ==
  /\ calls[c].op # "recorded"
  /\ \E m \in MatterIds \ used :
       /\ matters' = [n \in Opened \cup {m} |-> IF n = m THEN <<>> ELSE matters[n]]
       /\ used' = used \cup {m}
       /\ Becomes(c, Recorded(m, 0))
  /\ UNCHANGED <<chain, previous>>

\* Mutant: obligations are numbered by the receipts there are.
NextItemReceipted(m) == Cardinality({i \in DOMAIN previous : previous[i][1] = m /\ previous[i][2] > 0}) + 1

NextItem(m) == Len(matters[m]) + 1

\* An obligation is mapped to a matter, known from an answer or from the docket.
MapObligation(c) ==
  /\ calls[c].op # "recorded"
  /\ \E m \in MatterIds :
       \/ /\ m \in Opened /\ Len(matters[m]) < MaxItems
          /\ matters' = [matters EXCEPT ![m] = Append(@, NextItem(m))]
          /\ Becomes(c, Recorded(m, NextItem(m)))
       \/ /\ m \notin Opened
          /\ Becomes(c, [op |-> "refused", matter |-> m])
          /\ UNCHANGED matters
  /\ UNCHANGED <<chain, previous, used>>

\* Mutant: the chain goes on from the oldest receipt that is kept.
LinkToOldest(step) ==
  LET from == IF chain = <<>> THEN Genesis ELSE chain[1].hash
  IN [step |-> step, prev |-> from, hash |-> Append(from, step)]

Link(step) == [step |-> step, prev |-> previous, hash |-> Append(previous, step)]

Newest(receipts) == IF Len(receipts) > Retained THEN Tail(receipts) ELSE receipts

Chain(c) ==
  LET receipt == Link(calls[c].step) IN
  /\ calls[c].op = "recorded"
  /\ previous' = receipt.hash
  /\ chain' = Newest(Append(chain, receipt))
  /\ Becomes(c, [op |-> "answered", receipt |-> receipt])
  /\ UNCHANGED <<matters, used>>

Restart ==
  /\ matters' = [m \in {} |-> <<>>]
  /\ chain' = <<>>
  /\ previous' = Genesis
  /\ calls' = [c \in Callers |-> [op |-> "idle"]]
  /\ UNCHANGED used

Next ==
  \/ \E c \in Callers : Open(c) \/ MapObligation(c) \/ Chain(c)
  \/ Restart

Spec == Init /\ [][Next]_vars

-----------------------------------------------------------------------------
(* Properties *)

\* The receipts that are kept are the newest of one chain, each linked to the one
\* before it, however many have been dropped before them.
KeptChainIsLinked ==
  /\ \A i \in DOMAIN chain :
       /\ chain[i].hash = Append(chain[i].prev, chain[i].step)
       /\ i > 1 => chain[i].prev = chain[i - 1].hash
  /\ previous = IF chain = <<>> THEN Genesis ELSE Last(chain).hash
  /\ Len(chain) = IF Len(previous) > Retained THEN Retained ELSE Len(previous)

StepsRecorded ==
  {<<m, 0>> : m \in Opened} \cup UNION {{<<m, i>> : i \in ToSet(matters[m])} : m \in Opened}

Pending == {calls[c].step : c \in {d \in Callers : calls[d].op = "recorded"}}

\* Whatever comes between the two steps of a call, what is recorded is chained
\* exactly once, or about to be, and nothing else is: no obligation shares its
\* number, and none is left without a receipt.
RecordedIsChainedOnce ==
  /\ ToSet(previous) \cup Pending = StepsRecorded
  /\ Len(previous) + Cardinality({c \in Callers : calls[c].op = "recorded"})
       = Cardinality(StepsRecorded)

\* Why RecordedIsChainedOnce: an obligation has the number of its place, and no id is
\* given to two matters, so that each step records something that was not recorded.
MattersInv ==
  /\ TypeOK
  /\ Opened \subseteq used
  /\ \A m \in Opened : Len(matters[m]) <= MaxItems /\ \A i \in DOMAIN matters[m] : matters[m][i] = i
  /\ IsFiniteSet(StepsRecorded)
  /\ KeptChainIsLinked
  /\ RecordedIsChainedOnce

=============================================================================
