---------------------------- MODULE FinanceReceipts ----------------------------
(***************************************************************************)
(* The receipt chain of the finance engine (services/finance/receipts.py)  *)
(* as its routes use it (services/finance/app.py).  The routes are plain   *)
(* functions, which FastAPI runs in a pool of threads, and append takes no *)
(* lock: it reads the head, then the length, hashes, and appends, and      *)
(* another thread may run between any two of these.                        *)
(*                                                                         *)
(* A digest is the digested value itself, so equal digests are equal       *)
(* bodies.  A payload stands for an entry's kind, time and payload.        *)
(***************************************************************************)
EXTENDS Integers, SequencesExt

CONSTANTS
  Workers,   \* threads of the pool
  Payloads,
  MaxLength  \* bound on the entries, appended or being appended

LengthAssumption == MaxLength \in Nat

VARIABLES
  entries,  \* ReceiptChain._entries
  calls,    \* what each thread is doing
  report    \* the last answer of /receipts/verify

vars == <<entries, calls, report>>

Genesis == <<>>

Body(seq, payload, prev) == [seq |-> seq, payload |-> payload, prev |-> prev]

Entry(body) == [body |-> body, digest |-> <<body>>]

Init ==
  /\ entries = <<>>
  /\ calls = [w \in Workers |-> [op |-> "idle"]]
  /\ report = [state |-> "none"]

ChainHead(chain) == IF chain = <<>> THEN Genesis ELSE Last(chain).digest

Go(w, call) == calls' = [calls EXCEPT ![w] = call]

InFlight == {w \in Workers : calls[w].op \in {"head", "body"}}

\* A route has its result, or a refusal, and calls append.
ReadHead(w) ==
  /\ calls[w].op \notin {"head", "body"}
  /\ Len(entries) + Cardinality(InFlight) < MaxLength
  /\ \E p \in Payloads : Go(w, [op |-> "head", payload |-> p, prev |-> ChainHead(entries)])
  /\ UNCHANGED <<entries, report>>

MakeBody(w) ==
  /\ calls[w].op = "head"
  /\ Go(w, [op |-> "body", body |-> Body(Len(entries), calls[w].payload, calls[w].prev)])
  /\ UNCHANGED <<entries, report>>

\* Mutant: the entry replaces one with its number.
AppendAtSeq(w) ==
  /\ calls[w].op = "body"
  /\ LET entry == Entry(calls[w].body) IN
     /\ entries' = Append(SubSeq(entries, 1, entry.body.seq), entry)
     /\ Go(w, [op |-> "answered", digest |-> entry.digest])
  /\ UNCHANGED report

AppendEntry(w) ==
  /\ calls[w].op = "body"
  /\ LET entry == Entry(calls[w].body) IN
     /\ entries' = Append(entries, entry)
     /\ Go(w, [op |-> "answered", digest |-> entry.digest])
  /\ UNCHANGED report

\* The entry at position i has the number and the predecessor it should.
Linked(chain, i) ==
  /\ chain[i].body.seq = i - 1
  /\ chain[i].body.prev = ChainHead(SubSeq(chain, 1, i - 1))

Intact(chain, i) == chain[i].digest = <<chain[i].body>>

\* Mutant: the digests are checked and the links are not.
DigestsOnly(chain) ==
  LET bad == {i \in DOMAIN chain : ~Intact(chain, i)} IN
  IF bad = {} THEN [state |-> "CONSISTENT"]
  ELSE [state |-> "DIVERGENT", at |-> CHOOSE i \in bad : \A j \in bad : i <= j]

Verify(chain) ==
  LET bad == {i \in DOMAIN chain : ~Linked(chain, i) \/ ~Intact(chain, i)} IN
  IF bad = {} THEN [state |-> "CONSISTENT"]
  ELSE [state |-> "DIVERGENT", at |-> CHOOSE i \in bad : \A j \in bad : i <= j]

\* A verification copies the list in one step.
VerifyReceipts ==
  /\ report' = Verify(entries)
  /\ UNCHANGED <<entries, calls>>

\* A new process has an empty chain.
Restart ==
  /\ entries' = <<>>
  /\ calls' = [w \in Workers |-> [op |-> "idle"]]
  /\ report' = [state |-> "none"]

Next ==
  \/ \E w \in Workers : ReadHead(w) \/ MakeBody(w) \/ AppendEntry(w)
  \/ VerifyReceipts
  \/ Restart

Spec == Init /\ [][Next]_vars

-----------------------------------------------------------------------------
(* Properties *)

\* What the process emitted verifies (docstring of receipts.py: receipts are
\* replayable, and /receipts/verify attests to what the process has emitted).
EmittedIsConsistent == report.state # "DIVERGENT"

\* A receipt that was answered to a caller is in the chain, at the number it
\* bears or, if another thread was faster, after it.
AnsweredIsEmitted ==
  \A w \in Workers : calls[w].op = "answered" =>
    \E i \in DOMAIN entries :
      entries[i].digest = calls[w].digest /\ i > entries[i].body.seq

\* Why AnsweredIsEmitted: an entry is numbered by a length that the chain had before.
EntriesInv ==
  /\ entries \in Seq(ToSet(entries))
  /\ DOMAIN calls = Workers
  /\ \A w \in Workers : calls[w].op = "body" =>
       calls[w].body = Body(calls[w].body.seq, calls[w].body.payload, calls[w].body.prev)
         /\ calls[w].body.seq \in 0 .. Len(entries)
  /\ \A i \in DOMAIN entries :
       LET body == entries[i].body IN
       /\ entries[i] = Entry(body) /\ body = Body(body.seq, body.payload, body.prev)
       /\ body.seq \in 0 .. i - 1
  /\ AnsweredIsEmitted

\* Until a restart, a chain that diverges diverges for good and at the same
\* entry: no later receipt repairs it.
DivergenceStays ==
  [][Verify(entries).state = "DIVERGENT" /\ entries' # <<>> => Verify(entries') = Verify(entries)]_vars

-----------------------------------------------------------------------------
(* Tampering with an exported copy of the chain *)

WithPayload(body, p) == Body(body.seq, p, body.prev)

\* One entry with another payload, its digest kept or computed anew.
Mutations(chain) ==
  {[chain EXCEPT ![i] = [body |-> WithPayload(chain[i].body, p), digest |-> d]] :
     i \in DOMAIN chain, p \in Payloads,
     d \in {chain[j].digest : j \in DOMAIN chain}}
  \cup {[chain EXCEPT ![i] = Entry(WithPayload(chain[i].body, p))] :
          i \in 1..(Len(chain) - 1), p \in Payloads}

Swaps(chain) ==
  {[k \in DOMAIN chain |-> IF k = i THEN chain[j] ELSE IF k = j THEN chain[i] ELSE chain[k]] :
     i, j \in DOMAIN chain}

Drops(chain) == {RemoveAt(chain, i) : i \in 1..(Len(chain) - 1)}

Injections(chain) ==
  {InsertAt(chain, i, e) :
     i \in DOMAIN chain,
     e \in {chain[j] : j \in DOMAIN chain}
           \cup {Entry(Body(j - 1, p, ChainHead(SubSeq(chain, 1, j - 1)))) :
                   j \in DOMAIN chain, p \in Payloads}}

\* Of a chain that verifies, every copy with one entry altered, two exchanged, one
\* dropped or one injected before the last is found divergent (docstring of
\* receipts.py).  The last entry may be dropped, or replaced whole, unnoticed.
TamperingDetected ==
  Verify(entries).state = "CONSISTENT" =>
    \A copy \in Mutations(entries) \cup Swaps(entries) \cup Drops(entries) \cup Injections(entries) :
      copy = entries \/ Verify(copy).state = "DIVERGENT"

=============================================================================
