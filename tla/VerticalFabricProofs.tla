-------------------------- MODULE VerticalFabricProofs --------------------------
(***************************************************************************)
(* Theorems about VerticalFabric, for every set of threads, catalogue,     *)
(* kernels and requests and chains of every length.                        *)
(***************************************************************************)
EXTENDS VerticalFabric, TLAPS

-----------------------------------------------------------------------------
(* Type correctness *)

LEMMA BecomesType ==
  ASSUME TypeOK, NEW c \in Callers, NEW e \in Evaluation, Becomes(c, e)
  PROVE  /\ evaluations' \in [Callers -> Evaluation]
         /\ evaluations'[c] = e
         /\ \A d \in Callers : d # c => evaluations'[d] = evaluations[d]
BY DEF TypeOK, Becomes

LEMMA InitType == Init => TypeOK
BY DEF Init, TypeOK, Evaluation

LEMMA DecideType == \A e : Decide(e) \in Decisions
BY DEF Decide, Decisions

\* The head of a chain is a hash.
LEMMA HeadType ==
  ASSUME NEW chain \in Seq(Receipt)
  PROVE  HeadHash(chain) \in Hash
<1>1. CASE chain = <<>>
  BY <1>1 DEF HeadHash, Hash
<1>2. CASE chain # <<>>
  <2>1. chain[Len(chain)] \in Receipt
    BY <1>2
  <2>. QED BY <1>2, <2>1 DEF HeadHash, Receipt
<1>. QED BY <1>1, <1>2

LEMMA NextReceiptType ==
  ASSUME NEW chain \in Seq(Receipt), NEW content \in Content
  PROVE  /\ NextReceipt(chain, content) \in Receipt
         /\ NextReceipt(chain, content).sequence = Len(chain)
         /\ NextReceipt(chain, content).previous = HeadHash(chain)
         /\ NextReceipt(chain, content).content = content
         /\ NextReceipt(chain, content).hash = Append(HeadHash(chain), content)
<1>1. HeadHash(chain) \in Hash /\ Append(HeadHash(chain), content) \in Hash
  BY HeadType DEF Hash
<1>2. Len(chain) \in Nat
  OBVIOUS
<1>. QED BY <1>1, <1>2 DEF NextReceipt, Receipt

LEMMA Appended ==
  ASSUME NEW S, NEW s \in Seq(S), NEW x \in S
  PROVE  /\ Append(s, x) \in Seq(S) /\ Len(s) \in Nat
         /\ Len(Append(s, x)) = Len(s) + 1 /\ DOMAIN Append(s, x) = 1 .. Len(s) + 1
         /\ \A i \in 1 .. Len(s) : Append(s, x)[i] = s[i]
         /\ Append(s, x)[Len(s) + 1] = x
OBVIOUS

Judging ==
  [stage : {"judging"}, request : Requests, proposal : ProposalStates, cited : BOOLEAN,
   left : SUBSET Kernels, outcomes : SUBSET Outcomes]

LEMMA StageType ==
  ASSUME TypeOK, NEW c \in Callers
  PROVE  /\ evaluations[c].stage = "proposing" => evaluations[c].request \in Requests
         /\ evaluations[c].stage = "judging" => evaluations[c] \in Judging
         /\ evaluations[c].stage = "done" =>
              evaluations[c].request \in Requests /\ evaluations[c].receipt \in Receipt
<1>1. evaluations[c] \in Evaluation
  BY DEF TypeOK
<1>. QED BY <1>1 DEF Evaluation, Judging

LEMMA ProposedType ==
  ASSUME NEW request \in Requests, NEW proposal \in ProposalStates, NEW cited \in BOOLEAN
  PROVE  /\ Proposed(request, proposal, cited) \in Evaluation
         /\ Proposed(request, proposal, cited).stage = "judging"
         /\ Proposed(request, proposal, cited).left = Kernels
BY DEF Proposed, Evaluation

\* A thread that becomes something takes one of five steps.
LEMMA ProposeOutcome ==
  ASSUME TypeOK, NEW c \in Callers, Propose(c)
  PROVE  /\ bound' = bound /\ chains' = chains
         /\ \E e \in Evaluation : Becomes(c, e) /\ e.stage = "judging" /\ e.left = Kernels
<1>1. evaluations[c].request \in Requests /\ evaluations[c].request \in Request
  BY StageType, FabricAssumption DEF Propose
<1> DEFINE request == evaluations[c].request
<1>2. \E proposal \in ProposalStates, cited \in BOOLEAN : Becomes(c, Proposed(request, proposal, cited))
  <2>1. request.proposal # "absent" => request.proposal \in ProposalStates
    BY <1>1 DEF Request, ProposalStates
  <2>. QED BY <2>1 DEF Propose, ProposalStates
<1>. QED BY <1>1, <1>2, ProposedType DEF Propose

LEMMA ConsultOutcome ==
  ASSUME TypeOK, NEW c \in Callers, Consult(c)
  PROVE  /\ bound' = bound /\ chains' = chains
         /\ evaluations[c] \in Judging
         /\ \E k \in Kernels, outcome \in Outcomes, e \in Evaluation :
              /\ Becomes(c, e) /\ e.stage = "judging"
              /\ e.left = evaluations[c].left \ {k}
              /\ e.outcomes = evaluations[c].outcomes \cup {outcome}
              /\ k \in bound \/ outcome = "unavailable"
<1>1. evaluations[c] \in Judging
  BY StageType DEF Consult
<1>2. PICK k \in Kernels, outcome \in Outcomes :
        Judged(c, k, outcome) /\ (k \in bound \/ outcome = "unavailable")
  BY <1>1 DEF Consult, Judging, Outcomes
<1> DEFINE e == [evaluations[c] EXCEPT !.left = evaluations[c].left \ {k},
                                       !.outcomes = evaluations[c].outcomes \cup {outcome}]
<1>3. /\ e \in Evaluation /\ e.stage = "judging"
      /\ e.left = evaluations[c].left \ {k} /\ e.outcomes = evaluations[c].outcomes \cup {outcome}
  BY <1>1 DEF Judging, Evaluation
<1>4. Becomes(c, e)
  BY <1>2 DEF Judged
<1>. HIDE DEF e
<1>. QED BY <1>1, <1>2, <1>3, <1>4 DEF Consult

Key(c) == <<evaluations[c].request.vertical, evaluations[c].request.session>>
Concluded(c) ==
  NextReceipt(chains[Key(c)],
              [caller |-> c, request |-> evaluations[c].request, decision |-> Decide(evaluations[c])])

LEMMA ConcludeOutcome ==
  ASSUME TypeOK, NEW c \in Callers, Conclude(c)
  PROVE  /\ bound' = bound
         /\ evaluations[c] \in Judging /\ evaluations[c].left = {}
         /\ Key(c) \in Verticals \X Sessions
         /\ Concluded(c) \in Receipt
         /\ Concluded(c).sequence = Len(chains[Key(c)])
         /\ Concluded(c).previous = HeadHash(chains[Key(c)])
         /\ Concluded(c).content =
              [caller |-> c, request |-> evaluations[c].request, decision |-> Decide(evaluations[c])]
         /\ Concluded(c).hash = Append(HeadHash(chains[Key(c)]), Concluded(c).content)
         /\ chains' = [chains EXCEPT ![Key(c)] = Append(@, Concluded(c))]
         /\ \E e \in Evaluation :
              /\ Becomes(c, e) /\ e.stage = "done"
              /\ e.request = evaluations[c].request /\ e.receipt = Concluded(c)
<1>1. evaluations[c] \in Judging
  BY StageType DEF Conclude
<1>2. /\ evaluations[c].request \in Requests
      /\ evaluations[c].request \in Request /\ Key(c) \in Verticals \X Sessions
  BY <1>1, FabricAssumption DEF Judging, Key, Request
<1> DEFINE content == [caller |-> c, request |-> evaluations[c].request, decision |-> Decide(evaluations[c])]
<1>3. content \in Content /\ chains[Key(c)] \in Seq(Receipt)
  BY <1>2, DecideType DEF Content, TypeOK
<1>4. Concluded(c) = NextReceipt(chains[Key(c)], content)
  BY DEF Concluded
<1>. HIDE DEF content
<1>5. /\ Concluded(c) \in Receipt
      /\ Concluded(c).sequence = Len(chains[Key(c)])
      /\ Concluded(c).previous = HeadHash(chains[Key(c)])
      /\ Concluded(c).content = content
      /\ Concluded(c).hash = Append(HeadHash(chains[Key(c)]), content)
  BY <1>3, <1>4, NextReceiptType
<1>6. [stage |-> "done", request |-> evaluations[c].request, receipt |-> Concluded(c)] \in Evaluation
  BY <1>2, <1>5 DEF Evaluation
<1>7. /\ bound' = bound /\ evaluations[c].left = {}
      /\ chains' = [chains EXCEPT ![Key(c)] = Append(@, Concluded(c))]
      /\ Becomes(c, [stage |-> "done", request |-> evaluations[c].request, receipt |-> Concluded(c)])
  BY DEF Conclude, Concluded, Key
<1>. QED BY <1>1, <1>2, <1>5, <1>6, <1>7 DEF content

LEMMA BeginErrOutcome ==
  ASSUME TypeOK, NEW c \in Callers, Begin(c) \/ Err(c)
  PROVE  /\ bound' = bound /\ chains' = chains
         /\ \E e \in Evaluation : Becomes(c, e) /\ e.stage \in {"proposing", "error"}
<1>1. CASE Begin(c)
  <2>1. PICK request \in Requests : Becomes(c, [stage |-> "proposing", request |-> request])
    BY <1>1 DEF Begin
  <2>2. [stage |-> "proposing", request |-> request] \in Evaluation
    BY DEF Evaluation
  <2>. QED BY <1>1, <2>1, <2>2 DEF Begin
<1>2. CASE Err(c)
  <2>1. [stage |-> "error"] \in Evaluation
    BY DEF Evaluation
  <2>. QED BY <1>2, <2>1 DEF Err
<1>. QED BY <1>1, <1>2

LEMMA RegisterOutcome ==
  ASSUME NEW a \in Kernels \cup {Model}, Register(a)
  PROVE  /\ bound' = bound \cup {a} /\ evaluations' = evaluations /\ chains' = chains
BY DEF Register

LEMMA NextType == TypeOK /\ [Next]_vars => TypeOK'
<1>. SUFFICES ASSUME TypeOK, [Next]_vars PROVE TypeOK'
  OBVIOUS
<1>1. ASSUME NEW a \in Kernels \cup {Model}, Register(a) PROVE TypeOK'
  BY <1>1, RegisterOutcome DEF TypeOK
<1>2. ASSUME NEW c \in Callers, Begin(c) \/ Err(c) PROVE TypeOK'
  BY <1>2, BeginErrOutcome, BecomesType DEF TypeOK
<1>3. ASSUME NEW c \in Callers, Propose(c) PROVE TypeOK'
  BY <1>3, ProposeOutcome, BecomesType DEF TypeOK
<1>4. ASSUME NEW c \in Callers, Consult(c) PROVE TypeOK'
  BY <1>4, ConsultOutcome, BecomesType DEF TypeOK
<1>5. ASSUME NEW c \in Callers, Conclude(c) PROVE TypeOK'
  <2>1. evaluations' \in [Callers -> Evaluation]
    BY <1>5, ConcludeOutcome, BecomesType
  <2>2. chains' \in [Verticals \X Sessions -> Seq(Receipt)]
    <3>1. Append(chains[Key(c)], Concluded(c)) \in Seq(Receipt)
      <4>1. chains[Key(c)] \in Seq(Receipt) /\ Concluded(c) \in Receipt
        BY <1>5, ConcludeOutcome DEF TypeOK
      <4>. QED BY <4>1, Appended
    <3>2. chains' = [chains EXCEPT ![Key(c)] = Append(chains[Key(c)], Concluded(c))]
      BY <1>5, ConcludeOutcome
    <3>. QED BY <3>1, <3>2 DEF TypeOK
  <2>. QED BY <1>5, <2>1, <2>2, ConcludeOutcome DEF TypeOK
<1>6. CASE UNCHANGED vars
  BY <1>6 DEF TypeOK, vars
<1>. QED BY <1>1, <1>2, <1>3, <1>4, <1>5, <1>6 DEF Next

\* Every reachable state is well typed.
THEOREM TypeCorrect == Spec => []TypeOK
BY InitType, NextType, PTL DEF Spec

-----------------------------------------------------------------------------
(* Every chain verifies and keeps what was answered *)

LEMMA VerifyAppend ==
  ASSUME NEW chain \in Seq(Receipt), Verify(chain), NEW r \in Receipt,
         r.sequence = Len(chain), r.previous = HeadHash(chain), r.hash = Append(r.previous, r.content)
  PROVE  Verify(Append(chain, r))
<1> DEFINE new == Append(chain, r)
<1>1. /\ Len(new) = Len(chain) + 1 /\ DOMAIN new = 1 .. Len(new) /\ Len(chain) \in Nat
      /\ \A i \in 1 .. Len(chain) : new[i] = chain[i]
      /\ new[Len(chain) + 1] = r
  BY Appended
<1>2. ASSUME NEW i \in 1 .. Len(chain)
      PROVE  /\ new[i].sequence = i - 1
             /\ new[i].previous = IF i = 1 THEN <<>> ELSE new[i - 1].hash
             /\ new[i].hash = Append(new[i].previous, new[i].content)
  <2>1. new[i] = chain[i] /\ (i # 1 => new[i - 1] = chain[i - 1])
    BY <1>1
  <2>. QED BY <2>1 DEF Verify
<1>3. HeadHash(chain) = IF Len(chain) = 0 THEN <<>> ELSE chain[Len(chain)].hash
  BY DEF HeadHash
<1>4. r.previous = IF Len(chain) + 1 = 1 THEN <<>> ELSE new[Len(chain)].hash
  BY <1>1, <1>3
<1>. HIDE DEF new
<1>5. ASSUME NEW i \in DOMAIN new
      PROVE  /\ new[i].sequence = i - 1
             /\ new[i].previous = IF i = 1 THEN <<>> ELSE new[i - 1].hash
             /\ new[i].hash = Append(new[i].previous, new[i].content)
  <2>1. CASE i \in 1 .. Len(chain)
    BY <1>2, <2>1
  <2>2. CASE i = Len(chain) + 1
    <3>1. new[i] = r /\ i - 1 = Len(chain)
      BY <1>1, <2>2
    <3>. QED BY <1>4, <2>2, <3>1
  <2>. QED BY <1>1, <2>1, <2>2
<1>6. Verify(new)
  BY <1>5 DEF Verify
<1>. QED BY <1>6 DEF new

ChainInv == TypeOK /\ ChainsVerify /\ AnsweredIsChained

\* A step that appends nothing leaves what holds of the chains, unless it answers.
LEMMA QuietStep ==
  ASSUME ChainInv, chains' = chains, NEW c \in Callers, NEW e, e.stage # "done", Becomes(c, e)
  PROVE  ChainsVerify' /\ AnsweredIsChained'
<1>1. evaluations'[c] = e /\ \A d \in Callers : d # c => evaluations'[d] = evaluations[d]
  BY DEF ChainInv, TypeOK, Becomes
<1>. QED BY <1>1 DEF ChainInv, ChainsVerify, AnsweredIsChained

LEMMA ConcludeChains ==
  ASSUME ChainInv, NEW c \in Callers, Conclude(c)
  PROVE  ChainsVerify' /\ AnsweredIsChained'
<1> DEFINE key == Key(c)
           r == Concluded(c)
           chain == chains[key]
<1>1. /\ key \in Verticals \X Sessions /\ r \in Receipt
      /\ r.sequence = Len(chain) /\ r.previous = HeadHash(chain)
      /\ r.hash = Append(HeadHash(chain), r.content)
      /\ chains' = [chains EXCEPT ![key] = Append(chain, r)]
  BY ConcludeOutcome DEF ChainInv
<1>2. chains \in [Verticals \X Sessions -> Seq(Receipt)]
  BY DEF ChainInv, TypeOK
<1>3. /\ chains'[key] = Append(chain, r)
      /\ \A k \in Verticals \X Sessions : k # key => chains'[k] = chains[k]
      /\ DOMAIN chains' = Verticals \X Sessions /\ DOMAIN chains = Verticals \X Sessions
  BY <1>1, <1>2
<1>4. chain \in Seq(Receipt) /\ Verify(chain)
  BY <1>1, <1>2 DEF ChainInv, ChainsVerify
<1>5. PICK e \in Evaluation :
        Becomes(c, e) /\ e.stage = "done" /\ e.request = evaluations[c].request /\ e.receipt = r
  BY ConcludeOutcome DEF ChainInv
<1>. HIDE DEF r, chain
<1>6. Verify(Append(chain, r))
  BY <1>1, <1>4, VerifyAppend
<1>7. ChainsVerify'
  <2>1. \A k \in Verticals \X Sessions : Verify(chains'[k])
    BY <1>3, <1>6 DEF ChainInv, ChainsVerify
  <2>. QED BY <1>3, <2>1 DEF ChainsVerify, Verify
<1>8. \A d \in Callers : evaluations'[d] = IF d = c THEN e ELSE evaluations[d]
  BY <1>5 DEF ChainInv, TypeOK, Becomes
<1>9. ASSUME NEW d \in Callers, evaluations'[d].stage = "done"
      PROVE  LET request == evaluations'[d].request
                 receipt == evaluations'[d].receipt
                 its == chains'[<<request.vertical, request.session>>]
             IN receipt.sequence < Len(its) /\ its[receipt.sequence + 1] = receipt
  <2>1. CASE d = c
    <3>1. evaluations'[d].receipt = r /\ evaluations'[d].request = evaluations[c].request
      BY <1>5, <1>8, <2>1
    <3>2. <<evaluations'[d].request.vertical, evaluations'[d].request.session>> = key
      BY <3>1 DEF Key
    <3>3. Len(Append(chain, r)) = Len(chain) + 1 /\ Append(chain, r)[Len(chain) + 1] = r /\ Len(chain) \in Nat
      BY <1>4
    <3>. QED BY <1>1, <1>3, <3>1, <3>2, <3>3
  <2>2. CASE d # c
    <3>1. evaluations'[d] = evaluations[d]
      BY <1>8, <2>2
    <3> DEFINE k == <<evaluations[d].request.vertical, evaluations[d].request.session>>
               receipt == evaluations[d].receipt
    <3>2. receipt \in Receipt /\ k \in Verticals \X Sessions
      <4>1. evaluations[d].request \in Requests /\ receipt \in Receipt
        BY <1>9, <3>1, StageType DEF ChainInv
      <4>. QED BY <4>1, FabricAssumption DEF Request
    <3>3. receipt.sequence < Len(chains[k]) /\ chains[k][receipt.sequence + 1] = receipt
      BY <1>9, <3>1 DEF ChainInv, AnsweredIsChained
    <3>4. receipt.sequence \in Nat /\ chains[k] \in Seq(Receipt)
      BY <1>2, <3>2 DEF Receipt
    <3>5. receipt.sequence < Len(chains'[k]) /\ chains'[k][receipt.sequence + 1] = receipt
      <4>1. CASE k = key
        <5>1. /\ Len(chain) \in Nat /\ Len(Append(chain, r)) = Len(chain) + 1
              /\ \A i \in 1 .. Len(chain) : Append(chain, r)[i] = chain[i]
          BY <1>1, <1>4, Appended DEF r
        <5>2. receipt.sequence < Len(chain) /\ chain[receipt.sequence + 1] = receipt
          BY <3>3, <4>1 DEF chain
        <5>3. receipt.sequence + 1 \in 1 .. Len(chain)
          BY <3>4, <5>1, <5>2
        <5>4. chains'[k] = Append(chain, r)
          BY <1>3, <4>1
        <5>. HIDE DEF k, receipt
        <5>. QED BY <3>4, <5>1, <5>2, <5>3, <5>4
      <4>2. CASE k # key
        BY <1>3, <3>2, <3>3, <4>2
      <4>. QED BY <4>1, <4>2
    <3>. QED BY <3>1, <3>5
  <2>. QED BY <2>1, <2>2
<1>10. AnsweredIsChained'
  BY <1>9 DEF AnsweredIsChained
<1>. QED BY <1>7, <1>10

LEMMA ChainInvariance == Spec => []ChainInv
<1>1. Init => ChainInv
  BY InitType DEF ChainInv, Init, ChainsVerify, Verify, AnsweredIsChained
<1>2. ChainInv /\ [Next]_vars => ChainInv'
  <2>. SUFFICES ASSUME ChainInv, [Next]_vars PROVE ChainInv'
    OBVIOUS
  <2>1. TypeOK'
    BY NextType DEF ChainInv
  <2>2. ASSUME NEW a \in Kernels \cup {Model}, Register(a) PROVE ChainsVerify' /\ AnsweredIsChained'
    BY <2>2, RegisterOutcome DEF ChainInv, ChainsVerify, AnsweredIsChained
  <2>3. ASSUME NEW c \in Callers, Begin(c) \/ Err(c) PROVE ChainsVerify' /\ AnsweredIsChained'
    BY <2>3, BeginErrOutcome, QuietStep DEF ChainInv
  <2>4. ASSUME NEW c \in Callers, Propose(c) PROVE ChainsVerify' /\ AnsweredIsChained'
    BY <2>4, ProposeOutcome, QuietStep DEF ChainInv
  <2>5. ASSUME NEW c \in Callers, Consult(c) PROVE ChainsVerify' /\ AnsweredIsChained'
    BY <2>5, ConsultOutcome, QuietStep DEF ChainInv
  <2>6. ASSUME NEW c \in Callers, Conclude(c) PROVE ChainsVerify' /\ AnsweredIsChained'
    BY <2>6, ConcludeChains
  <2>7. CASE UNCHANGED vars
    <3>1. chains' = chains /\ evaluations' = evaluations
      BY <2>7 DEF vars
    <3>2. ChainsVerify'
      BY <3>1 DEF ChainInv, ChainsVerify
    <3>3. AnsweredIsChained'
      BY <3>1 DEF ChainInv, AnsweredIsChained
    <3>. QED BY <2>1, <3>2, <3>3 DEF ChainInv
  <2>. QED BY <2>1, <2>2, <2>3, <2>4, <2>5, <2>6, <2>7 DEF Next, ChainInv
<1>. QED BY <1>1, <1>2, PTL DEF Spec

-----------------------------------------------------------------------------
(* An altered copy of a chain does not verify, or has another head *)

LEMMA AppendInjective ==
  ASSUME NEW S, NEW s \in Seq(S), NEW x \in S, NEW y \in S, Append(s, x) = Append(s, y)
  PROVE  x = y
<1>1. Append(s, x)[Len(s) + 1] = x /\ Append(s, y)[Len(s) + 1] = y
  BY Appended
<1>. QED BY <1>1

\* What a chain that verifies says of its receipt at i.
LEMMA VerifiedAt ==
  ASSUME NEW chain \in Seq(Receipt), Verify(chain), NEW i \in DOMAIN chain
  PROVE  /\ chain[i] \in Receipt
         /\ chain[i].sequence = i - 1
         /\ chain[i].previous = IF i = 1 THEN <<>> ELSE chain[i - 1].hash
         /\ chain[i].hash = Append(chain[i].previous, chain[i].content)
         /\ i \in 1 .. Len(chain) /\ Len(chain) \in Nat
<1>1. chain[i] \in Receipt /\ i \in 1 .. Len(chain) /\ Len(chain) \in Nat
  OBVIOUS
<1>. QED BY <1>1 DEF Verify

LEMMA HeadOf ==
  ASSUME NEW chain \in Seq(Receipt), Len(chain) # 0
  PROVE  HeadHash(chain) = chain[Len(chain)].hash
BY DEF HeadHash

\* One receipt left out.
LEMMA RemovalDetected ==
  ASSUME NEW chain \in Seq(Receipt), Verify(chain), NEW i \in DOMAIN chain,
         Verify(RemoveAt(chain, i))
  PROVE  HeadHash(RemoveAt(chain, i)) # HeadHash(chain)
<1> DEFINE other == RemoveAt(chain, i)
           n == Len(chain)
<1>1. n \in Nat /\ i \in 1 .. n /\ DOMAIN chain = 1 .. n
  OBVIOUS
<1>2. /\ other \in Seq(Receipt) /\ Len(other) = n - 1 /\ DOMAIN other = 1 .. n - 1
      /\ \A j \in 1 .. n - 1 : other[j] = IF j < i THEN chain[j] ELSE chain[j + 1]
  <2> DEFINE before == SubSeq(chain, 1, i - 1)
             after == SubSeq(chain, i + 1, n)
  <2>1. /\ before \in Seq(Receipt) /\ Len(before) = i - 1
        /\ \A j \in 1 .. i - 1 : before[j] = chain[j]
    BY <1>1
  <2>2. /\ after \in Seq(Receipt) /\ Len(after) = n - i
        /\ \A j \in 1 .. n - i : after[j] = chain[i + j]
    BY <1>1
  <2>3. other = before \o after
    BY DEF RemoveAt
  <2>. HIDE DEF before, after, other, n
  <2>4. other \in Seq(Receipt) /\ Len(other) = n - 1 /\ DOMAIN other = 1 .. n - 1
    BY <1>1, <2>1, <2>2, <2>3
  <2>5. ASSUME NEW j \in 1 .. n - 1 PROVE other[j] = IF j < i THEN chain[j] ELSE chain[j + 1]
    <3>1. CASE j < i
      BY <1>1, <2>1, <2>2, <2>3, <3>1
    <3>2. CASE ~(j < i)
      <4>1. j - (i - 1) \in 1 .. n - i /\ i + (j - (i - 1)) = j + 1
        BY <1>1, <3>2
      <4>2. other[j] = after[j - (i - 1)]
        BY <1>1, <2>1, <2>2, <2>3, <3>2, <4>1, SMTT(30)
      <4>. QED BY <2>2, <3>2, <4>1, <4>2
    <3>. QED BY <3>1, <3>2
  <2>. QED BY <2>4, <2>5
<1>3. Verify(other)
  OBVIOUS
<1>. HIDE DEF other
<1>4. CASE i < n
  <2>1. i \in DOMAIN other /\ other[i] = chain[i + 1] /\ i + 1 \in DOMAIN chain
    BY <1>1, <1>2, <1>4
  <2>2. other[i].sequence = i - 1 /\ chain[i + 1].sequence = i + 1 - 1
    BY <1>3, <2>1 DEF Verify
  <2>. QED BY <1>1, <2>1, <2>2
<1>5. CASE i = n
  <2>1. n \in DOMAIN chain /\ HeadHash(chain) = chain[n].hash
    BY <1>1, <1>5, HeadOf
  <2>2. chain[n].hash = Append(chain[n].previous, chain[n].content) /\ chain[n] \in Receipt
    BY <2>1, VerifiedAt
  <2>3. chain[n].previous = HeadHash(other)
    <3>1. chain[n].previous = IF n = 1 THEN <<>> ELSE chain[n - 1].hash
      BY <2>1, VerifiedAt
    <3>2. CASE n = 1
      BY <1>2, <3>1, <3>2 DEF HeadHash
    <3>3. CASE n # 1
      <4>1. other # <<>> /\ other[n - 1] = chain[n - 1]
        BY <1>1, <1>2, <1>5, <3>3
      <4>. QED BY <1>2, <3>1, <3>3, <4>1 DEF HeadHash
    <3>. QED BY <3>2, <3>3
  <2>4. HeadHash(other) \in Seq(Content) /\ chain[n].content \in Content
    BY <2>2, <2>3 DEF Receipt, Hash
  <2>5. Len(HeadHash(chain)) = Len(HeadHash(other)) + 1 /\ Len(HeadHash(other)) \in Nat
    BY <2>1, <2>2, <2>3, <2>4, Appended
  <2>6. HeadHash(other) # HeadHash(chain)
    BY <2>5
  <2>. QED BY <2>6 DEF other
<1>. QED BY <1>1, <1>4, <1>5

\* A receipt in the place of another.
LEMMA MisplacedDetected ==
  ASSUME NEW chain \in Seq(Receipt), Verify(chain), NEW other,
         DOMAIN other = DOMAIN chain, NEW i \in DOMAIN chain, NEW j \in DOMAIN chain,
         i # j, other[i] = chain[j]
  PROVE  ~Verify(other)
<1>1. chain[j].sequence = j - 1 /\ i \in Int /\ j \in Int
  BY VerifiedAt
<1>2. SUFFICES ASSUME Verify(other) PROVE FALSE
  OBVIOUS
<1>3. other[i].sequence = i - 1
  BY <1>2 DEF Verify
<1>. QED BY <1>1, <1>3

\* The content of one receipt changed, and its hash recomputed or not.
LEMMA RewriteDetected ==
  ASSUME NEW chain \in Seq(Receipt), Verify(chain), NEW i \in DOMAIN chain,
         NEW r \in Receipt, r # chain[i],
         r.sequence = chain[i].sequence, r.previous = chain[i].previous,
         r.hash = chain[i].hash \/ r.hash = Append(chain[i].previous, r.content),
         NEW other, other = [chain EXCEPT ![i] = r],
         Verify(other)
  PROVE  HeadHash(other) # HeadHash(chain)
<1> DEFINE n == Len(chain)
<1>1. /\ n \in Nat /\ i \in 1 .. n /\ DOMAIN chain = 1 .. n
      /\ chain[i] \in Receipt /\ chain[i].hash = Append(chain[i].previous, chain[i].content)
  BY VerifiedAt
<1>2. /\ DOMAIN other = 1 .. n /\ other[i] = r
      /\ \A j \in 1 .. n : j # i => other[j] = chain[j]
      /\ other \in Seq(Receipt) /\ Len(other) = n
  BY <1>1
<1>3. r.hash = Append(chain[i].previous, r.content)
  BY <1>1, <1>2 DEF Verify
<1>4. r.hash # chain[i].hash
  <2>1. SUFFICES ASSUME r.hash = chain[i].hash PROVE FALSE
    OBVIOUS
  <2>2. chain[i].previous \in Seq(Content) /\ r.content \in Content /\ chain[i].content \in Content
    BY <1>1 DEF Receipt, Hash
  <2>3. Append(chain[i].previous, r.content) = Append(chain[i].previous, chain[i].content)
    BY <1>1, <1>3, <2>1
  <2>4. r.content = chain[i].content
    BY <2>2, <2>3, AppendInjective
  <2>5. /\ r = [sequence |-> r.sequence, previous |-> r.previous, content |-> r.content, hash |-> r.hash]
        /\ chain[i] = [sequence |-> chain[i].sequence, previous |-> chain[i].previous,
                       content |-> chain[i].content, hash |-> chain[i].hash]
    BY <1>1 DEF Receipt
  <2>. QED BY <2>1, <2>4, <2>5
<1>5. CASE i = n
  <2>1. HeadHash(chain) = chain[n].hash
    BY <1>1, HeadOf
  <2>2. HeadHash(other) = other[n].hash
    <3>1. other \in Seq(Receipt) /\ Len(other) = n /\ n # 0
      BY <1>1, <1>2
    <3>. QED BY <3>1, HeadOf
  <2>. QED BY <1>2, <1>4, <1>5, <2>1, <2>2
<1>6. CASE i # n
  <2>1. i + 1 \in 1 .. n /\ i + 1 # i /\ i + 1 # 1 /\ i + 1 - 1 = i
    BY <1>1, <1>6
  <2>2. other[i + 1].previous = other[i].hash /\ chain[i + 1].previous = chain[i].hash
    BY <1>1, <1>2, <2>1, SMTT(30) DEF Verify
  <2>. QED BY <1>2, <1>4, <2>1, <2>2
<1>. QED BY <1>5, <1>6

LEMMA AlteredDetected ==
  ASSUME NEW chain \in Seq(Receipt), Verify(chain)
  PROVE  DetectedAll(chain)
<1>1. ASSUME NEW i \in DOMAIN chain PROVE Detected(chain, RemoveAt(chain, i))
  BY <1>1, RemovalDetected DEF Detected
<1>2. ASSUME NEW i \in DOMAIN chain, NEW j \in DOMAIN chain, NEW other,
             \/ other = [chain EXCEPT ![i] = chain[j], ![j] = chain[i]]
             \/ other = [chain EXCEPT ![i] = chain[j]]
      PROVE  Detected(chain, other)
  <2>. SUFFICES ASSUME other # chain PROVE ~Verify(other)
    BY DEF Detected
  <2>1. DOMAIN other = DOMAIN chain /\ other[i] = chain[j]
    BY <1>2
  <2>2. i # j
    BY <1>2
  <2>. QED BY <2>1, <2>2, MisplacedDetected
<1>3. ASSUME NEW i \in DOMAIN chain, NEW content \in Content, NEW r,
             \/ r = [chain[i] EXCEPT !.content = content]
             \/ r = [chain[i] EXCEPT !.content = content, !.hash = Append(chain[i].previous, content)]
      PROVE  Detected(chain, [chain EXCEPT ![i] = r])
  <2> DEFINE other == [chain EXCEPT ![i] = r]
  <2>1. chain[i] \in Receipt
    OBVIOUS
  <2>2. Append(chain[i].previous, content) \in Hash
    BY <2>1 DEF Receipt, Hash
  <2>3. /\ r \in Receipt /\ r.sequence = chain[i].sequence /\ r.previous = chain[i].previous
        /\ r.hash = chain[i].hash \/ r.hash = Append(chain[i].previous, r.content)
    BY <1>3, <2>1, <2>2 DEF Receipt
  <2>4. other # chain => r # chain[i]
    OBVIOUS
  <2>. QED BY <2>3, <2>4, RewriteDetected DEF Detected
<1>4. ASSUME NEW i \in DOMAIN chain, NEW d \in Decisions
      PROVE  [chain[i].content EXCEPT !.decision = d] \in Content
  <2>1. chain[i] \in Receipt
    OBVIOUS
  <2>. QED BY <2>1 DEF Receipt, Content
<1>. QED BY <1>1, <1>2, <1>3, <1>4 DEF DetectedAll

\* The chains verify however the threads append, hold every receipt that was
\* answered, and are told from their altered copies (receipts.py, verify_receipts):
\* for chains of every length, any number of threads and every catalogue.
THEOREM ChainsStandAlways == Spec => []ChainsStand
<1>1. ChainInv => ChainsStand
  <2>. SUFFICES ASSUME ChainInv PROVE ChainsStand
    OBVIOUS
  <2>1. ASSUME NEW k \in DOMAIN chains PROVE DetectedAll(chains[k])
    <3>1. chains[k] \in Seq(Receipt) /\ Verify(chains[k])
      BY DEF ChainInv, TypeOK, ChainsVerify
    <3>. QED BY <3>1, AlteredDetected
  <2>. QED BY <2>1 DEF ChainInv, ChainsStand, TamperingDetected
<1>. QED BY <1>1, ChainInvariance, PTL

-----------------------------------------------------------------------------
(* What is allowed was judged by every kernel, bound *)

PermitOf(r) ==
  r.content.decision = "ALLOW" =>
    LET request == r.content.request IN
    /\ Strict => Kernels \subseteq bound
    /\ request.bind = "allow"
    /\ Catalog[request.vertical].mode = "READ_ONLY" => request.effect = "blank"

\* Without an outcome "unavailable" every kernel that was consulted is bound, and
\* stays so: nothing is unregistered.
ConsultedIsBound(e) ==
  e.stage = "judging" /\ "unavailable" \notin e.outcomes => Kernels \ e.left \subseteq bound

PermitInv == TypeOK /\ AllowedIsBound /\ \A c \in Callers : ConsultedIsBound(evaluations[c])

LEMMA AllowedForms ==
  AllowedIsBound <=> \A k \in DOMAIN chains : \A i \in DOMAIN chains[k] : PermitOf(chains[k][i])
BY DEF AllowedIsBound, Receipts, PermitOf

\* The ladder allows only what the property says.
LEMMA LadderPermits ==
  ASSUME PermitInv, NEW c \in Callers, Conclude(c)
  PROVE  PermitOf(Concluded(c))
<1> DEFINE e == evaluations[c]
<1>1. /\ e \in Judging /\ e.left = {} /\ Concluded(c).content.decision = Decide(e)
      /\ Concluded(c).content.request = e.request
  <2>1. /\ e \in Judging /\ e.left = {}
        /\ Concluded(c).content = [caller |-> c, request |-> e.request, decision |-> Decide(e)]
    BY ConcludeOutcome DEF PermitInv
  <2>. QED BY <2>1
<1>2. e.request \in Request /\ e.stage = "judging"
  BY <1>1, FabricAssumption DEF Judging
<1>3. SUFFICES ASSUME Decide(e) = "ALLOW"
      PROVE  /\ Strict => Kernels \subseteq bound
             /\ e.request.bind = "allow"
             /\ Catalog[e.request.vertical].mode = "READ_ONLY" => e.request.effect = "blank"
  BY <1>1 DEF PermitOf
<1>4. ~BlockingFailure(e) /\ Effect(e.request) /\ e.request.bind = "allow"
      /\ ~(Strict /\ "unavailable" \in e.outcomes)
  BY <1>3 DEF Decide
<1>5. Strict => Kernels \subseteq bound
  <2>1. ConsultedIsBound(e)
    BY DEF PermitInv
  <2>. QED BY <1>1, <1>2, <1>4, <2>1 DEF ConsultedIsBound
<1>6. Catalog[e.request.vertical].mode = "READ_ONLY" => e.request.effect = "blank"
  <2>1. ~Prohibited(e.request)
    BY <1>4 DEF BlockingFailure
  <2>. QED BY <1>2, <1>4, <2>1 DEF Prohibited, Effect, Request, Effects
<1>. QED BY <1>4, <1>5, <1>6

\* bound only grows, so what was permitted stays so.
LEMMA PermitsStay ==
  ASSUME PermitInv, chains' = chains, bound \subseteq bound'
  PROVE  AllowedIsBound'
<1>1. \A k \in DOMAIN chains : \A i \in DOMAIN chains[k] : PermitOf(chains[k][i])
  BY AllowedForms DEF PermitInv
<1>2. \A k \in DOMAIN chains : \A i \in DOMAIN chains[k] : PermitOf(chains[k][i])'
  BY <1>1 DEF PermitOf
<1>. QED BY <1>2 DEF AllowedIsBound, Receipts, PermitOf

LEMMA OthersConsulted ==
  ASSUME PermitInv, bound' = bound, NEW c \in Callers, NEW e, Becomes(c, e), ConsultedIsBound(e)
  PROVE  \A d \in Callers : ConsultedIsBound(evaluations[d])'
<1>1. \A d \in Callers : evaluations'[d] = IF d = c THEN e ELSE evaluations[d]
  BY DEF PermitInv, TypeOK, Becomes
<1>. QED BY <1>1 DEF PermitInv, ConsultedIsBound

LEMMA ConcludePermits ==
  ASSUME PermitInv, NEW c \in Callers, Conclude(c)
  PROVE  AllowedIsBound'
<1> DEFINE key == Key(c)
           r == Concluded(c)
           chain == chains[key]
<1>1. /\ key \in Verticals \X Sessions /\ r \in Receipt /\ bound' = bound
      /\ chains' = [chains EXCEPT ![key] = Append(chain, r)]
      /\ chains \in [Verticals \X Sessions -> Seq(Receipt)] /\ chain \in Seq(Receipt)
  BY ConcludeOutcome DEF PermitInv, TypeOK
<1>2. PermitOf(r)
  BY LadderPermits
<1>3. \A k \in DOMAIN chains : \A i \in DOMAIN chains[k] : PermitOf(chains[k][i])
  BY AllowedForms DEF PermitInv
<1>4. ASSUME NEW k \in DOMAIN chains', NEW i \in DOMAIN chains'[k]
      PROVE  PermitOf(chains'[k][i])
  <2>1. k \in DOMAIN chains
    BY <1>1
  <2>2. CASE k # key
    <3>1. chains'[k] = chains[k]
      BY <1>1, <2>1, <2>2
    <3>. QED BY <1>3, <2>1, <3>1
  <2>3. CASE k = key
    <3>1. chains'[k] = Append(chain, r)
      BY <1>1, <2>1, <2>3
    <3>. HIDE DEF r
    <3>2. CASE i \in 1 .. Len(chain)
      <4>1. Append(chain, r)[i] = chain[i] /\ i \in DOMAIN chain
        BY <1>1, <3>2, Appended
      <4>. QED BY <1>3, <2>1, <2>3, <3>1, <4>1
    <3>3. CASE i = Len(chain) + 1
      <4>1. Append(chain, r)[i] = r
        BY <1>1, <3>3, Appended
      <4>. QED BY <1>2, <3>1, <4>1
    <3>4. DOMAIN Append(chain, r) = 1 .. Len(chain) + 1 /\ Len(chain) \in Nat
      BY <1>1, Appended
    <3>. QED BY <3>1, <3>2, <3>3, <3>4
  <2>. QED BY <2>2, <2>3
<1>. QED BY <1>1, <1>4 DEF AllowedIsBound, Receipts, PermitOf

LEMMA PermitInvariance == Spec => []PermitInv
<1>1. Init => PermitInv
  BY InitType DEF PermitInv, Init, AllowedIsBound, Receipts, ConsultedIsBound
<1>2. PermitInv /\ [Next]_vars => PermitInv'
  <2>. SUFFICES ASSUME PermitInv, [Next]_vars PROVE PermitInv'
    OBVIOUS
  <2> DEFINE Consulted == \A d \in Callers : ConsultedIsBound(evaluations[d])
  <2>1. TypeOK'
    BY NextType DEF PermitInv
  <2>2. ASSUME NEW a \in Kernels \cup {Model}, Register(a) PROVE AllowedIsBound' /\ Consulted'
    <3>1. bound' = bound \cup {a} /\ evaluations' = evaluations /\ chains' = chains
      BY <2>2, RegisterOutcome
    <3>2. Consulted'
      BY <3>1 DEF PermitInv, ConsultedIsBound
    <3>. QED BY <3>1, <3>2, PermitsStay
  <2>3. ASSUME NEW c \in Callers, Begin(c) \/ Err(c) PROVE AllowedIsBound' /\ Consulted'
    <3>1. PICK e \in Evaluation : Becomes(c, e) /\ e.stage \in {"proposing", "error"}
      BY <2>3, BeginErrOutcome DEF PermitInv
    <3>2. ConsultedIsBound(e)
      BY <3>1 DEF ConsultedIsBound
    <3>. QED BY <2>3, <3>1, <3>2, BeginErrOutcome, OthersConsulted, PermitsStay DEF PermitInv
  <2>4. ASSUME NEW c \in Callers, Propose(c) PROVE AllowedIsBound' /\ Consulted'
    <3>1. PICK e \in Evaluation : Becomes(c, e) /\ e.left = Kernels
      BY <2>4, ProposeOutcome DEF PermitInv
    <3>2. ConsultedIsBound(e)
      BY <3>1 DEF ConsultedIsBound
    <3>. QED BY <2>4, <3>1, <3>2, ProposeOutcome, OthersConsulted, PermitsStay DEF PermitInv
  <2>5. ASSUME NEW c \in Callers, Consult(c) PROVE AllowedIsBound' /\ Consulted'
    <3>1. PICK k \in Kernels, outcome \in Outcomes, e \in Evaluation :
            /\ Becomes(c, e) /\ e.stage = "judging"
            /\ e.left = evaluations[c].left \ {k}
            /\ e.outcomes = evaluations[c].outcomes \cup {outcome}
            /\ k \in bound \/ outcome = "unavailable"
      BY <2>5, ConsultOutcome DEF PermitInv
    <3>2. ConsultedIsBound(evaluations[c]) /\ evaluations[c].stage = "judging"
      BY <2>5, ConsultOutcome DEF PermitInv, Judging
    <3>3. ConsultedIsBound(e)
      BY <3>1, <3>2 DEF ConsultedIsBound
    <3>. QED BY <2>5, <3>1, <3>3, ConsultOutcome, OthersConsulted, PermitsStay DEF PermitInv
  <2>6. ASSUME NEW c \in Callers, Conclude(c) PROVE AllowedIsBound' /\ Consulted'
    <3>1. PICK e \in Evaluation : Becomes(c, e) /\ e.stage = "done"
      BY <2>6, ConcludeOutcome DEF PermitInv
    <3>2. ConsultedIsBound(e)
      BY <3>1 DEF ConsultedIsBound
    <3>. QED BY <2>6, <3>1, <3>2, ConcludeOutcome, ConcludePermits, OthersConsulted DEF PermitInv
  <2>7. ASSUME UNCHANGED vars PROVE AllowedIsBound' /\ Consulted'
    <3>1. bound' = bound /\ evaluations' = evaluations /\ chains' = chains
      BY <2>7 DEF vars
    <3>2. Consulted'
      BY <3>1 DEF PermitInv, ConsultedIsBound
    <3>3. AllowedIsBound'
      BY <3>1, PermitsStay
    <3>. QED BY <3>2, <3>3
  <2>8. AllowedIsBound' /\ Consulted'
    BY <2>2, <2>3, <2>4, <2>5, <2>6, <2>7 DEF Next
  <2>. QED BY <2>1, <2>8 DEF PermitInv
<1>. QED BY <1>1, <1>2, PTL DEF Spec

\* With the strict gate no effect is allowed before every kernel is bound, although
\* evaluations look kernels up one by one while others register (engine.py,
\* evaluate), and none without a human's leave or on a read-only vertical.
THEOREM AllowedStaysBound == Spec => []AllowedIsBound
<1>1. PermitInv => AllowedIsBound
  BY DEF PermitInv
<1>. QED BY <1>1, PermitInvariance, PTL

=============================================================================
