---------------------------- MODULE VerticalFabric ----------------------------
(***************************************************************************)
(* VerticalFabric.evaluate (frontier_fabric/engine.py): a model proposes,  *)
(* kernels judge, a human binds, a ladder of conditions decides, and the   *)
(* decision is appended to the receipt chain of its vertical and session   *)
(* (receipts.py).                                                          *)
(*                                                                         *)
(* Evaluations run in the threads of a server.  Adapters are consulted one *)
(* by one without the lock, so others may be registered meanwhile; only    *)
(* the append is done under it.  Chains live as long as the process.       *)
(***************************************************************************)
EXTENDS Integers, Sequences, SequencesExt

CONSTANTS
  Callers,   \* threads that evaluate
  Catalog,   \* for each vertical: its effect mode, whether effects need a human
             \* binding, and whether its effects are a closed list (killinchu)
  Sessions,
  Kernels,   \* the declared kernels of every vertical
  Strict,    \* require_bound_kernels_for_effects
  Requests,  \* the requests that are evaluated
  MaxChain   \* bound on the receipts of a chain

Modes == {"READ_ONLY", "ADVISORY_ONLY", "SIMULATED_ONLY", "HUMAN_BOUND"}

Verticals == DOMAIN Catalog

\* What requested_effect may be: absent, white space only, an export of a report,
\* an action no token names, or one that names a prohibited token.
Effects == {"none", "blank", "export", "execution", "prohibited"}

\* bounded: the payload is in its bounds and the sources are declared.
Request == [vertical : Verticals, session : Sessions, effect : Effects,
            bind : {"absent", "incomplete", "allow", "deny"},
            proposal : {"absent", "advisory", "unavailable"}, bounded : BOOLEAN]

ASSUME FabricAssumption ==
  /\ Catalog \in [Verticals -> [mode : Modes, bind : BOOLEAN, closed : BOOLEAN]]
  /\ Strict \in BOOLEAN
  /\ Requests \subseteq Request
  /\ MaxChain \in Nat

Model == "model"  \* the first model of the vertical that is bound

VARIABLES
  bound,        \* the adapters registered
  evaluations,  \* what each thread is doing
  chains        \* for each vertical and session, its receipts

vars == <<bound, evaluations, chains>>

Decisions == {"ALLOW", "HOLD", "DENY"}

\* The hash of a receipt commits to its content and to the receipt before it, so
\* it stands for the contents of the whole chain up to it.
Content == [caller : Callers, request : Request, decision : Decisions]
Hash == Seq(Content)
Receipt == [sequence : Nat, previous : Hash, content : Content, hash : Hash]

Outcomes == {"passed", "advised", "blocked", "unavailable"}
ProposalStates == {"advisory", "unavailable"}

Evaluation ==
  [stage : {"idle", "error"}]
  \cup [stage : {"proposing"}, request : Requests]
  \cup [stage : {"judging"}, request : Requests, proposal : ProposalStates, cited : BOOLEAN,
        left : SUBSET Kernels, outcomes : SUBSET Outcomes]
  \cup [stage : {"done"}, request : Requests, receipt : Receipt]

TypeOK ==
  /\ bound \subseteq Kernels \cup {Model}
  /\ evaluations \in [Callers -> Evaluation]
  /\ chains \in [Verticals \X Sessions -> Seq(Receipt)]

Init ==
  /\ bound = {}
  /\ evaluations = [c \in Callers |-> [stage |-> "idle"]]
  /\ chains = [k \in Verticals \X Sessions |-> <<>>]

Becomes(c, evaluation) == evaluations' = [evaluations EXCEPT ![c] = evaluation]

-----------------------------------------------------------------------------
(* Receipt chains *)

HeadHash(chain) == IF chain = <<>> THEN <<>> ELSE chain[Len(chain)].hash

\* Mutant: the sequence begins at one.
ReceiptFromOne(chain, content) ==
  [sequence |-> Len(chain) + 1, previous |-> HeadHash(chain), content |-> content,
   hash |-> Append(HeadHash(chain), content)]

NextReceipt(chain, content) ==
  [sequence |-> Len(chain), previous |-> HeadHash(chain), content |-> content,
   hash |-> Append(HeadHash(chain), content)]

\* Mutant: receipts are verified one by one.
VerifyEach(chain) ==
  \A i \in DOMAIN chain : chain[i].hash = Append(chain[i].previous, chain[i].content)

Verify(chain) ==
  \A i \in DOMAIN chain :
    /\ chain[i].sequence = i - 1
    /\ chain[i].previous = IF i = 1 THEN <<>> ELSE chain[i - 1].hash
    /\ chain[i].hash = Append(chain[i].previous, chain[i].content)

-----------------------------------------------------------------------------
(* Adapters *)

\* register_model, register_kernel: no lock is taken, and nothing is unregistered.
Register(a) ==
  /\ bound' = bound \cup {a}
  /\ UNCHANGED <<evaluations, chains>>

-----------------------------------------------------------------------------
(* An evaluation *)

\* The request is well formed, or the evaluation ends there.
Begin(c) ==
  /\ evaluations[c].stage \in {"idle", "done", "error"}
  /\ \E request \in Requests : Becomes(c, [stage |-> "proposing", request |-> request])
  /\ UNCHANGED <<bound, chains>>

Proposed(request, proposal, cited) ==
  [stage |-> "judging", request |-> request, proposal |-> proposal, cited |-> cited,
   left |-> Kernels, outcomes |-> {}]

\* The caller's proposal cites the request's sources, a model's what it likes;
\* without either the proposal is unavailable.
Propose(c) ==
  LET request == evaluations[c].request IN
  /\ evaluations[c].stage = "proposing"
  /\ \/ /\ request.proposal # "absent"
        /\ Becomes(c, Proposed(request, request.proposal, TRUE))
     \/ /\ request.proposal = "absent" /\ Model \in bound
        /\ \E proposal \in ProposalStates, cited \in BOOLEAN :
             Becomes(c, Proposed(request, proposal, cited))
     \/ /\ request.proposal = "absent" /\ Model \notin bound
        /\ Becomes(c, Proposed(request, "unavailable", TRUE))
  /\ UNCHANGED <<bound, chains>>

Judged(c, k, outcome) ==
  Becomes(c, [evaluations[c] EXCEPT !.left = @ \ {k}, !.outcomes = @ \cup {outcome}])

\* A kernel's outcome is its own; one that is not bound is unavailable.
Consult(c) ==
  /\ evaluations[c].stage = "judging"
  /\ \E k \in evaluations[c].left :
       \/ k \in bound /\ \E outcome \in Outcomes : Judged(c, k, outcome)
       \/ k \notin bound /\ Judged(c, k, "unavailable")
  /\ UNCHANGED <<bound, chains>>

\* An adapter that fails or answers under another identity ends the evaluation,
\* and leaves no receipt; so does a request that is malformed.
Err(c) ==
  /\ evaluations[c].stage \in {"proposing", "judging"}
  /\ Becomes(c, [stage |-> "error"])
  /\ UNCHANGED <<bound, chains>>

\* The effect boundary looks at the stripped effect ...
Prohibited(request) ==
  \/ request.effect = "prohibited"
  \/ Catalog[request.vertical].closed /\ request.effect = "execution"
  \/ Catalog[request.vertical].mode = "READ_ONLY" /\ request.effect \in {"export", "execution"}

\* ... and everything after it at the one that was sent.
Effect(request) == request.effect # "none"

BindComplete(request) == request.bind \in {"allow", "deny"}

BlockingFailure(e) ==
  LET request == e.request IN
  \/ ~request.bounded
  \/ ~e.cited
  \/ Prohibited(request)
  \/ Effect(request) /\ Catalog[request.vertical].bind /\ ~BindComplete(request)
  \/ "blocked" \in e.outcomes

\* Mutant: a kernel that is not bound does not count.
DecideUnbound(e) ==
  IF BlockingFailure(e) \/ e.request.bind = "deny" THEN "DENY"
  ELSE IF Effect(e.request) /\ e.proposal # "unavailable" /\ e.request.bind = "allow"
       THEN "ALLOW"
       ELSE "HOLD"

Decide(e) ==
  LET request == e.request IN
  IF BlockingFailure(e) \/ request.bind = "deny" THEN "DENY"
  ELSE IF /\ Effect(request)
          /\ e.proposal # "unavailable"
          /\ ~(Strict /\ "unavailable" \in e.outcomes)
          /\ request.bind = "allow"
       THEN "ALLOW"
       ELSE "HOLD"

\* The ladder decides, and the receipt is appended under the lock.
Conclude(c) ==
  LET e == evaluations[c]
      key == <<e.request.vertical, e.request.session>>
      receipt == NextReceipt(chains[key],
                   [caller |-> c, request |-> e.request, decision |-> Decide(e)])
  IN
  /\ e.stage = "judging" /\ e.left = {}
  /\ Len(chains[key]) < MaxChain
  /\ chains' = [chains EXCEPT ![key] = Append(@, receipt)]
  /\ Becomes(c, [stage |-> "done", request |-> e.request, receipt |-> receipt])
  /\ UNCHANGED bound

Next ==
  \/ \E a \in Kernels \cup {Model} : Register(a)
  \/ \E c \in Callers : Begin(c) \/ Propose(c) \/ Consult(c) \/ Err(c) \/ Conclude(c)

Spec == Init /\ [][Next]_vars

-----------------------------------------------------------------------------
(* Properties *)

Receipts == UNION {{chains[k][i] : i \in DOMAIN chains[k]} : k \in DOMAIN chains}

\* Whatever the order in which threads append, each chain verifies.
ChainsVerify == \A k \in DOMAIN chains : Verify(chains[k])

\* A receipt that was answered stays in its chain where it was appended.
AnsweredIsChained ==
  \A c \in Callers :
    evaluations[c].stage = "done" =>
      LET request == evaluations[c].request
          receipt == evaluations[c].receipt
          chain == chains[<<request.vertical, request.session>>]
      IN receipt.sequence < Len(chain) /\ chain[receipt.sequence + 1] = receipt

\* With the strict gate an effect is allowed only when every declared kernel is
\* bound, although kernels are looked up one by one while others register, and
\* only if a human allowed it (docs/VERTICAL_FRONTIER_FABRIC_V1.md); and no export
\* or execution is allowed on a read-only vertical.
AllowedIsBound ==
  \A r \in Receipts :
    r.content.decision = "ALLOW" =>
      LET request == r.content.request IN
      /\ Strict => Kernels \subseteq bound
      /\ request.bind = "allow"
      /\ Catalog[request.vertical].mode = "READ_ONLY" => request.effect = "blank"

\* No sequence of receipts but the chain itself verifies and has its head: to
\* leave one out, swap two, copy one or change a content, the hash recomputed or
\* not, is detected.
Detected(chain, other) ==
  other # chain => ~Verify(other) \/ HeadHash(other) # HeadHash(chain)

DetectedAll(chain) ==
  /\ \A i \in DOMAIN chain : Detected(chain, RemoveAt(chain, i))
  /\ \A i, j \in DOMAIN chain :
       /\ Detected(chain, [chain EXCEPT ![i] = chain[j], ![j] = chain[i]])
       /\ Detected(chain, [chain EXCEPT ![i] = chain[j]])
  /\ \A i \in DOMAIN chain, d \in Decisions :
       LET content == [chain[i].content EXCEPT !.decision = d] IN
       /\ Detected(chain, [chain EXCEPT ![i] = [chain[i] EXCEPT !.content = content]])
       /\ Detected(chain, [chain EXCEPT ![i] =
                             [chain[i] EXCEPT !.content = content,
                                              !.hash = Append(chain[i].previous, content)]])

TamperingDetected == \A k \in DOMAIN chains : DetectedAll(chains[k])

\* Each chain, appended to by all threads, verifies, holds every receipt that was
\* answered, and is told from every altered copy of itself.
ChainsStand == ChainsVerify /\ AnsweredIsChained /\ TamperingDetected

=============================================================================
