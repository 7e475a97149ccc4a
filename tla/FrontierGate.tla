----------------------------- MODULE FrontierGate -----------------------------
(***************************************************************************)
(* A decision of the vertical frontier: the page (frontier/static/app.js)  *)
(* submits a proposal; a handler, one thread per request, gates it         *)
(* (app.py), asks the model endpoint for a proposal (model_gateway.py),    *)
(* evaluates the kernels (kernel_engine.py) and answers with a receipt     *)
(* (runtime.py), which the page shows and may send back to be verified.    *)
(* The server keeps nothing; the page waits for a limited time and then    *)
(* goes on without the handler, which does not stop.  Its navigation draws *)
(* a new form, while what the old one asked is still answered to the same  *)
(* page.  Other clients call the server too.                               *)
(*                                                                         *)
(* A digest stands for what it commits to, the canonical JSON.  Of the     *)
(* JSON only the numbers matter: they are written as texts, because Python *)
(* writes a float that is whole with a point and JavaScript without it.    *)
(***************************************************************************)
EXTENDS Naturals, FiniteSets

CONSTANTS
  Handlers,   \* threads of the server
  Proposals,  \* the proposals that are submitted
  MaxAsked    \* bound on the verifications at once

VARIABLES
  deployed,  \* which server runs, and whether a model endpoint is configured
  page,      \* the page
  handlers   \* what each thread is doing

vars == <<deployed, page, handlers>>

\* items and warned are what normalize_evidence makes of the evidence given; a
\* proposal is prohibited if a term of its vertical occurs in the objective or in
\* the first 500 characters of the action, which the gate reads, and unread if one
\* occurs in the rest of the action, which the model endpoint is sent as well.
Proposal == [valid : BOOLEAN, items : 0..1, warned : BOOLEAN, prohibited : BOOLEAN,
             unread : BOOLEAN, risk : {"0", "0.3", "0.8", "1"}, approved : BOOLEAN]

ASSUME FrontierAssumption == Proposals \subseteq Proposal /\ MaxAsked \in Nat

\* json.dumps of float(risk), and of what is a float already.
Float(text) == CASE text = "0" -> "0.0" [] text = "1" -> "1.0" [] OTHER -> text

\* JSON.stringify of the number that JSON.parse made of a text.
Stringified(text) == CASE text = "0.0" -> "0" [] text = "1.0" -> "1" [] OTHER -> text

Elevated(text) == text \notin {"0", "0.0", "0.3"}

Signal(condition) == IF condition THEN "1.0" ELSE "0.0"

\* The states and the text of a model proposal.
NoModel == [state |-> "NONE", escalates |-> FALSE]
PolicyBlocked == [state |-> "POLICY_BLOCKED", escalates |-> FALSE]
RouteOnly == [state |-> "ROUTE_ONLY", escalates |-> FALSE]
ToolCallsRefused == [state |-> "MODEL_TOOL_CALLS_REFUSED", escalates |-> FALSE]
Live(escalates) == [state |-> "INFERENCE_LIVE", escalates |-> escalates]

ModelResults == {PolicyBlocked, RouteOnly, ToolCallsRefused, Live(FALSE), Live(TRUE)}

NoSignals == [binding |-> "none", clean |-> "none"]

TypeOK ==
  LET receipt == [items : 0..1, warned : BOOLEAN, prohibited : BOOLEAN,
                  risk : {"0", "0.0", "0.3", "0.8", "1", "1.0"}, approved : BOOLEAN,
                  blocks : SUBSET STRING, model : ModelResults \cup {NoModel},
                  signals : [binding : STRING, clean : STRING]]
      shown == [body : receipt, digest : receipt]
  IN
  /\ deployed \in [runtime : BOOLEAN, live : BOOLEAN]
  /\ page.waits \subseteq Handlers /\ page.form \subseteq page.waits
  /\ page.shown \subseteq shown /\ page.used \subseteq shown
  /\ Cardinality(page.shown) <= 1 /\ Cardinality(page.used) <= 1
  /\ page.asked \subseteq [matches : BOOLEAN, here : BOOLEAN]
  /\ page.enabled \in BOOLEAN /\ page.verdict \in {"none", "valid", "failed"}
  /\ page.crossed \in BOOLEAN
  /\ \A h \in Handlers : handlers[h].phase \in
       {"free", "received", "gated", "sent", "proposed", "answered", "error"}

\* waits: whose answer the page awaits; form: the one of them that the form on the page
\* awaits; shown: the receipt under it; used: state.currentReceipt, which is copied and
\* verified; crossed (history): an answer to an older form came after that of this one.
Init ==
  /\ deployed \in {d \in [runtime : BOOLEAN, live : BOOLEAN] : d.live => d.runtime}
  /\ page = [waits |-> {}, form |-> {}, shown |-> {}, used |-> {}, asked |-> {},
             enabled |-> FALSE, verdict |-> "none", crossed |-> FALSE]
  /\ handlers = [h \in Handlers |-> [phase |-> "free"]]

Become(h, state) == handlers' = [handlers EXCEPT ![h] = state]

-----------------------------------------------------------------------------
(* The handler *)

\* evaluate_proposal: the blocks of the deterministic gates.
GateBlocks(p) ==
  (IF p.items = 0 THEN {"NO_ADMISSIBLE_EVIDENCE"} ELSE {})
  \cup (IF p.warned THEN {"EVIDENCE_VALIDATION_WARNING"} ELSE {})
  \cup (IF p.prohibited THEN {"PROHIBITED_ACTION_CLASS"} ELSE {})
  \cup (IF Elevated(p.risk) THEN {"ELEVATED_RISK_REQUIRES_REVIEW"} ELSE {})
  \cup (IF p.approved THEN {} ELSE {"HUMAN_BINDING_ABSENT"})

BaseReceipt(p) ==
  [items |-> p.items, warned |-> p.warned, prohibited |-> p.prohibited,
   risk |-> Float(p.risk), approved |-> p.approved,
   blocks |-> GateBlocks(p), model |-> NoModel, signals |-> NoSignals]

\* app.py answers with the receipt of the gates, runtime.py goes on with it.
Evaluate(h) ==
  /\ handlers[h].phase = "received"
  /\ LET p == handlers[h].proposal IN
     \/ /\ p.valid /\ deployed.runtime
        /\ Become(h, [phase |-> "gated", proposal |-> p, sender |-> handlers[h].sender,
                       receipt |-> BaseReceipt(p)])
     \/ /\ p.valid /\ ~deployed.runtime
        /\ Become(h, [phase |-> "answered", receipt |-> BaseReceipt(p)])
     \/ /\ ~p.valid
        /\ Become(h, [phase |-> "error"])
  /\ UNCHANGED <<deployed, page>>

\* Mutant: a request without evidence is sent.
WithheldIfProhibited(blocks) == "PROHIBITED_ACTION_CLASS" \in blocks

\* No model is called for an action that the gate found prohibited, or without evidence.
Withheld(blocks) ==
  "PROHIBITED_ACTION_CLASS" \in blocks \/ "NO_ADMISSIBLE_EVIDENCE" \in blocks

Proposed(h, model) ==
  Become(h, [phase |-> "proposed", receipt |-> handlers[h].receipt, model |-> model])

Propose(h) ==
  /\ handlers[h].phase = "gated"
  /\ \/ /\ Withheld(handlers[h].receipt.blocks)
        /\ Proposed(h, PolicyBlocked)
     \/ /\ ~Withheld(handlers[h].receipt.blocks) /\ ~deployed.live
        /\ Proposed(h, RouteOnly)
     \/ /\ ~Withheld(handlers[h].receipt.blocks) /\ deployed.live
        /\ Become(h, [handlers[h] EXCEPT !.phase = "sent"])
  /\ UNCHANGED <<deployed, page>>

\* The endpoint answers with a text, with a text and tool calls, or with nothing
\* that is of use; or the call fails in a way the gateway does not expect.
EndpointAnswers(h) ==
  /\ handlers[h].phase = "sent"
  /\ \/ \E escalates \in BOOLEAN : Proposed(h, Live(escalates))
     \/ Proposed(h, ToolCallsRefused)
     \/ Proposed(h, RouteOnly)
     \/ Become(h, [phase |-> "error"])
  /\ UNCHANGED <<deployed, page>>

\* Mutant: only tool calls are looked for.
ToolCallReasons(model) ==
  IF model.state = "MODEL_TOOL_CALLS_REFUSED" THEN {"MODEL_TOOL_CALLS_REFUSED"} ELSE {}

\* _model_output_safety
ModelReasons(model) ==
  (IF model.state = "MODEL_TOOL_CALLS_REFUSED" THEN {"MODEL_TOOL_CALLS_REFUSED"} ELSE {})
  \cup (IF model.escalates THEN {"MODEL_ESCALATION_TEXT"} ELSE {})

\* Mutant: the kernels look at the proposal only.
KernelBlocksAlone(receipt, model) ==
  ModelReasons(model)
  \cup (IF Elevated(receipt.risk) THEN {"KERNEL_ELEVATED_RISK"} ELSE {})
  \cup (IF receipt.approved THEN {} ELSE {"KERNEL_HUMAN_BINDING_ABSENT"})

\* evaluate_kernel_stack: what a receipt of this server is blocked for.
KernelBlocks(receipt, model) ==
  receipt.blocks \cup ModelReasons(model)
  \cup (IF receipt.items = 0 THEN {"KERNEL_NO_EVIDENCE_QUALITY"} ELSE {})
  \cup (IF Elevated(receipt.risk) THEN {"KERNEL_ELEVATED_RISK"} ELSE {})
  \cup (IF receipt.approved THEN {} ELSE {"KERNEL_HUMAN_BINDING_ABSENT"})
  \cup (IF ModelReasons(model) = {} THEN {} ELSE {"KERNEL_INVARIANT_FAILURE"})

\* The features the kernels normalise are in the receipt.
Signals(receipt) ==
  [binding |-> Signal(receipt.approved), clean |-> Signal(receipt.blocks = {})]

Conclude(h) ==
  /\ handlers[h].phase = "proposed"
  /\ LET base == handlers[h].receipt
         model == handlers[h].model
     IN Become(h, [phase |-> "answered",
                   receipt |-> [base EXCEPT !.blocks = @ \cup KernelBlocks(base, model),
                                            !.model = model,
                                            !.signals = Signals(base)]])
  /\ UNCHANGED <<deployed, page>>

-----------------------------------------------------------------------------
(* The page *)

Received(h, p, sender) == Become(h, [phase |-> "received", proposal |-> p, sender |-> sender])

\* The button is disabled while the form waits, and its field for the action holds no more
\* than 500 characters.  The receipt before stays the one that is copied and verified.
Submit(h) ==
  /\ page.form = {}
  /\ handlers[h].phase = "free" /\ h \notin page.waits
  /\ \E p \in Proposals : ~p.unread /\ Received(h, p, "page")
  /\ page' = [page EXCEPT !.waits = @ \cup {h}, !.form = {h}, !.shown = {}, !.verdict = "none"]
  /\ UNCHANGED <<deployed>>

\* Evidence that is not JSON is an error without a request.
Misfill ==
  /\ page.form = {}
  /\ page' = [page EXCEPT !.shown = {}, !.used = {}, !.enabled = FALSE, !.verdict = "none",
                          !.crossed = FALSE]
  /\ UNCHANGED <<deployed, handlers>>

\* Another client sends a decision request.
Post(h) ==
  /\ handlers[h].phase = "free" /\ h \notin page.waits
  /\ \E p \in Proposals : Received(h, p, "other")
  /\ UNCHANGED <<deployed, page>>

\* What the page does with the answer to one of its requests: receipt is {} for an error.
\* The handlers of a form that is no more have what they show for themselves.
Settle(h, receipt) ==
  IF h \in page.form
  THEN [page EXCEPT !.waits = @ \ {h}, !.form = {}, !.used = receipt, !.crossed = FALSE,
                    !.shown = receipt, !.enabled = receipt # {}]
  ELSE [page EXCEPT !.waits = @ \ {h}, !.used = receipt, !.crossed = TRUE]

\* An answer is taken by the page, or by nobody if the page has given up.
Receive(h) ==
  /\ handlers[h].phase \in {"answered", "error"}
  /\ Become(h, [phase |-> "free"])
  /\ page' = IF h \notin page.waits THEN page
             ELSE IF handlers[h].phase = "error" THEN Settle(h, {})
             ELSE Settle(h, {[body |-> handlers[h].receipt, digest |-> handlers[h].receipt]})
  /\ UNCHANGED <<deployed>>

GiveUp(h) ==
  /\ h \in page.waits
  /\ page' = Settle(h, {})
  /\ UNCHANGED <<deployed, handlers>>

\* A form of another vertical, or of the same, without a receipt.
Navigate ==
  /\ page' = [page EXCEPT !.form = {}, !.shown = {}, !.used = {}, !.enabled = FALSE,
                          !.verdict = "none", !.crossed = FALSE,
                          !.asked = {[matches |-> a.matches, here |-> FALSE] : a \in @}]
  /\ UNCHANGED <<deployed, handlers>>

\* The receipt as the page sends it back.
Resent(receipt) ==
  [receipt EXCEPT !.risk = Stringified(@),
                  !.signals = [binding |-> Stringified(@.binding), clean |-> Stringified(@.clean)]]

\* verify_receipt: the digest of what was received is the digest that was sent.
Matches(shown) == Resent(shown.body) = shown.digest

\* The button is enabled again by a receipt that arrives while it verifies.
Verify ==
  /\ page.enabled /\ page.used # {} /\ Cardinality(page.asked) < MaxAsked
  /\ page' = [page EXCEPT !.asked = @ \cup {[matches |-> Matches(r), here |-> TRUE] : r \in page.used},
                          !.enabled = FALSE]
  /\ UNCHANGED <<deployed, handlers>>

\* The answer to a form that is no more is not seen.
Verdict(asked, verdict) ==
  page' = [page EXCEPT !.asked = @ \ {asked},
                       !.enabled = @ \/ asked.here,
                       !.verdict = IF asked.here THEN verdict ELSE @]

Verified(asked) ==
  /\ asked \in page.asked
  /\ Verdict(asked, IF asked.matches THEN "valid" ELSE "failed")
  /\ UNCHANGED <<deployed, handlers>>

\* No answer in time: the output is the error.
VerifyFails(asked) ==
  /\ asked \in page.asked
  /\ Verdict(asked, "none")
  /\ UNCHANGED <<deployed, handlers>>

Next ==
  \/ \E h \in Handlers :
       \/ Evaluate(h) \/ Propose(h) \/ EndpointAnswers(h) \/ Conclude(h)
       \/ Submit(h) \/ Post(h) \/ Receive(h) \/ GiveUp(h)
  \/ Misfill \/ Navigate \/ Verify
  \/ \E asked \in page.asked : Verified(asked) \/ VerifyFails(asked)

Spec == Init /\ [][Next]_vars

-----------------------------------------------------------------------------
(* Properties *)

Held == page.shown \cup page.used

\* What reaches the endpoint is supported by evidence, and no term is prohibited in
\* what the gate reads; and a receipt says that no model was called exactly when that was
\* so, whatever forms and given-up handlers crossed on the way to the page.  A term in what
\* the gate does not read is sent, though MODEL_KERNEL_RUNTIME.md has a prohibited request
\* stop before the model call; but not from the page, whose field has room for what is read.
SentIsGated ==
  /\ \A h \in Handlers : handlers[h].phase = "sent" =>
       /\ handlers[h].proposal.items > 0 /\ ~handlers[h].proposal.prohibited
       /\ handlers[h].proposal.unread => handlers[h].sender # "page"
  /\ \A held \in Held : deployed.runtime =>
       (held.body.model = PolicyBlocked <=> held.body.items = 0 \/ held.body.prohibited)

\* A receipt without a block is of a proposal that every gate passed, and of a
\* model text that claims nothing (state READY_FOR_OPERATOR_BINDING).
ReadyIsClean ==
  \A held \in Held :
    held.body.blocks = {} =>
      /\ held.body.items > 0 /\ ~held.body.warned /\ ~held.body.prohibited
      /\ ~Elevated(held.body.risk) /\ held.body.approved
      /\ ~held.body.model.escalates /\ held.body.model.state # "MODEL_TOOL_CALLS_REFUSED"

\* A receipt of runtime.py is settled: sent back to /api/v1/kernel/evaluate with its
\* own model proposal it is blocked for the same reasons, and no other proposal
\* lifts one of them.
KernelsAreSettled ==
  \A held \in Held : deployed.runtime =>
    LET again(model) == KernelBlocks(Resent(held.body), model) IN
    /\ again(held.body.model) = held.body.blocks
    /\ \A model \in ModelResults : held.body.blocks \subseteq again(model)

\* The receipt on the page is the one that is copied and verified, unless the answer to
\* a form that navigation removed came after it.
ShownIsUsed == page.shown # {} /\ ~page.crossed => page.used = page.shown

\* A receipt without a block passed every gate, and no receipt loses a block, or
\* gains one, when the kernels evaluate again what the page holds, which is what it shows
\* unless two forms cross.
ReadyIsSettled == ReadyIsClean /\ KernelsAreSettled /\ ShownIsUsed

\* A receipt that the page verifies as it was issued is valid: the integrity
\* verifier holds over HTTP (MODEL_KERNEL_RUNTIME.md), as a test does that reads
\* the receipt with Python and sends it back.
IssuedReceiptVerifies == page.verdict # "failed"

=============================================================================
