--------------------------- MODULE FrontierGateProofs ---------------------------
(***************************************************************************)
(* Theorems about FrontierGate, for any number of threads and whatever     *)
(* proposals are submitted.                                                *)
(*                                                                         *)
(* Every receipt is made from a proposal and, on the server of runtime.py, *)
(* from a model result; ReceiptInv says so of each receipt a thread holds  *)
(* and of those the page shows and keeps, that the model result says the   *)
(* request was withheld if it was, that what the page submits has          *)
(* no term that the gate does not read, and that a page keeps what it      *)
(* shows unless two forms cross.  Both properties follow from it.          *)
(***************************************************************************)
EXTENDS FrontierGate, TLAPS

Blocks ==
  {"NO_ADMISSIBLE_EVIDENCE", "EVIDENCE_VALIDATION_WARNING", "PROHIBITED_ACTION_CLASS",
   "ELEVATED_RISK_REQUIRES_REVIEW", "HUMAN_BINDING_ABSENT", "MODEL_TOOL_CALLS_REFUSED",
   "MODEL_ESCALATION_TEXT", "KERNEL_NO_EVIDENCE_QUALITY", "KERNEL_ELEVATED_RISK",
   "KERNEL_HUMAN_BINDING_ABSENT", "KERNEL_INVARIANT_FAILURE"}

SignalTexts == {"none", "0.0", "1.0"}

Receipt ==
  [items : 0..1, warned : BOOLEAN, prohibited : BOOLEAN,
   risk : {"0", "0.0", "0.3", "0.8", "1", "1.0"}, approved : BOOLEAN,
   blocks : SUBSET Blocks, model : ModelResults \cup {NoModel},
   signals : [binding : SignalTexts, clean : SignalTexts]]

Shown == [body : Receipt, digest : Receipt]

Page ==
  [waits : SUBSET Handlers, form : SUBSET Handlers, shown : SUBSET Shown, used : SUBSET Shown,
   asked : SUBSET [matches : BOOLEAN, here : BOOLEAN], enabled : BOOLEAN,
   verdict : {"none", "valid", "failed"}, crossed : BOOLEAN]

Senders == {"page", "other"}

Handler ==
  [phase : {"free", "error"}]
  \cup [phase : {"received"}, proposal : Proposals, sender : Senders]
  \cup [phase : {"gated", "sent"}, proposal : Proposals, sender : Senders, receipt : Receipt]
  \cup [phase : {"proposed"}, receipt : Receipt, model : ModelResults]
  \cup [phase : {"answered"}, receipt : Receipt]

\* What runtime.py makes of the receipt of the gates.
Final(base, model) ==
  [base EXCEPT !.blocks = base.blocks \cup KernelBlocks(base, model),
               !.model = model, !.signals = Signals(base)]

IsBase(r) == \E p \in Proposals : r = BaseReceipt(p)

IsIssued(r) ==
  IF deployed.runtime
  THEN \E p \in Proposals, model \in ModelResults :
         r = Final(BaseReceipt(p), model) /\ (model = PolicyBlocked <=> Withheld(GateBlocks(p)))
  ELSE IsBase(r)

HandlerInv(s) ==
  /\ s \in Handler
  /\ s.phase \in {"gated", "sent"} => s.receipt = BaseReceipt(s.proposal) /\ deployed.runtime
  /\ s.phase \in {"received", "gated", "sent"} /\ s.proposal.unread => s.sender # "page"
  /\ s.phase = "sent" => ~Withheld(s.receipt.blocks)
  /\ s.phase = "proposed" =>
       /\ IsBase(s.receipt) /\ deployed.runtime
       /\ s.model = PolicyBlocked <=> Withheld(s.receipt.blocks)
  /\ s.phase = "answered" => IsIssued(s.receipt)

PageInv(p) ==
  /\ p \in Page
  /\ \A held \in p.shown \cup p.used : IsIssued(held.body)
  /\ p.shown # {} /\ ~p.crossed => p.used = p.shown

ReceiptInv ==
  /\ deployed \in [runtime : BOOLEAN, live : BOOLEAN]
  /\ PageInv(page)
  /\ handlers = [h \in Handlers |-> handlers[h]]
  /\ \A h \in Handlers : HandlerInv(handlers[h])

-----------------------------------------------------------------------------
(* Receipts *)

LEMMA BaseFields ==
  ASSUME NEW p \in Proposals
  PROVE  /\ BaseReceipt(p) \in Receipt /\ p \in Proposal
         /\ BaseReceipt(p).items = p.items /\ BaseReceipt(p).warned = p.warned
         /\ BaseReceipt(p).prohibited = p.prohibited /\ BaseReceipt(p).approved = p.approved
         /\ BaseReceipt(p).blocks = GateBlocks(p) /\ BaseReceipt(p).model = NoModel
         /\ Elevated(BaseReceipt(p).risk) <=> Elevated(p.risk)
<1>1. p \in Proposal
  BY FrontierAssumption
<1>2. /\ Float(p.risk) \in {"0", "0.0", "0.3", "0.8", "1", "1.0"}
      /\ Elevated(Float(p.risk)) <=> Elevated(p.risk)
  BY <1>1 DEF Proposal, Float, Elevated
<1>3. GateBlocks(p) \in SUBSET Blocks
  BY DEF GateBlocks, Blocks
<1>4. NoSignals \in [binding : SignalTexts, clean : SignalTexts]
  BY DEF NoSignals, SignalTexts
<1>. QED BY <1>1, <1>2, <1>3, <1>4 DEF BaseReceipt, Receipt, Proposal

LEMMA FinalFields ==
  ASSUME NEW base \in Receipt, NEW model \in ModelResults
  PROVE  /\ Final(base, model) \in Receipt
         /\ Final(base, model).items = base.items /\ Final(base, model).warned = base.warned
         /\ Final(base, model).prohibited = base.prohibited
         /\ Final(base, model).approved = base.approved /\ Final(base, model).risk = base.risk
         /\ Final(base, model).blocks = base.blocks \cup KernelBlocks(base, model)
         /\ Final(base, model).model = model
<1>1. base.blocks \cup KernelBlocks(base, model) \in SUBSET Blocks
  BY DEF Receipt, KernelBlocks, ModelReasons, Blocks
<1>2. Signals(base) \in [binding : SignalTexts, clean : SignalTexts]
  BY DEF Signals, Signal, SignalTexts
<1>. HIDE DEF KernelBlocks, Signals
<1>. QED BY <1>1, <1>2 DEF Final, Receipt

\* The page's copy of the numbers is elevated when the server's is.
LEMMA ResentFields ==
  ASSUME NEW r \in Receipt
  PROVE  /\ Resent(r).items = r.items /\ Resent(r).approved = r.approved
         /\ Resent(r).blocks = r.blocks
         /\ Elevated(Resent(r).risk) <=> Elevated(r.risk)
<1>1. Elevated(Stringified(r.risk)) <=> Elevated(r.risk)
  BY DEF Receipt, Elevated, Stringified
<1>. QED BY <1>1 DEF Resent, Receipt

-----------------------------------------------------------------------------
(* What is issued has the properties *)

LEMMA IssuedIsClean ==
  ASSUME ReceiptInv, NEW r, IsIssued(r), r.blocks = {}
  PROVE  /\ r.items > 0 /\ ~r.warned /\ ~r.prohibited /\ ~Elevated(r.risk) /\ r.approved
         /\ ~r.model.escalates /\ r.model.state # "MODEL_TOOL_CALLS_REFUSED"
<1>1. ASSUME NEW p \in Proposals, GateBlocks(p) = {}
      PROVE  p.items > 0 /\ ~p.warned /\ ~p.prohibited /\ ~Elevated(p.risk) /\ p.approved
  BY <1>1, BaseFields DEF GateBlocks, Proposal
<1>2. CASE deployed.runtime
  <2>1. PICK p \in Proposals, model \in ModelResults : r = Final(BaseReceipt(p), model)
    BY <1>2 DEF IsIssued
  <2>2. /\ r.items = p.items /\ r.warned = p.warned /\ r.prohibited = p.prohibited
        /\ r.approved = p.approved /\ (Elevated(r.risk) <=> Elevated(p.risk)) /\ r.model = model
        /\ r.blocks = GateBlocks(p) \cup KernelBlocks(BaseReceipt(p), model)
    BY <2>1, BaseFields, FinalFields
  <2>3. GateBlocks(p) = {} /\ ModelReasons(model) = {}
    BY <2>2 DEF KernelBlocks
  <2>4. ~model.escalates /\ model.state # "MODEL_TOOL_CALLS_REFUSED"
    BY <2>3 DEF ModelReasons
  <2>. QED BY <1>1, <2>2, <2>3, <2>4
<1>3. CASE ~deployed.runtime
  <2>1. PICK p \in Proposals : r = BaseReceipt(p)
    BY <1>3 DEF IsIssued, IsBase
  <2>2. ~NoModel.escalates /\ NoModel.state # "MODEL_TOOL_CALLS_REFUSED"
    BY DEF NoModel
  <2>. QED BY <1>1, <2>1, <2>2, BaseFields
<1>. QED BY <1>2, <1>3

LEMMA IssuedIsSettled ==
  ASSUME ReceiptInv, NEW r, IsIssued(r), deployed.runtime
  PROVE  /\ KernelBlocks(Resent(r), r.model) = r.blocks
         /\ \A model \in ModelResults : r.blocks \subseteq KernelBlocks(Resent(r), model)
<1>1. PICK p \in Proposals, model \in ModelResults : r = Final(BaseReceipt(p), model)
  BY DEF IsIssued
<1> DEFINE base == BaseReceipt(p)
           again == Resent(r)
<1>2. base \in Receipt /\ r \in Receipt
  BY <1>1, BaseFields, FinalFields
<1>3. /\ again.items = base.items /\ again.approved = base.approved
      /\ Elevated(again.risk) <=> Elevated(base.risk)
      /\ again.blocks = r.blocks /\ r.model = model
      /\ r.blocks = base.blocks \cup KernelBlocks(base, model)
  BY <1>1, <1>2, FinalFields, ResentFields
<1>. HIDE DEF base, again
<1>4. KernelBlocks(again, model) = r.blocks
  BY <1>3 DEF KernelBlocks
<1>5. \A other : again.blocks \subseteq KernelBlocks(again, other)
  BY DEF KernelBlocks
<1>. QED BY <1>3, <1>4, <1>5 DEF again

LEMMA IssuedTellsWithheld ==
  ASSUME ReceiptInv, NEW r, IsIssued(r), deployed.runtime
  PROVE  r.model = PolicyBlocked <=> r.items = 0 \/ r.prohibited
<1>1. PICK p \in Proposals, model \in ModelResults :
        r = Final(BaseReceipt(p), model) /\ (model = PolicyBlocked <=> Withheld(GateBlocks(p)))
  BY DEF IsIssued
<1>2. r.items = p.items /\ r.prohibited = p.prohibited /\ r.model = model
  BY <1>1, BaseFields, FinalFields
<1>3. Withheld(GateBlocks(p)) <=> p.items = 0 \/ p.prohibited
  BY DEF Withheld, GateBlocks
<1>. QED BY <1>1, <1>2, <1>3

LEMMA Promised == ReceiptInv => SentIsGated /\ ReadyIsSettled
<1>. SUFFICES ASSUME ReceiptInv PROVE SentIsGated /\ ReadyIsSettled
  OBVIOUS
<1>1. ASSUME NEW h \in Handlers, handlers[h].phase = "sent"
      PROVE  /\ handlers[h].proposal.items > 0 /\ ~handlers[h].proposal.prohibited
             /\ handlers[h].proposal.unread => handlers[h].sender # "page"
  <2>1. /\ handlers[h] \in Handler /\ handlers[h].receipt = BaseReceipt(handlers[h].proposal)
        /\ ~Withheld(handlers[h].receipt.blocks)
        /\ handlers[h].proposal.unread => handlers[h].sender # "page"
    BY <1>1 DEF ReceiptInv, HandlerInv
  <2>2. handlers[h].proposal \in Proposals
    BY <1>1, <2>1 DEF Handler
  <2>3. ~Withheld(GateBlocks(handlers[h].proposal)) /\ handlers[h].proposal.items \in 0..1
    BY <2>1, <2>2, BaseFields DEF Proposal
  <2>. QED BY <2>1, <2>3 DEF Withheld, GateBlocks
<1>2. ReadyIsClean
  BY IssuedIsClean DEF ReceiptInv, PageInv, Held, ReadyIsClean
<1>3. KernelsAreSettled
  BY IssuedIsSettled DEF ReceiptInv, PageInv, Held, KernelsAreSettled
<1>4. ShownIsUsed
  BY DEF ReceiptInv, PageInv, ShownIsUsed
<1>5. ASSUME NEW held \in Held, deployed.runtime
      PROVE  held.body.model = PolicyBlocked <=> held.body.items = 0 \/ held.body.prohibited
  BY <1>5, IssuedTellsWithheld DEF ReceiptInv, PageInv, Held
<1>. QED BY <1>1, <1>2, <1>3, <1>4, <1>5 DEF SentIsGated, ReadyIsSettled

-----------------------------------------------------------------------------
(* Every step keeps the receipts *)

\* What one thread becomes, the others and the server unchanged.
LEMMA BecomeKeeps ==
  ASSUME ReceiptInv, NEW h \in Handlers, NEW s, Become(h, s), HandlerInv(s),
         deployed' = deployed
  PROVE  /\ handlers' = [g \in Handlers |-> handlers'[g]]
         /\ \A g \in Handlers : HandlerInv(handlers[g])'
<1>1. /\ handlers' = [g \in Handlers |-> handlers'[g]]
      /\ \A g \in Handlers : handlers'[g] = IF g = h THEN s ELSE handlers[g]
  BY DEF ReceiptInv, Become
<1>2. ASSUME NEW g \in Handlers PROVE HandlerInv(handlers[g])'
  <2>1. HandlerInv(handlers'[g])
    BY <1>1 DEF ReceiptInv
  <2>. QED BY <2>1 DEF HandlerInv, IsIssued, IsBase
<1>. QED BY <1>1, <1>2

\* A step of the server leaves the page alone.
LEMMA HandlerStep ==
  ASSUME ReceiptInv, NEW h \in Handlers, NEW s, Become(h, s), HandlerInv(s),
         deployed' = deployed, PageInv(page')
  PROVE  ReceiptInv'
<1>1. PageInv(page)'
  BY DEF PageInv, IsIssued, IsBase
<1>. QED BY <1>1, BecomeKeeps DEF ReceiptInv

\* A step of the page leaves the threads alone.
LEMMA PageStep ==
  ASSUME ReceiptInv, PageInv(page'), deployed' = deployed, handlers' = handlers
  PROVE  ReceiptInv'
BY DEF ReceiptInv, PageInv, HandlerInv, IsIssued, IsBase

\* A page that settles a request keeps what it was answered.
LEMMA SettleKeeps ==
  ASSUME ReceiptInv, NEW h, NEW receipt \in SUBSET Shown,
         \A held \in receipt : IsIssued(held.body)
  PROVE  PageInv(Settle(h, receipt))
<1>1. PageInv(page)
  BY DEF ReceiptInv
<1>2. CASE h \in page.form
  <2>1. Settle(h, receipt) =
          [page EXCEPT !.waits = page.waits \ {h}, !.form = {}, !.used = receipt, !.crossed = FALSE,
                       !.shown = receipt, !.enabled = receipt # {}]
    BY <1>2 DEF Settle
  <2>2. ASSUME NEW enabled \in BOOLEAN
        PROVE  PageInv([page EXCEPT !.waits = page.waits \ {h}, !.form = {}, !.used = receipt,
                                    !.crossed = FALSE, !.shown = receipt, !.enabled = enabled])
    BY <1>1 DEF PageInv, Page
  <2>3. (receipt # {}) \in BOOLEAN
    OBVIOUS
  <2>. QED BY <2>1, <2>2, <2>3
<1>3. CASE h \notin page.form
  <2>1. Settle(h, receipt) =
          [page EXCEPT !.waits = page.waits \ {h}, !.used = receipt, !.crossed = TRUE]
    BY <1>3 DEF Settle
  <2>. QED BY <1>1, <2>1 DEF PageInv, Page
<1>. QED BY <1>2, <1>3

LEMMA EvaluateKeeps ==
  ASSUME ReceiptInv, NEW h \in Handlers, Evaluate(h)
  PROVE  ReceiptInv'
<1> DEFINE p == handlers[h].proposal
           sender == handlers[h].sender
<1>1. /\ deployed' = deployed /\ PageInv(page') /\ p \in Proposals /\ sender \in Senders
      /\ p.unread => sender # "page"
  BY DEF ReceiptInv, HandlerInv, Handler, Evaluate
<1>2. BaseReceipt(p) \in Receipt /\ IsBase(BaseReceipt(p))
  BY <1>1, BaseFields DEF IsBase
<1>3. \/ deployed.runtime /\ Become(h, [phase |-> "gated", proposal |-> p, sender |-> sender,
                                            receipt |-> BaseReceipt(p)])
      \/ ~deployed.runtime /\ Become(h, [phase |-> "answered", receipt |-> BaseReceipt(p)])
      \/ Become(h, [phase |-> "error"])
  BY DEF Evaluate
<1>. HIDE DEF p, sender
<1>4. /\ deployed.runtime => HandlerInv([phase |-> "gated", proposal |-> p, sender |-> sender,
                                             receipt |-> BaseReceipt(p)])
      /\ ~deployed.runtime => HandlerInv([phase |-> "answered", receipt |-> BaseReceipt(p)])
      /\ HandlerInv([phase |-> "error"])
  BY <1>1, <1>2 DEF HandlerInv, Handler, IsIssued
<1>. QED BY <1>1, <1>3, <1>4, HandlerStep

LEMMA ProposedInv ==
  ASSUME ReceiptInv, NEW h \in Handlers, handlers[h].phase \in {"gated", "sent"},
         NEW model \in ModelResults, model = PolicyBlocked <=> Withheld(handlers[h].receipt.blocks)
  PROVE  HandlerInv([phase |-> "proposed", receipt |-> handlers[h].receipt, model |-> model])
<1>1. /\ handlers[h].receipt \in Receipt /\ handlers[h].proposal \in Proposals
      /\ handlers[h].receipt = BaseReceipt(handlers[h].proposal) /\ deployed.runtime
  BY DEF ReceiptInv, HandlerInv, Handler
<1>. QED BY <1>1 DEF HandlerInv, Handler, IsBase

LEMMA ProposeKeeps ==
  ASSUME ReceiptInv, NEW h \in Handlers, Propose(h)
  PROVE  ReceiptInv'
<1>1. deployed' = deployed /\ PageInv(page') /\ handlers[h].phase = "gated"
  BY DEF ReceiptInv, Propose
<1>2. ASSUME NEW model \in ModelResults, Proposed(h, model),
             model = PolicyBlocked <=> Withheld(handlers[h].receipt.blocks)
      PROVE  ReceiptInv'
  BY <1>1, <1>2, ProposedInv, HandlerStep DEF Proposed
<1>3. /\ PolicyBlocked \in ModelResults /\ RouteOnly \in ModelResults
      /\ RouteOnly # PolicyBlocked
  BY DEF ModelResults, RouteOnly, PolicyBlocked
<1>4. ASSUME ~Withheld(handlers[h].receipt.blocks), Become(h, [handlers[h] EXCEPT !.phase = "sent"])
      PROVE  ReceiptInv'
  <2>1. /\ handlers[h] \in [phase : {"gated", "sent"}, proposal : Proposals, sender : Senders,
                             receipt : Receipt]
        /\ handlers[h].receipt = BaseReceipt(handlers[h].proposal) /\ deployed.runtime
        /\ handlers[h].proposal.unread => handlers[h].sender # "page"
    BY <1>1 DEF ReceiptInv, HandlerInv, Handler
  <2>2. HandlerInv([handlers[h] EXCEPT !.phase = "sent"])
    BY <1>4, <2>1 DEF HandlerInv, Handler
  <2>. QED BY <1>1, <1>4, <2>2, HandlerStep
<1>. QED BY <1>2, <1>3, <1>4 DEF Propose

LEMMA EndpointKeeps ==
  ASSUME ReceiptInv, NEW h \in Handlers, EndpointAnswers(h)
  PROVE  ReceiptInv'
<1>1. deployed' = deployed /\ PageInv(page') /\ handlers[h].phase = "sent"
  BY DEF ReceiptInv, EndpointAnswers
<1>2. ASSUME NEW model \in ModelResults, Proposed(h, model), model # PolicyBlocked
      PROVE  ReceiptInv'
  <2>1. ~Withheld(handlers[h].receipt.blocks)
    BY <1>1 DEF ReceiptInv, HandlerInv
  <2>. QED BY <1>1, <1>2, <2>1, ProposedInv, HandlerStep DEF Proposed
<1>3. /\ {RouteOnly, ToolCallsRefused} \subseteq ModelResults \ {PolicyBlocked}
      /\ \A escalates \in BOOLEAN : Live(escalates) \in ModelResults \ {PolicyBlocked}
  <2>1. RouteOnly # PolicyBlocked /\ ToolCallsRefused # PolicyBlocked
    BY DEF RouteOnly, ToolCallsRefused, PolicyBlocked
  <2>2. ASSUME NEW escalates \in BOOLEAN
        PROVE  Live(escalates) \in ModelResults /\ Live(escalates) # PolicyBlocked
    <3>1. Live(escalates).state # PolicyBlocked.state
      BY DEF Live, PolicyBlocked
    <3>2. Live(escalates) \in ModelResults
      BY DEF ModelResults
    <3>. QED BY <3>1, <3>2
  <2>. QED BY <2>1, <2>2 DEF ModelResults
<1>4. ASSUME Become(h, [phase |-> "error"]) PROVE ReceiptInv'
  <2>1. HandlerInv([phase |-> "error"])
    BY DEF HandlerInv, Handler
  <2>. QED BY <1>1, <1>4, <2>1, HandlerStep
<1>. QED BY <1>2, <1>3, <1>4 DEF EndpointAnswers

LEMMA ConcludeKeeps ==
  ASSUME ReceiptInv, NEW h \in Handlers, Conclude(h)
  PROVE  ReceiptInv'
<1> DEFINE base == handlers[h].receipt
           model == handlers[h].model
<1>1. /\ deployed' = deployed /\ PageInv(page')
      /\ Become(h, [phase |-> "answered", receipt |-> Final(base, model)])
  BY DEF ReceiptInv, Conclude, Final
<1>2. /\ base \in Receipt /\ model \in ModelResults /\ IsBase(base) /\ deployed.runtime
      /\ model = PolicyBlocked <=> Withheld(base.blocks)
  BY DEF Conclude, ReceiptInv, HandlerInv, Handler
<1>. HIDE DEF base, model
<1>3. IsIssued(Final(base, model)) /\ Final(base, model) \in Receipt
  <2>1. PICK p \in Proposals : base = BaseReceipt(p)
    BY <1>2 DEF IsBase
  <2>2. base.blocks = GateBlocks(p)
    BY <2>1, BaseFields
  <2>. QED BY <1>2, <2>1, <2>2, FinalFields DEF IsIssued
<1>4. HandlerInv([phase |-> "answered", receipt |-> Final(base, model)])
  BY <1>3 DEF HandlerInv, Handler
<1>. QED BY <1>1, <1>4, HandlerStep

LEMMA SubmitKeeps ==
  ASSUME ReceiptInv, NEW h \in Handlers, Submit(h)
  PROVE  ReceiptInv'
<1>1. PICK p \in Proposals : ~p.unread /\ Received(h, p, "page")
  BY DEF Submit
<1>2. HandlerInv([phase |-> "received", proposal |-> p, sender |-> "page"])
  BY <1>1 DEF HandlerInv, Handler, Senders
<1>3. PageInv(page')
  <2>1. page' = [page EXCEPT !.waits = page.waits \cup {h}, !.form = {h}, !.shown = {}, !.verdict = "none"]
    BY DEF Submit
  <2>. QED BY <2>1 DEF ReceiptInv, PageInv, Page
<1>4. Become(h, [phase |-> "received", proposal |-> p, sender |-> "page"])
  BY <1>1 DEF Received
<1>. QED BY <1>2, <1>3, <1>4, HandlerStep DEF Submit

LEMMA PostKeeps ==
  ASSUME ReceiptInv, NEW h \in Handlers, Post(h)
  PROVE  ReceiptInv'
<1>1. PICK p \in Proposals : Received(h, p, "other")
  BY DEF Post
<1>2. HandlerInv([phase |-> "received", proposal |-> p, sender |-> "other"])
  BY DEF HandlerInv, Handler, Senders
<1>3. Become(h, [phase |-> "received", proposal |-> p, sender |-> "other"])
  BY <1>1 DEF Received
<1>4. PageInv(page') /\ deployed' = deployed
  BY DEF Post, ReceiptInv
<1>. QED BY <1>2, <1>3, <1>4, HandlerStep

LEMMA ReceiveKeeps ==
  ASSUME ReceiptInv, NEW h \in Handlers, Receive(h)
  PROVE  ReceiptInv'
<1>1. /\ deployed' = deployed /\ Become(h, [phase |-> "free"])
      /\ handlers[h].phase \in {"answered", "error"}
  BY DEF Receive
<1>2. HandlerInv([phase |-> "free"])
  BY DEF HandlerInv, Handler
<1>3. PageInv(page')
  <2>1. CASE h \notin page.waits
    BY <2>1 DEF Receive, ReceiptInv
  <2>2. CASE h \in page.waits /\ handlers[h].phase = "error"
    <3>1. page' = Settle(h, {})
      BY <2>2 DEF Receive
    <3>. QED BY <3>1, SettleKeeps
  <2>3. CASE h \in page.waits /\ handlers[h].phase = "answered"
    <3> DEFINE shown == [body |-> handlers[h].receipt, digest |-> handlers[h].receipt]
    <3>1. handlers[h].receipt \in Receipt /\ IsIssued(handlers[h].receipt)
      BY <2>3 DEF ReceiptInv, HandlerInv, Handler
    <3>2. shown \in Shown /\ IsIssued(shown.body)
      BY <3>1 DEF Shown
    <3>3. page' = Settle(h, {shown})
      BY <2>3 DEF Receive
    <3>. HIDE DEF shown
    <3>. QED BY <3>2, <3>3, SettleKeeps
  <2>. QED BY <1>1, <2>1, <2>2, <2>3
<1>. QED BY <1>1, <1>2, <1>3, HandlerStep

LEMMA GiveUpKeeps ==
  ASSUME ReceiptInv, NEW h \in Handlers, GiveUp(h)
  PROVE  ReceiptInv'
<1>1. PageInv(Settle(h, {}))
  BY SettleKeeps
<1>. QED BY <1>1, PageStep DEF GiveUp

\* What a verification or its answer changes is neither shown nor kept.
LEMMA AskedKeeps ==
  ASSUME ReceiptInv, NEW asked \in SUBSET [matches : BOOLEAN, here : BOOLEAN],
         NEW enabled \in BOOLEAN, NEW verdict \in {"none", "valid", "failed"}
  PROVE  PageInv([page EXCEPT !.asked = asked, !.enabled = enabled, !.verdict = verdict])
BY DEF ReceiptInv, PageInv, Page

LEMMA PageKeeps ==
  ASSUME ReceiptInv,
         \/ Misfill \/ Navigate \/ Verify
         \/ \E asked \in page.asked : Verified(asked) \/ VerifyFails(asked)
  PROVE  ReceiptInv'
<1>1. PageInv(page)
  BY DEF ReceiptInv
<1>2. CASE Misfill
  <2>1. page' = [page EXCEPT !.shown = {}, !.used = {}, !.enabled = FALSE, !.verdict = "none",
                             !.crossed = FALSE]
    BY <1>2 DEF Misfill
  <2>2. PageInv(page')
    BY <1>1, <2>1 DEF PageInv, Page
  <2>. QED BY <1>2, <2>2, PageStep DEF Misfill
<1>3. CASE Navigate
  <2> DEFINE gone == {[matches |-> a.matches, here |-> FALSE] : a \in page.asked}
             type == [matches : BOOLEAN, here : BOOLEAN]
  <2>1. page' = [page EXCEPT !.form = {}, !.shown = {}, !.used = {}, !.enabled = FALSE,
                             !.verdict = "none", !.crossed = FALSE, !.asked = gone]
    BY <1>3 DEF Navigate
  <2>2. gone \in SUBSET type
    <3>1. page.asked \in SUBSET type
      BY <1>1 DEF PageInv, Page
    <3>2. ASSUME NEW m \in BOOLEAN PROVE [matches |-> m, here |-> FALSE] \in type
      OBVIOUS
    <3>3. ASSUME NEW a \in page.asked PROVE a.matches \in BOOLEAN
      <4>1. a \in type
        BY <3>1
      <4>. QED BY <4>1, Zenon
    <3>. HIDE DEF type
    <3>4. ASSUME NEW a \in page.asked PROVE [matches |-> a.matches, here |-> FALSE] \in type
      <4>1. PICK m : m = a.matches
        OBVIOUS
      <4>2. m \in BOOLEAN
        BY <3>3, <4>1
      <4>. QED BY <3>2, <4>1, <4>2
    <3>. QED BY <3>4
  <2>. HIDE DEF gone
  <2>3. PageInv(page')
    BY <1>1, <2>1, <2>2 DEF PageInv, Page
  <2>. QED BY <1>3, <2>3, PageStep DEF Navigate
<1>4. CASE Verify
  <2> DEFINE sent == {[matches |-> Matches(r), here |-> TRUE] : r \in page.used}
  <2>1. page' = [page EXCEPT !.asked = page.asked \cup sent, !.enabled = FALSE,
                             !.verdict = page.verdict]
    BY <1>1, <1>4 DEF Verify, PageInv, Page
  <2>2. ASSUME NEW r PROVE Matches(r) \in BOOLEAN
    BY Zenon DEF Matches
  <2>. HIDE DEF Matches
  <2>3. page.asked \cup sent \in SUBSET [matches : BOOLEAN, here : BOOLEAN]
    <3>1. page.asked \in SUBSET [matches : BOOLEAN, here : BOOLEAN]
      BY <1>1 DEF PageInv, Page
    <3>2. ASSUME NEW r
          PROVE  [matches |-> Matches(r), here |-> TRUE] \in [matches : BOOLEAN, here : BOOLEAN]
      BY <2>2, Zenon
    <3>. QED BY <3>1, <3>2
  <2>4. page.verdict \in {"none", "valid", "failed"}
    BY <1>1 DEF PageInv, Page
  <2>. HIDE DEF sent
  <2>5. PageInv(page')
    BY <2>1, <2>3, <2>4, AskedKeeps
  <2>. QED BY <1>4, <2>5, PageStep DEF Verify
<1>5. ASSUME NEW asked \in page.asked, Verified(asked) \/ VerifyFails(asked) PROVE ReceiptInv'
  <2>1. ASSUME NEW v \in {"none", "valid", "failed"}, Verdict(asked, v) PROVE PageInv(page')
    <3>1. /\ page' = [page EXCEPT !.asked = page.asked \ {asked},
                                  !.enabled = page.enabled \/ asked.here,
                                  !.verdict = IF asked.here THEN v ELSE page.verdict]
      BY <2>1 DEF Verdict
    <3>2. /\ page.asked \ {asked} \in SUBSET [matches : BOOLEAN, here : BOOLEAN]
          /\ page.verdict \in {"none", "valid", "failed"}
      BY <1>1 DEF PageInv, Page
    <3>3. (page.enabled \/ asked.here) \in BOOLEAN
      OBVIOUS
    <3>4. (IF asked.here THEN v ELSE page.verdict) \in {"none", "valid", "failed"}
      BY <3>2
    <3>. QED BY <3>1, <3>2, <3>3, <3>4, AskedKeeps
  <2>2. \E v \in {"none", "valid", "failed"} : Verdict(asked, v)
    BY <1>5 DEF Verified, VerifyFails
  <2>3. PageInv(page')
    BY <2>1, <2>2
  <2>. QED BY <1>5, <2>3, PageStep DEF Verified, VerifyFails
<1>. QED BY <1>2, <1>3, <1>4, <1>5

LEMMA ReceiptInvariance == Spec => []ReceiptInv
<1>1. Init => ReceiptInv
  <2>. SUFFICES ASSUME Init PROVE ReceiptInv
    OBVIOUS
  <2>1. PageInv(page)
    BY DEF Init, PageInv, Page
  <2>2. HandlerInv([phase |-> "free"])
    BY DEF HandlerInv, Handler
  <2>. QED BY <2>1, <2>2 DEF Init, ReceiptInv
<1>2. ReceiptInv /\ [Next]_vars => ReceiptInv'
  <2>. SUFFICES ASSUME ReceiptInv, [Next]_vars PROVE ReceiptInv'
    OBVIOUS
  <2>1. CASE UNCHANGED vars
    BY <2>1 DEF vars, ReceiptInv, PageInv, HandlerInv, IsIssued, IsBase
  <2>. QED BY <2>1, EvaluateKeeps, ProposeKeeps, EndpointKeeps, ConcludeKeeps, SubmitKeeps,
              PostKeeps, ReceiveKeeps, GiveUpKeeps, PageKeeps DEF Next
<1>. QED BY <1>1, <1>2, PTL DEF Spec

-----------------------------------------------------------------------------
(* Theorems *)

\* No handler sends the model endpoint (runtime.py) a proposal without evidence, or of an
\* action with a prohibited term that the gate reads, also one the page has given up on;
\* and of those that have one where it does not read, none is of the page.
THEOREM OnlyUnreadSlipsThrough == Spec => []SentIsGated
BY ReceiptInvariance, Promised, PTL

\* Whatever the model says, a receipt without a block passed every gate, and the
\* kernels evaluate what the page shows and keeps to the same blocks (kernel_engine.py);
\* these are the same unless the answer to a removed form came in between (app.js).
THEOREM ReceiptsAreSettled == Spec => []ReadyIsSettled
BY ReceiptInvariance, Promised, PTL

=============================================================================
