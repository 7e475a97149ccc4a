------------------------------- MODULE ClaimReview -------------------------------
(***************************************************************************)
(* The review of claims against the passages they cite                     *)
(* (claim_integrity.py, asked by counsel_review.py): every anchor is       *)
(* compared with the bytes of a document of the request, and a claim is    *)
(* anchored by text that supports it.  The relationship of an anchor is    *)
(* the caller's word; a passage of context is compared and counts nowhere. *)
(*                                                                         *)
(* A text is a sequence of a few letters and its digest is the text.  The  *)
(* caller composes a request anchor by anchor and has it reviewed.         *)
(***************************************************************************)
EXTENDS Naturals, Sequences, FiniteSets

CONSTANTS
  DocumentIds, \* identifiers of documents, numbered in their order
  Claims,
  Texts,       \* of documents: nonempty sequences
  Quotes,      \* of anchors
  MaxAnchors   \* of a request

ReviewAssumption ==
  /\ DocumentIds \subseteq Nat /\ MaxAnchors \in Nat
  /\ \A t \in Texts \cup Quotes : t \in Seq(Nat) \ {<<>>}  \* of letters, numbered

MaxEnd == 2  \* of an anchor's span

Absent == [text |-> <<>>, expected |-> <<>>]
Documents == {Absent} \cup [text : Texts, expected : Texts]

\* unique_anchors: the quote is not part of what must differ.
Anchor == [claim : Claims, document : DocumentIds, start : 0 .. MaxEnd - 1, end : 1 .. MaxEnd,
           relationship : {"SUPPORT", "ADVERSE", "CONTEXT"}, quote : Quotes]
Key(a) == <<a.claim, a.document, a.start, a.end, a.relationship>>

VARIABLES
  documents, \* of the request
  bound,     \* the service knows its own source revision
  anchors,
  report     \* of the last review

vars == <<documents, bound, anchors, report>>

NoReport == [decision |-> "none"]

Init ==
  /\ documents \in [DocumentIds -> Documents]
  /\ \E d \in DocumentIds : documents[d] # Absent
  /\ bound \in BOOLEAN
  /\ anchors = {}
  /\ report = NoReport

\* The caller cites another passage; a request with two anchors of one key is rejected.
Cite(a) ==
  /\ Cardinality(anchors) < MaxAnchors
  /\ a.start < a.end
  /\ \A b \in anchors : Key(b) # Key(a)
  /\ anchors' = anchors \cup {a}
  /\ report' = NoReport
  /\ UNCHANGED <<documents, bound>>

-----------------------------------------------------------------------------
(* review_claims *)

Slice(text, start, end) == SubSeq(text, start + 1, end)

\* Mutant: an end beyond the text is left to the slice, which ends where the text ends.
StatusBySlice(a) ==
  LET doc == documents[a.document]
  IN  IF doc = Absent THEN "DOCUMENT_UNAVAILABLE"
      ELSE IF doc.text # doc.expected THEN "DOCUMENT_DIGEST_MISMATCH"
      ELSE IF Slice(doc.text, a.start, IF a.end < Len(doc.text) THEN a.end ELSE Len(doc.text)) # a.quote
      THEN "QUOTE_MISMATCH"
      ELSE "MATCHED"

Status(a) ==
  LET doc == documents[a.document]
  IN  IF doc = Absent THEN "DOCUMENT_UNAVAILABLE"
      ELSE IF doc.text # doc.expected THEN "DOCUMENT_DIGEST_MISMATCH"
      ELSE IF a.end > Len(doc.text) THEN "SPAN_OUT_OF_RANGE"
      ELSE IF Slice(doc.text, a.start, a.end) # a.quote THEN "QUOTE_MISMATCH"
      ELSE "MATCHED"

\* Two documents with one text are one: the digest takes the place of the name.
Content(a) == <<documents[a.document].text, a.start, a.end>>

Matched(claim) == {a \in anchors : a.claim = claim /\ Status(a) = "MATCHED"}
Supporting(claim) == {Content(a) : a \in {b \in Matched(claim) : b.relationship = "SUPPORT"}}
Adverse(claim) == {Content(a) : a \in {b \in Matched(claim) : b.relationship = "ADVERSE"}}

\* The anchors are read in the order of their documents: the later alias is the
\* duplicate, of context as well.
Duplicates(claim) ==
  {a \in Matched(claim) :
    \E b \in Matched(claim) :
      b.document < a.document /\ Content(b) = Content(a) /\ b.relationship = a.relationship}

Failed == {a \in anchors : Status(a) # "MATCHED"}

Blockers ==
  {b \in {"SOURCE_UNBOUND", "DOCUMENT_INTEGRITY_FAILURE", "ANCHOR_INTEGRITY_FAILURE", "UNANCHORED_CLAIMS"} :
    CASE b = "SOURCE_UNBOUND" -> ~bound
      [] b = "DOCUMENT_INTEGRITY_FAILURE" -> \E d \in DocumentIds : documents[d].text # documents[d].expected
      [] b = "ANCHOR_INTEGRITY_FAILURE" -> Failed # {}
      [] b = "UNANCHORED_CLAIMS" -> \E c \in Claims : Supporting(c) = {}}

Report ==
  [decision |-> IF Blockers = {} THEN "READY_FOR_TEXT_REVIEW" ELSE "REVIEW_INTEGRITY_FAILURES",
   supports |-> [c \in Claims |-> Cardinality(Supporting(c))],
   adverse |-> [c \in Claims |-> Cardinality(Adverse(c))],
   duplicates |-> [c \in Claims |-> Duplicates(c)]]

Review == report' = Report /\ UNCHANGED <<documents, bound, anchors>>

Next == Review \/ \E a \in Anchor : Cite(a)

Spec == Init /\ [][Next]_vars

-----------------------------------------------------------------------------
(* Properties *)

\* The letters that an anchor points at in a document are those it quotes.
Stands(a) ==
  LET doc == documents[a.document]
  IN  /\ Len(a.quote) = a.end - a.start
      /\ \A i \in 1 .. Len(a.quote) :
           a.start + i \in 1 .. Len(doc.text) /\ doc.text[a.start + i] = a.quote[i]

\* What a claim cites truly, as the caller relates it, from the expected texts.
Cited(claim, relationship) ==
  {a \in anchors : /\ a.claim = claim /\ a.relationship = relationship /\ Stands(a)
                  /\ documents[a.document].text = documents[a.document].expected}

\* READY_FOR_TEXT_REVIEW means that every claim rests on a supporting passage, not on
\* one of context alone, that no anchor of the request misquotes, adverse ones and those
\* of context included, and that each text is the expected one.  And an alias of a
\* document never counts as more support, nor context as any: each count is that of
\* the anchors of its own relationship that are no duplicates.
AnchoredIsText ==
  report # NoReport =>
    /\ report.decision = "READY_FOR_TEXT_REVIEW" =>
         /\ \A c \in Claims : Cited(c, "SUPPORT") # {}
         /\ \A a \in anchors : Stands(a)
         /\ \A d \in DocumentIds : documents[d].text = documents[d].expected
    /\ \A c \in Claims :
         /\ report.supports[c] = Cardinality(Cited(c, "SUPPORT") \ report.duplicates[c])
         /\ report.adverse[c] = Cardinality(Cited(c, "ADVERSE") \ report.duplicates[c])

\* Why: no two anchors have one key, and a report is of the anchors there are.
ReviewInv ==
  /\ documents \in [DocumentIds -> Documents]
  /\ anchors \subseteq Anchor /\ IsFiniteSet(anchors)
  /\ \A a \in anchors : a.start < a.end
  /\ \A a, b \in anchors : Key(a) = Key(b) => a = b
  /\ report \in {NoReport, Report}

=============================================================================
