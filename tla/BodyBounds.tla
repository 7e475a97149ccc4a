------------------------------- MODULE BodyBounds -------------------------------
(***************************************************************************)
(* The readers of a body that somebody else sends, each bounded in its own *)
(* way.  Of requests: the inbound middleware (http_bounds.py,              *)
(* deploy/app.py), the claim review (counsel_review.py), and the plain     *)
(* servers fabric (frontier_app.py) and frontier (frontier/app.py).  Of    *)
(* replies: a model provider's (provider_response.py), an official         *)
(* source's (connector_transport.py), and those that the registry          *)
(* (frontier_fabric/connectors.py) and the gateway                         *)
(* (frontier/model_gateway.py) fetch.  A behaviour is one body read by one *)
(* of them.                                                                *)
(*                                                                         *)
(* The sender is external: it declares any length, delivers chunks, falls  *)
(* silent, breaks off or ends.  What the bytes say is chosen when the body *)
(* ends.                                                                   *)
(***************************************************************************)
EXTENDS Naturals, Integers

CONSTANTS
  Budget,   \* bytes: MAX_BODY_BYTES, MAX_PROVIDER_BYTES, max_bytes, MAX_REQUEST_BYTES, ...
  Deadline, \* of the whole read: MAX_READ_SECONDS, the timeout of the claim review
  Silence,  \* of a single read: httpx.Timeout, the timeout of urlopen
  MaxChunk

BoundsAssumption ==
  /\ Budget \in Nat /\ Deadline \in Nat
  /\ Silence \in Nat \ {0} /\ MaxChunk \in Nat \ {0}

Readers ==
  {"inbound", "review", "fabric", "frontier", "provider", "connector", "registry", "gateway"}

\* They give up a connection on which nothing arrives.
Impatient == {"provider", "connector", "registry", "gateway"}

\* They read no further than the declared length.
Exact == {"fabric", "frontier", "registry", "gateway"}

\* Content-Length: absent, no number, or a number.
NoLength == -1
NoNumber == -2
Lengths == {NoLength, NoNumber} \cup 0 .. Budget + 1

\* Content-Type: what the route parser decodes, what merely names JSON, none, another.
Types == {"json", "namesJson", "absent", "other"}

\* A JSON object, an array, and what no strict parser takes.
Kinds == {"object", "array", "scalar", "duplicateKey", "nonFinite", "tooDeep", "notJson"}

VARIABLES
  reader,
  head,    \* declared length, type, and a status or encoding that is fine
  got,     \* bytes kept
  elapsed, \* since the read began, at most Deadline + 1
  quiet,   \* since the last chunk, at most Silence
  content, \* of the body that ended
  state    \* "head", "reading", "parsing", "accepted", or why it was refused

vars == <<reader, head, got, elapsed, quiet, content, state>>

TypeOK ==
  /\ reader \in Readers
  /\ head \in [declared : Lengths, type : Types, fine : BOOLEAN]
  /\ got \in 0 .. Budget
  /\ elapsed \in 0 .. Deadline + 1 /\ quiet \in 0 .. Silence
  /\ content \in Kinds \cup {"none"}

Init ==
  /\ reader \in Readers
  /\ head \in [declared : Lengths, type : Types, fine : BOOLEAN]
  /\ reader \notin Impatient => head.fine
  /\ got = 0 /\ elapsed = 0 /\ quiet = 0
  /\ content = "none"
  /\ state = "head"

Goes(to) == state' = to /\ UNCHANGED <<reader, head, got, elapsed, quiet, content>>

-----------------------------------------------------------------------------
(* Before the first chunk *)

TypeFits ==
  CASE reader \in {"provider", "review", "fabric"} -> head.type = "json"
    [] reader = "frontier" -> head.type \in {"json", "namesJson"}
    [] OTHER -> TRUE

\* The claim review and the gateway look at no length; the frontier needs one.
LengthFits ==
  \/ reader \in {"review", "gateway"}
  \/ /\ head.declared # NoNumber
     /\ head.declared <= Budget
     /\ reader = "frontier" => head.declared > 0

ReadHead ==
  /\ state = "head"
  /\ Goes(IF head.fine /\ TypeFits /\ LengthFits THEN "reading" ELSE "refused")

-----------------------------------------------------------------------------
(* The chunks *)

\* All that was declared is read: what follows on the connection is left there.
Full == reader \in Exact /\ got = head.declared

Reading == state = "reading" /\ ~Full

Late == reader = "inbound" /\ elapsed > Deadline

\* Mutant: each chunk is compared with the budget alone.
ChunkFits(n) == n <= Budget

Fits(n) == got + n <= Budget

\* What of a chunk is read.
Taken(n) ==
  IF reader \in Exact /\ head.declared \in got .. got + n THEN head.declared - got ELSE n

\* The deadline of the middleware is looked at only here, when something arrives.
Deliver(n) ==
  /\ Reading
  /\ \/ Late /\ Goes("Late")
     \/ ~Late /\ ~Fits(Taken(n)) /\ Goes("TooLarge")
     \/ /\ ~Late /\ Fits(Taken(n))
        /\ got' = got + Taken(n)
        /\ quiet' = 0
        /\ UNCHANGED <<reader, head, elapsed, content, state>>

\* Those that compare what came with what was declared.
Whole == reader \in {"inbound", "provider", "fabric"} => head.declared \in {NoLength, got}

Ends ==
  IF Whole
  THEN /\ content' \in Kinds
       /\ state' = "parsing"
       /\ UNCHANGED <<reader, head, got, elapsed, quiet>>
  ELSE Goes("LengthMismatch")

\* The stream of a request ends with an empty chunk, which may be late as well.
Finish == Reading /\ IF Late THEN Goes("Late") ELSE Ends

Filled == state = "reading" /\ Full /\ Ends

\* The connection breaks: an error of the server, of httpx or of urllib.
Break == Reading /\ Goes("Broken")

Tick ==
  /\ Reading
  /\ elapsed <= Deadline \/ quiet < Silence
  /\ elapsed' = IF elapsed <= Deadline THEN elapsed + 1 ELSE elapsed
  /\ quiet' = IF quiet < Silence THEN quiet + 1 ELSE quiet
  /\ UNCHANGED <<reader, head, got, content, state>>

\* Mutant: the claim review sets no timeout.
SilenceEnds == reader \in Impatient /\ quiet = Silence

\* The middleware and the plain servers have none of the two.
TimedOut ==
  \/ reader \in Impatient /\ quiet = Silence
  \/ reader = "review" /\ elapsed > Deadline

TimeOut == Reading /\ TimedOut /\ Goes("TimedOut")

-----------------------------------------------------------------------------
(* What the bytes are taken for *)

\* The middleware parses what a route may decode; an empty body is passed on.
Parsed ==
  CASE reader = "inbound" -> got > 0 /\ head.type \in {"json", "namesJson", "absent"}
    [] OTHER -> reader \notin {"connector", "registry"}

\* parse_strict_json, read_provider_json, the model of a review request, and json.loads
\* as the plain servers and the gateway call it.
Accepts ==
  CASE reader = "provider" -> {"object", "array"}
    [] reader = "fabric" -> {"object", "nonFinite"}
    [] reader \in {"frontier", "gateway"} -> {"object", "duplicateKey", "nonFinite"}
    [] OTHER -> {"object"}

Parse ==
  /\ state = "parsing"
  /\ Goes(IF Parsed => content \in Accepts THEN "accepted" ELSE "InvalidJson")

Next ==
  \/ ReadHead
  \/ \E n \in 1 .. MaxChunk : Deliver(n)
  \/ Finish
  \/ Filled
  \/ Break
  \/ Tick
  \/ TimeOut
  \/ Parse

\* Time passes, and the event loop runs what is due; nothing is asked of the sender.
Fairness ==
  WF_vars(Tick) /\ WF_vars(ReadHead) /\ WF_vars(Filled) /\ WF_vars(TimeOut) /\ WF_vars(Parse)

Spec == Init /\ [][Next]_vars /\ Fairness

-----------------------------------------------------------------------------
(* Properties *)

\* What a reader hands on is within its budget and within what was declared, all of it
\* where the reader compares the two, in time where the middleware read it, and, where
\* a route or the caller decodes it as JSON, what a parser reads to its end: for the
\* middleware, the review and the provider without a double key or an infinite number.
AdmittedIsWhole ==
  state = "accepted" =>
    /\ got <= Budget
    /\ reader \in {"inbound", "provider", "fabric"} => head.declared \in {NoLength, got}
    /\ reader \in Exact /\ head.declared >= 0 => got <= head.declared
    /\ reader = "inbound" => elapsed <= Deadline
    /\ reader \notin {"connector", "registry"} /\ head.type = "json" /\ got > 0 =>
         /\ content \notin {"scalar", "tooDeep", "notJson"}
         /\ reader \in {"inbound", "review", "provider"} => content \in {"object", "array"}

\* What holds while a read is under way: an exact reader never passes the declared
\* length, and what is being parsed was whole and in time when it ended.
ReadInv ==
  /\ TypeOK
  /\ state \in {"reading", "parsing", "accepted"} => TypeFits /\ LengthFits
  /\ reader \in Exact /\ head.declared >= 0 => got <= head.declared
  /\ state \in {"parsing", "accepted"} =>
       Whole /\ content \in Kinds /\ (reader = "inbound" => elapsed <= Deadline)
  /\ state = "accepted" => (Parsed => content \in Accepts)

Over == state \notin {"head", "reading", "parsing"}

\* A read ends whatever the sender does; that of the middleware and of the plain servers
\* unless the sender falls silent for good, which nothing in the repository ends
\* (http_bounds.py:200, frontier_app.py:265, frontier/app.py:851).
ReadsEnd == Over \/ (reader \in {"inbound", "fabric", "frontier"} /\ quiet = Silence)

=============================================================================
