------------------------------ MODULE Evidence ------------------------------
(***************************************************************************)
(* The evidence ledger of one scope (a canonical vertical and one session) *)
(* seen as data: the rows of connector_observations, how a query selects   *)
(* one of them, and when a selected row may be used as evidence.           *)
(*                                                                         *)
(* Hashes are modelled by what they identify.  A receipt identifier is the *)
(* tuple of the fields it covers, which do not include the normalized      *)
(* summary; a snapshot hash is the set of records it covers; a summary     *)
(* hash is the summary.  State and truth label are left out: the only      *)
(* writer, fetch_connector, stores OBSERVED / REPORTED rows.               *)
(***************************************************************************)
EXTENDS Integers

CONSTANTS
  Payloads,     \* payload digests a connector may return
  Sources,      \* (connector, query, URL) triples, numbered in receipt order
  Summaries,    \* normalized summaries
  Deployments,  \* connector catalogues a restart may bring in
  Freshness,    \* Freshness[d][s]: freshness_seconds of source s under d,
                \* 0 when d does not assign the connector of s
  Oversize      \* summaries above the byte budget of a resolution

ASSUME EvidenceAssumption ==
  /\ Sources \subseteq Nat
  /\ Freshness \in [Deployments -> [Sources -> Nat]]
  /\ Oversize \subseteq Summaries

Row == [source : Sources, payload : Payloads, observed : Nat, expires : Nat,
        summary : Summaries]

\* receipt_id hashes these fields and nothing else: two rows with one receipt
\* may differ in their summary (the content type and the deployed parser also
\* determine it).
Receipt(r) == <<r.source, r.payload, r.observed, r.expires>>

\* INSERT OR REPLACE: the receipt is the primary key.
InsertOrReplace(rows, new) ==
  {r \in rows : Receipt(r) # Receipt(new)} \cup {new}

\* Receipts are compared by their hash; among the rows of one payload at one
\* time, sources are numbered in that order.
ReceiptBefore(r, s) ==
  r.source < s.source \/ (r.source = s.source /\ r.expires < s.expires)

\* ORDER BY observed_at DESC, receipt_id ASC
Precedes(r, s) ==
  r.observed > s.observed \/ (r.observed = s.observed /\ ReceiptBefore(r, s))

\* ... LIMIT 1: no row, or the row that no other precedes.
First(rows) == {r \in rows : \A s \in rows : ~Precedes(s, r)}

Latest(rows, p) == First({r \in rows : r.payload = p})

FreshRow(r, now) == r.observed <= now /\ now < r.expires

FreshAt(records, now) ==
  records # {} /\ \A r \in records : FreshRow(r, now)

\* What resolve_evidence asks of the selected row under the catalogue d.
Admissible(r, withdrawn, d, now) ==
  /\ r.payload \notin withdrawn
  /\ Freshness[d][r.source] > 0
  /\ FreshRow(r, now)
  /\ r.expires <= r.observed + Freshness[d][r.source]
  /\ r.summary \notin Oversize

\* The records of the snapshot for the requested digests ds.
Resolve(rows, withdrawn, d, ds, now) ==
  {r \in rows : /\ r.payload \in ds
                /\ r \in Latest(rows, r.payload)
                /\ Admissible(r, withdrawn, d, now)}

\* The snapshot is COMPLETE: some digest was asked for, each has its record.
Complete(records, ds) == ds # {} /\ {r.payload : r \in records} = ds

\* What has become of one recorded dependency, as the set of its reason: empty
\* when nothing changed.  The order of the tests is the order of the code.
DependencyReason(rows, withdrawn, dep, now) ==
  LET latest == Latest(rows, dep.payload) IN
  IF dep.payload \in withdrawn THEN {"EVIDENCE_WITHDRAWN"}
  ELSE IF latest = {} THEN {"EVIDENCE_MISSING"}
  ELSE IF ~FreshRow(dep, now) THEN {"EVIDENCE_NOT_FRESH"}
  ELSE IF \A r \in latest : Receipt(r) # Receipt(dep) THEN {"EVIDENCE_RECORD_CHANGED"}
  ELSE IF dep \notin latest THEN {"EVIDENCE_SUMMARY_CHANGED"}
  ELSE {}

\* The evidence a basis was built on is still what the ledger would select.
Intact(rows, withdrawn, basis) ==
  \A dep \in basis : dep.payload \notin withdrawn /\ dep \in Latest(rows, dep.payload)

=============================================================================
