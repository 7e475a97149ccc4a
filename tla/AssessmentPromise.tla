--------------------------- MODULE AssessmentPromise ---------------------------
(***************************************************************************)
(* What the replay store promises of assessments, without evidence, clocks *)
(* or transactions: an identifier is unknown, then standing, then revoked, *)
(* never the other way; evidence that changes under standing assessments   *)
(* revokes them in the same step; and an assessment reported as current is *)
(* a standing one.                                                         *)
(***************************************************************************)
CONSTANT HasRoom(_)  \* whether one more assessment may join a set of them

VARIABLES
  standing,   \* assessments whose evidence never changed
  revoked,    \* assessments that require revalidation, for ever
  disturbed,  \* assessments whose evidence has changed
  current     \* assessments the callers are being told are CURRENT

pvars == <<standing, revoked, disturbed, current>>

known == standing \cup revoked

PromiseInit ==
  /\ standing = {} /\ revoked = {} /\ disturbed = {} /\ current = {}

\* Evidence changes under the assessments of D: whatever the reason, none of
\* them stands after the step.
Change(D) ==
  /\ D \subseteq known
  /\ standing' = standing \ D
  /\ revoked' = revoked \cup D
  /\ disturbed' \subseteq known
  /\ disturbed \subseteq disturbed' /\ disturbed' \subseteq revoked'
  /\ current' \subseteq current

\* An assessment is registered; its evidence may have changed since it was read.
Register(id) ==
  /\ id \notin known
  /\ HasRoom(known)
  /\ \/ /\ standing' = standing \cup {id}
        /\ UNCHANGED <<revoked, disturbed>>
        /\ current' \subseteq current \cup {id}
     \/ /\ revoked' = revoked \cup {id}
        /\ disturbed' \in {disturbed, disturbed \cup {id}}
        /\ UNCHANGED standing
        /\ current' \subseteq current

\* An assessment is looked up: it stands and is reported as current, or it is
\* revoked (for its age, say), now or before.
Check(id) ==
  /\ id \in known
  /\ \/ /\ id \in standing
        /\ UNCHANGED <<standing, revoked, disturbed>>
        /\ current' \subseteq current \cup {id}
     \/ /\ standing' = standing \ {id}
        /\ revoked' = revoked \cup {id}
        /\ UNCHANGED disturbed
        /\ current' \subseteq current

PromiseNext ==
  \/ \E D \in SUBSET known : Change(D)
  \/ \E id \in known' : Register(id) \/ Check(id)

Promise == PromiseInit /\ [][PromiseNext]_pvars

=============================================================================
