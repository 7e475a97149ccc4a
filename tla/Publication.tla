------------------------------- MODULE Publication -------------------------------
(***************************************************************************)
(* What follows a publication: the attestation of the published commit     *)
(* (LiveAttestation) and the probes of the Space (SpaceProbes).  They      *)
(* share no state, so that a behaviour follows one of them; what the other *)
(* would keep is Off.                                                      *)
(***************************************************************************)
EXTENDS LiveAttestation

CONSTANTS
  ProbedVerticals, \* as a sequence
  ProbeAttempts,   \* attempts of one request
  ProbeChanges     \* bound on what happens to the Space during a probe

VARIABLES
  tool,                      \* what the behaviour is about
  site, probe, probeChanges  \* SpaceProbes

Probes == INSTANCE SpaceProbes WITH
  space <- site, changes <- probeChanges,
  Verticals <- ProbedVerticals, Revisions <- Commits, Expected <- MaxCommit,
  Attempts <- ProbeAttempts, MaxChanges <- ProbeChanges

attestVars == <<tip, pending, run, space, att>>
probeVars == <<site, probe, probeChanges>>

toolVars == <<tool, attestVars, probeVars>>

ASSUME ProbingAssumption == Probes!ProbesAssumption

Off == "off"

ToolInit ==
  /\ tool \in {"attest", "probe"}
  /\ Init
  /\ tool = "probe" => space.env = None
  /\ IF tool = "probe" THEN Probes!Init ELSE site = Off /\ probe = Off /\ probeChanges = Off

OnlyAttest == tool = "attest" /\ UNCHANGED <<tool, probeVars>>
OnlyProbe == tool = "probe" /\ UNCHANGED <<tool, attestVars>>

ToolNext ==
  \/ OnlyAttest /\ Next
  \/ OnlyProbe /\ Probes!Next

\* The fairness of LiveAttestation and of SpaceProbes.
ToolSpec ==
  /\ ToolInit /\ [][ToolNext]_toolVars
  /\ \A a \in Attesters : WF_toolVars(OnlyAttest /\ AttesterStep(a))
  /\ WF_toolVars(OnlyProbe /\ Probes!ProbeStep)

-----------------------------------------------------------------------------
(* Properties of the tools *)

\* A probe that passed got a good answer to every request from a public Space, of
\* one attempt and of the expected revision.
ProbesAreWhole == tool = "probe" => Probes!ProbesAreWhole

\* Every attestation and every probe ends.  It is with a report that the attestation of
\* a served commit, the probe of the verticals and the operator's payload end; the others
\* may raise what they do not catch.
ToolsEnd == AttestationsEnd /\ <>(tool = "probe" => Probes!Over)

=============================================================================
