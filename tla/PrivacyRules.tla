---------------------------- MODULE PrivacyRules ----------------------------
(***************************************************************************)
(* What autoresearch-runtime lets a private competition do: the three      *)
(* capabilities of a researcher's code and the tiers that drop one of      *)
(* them, the feedback a tier may send back, the brokered egress policy,    *)
(* and the structural check of an attestation report.                      *)
(***************************************************************************)
EXTENDS Gates

CONSTANTS
  ModerateFrom, LargeFrom,  \* the band limits 0.05 and 0.20, in half micro-units
  Hosts                     \* bound: the hosts an allowlist is drawn from

ASSUME BandAssumption ==
  /\ ModerateFrom \in Nat /\ LargeFrom \in Nat
  /\ 0 < ModerateFrom /\ ModerateFrom < LargeFrom

-----------------------------------------------------------------------------
Capability == {"arbitrary_code", "raw_data_access", "free_egress"}

ExfiltrationSafe(capabilities) == capabilities # Capability

PrivacyTier == {"BlackBox", "RedactedFeedback", "WhiteBoxNoEgress", "AttestedHarness"}

DroppedCapability(tier) ==
  CASE tier \in {"BlackBox", "RedactedFeedback"} -> "raw_data_access"
    [] tier = "WhiteBoxNoEgress" -> "free_egress"
    [] tier = "AttestedHarness" -> "arbitrary_code"

Capabilities(tier) ==
  CASE tier \in {"BlackBox", "RedactedFeedback"} -> {"arbitrary_code", "free_egress"}
    [] tier = "WhiteBoxNoEgress" -> {"arbitrary_code", "raw_data_access"}
    [] tier = "AttestedHarness" -> {"raw_data_access", "free_egress"}

RequiresAttestation(tier) == tier \in {"WhiteBoxNoEgress", "AttestedHarness"}

FeedbackLevel(tier) ==
  CASE tier = "BlackBox" -> "GateVerdictOnly"
    [] tier = "RedactedFeedback" -> "RedactedDiagnostics"
    [] OTHER -> "FullPlaintext"

-----------------------------------------------------------------------------
ImprovementBand(lift) ==
  CASE ~lift.finite \/ lift.delta <= 0 -> "none"
    [] lift.finite /\ 0 < lift.delta /\ lift.delta < ModerateFrom -> "small"
    [] lift.finite /\ ModerateFrom <= lift.delta /\ lift.delta < LargeFrom -> "moderate"
    [] lift.finite /\ LargeFrom <= lift.delta -> "large"

BucketN(n) ==
  CASE n < 12 -> 0
    [] n \in 12..49 -> 12
    [] n \in 50..199 -> 50
    [] n >= 200 -> 200

(* Mutant of Redact: the black box hands out the redacted summary. *)
RedactSummary(tier, lift, gate) ==
  IF FeedbackLevel(tier) = "FullPlaintext" THEN lift
  ELSE [cleared |-> Clears(gate, lift), band |-> ImprovementBand(lift),
        episodes |-> BucketN(lift.size)]

Redact(tier, lift, gate) ==
  CASE FeedbackLevel(tier) = "GateVerdictOnly" -> [cleared |-> Clears(gate, lift)]
    [] FeedbackLevel(tier) = "RedactedDiagnostics" ->
         [cleared |-> Clears(gate, lift), band |-> ImprovementBand(lift),
          episodes |-> BucketN(lift.size)]
    [] FeedbackLevel(tier) = "FullPlaintext" -> lift

-----------------------------------------------------------------------------
(* What an egress policy allows. NoPolicy is the context of a competition
   with nothing to protect: unrestricted. *)
NoPolicy == [allowlist |-> Hosts, defaultDeny |-> FALSE, present |-> FALSE]

EgressPolicy == [allowlist : SUBSET Hosts, defaultDeny : BOOLEAN, present : {TRUE}]

NoEgress == [allowlist |-> {}, defaultDeny |-> TRUE, present |-> TRUE]

-----------------------------------------------------------------------------
TeeType == {"None", "PhalaTdx", "AwsNitro", "GcpConfidential", "AzureSnp"}

(* Evidence and measurement are opaque bytes: all that is looked at is
   whether there are any. *)
AttestationReport == [tee : TeeType, evidence : BOOLEAN, measurement : BOOLEAN]

(* What LocalReferee reports of itself: a stand-in, no enclave. *)
LocalReport == [tee |-> "None", evidence |-> TRUE, measurement |-> TRUE]

(* Mutant of StructuralOk: the report's kind of enclave is not compared. *)
StructuralOkAnyTee(report, required) == report.evidence /\ report.measurement

StructuralOk(report, required) ==
  /\ report.tee = required
  /\ report.evidence
  /\ report.measurement

VerifyStructural(report, required) ==
  IF StructuralOk(report, required) THEN "StructurallyValid" ELSE "Failed"

=============================================================================
