--------------------------- MODULE PrivateRunner ---------------------------
(***************************************************************************)
(* The private competitive runner of autoresearch-protocol: a loop and a   *)
(* ranking of its own, behind a set-up that refuses what a privacy tier    *)
(* forbids, with every candidate certified by the local referee and every  *)
(* researcher answered with feedback cut down to the tier. It shares the   *)
(* settlement with the public runner, which is the tier "Public" here.     *)
(***************************************************************************)
EXTENDS OneshotRunner, PrivacyRules

CONSTANT Setups  \* bound: the privacy controls a competition is run with

Public == "Public"

Setup ==
  [tier : PrivacyTier \cup {Public}, tee : TeeType,
   egress : EgressPolicy \cup {NoPolicy}, sealed : SUBSET Researchers]

ASSUME SetupAssumption == Setups \subseteq Setup

VARIABLES
  setup,     \* tier, required TEE, egress policy, and whose engines are sealed
  contexts,  \* what the engines were handed, in running order
  feedback,  \* what the researchers are told, in the same order
  verdict    \* on the referee's attestation

privateVars == <<runnerVars, setup, contexts, feedback, verdict>>

PrivateInit ==
  /\ Init
  /\ setup \in Setups
  /\ contexts = <<>>
  /\ feedback = <<>>
  /\ verdict = "Unverified"

-----------------------------------------------------------------------------
Permitted == Capabilities(setup.tier)

(* The isolation of one engine stands for that of all. *)
EnginesSealed == queue = <<>> \/ Head(queue) \in setup.sealed

AttestationDemanded ==
  RequiresAttestation(setup.tier) => setup.tee # "None" /\ EnginesSealed

EgressBrokered ==
  "free_egress" \in Permitted \/ (setup.egress.present /\ setup.egress.defaultDeny)

AttestationHolds == setup.tee = "None" \/ StructuralOk(LocalReport, setup.tee)

PrivateStart ==
  /\ setup.tier # Public
  /\ stage = "configured"
  /\ Conserving
  /\ ExfiltrationSafe(Permitted)
  /\ AttestationDemanded
  /\ EgressBrokered
  /\ AttestationHolds
  /\ stage' = "running"
  /\ verdict' = IF setup.tee = "None" THEN "Unverified"
                ELSE VerifyStructural(LocalReport, setup.tee)
  /\ UNCHANGED <<config, queue, survivors, payouts, setup, contexts, feedback>>

-----------------------------------------------------------------------------
(* The data are the proposer's only in a private competition: the public
   development split is everybody's. *)
Context(r) ==
  [researcher |-> r,
   rawData |-> setup.tier # Public /\ "raw_data_access" \in Permitted,
   egress |-> IF setup.tier = Public THEN NoPolicy ELSE setup.egress]

View(r) == [researcher |-> r, told |-> Redact(setup.tier, measured[r], TheGate)]

PrivateEvaluate ==
  LET r == Head(queue)
  IN  /\ setup.tier # Public
      /\ stage = "running"
      /\ queue # <<>>
      /\ queue' = Tail(queue)
      /\ contexts' = Append(contexts, Context(r))
      /\ feedback' = Append(feedback, View(r))
      /\ survivors' = IF Clears(TheGate, measured[r]) THEN Append(survivors, r) ELSE survivors
      /\ UNCHANGED <<config, stage, payouts, setup, verdict>>

(* The set-up refuses; or an engine, which has its context by then, the
   surface or the referee fails, and the run returns nothing it had. *)
PrivateFail ==
  /\ setup.tier # Public
  /\ \/ stage = "configured" /\ UNCHANGED contexts
     \/ /\ stage = "running" /\ queue # <<>>
        /\ contexts' = Append(contexts, Context(Head(queue)))
  /\ stage' = "failed"
  /\ feedback' = <<>>
  /\ UNCHANGED <<config, queue, survivors, payouts, setup, verdict>>

-----------------------------------------------------------------------------
(* The private runner's own ranking: a chain of three-way comparisons, the
   best first. Whatever cleared the gate is a number, so none is undecided. *)
Compare(x, y) == IF x < y THEN "Less" ELSE IF x = y THEN "Equal" ELSE "Greater"

ThenWith(ordering, next) == IF ordering = "Equal" THEN next ELSE ordering

(* Mutant of RankOrdering: the bound is left out, and ids break ties on the delta. *)
OrderByDelta(a, b) ==
  ThenWith(Compare(measured[b].delta, measured[a].delta), Compare(a, b))

RankOrdering(a, b) ==
  ThenWith(Compare(measured[b].delta, measured[a].delta),
           ThenWith(Compare(measured[b].lower, measured[a].lower), Compare(a, b)))

Ranked ==
  {ranking \in SetToSeqs(ToSet(survivors)) :
     \A i, j \in DOMAIN ranking : i < j => RankOrdering(ranking[i], ranking[j]) # "Greater"}

PrivateSettle ==
  /\ setup.tier # Public
  /\ stage = "running"
  /\ queue = <<>>
  /\ Supported
  /\ survivors' \in Ranked
  /\ payouts' = SettleTerminalOrTopK(survivors')
  /\ stage' = "settled"
  /\ UNCHANGED <<config, queue, setup, contexts, feedback, verdict>>

PrivateRejectReward ==
  /\ setup.tier # Public
  /\ stage = "running"
  /\ queue = <<>>
  /\ ~Supported
  /\ stage' = "failed"
  /\ feedback' = <<>>
  /\ UNCHANGED <<config, queue, survivors, payouts, setup, contexts, verdict>>

(* The public runner hands its contexts out all the same; nothing is told. *)
PublicRun ==
  /\ setup.tier = Public
  /\ Next
  /\ contexts' = IF queue # <<>> /\ stage = "running"
                 THEN Append(contexts, Context(Head(queue))) ELSE contexts
  /\ UNCHANGED <<setup, feedback, verdict>>

PrivateNext ==
  \/ PublicRun
  \/ PrivateStart \/ PrivateEvaluate \/ PrivateFail
  \/ PrivateSettle \/ PrivateRejectReward

PrivateSpec == PrivateInit /\ [][PrivateNext]_privateVars

-----------------------------------------------------------------------------
(* run_private_competitive: as long as the referee is the local stand-in, no
   engine is handed the proposer's data, whatever the tier, the TEE demanded
   and the engines are. It takes two of the refusals: the demand for a TEE by
   the tier, and the failed check of the report against that demand. *)
NoRawDataWithoutEnclave ==
  \A i \in 1..Len(contexts) : ~contexts[i].rawData

(* redact: in the black box two candidates with the same verdict look the same
   to their researchers, and at every level that runs the verdict told is the
   one the operator settles on. *)
FeedbackIsTheVerdict ==
  ~RequiresAttestation(setup.tier) => \A i, j \in 1..Len(feedback) :
    LET v == feedback[i]
        w == feedback[j]
    IN  /\ v.told.cleared <=> v.researcher \in Cleared
        /\ setup.tier = "BlackBox" /\ v.told.cleared = w.told.cleared => v.told = w.told

(* run_private_competitive against run_oneshot_competitive: the second copy of
   the gate, the loop and the ranking never parts from the first. For the same
   candidates a private run that gets past its set-up keeps the same survivors,
   ranks them alike, and so pays each of them the same. *)
ImplementsPublicRunner == Spec

=============================================================================
