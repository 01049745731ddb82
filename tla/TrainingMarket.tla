--------------------------- MODULE TrainingMarket ---------------------------
(***************************************************************************)
(* The continuous training leaderboard of autoresearch-verticals: it       *)
(* certifies every submission, has the record bounties settled in one      *)
(* call, and then works out a second time, submission by submission, what  *)
(* that call must have paid to whom.                                       *)
(***************************************************************************)
EXTENDS RewardSchedules

CONSTANTS
  Trainers,        \* researchers
  TrainedLifts,    \* bound: the held-out lift of a trained recipe over the baseline
  MarketGate,
  Epsilon, Rate,   \* of the record bounty, in micro-units and wei
  MaxSubmissions   \* bound

ASSUME MarketAssumption ==
  /\ TrainedLifts \subseteq Lift
  /\ MarketGate \in Gate
  /\ Epsilon \in Nat
  /\ Rate \in Nat

VARIABLES
  submitted,  \* results, in submission order
  beats,      \* those that cleared the gate: [source, researcher, micros]
  mirrored,   \* how many beats the second pass has looked at
  currentBest,
  owed,       \* what settle_record_bounty returned
  phase       \* "certifying", "settling", "done"

marketVars == <<submitted, beats, mirrored, currentBest, owed, phase>>

-----------------------------------------------------------------------------
Baseline == 0

CertifySubmission(researcher, lift) ==
  LET clears == Clears(MarketGate, lift)
      result == [researcher |-> researcher, certified |-> clears,
                 micros |-> IF clears THEN ToMicros(lift) ELSE Baseline,
                 record |-> FALSE, paid |-> 0]
  IN  /\ phase = "certifying"
      /\ Len(submitted) < MaxSubmissions
      /\ submitted' = Append(submitted, result)
      /\ beats' = IF clears
                  THEN Append(beats, [source |-> Len(submitted) + 1,
                                      researcher |-> researcher, micros |-> ToMicros(lift)])
                  ELSE beats
      /\ UNCHANGED <<mirrored, currentBest, owed, phase>>

SettleBeats ==
  /\ phase = "certifying"
  /\ phase' = "settling"
  /\ owed' = SettleRecordBounty(Baseline, beats, Epsilon, Rate)
  /\ UNCHANGED <<submitted, beats, mirrored, currentBest>>

(* Mutant of IsRecord: any improvement is one. *)
IsImprovement(beat) == SaturatingSub(beat.micros, currentBest) > 0

IsRecord(beat) ==
  LET marginal == SaturatingSub(beat.micros, currentBest)
  IN  marginal >= Epsilon /\ marginal > 0

Mirror ==
  LET beat == beats[mirrored + 1]
      wei == SaturatingMul(SaturatingSub(beat.micros, currentBest), Rate)
  IN  /\ phase = "settling"
      /\ mirrored < Len(beats)
      /\ mirrored' = mirrored + 1
      /\ IF IsRecord(beat)
         THEN /\ submitted' = [submitted EXCEPT ![beat.source].record = TRUE,
                                                ![beat.source].paid = wei]
              /\ currentBest' = beat.micros
         ELSE UNCHANGED <<submitted, currentBest>>
      /\ UNCHANGED <<beats, owed, phase>>

Finish ==
  /\ phase = "settling"
  /\ mirrored = Len(beats)
  /\ phase' = "done"
  /\ UNCHANGED <<submitted, beats, mirrored, currentBest, owed>>

-----------------------------------------------------------------------------
MarketInit ==
  /\ submitted = <<>>
  /\ beats = <<>>
  /\ mirrored = 0
  /\ currentBest = Baseline
  /\ owed = <<>>
  /\ phase = "certifying"

MarketNext ==
  \/ \E researcher \in Trainers, lift \in TrainedLifts : CertifySubmission(researcher, lift)
  \/ SettleBeats \/ Mirror \/ Finish

MarketSpec == MarketInit /\ [][MarketNext]_marketVars

-----------------------------------------------------------------------------
(* What the second pass says is owed, record by record. *)
Mirrored ==
  LET records == {i \in DOMAIN submitted : submitted[i].record}
  IN  \E at \in [DOMAIN owed -> records] :
        /\ \A k, m \in DOMAIN owed : k < m => at[k] < at[m]
        /\ records = {at[k] : k \in DOMAIN owed}
        /\ \A k \in DOMAIN owed :
             owed[k] = [researcher |-> submitted[at[k]].researcher, wei |-> submitted[at[k]].paid]

(* ContinuousTrainingMarket::run: the market's second account of who set a
   record and what it earned agrees with what was settled, nobody is paid
   for what did not certify, and however many submissions regress or miss
   epsilon, the frontier up to the final best is paid for once: exactly, if
   no price of it can saturate. *)
FrontierIsBoughtOnce ==
  phase = "done" =>
    /\ Mirrored
    /\ \A i \in DOMAIN submitted : submitted[i].record => submitted[i].certified
    /\ Rate * MaxMicros <= MaxWei => TotalWei(owed) = Rate * (currentBest - Baseline)
    /\ \A i \in DOMAIN submitted : submitted[i].certified =>
         submitted[i].micros < currentBest + Max({Epsilon, 1})

=============================================================================
