-------------------------- MODULE RewardSchedules --------------------------
(***************************************************************************)
(* The settlement functions of autoresearch-runtime's reward module: pure  *)
(* functions from certified results to payouts, in integer wei.            *)
(***************************************************************************)
EXTENDS Gates, WeiArithmetic, Tallies, SequencesExt, FiniteSetsExt

TotalWei(payouts) == SumOf([i \in DOMAIN payouts |-> payouts[i].wei])

-----------------------------------------------------------------------------
BountyOwed(beat, best, weiPerMicro) ==
  SaturatingMul(SaturatingSub(beat.micros, best), weiPerMicro)

Qualifies(beat, best, epsilon) ==
  LET marginal == SaturatingSub(beat.micros, best)
  IN  marginal >= epsilon /\ marginal > 0

(* The bar and the payouts after one beat more. *)
AfterBeat(run, beat, epsilon, weiPerMicro) ==
  IF Qualifies(beat, run.best, epsilon)
  THEN [best |-> beat.micros,
        payouts |-> Append(run.payouts,
          [researcher |-> beat.researcher,
           wei |-> BountyOwed(beat, run.best, weiPerMicro)])]
  ELSE run

(* settle_record_bounty over a sequence of [researcher, micros] beats. *)
Replay(baseline, beats, epsilon, weiPerMicro) ==
  LET run[n \in 0..Len(beats)] ==
        IF n = 0 THEN [best |-> baseline, payouts |-> <<>>]
        ELSE AfterBeat(run[n - 1], beats[n], epsilon, weiPerMicro)
  IN  run[Len(beats)]

SettleRecordBounty(baseline, beats, epsilon, weiPerMicro) ==
  Replay(baseline, beats, epsilon, weiPerMicro).payouts

(* settle_time_at_top over a sequence of [researcher, epochs] holders. *)
AfterHolder(payouts, holder, weiPerEpoch) ==
  LET wei == holder.epochs * weiPerEpoch
  IN  IF wei > 0 THEN Append(payouts, [researcher |-> holder.researcher, wei |-> wei])
      ELSE payouts

SettleTimeAtTop(holders, weiPerEpoch) ==
  LET paid[n \in 0..Len(holders)] ==
        IF n = 0 THEN <<>> ELSE AfterHolder(paid[n - 1], holders[n], weiPerEpoch)
  IN  paid[Len(holders)]

-----------------------------------------------------------------------------
(* RewardSchedule::validate of SnapshotTopK. *)
ValidWeights(weights) == weights # <<>> /\ SumOf(weights) <= BpsDenom

Share(pool, weight, remaining) ==
  Lesser(MulBps(pool, weight), remaining)

(* What is left of the pool, and the payouts, after one rank more. *)
AfterRank(run, pool, researcher, weight) ==
  LET share == Share(pool, weight, run.remaining)
  IN  IF share = 0 THEN run
      ELSE [remaining |-> run.remaining - share,
            payouts |-> Append(run.payouts, [researcher |-> researcher, wei |-> share])]

(* settle_snapshot_topk: `ranked` is best first. *)
SettleSnapshotTopK(pool, ranked, weights) ==
  LET ranks == Lesser(Len(ranked), Len(weights))
      run[n \in 0..ranks] ==
        IF n = 0 THEN [remaining |-> pool, payouts |-> <<>>]
        ELSE AfterRank(run[n - 1], pool, ranked[n], weights[n])
  IN  run[ranks].payouts

SettleTerminalPrize(pool, ranked) ==
  IF ranked = <<>> \/ pool = 0 THEN <<>>
  ELSE <<[researcher |-> Head(ranked), wei |-> pool]>>

=============================================================================
