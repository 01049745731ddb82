--------------------------- MODULE OneshotRunner ---------------------------
(***************************************************************************)
(* The one-shot competitive runner (autoresearch-protocol's orchestrator): *)
(* one researcher after another produces a candidate, which is validated,  *)
(* scored and gated; the survivors are ranked and the pool is settled over *)
(* the ranking. Any failure on the way abandons the whole run.             *)
(***************************************************************************)
EXTENDS RewardSchedules

CONSTANTS
  Researchers,  \* in the order of their ids
  TheGate,      \* the competition's gate
  Lifts,        \* bound: what a candidate's lift may be measured as
  Rewards,      \* bound: the reward schedules
  Pools         \* bound: reward_pool_wei

RewardSchedule ==
  [kind : {"SnapshotTopK", "TerminalPrize", "RecordBounty", "TimeAtTopStreaming"},
   weights : Seq(Nat)]

ASSUME RunnerAssumption ==
  /\ Researchers \subseteq Nat /\ IsFiniteSet(Researchers)
  /\ TheGate \in Gate
  /\ Lifts \subseteq Lift
  /\ Rewards \subseteq RewardSchedule
  /\ Pools \subseteq 0..MaxWei

VARIABLES
  reward, pool,  \* the competition's configuration
  measured,      \* researcher -> the lift its candidate has
  queue,         \* the researchers still to run, in the caller's order
  survivors,     \* those that cleared the gate, in the order they ran
  stage, payouts

config == <<reward, pool, measured>>
runnerVars == <<config, queue, survivors, stage, payouts>>

TypeOK ==
  /\ reward \in Rewards
  /\ pool \in Pools
  /\ measured \in [Researchers -> Lifts]
  /\ queue \in Seq(Researchers)
  /\ survivors \in Seq(Researchers)
  /\ stage \in {"configured", "running", "settled", "failed"}
  /\ payouts \in Seq([researcher : Researchers, wei : 1..MaxWei])

Init ==
  /\ reward \in Rewards
  /\ pool \in Pools
  /\ measured \in [Researchers -> Lifts]
  /\ queue \in SetToSeqs(Researchers)
  /\ survivors = <<>>
  /\ stage = "configured"
  /\ payouts = <<>>

-----------------------------------------------------------------------------
Conserving == reward.kind = "SnapshotTopK" => ValidWeights(reward.weights)

Start ==
  /\ stage = "configured"
  /\ Conserving
  /\ stage' = "running"
  /\ UNCHANGED <<config, queue, survivors, payouts>>

Evaluate ==
  LET r == Head(queue)
  IN  /\ stage = "running"
      /\ queue # <<>>
      /\ queue' = Tail(queue)
      /\ survivors' = IF Clears(TheGate, measured[r]) THEN Append(survivors, r) ELSE survivors
      /\ UNCHANGED <<config, stage, payouts>>

(* Incoherent knobs or a schedule that cannot conserve; the scorer fails on the
   baseline; an engine, the surface or the scorer fails on a candidate. *)
Fail ==
  /\ stage = "configured" \/ (stage = "running" /\ queue # <<>>)
  /\ stage' = "failed"
  /\ UNCHANGED <<config, queue, survivors, payouts>>

(* Mutant of RanksBefore: ties on the delta are left in running order. *)
RanksByDelta(a, b) == measured[a].delta > measured[b].delta

RanksBefore(a, b) ==
  \/ measured[a].delta > measured[b].delta
  \/ /\ measured[a].delta = measured[b].delta
     /\ \/ measured[a].lower > measured[b].lower
        \/ measured[a].lower = measured[b].lower /\ a < b

(* The survivors, none behind one it ranks before: the one sorted order, since
   ids differ. *)
Rankings ==
  {ranking \in SetToSeqs(ToSet(survivors)) :
     \A i, j \in DOMAIN ranking : i < j => ~RanksBefore(ranking[j], ranking[i])}

Supported == reward.kind \in {"SnapshotTopK", "TerminalPrize"}

SettleTerminalOrTopK(ranking) ==
  IF reward.kind = "TerminalPrize" THEN SettleTerminalPrize(pool, ranking)
  ELSE SettleSnapshotTopK(pool, ranking, reward.weights)

Settle ==
  /\ stage = "running"
  /\ queue = <<>>
  /\ Supported
  /\ stage' = "settled"
  /\ survivors' \in Rankings
  /\ payouts' = SettleTerminalOrTopK(survivors')
  /\ UNCHANGED <<config, queue>>

(* A continuous schedule is found out only when everybody has run. *)
RejectReward ==
  /\ stage = "running"
  /\ queue = <<>>
  /\ ~Supported
  /\ stage' = "failed"
  /\ UNCHANGED <<config, queue, survivors, payouts>>

Next == Start \/ Evaluate \/ Fail \/ Settle \/ RejectReward

Spec == Init /\ [][Next]_runnerVars

-----------------------------------------------------------------------------
Cleared == {r \in Researchers : Clears(TheGate, measured[r])}

Standing(r) == <<-measured[r].delta, -measured[r].lower, r>>

Precedes(s, t) ==
  \E i \in 1..3 : s[i] < t[i] /\ \A j \in 1..(i - 1) : s[j] = t[j]

RankOf(r) == 1 + Cardinality({q \in Cleared : Precedes(Standing(q), Standing(r))})

Due(r) ==
  IF r \notin Cleared THEN 0
  ELSE IF reward.kind = "TerminalPrize" THEN IF RankOf(r) = 1 THEN pool ELSE 0
  ELSE IF RankOf(r) > Len(reward.weights) THEN 0
  ELSE MulBps(pool, reward.weights[RankOf(r)])

PaidTo(r) ==
  SumOf([i \in DOMAIN payouts |-> IF payouts[i].researcher = r THEN payouts[i].wei ELSE 0])

(* Everybody is paid the basis points of the pool that its place among all who
   cleared the gate is worth, whatever the order in which the caller ran them,
   and nobody else is paid: what is left of the pool never cuts a share short. *)
EachIsPaidForItsRank ==
  stage = "settled" => \A r \in Researchers : PaidTo(r) = Due(r)

=============================================================================
