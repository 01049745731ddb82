-------------------------- MODULE ContinuousArena --------------------------
(***************************************************************************)
(* The operator's king-of-the-hill arena (autoresearch-protocol's          *)
(* ContinuousArena): certified results arrive one at a time, are recorded  *)
(* in an append-only log and paid from the log's own running total. The    *)
(* methods take &mut self and await only before their first assignment, so *)
(* each is one atomic step, and one that is cancelled, fails or is refused *)
(* changes nothing and is no step.                                         *)
(***************************************************************************)
EXTENDS RewardSchedules

CONSTANTS
  Researchers,  \* in the order of their ids
  Nobody,       \* the None of top_holder
  NoBest,       \* the None of best_micros
  TheGate,      \* the arena's gate
  Lifts,        \* bound: the lifts the scorer may certify
  Terms,        \* bound: the terms an arena is opened with
  LastEpoch     \* bound: the last epoch

(* A streaming schedule has no epsilon of its own: epsilon is then the one the
   contract records for the arena. *)
ArenaTerms ==
  [streaming : BOOLEAN, epsilon : Int, rate : 0..MaxWei,
   pool : 0..MaxWei, baseline : MinMicros..MaxMicros]

ASSUME ArenaAssumption ==
  /\ Researchers \subseteq Nat
  /\ Nobody \notin Researchers
  /\ NoBest \notin Int
  /\ TheGate \in Gate
  /\ Lifts \subseteq Lift
  /\ Terms \subseteq ArenaTerms
  /\ LastEpoch \in Nat

VARIABLES
  terms,      \* schedule, pool_wei and baseline_micros, fixed by new()
  best,       \* best_micros
  topHolder,  \* top_holder
  spent,      \* spent_wei
  epoch,
  history     \* the leaderboard log

standingVars == <<best, topHolder, spent, history>>
arenaVars == <<terms, standingVars, epoch>>

ArenaInit ==
  /\ terms \in Terms
  /\ best = NoBest
  /\ topHolder = Nobody
  /\ spent = 0
  /\ epoch = 0
  /\ history = <<>>

CurrentBar == IF best = NoBest THEN terms.baseline ELSE best

RemainingPool == terms.pool - spent

-----------------------------------------------------------------------------
Log(researcher, micros, paid, kind) ==
  history' = Append(history,
    [epoch |-> epoch', researcher |-> researcher, micros |-> micros,
     paid |-> paid, kind |-> kind])

BookRecord(researcher, micros, paid) ==
  /\ best' = micros
  /\ topHolder' = researcher
  /\ spent' = spent + paid
  /\ UNCHANGED <<terms, epoch>>
  /\ Log(researcher, micros, paid, "Record")

(* Mutant of Owed: an over-pool record is cut to what is left, and booked. *)
CutToPool(beat) == Lesser(BountyOwed(beat, CurrentBar, terms.rate), RemainingPool)

Owed(beat) == BountyOwed(beat, CurrentBar, terms.rate)

TryRecordBounty(researcher, micros) ==
  LET beat == [researcher |-> researcher, micros |-> micros]
      owed == Owed(beat)
  IN  /\ ~terms.streaming
      /\ Qualifies(beat, CurrentBar, terms.epsilon)
      /\ owed <= RemainingPool
      /\ BookRecord(researcher, micros, owed)

Improves(micros) == SaturatingSub(micros, CurrentBar) > 0

TryStreamingRecord(researcher, micros) ==
  /\ terms.streaming
  /\ Improves(micros)
  /\ BookRecord(researcher, micros, 0)

Submit(researcher, lift) ==
  /\ Clears(TheGate, lift)
  /\ \/ TryRecordBounty(researcher, ToMicros(lift))
     \/ TryStreamingRecord(researcher, ToMicros(lift))

-----------------------------------------------------------------------------
(* Mutant of EpochCredit: the last part is not paid. *)
FullCreditOnly ==
  IF terms.streaming /\ topHolder # Nobody /\ terms.rate <= RemainingPool
  THEN terms.rate ELSE 0

EpochCredit ==
  IF terms.streaming /\ topHolder # Nobody
  THEN Lesser(terms.rate, RemainingPool) ELSE 0

CreditHolder ==
  /\ EpochCredit # 0
  /\ epoch' = epoch + 1
  /\ spent' = spent + EpochCredit
  /\ UNCHANGED <<terms, best, topHolder>>
  /\ Log(topHolder, CurrentBar, EpochCredit, "EpochCredit")

(* A bounty arena, one without a holder or one that is spent only ages. *)
AdvanceClock ==
  /\ EpochCredit = 0
  /\ epoch' = epoch + 1
  /\ UNCHANGED <<terms, standingVars>>

TickEpoch == epoch < LastEpoch /\ (CreditHolder \/ AdvanceClock)

ArenaNext ==
  \/ \E researcher \in Researchers, lift \in Lifts : Submit(researcher, lift)
  \/ TickEpoch

ArenaSpec == ArenaInit /\ [][ArenaNext]_arenaVars

-----------------------------------------------------------------------------
(* standings(): the best per researcher, best first, ties by id, from the log. *)
LogOf(kind) == {i \in DOMAIN history : history[i].kind = kind}

RecordsBy(researcher) == {i \in LogOf("Record") : history[i].researcher = researcher}

Ranked == {history[i].researcher : i \in LogOf("Record")}

BestOf(researcher) == Max({history[i].micros : i \in RecordsBy(researcher)})

Above(a, b) ==
  \/ a.micros > b.micros
  \/ a.micros = b.micros /\ a.researcher < b.researcher

Standings ==
  LET bests == {[researcher |-> r, micros |-> BestOf(r)] : r \in Ranked}
  IN  CHOOSE s \in SetToSeqs(bests) : \A i, j \in DOMAIN s : i < j => Above(s[i], s[j])

(* The epochs each researcher held the top, as the log counts them. *)
CreditsTo(researcher) == {i \in LogOf("EpochCredit") : history[i].researcher = researcher}

EpochsHeld ==
  LET holders == SetToSeq({history[i].researcher : i \in LogOf("EpochCredit")})
  IN  [k \in DOMAIN holders |->
         [researcher |-> holders[k], epochs |-> Cardinality(CreditsTo(holders[k]))]]

StandingsMatchLive ==
  IF topHolder = Nobody THEN Standings = <<>>
  ELSE Head(Standings) = [researcher |-> topHolder, micros |-> best]

ReplayReproducesPayouts ==
  ~terms.streaming =>
    /\ LogOf("Record") = DOMAIN history
    /\ SettleRecordBounty(terms.baseline, history, terms.epsilon, terms.rate) =
         [i \in DOMAIN history |->
            [researcher |-> history[i].researcher, wei |-> history[i].paid]]

EpochsReproduceCredits ==
  terms.streaming /\ spent < terms.pool =>
    TotalWei(SettleTimeAtTop(EpochsHeld, terms.rate)) = spent

(* append-only log: whoever has only the log finds the holder of the top and the
   best that the live arena pays by, every bounty by replaying the records
   through the batch settler, also when the pool binds and at the ends of the
   integer ranges, and, until the pool runs out, the credits of a stream. *)
LogReproducesArena ==
  StandingsMatchLive /\ ReplayReproducesPayouts /\ EpochsReproduceCredits

(* A margin that saturates i64 is paid short, unless it is priced at nothing
   or, like every margin that large, costs more than the pool and is refused. *)
PricedExactly ==
  terms.streaming \/ terms.rate = 0 \/ terms.pool < Lesser(MaxWei, terms.rate * MaxMicros)

Standing ==
  [best |-> CurrentBar, holder |-> topHolder, spent |-> spent, epoch |-> epoch]

OpenTerms ==
  [open |-> PricedExactly, streaming |-> terms.streaming, epsilon |-> terms.epsilon,
   rate |-> terms.rate, pool |-> terms.pool, baseline |-> terms.baseline]

(* An arena that prices margins exactly behaves as KingOfTheHill promises, like
   the contract's; to the abstraction any other is one that never opens. *)
Hill == INSTANCE KingOfTheHill WITH
  Arenas <- {"arena"},
  terms <- [a \in {"arena"} |-> OpenTerms],
  standing <- [a \in {"arena"} |-> IF PricedExactly THEN Standing ELSE Nobody]

ImplementsKingOfTheHill == Hill!HillSpec

=============================================================================
