--------------------------- MODULE ResearchSearch ---------------------------
(***************************************************************************)
(* How researchers look for a better artifact and the referee measures     *)
(* what they found: the black-box optimizer, which only puts queries to a  *)
(* private oracle that counts them, the local search of                    *)
(* autoresearch-generic-engine on development scores, and engines that     *)
(* submit without searching. They run one after another, as the runners    *)
(* drive them, against the one scorer of their competition.                *)
(***************************************************************************)
EXTENDS VerticalScorers, Tallies, TLC

CONSTANTS
  Tasks,      \* bound: [scorer, start, reach, n, limit], see TaskAssumption
  Squads,     \* bound: the engines that run on a task, in order
  Errors,     \* bound: how far the noise may push a mean, within its amplitude
  TheGate,    \* the competition's gate
  Unseen      \* the score of an engine that has seen none

Unlimited == -1

SearchScorers == {"Proof", "Program", "Solver", "Forecast", "Agent", "Linear"}
RefereeScorers == {"PrivateOracle", "Hardware", "HumanPanel"}

EngineKinds == {"BlackBox", "Local", "Fixed", "Subprocess"}

ASSUME TaskAssumption ==
  /\ TheGate \in Gate
  /\ Errors \subseteq Int
  /\ \A t \in Tasks :
       /\ t.scorer \in SearchScorers \cup RefereeScorers
       /\ t.start \in t.reach      \* what a search departs from, and can get to
       /\ t.reach \subseteq ArtifactOf(t.scorer)
       /\ t.n \in Nat              \* what a sampling scorer is configured with
       /\ t.limit \in Nat \cup {Unlimited}  \* of the oracle's SubmissionBudget
  /\ Squads \subseteq Seq([kind : EngineKinds, budget : Nat])

VARIABLES
  task, squad,   \* the competition
  turn,          \* the engine at work
  step,          \* "start", "search", "produced"
  best, seen,    \* its best artifact, and the score it has seen of it
  spent,         \* the queries or proposals it has spent
  answered,      \* engine -> the queries the oracle has answered it
  used,          \* SubmissionBudget.used
  results        \* what the referee measured, in running order

searchVars == <<task, squad, turn, step, best, seen, spent, answered, used, results>>

(* An optimizer borrows a private oracle. The local search owns a clone of its
   scorer, which the referee's own kinds do not allow. *)
Fits(t, engine) ==
  /\ engine.kind = "BlackBox" => t.scorer = "PrivateOracle"
  /\ engine.kind = "Local" => t.scorer \in SearchScorers

SearchInit ==
  /\ task \in Tasks
  /\ squad \in {s \in Squads : \A i \in DOMAIN s : Fits(task, s[i])}
  /\ turn = 1
  /\ step = "start"
  /\ best = task.start
  /\ seen = Unseen
  /\ spent = 0
  /\ answered = [i \in DOMAIN squad |-> 0]
  /\ used = 0
  /\ results = <<>>

-----------------------------------------------------------------------------
Value(t, artifact, split) ==
  CASE t.scorer = "Proof" -> ProofValue(artifact, split)
    [] t.scorer = "Program" -> MeanSpeedup(artifact, split)
    [] t.scorer = "Solver" -> Objective(artifact, split)
    [] t.scorer = "Forecast" -> ForecastValue(artifact, split)
    [] t.scorer = "Agent" -> ExpectedPassRate(artifact, split)
    [] t.scorer = "Linear" -> Accuracy(artifact, split)
    [] t.scorer = "PrivateOracle" -> PerturbedCloseness(artifact)
    [] t.scorer = "Hardware" -> HardwareValue(artifact)
    [] t.scorer = "HumanPanel" -> PanelMean(Sanitize(artifact.verdicts))

(* A rejected proof and an incorrect program are measured without noise. *)
Refused(t, artifact) ==
  \/ t.scorer = "Proof" /\ ~Accepted(artifact, HeldOut)
  \/ t.scorer = "Program" /\ ~Correct(artifact)

Sampled == {"Proof", "Program", "Solver", "Forecast"}

(* By how much the noise can move the mean of the samples. An agent's pass rate
   counts independent draws: it may come out as anything. *)
Noise(t) ==
  CASE t.scorer = "Proof" -> 200
    [] t.scorer = "Program" -> 60
    [] t.scorer = "Solver" -> 120
    [] t.scorer = "Forecast" -> 100
    [] t.scorer = "Agent" -> Scale
    [] OTHER -> 0

Disturbances(t) == {Within(-Noise(t), Noise(t), error) : error \in Errors}

Samples(t, artifact, split) ==
  CASE t.scorer = "HumanPanel" -> Len(Sanitize(artifact.verdicts))
    [] t.scorer = "PrivateOracle" -> 96
    [] t.scorer = "Hardware" -> 64
    [] t.scorer = "Linear" -> Points[split]
    [] OTHER -> Max({t.n, 1})

(* The confidence interval of a measured value. One sample has no spread, nor
   has what is refused. *)
Interval(t, artifact, n, value) ==
  LET around(half) == [low |-> value - half, high |-> value + half]
      onScale(half) == [low |-> Unit(value - half), high |-> Unit(value + half)]
      wilson == Wilson(value, n)
  IN  CASE t.scorer \in Sampled ->
             around(IF Refused(t, artifact) \/ n = 1 THEN 0 ELSE SampleHalf(Noise(t), n))
        [] t.scorer = "Agent" ->
             [low |-> Min({wilson.low, value}), high |-> Max({wilson.high, value})]
        [] t.scorer = "Linear" -> wilson
        [] t.scorer \in {"PrivateOracle", "Hardware"} -> onScale(OracleHalf(n))
        [] t.scorer = "HumanPanel" -> onScale(PanelHalf(Sanitize(artifact.verdicts)))

Measurement(t, artifact, split, error) ==
  LET mean == Value(t, artifact, split) + IF Refused(t, artifact) THEN 0 ELSE error
      value == IF t.scorer \in {"Proof", "Forecast"} THEN mean ELSE Unit(mean)
      n == Samples(t, artifact, split)
      interval == Interval(t, artifact, n, value)
  IN  [value |-> value, low |-> interval.low, high |-> interval.high, n |-> n]

(* lift.rs: no interval at all is taken for that of a proportion. *)
HalfWidth(m) ==
  IF m.high > m.low THEN (m.high - m.low + 1) \div 2
  ELSE (196 * Root((Unit(m.value) * (Scale - Unit(m.value))) \div m.n)) \div 100

EstimateLift(candidate, baseline) ==
  LET delta == candidate.value - baseline.value
  IN  [finite |-> TRUE, delta |-> delta, n |-> Min({candidate.n, baseline.n}),
       lower |-> delta - Root(Square(HalfWidth(candidate)) + Square(HalfWidth(baseline))),
       cost |-> candidate.n, size |-> candidate.n]

-----------------------------------------------------------------------------
Engine == squad[turn]

AtWork(name) == turn <= Len(squad) /\ step = name

(* SubmissionBudget::try_consume. *)
MayQuery == task.limit = Unlimited \/ used < task.limit

(* Mutant of Query: the budget is looked at and not used up. *)
QueryForFree ==
  /\ used < task.limit \/ task.limit = Unlimited
  /\ answered' = [answered EXCEPT ![turn] = @ + 1]
  /\ UNCHANGED used

(* PrivateOracleScorer::query, of a point all of whose parameters are finite. *)
Query ==
  /\ MayQuery
  /\ used' = IF task.limit = Unlimited THEN used ELSE used + 1
  /\ answered' = [answered EXCEPT ![turn] = @ + 1]

Produce(artifact, score) ==
  /\ step' = "produced"
  /\ best' = artifact
  /\ seen' = score

(* Whatever the budget of the engine, it puts a first query. *)
StartOracleSearch ==
  /\ AtWork("start")
  /\ Engine.kind = "BlackBox"
  /\ \/ /\ Query
        /\ step' = "search"
        /\ seen' = Value(task, best, Dev)
        /\ spent' = 1
        /\ UNCHANGED best
     \/ /\ ~MayQuery
        /\ Produce(task.start, Unseen)
        /\ UNCHANGED <<spent, answered, used>>
  /\ UNCHANGED <<task, squad, turn, results>>

StartLocalSearch ==
  /\ AtWork("start")
  /\ Engine.kind = "Local"
  /\ step' = "search"
  /\ seen' = Value(task, best, Dev)
  /\ UNCHANGED <<task, squad, turn, best, spent, answered, used, results>>

(* Mutant of Keep: the last candidate is kept. *)
KeepAnyway(candidate, score) ==
  /\ best' = candidate
  /\ seen' = score

Keep(candidate, score) ==
  IF score > seen THEN best' = candidate /\ seen' = score ELSE UNCHANGED <<best, seen>>

Propose(candidate) ==
  /\ AtWork("search")
  /\ spent < Engine.budget
  /\ spent' = spent + 1
  /\ Keep(candidate, Value(task, candidate, Dev))
  /\ IF Engine.kind = "BlackBox" THEN Query ELSE UNCHANGED <<answered, used>>
  /\ UNCHANGED <<task, squad, turn, step, results>>

EndSearch ==
  /\ AtWork("search")
  /\ spent >= Engine.budget \/ (Engine.kind = "BlackBox" /\ ~MayQuery)
  /\ Produce(best, seen)
  /\ UNCHANGED <<task, squad, turn, spent, answered, used, results>>

Submit(artifact) ==
  /\ AtWork("start")
  /\ Engine.kind = "Fixed"
  /\ Produce(artifact, Unseen)
  /\ UNCHANGED <<task, squad, turn, spent, answered, used, results>>

(* The driver fails, or answers with text and no parameters, which no surface
   accepts. The runner abandons the run. *)
FailRun ==
  /\ AtWork("start")
  /\ Engine.kind = "Subprocess"
  /\ turn' = Len(squad) + 1
  /\ results' = <<>>
  /\ UNCHANGED <<task, squad, step, best, seen, spent, answered, used>>

-----------------------------------------------------------------------------
(* Mutant of RefereeSplit: the referee scores what the researcher saw. *)
DevSplit == Dev

RefereeSplit == HeldOut

(* The referee measures baseline and candidate on the held-out split, by the
   scorer's `score`, which leaves the oracle's budget alone. *)
Certify(error, other) ==
  LET measured(artifact, e) == Measurement(task, artifact, RefereeSplit, e)
      lift == EstimateLift(measured(best, error), measured(task.start, other))
  IN  /\ AtWork("produced")
      /\ best = task.start => error = other  \* noise is a function of the artifact
      /\ results' = Append(results,
           [artifact |-> best, seen |-> seen, lift |-> lift,
            cleared |-> Clears(TheGate, lift)])
      /\ turn' = turn + 1
      /\ step' = "start"
      /\ best' = task.start
      /\ seen' = Unseen
      /\ spent' = 0
      /\ UNCHANGED <<task, squad, answered, used>>

SearchNext ==
  \/ StartOracleSearch \/ StartLocalSearch \/ EndSearch \/ FailRun
  \/ \E candidate \in task.reach : Propose(candidate) \/ Submit(candidate)
  \/ \E error, other \in Disturbances(task) : Certify(error, other)

SearchSpec == SearchInit /\ [][SearchNext]_searchVars

-----------------------------------------------------------------------------
(* PrivateOracleScorer: what the oracle has answered is counted, over all the
   researchers and whoever comes first, and never exceeds its limit; no
   engine is answered more than its own budget, but for the query it starts
   with; and certification is not counted. *)
QueriesWithinBudgets ==
  /\ task.limit # Unlimited =>
       used = Tally(answered) /\ used <= task.limit
  /\ \A i \in DOMAIN squad : answered[i] <= Max({squad[i].budget, 1})

(* BlackBoxOptimizerEngine::search: however its search is cut off, the referee
   certifies to the point what the researcher has seen, and a researcher that
   has seen anything is never worse off than where it started. *)
SeenIsCertified ==
  \A i \in DOMAIN results :
    task.scorer = "PrivateOracle" /\ results[i].seen # Unseen =>
      /\ results[i].lift.delta = results[i].seen - Value(task, task.start, Dev)
      /\ results[i].lift.delta >= 0

(* "A researcher who over-searches the dev signal": whatever was made of the
   development split, nobody clears the gate with a proof that the stricter
   checker rejects or a program that is wrong; and the lift on the held-out
   split falls short of the gate by no more than the noise of two scores. Of an
   agent nothing is claimed: its draws may all be lucky. *)
WinnersHoldUp ==
  \A i \in DOMAIN results :
    LET a == results[i].artifact
    IN  results[i].cleared =>
          /\ ~Refused(task, a)
          /\ task.scorer # "Agent" =>
               Value(task, a, HeldOut) - Value(task, task.start, HeldOut)
                 >= TheGate.minLower - 2 * Noise(task)

=============================================================================
