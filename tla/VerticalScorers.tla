-------------------------- MODULE VerticalScorers --------------------------
(***************************************************************************)
(* The scorers of autoresearch-verticals: what each makes of an artifact   *)
(* on the development split, which researchers see, and on the held-out    *)
(* split, which is paid for. Values and interval bounds are integers in    *)
(* ten-thousandths. Hashes and pseudo-random streams are left out; the     *)
(* evaluation noise they make is an error of the mean.                     *)
(***************************************************************************)
EXTENDS RewardSchedules

CONSTANT NotANumber  \* a verdict that is not finite

ASSUME VerdictAssumption == NotANumber \notin Int

Scale == 10000
Dev == "Dev"
HeldOut == "HeldOut"

Within(low, high, value) == Max({low, Min({high, value})})

Unit(value) == Within(0, Scale, value)

Square(i) == i * i

(* The root of a square, rounded up. *)
Root(square) == CHOOSE r \in 0..(2 * Scale) : Square(r) >= square /\ (r > 0 => Square(r - 1) < square)

-----------------------------------------------------------------------------
(* A proof is its distance from the valid centre, in tenths. *)
Radius == [Dev |-> 15, HeldOut |-> 10]
InvalidValue == -1000 * Scale

Accepted(proof, split) == proof.finite /\ proof.distance <= Radius[split]

ProofValue(proof, split) ==
  IF Accepted(proof, split) THEN (98 * Scale) - proof.distance * 8000 ELSE InvalidValue

(* A program is its recipe: how far it unrolls, vectorizes and blocks. *)
Optimum == [Dev |-> <<40, 80, 20>>, HeldOut |-> <<46, 88, 23>>]
Curvature == <<20, 12, 30>>

Correct(recipe) ==
  /\ \A knob \in 1..3 : recipe[knob] >= 0
  /\ recipe[1] * recipe[2] <= 120

MeanSpeedup(recipe, split) ==
  LET penalty(knob) == Curvature[knob] * Square(10 * recipe[knob] - Optimum[split][knob])
  IN  IF Correct(recipe) THEN Unit(7000 - SumOf([k \in 1..3 |-> penalty(k)]) \div 10) ELSE 0

(* A heuristic is where its weights lie on the line from the optimum of the
   development instances (0) through that of the held-out ones (1). *)
Closeness == <<10000, 8395, 4966, 2071, 608, 126, 18>>

Objective(heuristic, split) ==
  LET off == IF split = Dev THEN heuristic ELSE heuristic - 1
      steps == IF off >= 0 THEN off ELSE -off
  IN  5500 + (4200 * Closeness[1 + Min({steps, 6})]) \div Scale

(* A forecaster has an error on each window, and pays for its coefficients on
   the held-out one. *)
ForecastValue(model, split) ==
  -(model.rmse[split] + IF split = HeldOut THEN 150 * model.complexity ELSE 0)

(* An agent profile: four capabilities and an overfit, in per cent. *)
ExpectedPassRate(profile, split) ==
  LET capability == (40 * profile.skill + 25 * profile.prompt
                     + 20 * profile.tool + 15 * profile.memory) \div 100
      base == 2000 + 80 * capability
  IN  Unit(IF split = Dev THEN base + 18 * profile.overfit
           ELSE base - 200 - 30 * profile.overfit)

(* A classifier is how many points of each split it gets right. *)
Points == [Dev |-> 120, HeldOut |-> 80]

Accuracy(classifier, split) == (classifier[split] * Scale) \div Points[split]

-----------------------------------------------------------------------------
(* A point is its distance from the secret and the factor of its artifact. *)
OraclePoint == [distance : Nat, factor : Nat]

(* The private oracle: closeness falls with the squared distance from the
   secret, times a factor that depends on the artifact alone. Both splits are
   the same. What is recorded of a point is the exponent, in hundredths. *)
Exponential(exponent) == (Scale * 100) \div (100 + exponent + Square(exponent) \div 200)

PerturbedCloseness(point) == Exponential((point.distance * point.factor) \div 100)

(* Privileged hardware: the same curve, without the factor. *)
HardwareValue(point) == Exponential(point.distance)

NeutralVerdict == 50

(* The verdicts that are numbers, in their order. *)
Finite(verdicts) ==
  LET kept[n \in 0..Len(verdicts)] ==
        IF n = 0 THEN <<>>
        ELSE IF verdicts[n] = NotANumber THEN kept[n - 1]
        ELSE Append(kept[n - 1], verdicts[n])
  IN  kept[Len(verdicts)]

Sanitize(verdicts) ==
  LET cleaned == Finite(verdicts)
  IN  IF cleaned = <<>> THEN <<NeutralVerdict>>
      ELSE [i \in DOMAIN cleaned |-> Within(0, 100, cleaned[i])]

PanelMean(panel) == (SumOf(panel) * 100) \div Len(panel)

(* One judge has no spread: it is given the variance of a quarter. *)
PanelHalf(panel) ==
  LET n == Len(panel)
      deviation(i) == Square(panel[i] * 100 - PanelMean(panel)) \div 100
  IN  IF n = 1 THEN 9800
      ELSE (196 * Root(SumOf([i \in 1..n |-> deviation(i)]) \div ((n - 1) * n))) \div 10

-----------------------------------------------------------------------------
(* 1.96 standard errors: of n samples as spread as a mean on the scale can be,
   and of n samples with uniform noise of an amplitude about one value. *)
OracleHalf(n) == Root(Square(9800) \div n)

SampleHalf(amplitude, n) == Root((128 * Square(amplitude)) \div (100 * n))

(* The Wilson interval of a proportion. *)
Wilson(p, n) ==
  LET weight == 100 * n + 384
      centre == (100 * (p * n + 19208)) \div weight
      margin == (196 * n * Root((p * (Scale - p)) \div n + Square(9800) \div (n * n))) \div weight
  IN  [low |-> Unit(centre - margin), high |-> Unit(centre + margin)]

-----------------------------------------------------------------------------
(* What each scorer can be given. *)
ArtifactOf(scorer) ==
  CASE scorer = "Proof" -> [finite : BOOLEAN, distance : Nat]
    [] scorer = "Program" -> [1..3 -> Int]
    [] scorer = "Solver" -> Int
    [] scorer = "Forecast" -> [rmse : [{Dev, HeldOut} -> Nat], complexity : Nat]
    [] scorer = "Agent" -> [skill : Int, prompt : Int, tool : Int, memory : Int, overfit : Int]
    [] scorer = "Linear" -> [Dev : 0..Points.Dev, HeldOut : 0..Points.HeldOut]
    [] scorer \in {"PrivateOracle", "Hardware"} -> OraclePoint
    [] scorer = "HumanPanel" -> [verdicts : Seq(Int \cup {NotANumber})]

=============================================================================
