----------------------------- MODULE MCVerticals -----------------------------
(* The verticals and what is sold of them: a researcher's search, the training
   leaderboard, the panel behind it and the sale of certified artifacts share
   nothing, so in a behaviour one of them is at work. *)
EXTENDS ResearchSearch, TrainingMarket, RescorePanel, ArtifactSales

(* The default gate: 0.02 of lift by its lower bound, and twelve samples. *)
DefaultGate == [minLower |-> 200, minN |-> 12, ceiling |-> Uncapped]

Task(scorer, start, reach, n, limit) ==
  [scorer |-> scorer, start |-> start, reach |-> reach \cup {start}, n |-> n, limit |-> limit]

Proof(distance) == [distance |-> distance, finite |-> TRUE]
Model(dev, heldOut, complexity) ==
  [rmse |-> [Dev |-> dev, HeldOut |-> heldOut], complexity |-> complexity]
Profile(skill, memory, overfit) ==
  [skill |-> skill, prompt |-> 50, tool |-> 50, memory |-> memory, overfit |-> overfit]
Classifier(dev, heldOut) == [Dev |-> dev, HeldOut |-> heldOut]
Point(distance, factor) == [distance |-> distance, factor |-> factor]
Panel(verdicts) == [verdicts |-> verdicts]

Jury(judge, verdict) == [i \in 1..judge |-> verdict]

(* The least, none and the most of any noise. *)
SomeErrors == {-Scale, 0, Scale}

(* For every scorer, artifacts that are better on both splits, on one of them
   only, and on none; measured with enough samples or judges, and with one. *)
SomeTasks ==
  {Task("Proof", Proof(9), {Proof(d) : d \in {0, 8, 12, 16}} \cup {[distance |-> 0, finite |-> FALSE]}, n, Unlimited) : n \in {1, 12}}
  \cup {Task("Program", <<0, 0, 0>>, {<<4, 8, 2>>, <<5, 9, 2>>, <<16, 8, 2>>, <<-1, 8, 2>>}, n, Unlimited) : n \in {1, 12}}
  \cup {Task("Solver", -4, {-2, 0, 1, 3}, 12, Unlimited),
        Task("Forecast", Model(6000, 6000, 0),
             {Model(3000, 3000, 1), Model(2500, 5990, 20), Model(6100, 5000, 1)}, 12, Unlimited),
        Task("Linear", Classifier(60, 40), {Classifier(118, 78), Classifier(110, 41)}, 0, Unlimited),
        Task("Hardware", Point(300, 100), {Point(10, 100), Point(400, 100)}, 0, Unlimited)}
  \cup {Task("Agent", Profile(50, 50, 50), {Profile(100, 100, 0), Profile(50, 100, 100)}, n, Unlimited)
          : n \in {1, 200}}
  \cup {Task("HumanPanel", Panel(verdicts),
             {Panel(<<>>), Panel(Jury(14, 100) \o <<NotANumber>>), Panel(Jury(7, 40) \o Jury(7, 70)),
              Panel(<<90, 150>>)}, 0, Unlimited)
          : verdicts \in {<<NotANumber>>, Jury(7, 30) \o Jury(7, 50)}}
  \cup {Task("PrivateOracle", Point(200, 100), {Point(20, 135), Point(90, 65), Point(250, 80), Point(300, 135)}, 0, limit)
          : limit \in {Unlimited, 0, 1, 3}}

Worker(kind, budget) == [kind |-> kind, budget |-> budget]

(* Optimizers with a budget of no query, one and two against the oracle's;
   local searches; and a submission before and after them. *)
SomeSquads ==
  {<<Worker("BlackBox", 2), Worker("BlackBox", 2)>>, <<Worker("BlackBox", 0), Worker("BlackBox", 1)>>,
   <<Worker("Local", 2), Worker("Fixed", 0)>>, <<Worker("Local", 0), Worker("Local", 1)>>,
   <<Worker("Fixed", 0), Worker("Subprocess", 1)>>, <<Worker("Fixed", 0), Worker("Fixed", 0)>>}

-----------------------------------------------------------------------------
Certified(delta, lower) ==
  [finite |-> TRUE, delta |-> delta, lower |-> lower, n |-> 12, cost |-> 0, size |-> 1]

Broken(delta) ==
  [finite |-> FALSE, delta |-> delta, lower |-> 0, n |-> 12, cost |-> 0, size |-> 1]

(* In half micro-units, where the gate asks for four. *)
FirmGate == [minLower |-> 4, minN |-> 12, ceiling |-> Uncapped]

SomeLifts ==
  {Certified(5, 4), Certified(6, 4), Certified(8, 5), Certified(13, 5), Certified(20, 3),
   Broken(0), [Certified(30, 20) EXCEPT !.n = 11]}

(* Two referees that overlap, and one apart from both. *)
SomeIntervals ==
  {[value |-> v, low |-> v - 1, high |-> v + 1] : v \in {1, 2, 5}}

SomeReports == {0, 1, 2, 3, 4, 6, NoNumber}

-----------------------------------------------------------------------------
Row(artifact, provenance, lift) ==
  [artifact |-> artifact, provenance |-> provenance, lift |-> lift]

(* A strong artifact and a weak one, one sold short by a broken scorer, and one
   that scored infinitely well. *)
SomeAttestations ==
  {Row("a", "first", Certified(20, 10)), Row("b", "second", Certified(3, -1)),
   Row("c", "second", Broken(0)), Row("d", "second", Broken(1))}

(* All of these as they are, and a weak artifact with another's lift and with
   another's competition. *)
SomeClaims ==
  SomeAttestations \cup {Row("b", "second", Certified(20, 10)), Row("b", "first", Certified(3, -1))}

-----------------------------------------------------------------------------
FirstTask == Task("Solver", -4, {-2, 0, 1, 3}, 12, Unlimited)
FirstSquad == <<Worker("Fixed", 0), Worker("Fixed", 0)>>
FirstInterval == [value |-> 2, low |-> 1, high |-> 3]

SearchAtRest == SearchInit /\ task = FirstTask /\ squad = FirstSquad
PanelAtRest == PanelInit /\ panel = [r \in Referees |-> FirstInterval] /\ quorum = 1
MarketAtRest == MarketInit
SalesAtRest == SalesInit

verticalsVars == <<searchVars, marketVars, panelVars, salesVars>>

VerticalsInit ==
  /\ SearchInit /\ MarketInit /\ PanelInit /\ SalesInit
  /\ SearchAtRest \/ PanelAtRest

VerticalsNext ==
  \/ /\ MarketAtRest /\ PanelAtRest /\ SalesAtRest
     /\ SearchNext /\ UNCHANGED <<marketVars, panelVars, salesVars>>
  \/ /\ SearchAtRest /\ PanelAtRest /\ SalesAtRest
     /\ MarketNext /\ UNCHANGED <<searchVars, panelVars, salesVars>>
  \/ /\ SearchAtRest /\ MarketAtRest /\ SalesAtRest
     /\ PanelNext /\ UNCHANGED <<searchVars, marketVars, salesVars>>
  \/ /\ SearchAtRest /\ MarketAtRest /\ PanelAtRest
     /\ SalesNext /\ UNCHANGED <<searchVars, marketVars, panelVars>>

VerticalsSpec == VerticalsInit /\ [][VerticalsNext]_verticalsVars

=============================================================================
