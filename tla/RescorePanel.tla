---------------------------- MODULE RescorePanel ----------------------------
(***************************************************************************)
(* The m-of-n panel of autoresearch-verticals that re-scores what a        *)
(* training cluster reports of its own artifact: a referee accepts a claim *)
(* it cannot tell from its own measurement, and the panel one that enough  *)
(* of its referees accept.                                                 *)
(***************************************************************************)
EXTENDS Integers, FiniteSets, FiniteSetsExt

CONSTANTS
  Referees,     \* of a panel
  Intervals,    \* bound: what a referee may measure, [value, low, high]
  SelfReports,  \* bound: what a cluster may say of its artifact
  NoNumber      \* f64::NAN

ASSUME PanelAssumption ==
  /\ IsFiniteSet(Referees)
  /\ Referees # {}
  /\ Intervals \subseteq [value : Int, low : Int, high : Int]
  /\ SelfReports \subseteq Int \cup {NoNumber}
  /\ NoNumber \notin Int

VARIABLES
  panel,     \* referee -> what it measures of the artifact
  quorum,    \* how many must accept a claim
  accepted   \* the claims the panel has accepted

panelVars == <<panel, quorum, accepted>>

-----------------------------------------------------------------------------
PanelSize == Cardinality(Referees)

(* Mutant of MajorityQuorum: half of the panel. *)
HalfQuorum == Max({1, PanelSize \div 2})

MajorityQuorum == (PanelSize \div 2) + 1

Accepts(referee, claim) ==
  /\ claim # NoNumber
  /\ panel[referee].low <= claim
  /\ claim <= panel[referee].high

Accepting(claim) == {referee \in Referees : Accepts(referee, claim)}

JudgeClaim(claim) ==
  /\ accepted' = IF Cardinality(Accepting(claim)) >= quorum
                 THEN accepted \cup {claim} ELSE accepted
  /\ UNCHANGED <<panel, quorum>>

(* The consensus is the mean; both sides are multiplied by the panel's size. *)
ConsensusTimesSize == MapThenSumSet(LAMBDA r : panel[r].value, Referees)

(* referees_agree counts these. *)
Agreeing ==
  {r \in Referees : /\ panel[r].low * PanelSize <= ConsensusTimesSize
                    /\ ConsensusTimesSize <= panel[r].high * PanelSize}

-----------------------------------------------------------------------------
PanelInit ==
  /\ panel \in [Referees -> Intervals]
  /\ quorum \in 1..PanelSize
  /\ accepted = {}

PanelNext == \E claim \in SelfReports : JudgeClaim(claim)

PanelSpec == PanelInit /\ [][PanelNext]_panelVars

-----------------------------------------------------------------------------
(* RescorePanel: two claims that a panel with at least the majority quorum
   accepts are both in the interval of one referee, and a claim it accepts
   about an artifact on which its referees agree shares such an interval with
   the consensus: no cluster can have two numbers accepted that every referee
   could tell apart. *)
PanelsCorroborate ==
  quorum >= MajorityQuorum =>
    /\ \A c, d \in accepted : \E r \in Referees : Accepts(r, c) /\ Accepts(r, d)
    /\ Cardinality(Agreeing) >= quorum =>
         \A c \in accepted : \E r \in Agreeing : Accepts(r, c)

=============================================================================
