-------------------------- MODULE DocumentedClaims --------------------------
(***************************************************************************)
(* What the comments of CompetitionManager.sol say of challenges, stated   *)
(* as the comment states it, and refuted by a run: see the README.         *)
(***************************************************************************)
EXTENDS CompetitionManager

(* openChallenge: "only a revealed candidate is challengeable, so the slashed
   party is provably the disputed researcher." A candidate has one researcher,
   so no later challenge of it can bind another one. *)
OneResearcherPerCandidate ==
  [][\A c \in CompetitionIds, k \in CandidateIds :
       challenges[c][k].exists =>
         challenges'[c][k].researcher = challenges[c][k].researcher]_vars

=============================================================================
