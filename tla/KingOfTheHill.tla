--------------------------- MODULE KingOfTheHill ---------------------------
(***************************************************************************)
(* What a continuous arena promises, on chain and off: the top changes     *)
(* hands only for a better result; a bounty arena pays every new best its  *)
(* exact margin, once, and only if it clears epsilon; a streaming arena    *)
(* pays the holder of the top its rate per epoch, the last time with what  *)
(* is left; and neither spends more than its pool.                         *)
(***************************************************************************)
EXTENDS Integers

CONSTANTS Arenas, Nobody

VARIABLES
  terms,    \* arena -> what its proposer fixed when it was opened
  standing  \* arena -> best, holder, spent, epoch

hillVars == <<terms, standing>>

Fresh(t) == [best |-> t.baseline, holder |-> Nobody, spent |-> 0, epoch |-> 0]

HillInit == \A a \in Arenas : terms[a].open => standing[a] = Fresh(terms[a])

Left(a) == terms[a].pool - standing[a].spent

Only(a) ==
  /\ standing' = [standing EXCEPT ![a] = standing'[a]]
  /\ UNCHANGED terms

OpenArena(a) ==
  /\ ~terms[a].open
  /\ terms' = [terms EXCEPT ![a] = terms'[a]]
  /\ terms'[a].open
  /\ standing' = [standing EXCEPT ![a] = Fresh(terms'[a])]

(* A new best, at once paid for its margin under a bounty. *)
Take(a) ==
  LET margin == standing'[a].best - standing[a].best
      pay == IF terms[a].streaming THEN 0 ELSE terms[a].rate * margin
  IN  /\ terms[a].open
      /\ margin > 0
      /\ ~terms[a].streaming => margin >= terms[a].epsilon
      /\ pay <= Left(a)
      /\ standing'[a].spent = standing[a].spent + pay
      /\ standing'[a].epoch = standing[a].epoch
      /\ Only(a)

Credited(s, credit) ==
  [best |-> s.best, holder |-> s.holder, spent |-> s.spent + credit, epoch |-> s.epoch + 1]

(* An epoch passes; under streaming it is paid to the holder, if there is one. *)
Pass(a) ==
  LET credit == IF ~terms[a].streaming \/ standing[a].holder = Nobody THEN 0
                ELSE IF terms[a].rate < Left(a) THEN terms[a].rate ELSE Left(a)
  IN  /\ terms[a].open
      /\ standing' = [standing EXCEPT ![a] = Credited(@, credit)]
      /\ UNCHANGED terms

HillNext == \E a \in Arenas : OpenArena(a) \/ Take(a) \/ Pass(a)

HillSpec == HillInit /\ [][HillNext]_hillVars

=============================================================================
