----------------------------- MODULE RewardPool -----------------------------
(***************************************************************************)
(* What a proposer and the researchers are promised of a reward pool: it   *)
(* is locked once, everything that leaves it is a payout, it pays no more  *)
(* than was locked, and after the terminal settlement it pays nothing.     *)
(***************************************************************************)
EXTENDS Integers

CONSTANT Pools

VARIABLES
  phase,   \* pool -> "absent", "open" or "closed"
  locked,  \* pool -> the wei locked when it was opened
  paid     \* pool -> the wei paid out of it

poolVars == <<phase, locked, paid>>

PoolInit ==
  /\ phase = [p \in Pools |-> "absent"]
  /\ locked = [p \in Pools |-> 0]
  /\ paid = [p \in Pools |-> 0]

Open(p) ==
  /\ phase[p] = "absent"
  /\ phase' = [phase EXCEPT ![p] = "open"]
  /\ locked' = [locked EXCEPT ![p] = locked'[p]]
  /\ locked'[p] > 0
  /\ UNCHANGED paid

(* A payout from an open pool, which stays open (continuous) or closes
   (terminal settlement). *)
Pay(p) ==
  /\ phase[p] = "open"
  /\ \E next \in {"open", "closed"} : phase' = [phase EXCEPT ![p] = next]
  /\ paid' = [paid EXCEPT ![p] = paid'[p]]
  /\ paid'[p] >= paid[p]
  /\ paid'[p] <= locked[p]
  /\ UNCHANGED locked

PoolNext == \E p \in Pools : Open(p) \/ Pay(p)

PoolSpec == PoolInit /\ [][PoolNext]_poolVars

=============================================================================
