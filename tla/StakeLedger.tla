---------------------------- MODULE StakeLedger ----------------------------
(***************************************************************************)
(* The operator's working view of who has staked what in a competition     *)
(* (autoresearch-protocol's stake.rs). What its calls report to their      *)
(* caller, the wei posted, withdrawn and slashed, is kept beside it.       *)
(***************************************************************************)
EXTENDS WeiArithmetic, Tallies

CONSTANTS
  Stakers,   \* the (competition, researcher) keys
  NoEntry,   \* the value of an absent key
  MinStake,     \* StakePolicy.min_stake_wei
  Amounts,   \* bound: the wei a call may name
  MaxPosted  \* bound: the wei ever posted, below saturation

ASSUME LedgerAssumption ==
  /\ IsFiniteSet(Stakers)
  /\ NoEntry \notin Nat
  /\ MinStake \in Nat
  /\ Amounts \subseteq Nat
  /\ MaxPosted \in 0..MaxWei

VARIABLES
  balances,  \* key -> wei, or NoEntry
  reported   \* what the calls have reported: wei in, wei out

ledgerVars == <<balances, reported>>

Balance(k) == IF balances[k] = NoEntry THEN 0 ELSE balances[k]

TotalStaked == Tally([k \in Stakers |-> Balance(k)])

LedgerInit ==
  /\ balances = [k \in Stakers |-> NoEntry]
  /\ reported = [posted |-> 0, withdrawn |-> 0, slashed |-> 0]

-----------------------------------------------------------------------------
Admits(posted) == posted >= MinStake

(* A refused post is not without effect: its key is entered, with nothing. *)
PostStake(k, amount) ==
  LET newBalance == SaturatingAdd(Balance(k), amount)
  IN  IF Admits(newBalance)
      THEN /\ balances' = [balances EXCEPT ![k] = newBalance]
           /\ reported' = [reported EXCEPT !.posted = @ + amount]
      ELSE /\ balances' = [balances EXCEPT ![k] = Balance(k)]
           /\ UNCHANGED reported

Covers(k, amount) == balances[k] # NoEntry /\ amount <= balances[k]

Withdraw(k, amount) ==
  /\ Covers(k, amount)
  /\ balances' = [balances EXCEPT ![k] = @ - amount]
  /\ reported' = [reported EXCEPT !.withdrawn = @ + amount]

(* Mutant of Removed: a slash reports what was asked for. *)
RemovedAsAsked(k, amount) == amount

Removed(k, amount) == Lesser(amount, balances[k])

Slash(k, amount) ==
  /\ balances[k] # NoEntry
  /\ balances' = [balances EXCEPT ![k] = @ - Lesser(amount, @)]
  /\ reported' = [reported EXCEPT !.slashed = @ + Removed(k, amount)]

LedgerNext ==
  \E k \in Stakers, amount \in Amounts :
    \/ reported.posted + amount <= MaxPosted /\ PostStake(k, amount)
    \/ Withdraw(k, amount)
    \/ Slash(k, amount)

LedgerSpec == LedgerInit /\ [][LedgerNext]_ledgerVars

-----------------------------------------------------------------------------
(* However posts, refused posts, withdrawals and clamped slashes alternate,
   what is held is what was reported in less what was reported out, and no
   balance is below zero. *)
LedgerConserves ==
  /\ TotalStaked = reported.posted - reported.withdrawn - reported.slashed
  /\ \A k \in Stakers : Balance(k) >= 0

=============================================================================
