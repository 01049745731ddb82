--------------------------- MODULE SlashableBond ----------------------------
(***************************************************************************)
(* What a researcher's bond promises the challengers: a bond shrinks only  *)
(* when a dispute against its owner is ruled on, or when the owner leaves  *)
(* after settlement with no dispute open. No open dispute can be outrun.   *)
(***************************************************************************)
EXTENDS Integers

CONSTANTS
  Contests,  \* what the bonds are posted in
  Owners,    \* who posts them
  Disputes

VARIABLES
  amount,   \* contest -> owner -> wei locked
  against,  \* contest -> owner -> the open disputes that name the owner
  final     \* contest -> whether it is settled

bondVars == <<amount, against, final>>

BondInit ==
  /\ amount = [c \in Contests |-> [r \in Owners |-> 0]]
  /\ against = [c \in Contests |-> [r \in Owners |-> {}]]
  /\ final = [c \in Contests |-> FALSE]

TopUp(c, r) ==
  /\ amount' = [amount EXCEPT ![c][r] = amount'[c][r]]
  /\ amount'[c][r] > amount[c][r]
  /\ UNCHANGED <<against, final>>

Dispute(c, r, d) ==
  /\ d \notin against[c][r]
  /\ against' = [against EXCEPT ![c][r] = @ \cup {d}]
  /\ UNCHANGED <<amount, final>>

(* The ruling ends the dispute; it may slash the bond it names, no other. *)
Rule(c, r, d) ==
  /\ d \in against[c][r]
  /\ against' = [against EXCEPT ![c][r] = @ \ {d}]
  /\ amount' = [amount EXCEPT ![c][r] = amount'[c][r]]
  /\ amount'[c][r] <= amount[c][r]
  /\ UNCHANGED final

Leave(c, r) ==
  /\ final[c]
  /\ against[c][r] = {}
  /\ amount' = [amount EXCEPT ![c][r] = 0]
  /\ UNCHANGED <<against, final>>

Finalise ==
  /\ \A c \in Contests : final[c] => final'[c]
  /\ UNCHANGED <<amount, against>>

BondNext ==
  \/ \E c \in Contests, r \in Owners :
       \/ TopUp(c, r)
       \/ Leave(c, r)
       \/ \E d \in Disputes : Dispute(c, r, d) \/ Rule(c, r, d)
  \/ Finalise

BondSpec == BondInit /\ [][BondNext]_bondVars

=============================================================================
