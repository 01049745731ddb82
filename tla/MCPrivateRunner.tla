-------------------------- MODULE MCPrivateRunner --------------------------
EXTENDS PrivateRunner

FirmGate == [minLower |-> 1, minN |-> 12, ceiling |-> Uncapped]

Measured(delta, lower) ==
  [finite |-> TRUE, delta |-> delta, lower |-> lower, n |-> 12, cost |-> 0, size |-> 12]

(* Ties on the delta with equal and with different bounds, a lift in the
   largest band that ranks first, and three lifts that do not clear: too low,
   too few episodes, not a number. *)
SomeLifts ==
  {Measured(3, 1), Measured(3, 2), Measured(6, 1), Measured(5, 4), Measured(4, 0),
   [Measured(9, 9) EXCEPT !.n = 11, !.size = 60],
   [Measured(9, 9) EXCEPT !.finite = FALSE]}

TopK(weights) == [kind |-> "SnapshotTopK", weights |-> weights]

Other(kind) == [kind |-> kind, weights |-> <<>>]

(* Full, short and over-weighted schedules, and the other kinds. *)
SomeRewards ==
  {TopK(weights) : weights \in {<<5000, 3000, 2000>>, <<3333, 6667>>, <<6000, 5000>>}}
  \cup {Other("TerminalPrize"), Other("TimeAtTopStreaming")}

(* Every tier with and without a TEE, under no, an open and a closed policy,
   with all, none and only the first researcher's engine sealed. *)
SomeSetups ==
  [tier : {Public, "BlackBox", "RedactedFeedback"}, tee : {"None"},
   egress : {NoPolicy}, sealed : {{}}]
  \cup [tier : PrivacyTier, tee : {"None", "PhalaTdx"},
        egress : {NoPolicy, NoEgress, [allowlist |-> {}, defaultDeny |-> FALSE, present |-> TRUE]},
        sealed : {{}, {1}, Researchers}]

(* The refusals depend on no candidate: the full variety of set-ups is run with
   one measurement, every measurement with the set-ups that start. *)
MCPrivateInit ==
  /\ PrivateInit
  /\ \/ setup.sealed = {} /\ setup.tee = "None" /\ setup.egress = NoPolicy
     \/ \A r \in Researchers : measured[r] = Measured(3, 1)

MCPrivateSpec == MCPrivateInit /\ [][PrivateNext]_privateVars

=============================================================================
