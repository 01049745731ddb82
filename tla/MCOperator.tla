----------------------------- MODULE MCOperator -----------------------------
(***************************************************************************)
(* The operator's process and its store of competitions. No job handler    *)
(* touches the store and no answer depends on an earlier one, so that      *)
(* interleaving them shows nothing: one job is answered in each            *)
(* environment, and the store runs in one environment.                     *)
(***************************************************************************)
EXTENDS OperatorService, CompetitionStore

FirmGate == [minLower |-> Number(2), minN |-> 12, ceiling |-> Uncapped]

NaN == [finite |-> FALSE, v |-> 0]

Plain ==
  [registering |-> FALSE, split |-> [role \in Roles |-> Unset],
   gateLower |-> Unset, gateCeiling |-> Unset, gateMinN |-> Unset,
   floor |-> Unset, price |-> Unset, shape |-> Unset,
   capacity |-> Unset, endpoint |-> <<>>, scorers |-> <<>>]

(* One group of variables is varied at a time: no code reads two of them
   together. 255 is the most a u8 holds. *)
SomeEnvironments ==
  {[Plain EXCEPT !.split = split] : split \in [Roles -> {Unset, Garbled, 55, 25, 20, 0, 100, 255}]}
  \cup {[Plain EXCEPT !.gateLower = lower, !.gateCeiling = ceiling, !.gateMinN = n] :
          lower \in {Unset, Garbled, Number(-1), Number(0), Number(3), NaN},
          ceiling \in {Unset, Garbled, Number(-1), Number(0), Number(1), NaN},
          n \in {Unset, Garbled, 0, 1, 12}}
  \cup {[Plain EXCEPT !.floor = f, !.price = p, !.shape = s] :
          f \in {Unset, Garbled, 0, 1}, p \in {Unset, Garbled, 0, 1, MaxWei},
          s \in {Unset, Garbled, "RecordBounty"}}
  \cup {[Plain EXCEPT !.registering = g, !.capacity = c, !.endpoint = e, !.scorers = s] :
          g \in BOOLEAN, c \in {Unset, Garbled, <<0, 0, 0, 2>>},
          e \in {<<>>, <<2>>, <<3, 1>>, <<1, 2, 3, 1>>}, s \in {<<>>, <<1>>, <<2, 2, 1>>}}

SomeReports ==
  [delta : {Garbled, Number(4), NaN}, lower : {Garbled, Number(0), Number(3), NaN},
   n : {0, 1, 12}, cost : {Garbled, Number(12), Number(13), NaN}]

StoreIsEmpty == \A id \in CompetitionIds : status[id] = None

OperatorInit == ServiceInit /\ Init

OperatorNext ==
  \/ StoreIsEmpty /\ answer = Silent /\ ServiceNext /\ UNCHANGED storeVars
  \/ /\ environment = Plain /\ stage = "serving" /\ answer = Silent
     /\ Next
     /\ UNCHANGED serviceVars

OperatorSpec == OperatorInit /\ [][OperatorNext]_<<serviceVars, storeVars>>

=============================================================================
