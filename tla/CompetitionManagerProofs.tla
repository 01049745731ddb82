---------------------- MODULE CompetitionManagerProofs ----------------------
(***************************************************************************)
(* Theorems about CompetitionManager, for every value of its constants: it *)
(* is well typed, and it implements the three specifications of what it    *)
(* promises of every competition. Its pool is conserved (RewardPool), its  *)
(* bonds are locked and cannot be outrun (SlashableBond), and its arenas   *)
(* are kings of the hill (KingOfTheHill).                                  *)
(***************************************************************************)
EXTENDS CompetitionManager, TallyProofs

(* Taking a payment in keeps balances natural: a payer without the wei cannot
   make the call. *)
LEMMA TakeInType ==
  ASSUME EvmTypeOK, NEW payer \in Addresses, NEW value \in Nat, TakeIn(payer, value)
  PROVE  EvmTypeOK'
<1>1. wallet[payer] - value \in Nat
  BY DEF TakeIn, EvmTypeOK
<1>2. QED
  BY <1>1 DEF TakeIn, EvmTypeOK

(* A transfer keeps balances natural: the contract cannot send what it lacks. *)
LEMMA SendType ==
  ASSUME EvmTypeOK, NEW t \in Transfer, Send(t)
  PROVE  wallet' \in [Addresses -> Nat] /\ balance' \in Nat
<1>1. t.to \in Addresses /\ t.amount \in Nat
  BY DEF Transfer
<1>2. balance - t.amount \in Nat
  BY <1>1 DEF Send, EvmTypeOK
<1>3. wallet[t.to] + t.amount \in Nat
  BY <1>1 DEF EvmTypeOK
<1>4. QED
  BY <1>1, <1>2, <1>3 DEF Send, EvmTypeOK

(* A frame always holds at least the transfer in progress. *)
LEMMA FrameHead ==
  ASSUME NEW due \in Frame
  PROVE  Head(due) \in Transfer /\ Tail(due) \in Seq(Transfer)
BY DEF Frame

(* Pushing a frame on a call stack leaves a call stack. *)
LEMMA PushFrame ==
  ASSUME NEW due \in Frame, NEW rest \in Seq(Frame)
  PROVE  <<due>> \o rest \in Seq(Frame)
<1>1. <<due>> \in Seq(Frame)
  OBVIOUS
<1>2. QED
  BY <1>1

(* Starting a call's transfers preserves the types of balances and frames. *)
LEMMA TransactType ==
  ASSUME EvmTypeOK, NEW due \in Frame, Transact(due)
  PROVE  EvmTypeOK'
<1>1. wallet' \in [Addresses -> Nat] /\ balance' \in Nat
  BY FrameHead, SendType DEF Transact
<1>2. frames' \in Seq(Frame)
  BY PushFrame DEF Transact, EvmTypeOK
<1>3. QED
  BY <1>1, <1>2 DEF Transact, EvmTypeOK

(* A single conditional transfer preserves the types. *)
LEMMA PayOneType ==
  ASSUME EvmTypeOK, NEW payee \in Addresses, NEW value \in Nat, PayOne(payee, value)
  PROVE  EvmTypeOK'
<1>1. CASE value = 0
  BY <1>1 DEF PayOne, evmVars, EvmTypeOK
<1>2. CASE value # 0
  <2>1. [to |-> payee, amount |-> value] \in Transfer
    BY <1>2 DEF Transfer
  <2>2. <<[to |-> payee, amount |-> value]>> \in Frame
    BY <2>1 DEF Frame
  <2>3. QED
    BY <1>2, <2>2, TransactType DEF PayOne
<1>3. QED
  BY <1>1, <1>2

(* A settlement loop preserves the types. *)
LEMMA PayEachType ==
  ASSUME EvmTypeOK, NEW shares, NonZero(shares) \in Seq(Transfer), PayEach(shares)
  PROVE  EvmTypeOK'
<1>1. CASE NonZero(shares) = <<>>
  BY <1>1 DEF PayEach, evmVars, EvmTypeOK
<1>2. CASE NonZero(shares) # <<>>
  <2>1. NonZero(shares) \in Frame
    BY <1>2 DEF Frame
  <2>2. QED
    BY <1>2, <2>1, TransactType DEF PayEach
<1>3. QED
  BY <1>1, <1>2

(* The chain's own steps: a payee returning, and a block. *)
LEMMA EvmNextType ==
  ASSUME EvmTypeOK, EvmNext
  PROVE  EvmTypeOK'
<1>1. ASSUME frames # <<>>
      PROVE  Head(frames) \in Frame /\ Tail(frames) \in Seq(Frame)
  BY <1>1 DEF EvmTypeOK
<1>2. CASE FinishCall
  BY <1>1, <1>2 DEF FinishCall, EvmTypeOK
<1>3. CASE NextTransfer
  <2>. DEFINE due == Tail(Head(frames))
  <2>1. due \in Frame /\ Send(Head(due)) /\ frames' = <<due>> \o Tail(frames)
    BY <1>1, <1>3, FrameHead DEF NextTransfer, Frame
  <2>2. wallet' \in [Addresses -> Nat] /\ balance' \in Nat
    BY <2>1, FrameHead, SendType
  <2>. HIDE DEF due
  <2>3. frames' \in Seq(Frame)
    BY <1>1, <1>3, <2>1, PushFrame DEF NextTransfer
  <2>4. QED
    BY <1>3, <2>2, <2>3 DEF NextTransfer, EvmTypeOK
<1>4. CASE MineBlock
  BY <1>4 DEF MineBlock, EvmTypeOK
<1>5. QED
  BY <1>2, <1>3, <1>4 DEF EvmNext

-----------------------------------------------------------------------------
(* The entries of a list of transfers. *)
LEMMA Entries ==
  ASSUME NEW a \in Allocation
  PROVE  /\ Len(a) \in Nat /\ DOMAIN a = 1..Len(a)
         /\ \A i \in 1..Len(a) : a[i] \in [to : Addresses, amount : Nat] /\ a[i].amount \in Nat
<1>. DEFINE Share == [to : Addresses, amount : Nat]
<1>. HIDE DEF Share
<1>1. a \in Seq(Share)
  BY DEF Allocation, Share
<1>2. Len(a) \in Nat /\ DOMAIN a = 1..Len(a) /\ \A i \in 1..Len(a) : a[i] \in Share
  BY <1>1, LenProperties
<1>3. QED
  BY <1>2 DEF Share

(* What a list of transfers adds up to is a number. *)
LEMMA TotalType ==
  ASSUME NEW a \in Allocation
  PROVE  /\ [i \in DOMAIN a |-> a[i].amount] \in [1..Len(a) -> Nat]
         /\ Total(a) \in Nat
<1>. DEFINE amounts == [i \in DOMAIN a |-> a[i].amount]
<1>1. amounts \in [1..Len(a) -> Nat] /\ Len(a) \in Nat
  BY Entries
<1>2. IsFiniteSet(1..Len(a))
  BY <1>1, FS_Interval
<1>. HIDE DEF amounts
<1>3. Tally(amounts) \in Nat
  BY <1>1, <1>2, TallyType
<1>4. QED
  BY <1>1, <1>3 DEF Total, amounts

(* No transfers add up to nothing. *)
LEMMA TotalNone == Total(<<>>) = 0
<1>. DEFINE amounts == [i \in DOMAIN <<>> |-> <<>>[i].amount]
<1>1. amounts \in [{} -> Nat]
  OBVIOUS
<1>. HIDE DEF amounts
<1>2. Tally(amounts) = 0
  BY <1>1, TallyZero
<1>3. QED
  BY <1>2 DEF Total, amounts

(* One transfer more at the end. *)
LEMMA TotalAppend ==
  ASSUME NEW a \in Allocation, NEW share \in [to : Addresses, amount : Nat]
  PROVE  Append(a, share) \in Allocation /\ Total(Append(a, share)) = Total(a) + share.amount
<1>. DEFINE b == Append(a, share)
            f == [i \in DOMAIN a |-> a[i].amount]
            g == [i \in DOMAIN b |-> b[i].amount]
            n == Len(a)
<1>1. b \in Allocation /\ n \in Nat /\ Len(b) = n + 1
  BY DEF Allocation
<1>2. f \in [1..n -> Nat]
  BY TotalType
<1>3. g \in [1..Len(b) -> Nat]
  BY <1>1, TotalType
<1>4. (\A i \in 1..n : g[i] = f[i]) /\ g[n + 1] = share.amount
  BY <1>1 DEF Allocation
<1>. HIDE DEF b, f, g, n
<1>5. g \in [1..(n + 1) -> Nat]
  BY <1>1, <1>3
<1>6. Tally(g) = Tally(f) + g[n + 1]
  BY ONLY <1>1, <1>2, <1>4, <1>5, TallyAppend
<1>7. QED
  BY <1>1, <1>4, <1>6 DEF Total, b, f, g

(* The first transfer and the rest. *)
LEMMA TotalHead ==
  ASSUME NEW a \in Allocation, a # <<>>
  PROVE  /\ Head(a) \in [to : Addresses, amount : Nat] /\ Tail(a) \in Allocation
         /\ Total(a) = Head(a).amount + Total(Tail(a))
<1>. DEFINE b == Tail(a)
            f == [i \in DOMAIN b |-> b[i].amount]
            g == [i \in DOMAIN a |-> a[i].amount]
            n == Len(b)
<1>1. b \in Allocation /\ n \in Nat /\ Len(a) = n + 1
  BY DEF Allocation
<1>2. f \in [1..n -> Nat]
  BY <1>1, TotalType
<1>3. g \in [1..Len(a) -> Nat]
  BY TotalType
<1>4. /\ \A i \in 1..n : g[i + 1] = f[i]
      /\ g[1] = Head(a).amount
      /\ Head(a) \in [to : Addresses, amount : Nat]
  <2>1. Head(a) = a[1] /\ \A i \in 1..n : b[i] = a[i + 1]
    BY <1>1 DEF Allocation
  <2>2. DOMAIN a = 1..(n + 1) /\ DOMAIN b = 1..n /\ a[1] \in [to : Addresses, amount : Nat]
    BY <1>1, Entries
  <2>3. QED
    BY <1>1, <2>1, <2>2
<1>. HIDE DEF b, f, g, n
<1>5. g \in [1..(n + 1) -> Nat]
  BY <1>1, <1>3
<1>6. Tally(g) = g[1] + Tally(f)
  BY ONLY <1>1, <1>2, <1>4, <1>5, TallyPush
<1>7. QED
  BY <1>1, <1>4, <1>6 DEF Total, b, f, g

(* The steps of the payout loop: kept[i] is what is left of the first i entries. *)
LEMMA KeptSteps ==
  ASSUME NEW a \in Allocation
  PROVE  \E kept :
           /\ NonZero(a) = kept[Len(a)] /\ kept[0] = <<>>
           /\ \A i \in 1..Len(a) : kept[i] = IF a[i].amount = 0 THEN kept[i - 1]
                                             ELSE Append(kept[i - 1], a[i])
<1>. DEFINE n == Len(a)
            kept == CHOOSE g : g = [i \in 0..n |-> IF i = 0 THEN <<>>
                                                 ELSE IF a[i].amount = 0 THEN g[i - 1]
                                                 ELSE Append(g[i - 1], a[i])]
<1>1. n \in Nat /\ 0 \in Nat
  BY DEF Allocation
<1>2. FiniteNatInductiveDefHypothesis(kept, <<>>,
        LAMBDA so, i : IF a[i].amount = 0 THEN so ELSE Append(so, a[i]), 0, n)
  BY DEF FiniteNatInductiveDefHypothesis
<1>3. FiniteNatInductiveDefConclusion(kept, <<>>,
        LAMBDA so, i : IF a[i].amount = 0 THEN so ELSE Append(so, a[i]), 0, n)
  BY <1>1, <1>2, FiniteNatInductiveDef
<1>4. kept = [i \in 0..n |-> IF i = 0 THEN <<>>
                             ELSE IF a[i].amount = 0 THEN kept[i - 1]
                             ELSE Append(kept[i - 1], a[i])]
  BY <1>3 DEF FiniteNatInductiveDefConclusion
<1>5. NonZero(a) = kept[n]
  BY DEF NonZero
<1>. HIDE DEF kept, n
<1>6. kept[0] = <<>>
  BY <1>1, <1>4
<1>7. ASSUME NEW i \in 1..n
      PROVE  kept[i] = IF a[i].amount = 0 THEN kept[i - 1] ELSE Append(kept[i - 1], a[i])
  <2>1. i \in 0..n /\ i # 0
    BY <1>1
  <2>2. QED
    BY <1>4, <2>1
<1>8. QED
  BY <1>5, <1>6, <1>7 DEF n

(* Skipping the zero amounts leaves proper transfers and changes no total, so
   what a settlement draws from the escrow is what its loop sends. *)
LEMMA KeptOnlyNonZero ==
  ASSUME NEW a \in Allocation
  PROVE  NonZero(a) \in Seq(Transfer) /\ Total(NonZero(a)) = Total(a)
<1>. DEFINE n == Len(a)
            Upto(i) == [j \in 1..i |-> a[j]]
<1>1. PICK kept :
           /\ NonZero(a) = kept[n] /\ kept[0] = <<>>
           /\ \A i \in 1..n : kept[i] = IF a[i].amount = 0 THEN kept[i - 1]
                                             ELSE Append(kept[i - 1], a[i])
  BY KeptSteps
<1>. DEFINE good == {i \in Nat : i <= n => /\ kept[i] \in Seq(Transfer)
                                           /\ Total(kept[i]) = Total(Upto(i))}
<1>2. n \in Nat /\ \A i \in 1..n : a[i] \in [to : Addresses, amount : Nat]
  BY Entries
<1>3. 0 \in good
  <2>1. Upto(0) = <<>>
    OBVIOUS
  <2>2. kept[0] \in Seq(Transfer) /\ Total(kept[0]) = Total(Upto(0))
    BY <1>1, <2>1
  <2>3. QED
    BY <2>2
<1>4. ASSUME NEW i \in Nat, i \in good
      PROVE  i + 1 \in good
  <2>. SUFFICES ASSUME i + 1 <= n
                PROVE  /\ kept[i + 1] \in Seq(Transfer) 
                       /\ Total(kept[i + 1]) = Total(Upto(i + 1))
    OBVIOUS
  <2>. DEFINE so == kept[i]
              share == a[i + 1]
              before == Upto(i)
              next == Upto(i + 1)
  <2>1. so \in Seq(Transfer) /\ Total(so) = Total(before) /\ i + 1 \in 1..n
    BY <1>2, <1>4
  <2>2. kept[i + 1] = IF share.amount = 0 THEN so ELSE Append(so, share)
    <3>1. i + 1 - 1 = i
      OBVIOUS
    <3>2. QED
      BY <1>1, <2>1, <3>1
  <2>3. share \in [to : Addresses, amount : Nat]
    BY <1>2, <2>1
  <2>4. before \in Allocation /\ next = Append(before, share)
    <3>1. \A j \in 1..i : j \in 1..n
      BY <1>2, <2>1
    <3>2. before \in Allocation /\ Len(before) = i
      BY <1>2, <3>1 DEF Allocation
    <3>3. QED
      BY <3>2 DEF Allocation
  <2>. HIDE DEF so, before, next, share
  <2>5. Total(next) = Total(before) + share.amount /\ Total(before) \in Nat
    BY <2>3, <2>4, TotalAppend, TotalType
  <2>6. CASE share.amount = 0
    BY <2>1, <2>2, <2>5, <2>6 DEF next
  <2>7. CASE share.amount # 0
    <3>1. share \in Transfer /\ share.amount \in Nat
      BY <2>3, <2>7 DEF Transfer
    <3>2. so \in Allocation
      BY <2>1 DEF Allocation, Transfer
    <3>3. Total(Append(so, share)) = Total(so) + share.amount
      BY <2>3, <3>2, TotalAppend
    <3>4. Append(so, share) \in Seq(Transfer)
      BY <2>1, <3>1
    <3>5. QED
      BY <2>1, <2>2, <2>5, <2>7, <3>3, <3>4 DEF next
  <2>8. QED
    BY <2>6, <2>7
<1>. HIDE DEF good
<1>5. n \in good
  BY <1>2, <1>3, <1>4, Induction
<1>6. kept[n] \in Seq(Transfer) /\ Total(kept[n]) = Total(Upto(n))
  BY <1>2, <1>5 DEF good
<1>7. Upto(n) = a
  BY DEF Allocation
<1>8. QED
  BY <1>1, <1>6, <1>7

-----------------------------------------------------------------------------
(* Writing one competition record keeps the map of records typed. *)
LEMMA LockPoolType ==
  ASSUME TypeOK, NEW c \in CompetitionIds, NEW proposer \in Addresses,
         NEW value \in Nat, NEW deadline \in Nat, NEW floor \in Nat,
         LockPool(c, proposer, value, deadline, floor)
  PROVE  competitions' \in [CompetitionIds -> Competition] /\ EvmTypeOK'
<1>1. EvmTypeOK'
  BY TakeInType DEF LockPool, TypeOK
<1>2. [proposer |-> proposer, rewardPoolWei |-> value, escrowedWei |-> value,
       deadline |-> deadline, minStakeWei |-> floor,
       exists |-> TRUE, settled |-> FALSE] \in Competition
  BY DEF Competition
<1>3. QED
  BY <1>1, <1>2 DEF LockPool, TypeOK

(* Creation, one-shot or continuous, preserves the types. *)
LEMMA CreateType ==
  ASSUME TypeOK, NEW c \in CompetitionIds, NEW caller \in Callers, Create(c, caller)
  PROVE  TypeOK'
<1>1. caller \in Addresses
  BY DEF Callers
<1>2. PICK value \in MsgValues, deadline \in Deadlines :
        \/ \E floor \in StakeFloors :
             CreateCompetition(c, caller, value, deadline, floor)
        \/ \E epsilon \in Epsilons, rate \in Rates, baseline \in Baselines :
             \/ CreateContinuousCompetition(c, caller, value, deadline, epsilon, rate, baseline)
             \/ CreateContinuousStreaming(c, caller, value, deadline, epsilon, rate, baseline)
  BY DEF Create
<1>3. value \in Nat /\ deadline \in Nat
  BY ManagerAssumption
<1>4. CASE \E floor \in StakeFloors :
             CreateCompetition(c, caller, value, deadline, floor)
  <2>1. PICK floor \in StakeFloors :
          CreateCompetition(c, caller, value, deadline, floor)
    BY <1>4
  <2>2. competitions' \in [CompetitionIds -> Competition] /\ EvmTypeOK'
    BY <1>1, <1>3, <2>1, LockPoolType, ManagerAssumption DEF CreateCompetition
  <2>3. QED
    BY <2>1, <2>2 DEF CreateCompetition, TypeOK, recordVars, bondVars
<1>5. ASSUME NEW epsilon \in Epsilons, NEW rate \in Rates, NEW baseline \in Baselines,
             \/ CreateContinuousCompetition(c, caller, value, deadline, epsilon, rate, baseline)
             \/ CreateContinuousStreaming(c, caller, value, deadline, epsilon, rate, baseline)
      PROVE  TypeOK'
  <2>1. /\ LockPool(c, caller, value, deadline, 0)
        /\ UNCHANGED <<recordVars, bondVars, paid>>
    BY <1>5 DEF CreateContinuousCompetition, CreateContinuousStreaming
  <2>2. competitions' \in [CompetitionIds -> Competition] /\ EvmTypeOK'
    BY <1>1, <1>3, <2>1, LockPoolType
  <2>3. epsilon \in Int /\ rate \in Nat /\ baseline \in Int /\ ZeroAddress \in Addresses
    BY ManagerAssumption, EvmAssumption
  <2>4. PICK streaming \in BOOLEAN, perMicro \in Nat, perEpoch \in Nat :
          InitContinuous(c, streaming, epsilon, perMicro, perEpoch, baseline)
    BY <1>5, <2>3 DEF CreateContinuousCompetition, CreateContinuousStreaming
  <2>5. [exists |-> TRUE, streaming |-> streaming, epsilonMicros |-> epsilon,
         weiPerMicro |-> perMicro, weiPerEpoch |-> perEpoch,
         baselineMicros |-> baseline, bestMicros |-> baseline,
         topHolder |-> ZeroAddress, spentWei |-> 0, epoch |-> 0] \in ContinuousState
    BY <2>3 DEF ContinuousState
  <2>6. continuousStates' \in [CompetitionIds -> ContinuousState]
    BY <2>4, <2>5 DEF InitContinuous, TypeOK
  <2>7. QED
    BY <2>1, <2>2, <2>6 DEF TypeOK, recordVars, bondVars
<1>6. QED
  BY <1>2, <1>4, <1>5

(* Staking, withdrawing and challenging preserve the types. *)
LEMMA ParticipateType ==
  ASSUME TypeOK, NEW c \in CompetitionIds, NEW caller \in Callers, Participate(c, caller)
  PROVE  TypeOK'
<1>1. caller \in Addresses /\ MsgValues \subseteq Nat
  BY ManagerAssumption DEF Callers
<1>2. ASSUME NEW value \in MsgValues, PostStake(c, caller, value)
      PROVE  TypeOK'
  <2>1. value \in Nat /\ stakes[c][caller] \in Nat
    BY <1>1 DEF TypeOK
  <2>2. EvmTypeOK'
    BY <1>1, <1>2, <2>1, TakeInType DEF PostStake, TypeOK
  <2>3. stakes' \in [CompetitionIds -> [Addresses -> Nat]]
    BY <1>1, <1>2, <2>1 DEF PostStake, TypeOK
  <2>4. QED
    BY <1>2, <2>2, <2>3 DEF PostStake, TypeOK, recordVars, poolVars
<1>3. ASSUME NEW value \in MsgValues, NEW candidate \in CandidateIds,
             NEW researcher \in Addresses,
             OpenChallenge(c, candidate, researcher, caller, value)
      PROVE  TypeOK'
  <2>1. value \in Nat /\ EvmTypeOK'
    BY <1>1, <1>3, TakeInType DEF OpenChallenge, TypeOK
  <2>2. [challenger |-> caller, researcher |-> researcher, stake |-> value,
         exists |-> TRUE, resolved |-> FALSE] \in Challenge
    BY <1>1, <2>1 DEF Challenge
  <2>3. challenges' \in [CompetitionIds -> [CandidateIds -> Challenge]]
    BY <1>3, <2>2 DEF OpenChallenge, TypeOK
  <2>4. openChallengeCount' \in [CompetitionIds -> [Addresses -> Nat]]
    BY <1>3 DEF OpenChallenge, TypeOK
  <2>5. QED
    BY <1>3, <2>1, <2>3, <2>4 DEF OpenChallenge, TypeOK, recordVars, poolVars
<1>4. CASE WithdrawStake(c, caller)
  <2>1. EvmTypeOK'
    BY <1>1, <1>4, PayOneType DEF WithdrawStake, TypeOK
  <2>2. stakes' \in [CompetitionIds -> [Addresses -> Nat]]
    BY <1>4 DEF WithdrawStake, TypeOK
  <2>3. QED
    BY <1>4, <2>1, <2>2 DEF WithdrawStake, TypeOK, recordVars, poolVars
<1>5. QED
  BY <1>2, <1>3, <1>4 DEF Participate

(* Committing and revealing, by either route, preserve the types. *)
LEMMA SubmitType ==
  ASSUME TypeOK, NEW c \in CompetitionIds, NEW caller \in Submitters, Submit(c, caller)
  PROVE  TypeOK'
<1>1. caller \in Addresses
  BY ManagerAssumption DEF Callers
<1>2. ASSUME NEW hash \in Hashes, RecordCommitment(c, caller, hash)
      PROVE  TypeOK'
  BY <1>1, <1>2 DEF RecordCommitment, TypeOK, EvmTypeOK, evmVars, bondVars, poolVars
<1>3. ASSUME NEW preimage \in Preimages, RecordReveal(c, caller, preimage)
      PROVE  TypeOK'
  BY <1>1, <1>3 DEF RecordReveal, TypeOK, EvmTypeOK, evmVars, bondVars, poolVars
<1>4. QED
  BY <1>2, <1>3 DEF Submit, CommitCandidate, OnJobCall, RevealCandidate, OnJobResult

(* The three rulings preserve the types: a slash never exceeds the bond it
   takes from, nor a reward the slash. *)
LEMMA ResolveDisputeType ==
  ASSUME TypeOK, NEW c \in CompetitionIds, NEW caller \in Callers,
         NEW candidate \in CandidateIds, ResolveDispute(c, candidate, caller)
  PROVE  TypeOK'
<1>. DEFINE challenge == challenges[c][candidate]
<1>1. challenge \in Challenge
  BY DEF TypeOK
<1>2. /\ challenge.researcher \in Addresses
      /\ challenge.challenger \in Addresses
      /\ challenge.stake \in Nat
  BY <1>1 DEF Challenge
<1>3. /\ stakes[c][challenge.researcher] \in Nat
      /\ openChallengeCount[c][challenge.researcher] \in Nat
  BY <1>2 DEF TypeOK
<1>4. ASSUME CloseChallenge(c, candidate, caller)
      PROVE  /\ challenges' \in [CompetitionIds -> [CandidateIds -> Challenge]]
             /\ openChallengeCount' \in [CompetitionIds -> [Addresses -> Nat]]
             /\ UNCHANGED <<recordVars, poolVars>>
  <2>1. challenges' = [challenges EXCEPT ![c][candidate].resolved = TRUE]
    BY <1>4 DEF CloseChallenge
  <2>2. [challenge EXCEPT !.resolved = TRUE] \in Challenge
    BY <1>1 DEF Challenge
  <2>3. challenges' \in [CompetitionIds -> [CandidateIds -> Challenge]]
    BY <2>1, <2>2 DEF TypeOK
  <2>4. openChallengeCount' \in [CompetitionIds -> [Addresses -> Nat]]
    BY <1>2, <1>3, <1>4 DEF CloseChallenge, TypeOK
  <2>5. QED
    BY <1>4, <2>3, <2>4 DEF CloseChallenge
<1>. HIDE DEF challenge
<1>5. CASE Uphold(c, candidate, caller)
  <2>1. retained' \in Nat
    BY <1>2, <1>5 DEF Uphold, TypeOK, challenge
  <2>2. QED
    BY <1>4, <1>5, <2>1 DEF Uphold, TypeOK, EvmTypeOK, recordVars, poolVars, evmVars
<1>6. ASSUME NEW slash \in Slashes, NEW reward \in Slashes,
             Overturn(c, candidate, caller, slash, reward)
      PROVE  TypeOK'
  <2>1. slash \in Nat /\ reward \in Nat /\ slash - reward \in Nat
        /\ stakes[c][challenge.researcher] - slash \in Nat
    <3>1. slash \in Nat /\ reward \in Nat
      BY ManagerAssumption
    <3>2. slash <= stakes[c][challenge.researcher] /\ reward <= slash
      BY <1>6 DEF Overturn, MaySlash, challenge
    <3>3. QED
      BY <1>3, <3>1, <3>2
  <2>2. stakes' \in [CompetitionIds -> [Addresses -> Nat]]
    BY <1>2, <1>6, <2>1 DEF Overturn, TypeOK, challenge
  <2>3. retained' \in Nat
    BY <1>6, <2>1 DEF Overturn, TypeOK
  <2>4. EvmTypeOK'
    <3>1. challenge.stake + reward \in Nat
      BY <1>2, <2>1
    <3>2. PayOne(challenge.challenger, challenge.stake + reward)
      BY <1>6 DEF Overturn, challenge
    <3>3. QED
      BY <1>2, <3>1, <3>2, PayOneType DEF TypeOK
  <2>5. QED
    BY <1>4, <1>6, <2>2, <2>3, <2>4 DEF Overturn, TypeOK, recordVars, poolVars
<1>7. CASE DeclareInconclusive(c, candidate, caller)
  <2>1. EvmTypeOK'
    BY <1>2, <1>7, PayOneType DEF DeclareInconclusive, TypeOK, challenge
  <2>2. QED
    BY <1>4, <1>7, <2>1 DEF DeclareInconclusive, TypeOK, recordVars, poolVars
<1>8. QED
  BY <1>5, <1>6, <1>7 DEF ResolveDispute, challenge

(* A payout bounded by the escrow leaves the pool's record typed. *)
LEMMA DrawDownType ==
  ASSUME TypeOK, NEW c \in CompetitionIds, NEW amount \in Nat,
         amount <= competitions[c].escrowedWei
  PROVE  /\ [competitions EXCEPT ![c] = DrawDown(@, amount)]
              \in [CompetitionIds -> Competition]
         /\ [competitions EXCEPT ![c] = [DrawDown(@, amount) EXCEPT !.settled = TRUE]]
              \in [CompetitionIds -> Competition]
         /\ [paid EXCEPT ![c] = @ + amount] \in [CompetitionIds -> Nat]
<1>1. competitions[c] \in Competition /\ paid[c] \in Nat
  BY DEF TypeOK
<1>2. competitions[c].escrowedWei - amount \in Nat
  BY <1>1 DEF Competition
<1>3. DrawDown(competitions[c], amount) \in Competition
  BY <1>1, <1>2 DEF Competition, DrawDown
<1>4. [DrawDown(competitions[c], amount) EXCEPT !.settled = TRUE] \in Competition
  BY <1>3 DEF Competition
<1>5. QED
  BY <1>1, <1>3, <1>4 DEF TypeOK

(* Records and epochs preserve the types: every continuous payout is bounded by
   what is still escrowed. *)
LEMMA ArenaType ==
  ASSUME TypeOK, NEW c \in CompetitionIds, NEW caller \in Callers,
         \/ \E researcher \in Payees, newBest \in Scores :
              RecordBeat(c, caller, researcher, newBest)
         \/ TickEpoch(c, caller)
  PROVE  TypeOK'
<1>. DEFINE s == continuousStates[c]
<1>1. s \in ContinuousState /\ competitions[c].escrowedWei \in Nat
  BY DEF TypeOK, Competition
<1>2. /\ s.weiPerMicro \in Nat /\ s.weiPerEpoch \in Nat /\ s.bestMicros \in Int
      /\ s.topHolder \in Addresses /\ s.spentWei \in Nat /\ s.epoch \in Nat
  BY <1>1 DEF ContinuousState
<1>. HIDE DEF s
<1>3. ASSUME NEW researcher \in Payees, NEW newBest \in Scores,
             SeizeTop(c, caller, researcher, newBest)
      PROVE  TypeOK'
  <2>1. researcher \in Addresses /\ newBest \in Int
    BY ManagerAssumption
  <2>2. [s EXCEPT !.bestMicros = newBest, !.topHolder = researcher] \in ContinuousState
    BY <1>1, <2>1 DEF ContinuousState
  <2>3. continuousStates' \in [CompetitionIds -> ContinuousState]
    BY <1>3, <2>2 DEF SeizeTop, TypeOK, s
  <2>4. QED
    BY <1>3, <2>3 DEF SeizeTop, TypeOK, EvmTypeOK, recordVars, bondVars, evmVars
<1>4. ASSUME NEW researcher \in Payees, NEW newBest \in Scores,
             PayBounty(c, caller, researcher, newBest)
      PROVE  TypeOK'
  <2>. DEFINE marginalWei == s.weiPerMicro * Marginal(c, newBest)
  <2>1. researcher \in Addresses /\ newBest \in Int
    BY ManagerAssumption
  <2>2. Marginal(c, newBest) \in Nat
    BY <1>2, <1>4, <2>1 DEF PayBounty, BeatsRecord, Marginal, s
  <2>3. marginalWei \in Nat /\ marginalWei <= competitions[c].escrowedWei
    BY <1>2, <1>4, <2>2 DEF PayBounty, s
  <2>. HIDE DEF marginalWei
  <2>4. [s EXCEPT !.bestMicros = newBest, !.topHolder = researcher,
                  !.spentWei = @ + marginalWei] \in ContinuousState
    <3>1. s.spentWei + marginalWei \in Nat
      BY <1>2, <2>3
    <3>2. QED
      BY <1>1, <2>1, <3>1 DEF ContinuousState
  <2>5. continuousStates' \in [CompetitionIds -> ContinuousState]
    BY <1>4, <2>4 DEF PayBounty, TypeOK, s, marginalWei
  <2>6. competitions' \in [CompetitionIds -> Competition] /\ paid' \in [CompetitionIds -> Nat]
    BY <1>4, <2>3, DrawDownType DEF PayBounty, s, marginalWei
  <2>7. EvmTypeOK'
    BY <1>4, <2>1, <2>3, PayOneType DEF PayBounty, TypeOK, s, marginalWei
  <2>8. QED
    BY <1>4, <2>5, <2>6, <2>7 DEF PayBounty, TypeOK, recordVars, bondVars
<1>5. CASE AdvanceEpoch(c, caller)
  <2>1. [s EXCEPT !.epoch = @ + 1] \in ContinuousState
    BY <1>1, <1>2 DEF ContinuousState
  <2>2. continuousStates' \in [CompetitionIds -> ContinuousState]
    BY <1>5, <2>1 DEF AdvanceEpoch, TypeOK, s
  <2>3. QED
    BY <1>5, <2>2 DEF AdvanceEpoch, TypeOK, EvmTypeOK, recordVars, bondVars, evmVars
<1>6. CASE CreditEpoch(c, caller)
  <2>. DEFINE credited == Lesser(s.weiPerEpoch, competitions[c].escrowedWei)
  <2>1. credited \in Nat /\ credited <= competitions[c].escrowedWei
    BY <1>1, <1>2 DEF Lesser
  <2>. HIDE DEF credited
  <2>2. [s EXCEPT !.epoch = @ + 1, !.spentWei = @ + credited] \in ContinuousState
    <3>1. s.epoch + 1 \in Nat /\ s.spentWei + credited \in Nat
      BY <1>2, <2>1
    <3>2. QED
      BY <1>1, <3>1 DEF ContinuousState
  <2>3. continuousStates' \in [CompetitionIds -> ContinuousState]
    BY <1>6, <2>2 DEF CreditEpoch, Credit, TypeOK, s, credited
  <2>4. competitions' \in [CompetitionIds -> Competition] /\ paid' \in [CompetitionIds -> Nat]
    BY <1>6, <2>1, DrawDownType DEF CreditEpoch, Credit, s, credited
  <2>5. EvmTypeOK'
    BY <1>2, <1>6, <2>1, PayOneType DEF CreditEpoch, Credit, TypeOK, s, credited
  <2>6. QED
    BY <1>6, <2>3, <2>4, <2>5 DEF CreditEpoch, TypeOK, recordVars, bondVars
<1>7. QED
  BY <1>3, <1>4, <1>5, <1>6 DEF RecordBeat, TickEpoch

(* Terminal settlement preserves the types: it distributes at most the escrow. *)
LEMMA SettlePoolType ==
  ASSUME TypeOK, NEW c \in CompetitionIds, NEW caller \in Callers,
         NEW allocation \in Allocations, SettlePool(c, caller, allocation)
  PROVE  TypeOK'
<1>1. Total(allocation) \in Nat /\ NonZero(allocation) \in Seq(Transfer)
  BY ManagerAssumption, TotalType, KeptOnlyNonZero
<1>2. competitions' \in [CompetitionIds -> Competition] /\ paid' \in [CompetitionIds -> Nat]
  BY <1>1, DrawDownType DEF SettlePool
<1>3. EvmTypeOK'
  BY <1>1, PayEachType DEF SettlePool, TypeOK
<1>4. QED
  BY <1>2, <1>3 DEF SettlePool, TypeOK, recordVars, bondVars

(* No step of the contract or of the chain breaks the types. *)
LEMMA TypeStep == TypeOK /\ [Next]_vars => TypeOK'
<1>. SUFFICES ASSUME TypeOK, [Next]_vars PROVE TypeOK'
  OBVIOUS
<1>1. ASSUME NEW c \in CompetitionIds, NEW caller \in Callers, Referee(c, caller)
      PROVE  TypeOK'
  BY <1>1, ResolveDisputeType, ArenaType, SettlePoolType
     DEF Referee, Distribute, DistributeShares
<1>2. CASE EvmNext /\ UNCHANGED managerVars
  BY <1>2, EvmNextType DEF TypeOK, managerVars, recordVars, bondVars, poolVars
<1>3. CASE UNCHANGED vars
  BY <1>3 DEF TypeOK, EvmTypeOK, vars, managerVars, recordVars, bondVars, poolVars, evmVars
<1>4. QED
  BY <1>1, <1>2, <1>3, CreateType, ParticipateType, SubmitType DEF Next

(* A contract nobody has called is typed. *)
LEMMA InitType == Init => TypeOK
BY ManagerAssumption, EvmAssumption DEF Init, EvmInit, ManagerInit, TypeOK, EvmTypeOK,
   NoCompetition, NoChallenge, NotYetContinuous, Competition, Challenge,
   ContinuousState, Hashes

(* TypeOK holds in every reachable state: in particular no balance, escrow,
   bond or lock counter ever underflows. *)
THEOREM TypeCorrect == Spec => []TypeOK
BY InitType, TypeStep, PTL DEF Spec

-----------------------------------------------------------------------------
(* 1. The reward pool is conserved, whatever mix of record bounties, epoch
   credits and terminal settlement draws on it. *)

(* The strengthening that makes PoolConserved and ArenaPaysItsSchedule
   inductive, for one competition. Its first two parts say that an id nobody
   has created is blank, so that creation starts from nothing paid. *)
PoolOK(pool, arena, out) ==
  /\ ~pool.exists => pool = NoCompetition /\ arena = NotYetContinuous /\ out = 0
  /\ ~arena.exists => arena = NotYetContinuous
  /\ pool.escrowedWei + out = pool.rewardPoolWei
  /\ arena.spentWei <= out
  /\ ~pool.settled => out = arena.spentWei
  /\ arena.exists /\ ~arena.streaming =>
       arena.spentWei = arena.weiPerMicro * (arena.bestMicros - arena.baselineMicros)
  /\ arena.streaming =>
       arena.spentWei = Lesser(arena.weiPerEpoch * arena.epoch, pool.rewardPoolWei)

PoolInv ==
  \A c \in CompetitionIds : PoolOK(competitions[c], continuousStates[c], paid[c])

(* A new pool is whole. *)
LEMMA NewPoolOK ==
  ASSUME NEW pool \in Competition, NEW arena \in ContinuousState,
         pool.exists, ~pool.settled, pool.escrowedWei = pool.rewardPoolWei,
         \/ arena = NotYetContinuous
         \/ /\ arena.exists /\ arena.spentWei = 0 /\ arena.epoch = 0
            /\ arena.bestMicros = arena.baselineMicros
  PROVE  PoolOK(pool, arena, 0)
<1>1. /\ pool.rewardPoolWei \in Nat /\ arena.weiPerMicro \in Nat
      /\ arena.weiPerEpoch \in Nat /\ arena.baselineMicros \in Int
  BY DEF Competition, ContinuousState
<1>2. CASE arena = NotYetContinuous
  BY <1>1, <1>2 DEF PoolOK, NotYetContinuous
<1>3. CASE /\ arena.exists /\ arena.spentWei = 0 /\ arena.epoch = 0
           /\ arena.bestMicros = arena.baselineMicros
  <2>1. /\ arena.weiPerMicro * (arena.bestMicros - arena.baselineMicros) = 0
        /\ arena.weiPerEpoch * arena.epoch = 0
    BY <1>1, <1>3
  <2>2. Lesser(arena.weiPerEpoch * arena.epoch, pool.rewardPoolWei) = 0
    BY <1>1, <2>1 DEF Lesser
  <2>3. QED
    BY <1>1, <1>3, <2>1, <2>2 DEF PoolOK
<1>4. QED
  BY <1>2, <1>3

(* Paying the marginal of a record extends the telescope by one link. *)
LEMMA BountyOK ==
  ASSUME NEW pool \in Competition, NEW arena \in ContinuousState, NEW out \in Nat,
         PoolOK(pool, arena, out), pool.exists, ~pool.settled,
         arena.exists, ~arena.streaming,
         NEW best \in Int, NEW holder \in Addresses, NEW wei \in Nat,
         wei = arena.weiPerMicro * (best - arena.bestMicros)
  PROVE  PoolOK([pool EXCEPT !.escrowedWei = @ - wei],
                [arena EXCEPT !.bestMicros = best, !.topHolder = holder, !.spentWei = @ + wei],
                out + wei)
<1>1. /\ pool.escrowedWei \in Nat /\ pool.rewardPoolWei \in Nat
      /\ arena.weiPerMicro \in Nat /\ arena.bestMicros \in Int
      /\ arena.baselineMicros \in Int /\ arena.spentWei \in Nat
  BY DEF Competition, ContinuousState
<1>2. arena.weiPerMicro * (best - arena.baselineMicros)
        = arena.weiPerMicro * (arena.bestMicros - arena.baselineMicros)
          + arena.weiPerMicro * (best - arena.bestMicros)
  BY <1>1
<1>3. arena.spentWei + wei = arena.weiPerMicro * (best - arena.baselineMicros)
  BY <1>1, <1>2 DEF PoolOK
<1>4. QED
  BY <1>1, <1>3 DEF PoolOK, Competition, ContinuousState

(* Crediting one more epoch moves min(rate * epochs, pool) one epoch on. *)
LEMMA CreditOK ==
  ASSUME NEW pool \in Competition, NEW arena \in ContinuousState, NEW out \in Nat,
         PoolOK(pool, arena, out), pool.exists, ~pool.settled,
         arena.exists, arena.streaming,
         NEW wei \in Nat, wei = Lesser(arena.weiPerEpoch, pool.escrowedWei)
  PROVE  PoolOK([pool EXCEPT !.escrowedWei = @ - wei],
                [arena EXCEPT !.epoch = @ + 1, !.spentWei = @ + wei],
                out + wei)
<1>1. /\ pool.escrowedWei \in Nat /\ pool.rewardPoolWei \in Nat
      /\ arena.weiPerEpoch \in Nat /\ arena.epoch \in Nat /\ arena.spentWei \in Nat
  BY DEF Competition, ContinuousState
<1>2. arena.weiPerEpoch * (arena.epoch + 1) = arena.weiPerEpoch * arena.epoch + arena.weiPerEpoch
  BY <1>1
<1>3. arena.weiPerEpoch * arena.epoch \in Nat
  BY <1>1
<1>4. /\ arena.spentWei = Lesser(arena.weiPerEpoch * arena.epoch, pool.rewardPoolWei)
      /\ pool.escrowedWei + arena.spentWei = pool.rewardPoolWei
  BY <1>1 DEF PoolOK
<1>5. arena.spentWei + wei = Lesser(arena.weiPerEpoch * (arena.epoch + 1), pool.rewardPoolWei)
  BY <1>1, <1>2, <1>3, <1>4 DEF Lesser
<1>6. QED
  BY <1>1, <1>5 DEF PoolOK, Competition, ContinuousState

(* Settling pays out of the escrow once and leaves the arena alone. *)
LEMMA SettleOK ==
  ASSUME NEW pool \in Competition, NEW arena \in ContinuousState, NEW out \in Nat,
         PoolOK(pool, arena, out), pool.exists, ~pool.settled, NEW wei \in Nat
  PROVE  PoolOK([pool EXCEPT !.settled = TRUE, !.escrowedWei = @ - wei], arena, out + wei)
<1>1. /\ pool.escrowedWei \in Nat /\ pool.rewardPoolWei \in Nat /\ arena.spentWei \in Nat
  BY DEF Competition, ContinuousState
<1>2. QED
  BY <1>1 DEF PoolOK, Competition

(* An operation works on one pool: it is enough to look at that one. *)
LEMMA OnePool ==
  ASSUME PoolInv, NEW c \in CompetitionIds,
         PoolOK(competitions'[c], continuousStates'[c], paid'[c]),
         \A d \in CompetitionIds \ {c} :
           /\ competitions'[d] = competitions[d]
           /\ continuousStates'[d] = continuousStates[d]
           /\ paid'[d] = paid[d]
  PROVE  PoolInv'
BY DEF PoolInv

(* Creation opens a whole pool. *)
LEMMA CreatePool ==
  ASSUME TypeOK, PoolInv, NEW c \in CompetitionIds, NEW caller \in Callers, Create(c, caller)
  PROVE  PoolInv'
<1>1. PICK value \in MsgValues, deadline \in Deadlines, floor \in StakeFloors \cup {0} :
        LockPool(c, caller, value, deadline, floor)
  BY DEF Create, CreateCompetition, CreateContinuousCompetition, CreateContinuousStreaming
<1>2. TypeOK'
  BY CreateType
<1>3. /\ competitions'[c].exists /\ ~competitions'[c].settled
      /\ competitions'[c].escrowedWei = competitions'[c].rewardPoolWei
      /\ \A d \in CompetitionIds \ {c} : competitions'[d] = competitions[d]
  BY <1>1 DEF LockPool, TypeOK
<1>4. /\ ~competitions[c].exists
      /\ paid' = paid
  BY <1>1 DEF LockPool, Exists, Create, CreateCompetition, CreateContinuousCompetition,
     CreateContinuousStreaming
<1>5. paid'[c] = 0 /\ continuousStates[c] = NotYetContinuous
  BY <1>4 DEF PoolInv, PoolOK
<1>6. \/ continuousStates' = continuousStates
      \/ \E streaming \in BOOLEAN, epsilon \in Epsilons, perMicro \in Rates \cup {0},
             perEpoch \in Rates \cup {0}, baseline \in Baselines :
           InitContinuous(c, streaming, epsilon, perMicro, perEpoch, baseline)
  BY DEF Create, CreateCompetition, CreateContinuousCompetition, CreateContinuousStreaming
<1>7. /\ \A d \in CompetitionIds \ {c} : continuousStates'[d] = continuousStates[d]
      /\ \/ continuousStates'[c] = NotYetContinuous
         \/ /\ continuousStates'[c].exists
            /\ continuousStates'[c].spentWei = 0 /\ continuousStates'[c].epoch = 0
            /\ continuousStates'[c].bestMicros = continuousStates'[c].baselineMicros
  BY <1>5, <1>6 DEF InitContinuous, TypeOK
<1>8. competitions'[c] \in Competition /\ continuousStates'[c] \in ContinuousState
  BY <1>2 DEF TypeOK
<1>9. PoolOK(competitions'[c], continuousStates'[c], 0)
  BY <1>3, <1>7, <1>8, NewPoolOK
<1>10. QED
  BY <1>3, <1>4, <1>5, <1>7, <1>9, OnePool

(* Records and epochs keep every pool in order. *)
LEMMA ArenaPool ==
  ASSUME TypeOK, PoolInv, NEW c \in CompetitionIds, NEW caller \in Callers,
         \/ \E researcher \in Payees, newBest \in Scores :
              RecordBeat(c, caller, researcher, newBest)
         \/ TickEpoch(c, caller)
  PROVE  PoolInv'
<1>. DEFINE pool == competitions[c]
            s == continuousStates[c]
<1>1. /\ pool \in Competition /\ s \in ContinuousState /\ paid[c] \in Nat
      /\ PoolOK(pool, s, paid[c])
  BY DEF TypeOK, PoolInv
<1>2. ASSUME NEW researcher \in Payees, NEW newBest \in Scores,
             SeizeTop(c, caller, researcher, newBest)
      PROVE  PoolInv'
  <2>1. PoolOK(pool, [s EXCEPT !.bestMicros = newBest, !.topHolder = researcher], paid[c])
    BY <1>1, <1>2 DEF SeizeTop, BeatsRecord, ArenaOpen, IsProposer, Exists, PoolOK, ContinuousState
  <2>2. /\ continuousStates'[c] = [s EXCEPT !.bestMicros = newBest, !.topHolder = researcher]
        /\ \A d \in CompetitionIds \ {c} : continuousStates'[d] = continuousStates[d]
        /\ UNCHANGED <<competitions, paid>>
    BY <1>2 DEF SeizeTop, TypeOK
  <2>3. QED
    BY <2>1, <2>2, OnePool
<1>3. ASSUME NEW researcher \in Payees, NEW newBest \in Scores,
             PayBounty(c, caller, researcher, newBest)
      PROVE  PoolInv'
  <2>. DEFINE wei == s.weiPerMicro * (newBest - s.bestMicros)
              pool2 == [pool EXCEPT !.escrowedWei = @ - wei]
              s2 == [s EXCEPT !.bestMicros = newBest, !.topHolder = researcher,
                              !.spentWei = @ + wei]
  <2>1. newBest \in Int /\ researcher \in Addresses
    BY ManagerAssumption
  <2>2. wei \in Nat
    <3>1. newBest - s.bestMicros \in Nat
      BY <1>1, <1>3, <2>1 DEF PayBounty, BeatsRecord, Marginal, ContinuousState
    <3>2. s.weiPerMicro \in Nat
      BY <1>1 DEF ContinuousState
    <3>3. QED
      BY <3>1, <3>2
  <2>3. /\ competitions'[c] = pool2 /\ continuousStates'[c] = s2 /\ paid'[c] = paid[c] + wei
        /\ \A d \in CompetitionIds \ {c} :
             /\ competitions'[d] = competitions[d]
             /\ continuousStates'[d] = continuousStates[d]
             /\ paid'[d] = paid[d]
    BY <1>3 DEF PayBounty, Marginal, DrawDown, TypeOK
  <2>4. pool.exists /\ ~pool.settled /\ s.exists /\ ~s.streaming
    BY <1>3 DEF PayBounty, BeatsRecord, ArenaOpen, IsProposer, Exists
  <2>. HIDE DEF pool, s
  <2>5. PoolOK(pool2, s2, paid[c] + wei)
    BY <1>1, <2>1, <2>2, <2>4, BountyOK
  <2>6. QED
    BY <2>3, <2>5, OnePool
<1>4. CASE AdvanceEpoch(c, caller)
  <2>1. PoolOK(pool, [s EXCEPT !.epoch = @ + 1], paid[c])
    BY <1>1, <1>4 DEF AdvanceEpoch, CanTick, ArenaOpen, IsProposer, Exists, PoolOK, ContinuousState
  <2>2. /\ continuousStates'[c] = [s EXCEPT !.epoch = @ + 1]
        /\ \A d \in CompetitionIds \ {c} : continuousStates'[d] = continuousStates[d]
        /\ UNCHANGED <<competitions, paid>>
    BY <1>4 DEF AdvanceEpoch, TypeOK
  <2>3. QED
    BY <2>1, <2>2, OnePool
<1>5. CASE CreditEpoch(c, caller)
  <2>. DEFINE wei == Lesser(s.weiPerEpoch, pool.escrowedWei)
              pool2 == [pool EXCEPT !.escrowedWei = @ - wei]
              s2 == [s EXCEPT !.epoch = @ + 1, !.spentWei = @ + wei]
  <2>1. wei \in Nat
    BY <1>1 DEF Lesser, Competition, ContinuousState
  <2>2. /\ competitions'[c] = pool2 /\ continuousStates'[c] = s2 /\ paid'[c] = paid[c] + wei
        /\ \A d \in CompetitionIds \ {c} :
             /\ competitions'[d] = competitions[d]
             /\ continuousStates'[d] = continuousStates[d]
             /\ paid'[d] = paid[d]
    BY <1>5 DEF CreditEpoch, Credit, DrawDown, TypeOK
  <2>3. pool.exists /\ ~pool.settled /\ s.exists /\ s.streaming
    BY <1>5 DEF CreditEpoch, CanTick, ArenaOpen, IsProposer, Exists
  <2>. HIDE DEF pool, s
  <2>4. PoolOK(pool2, s2, paid[c] + wei)
    BY <1>1, <2>1, <2>3, CreditOK
  <2>5. QED
    BY <2>2, <2>4, OnePool
<1>6. QED
  BY <1>2, <1>3, <1>4, <1>5 DEF RecordBeat, TickEpoch

(* Settlement keeps every pool in order. *)
LEMMA SettledPool ==
  ASSUME TypeOK, PoolInv, NEW c \in CompetitionIds, NEW caller \in Callers,
         NEW allocation \in Allocations, SettlePool(c, caller, allocation)
  PROVE  PoolInv'
<1>. DEFINE pool2 == [competitions[c] EXCEPT !.settled = TRUE,
                                             !.escrowedWei = @ - Total(allocation)]
<1>1. Total(allocation) \in Nat
  BY ManagerAssumption, TotalType
<1>2. /\ competitions'[c] = pool2 /\ continuousStates' = continuousStates
      /\ paid'[c] = paid[c] + Total(allocation)
      /\ \A d \in CompetitionIds \ {c} :
           competitions'[d] = competitions[d] /\ paid'[d] = paid[d]
  BY DEF SettlePool, CanSettle, DrawDown, TypeOK
<1>3. /\ competitions[c] \in Competition /\ continuousStates[c] \in ContinuousState
      /\ paid[c] \in Nat /\ PoolOK(competitions[c], continuousStates[c], paid[c])
      /\ competitions[c].exists /\ ~competitions[c].settled
  BY DEF TypeOK, PoolInv, SettlePool, CanSettle, IsProposer, Exists
<1>4. PoolOK(pool2, continuousStates[c], paid[c] + Total(allocation))
  BY <1>1, <1>3, SettleOK
<1>5. QED
  BY <1>2, <1>4, OnePool

(* Which operations touch a pool at all. *)
LEMMA PoolStepCases ==
  ASSUME [Next]_vars
  PROVE  \/ UNCHANGED poolVars
         \/ \E c \in CompetitionIds, caller \in Callers : Create(c, caller)
         \/ \E c \in CompetitionIds, caller \in Callers :
              \/ \E researcher \in Payees, newBest \in Scores :
                   RecordBeat(c, caller, researcher, newBest)
              \/ TickEpoch(c, caller)
         \/ \E c \in CompetitionIds, caller \in Callers, allocation \in Allocations :
              SettlePool(c, caller, allocation)
<1>1. ASSUME NEW c \in CompetitionIds, NEW caller \in Callers, Participate(c, caller)
      PROVE  UNCHANGED poolVars
  BY <1>1 DEF Participate, PostStake, OpenChallenge, WithdrawStake
<1>2. ASSUME NEW c \in CompetitionIds, NEW caller \in Submitters, Submit(c, caller)
      PROVE  UNCHANGED poolVars
  BY <1>2, SMTT(30) DEF Submit, CommitCandidate, OnJobCall, RevealCandidate, OnJobResult,
     RecordCommitment, RecordReveal
<1>3. ASSUME NEW c \in CompetitionIds, NEW caller \in Callers, NEW candidate \in CandidateIds,
             ResolveDispute(c, candidate, caller)
      PROVE  UNCHANGED poolVars
  BY <1>3 DEF ResolveDispute, Uphold, Overturn, DeclareInconclusive, CloseChallenge
<1>4. CASE UNCHANGED managerVars
  BY <1>4 DEF managerVars
<1>5. QED
  BY <1>1, <1>2, <1>3, <1>4 DEF Next, Referee, Distribute, DistributeShares, vars

(* No operation puts any pool out of order. *)
LEMMA PoolStep == TypeOK /\ PoolInv /\ [Next]_vars => PoolInv'
<1>. SUFFICES ASSUME TypeOK, PoolInv, [Next]_vars PROVE PoolInv'
  OBVIOUS
<1>1. CASE UNCHANGED poolVars
  BY <1>1 DEF poolVars, PoolInv
<1>2. QED
  BY <1>1, PoolStepCases, CreatePool, ArenaPool, SettledPool

(* Pools nobody has created are in order. *)
LEMMA InitPool == Init => PoolInv
BY DEF Init, ManagerInit, PoolInv, PoolOK, NoCompetition, NotYetContinuous

(* Every pool is in order in every reachable state. *)
THEOREM PoolsInOrder == Spec => []PoolInv
BY InitPool, PoolStep, TypeCorrect, PTL DEF Spec

(* In every reachable state what is escrowed and what was paid make up the
   locked pool: no competition is paid from another one's escrow. *)
THEOREM PoolConservedCorrect == Spec => []PoolConserved
<1>1. PoolInv => PoolConserved
  BY DEF PoolInv, PoolOK, PoolConserved
<1>2. QED
  BY <1>1, PoolsInOrder, PTL

(* In every reachable state a bounty competition has paid for exactly the
   distance from its baseline to its best, and a streaming one its rate for
   each epoch, up to its pool. *)
THEOREM ArenaScheduleCorrect == Spec => []ArenaPaysItsSchedule
<1>1. PoolInv => ArenaPaysItsSchedule
  BY DEF PoolInv, PoolOK, ArenaPaysItsSchedule
<1>2. QED
  BY <1>1, PoolsInOrder, PTL

(* An operation leaves alone a pool it does not name, and a settled one even
   if it does. *)
LEMMA SettledStays ==
  ASSUME TypeOK, PoolInv, [Next]_vars, NEW c \in CompetitionIds, competitions[c].settled
  PROVE  /\ competitions'[c] = competitions[c]
         /\ continuousStates'[c] = continuousStates[c]
         /\ paid'[c] = paid[c]
<1>1. competitions[c].exists
  BY DEF PoolInv, PoolOK, NoCompetition
<1>2. CASE UNCHANGED poolVars
  BY <1>2 DEF poolVars
<1>3. ASSUME NEW d \in CompetitionIds, NEW caller \in Callers, Create(d, caller)
      PROVE  /\ competitions'[c] = competitions[c]
             /\ continuousStates'[c] = continuousStates[c]
             /\ paid'[c] = paid[c]
  <2>1. PICK value, deadline, floor : LockPool(d, caller, value, deadline, floor)
    BY <1>3 DEF Create, CreateCompetition, CreateContinuousCompetition,
       CreateContinuousStreaming
  <2>2. d # c /\ competitions'[c] = competitions[c]
    BY <1>1, <2>1 DEF LockPool, Exists, TypeOK
  <2>3. \/ continuousStates' = continuousStates
        \/ \E streaming, epsilon, perMicro, perEpoch, baseline :
             InitContinuous(d, streaming, epsilon, perMicro, perEpoch, baseline)
    BY <1>3 DEF Create, CreateCompetition, CreateContinuousCompetition,
       CreateContinuousStreaming
  <2>4. continuousStates'[c] = continuousStates[c]
    BY <2>2, <2>3 DEF InitContinuous, TypeOK
  <2>5. paid' = paid
    BY <1>3 DEF Create, CreateCompetition, CreateContinuousCompetition,
       CreateContinuousStreaming
  <2>6. QED
    BY <2>2, <2>4, <2>5
<1>4. ASSUME NEW d \in CompetitionIds, NEW caller \in Callers,
             \/ \E researcher \in Payees, newBest \in Scores :
                  RecordBeat(d, caller, researcher, newBest)
             \/ TickEpoch(d, caller)
      PROVE  /\ competitions'[c] = competitions[c]
             /\ continuousStates'[c] = continuousStates[c]
             /\ paid'[c] = paid[c]
  BY <1>4 DEF RecordBeat, SeizeTop, PayBounty, BeatsRecord, ArenaOpen, TickEpoch, AdvanceEpoch,
     CreditEpoch, CanTick, TypeOK
<1>5. ASSUME NEW d \in CompetitionIds, NEW caller \in Callers,
             NEW allocation \in Allocations, SettlePool(d, caller, allocation)
      PROVE  /\ competitions'[c] = competitions[c]
             /\ continuousStates'[c] = continuousStates[c]
             /\ paid'[c] = paid[c]
  BY <1>5 DEF SettlePool, CanSettle, DrawDown, TypeOK
<1>6. QED
  BY <1>2, <1>3, <1>4, <1>5, PoolStepCases

(* Once a competition is settled its pool, leaderboard and epoch are frozen,
   through every later call and every call made from inside a payout. *)
THEOREM SettledForEver == Spec => SettledIsFinal
<1>1. TypeOK /\ PoolInv /\ [Next]_vars =>
        [\A c \in CompetitionIds : competitions[c].settled =>
           /\ competitions'[c] = competitions[c]
           /\ continuousStates'[c] = continuousStates[c]
           /\ paid'[c] = paid[c]]_vars
  BY SettledStays
<1>2. QED
  BY <1>1, TypeCorrect, PoolsInOrder, PTL DEF Spec, SettledIsFinal

-----------------------------------------------------------------------------
(* CompetitionManager implements RewardPool. *)

(* A pool operation is at most one abstract step: of the pool it names. *)
LEMMA PoolMaps ==
  ASSUME NEW c \in CompetitionIds, TypeOK, TypeOK', PoolInv, PoolInv',
         \A d \in CompetitionIds \ {c} : /\ competitions'[d] = competitions[d]
                                         /\ paid'[d] = paid[d],
         \/ /\ ~competitions[c].exists /\ competitions'[c].exists
            /\ ~competitions'[c].settled
            /\ competitions'[c].rewardPoolWei > 0 /\ paid'[c] = paid[c]
         \/ /\ competitions[c].exists /\ ~competitions[c].settled
            /\ competitions'[c].exists
            /\ competitions'[c].rewardPoolWei = competitions[c].rewardPoolWei
            /\ paid'[c] >= paid[c]
  PROVE  Pool!PoolNext
<1>. DEFINE P == [d \in CompetitionIds |->
                   IF ~competitions[d].exists THEN "absent"
                   ELSE IF competitions[d].settled THEN "closed" ELSE "open"]
            L == [d \in CompetitionIds |-> competitions[d].rewardPoolWei]
<1>1. /\ paid \in [CompetitionIds -> Nat] /\ paid' \in [CompetitionIds -> Nat]
      /\ competitions'[c].escrowedWei \in Nat
  BY DEF TypeOK, Competition
<1>2. paid'[c] <= competitions'[c].rewardPoolWei
  BY <1>1 DEF PoolInv, PoolOK, TypeOK, Competition
<1>3. paid' = [paid EXCEPT ![c] = paid'[c]]
  BY <1>1
<1>4. P' = [P EXCEPT ![c] = P'[c]] /\ L' = [L EXCEPT ![c] = L'[c]]
  OBVIOUS
<1>5. CASE /\ ~competitions[c].exists /\ competitions'[c].exists
           /\ ~competitions'[c].settled
           /\ competitions'[c].rewardPoolWei > 0 /\ paid'[c] = paid[c]
  <2>1. P[c] = "absent" /\ P'[c] = "open" /\ L'[c] > 0 /\ paid' = paid
    BY <1>1, <1>3, <1>5
  <2>2. Pool!Open(c)
    BY <1>4, <2>1 DEF Pool!Open
  <2>3. QED
    BY <2>2 DEF Pool!PoolNext
<1>6. CASE /\ competitions[c].exists /\ ~competitions[c].settled
           /\ competitions'[c].exists
           /\ competitions'[c].rewardPoolWei = competitions[c].rewardPoolWei
           /\ paid'[c] >= paid[c]
  <2>1. P[c] = "open" /\ P'[c] \in {"open", "closed"} /\ L'[c] = L[c] /\ L' = L
    BY <1>6
  <2>2. paid'[c] <= L[c]
    BY <1>2, <1>6
  <2>3. Pool!Pay(c)
    BY <1>3, <1>4, <1>6, <2>1, <2>2 DEF Pool!Pay
  <2>4. QED
    BY <2>3 DEF Pool!PoolNext
<1>7. QED
  BY <1>5, <1>6

(* Every step of the contract is an abstract step of some pool, or none. *)
LEMMA PoolRefinementStep ==
  TypeOK /\ TypeOK' /\ PoolInv /\ PoolInv' /\ [Next]_vars => [Pool!PoolNext]_(Pool!poolVars)
<1>. SUFFICES ASSUME TypeOK, TypeOK', PoolInv, PoolInv', [Next]_vars
              PROVE  Pool!PoolNext \/ UNCHANGED Pool!poolVars
  OBVIOUS
<1>1. CASE UNCHANGED <<competitions, paid>>
  BY <1>1 DEF Pool!poolVars
<1>2. ASSUME NEW c \in CompetitionIds, NEW caller \in Callers, Create(c, caller)
      PROVE  Pool!PoolNext
  <2>1. PICK value \in MsgValues, deadline \in Deadlines, floor \in StakeFloors \cup {0} :
          LockPool(c, caller, value, deadline, floor)
    BY <1>2 DEF Create, CreateCompetition, CreateContinuousCompetition,
       CreateContinuousStreaming
  <2>2. paid' = paid
    BY <1>2 DEF Create, CreateCompetition, CreateContinuousCompetition,
       CreateContinuousStreaming
  <2>3. value \in Nat /\ value > 0
    BY <2>1, ManagerAssumption DEF LockPool
  <2>4. /\ ~competitions[c].exists /\ competitions'[c].exists
        /\ ~competitions'[c].settled /\ competitions'[c].rewardPoolWei > 0
        /\ \A d \in CompetitionIds \ {c} : competitions'[d] = competitions[d]
    BY <2>1, <2>3 DEF LockPool, Exists, TypeOK
  <2>5. QED
    BY <2>2, <2>4, PoolMaps
<1>3. ASSUME NEW c \in CompetitionIds, NEW wei \in Nat,
             competitions[c].exists, ~competitions[c].settled,
             paid' = [paid EXCEPT ![c] = @ + wei],
             \/ competitions' = [competitions EXCEPT ![c] = DrawDown(@, wei)]
             \/ competitions' = [competitions EXCEPT
                                   ![c] = [DrawDown(@, wei) EXCEPT !.settled = TRUE]]
      PROVE  Pool!PoolNext
  <2>1. competitions[c] \in Competition /\ paid[c] \in Nat
    BY DEF TypeOK
  <2>2. /\ competitions'[c].exists
        /\ competitions'[c].rewardPoolWei = competitions[c].rewardPoolWei
        /\ \A d \in CompetitionIds \ {c} : competitions'[d] = competitions[d]
    <3>1. CASE competitions' = [competitions EXCEPT ![c] = DrawDown(@, wei)]
      BY <1>3, <2>1, <3>1 DEF TypeOK, Competition, DrawDown
    <3>2. CASE competitions' = [competitions EXCEPT
                                 ![c] = [DrawDown(@, wei) EXCEPT !.settled = TRUE]]
      BY <1>3, <2>1, <3>2 DEF TypeOK, Competition, DrawDown
    <3>3. QED
      BY <1>3, <3>1, <3>2
  <2>3. /\ paid'[c] >= paid[c]
        /\ \A d \in CompetitionIds \ {c} : paid'[d] = paid[d]
    BY <1>3, <2>1 DEF TypeOK
  <2>4. QED
    BY <1>3, <2>2, <2>3, PoolMaps
<1>4. ASSUME NEW c \in CompetitionIds, NEW caller \in Callers,
             NEW researcher \in Payees, NEW newBest \in Scores,
             PayBounty(c, caller, researcher, newBest)
      PROVE  Pool!PoolNext
  <2>. DEFINE wei == continuousStates[c].weiPerMicro * Marginal(c, newBest)
  <2>1. wei \in Nat
    <3>1. newBest \in Int /\ continuousStates[c] \in ContinuousState
      BY ManagerAssumption DEF TypeOK
    <3>2. Marginal(c, newBest) \in Nat
      BY <1>4, <3>1 DEF PayBounty, BeatsRecord, Marginal, ContinuousState
    <3>3. QED
      BY <3>1, <3>2 DEF ContinuousState
  <2>2. QED
    BY <1>3, <1>4, <2>1 DEF PayBounty, BeatsRecord, ArenaOpen, IsProposer, Exists
<1>5. ASSUME NEW c \in CompetitionIds, NEW caller \in Callers, CreditEpoch(c, caller)
      PROVE  Pool!PoolNext
  <2>. DEFINE wei == Lesser(continuousStates[c].weiPerEpoch, competitions[c].escrowedWei)
  <2>1. wei \in Nat
    BY DEF Lesser, TypeOK, Competition, ContinuousState
  <2>2. QED
    BY <1>3, <1>5, <2>1 DEF CreditEpoch, Credit, CanTick, ArenaOpen, IsProposer, Exists
<1>6. ASSUME NEW c \in CompetitionIds, NEW caller \in Callers,
             NEW allocation \in Allocations, SettlePool(c, caller, allocation)
      PROVE  Pool!PoolNext
  <2>1. Total(allocation) \in Nat
    BY ManagerAssumption, TotalType
  <2>2. QED
    BY <1>3, <1>6, <2>1 DEF SettlePool, CanSettle, IsProposer, Exists
<1>7. QED
  BY <1>1, <1>2, <1>4, <1>5, <1>6, PoolStepCases
     DEF poolVars, RecordBeat, SeizeTop, TickEpoch, AdvanceEpoch

(* The contract implements RewardPool: every pool is locked once, pays out at
   most what was locked, and pays nothing after its settlement. *)
THEOREM ImplementsPool == Spec => ImplementsRewardPool
<1>1. Init => Pool!PoolInit
  BY DEF Init, ManagerInit, NoCompetition, Pool!PoolInit
<1>2. QED
  BY <1>1, PoolRefinementStep, TypeCorrect, PoolsInOrder, PTL
     DEF Spec, ImplementsRewardPool, Pool!PoolSpec

-----------------------------------------------------------------------------
(* 2. The lock on a researcher's bond is exact, and the bond cannot be outrun. *)

(* Which operations touch a bond or a challenge at all. *)
LEMMA BondStepCases ==
  ASSUME [Next]_vars
  PROVE  \/ UNCHANGED <<stakes, challenges, openChallengeCount>>
         \/ \E c \in CompetitionIds, caller \in Callers, value \in MsgValues :
              PostStake(c, caller, value)
         \/ \E c \in CompetitionIds, caller \in Callers : WithdrawStake(c, caller)
         \/ \E c \in CompetitionIds, caller \in Callers, candidate \in CandidateIds,
               researcher \in Addresses, value \in MsgValues :
              OpenChallenge(c, candidate, researcher, caller, value)
         \/ \E c \in CompetitionIds, caller \in Callers, candidate \in CandidateIds :
              ResolveDispute(c, candidate, caller)
<1>. DEFINE Quiet == UNCHANGED <<stakes, challenges, openChallengeCount>>
<1>1. ASSUME NEW c \in CompetitionIds, NEW caller \in Callers, Create(c, caller)
      PROVE  Quiet
  BY <1>1 DEF Create, CreateCompetition, CreateContinuousCompetition,
     CreateContinuousStreaming, bondVars
<1>2. ASSUME NEW c \in CompetitionIds, NEW caller \in Callers, Referee(c, caller)
      PROVE  Quiet \/ \E candidate \in CandidateIds : ResolveDispute(c, candidate, caller)
  BY <1>2 DEF Referee, RecordBeat, SeizeTop, PayBounty, TickEpoch, AdvanceEpoch,
     CreditEpoch, Distribute, DistributeShares, SettlePool, bondVars
<1>3. ASSUME NEW c \in CompetitionIds, NEW caller \in Submitters, Submit(c, caller)
      PROVE  Quiet
  BY <1>3 DEF Submit, CommitCandidate, OnJobCall, RevealCandidate, OnJobResult,
     RecordCommitment, RecordReveal, bondVars
<1>4. CASE UNCHANGED managerVars
  BY <1>4 DEF managerVars, bondVars
<1>5. QED
  BY <1>1, <1>2, <1>3, <1>4 DEF Next, Participate, vars

(* A new challenge joins the ones naming its researcher, and only those. *)
LEMMA OpenNaming ==
  ASSUME TypeOK, NEW c \in CompetitionIds, NEW k \in CandidateIds,
         NEW r \in Addresses, NEW caller, NEW value,
         OpenChallenge(c, k, r, caller, value)
  PROVE  /\ k \notin ChallengesNaming(c, r)
         /\ \A d \in CompetitionIds, a \in Addresses :
              ChallengesNaming(d, a)' =
                IF d = c /\ a = r THEN ChallengesNaming(d, a) \cup {k}
                                  ELSE ChallengesNaming(d, a)
<1>1. ~IsOpen(challenges[c][k])
  BY DEF OpenChallenge, CanChallenge
<1>2. /\ IsOpen(challenges'[c][k])
      /\ challenges'[c][k].researcher = r
      /\ \A d \in CompetitionIds, j \in CandidateIds :
           d # c \/ j # k => challenges'[d][j] = challenges[d][j]
  BY DEF OpenChallenge, TypeOK, IsOpen
<1>3. QED
  BY <1>1, <1>2 DEF ChallengesNaming, IsOpen

(* A ruling takes its challenge from the ones naming its researcher, and only
   from those. *)
LEMMA CloseNaming ==
  ASSUME TypeOK, NEW c \in CompetitionIds, NEW k \in CandidateIds, NEW caller,
         CloseChallenge(c, k, caller)
  PROVE  /\ k \in ChallengesNaming(c, challenges[c][k].researcher)
         /\ \A d \in CompetitionIds, a \in Addresses :
              ChallengesNaming(d, a)' =
                IF d = c /\ a = challenges[c][k].researcher
                THEN ChallengesNaming(d, a) \ {k} ELSE ChallengesNaming(d, a)
<1>1. IsOpen(challenges[c][k])
  BY DEF CloseChallenge
<1>2. challenges[c][k] \in Challenge
  BY DEF TypeOK
<1>3. /\ ~IsOpen(challenges'[c][k])
      /\ \A d \in CompetitionIds, j \in CandidateIds :
           d # c \/ j # k => challenges'[d][j] = challenges[d][j]
  BY <1>2 DEF CloseChallenge, TypeOK, IsOpen, Challenge
<1>4. QED
  BY <1>1, <1>3 DEF ChallengesNaming, IsOpen

(* Every ruling closes its challenge. *)
LEMMA RulingCloses ==
  ASSUME NEW c, NEW k, NEW caller, ResolveDispute(c, k, caller)
  PROVE  CloseChallenge(c, k, caller)
BY DEF ResolveDispute, Uphold, Overturn, DeclareInconclusive

(* Only finitely many challenges name a researcher, so they can be counted. *)
LEMMA NamingFinite ==
  ASSUME NEW c \in CompetitionIds, NEW a \in Addresses
  PROVE  IsFiniteSet(ChallengesNaming(c, a)) /\ Cardinality(ChallengesNaming(c, a)) \in Nat
<1>1. ChallengesNaming(c, a) \in SUBSET CandidateIds
  BY DEF ChallengesNaming
<1>2. QED
  BY <1>1, FS_Subset, FS_CardinalityType, ManagerAssumption

(* The counter follows the set of open challenges through every step. *)
LEMMA LockCountStep ==
  TypeOK /\ LockCountExact /\ [Next]_vars => LockCountExact'
<1>. SUFFICES ASSUME TypeOK, LockCountExact, [Next]_vars PROVE LockCountExact'
  OBVIOUS
<1>1. CASE UNCHANGED <<challenges, openChallengeCount>>
  BY <1>1 DEF LockCountExact, ChallengesNaming
<1>2. ASSUME NEW c \in CompetitionIds, NEW caller \in Callers, NEW k \in CandidateIds,
             NEW r \in Addresses, NEW value \in MsgValues,
             OpenChallenge(c, k, r, caller, value)
      PROVE  LockCountExact'
  <2>. SUFFICES ASSUME NEW d \in CompetitionIds, NEW a \in Addresses
                PROVE  openChallengeCount'[d][a] = Cardinality(ChallengesNaming(d, a)')
    BY DEF LockCountExact
  <2>1. openChallengeCount[d][a] = Cardinality(ChallengesNaming(d, a))
    BY DEF LockCountExact
  <2>2. openChallengeCount'[d][a] =
          IF d = c /\ a = r THEN openChallengeCount[d][a] + 1 ELSE openChallengeCount[d][a]
    BY <1>2 DEF OpenChallenge, TypeOK
  <2>3. CASE d = c /\ a = r
    <3>1. k \notin ChallengesNaming(d, a)
      BY <1>2, <2>3, OpenNaming
    <3>2. ChallengesNaming(d, a)' = ChallengesNaming(d, a) \cup {k}
      BY <1>2, <2>3, OpenNaming
    <3>3. Cardinality(ChallengesNaming(d, a) \cup {k}) = Cardinality(ChallengesNaming(d, a)) + 1
      BY <3>1, NamingFinite, FS_AddElement
    <3>4. QED
      BY <2>1, <2>2, <2>3, <3>2, <3>3
  <2>4. CASE ~(d = c /\ a = r)
    <3>1. ChallengesNaming(d, a)' = ChallengesNaming(d, a)
      BY <1>2, <2>4, OpenNaming
    <3>2. QED
      BY <2>1, <2>2, <2>4, <3>1
  <2>5. QED
    BY <2>3, <2>4
<1>3. ASSUME NEW c \in CompetitionIds, NEW caller \in Callers, NEW k \in CandidateIds,
             CloseChallenge(c, k, caller)
      PROVE  LockCountExact'
  <2>. SUFFICES ASSUME NEW d \in CompetitionIds, NEW a \in Addresses
                PROVE  openChallengeCount'[d][a] = Cardinality(ChallengesNaming(d, a)')
    BY DEF LockCountExact
  <2>. DEFINE r == challenges[c][k].researcher
  <2>1. openChallengeCount[d][a] = Cardinality(ChallengesNaming(d, a))
    BY DEF LockCountExact
  <2>2. openChallengeCount'[d][a] =
          IF d = c /\ a = r THEN openChallengeCount[d][a] - 1 ELSE openChallengeCount[d][a]
    BY <1>3 DEF CloseChallenge, TypeOK
  <2>3. CASE d = c /\ a = r
    <3>1. k \in ChallengesNaming(d, a)
      BY <1>3, <2>3, CloseNaming
    <3>2. ChallengesNaming(d, a)' = ChallengesNaming(d, a) \ {k}
      BY <1>3, <2>3, CloseNaming
    <3>3. Cardinality(ChallengesNaming(d, a) \ {k}) = Cardinality(ChallengesNaming(d, a)) - 1
      BY <3>1, NamingFinite, FS_RemoveElement
    <3>4. QED
      BY <2>1, <2>2, <2>3, <3>2, <3>3
  <2>4. CASE ~(d = c /\ a = r)
    <3>1. ChallengesNaming(d, a)' = ChallengesNaming(d, a)
      BY <1>3, <2>4, CloseNaming
    <3>2. QED
      BY <2>1, <2>2, <2>4, <3>1
  <2>5. QED
    BY <2>3, <2>4
<1>4. QED
  BY <1>1, <1>2, <1>3, BondStepCases, RulingCloses DEF PostStake, WithdrawStake

(* A bond is locked exactly while some open challenge names its owner,
   whatever the number of candidates, researchers and rulings. *)
THEOREM LockCountCorrect == Spec => []LockCountExact
<1>1. Init => LockCountExact
  <2>. SUFFICES ASSUME Init, NEW c \in CompetitionIds, NEW a \in Addresses
                PROVE  openChallengeCount[c][a] = Cardinality(ChallengesNaming(c, a))
    BY DEF LockCountExact
  <2>1. ChallengesNaming(c, a) = {}
    BY DEF Init, ManagerInit, ChallengesNaming, NoChallenge, IsOpen
  <2>2. QED
    BY <2>1, FS_EmptySet DEF Init, ManagerInit
<1>2. QED
  BY <1>1, LockCountStep, TypeCorrect, PTL DEF Spec

-----------------------------------------------------------------------------
(* CompetitionManager implements SlashableBond. *)

(* Which disputes stand against whom, and which competitions are final. *)
Disputed ==
  [c \in CompetitionIds |-> [a \in Addresses |-> ChallengesNaming(c, a)]]

Finals == [c \in CompetitionIds |-> competitions[c].settled]

(* One researcher's challenges changed is one bond's disputes changed. *)
LEMMA OneDisputed ==
  ASSUME NEW c \in CompetitionIds, NEW a \in Addresses, NEW value,
         \A d \in CompetitionIds, r \in Addresses :
           ChallengesNaming(d, r)' = IF d = c /\ r = a THEN value ELSE ChallengesNaming(d, r)
  PROVE  Disputed' = [Disputed EXCEPT ![c][a] = value]
<1>1. PICK g : g = Disputed'
  OBVIOUS
<1>2. g = [d \in CompetitionIds |-> [r \in Addresses |-> ChallengesNaming(d, r)']]
  BY <1>1 DEF Disputed
<1>3. ASSUME NEW d \in CompetitionIds, d # c
      PROVE  g[d] = Disputed[d]
  <2>1. \A r \in Addresses : ChallengesNaming(d, r)' = ChallengesNaming(d, r)
    BY <1>3
  <2>2. QED
    BY <1>2, <2>1 DEF Disputed
<1>4. g[c] = [Disputed[c] EXCEPT ![a] = value]
  <2>1. \A r \in Addresses :
          ChallengesNaming(c, r)' = IF r = a THEN value ELSE ChallengesNaming(c, r)
    OBVIOUS
  <2>2. QED
    BY <1>2, <2>1 DEF Disputed
<1>5. g = [Disputed EXCEPT ![c] = [Disputed[c] EXCEPT ![a] = value]]
  <2>1. /\ Disputed = [d \in CompetitionIds |-> Disputed[d]]
        /\ g = [d \in CompetitionIds |-> g[d]]
    BY <1>2 DEF Disputed
  <2>2. QED
    BY <1>3, <1>4, <2>1
<1>6. QED
  BY <1>1, <1>5

(* Staking more is the abstract top-up, staking nothing a stutter. *)
LEMMA StakeMaps ==
  ASSUME TypeOK, NEW c \in CompetitionIds, NEW caller \in Callers, NEW value \in MsgValues,
         PostStake(c, caller, value)
  PROVE  Bond!BondNext \/ UNCHANGED Bond!bondVars
<1>1. caller \in Addresses /\ value \in Nat /\ stakes[c][caller] \in Nat
  BY ManagerAssumption DEF Callers, TypeOK
<1>2. UNCHANGED <<Disputed, Finals>>
  BY DEF PostStake, Disputed, Finals, ChallengesNaming, poolVars
<1>3. stakes' = [stakes EXCEPT ![c][caller] = stakes[c][caller] + value]
  BY DEF PostStake
<1>4. CASE value = 0
  <2>1. stakes' = stakes
    BY <1>1, <1>3, <1>4 DEF TypeOK
  <2>2. QED
    BY <1>2, <2>1 DEF Bond!bondVars, Disputed, Finals
<1>5. CASE value # 0
  <2>1. stakes'[c][caller] = stakes[c][caller] + value
    BY <1>1, <1>3 DEF TypeOK
  <2>2. stakes'[c][caller] > stakes[c][caller]
    BY <1>1, <1>5, <2>1
  <2>3. stakes' = [stakes EXCEPT ![c][caller] = stakes'[c][caller]]
    BY <1>3, <2>1, Zenon
  <2>4. Bond!TopUp(c, caller)
    BY <1>2, <2>2, <2>3 DEF Bond!TopUp, Disputed, Finals
  <2>5. QED
    BY <1>1, <2>4 DEF Bond!BondNext
<1>6. QED
  BY <1>4, <1>5

(* A bond leaves only when no challenge names its owner: the counter says so
   and the counter is exact. *)
LEMMA WithdrawMaps ==
  ASSUME TypeOK, LockCountExact, NEW c \in CompetitionIds, NEW caller \in Callers,
         WithdrawStake(c, caller)
  PROVE  Bond!BondNext
<1>1. caller \in Addresses
  BY DEF Callers
<1>2. UNCHANGED <<Disputed, Finals>>
  BY DEF WithdrawStake, Disputed, Finals, ChallengesNaming, poolVars
<1>3. ChallengesNaming(c, caller) = {}
  <2>1. Cardinality(ChallengesNaming(c, caller)) = 0
    BY <1>1 DEF WithdrawStake, CanWithdraw, LockCountExact
  <2>2. QED
    BY <1>1, <2>1, NamingFinite, FS_EmptySet
<1>4. Finals[c] /\ Disputed[c][caller] = {} /\ stakes' = [stakes EXCEPT ![c][caller] = 0]
  BY <1>1, <1>3 DEF WithdrawStake, CanWithdraw, Finals, Disputed
<1>5. Bond!Leave(c, caller)
  BY <1>2, <1>4 DEF Bond!Leave, Disputed, Finals
<1>6. QED
  BY <1>1, <1>5 DEF Bond!BondNext

(* A challenge is a dispute against the bond it names. *)
LEMMA ChallengeMaps ==
  ASSUME TypeOK, NEW c \in CompetitionIds, NEW caller \in Callers, NEW k \in CandidateIds,
         NEW r \in Addresses, NEW value \in MsgValues,
         OpenChallenge(c, k, r, caller, value)
  PROVE  Bond!BondNext
<1>1. stakes' = stakes /\ UNCHANGED Finals
  BY DEF OpenChallenge, Finals, poolVars
<1>2. k \notin Disputed[c][r]
  BY OpenNaming DEF Disputed
<1>3. Disputed' = [Disputed EXCEPT ![c][r] = @ \cup {k}]
  <2>1. Disputed' = [Disputed EXCEPT ![c][r] = ChallengesNaming(c, r) \cup {k}]
    <3>1. PICK v : v = ChallengesNaming(c, r) \cup {k}
      OBVIOUS
    <3>2. \A d \in CompetitionIds, a \in Addresses :
            ChallengesNaming(d, a)' = IF d = c /\ a = r THEN v ELSE ChallengesNaming(d, a)
      BY <3>1, OpenNaming
    <3>3. QED
      BY <3>1, <3>2, OneDisputed
  <2>2. Disputed[c][r] = ChallengesNaming(c, r)
    BY DEF Disputed
  <2>3. QED
    BY <2>1, <2>2
<1>4. Bond!Dispute(c, r, k)
  BY <1>1, <1>2, <1>3 DEF Bond!Dispute, Disputed, Finals
<1>5. QED
  BY <1>4 DEF Bond!BondNext

(* A ruling ends the dispute it names and slashes no other bond. *)
LEMMA RulingMaps ==
  ASSUME TypeOK, NEW c \in CompetitionIds, NEW caller \in Callers, NEW k \in CandidateIds,
         ResolveDispute(c, k, caller)
  PROVE  Bond!BondNext
<1>0. PICK r : r = challenges[c][k].researcher
  OBVIOUS
<1>1. r \in Addresses /\ stakes[c][r] \in Nat
  BY <1>0 DEF TypeOK, Challenge
<1>2. CloseChallenge(c, k, caller)
  BY RulingCloses
<1>3. UNCHANGED Finals
  BY <1>2 DEF CloseChallenge, Finals, poolVars
<1>4. k \in Disputed[c][r]
  BY <1>0, <1>1, <1>2, CloseNaming DEF Disputed
<1>5. Disputed' = [Disputed EXCEPT ![c][r] = @ \ {k}]
  <2>1. Disputed' = [Disputed EXCEPT ![c][r] = ChallengesNaming(c, r) \ {k}]
    <3>1. PICK v : v = ChallengesNaming(c, r) \ {k}
      OBVIOUS
    <3>2. \A d \in CompetitionIds, a \in Addresses :
            ChallengesNaming(d, a)' = IF d = c /\ a = r THEN v ELSE ChallengesNaming(d, a)
      BY <1>0, <1>1, <1>2, <3>1, CloseNaming
    <3>3. QED
      BY <1>1, <3>1, <3>2, OneDisputed
  <2>2. Disputed[c][r] = ChallengesNaming(c, r)
    BY <1>1 DEF Disputed
  <2>3. QED
    BY <2>1, <2>2
<1>6. /\ stakes' = [stakes EXCEPT ![c][r] = stakes'[c][r]]
      /\ stakes'[c][r] <= stakes[c][r]
  <2>1. CASE UNCHANGED stakes
    BY <1>1, <2>1 DEF TypeOK
  <2>2. ASSUME NEW slash \in Slashes, slash <= stakes[c][r],
               stakes' = [stakes EXCEPT ![c][r] = @ - slash]
        PROVE  /\ stakes' = [stakes EXCEPT ![c][r] = stakes'[c][r]]
               /\ stakes'[c][r] <= stakes[c][r]
    <3>1. stakes'[c][r] = stakes[c][r] - slash
      BY <1>1, <2>2 DEF TypeOK
    <3>2. stakes[c][r] - slash <= stakes[c][r]
      BY <1>1, ManagerAssumption
    <3>3. QED
      BY <2>2, <3>1, <3>2, Zenon
  <2>3. QED
    BY <1>0, <2>1, <2>2 DEF ResolveDispute, Uphold, Overturn, MaySlash, DeclareInconclusive
<1>7. Bond!Rule(c, r, k)
  BY <1>3, <1>4, <1>5, <1>6 DEF Bond!Rule, Disputed, Finals
<1>8. QED
  BY <1>1, <1>7 DEF Bond!BondNext

(* Every step of the contract is an abstract step of one bond, or a
   settlement, or none. *)
LEMMA BondRefinementStep ==
  TypeOK /\ PoolInv /\ LockCountExact /\ [Next]_vars => [Bond!BondNext]_(Bond!bondVars)
<1>. SUFFICES ASSUME TypeOK, PoolInv, LockCountExact, [Next]_vars
              PROVE  Bond!BondNext \/ UNCHANGED Bond!bondVars
  OBVIOUS
<1>1. CASE UNCHANGED <<stakes, challenges, openChallengeCount>>
  <2>1. stakes' = stakes /\ UNCHANGED Disputed
    BY <1>1 DEF Disputed, ChallengesNaming
  <2>2. \A c \in CompetitionIds : Finals[c] => Finals'[c]
    BY SettledStays DEF Finals
  <2>3. Bond!Finalise
    BY <2>1, <2>2 DEF Bond!Finalise, Disputed, Finals
  <2>4. QED
    BY <2>3 DEF Bond!BondNext
<1>2. QED
  BY <1>1, BondStepCases, StakeMaps, WithdrawMaps, ChallengeMaps, RulingMaps

(* The contract implements SlashableBond: no bond is withdrawn while a
   challenge names its owner, and none is slashed for another one's challenge. *)
THEOREM ImplementsBond == Spec => ImplementsSlashableBond
<1>1. Init => Bond!BondInit
  <2>. SUFFICES ASSUME Init PROVE Bond!BondInit
    OBVIOUS
  <2>1. \A c \in CompetitionIds, a \in Addresses : ChallengesNaming(c, a) = {}
    BY DEF Init, ManagerInit, NoChallenge, ChallengesNaming, IsOpen
  <2>2. QED
    BY <2>1 DEF Init, ManagerInit, NoCompetition, Bond!BondInit
<1>2. QED
  BY <1>1, BondRefinementStep, TypeCorrect, PoolsInOrder, LockCountCorrect, PTL
     DEF Spec, ImplementsSlashableBond, Bond!BondSpec

-----------------------------------------------------------------------------
(* 3. Every continuous competition is a king of the hill. *)

(* The terms and the standing of one competition, as the refinement maps them. *)
TermsOf(pool, arena) ==
  [open |-> arena.exists, streaming |-> arena.streaming, epsilon |-> arena.epsilonMicros,
   rate |-> IF arena.streaming THEN arena.weiPerEpoch ELSE arena.weiPerMicro,
   pool |-> IF arena.exists THEN pool.rewardPoolWei ELSE 0,
   baseline |-> arena.baselineMicros]

StandingOf(arena) ==
  [best |-> arena.bestMicros, holder |-> arena.topHolder,
   spent |-> arena.spentWei, epoch |-> arena.epoch]

AllTerms ==
  [c \in CompetitionIds |-> TermsOf(competitions[c], continuousStates[c])]

AllStandings == [c \in CompetitionIds |-> StandingOf(continuousStates[c])]

(* What a step leaves alone stays alone under the mapping. *)
LEMMA HillFrame ==
  ASSUME TypeOK, NEW c \in CompetitionIds,
         \A d \in CompetitionIds \ {c} :
           /\ continuousStates'[d] = continuousStates[d]
           /\ competitions'[d].rewardPoolWei = competitions[d].rewardPoolWei
  PROVE  /\ AllStandings' = [AllStandings EXCEPT ![c] = AllStandings'[c]]
         /\ AllTerms' = [AllTerms EXCEPT ![c] = AllTerms'[c]]
  BY ZenonT(30) DEF AllStandings, AllTerms, StandingOf, TermsOf

(* A step that neither touches an arena nor relocks its pool is a stutter. *)
LEMMA HillStutter ==
  ASSUME TypeOK, UNCHANGED continuousStates,
         \A d \in CompetitionIds : continuousStates[d].exists =>
           competitions'[d].rewardPoolWei = competitions[d].rewardPoolWei
  PROVE  AllTerms' = AllTerms /\ AllStandings' = AllStandings
  BY DEF AllStandings, AllTerms, StandingOf, TermsOf

(* Before settlement what is escrowed is what the arena has left. *)
LEMMA LeftIsEscrowed ==
  ASSUME TypeOK, PoolInv, NEW c \in CompetitionIds, continuousStates[c].exists,
         ~competitions[c].settled
  PROVE  AllTerms[c].pool - AllStandings[c].spent = competitions[c].escrowedWei
<1>1. /\ competitions[c].escrowedWei \in Nat /\ competitions[c].rewardPoolWei \in Nat
      /\ paid[c] \in Nat /\ continuousStates[c].spentWei = paid[c]
      /\ competitions[c].escrowedWei + paid[c] = competitions[c].rewardPoolWei
  BY DEF PoolInv, PoolOK, TypeOK, Competition
<1>2. QED
  BY <1>1 DEF AllTerms, AllStandings, TermsOf, StandingOf

(* A record of a new best is a Take of the arena it names. *)
LEMMA RecordTakes ==
  ASSUME TypeOK, PoolInv, NEW c \in CompetitionIds, NEW caller \in Callers,
         NEW researcher \in Payees, NEW newBest \in Scores,
         RecordBeat(c, caller, researcher, newBest)
  PROVE  Hill!Take(c)
<1>. DEFINE arena == continuousStates[c]
            margin == newBest - arena.bestMicros
            pay == IF arena.streaming THEN 0 ELSE arena.weiPerMicro * margin
<1>1. /\ arena \in ContinuousState /\ newBest \in Int /\ researcher \in Addresses
      /\ competitions[c] \in Competition
  BY ManagerAssumption DEF TypeOK
<1>2. /\ arena.exists /\ ~competitions[c].settled
      /\ margin >= arena.epsilonMicros /\ margin > 0
  BY DEF RecordBeat, SeizeTop, PayBounty, BeatsRecord, ArenaOpen, Marginal
<1>3. continuousStates' = [continuousStates EXCEPT ![c] =
        [arena EXCEPT !.bestMicros = newBest, !.topHolder = researcher, !.spentWei = @ + pay]]
  <2>1. CASE SeizeTop(c, caller, researcher, newBest)
    <3>1. arena.streaming /\ arena.spentWei + 0 = arena.spentWei
      BY <1>1, <2>1 DEF SeizeTop, ContinuousState
    <3>2. QED
      BY <1>1, <2>1, <3>1 DEF SeizeTop, ContinuousState, TypeOK
  <2>2. CASE PayBounty(c, caller, researcher, newBest)
    BY <1>1, <2>2 DEF PayBounty, Marginal, ContinuousState, TypeOK
  <2>3. QED
    BY <2>1, <2>2 DEF RecordBeat
<1>4. pay <= competitions[c].escrowedWei
  BY <1>1 DEF RecordBeat, SeizeTop, PayBounty, Marginal, Competition
<1>5. \A d \in CompetitionIds : competitions'[d].rewardPoolWei = competitions[d].rewardPoolWei
  <2>1. CASE competitions' = competitions
    BY <2>1
  <2>2. CASE PayBounty(c, caller, researcher, newBest)
    <3>1. PICK wei : competitions' = [competitions EXCEPT ![c] = DrawDown(@, wei)]
      BY <2>2 DEF PayBounty
    <3>2. DrawDown(competitions[c], wei).rewardPoolWei = competitions[c].rewardPoolWei
      BY <1>1 DEF DrawDown, Competition
    <3>3. QED
      BY <3>1, <3>2 DEF TypeOK
  <2>3. QED
    BY <2>1, <2>2 DEF RecordBeat, SeizeTop
<1>6. AllTerms' = AllTerms
  BY <1>1, <1>3, <1>5 DEF AllTerms, TermsOf, ContinuousState, TypeOK
<1>7. AllStandings' = [AllStandings EXCEPT ![c] = AllStandings'[c]]
  BY <1>3, <1>5, HillFrame DEF TypeOK
<1>8. /\ AllStandings'[c].best - AllStandings[c].best = margin
      /\ AllStandings'[c].spent = AllStandings[c].spent + pay
      /\ AllStandings'[c].epoch = AllStandings[c].epoch
  BY <1>1, <1>3 DEF AllStandings, StandingOf, ContinuousState, TypeOK
<1>9. /\ AllTerms[c].open /\ AllTerms[c].epsilon = arena.epsilonMicros
      /\ pay = IF AllTerms[c].streaming THEN 0 ELSE AllTerms[c].rate * margin
  BY <1>1, <1>2 DEF AllTerms, TermsOf, ContinuousState
<1>10. pay <= AllTerms[c].pool - AllStandings[c].spent
  BY <1>2, <1>4, LeftIsEscrowed
<1>. HIDE DEF arena, margin, pay
<1>11. QED
  BY <1>2, <1>6, <1>7, <1>8, <1>9, <1>10
     DEF Hill!Take, Hill!Left, Hill!Only, AllTerms, AllStandings, TermsOf, StandingOf

(* A tick of the epoch is a Pass of the arena it names. *)
LEMMA TickPasses ==
  ASSUME TypeOK, PoolInv, NEW c \in CompetitionIds, NEW caller \in Callers,
         TickEpoch(c, caller)
  PROVE  Hill!Pass(c)
<1>. DEFINE arena == continuousStates[c]
            left == competitions[c].escrowedWei
            credit == IF ~arena.streaming \/ arena.topHolder = ZeroAddress THEN 0
                      ELSE IF arena.weiPerEpoch < left THEN arena.weiPerEpoch ELSE left
<1>1. arena \in ContinuousState /\ competitions[c] \in Competition
  BY DEF TypeOK
<1>2. arena.exists /\ ~competitions[c].settled
  BY DEF TickEpoch, AdvanceEpoch, CreditEpoch, CanTick, ArenaOpen
<1>3. continuousStates' = [continuousStates EXCEPT ![c] =
        [arena EXCEPT !.epoch = @ + 1, !.spentWei = @ + credit]]
  <2>1. CASE AdvanceEpoch(c, caller)
    <3>1. ~arena.streaming /\ arena.spentWei + 0 = arena.spentWei
      BY <1>1, <2>1 DEF AdvanceEpoch, ContinuousState
    <3>2. QED
      BY <1>1, <2>1, <3>1 DEF AdvanceEpoch, ContinuousState, TypeOK
  <2>2. CASE CreditEpoch(c, caller)
    BY <1>1, <2>2 DEF CreditEpoch, Credit, Lesser, ContinuousState, TypeOK
  <2>3. QED
    BY <2>1, <2>2 DEF TickEpoch
<1>4. \A d \in CompetitionIds : competitions'[d].rewardPoolWei = competitions[d].rewardPoolWei
  <2>1. CASE competitions' = competitions
    BY <2>1
  <2>2. CASE CreditEpoch(c, caller)
    <3>1. PICK wei : competitions' = [competitions EXCEPT ![c] = DrawDown(@, wei)]
      BY <2>2 DEF CreditEpoch
    <3>2. DrawDown(competitions[c], wei).rewardPoolWei = competitions[c].rewardPoolWei
      BY <1>1 DEF DrawDown, Competition
    <3>3. QED
      BY <3>1, <3>2 DEF TypeOK
  <2>3. QED
    BY <2>1, <2>2 DEF TickEpoch, AdvanceEpoch
<1>5. AllTerms' = AllTerms
  BY <1>1, <1>3, <1>4 DEF AllTerms, TermsOf, ContinuousState, TypeOK
<1>6. AllTerms[c].pool - AllStandings[c].spent = left
  BY <1>2, LeftIsEscrowed
<1>7. /\ AllTerms[c].open /\ AllTerms[c].streaming = arena.streaming
      /\ AllStandings[c].holder = arena.topHolder
      /\ arena.streaming => AllTerms[c].rate = arena.weiPerEpoch
  BY <1>2 DEF AllTerms, AllStandings, TermsOf, StandingOf
<1>8. AllStandings' = [AllStandings EXCEPT ![c] = Hill!Credited(@, credit)]
  <2>1. continuousStates'[c] = [arena EXCEPT !.epoch = @ + 1, !.spentWei = @ + credit]
    BY <1>3 DEF TypeOK
  <2>. HIDE DEF credit
  <2>2. /\ continuousStates'[c].bestMicros = arena.bestMicros
        /\ continuousStates'[c].topHolder = arena.topHolder
        /\ continuousStates'[c].spentWei = arena.spentWei + credit
        /\ continuousStates'[c].epoch = arena.epoch + 1
    BY <1>1, <2>1 DEF ContinuousState
  <2>3. AllStandings'[c] = Hill!Credited(AllStandings[c], credit)
    BY <2>2 DEF AllStandings, StandingOf, Hill!Credited
  <2>4. AllStandings' = [AllStandings EXCEPT ![c] = AllStandings'[c]]
    BY <1>3, <1>4, HillFrame DEF TypeOK
  <2>5. QED
    BY <2>3, <2>4
<1>9. credit = IF ~AllTerms[c].streaming \/ AllStandings[c].holder = ZeroAddress THEN 0
               ELSE IF AllTerms[c].rate < AllTerms[c].pool - AllStandings[c].spent
                    THEN AllTerms[c].rate ELSE AllTerms[c].pool - AllStandings[c].spent
  BY <1>6, <1>7
<1>. HIDE DEF credit
<1>10. QED
  BY <1>5, <1>7, <1>8, <1>9
     DEF Hill!Pass, Hill!Left, AllTerms, AllStandings, TermsOf, StandingOf

(* Creating a continuous competition opens its arena; a one-shot one opens none. *)
LEMMA CreateOpens ==
  ASSUME TypeOK, PoolInv, NEW c \in CompetitionIds, NEW caller \in Callers, Create(c, caller)
  PROVE  Hill!OpenArena(c) \/ (AllTerms' = AllTerms /\ AllStandings' = AllStandings)
<1>1. PICK value \in MsgValues, deadline \in Deadlines, floor \in StakeFloors \cup {0} :
        LockPool(c, caller, value, deadline, floor)
  BY DEF Create, CreateCompetition, CreateContinuousCompetition, CreateContinuousStreaming
<1>2. /\ ~competitions[c].exists /\ ~continuousStates[c].exists
      /\ \A d \in CompetitionIds \ {c} : competitions'[d] = competitions[d]
      /\ competitions'[c].rewardPoolWei = value
  BY <1>1 DEF LockPool, Exists, TypeOK, PoolInv, PoolOK, NotYetContinuous
<1>3. CASE UNCHANGED continuousStates
  BY <1>2, <1>3, HillStutter
<1>4. ASSUME NEW streaming \in BOOLEAN, NEW epsilon, NEW perMicro, NEW perEpoch, NEW baseline,
             InitContinuous(c, streaming, epsilon, perMicro, perEpoch, baseline)
      PROVE  Hill!OpenArena(c)
  <2>1. /\ continuousStates'[c].exists
        /\ continuousStates'[c].bestMicros = continuousStates'[c].baselineMicros
        /\ continuousStates'[c].topHolder = ZeroAddress
        /\ continuousStates'[c].spentWei = 0 /\ continuousStates'[c].epoch = 0
        /\ \A d \in CompetitionIds \ {c} : continuousStates'[d] = continuousStates[d]
    BY <1>4 DEF InitContinuous, TypeOK
  <2>2. /\ AllTerms' = [AllTerms EXCEPT ![c] = AllTerms'[c]]
        /\ AllStandings' = [AllStandings EXCEPT ![c] = AllStandings'[c]]
    BY <1>2, <2>1, HillFrame
  <2>3. /\ ~AllTerms[c].open /\ AllTerms'[c].open
        /\ AllStandings'[c] = [best |-> AllTerms'[c].baseline, holder |-> ZeroAddress,
                               spent |-> 0, epoch |-> 0]
    BY <1>2, <2>1 DEF AllTerms, AllStandings, TermsOf, StandingOf
  <2>4. QED
    BY <2>2, <2>3
       DEF Hill!OpenArena, Hill!Fresh, AllTerms, AllStandings, TermsOf, StandingOf
<1>5. QED
  BY <1>3, <1>4 DEF Create, CreateCompetition, CreateContinuousCompetition,
     CreateContinuousStreaming

(* Every step of the contract is a step of one arena, or of none. *)
LEMMA HillRefinementStep ==
  TypeOK /\ PoolInv /\ [Next]_vars => [Hill!HillNext]_(Hill!hillVars)
<1>. SUFFICES ASSUME TypeOK, PoolInv, [Next]_vars
              PROVE  Hill!HillNext \/ (AllTerms' = AllTerms /\ AllStandings' = AllStandings)
  BY DEF Hill!hillVars, AllTerms, AllStandings, TermsOf, StandingOf
<1>1. CASE UNCHANGED <<competitions, continuousStates>>
  BY <1>1, HillStutter
<1>2. ASSUME NEW c \in CompetitionIds, NEW caller \in Callers, Create(c, caller)
      PROVE  Hill!HillNext \/ (AllTerms' = AllTerms /\ AllStandings' = AllStandings)
  BY <1>2, CreateOpens DEF Hill!HillNext
<1>3. ASSUME NEW c \in CompetitionIds, NEW caller \in Callers,
             NEW researcher \in Payees, NEW newBest \in Scores,
             RecordBeat(c, caller, researcher, newBest)
      PROVE  Hill!HillNext
  BY <1>3, RecordTakes DEF Hill!HillNext
<1>4. ASSUME NEW c \in CompetitionIds, NEW caller \in Callers, TickEpoch(c, caller)
      PROVE  Hill!HillNext
  BY <1>4, TickPasses DEF Hill!HillNext
<1>5. ASSUME NEW c \in CompetitionIds, NEW caller \in Callers,
             NEW allocation \in Allocations, SettlePool(c, caller, allocation)
      PROVE  AllTerms' = AllTerms /\ AllStandings' = AllStandings
  <2>1. competitions[c] \in Competition
    BY DEF TypeOK
  <2>2. \A d \in CompetitionIds : competitions'[d].rewardPoolWei = competitions[d].rewardPoolWei
    BY <1>5, <2>1 DEF SettlePool, DrawDown, TypeOK, Competition
  <2>3. QED
    BY <1>5, <2>2, HillStutter DEF SettlePool
<1>6. QED
  BY <1>1, <1>2, <1>3, <1>4, <1>5, PoolStepCases DEF poolVars

(* The contract implements KingOfTheHill: every new best is paid its exact
   margin once, every epoch its rate, out of the arena's own pool. *)
THEOREM ImplementsHill == Spec => ImplementsKingOfTheHill
<1>1. Init => Hill!HillInit
  BY DEF Init, ManagerInit, NotYetContinuous, Hill!HillInit
<1>2. QED
  BY <1>1, HillRefinementStep, TypeCorrect, PoolsInOrder, PTL
     DEF Spec, ImplementsKingOfTheHill, Hill!HillSpec

=============================================================================
