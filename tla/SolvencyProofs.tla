--------------------------- MODULE SolvencyProofs ---------------------------
(* The contract is solvent to the wei in every reachable state, marketplace and
   re-entrant calls included: EveryWeiAccounted, for all values of the constants. *)
EXTENDS ArtifactListings, CompetitionManagerProofs

(* What a call stack still has to send. *)
Owed(stack) == Tally([i \in DOMAIN stack |-> Total(Tail(stack[i]))])

(* What would be left of the balance if every unfinished call finished now. *)
Uncommitted == balance - TransfersOwed

-----------------------------------------------------------------------------
(* The wei a call moves, counting at once all it will have moved in the end. *)

(* What a frame has begun to send is its first transfer and the rest. *)
LEMMA FrameTotal ==
  ASSUME NEW due \in Frame
  PROVE  /\ Head(due).amount \in Nat \ {0} /\ Tail(due) \in Allocation
         /\ Total(due) \in Nat /\ Total(Tail(due)) \in Nat
         /\ Total(due) = Head(due).amount + Total(Tail(due))
<1>1. due \in Seq(Transfer) /\ due # <<>> /\ Head(due) \in Transfer
  BY FrameHead DEF Frame
<1>2. Transfer \subseteq [to : Addresses, amount : Nat]
  BY DEF Transfer
<1>3. due \in Allocation
  BY <1>1, <1>2, SeqMonotonic DEF Allocation
<1>4. Head(due).amount \in Nat \ {0}
  BY <1>1 DEF Transfer
<1>5. Tail(due) \in Allocation /\ Total(due) = Head(due).amount + Total(Tail(due))
  BY <1>1, <1>3, TotalHead
<1>6. QED
  BY <1>3, <1>4, <1>5, TotalType

(* The debts of a call stack, frame by frame. *)
LEMMA OwedFrames ==
  ASSUME NEW stack \in Seq(Frame)
  PROVE  /\ [i \in DOMAIN stack |-> Total(Tail(stack[i]))] \in [1..Len(stack) -> Nat]
         /\ Owed(stack) \in Nat
<1>. DEFINE debts == [i \in DOMAIN stack |-> Total(Tail(stack[i]))]
<1>1. Len(stack) \in Nat /\ DOMAIN stack = 1..Len(stack) /\ \A i \in 1..Len(stack) : stack[i] \in Frame
  BY LenProperties, ElementOfSeq
<1>2. debts \in [1..Len(stack) -> Nat]
  BY <1>1, FrameTotal
<1>3. IsFiniteSet(1..Len(stack))
  BY <1>1, FS_Interval
<1>. HIDE DEF debts
<1>4. Tally(debts) \in Nat
  BY <1>2, <1>3, TallyType
<1>5. QED
  BY <1>2, <1>4 DEF Owed, debts

(* A stack owes what its innermost frame owes and what the rest owes. *)
LEMMA OwedInnermost ==
  ASSUME NEW stack \in Seq(Frame), stack # <<>>
  PROVE  Owed(stack) = Total(Tail(Head(stack))) + Owed(Tail(stack))
<1>. DEFINE rest == Tail(stack)
            f == [i \in DOMAIN rest |-> Total(Tail(rest[i]))]
            g == [i \in DOMAIN stack |-> Total(Tail(stack[i]))]
            n == Len(rest)
<1>1. rest \in Seq(Frame) /\ n \in Nat /\ Len(stack) = n + 1
  BY HeadTailProperties, LenProperties, EmptySeq
<1>2. f \in [1..n -> Nat]
  BY <1>1, OwedFrames
<1>3. g \in [1..Len(stack) -> Nat]
  BY OwedFrames
<1>4. (\A i \in 1..n : g[i + 1] = f[i]) /\ g[1] = Total(Tail(Head(stack)))
  <2>1. Head(stack) = stack[1] /\ \A i \in 1..n : rest[i] = stack[i + 1]
    BY HeadTailProperties
  <2>2. DOMAIN stack = 1..(n + 1) /\ DOMAIN rest = 1..n
    BY <1>1, LenProperties
  <2>3. QED
    BY <1>1, <2>1, <2>2
<1>. HIDE DEF rest, f, g, n
<1>5. g \in [1..(n + 1) -> Nat]
  BY <1>1, <1>3
<1>6. Tally(g) = g[1] + Tally(f)
  BY ONLY <1>1, <1>2, <1>4, <1>5, TallyPush
<1>7. QED
  BY <1>4, <1>6 DEF Owed, rest, f, g

(* Pushing a frame adds what it has not begun to send. *)
LEMMA OwedPush ==
  ASSUME NEW stack \in Seq(Frame), NEW due \in Frame
  PROVE  Owed(<<due>> \o stack) = Total(Tail(due)) + Owed(stack)
<1>1. <<due>> \o stack \in Seq(Frame)
  BY PushFrame
<1>2. /\ <<due>> \o stack # <<>>
      /\ Head(<<due>> \o stack) = due
      /\ Tail(<<due>> \o stack) = stack
  OBVIOUS
<1>. DEFINE pushed == <<due>> \o stack
<1>. HIDE DEF pushed
<1>3. Owed(pushed) = Total(Tail(Head(pushed))) + Owed(Tail(pushed))
  BY <1>1, <1>2, OwedInnermost DEF pushed
<1>4. QED
  BY <1>2, <1>3 DEF pushed

(* What is uncommitted is a number. *)
LEMMA UncommittedInt ==
  ASSUME EvmTypeOK
  PROVE  Uncommitted \in Int /\ TransfersOwed = Owed(frames) /\ TransfersOwed \in Nat
BY OwedFrames DEF EvmTypeOK, Uncommitted, TransfersOwed, Owed

(* A payment taken in is all there is to it. *)
LEMMA TakeInWei ==
  ASSUME EvmTypeOK, NEW payer \in Addresses, NEW value \in Nat, TakeIn(payer, value)
  PROVE  Uncommitted' = Uncommitted + value
BY UncommittedInt DEF TakeIn, Uncommitted, TransfersOwed, EvmTypeOK

(* A call's transfers count in full from the moment it makes the first. *)
LEMMA TransactWei ==
  ASSUME EvmTypeOK, NEW due \in Frame, Transact(due)
  PROVE  Uncommitted' = Uncommitted - Total(due)
<1>1. frames' = <<due>> \o frames /\ balance' = balance - Head(due).amount
  BY DEF Transact, Send
<1>2. TransfersOwed' = Owed(frames')
  BY DEF TransfersOwed, Owed
<1>3. frames \in Seq(Frame) /\ balance \in Nat
  BY DEF EvmTypeOK
<1>4. TransfersOwed' = Total(Tail(due)) + TransfersOwed
  BY <1>1, <1>2, <1>3, OwedPush, UncommittedInt
<1>5. /\ Head(due).amount \in Nat /\ Total(Tail(due)) \in Nat /\ TransfersOwed \in Nat
      /\ Total(due) = Head(due).amount + Total(Tail(due))
  BY FrameTotal, UncommittedInt
<1>6. QED
  BY <1>1, <1>3, <1>4, <1>5 DEF Uncommitted

(* A single conditional transfer. *)
LEMMA PayOneWei ==
  ASSUME EvmTypeOK, NEW payee \in Addresses, NEW value \in Nat, PayOne(payee, value)
  PROVE  Uncommitted' = Uncommitted - value
<1>1. CASE value = 0
  BY <1>1, UncommittedInt DEF PayOne, evmVars, Uncommitted, TransfersOwed
<1>2. CASE value # 0
  <2>. DEFINE t == [to |-> payee, amount |-> value]
  <2>1. t \in Transfer
    BY <1>2 DEF Transfer
  <2>2. <<t>> \in Frame /\ Head(<<t>>) = t /\ Tail(<<t>>) = <<>>
    BY <2>1 DEF Frame
  <2>3. Total(<<t>>) = value
    <3>1. Total(<<t>>) = Head(<<t>>).amount + Total(Tail(<<t>>))
      BY <2>2, FrameTotal
    <3>2. QED
      BY <2>2, <3>1, TotalNone
  <2>4. Transact(<<t>>)
    BY <1>2 DEF PayOne
  <2>5. QED
    BY <2>2, <2>3, <2>4, TransactWei
<1>3. QED
  BY <1>1, <1>2

(* A settlement loop: the entries it skips were zero. *)
LEMMA PayEachWei ==
  ASSUME EvmTypeOK, NEW a \in Allocation, PayEach(a)
  PROVE  Uncommitted' = Uncommitted - Total(a)
<1>1. NonZero(a) \in Seq(Transfer) /\ Total(NonZero(a)) = Total(a) /\ Total(a) \in Nat
  BY KeptOnlyNonZero, TotalType
<1>2. CASE NonZero(a) = <<>>
  BY <1>1, <1>2, TotalNone, UncommittedInt DEF PayEach, evmVars, Uncommitted, TransfersOwed
<1>3. CASE NonZero(a) # <<>>
  <2>1. NonZero(a) \in Frame
    BY <1>1, <1>3 DEF Frame
  <2>2. QED
    BY <1>1, <1>3, <2>1, TransactWei DEF PayEach
<1>4. QED
  BY <1>2, <1>3

(* A payee that returns, and a block, move nothing that was not counted. *)
LEMMA EvmNextWei ==
  ASSUME EvmTypeOK, EvmNext
  PROVE  Uncommitted' = Uncommitted
<1>1. TransfersOwed' = Owed(frames') /\ balance \in Nat /\ frames \in Seq(Frame)
  BY DEF TransfersOwed, Owed, EvmTypeOK
<1>2. ASSUME frames # <<>>
      PROVE  /\ Head(frames) \in Frame /\ Tail(frames) \in Seq(Frame)
             /\ TransfersOwed = Total(Tail(Head(frames))) + Owed(Tail(frames))
             /\ Owed(Tail(frames)) \in Nat
  <2>1. Head(frames) \in Frame /\ Tail(frames) \in Seq(Frame)
    BY <1>1, <1>2, HeadTailProperties
  <2>2. QED
    BY <1>1, <1>2, <2>1, OwedInnermost, OwedFrames, UncommittedInt
<1>3. CASE FinishCall
  <2>1. /\ frames # <<>> /\ Tail(Head(frames)) = <<>>
        /\ frames' = Tail(frames) /\ balance' = balance
    BY <1>3 DEF FinishCall
  <2>2. TransfersOwed' = Owed(Tail(frames)) /\ Total(Tail(Head(frames))) = 0
    BY <1>1, <1>2, <2>1, TotalNone
  <2>3. TransfersOwed' = TransfersOwed
    BY <1>2, <2>1, <2>2
  <2>4. QED
    BY <2>1, <2>3 DEF Uncommitted
<1>4. CASE NextTransfer
  <2>. DEFINE due == Tail(Head(frames))
  <2>1. due \in Frame /\ frames # <<>>
    BY <1>2, <1>4, FrameHead DEF NextTransfer, Frame
  <2>2. frames' = <<due>> \o Tail(frames) /\ balance' = balance - Head(due).amount
    BY <1>4 DEF NextTransfer, Send
  <2>. HIDE DEF due
  <2>3. TransfersOwed' = Total(Tail(due)) + Owed(Tail(frames))
    BY <1>1, <1>2, <2>1, <2>2, OwedPush
  <2>4. TransfersOwed = Total(due) + Owed(Tail(frames))
    BY <1>2, <2>1 DEF due
  <2>5. /\ Head(due).amount \in Nat /\ Total(Tail(due)) \in Nat
        /\ Total(due) = Head(due).amount + Total(Tail(due))
    BY <2>1, FrameTotal
  <2>6. Owed(Tail(frames)) \in Nat
    BY <1>2, <2>1
  <2>. DEFINE sent == Head(due).amount
              later == Total(Tail(due))
              others == Owed(Tail(frames))
  <2>7. /\ balance' = balance - sent /\ TransfersOwed' = later + others
        /\ TransfersOwed = (sent + later) + others
        /\ balance \in Nat /\ sent \in Nat /\ later \in Nat /\ others \in Nat
    BY <1>1, <2>2, <2>3, <2>4, <2>5, <2>6
  <2>. HIDE DEF sent, later, others
  <2>8. QED
    BY <2>7 DEF Uncommitted
<1>5. CASE MineBlock
  BY <1>5 DEF MineBlock, Uncommitted, TransfersOwed
<1>6. QED
  BY <1>3, <1>4, <1>5 DEF EvmNext

-----------------------------------------------------------------------------
(* What is owed, entry by entry. *)

(* The three debts are numbers. *)
LEMMA DebtsAreNumbers ==
  ASSUME TypeOK
  PROVE  EscrowOwed \in Nat /\ BondsOwed \in Nat /\ ChallengesOwed \in Nat
<1>1. /\ IsFiniteSet(CompetitionIds)
      /\ IsFiniteSet(CompetitionIds \X Addresses)
      /\ IsFiniteSet(CompetitionIds \X CandidateIds)
  BY ManagerAssumption, FS_Product
<1>2. [c \in CompetitionIds |-> competitions[c].escrowedWei] \in [CompetitionIds -> Nat]
  BY DEF TypeOK, Competition
<1>3. [b \in CompetitionIds \X Addresses |-> stakes[b[1]][b[2]]]
        \in [CompetitionIds \X Addresses -> Nat]
  BY DEF TypeOK
<1>4. [x \in CompetitionIds \X CandidateIds |-> AtStake(challenges[x[1]][x[2]])]
        \in [CompetitionIds \X CandidateIds -> Nat]
  BY DEF TypeOK, Challenge, AtStake
<1>5. EscrowOwed \in Nat
  BY <1>1, <1>2, TallyType DEF EscrowOwed
<1>6. BondsOwed \in Nat
  BY <1>1, <1>3, TallyType DEF BondsOwed
<1>7. ChallengesOwed \in Nat
  BY <1>1, <1>4, TallyType DEF ChallengesOwed
<1>8. QED
  BY <1>5, <1>6, <1>7

(* The record of one competition is written. *)
LEMMA OneEscrow ==
  ASSUME TypeOK, TypeOK', NEW c \in CompetitionIds,
         \A d \in CompetitionIds \ {c} : competitions'[d] = competitions[d]
  PROVE  EscrowOwed' = EscrowOwed + competitions'[c].escrowedWei - competitions[c].escrowedWei
<1>. DEFINE S == CompetitionIds
            f == [d \in S |-> competitions[d].escrowedWei]
            g == [d \in S |-> competitions'[d].escrowedWei]
<1>1. IsFiniteSet(S)
  BY ManagerAssumption
<1>2. f \in [S -> Nat] /\ g \in [S -> Nat]
  BY DEF TypeOK, Competition
<1>3. \A d \in S \ {c} : g[d] = f[d]
  OBVIOUS
<1>4. f[c] = competitions[c].escrowedWei /\ g[c] = competitions'[c].escrowedWei
  OBVIOUS
<1>5. EscrowOwed = Tally(f) /\ EscrowOwed' = Tally(g)
  BY DEF EscrowOwed
<1>. HIDE DEF f, g
<1>6. Tally(g) = Tally(f) + g[c] - f[c]
  BY <1>1, <1>2, <1>3, TallyChange
<1>7. QED
  BY <1>4, <1>5, <1>6

(* The bond of one researcher in one competition is written. *)
LEMMA OneBond ==
  ASSUME TypeOK, TypeOK', NEW c \in CompetitionIds, NEW a \in Addresses,
         NEW bond, stakes' = [stakes EXCEPT ![c][a] = bond]
  PROVE  BondsOwed' = BondsOwed + bond - stakes[c][a]
<1>. DEFINE S == CompetitionIds \X Addresses
            f == [b \in S |-> stakes[b[1]][b[2]]]
            g == [b \in S |-> stakes'[b[1]][b[2]]]
            x == <<c, a>>
<1>1. IsFiniteSet(S)
  BY ManagerAssumption, FS_Product
<1>2. f \in [S -> Nat] /\ g \in [S -> Nat] /\ x \in S
  BY DEF TypeOK
<1>3. \A b \in S \ {x} : g[b] = f[b]
  BY DEF TypeOK
<1>4. f[x] = stakes[c][a] /\ g[x] = bond
  BY DEF TypeOK
<1>5. BondsOwed = Tally(f) /\ BondsOwed' = Tally(g)
  BY DEF BondsOwed
<1>. HIDE DEF f, g, S, x
<1>6. Tally(g) = Tally(f) + g[x] - f[x]
  BY <1>1, <1>2, <1>3, TallyChange
<1>7. QED
  BY <1>4, <1>5, <1>6

(* One challenge is opened or closed. *)
LEMMA OneChallenge ==
  ASSUME TypeOK, TypeOK', NEW c \in CompetitionIds, NEW k \in CandidateIds,
         NEW after, challenges' = [challenges EXCEPT ![c][k] = after]
  PROVE  ChallengesOwed' = ChallengesOwed + AtStake(after) - AtStake(challenges[c][k])
<1>. DEFINE S == CompetitionIds \X CandidateIds
            f == [b \in S |-> AtStake(challenges[b[1]][b[2]])]
            g == [b \in S |-> AtStake(challenges'[b[1]][b[2]])]
            x == <<c, k>>
<1>1. IsFiniteSet(S)
  BY ManagerAssumption, FS_Product
<1>2. f \in [S -> Nat] /\ g \in [S -> Nat] /\ x \in S
  BY DEF TypeOK, Challenge, AtStake
<1>3. \A b \in S \ {x} : g[b] = f[b]
  BY DEF TypeOK
<1>4. f[x] = AtStake(challenges[c][k]) /\ g[x] = AtStake(after)
  BY DEF TypeOK
<1>5. ChallengesOwed = Tally(f) /\ ChallengesOwed' = Tally(g)
  BY DEF ChallengesOwed, AtStake, IsOpen
<1>. HIDE DEF f, g, S, x
<1>6. Tally(g) = Tally(f) + g[x] - f[x]
  BY <1>1, <1>2, <1>3, TallyChange
<1>7. QED
  BY <1>4, <1>5, <1>6

-----------------------------------------------------------------------------
(* Every operation keeps the books balanced. *)

Gap == Uncommitted - EscrowOwed - BondsOwed - ChallengesOwed - retained

(* The solvency equation says that nothing is left over. *)
LEMMA NoGap == TypeOK => (EveryWeiAccounted <=> Gap = 0)
<1>. SUFFICES ASSUME TypeOK PROVE EveryWeiAccounted <=> Gap = 0
  OBVIOUS
<1>1. balance \in Nat /\ retained \in Nat /\ TransfersOwed \in Nat
  BY UncommittedInt DEF TypeOK, EvmTypeOK
<1>2. QED
  BY <1>1, DebtsAreNumbers DEF EveryWeiAccounted, Gap, Uncommitted

(* It is enough that an operation leaves the gap as it was. *)
LEMMA GapKept ==
  ASSUME TypeOK, TypeOK', EveryWeiAccounted, Gap' = Gap
  PROVE  EveryWeiAccounted'
<1>1. TypeOK' => (EveryWeiAccounted <=> Gap = 0)'
  BY NoGap, PTL
<1>2. QED
  BY <1>1, NoGap

(* A pool is locked for exactly the value that came in. *)
LEMMA CreateWei ==
  ASSUME TypeOK, TypeOK', PoolInv,
         NEW c \in CompetitionIds, NEW caller \in Callers, Create(c, caller)
  PROVE  Gap' = Gap
<1>1. PICK value \in MsgValues, deadline \in Deadlines, floor \in StakeFloors \cup {0} :
        LockPool(c, caller, value, deadline, floor)
  BY DEF Create, CreateCompetition, CreateContinuousCompetition, CreateContinuousStreaming
<1>2. value \in Nat /\ caller \in Addresses
  BY ManagerAssumption DEF Callers
<1>3. competitions[c].escrowedWei = 0
  BY <1>1 DEF LockPool, Exists, PoolInv, PoolOK, NoCompetition
<1>4. /\ competitions'[c].escrowedWei = value
      /\ \A d \in CompetitionIds \ {c} : competitions'[d] = competitions[d]
  BY <1>1 DEF LockPool, TypeOK
<1>5. EscrowOwed' = EscrowOwed + value
  BY <1>2, <1>3, <1>4, OneEscrow, DebtsAreNumbers
<1>6. UNCHANGED <<stakes, challenges, retained>>
  BY DEF Create, CreateCompetition, CreateContinuousCompetition, CreateContinuousStreaming, bondVars
<1>7. BondsOwed' = BondsOwed /\ ChallengesOwed' = ChallengesOwed
  BY <1>6 DEF BondsOwed, ChallengesOwed
<1>8. Uncommitted' = Uncommitted + value
  BY <1>1, <1>2, TakeInWei DEF LockPool, TypeOK
<1>9. QED
  BY <1>2, <1>5, <1>6, <1>7, <1>8, DebtsAreNumbers, UncommittedInt DEF Gap, TypeOK

(* A bond grows by what was posted, and leaves as it is withdrawn. *)
LEMMA BondWei ==
  ASSUME TypeOK, TypeOK', NEW c \in CompetitionIds, NEW caller \in Callers,
         \/ \E value \in MsgValues : PostStake(c, caller, value)
         \/ WithdrawStake(c, caller)
  PROVE  Gap' = Gap
<1>1. caller \in Addresses /\ stakes[c][caller] \in Nat /\ EvmTypeOK /\ retained \in Nat
  BY DEF Callers, TypeOK
<1>2. UNCHANGED <<competitions, challenges, retained>>
  BY DEF PostStake, WithdrawStake, poolVars
<1>3. EscrowOwed' = EscrowOwed /\ ChallengesOwed' = ChallengesOwed
  BY <1>2 DEF EscrowOwed, ChallengesOwed
<1>4. ASSUME NEW value \in MsgValues, PostStake(c, caller, value)
      PROVE  Gap' = Gap
  <2>1. value \in Nat
    BY ManagerAssumption
  <2>2. stakes' = [stakes EXCEPT ![c][caller] = stakes[c][caller] + value]
    BY <1>4 DEF PostStake
  <2>3. BondsOwed' = BondsOwed + (stakes[c][caller] + value) - stakes[c][caller]
    BY <1>1, <2>2, OneBond
  <2>4. Uncommitted' = Uncommitted + value
    BY <1>1, <1>4, <2>1, TakeInWei DEF PostStake
  <2>5. QED
    BY <1>1, <1>2, <1>3, <2>1, <2>3, <2>4, DebtsAreNumbers, UncommittedInt DEF Gap
<1>5. CASE WithdrawStake(c, caller)
  <2>1. BondsOwed' = BondsOwed + 0 - stakes[c][caller]
    BY <1>1, <1>5, OneBond DEF WithdrawStake
  <2>2. Uncommitted' = Uncommitted - stakes[c][caller]
    BY <1>1, <1>5, PayOneWei DEF WithdrawStake
  <2>3. QED
    BY <1>1, <1>2, <1>3, <2>1, <2>2, DebtsAreNumbers, UncommittedInt DEF Gap
<1>6. QED
  BY <1>4, <1>5

(* A challenge holds its stake: the entry it overwrites held none. *)
LEMMA ChallengeWei ==
  ASSUME TypeOK, TypeOK', NEW c \in CompetitionIds, NEW caller \in Callers,
         NEW candidate \in CandidateIds, NEW researcher \in Addresses,
         NEW value \in MsgValues, OpenChallenge(c, candidate, researcher, caller, value)
  PROVE  Gap' = Gap
<1>. DEFINE after == [challenger |-> caller, researcher |-> researcher, stake |-> value,
                      exists |-> TRUE, resolved |-> FALSE]
<1>1. caller \in Addresses /\ value \in Nat /\ EvmTypeOK /\ retained \in Nat
  BY ManagerAssumption DEF Callers, TypeOK
<1>2. UNCHANGED <<competitions, stakes, retained>>
  BY DEF OpenChallenge, poolVars
<1>3. EscrowOwed' = EscrowOwed /\ BondsOwed' = BondsOwed
  BY <1>2 DEF EscrowOwed, BondsOwed
<1>4. challenges' = [challenges EXCEPT ![c][candidate] = after]
  BY DEF OpenChallenge
<1>5. AtStake(after) = value /\ AtStake(challenges[c][candidate]) = 0
  BY DEF AtStake, IsOpen, OpenChallenge, CanChallenge
<1>. HIDE DEF after
<1>6. ChallengesOwed' = ChallengesOwed + AtStake(after) - AtStake(challenges[c][candidate])
  BY <1>4, OneChallenge
<1>7. Uncommitted' = Uncommitted + value
  BY <1>1, TakeInWei DEF OpenChallenge
<1>8. QED
  BY <1>1, <1>2, <1>3, <1>5, <1>6, <1>7, DebtsAreNumbers, UncommittedInt DEF Gap

(* A ruling passes the challenge's stake and the slash on, or keeps them. *)
LEMMA RulingWei ==
  ASSUME TypeOK, TypeOK', NEW c \in CompetitionIds, NEW caller \in Callers,
         NEW candidate \in CandidateIds, ResolveDispute(c, candidate, caller)
  PROVE  Gap' = Gap
<1>. DEFINE challenge == challenges[c][candidate]
            after == [challenge EXCEPT !.resolved = TRUE]
<1>1. /\ challenge \in Challenge /\ challenge.stake \in Nat
      /\ challenge.researcher \in Addresses /\ challenge.challenger \in Addresses
      /\ EvmTypeOK /\ retained \in Nat
  BY DEF TypeOK, Challenge
<1>2. stakes[c][challenge.researcher] \in Nat
  BY <1>1 DEF TypeOK
<1>3. CloseChallenge(c, candidate, caller)
  BY DEF ResolveDispute, Uphold, Overturn, DeclareInconclusive
<1>4. UNCHANGED competitions
  BY <1>3 DEF CloseChallenge, poolVars
<1>5. EscrowOwed' = EscrowOwed
  BY <1>4 DEF EscrowOwed
<1>6. challenges' = [challenges EXCEPT ![c][candidate] = after]
  BY <1>3 DEF CloseChallenge, TypeOK
<1>7. AtStake(after) = 0 /\ AtStake(challenge) = challenge.stake
  BY <1>1, <1>3 DEF AtStake, IsOpen, CloseChallenge, Challenge
<1>8. ChallengesOwed' = ChallengesOwed + AtStake(after) - AtStake(challenge)
  BY <1>6, OneChallenge
<1>. HIDE DEF challenge, after
<1>9. ChallengesOwed' = ChallengesOwed - challenge.stake
  BY <1>1, <1>7, <1>8, DebtsAreNumbers
<1>10. CASE Uphold(c, candidate, caller)
  <2>1. UNCHANGED <<stakes, evmVars>> /\ retained' = retained + challenge.stake
    BY <1>10 DEF Uphold, challenge
  <2>2. BondsOwed' = BondsOwed /\ Uncommitted' = Uncommitted
    BY <2>1 DEF BondsOwed, Uncommitted, TransfersOwed, evmVars
  <2>3. QED
    BY <1>1, <1>5, <1>9, <2>1, <2>2, DebtsAreNumbers, UncommittedInt DEF Gap
<1>11. ASSUME NEW slash \in Slashes, NEW reward \in Slashes,
              Overturn(c, candidate, caller, slash, reward)
       PROVE  Gap' = Gap
  <2>1. slash \in Nat /\ reward \in Nat
    BY ManagerAssumption
  <2>. DEFINE bond == stakes[c][challenge.researcher] - slash
  <2>2. /\ stakes' = [stakes EXCEPT ![c][challenge.researcher] = bond]
        /\ retained' = retained + (slash - reward)
        /\ PayOne(challenge.challenger, challenge.stake + reward)
    BY <1>11 DEF Overturn, challenge
  <2>3. BondsOwed' = BondsOwed + bond - stakes[c][challenge.researcher]
    BY <1>1, <2>2, OneBond
  <2>4. challenge.stake + reward \in Nat
    BY <1>1, <2>1
  <2>5. Uncommitted' = Uncommitted - (challenge.stake + reward)
    BY <1>1, <2>2, <2>4, PayOneWei
  <2>6. QED
    BY <1>1, <1>2, <1>5, <1>9, <2>1, <2>2, <2>3, <2>5, DebtsAreNumbers, UncommittedInt DEF Gap
<1>12. CASE DeclareInconclusive(c, candidate, caller)
  <2>1. UNCHANGED <<stakes, retained>> /\ PayOne(challenge.challenger, challenge.stake)
    BY <1>12 DEF DeclareInconclusive, challenge
  <2>2. BondsOwed' = BondsOwed
    BY <2>1 DEF BondsOwed
  <2>3. Uncommitted' = Uncommitted - challenge.stake
    BY <1>1, <2>1, PayOneWei
  <2>4. QED
    BY <1>1, <1>5, <1>9, <2>1, <2>2, <2>3, DebtsAreNumbers, UncommittedInt DEF Gap
<1>13. QED
  BY <1>10, <1>11, <1>12 DEF ResolveDispute

(* Every payout leaves its pool's escrow as the call begins. *)
LEMMA PayoutWei ==
  ASSUME TypeOK, TypeOK', NEW c \in CompetitionIds, NEW wei \in Nat,
         \/ competitions' = [competitions EXCEPT ![c] = DrawDown(@, wei)]
         \/ competitions' = [competitions EXCEPT
                               ![c] = [DrawDown(@, wei) EXCEPT !.settled = TRUE]],
         UNCHANGED <<stakes, challenges, retained>>,
         Uncommitted' = Uncommitted - wei
  PROVE  Gap' = Gap
<1>1. /\ competitions[c] \in Competition /\ competitions[c].escrowedWei \in Nat
      /\ EvmTypeOK /\ retained \in Nat
  BY DEF TypeOK, Competition
<1>2. /\ competitions'[c].escrowedWei = competitions[c].escrowedWei - wei
      /\ \A d \in CompetitionIds \ {c} : competitions'[d] = competitions[d]
  <2>1. CASE competitions' = [competitions EXCEPT ![c] = DrawDown(@, wei)]
    BY <1>1, <2>1 DEF TypeOK, Competition, DrawDown
  <2>2. CASE competitions' = [competitions EXCEPT
                               ![c] = [DrawDown(@, wei) EXCEPT !.settled = TRUE]]
    BY <1>1, <2>2 DEF TypeOK, Competition, DrawDown
  <2>3. QED
    BY <2>1, <2>2
<1>3. EscrowOwed' = EscrowOwed + competitions'[c].escrowedWei - competitions[c].escrowedWei
  BY <1>2, OneEscrow
<1>4. EscrowOwed' = EscrowOwed - wei
  BY <1>1, <1>2, <1>3, DebtsAreNumbers
<1>5. BondsOwed' = BondsOwed /\ ChallengesOwed' = ChallengesOwed
  BY DEF BondsOwed, ChallengesOwed
<1>6. QED
  BY <1>1, <1>4, <1>5, DebtsAreNumbers, UncommittedInt DEF Gap

(* Nothing that is owed changes. *)
LEMMA QuietWei ==
  ASSUME UNCHANGED <<competitions, stakes, challenges, retained>>, Uncommitted' = Uncommitted
  PROVE  Gap' = Gap
BY DEF Gap, EscrowOwed, BondsOwed, ChallengesOwed

(* Records and epochs pay what they draw. *)
LEMMA ArenaWei ==
  ASSUME TypeOK, TypeOK', NEW c \in CompetitionIds, NEW caller \in Callers,
         \/ \E researcher \in Payees, newBest \in Scores :
              RecordBeat(c, caller, researcher, newBest)
         \/ TickEpoch(c, caller)
  PROVE  Gap' = Gap
<1>1. continuousStates[c] \in ContinuousState /\ competitions[c].escrowedWei \in Nat /\ EvmTypeOK
  BY DEF TypeOK, Competition
<1>2. UNCHANGED <<stakes, challenges, retained>>
  BY DEF RecordBeat, SeizeTop, PayBounty, TickEpoch, AdvanceEpoch, CreditEpoch, bondVars
<1>3. ASSUME UNCHANGED <<competitions, evmVars>>
      PROVE  Gap' = Gap
  BY <1>2, <1>3, QuietWei DEF evmVars, Uncommitted, TransfersOwed
<1>4. ASSUME NEW researcher \in Payees, NEW newBest \in Scores,
             PayBounty(c, caller, researcher, newBest)
      PROVE  Gap' = Gap
  <2>. DEFINE wei == continuousStates[c].weiPerMicro * Marginal(c, newBest)
  <2>1. newBest \in Int /\ researcher \in Addresses
    BY ManagerAssumption
  <2>2. Marginal(c, newBest) \in Nat
    BY <1>1, <1>4, <2>1 DEF PayBounty, BeatsRecord, Marginal, ContinuousState
  <2>3. wei \in Nat
    BY <1>1, <2>2 DEF ContinuousState
  <2>4. /\ competitions' = [competitions EXCEPT ![c] = DrawDown(@, wei)]
        /\ PayOne(researcher, wei)
    BY <1>4 DEF PayBounty
  <2>. HIDE DEF wei
  <2>5. Uncommitted' = Uncommitted - wei
    BY <1>1, <2>1, <2>3, <2>4, PayOneWei
  <2>6. QED
    BY <1>2, <2>3, <2>4, <2>5, PayoutWei
<1>5. CASE CreditEpoch(c, caller)
  <2>. DEFINE wei == Credit(c)
  <2>1. wei \in Nat /\ continuousStates[c].topHolder \in Addresses
    BY <1>1 DEF Credit, Lesser, ContinuousState
  <2>2. /\ competitions' = [competitions EXCEPT ![c] = DrawDown(@, wei)]
        /\ PayOne(continuousStates[c].topHolder, wei)
    BY <1>5 DEF CreditEpoch
  <2>. HIDE DEF wei
  <2>3. Uncommitted' = Uncommitted - wei
    BY <1>1, <2>1, <2>2, PayOneWei
  <2>4. QED
    BY <1>2, <2>1, <2>2, <2>3, PayoutWei
<1>6. QED
  BY <1>3, <1>4, <1>5 DEF RecordBeat, SeizeTop, TickEpoch, AdvanceEpoch

(* A settlement draws the sum of its amounts and sends the ones that are not zero. *)
LEMMA SettleWei ==
  ASSUME TypeOK, TypeOK', NEW c \in CompetitionIds, NEW caller \in Callers,
         NEW allocation \in Allocations, SettlePool(c, caller, allocation)
  PROVE  Gap' = Gap
<1>1. allocation \in Allocation /\ Total(allocation) \in Nat
  BY ManagerAssumption, TotalType
<1>2. Uncommitted' = Uncommitted - Total(allocation)
  BY <1>1, PayEachWei DEF SettlePool, TypeOK
<1>3. QED
  BY <1>1, <1>2, PayoutWei DEF SettlePool, bondVars

(* No step of the settlement spine or of the chain opens a gap. *)
LEMMA GapStep == TypeOK /\ TypeOK' /\ PoolInv /\ [Next]_vars => Gap' = Gap
<1>. SUFFICES ASSUME TypeOK, TypeOK', PoolInv, [Next]_vars PROVE Gap' = Gap
  OBVIOUS
<1>1. ASSUME NEW c \in CompetitionIds, NEW caller \in Callers, Referee(c, caller)
      PROVE  Gap' = Gap
  BY <1>1, RulingWei, ArenaWei, SettleWei DEF Referee, Distribute, DistributeShares
<1>2. ASSUME NEW c \in CompetitionIds, NEW caller \in Callers, Participate(c, caller)
      PROVE  Gap' = Gap
  BY <1>2, BondWei, ChallengeWei DEF Participate
<1>3. ASSUME NEW c \in CompetitionIds, NEW caller \in Submitters, Submit(c, caller)
      PROVE  Gap' = Gap
  <2>1. UNCHANGED <<bondVars, poolVars, evmVars>>
    BY <1>3 DEF Submit, CommitCandidate, OnJobCall, RevealCandidate, OnJobResult,
       RecordCommitment, RecordReveal
  <2>2. QED
    BY <2>1, QuietWei DEF bondVars, poolVars, evmVars, Uncommitted, TransfersOwed
<1>4. CASE EvmNext /\ UNCHANGED managerVars
  BY <1>4, EvmNextWei, QuietWei DEF TypeOK, managerVars, bondVars, poolVars
<1>5. CASE UNCHANGED vars
  BY <1>5, QuietWei DEF vars, managerVars, bondVars, poolVars, evmVars, Uncommitted, TransfersOwed
<1>6. QED
  BY <1>1, <1>2, <1>3, <1>4, <1>5, CreateWei DEF Next

(* Nothing is owed at the start, and the contract holds nothing. *)
LEMMA InitSolvent == Init => EveryWeiAccounted
<1>. SUFFICES ASSUME Init PROVE EveryWeiAccounted
  OBVIOUS
<1>1. EscrowOwed = 0
  <2>1. \A c \in CompetitionIds : competitions[c].escrowedWei = 0
    BY DEF Init, ManagerInit, NoCompetition
  <2>2. QED
    BY <2>1, TallyZero DEF EscrowOwed
<1>2. BondsOwed = 0
  <2>1. \A b \in CompetitionIds \X Addresses : stakes[b[1]][b[2]] = 0
    BY DEF Init, ManagerInit
  <2>2. QED
    BY <2>1, TallyZero DEF BondsOwed
<1>3. ChallengesOwed = 0
  <2>1. \A x \in CompetitionIds \X CandidateIds : AtStake(challenges[x[1]][x[2]]) = 0
    BY DEF Init, ManagerInit, NoChallenge, AtStake, IsOpen
  <2>2. QED
    BY <2>1, TallyZero DEF ChallengesOwed
<1>4. TransfersOwed = 0
  <2>. DEFINE debts == [i \in DOMAIN frames |-> Total(Tail(frames[i]))]
  <2>1. debts \in [{} -> Nat]
    BY DEF Init, EvmInit
  <2>. HIDE DEF debts
  <2>2. Tally(debts) = 0
    BY <2>1, TallyZero
  <2>3. QED
    BY <2>2 DEF TransfersOwed, debts
<1>5. balance = 0 /\ retained = 0
  BY DEF Init, EvmInit, ManagerInit
<1>6. QED
  BY <1>1, <1>2, <1>3, <1>4, <1>5 DEF EveryWeiAccounted

SolventInv == TypeOK /\ PoolInv /\ EveryWeiAccounted

(* The inductive invariant of the settlement spine. *)
LEMMA SolventStep == SolventInv /\ [Next]_vars => SolventInv'
BY TypeStep, PoolStep, GapStep, GapKept DEF SolventInv

(* Whatever sequence of calls, re-entered from whatever payee, the balance is
   what is owed to pools, bonds and challenges, what unfinished calls have yet
   to send and the slashed wei that is kept. *)
THEOREM SolventToTheWei == Spec => []EveryWeiAccounted
<1>1. Init => SolventInv
  BY InitType, InitPool, InitSolvent DEF SolventInv
<1>2. SolventInv => EveryWeiAccounted
  BY DEF SolventInv
<1>3. QED
  BY <1>1, <1>2, SolventStep, PTL DEF Spec

-----------------------------------------------------------------------------
(* The whole contract: the marketplace shares the balance and the call stack. *)

ContractInv == SolventInv /\ ListingsTypeOK /\ ExclusiveSoldOnce

(* A listing is made. *)
LEMMA ListingMade ==
  ASSUME ContractInv, NEW c \in CompetitionIds, NEW seller \in Callers,
         NEW price \in Prices, NEW exclusive \in BOOLEAN,
         ListArtifact(c, seller, price, exclusive)
  PROVE  ListingsTypeOK' /\ ExclusiveSoldOnce'
<1>. DEFINE new == [seller |-> seller, price |-> price, provenance |-> c,
                    exclusive |-> exclusive, sold |-> FALSE]
            n == Len(listings)
<1>1. new \in Listing
  BY ListingsAssumption DEF ListArtifact, CanList, Listing, Callers
<1>2. /\ listings \in Seq(Listing) /\ sales \in Seq(Nat) /\ Len(sales) = n /\ n \in Nat
      /\ DOMAIN listings = 1..n
  BY LenProperties DEF ContractInv, ListingsTypeOK
<1>3. listings' = Append(listings, new) /\ sales' = Append(sales, 0)
  BY DEF ListArtifact
<1>4. new.exclusive => 0 = IF new.sold THEN 1 ELSE 0
  OBVIOUS
<1>. HIDE DEF new, n
<1>5. /\ listings' \in Seq(Listing) /\ sales' \in Seq(Nat)
      /\ Len(listings') = n + 1 /\ Len(sales') = n + 1
      /\ \A id \in 1..n : listings'[id] = listings[id] /\ sales'[id] = sales[id]
      /\ listings'[n + 1] = new /\ sales'[n + 1] = 0
  BY <1>1, <1>2, <1>3 DEF n
<1>6. DOMAIN listings' = 1..(n + 1)
  BY <1>5, LenProperties
<1>7. ListingsTypeOK'
  BY <1>5 DEF ListingsTypeOK
<1>8. ASSUME NEW id \in 1..(n + 1), listings'[id].exclusive
      PROVE  sales'[id] = IF listings'[id].sold THEN 1 ELSE 0
  <2>1. CASE id = n + 1
    BY <1>4, <1>5, <1>8, <2>1
  <2>2. CASE id \in 1..n
    BY <1>2, <1>5, <1>8, <2>2 DEF ContractInv, ExclusiveSoldOnce
  <2>3. QED
    BY <1>2, <2>1, <2>2
<1>9. QED
  BY <1>6, <1>7, <1>8 DEF ExclusiveSoldOnce

(* A sale marks an exclusive listing and counts once. *)
LEMMA ListingSold ==
  ASSUME ContractInv, NEW id \in DOMAIN listings, NEW buyer \in Callers,
         NEW value \in MsgValues, BuyArtifact(id, buyer, value)
  PROVE  ListingsTypeOK' /\ ExclusiveSoldOnce'
<1>. DEFINE listing == listings[id]
            after == MarkSold(listing)
            count == IF listing.exclusive THEN sales[id] + 1 ELSE sales[id]
            n == Len(listings)
<1>1. /\ listings \in Seq(Listing) /\ sales \in Seq(Nat) /\ Len(sales) = n /\ n \in Nat
      /\ DOMAIN listings = 1..n /\ DOMAIN sales = 1..n /\ id \in 1..n
      /\ listing \in Listing /\ sales[id] \in Nat
  BY LenProperties, ElementOfSeq DEF ContractInv, ListingsTypeOK
<1>2. /\ after \in Listing /\ after.exclusive = listing.exclusive
      /\ listing.exclusive => after.sold
  BY <1>1 DEF MarkSold, Listing
<1>3. listing.exclusive => sales[id] = 0
  BY <1>1 DEF BuyArtifact, CanBuy, ContractInv, ExclusiveSoldOnce
<1>4. /\ listings' = [listings EXCEPT ![id] = after]
      /\ sales' = [sales EXCEPT ![id] = count]
  BY <1>1 DEF BuyArtifact
<1>5. count \in Nat /\ (after.exclusive => count = IF after.sold THEN 1 ELSE 0)
  BY <1>1, <1>2, <1>3
<1>. HIDE DEF after, count, n
<1>6. /\ listings' \in Seq(Listing) /\ Len(listings') = n
      /\ \A j \in 1..n : listings'[j] = IF j = id THEN after ELSE listings[j]
  BY <1>1, <1>2, <1>4, ExceptSeq DEF n
<1>7. /\ sales' \in Seq(Nat) /\ Len(sales') = n
      /\ \A j \in 1..n : sales'[j] = IF j = id THEN count ELSE sales[j]
  BY <1>1, <1>4, <1>5, ExceptSeq
<1>8. ListingsTypeOK'
  BY <1>6, <1>7 DEF ListingsTypeOK
<1>9. DOMAIN listings' = 1..n
  BY <1>6, LenProperties
<1>10. ASSUME NEW j \in 1..n, listings'[j].exclusive
       PROVE  sales'[j] = IF listings'[j].sold THEN 1 ELSE 0
  <2>1. CASE j = id
    BY <1>5, <1>6, <1>7, <1>10, <2>1
  <2>2. CASE j # id
    BY <1>1, <1>6, <1>7, <1>10, <2>2 DEF ContractInv, ExclusiveSoldOnce
  <2>3. QED
    BY <2>1, <2>2
<1>11. QED
  BY <1>8, <1>9, <1>10 DEF ExclusiveSoldOnce

(* A price that comes in and goes out again moves nothing that is owed. *)
LEMMA SaleWei ==
  ASSUME EvmTypeOK, NEW payer \in Addresses, NEW payee \in Addresses, payer # payee,
         NEW price \in Nat \ {0}, PassOn(payer, price, payee, price)
  PROVE  EvmTypeOK' /\ Uncommitted' = Uncommitted
<1>. DEFINE due == <<[to |-> payee, amount |-> price]>>
<1>1. wallet[payer] - price \in Nat /\ wallet[payee] + price \in Nat
  BY DEF EvmTypeOK, PassOn
<1>2. wallet' \in [Addresses -> Nat] /\ balance' = balance /\ balance \in Nat
  BY <1>1 DEF EvmTypeOK, PassOn
<1>3. [to |-> payee, amount |-> price] \in Transfer
  BY DEF Transfer
<1>4. due \in Frame /\ Tail(due) = <<>>
  BY <1>3 DEF Frame
<1>5. frames' = <<due>> \o frames /\ now' = now /\ frames \in Seq(Frame) /\ now \in Nat
  BY DEF PassOn, EvmTypeOK
<1>. HIDE DEF due
<1>6. frames' \in Seq(Frame)
  BY <1>4, <1>5, PushFrame
<1>7. TransfersOwed' = Owed(frames')
  BY DEF TransfersOwed, Owed
<1>8. TransfersOwed' = TransfersOwed
  <2>1. TransfersOwed' = Total(Tail(due)) + Owed(frames)
    BY <1>4, <1>5, <1>7, OwedPush
  <2>2. Total(Tail(due)) = 0
    BY <1>4, TotalNone
  <2>3. TransfersOwed = Owed(frames) /\ TransfersOwed \in Nat
    BY UncommittedInt
  <2>4. QED
    BY <2>1, <2>2, <2>3
<1>9. QED
  BY <1>2, <1>5, <1>6, <1>8 DEF EvmTypeOK, Uncommitted

(* A sale keeps the spine solvent and touches none of its records. *)
LEMMA SaleSolvent ==
  ASSUME ContractInv, NEW id \in DOMAIN listings, NEW buyer \in Callers,
         NEW value \in MsgValues, BuyArtifact(id, buyer, value)
  PROVE  SolventInv'
<1>1. TypeOK /\ PoolInv /\ EveryWeiAccounted /\ listings[id] \in Listing
  BY LenProperties, ElementOfSeq DEF ContractInv, SolventInv, ListingsTypeOK
<1>2. /\ buyer \in Addresses /\ listings[id].seller \in Addresses /\ buyer # listings[id].seller
      /\ listings[id].price \in Nat \ {0} /\ value = listings[id].price
  BY <1>1 DEF Callers, Listing, BuyArtifact, CanBuy
<1>3. PassOn(buyer, listings[id].price, listings[id].seller, listings[id].price)
  BY <1>2 DEF BuyArtifact
<1>4. EvmTypeOK' /\ Uncommitted' = Uncommitted
  BY <1>1, <1>2, <1>3, SaleWei DEF TypeOK
<1>5. UNCHANGED managerVars
  BY DEF BuyArtifact
<1>6. TypeOK'
  BY <1>1, <1>4, <1>5 DEF TypeOK, managerVars, recordVars, bondVars, poolVars
<1>7. PoolInv'
  BY <1>1, <1>5 DEF PoolInv, managerVars, poolVars
<1>8. Gap' = Gap
  BY <1>4, <1>5, QuietWei DEF managerVars, bondVars, poolVars
<1>9. QED
  BY <1>1, <1>6, <1>7, <1>8, GapKept DEF SolventInv

(* No step of the whole contract breaks its invariant. *)
LEMMA ContractStep == ContractInv /\ [ContractNext]_contractVars => ContractInv'
<1>. SUFFICES ASSUME ContractInv, [ContractNext]_contractVars PROVE ContractInv'
  OBVIOUS
<1>1. ASSUME [Next]_vars, UNCHANGED listingVars
      PROVE  ContractInv'
  <2>1. SolventInv'
    BY <1>1, SolventStep DEF ContractInv
  <2>2. QED
    BY <1>1, <2>1 DEF ContractInv, ListingsTypeOK, ExclusiveSoldOnce, listingVars
<1>2. ASSUME NEW c \in CompetitionIds, NEW seller \in Callers, NEW price \in Prices,
             NEW exclusive \in BOOLEAN, ListArtifact(c, seller, price, exclusive)
      PROVE  ContractInv'
  <2>1. SolventInv'
    BY <1>2, SolventStep DEF ContractInv, ListArtifact
  <2>2. QED
    BY <1>2, <2>1, ListingMade DEF ContractInv
<1>3. ASSUME NEW id \in DOMAIN listings, NEW buyer \in Callers, NEW value \in MsgValues,
             BuyArtifact(id, buyer, value)
      PROVE  ContractInv'
  BY <1>3, ListingSold, SaleSolvent DEF ContractInv
<1>4. QED
  BY <1>1, <1>2, <1>3 DEF ContractNext, Trade, contractVars

(* The whole contract's invariant holds in every reachable state. *)
LEMMA ContractInvHolds == ContractSpec => []ContractInv
<1>1. ContractInit => ContractInv
  BY InitType, InitPool, InitSolvent
     DEF ContractInit, ContractInv, SolventInv, ListingsTypeOK, ExclusiveSoldOnce
<1>2. QED
  BY <1>1, ContractStep, PTL DEF ContractSpec

(* Solvency survives the marketplace: a sale passes its price on within the
   call that brought it, so no sale is ever paid from a pool or a bond. *)
THEOREM ContractSolvent == ContractSpec => []EveryWeiAccounted
<1>1. ContractInv => EveryWeiAccounted
  BY DEF ContractInv, SolventInv
<1>2. QED
  BY <1>1, ContractInvHolds, PTL

(* An exclusive licence is sold at most once, and is marked sold when it was. *)
THEOREM ExclusiveLicences == ContractSpec => []ExclusiveSoldOnce
<1>1. ContractInv => ExclusiveSoldOnce
  BY DEF ContractInv
<1>2. QED
  BY <1>1, ContractInvHolds, PTL

(* No sale reopens or touches a settled competition either. *)
THEOREM ContractSettledForEver == ContractSpec => SettledIsFinal
<1>. DEFINE Kept == \A c \in CompetitionIds : competitions[c].settled =>
                      /\ competitions'[c] = competitions[c]
                      /\ continuousStates'[c] = continuousStates[c]
                      /\ paid'[c] = paid[c]
<1>1. ContractInv /\ [ContractNext]_contractVars => [Kept]_vars
  <2>. SUFFICES ASSUME ContractInv, [ContractNext]_contractVars PROVE [Kept]_vars
    OBVIOUS
  <2>1. TypeOK /\ PoolInv
    BY DEF ContractInv, SolventInv
  <2>2. CASE [Next]_vars
    BY <2>1, <2>2, SettledStays
  <2>3. CASE UNCHANGED managerVars
    BY <2>3 DEF managerVars, poolVars
  <2>4. QED
    BY <2>2, <2>3 DEF ContractNext, Trade, ListArtifact, BuyArtifact, contractVars
<1>2. QED
  BY <1>1, ContractInvHolds, PTL DEF ContractSpec, SettledIsFinal

=============================================================================
