--------------------------- MODULE ComputeProofs ---------------------------
(***************************************************************************)
(* Where researchers' code runs, proved for any researchers, calls and     *)
(* runs: the private runner hands out no data without an enclave, is a     *)
(* public runner and pays by rank; a sandbox returns its own candidate and *)
(* is cleaned up; and a training job is the same job when it is asked for  *)
(* again.                                                                  *)
(***************************************************************************)
EXTENDS SandboxHosting, TrainingClusters, PrivateRunner, TallyProofs

(* 1. The private runner. No competition of a tier that needs an enclave gets
   past the set-up, so that no context has the proposer's data. *)
DatalessContext ==
  [researcher : Researchers, rawData : {FALSE}, egress : EgressPolicy \cup {NoPolicy}]

Views == {View(r) : r \in Researchers}

PrivateInv ==
  /\ setup \in Setup
  /\ queue \in Seq(Researchers)
  /\ contexts \in Seq(DatalessContext)
  /\ RequiresAttestation(setup.tier) => stage \in {"configured", "failed"}
  /\ feedback \in Seq(Views)
  /\ setup.tier = Public => feedback = <<>>

(* The local referee passes no check that asks for an enclave. *)
LEMMA NoEnclaveStarts ==
  ASSUME setup \in Setup, PrivateStart
  PROVE  ~RequiresAttestation(setup.tier)
BY DEF PrivateStart, AttestationDemanded, AttestationHolds, StructuralOk, LocalReport

(* A context without data. *)
LEMMA NoDataHandedOut ==
  ASSUME setup \in Setup, ~RequiresAttestation(setup.tier), NEW r \in Researchers
  PROVE  Context(r) \in DatalessContext
<1>1. setup.tier \in PrivacyTier \cup {Public}
  BY DEF Setup
<1>2. setup.egress \in EgressPolicy \cup {NoPolicy}
  BY DEF Setup
<1>3. ~(setup.tier # Public /\ "raw_data_access" \in Permitted)
  BY <1>1 DEF PrivacyTier, RequiresAttestation, Permitted, Capabilities
<1>4. Context(r).rawData = FALSE
  BY <1>3 DEF Context
<1>5. QED
  BY <1>2, <1>3 DEF Context, DatalessContext

LEMMA PrivateStarts == PrivateInit => PrivateInv
<1>. SUFFICES ASSUME PrivateInit PROVE PrivateInv
  OBVIOUS
<1>1. setup \in Setup /\ stage = "configured" /\ contexts = <<>> /\ feedback = <<>>
  BY SetupAssumption DEF PrivateInit, Init
<1>2. queue \in Seq(Researchers)
  <2>1. queue \in [1..Cardinality(Researchers) -> Researchers]
    BY DEF PrivateInit, Init, SetToSeqs
  <2>2. Cardinality(Researchers) \in Nat
    BY RunnerAssumption, FS_CardinalityType
  <2>3. QED
    BY <2>1, <2>2
<1>3. QED
  BY <1>1, <1>2 DEF PrivateInv

(* Each step hands out a context of no data, and answers with a view. *)
LEMMA PrivateStep == PrivateInv /\ [PrivateNext]_privateVars => PrivateInv'
<1>. SUFFICES ASSUME PrivateInv, [PrivateNext]_privateVars
              PROVE  PrivateInv'
  OBVIOUS
<1>. USE DEF PrivateInv
<1>1. /\ setup' = setup
      /\ measured' = measured
  BY DEF PrivateNext, privateVars, runnerVars, config, PublicRun, Next, Start, Evaluate, Fail,
     Settle, RejectReward, PrivateStart, PrivateEvaluate, PrivateFail, PrivateSettle,
     PrivateRejectReward
<1>2. Views' = Views
  BY <1>1 DEF Views, View
<1>3. /\ <<>> \in Seq(Views)
      /\ queue # <<>> => Head(queue) \in Researchers /\ Tail(queue) \in Seq(Researchers)
  OBVIOUS
<1>4. ASSUME NEW r \in Researchers, ~RequiresAttestation(setup.tier)
      PROVE  /\ Append(contexts, Context(r)) \in Seq(DatalessContext)
             /\ Append(feedback, View(r)) \in Seq(Views)
  <2>1. Context(r) \in DatalessContext
    BY <1>4, NoDataHandedOut
  <2>2. View(r) \in Views
    BY DEF Views
  <2>3. QED
    BY <2>1, <2>2, AppendProperties
<1>5. setup.tier = Public => ~RequiresAttestation(setup.tier)
  BY DEF Public, RequiresAttestation
<1>6. CASE PublicRun
  <2>1. setup.tier = Public /\ feedback' = feedback /\ Next
    BY <1>6 DEF PublicRun
  <2>2. queue' \in Seq(Researchers)
    BY <2>1, <1>3 DEF Next, Start, Evaluate, Fail, Settle, RejectReward
  <2>3. contexts' \in Seq(DatalessContext)
    BY <1>3, <1>4, <1>5, <1>6, <2>1 DEF PublicRun
  <2>4. QED
    BY <1>1, <1>2, <1>5, <2>1, <2>2, <2>3
<1>7. CASE PrivateStart
  <2>1. ~RequiresAttestation(setup.tier)
    BY <1>7, NoEnclaveStarts
  <2>2. UNCHANGED <<queue, contexts, feedback>> /\ setup.tier # Public
    BY <1>7 DEF PrivateStart
  <2>3. QED
    BY <1>1, <1>2, <2>1, <2>2
<1>8. CASE PrivateEvaluate
  <2>1. /\ stage = "running" /\ stage' = stage /\ queue # <<>> /\ queue' = Tail(queue)
        /\ contexts' = Append(contexts, Context(Head(queue)))
        /\ feedback' = Append(feedback, View(Head(queue)))
        /\ setup.tier # Public
    BY <1>8 DEF PrivateEvaluate
  <2>2. ~RequiresAttestation(setup.tier)
    BY <2>1
  <2>3. QED
    BY <1>1, <1>2, <1>3, <1>4, <2>1, <2>2
<1>9. CASE PrivateFail
  <2>1. /\ stage = "configured" \/ (stage = "running" /\ queue # <<>>)
        /\ stage' = "failed" /\ queue' = queue /\ feedback' = <<>>
        /\ contexts' = IF stage = "running" THEN Append(contexts, Context(Head(queue)))
                       ELSE contexts
    BY <1>9 DEF PrivateFail
  <2>2. contexts' \in Seq(DatalessContext)
    BY <1>3, <1>4, <2>1
  <2>3. QED
    BY <1>1, <1>2, <1>3, <2>1, <2>2
<1>10. CASE PrivateSettle
  BY <1>1, <1>2, <1>10 DEF PrivateSettle
<1>11. CASE PrivateRejectReward
  BY <1>1, <1>2, <1>3, <1>11 DEF PrivateRejectReward
<1>12. CASE UNCHANGED privateVars
  BY <1>1, <1>2, <1>12 DEF privateVars, runnerVars
<1>13. QED
  BY <1>6, <1>7, <1>8, <1>9, <1>10, <1>11, <1>12 DEF PrivateNext

(* run_private_competitive: as long as the referee is the local stand-in, no
   engine is handed the proposer's data, whatever the set-up. *)
THEOREM NoRawData == PrivateSpec => []NoRawDataWithoutEnclave
<1>1. PrivateInv => NoRawDataWithoutEnclave
  <2>. SUFFICES ASSUME PrivateInv, NEW i \in 1..Len(contexts)
                PROVE  ~contexts[i].rawData
    BY DEF NoRawDataWithoutEnclave
  <2>1. contexts[i] \in DatalessContext
    BY ElementOfSeq DEF PrivateInv
  <2>2. QED
    BY <2>1 DEF DatalessContext
<1>2. QED
  BY <1>1, PrivateStarts, PrivateStep, PTL DEF PrivateSpec

(* redact: the verdict a researcher is told is the one the operator settles on,
   and in the black box it is all that the researcher is told. *)
THEOREM ToldTheVerdict == PrivateSpec => []FeedbackIsTheVerdict
<1>1. PrivateInv => FeedbackIsTheVerdict
  <2>. SUFFICES ASSUME PrivateInv, ~RequiresAttestation(setup.tier),
                       NEW i \in 1..Len(feedback), NEW j \in 1..Len(feedback)
                PROVE  /\ feedback[i].told.cleared <=> feedback[i].researcher \in Cleared
                       /\ setup.tier = "BlackBox" /\ feedback[i].told.cleared = feedback[j].told.cleared
                            => feedback[i].told = feedback[j].told
    BY DEF FeedbackIsTheVerdict
  <2>1. feedback[i] \in Views /\ feedback[j] \in Views
    BY ElementOfSeq DEF PrivateInv
  <2>2. setup.tier \in {"BlackBox", "RedactedFeedback"}
    <3>1. setup.tier # Public
      BY DEF PrivateInv
    <3>2. QED
      BY <3>1 DEF PrivateInv, Setup, PrivacyTier, RequiresAttestation
  <2>3. ASSUME NEW r \in Researchers
        PROVE  /\ View(r).researcher = r
               /\ View(r).told.cleared = Clears(TheGate, measured[r])
               /\ setup.tier = "BlackBox" => View(r).told = [cleared |-> Clears(TheGate, measured[r])]
    BY <2>2 DEF View, Redact, FeedbackLevel
  <2>4. PICK q \in Researchers, r \in Researchers : feedback[i] = View(q) /\ feedback[j] = View(r)
    BY <2>1 DEF Views
  <2>5. feedback[i].told.cleared <=> feedback[i].researcher \in Cleared
    <3>1. feedback[i].researcher = q /\ feedback[i].told.cleared = Clears(TheGate, measured[q])
      BY <2>3, <2>4
    <3>2. feedback[i].told.cleared <=> Clears(TheGate, measured[q])
      BY <3>1, Zenon
    <3>3. Clears(TheGate, measured[q]) <=> q \in Cleared
      BY DEF Cleared
    <3>4. QED
      BY <3>1, <3>2, <3>3
  <2>6. setup.tier = "BlackBox" /\ feedback[i].told.cleared = feedback[j].told.cleared
          => feedback[i].told = feedback[j].told
    <3>1. View(q).told.cleared = Clears(TheGate, measured[q])
      BY <2>3
    <3>2. View(r).told.cleared = Clears(TheGate, measured[r])
      BY <2>3
    <3>3. setup.tier = "BlackBox" => /\ View(q).told = [cleared |-> View(q).told.cleared]
                                    /\ View(r).told = [cleared |-> View(r).told.cleared]
      BY <2>3, <3>1, <3>2
    <3>4. QED
      BY <2>4, <3>3
  <2>7. QED
    BY <2>5, <2>6
<1>2. QED
  BY <1>1, PrivateStarts, PrivateStep, PTL DEF PrivateSpec

-----------------------------------------------------------------------------
(* 2. Payment by rank. What a list of payouts pays one researcher. *)
Payment == [researcher : Researchers, wei : Nat]

PaidIn(pays, r) ==
  SumOf([i \in DOMAIN pays |-> IF pays[i].researcher = r THEN pays[i].wei ELSE 0])

LEMMA PaidAppend ==
  ASSUME NEW pays \in Seq(Payment), NEW pay \in Payment, NEW r
  PROVE  PaidIn(Append(pays, pay), r)
           = PaidIn(pays, r) + IF pay.researcher = r THEN pay.wei ELSE 0
<1> DEFINE part(p) == IF p.researcher = r THEN p.wei ELSE 0
           all == Append(pays, pay)
           parts == [i \in DOMAIN pays |-> part(pays[i])]
<1>1. /\ Len(pays) \in Nat /\ DOMAIN pays = 1..Len(pays)
      /\ DOMAIN all = 1..(Len(pays) + 1) /\ all[Len(pays) + 1] = pay
      /\ \A i \in 1..Len(pays) : all[i] = pays[i] /\ pays[i] \in Payment
  OBVIOUS
<1>2. parts \in Seq(Nat) /\ Len(parts) = Len(pays)
  BY <1>1 DEF Payment
<1>3. [i \in DOMAIN all |-> part(all[i])] = Append(parts, part(pay))
  BY <1>1, <1>2
<1>4. SumOf(Append(parts, part(pay))) = SumOf(parts) + part(pay)
  BY <1>2, SumAppend
<1>5. QED
  BY <1>3, <1>4 DEF PaidIn

LEMMA PaidNothing == \A r : PaidIn(<<>>, r) = 0
<1>1. \A r : [i \in DOMAIN <<>> |-> IF (<<>>)[i].researcher = r THEN (<<>>)[i].wei ELSE 0] = <<>>
  OBVIOUS
<1>2. QED
  BY <1>1, SumEmpty DEF PaidIn

(* A share of a schedule that conserves fits what the ranks before it left. *)
LEMMA ShareFits ==
  ASSUME NEW p \in Nat, NEW w \in Nat, NEW sum \in Nat, sum + w <= BpsDenom,
         NEW left \in 0..p, BpsDenom * (p - left) <= p * sum
  PROVE  /\ MulBps(p, w) \in 0..left
         /\ BpsDenom * (p - (left - MulBps(p, w))) <= p * (sum + w)
<1> DEFINE q == SaturatingMul(p, w)
           m == MulBps(p, w)
<1>1. p * w \in Nat /\ p * sum \in Nat /\ p * (sum + w) = p * sum + p * w
  OBVIOUS
<1>2. q \in Nat /\ q <= p * w
  BY <1>1, MaxWeiAssumption DEF SaturatingMul
<1>3. m = q \div 10000
  BY DEF MulBps, BpsDenom
<1> HIDE DEF q, m
<1>4. m \in Nat /\ 10000 * m <= q
  BY <1>2, <1>3
<1>5. p * (sum + w) <= p * 10000
  BY DEF BpsDenom
<1>6. left \in Nat /\ left <= p
  OBVIOUS
<1>7. 10000 * (p - left) <= p * sum
  BY DEF BpsDenom
<1>8. 10000 * (p - left + m) <= p * (sum + w)
  BY <1>1, <1>2, <1>4, <1>6, <1>7
<1>9. m <= left
  BY <1>4, <1>5, <1>6, <1>8
<1>10. 10000 * (p - (left - m)) <= p * (sum + w)
  BY <1>4, <1>6, <1>8
<1>11. QED
  BY <1>4, <1>6, <1>9, <1>10 DEF m, BpsDenom

(* The steps of settle_snapshot_topk, rank by rank. *)
PaysRankByRank(run, p, ranked, weights, ranks) ==
  /\ SettleSnapshotTopK(p, ranked, weights) = run[ranks].payouts
  /\ run[0] = [remaining |-> p, payouts |-> <<>>]
  /\ \A i \in 1..ranks : run[i] = AfterRank(run[i - 1], p, ranked[i], weights[i])

LEMMA RankSteps ==
  ASSUME NEW p, NEW ranked, NEW weights, NEW ranks \in Nat,
         ranks = Lesser(Len(ranked), Len(weights))
  PROVE  \E run : PaysRankByRank(run, p, ranked, weights, ranks)
<1> DEFINE start == [remaining |-> p, payouts |-> <<>>]
           run == CHOOSE g : g = [i \in 0..ranks |->
                    IF i = 0 THEN start ELSE AfterRank(g[i - 1], p, ranked[i], weights[i])]
<1>1. FiniteNatInductiveDefHypothesis(run, start,
        LAMBDA so, i : AfterRank(so, p, ranked[i], weights[i]), 0, ranks)
  BY DEF FiniteNatInductiveDefHypothesis
<1>2. FiniteNatInductiveDefConclusion(run, start,
        LAMBDA so, i : AfterRank(so, p, ranked[i], weights[i]), 0, ranks)
  BY <1>1, FiniteNatInductiveDef
<1>3. run = [i \in 0..ranks |->
               IF i = 0 THEN start ELSE AfterRank(run[i - 1], p, ranked[i], weights[i])]
  BY <1>2 DEF FiniteNatInductiveDefConclusion
<1>4. SettleSnapshotTopK(p, ranked, weights) = run[ranks].payouts
  BY DEF SettleSnapshotTopK
<1> HIDE DEF run, start
<1>5. run[0] = start
  BY <1>3
<1>6. ASSUME NEW i \in 1..ranks
      PROVE  run[i] = AfterRank(run[i - 1], p, ranked[i], weights[i])
  <2>1. i \in 0..ranks /\ i # 0
    OBVIOUS
  <2>2. QED
    BY <1>3, <2>1
<1>7. QED
  BY <1>4, <1>5, <1>6 DEF start, PaysRankByRank

(* The partial sums of natural numbers are natural and grow. *)
LEMMA SumsGrow ==
  ASSUME NEW s \in Seq(Nat)
  PROVE  \E sum : /\ sum[0] = 0 /\ SumOf(s) = sum[Len(s)]
                  /\ \A i \in 1..Len(s) : sum[i] = sum[i - 1] + s[i]
                  /\ \A i \in 0..Len(s) : sum[i] \in Nat /\ sum[i] <= SumOf(s)
<1> DEFINE n == Len(s)
<1>1. n \in Nat /\ \A i \in 1..n : s[i] \in Nat
  OBVIOUS
<1>2. PICK sum : /\ SumOf(s) = sum[n] /\ sum[0] = 0
                 /\ \A i \in 1..n : sum[i] = sum[i - 1] + s[i]
  BY <1>1, SumSteps
<1> DEFINE good == {i \in Nat : i <= n => sum[i] \in Nat}
           below == {i \in Nat : i <= n => sum[n - i] <= sum[n]}
<1>3. Nat \subseteq good
  <2>1. 0 \in good
    BY <1>2
  <2>2. ASSUME NEW i \in Nat, i \in good PROVE i + 1 \in good
    <3>1. SUFFICES ASSUME i + 1 <= n PROVE sum[i + 1] \in Nat
      OBVIOUS
    <3>2. i + 1 \in 1..n /\ i + 1 - 1 = i /\ sum[i] \in Nat
      BY <1>1, <2>2, <3>1
    <3>3. sum[i + 1] = sum[i] + s[i + 1] /\ s[i + 1] \in Nat
      BY <1>1, <1>2, <3>2
    <3>4. QED
      BY <3>2, <3>3
  <2> HIDE DEF good
  <2>3. QED
    BY <2>1, <2>2, Induction
<1>4. \A i \in 0..n : sum[i] \in Nat
  BY <1>1, <1>3
<1>5. Nat \subseteq below
  <2>1. 0 \in below
    BY <1>1, <1>4
  <2>2. ASSUME NEW i \in Nat, i \in below PROVE i + 1 \in below
    <3>1. SUFFICES ASSUME i + 1 <= n PROVE sum[n - (i + 1)] <= sum[n]
      OBVIOUS
    <3> DEFINE k == n - i
    <3>2. k \in 1..n /\ n - (i + 1) = k - 1 /\ sum[k] <= sum[n] /\ n \in 0..n
      BY <1>1, <2>2, <3>1
    <3> HIDE DEF k
    <3>3. sum[k] = sum[k - 1] + s[k] /\ s[k] \in Nat /\ sum[k - 1] \in Nat /\ sum[n] \in Nat
      BY <1>1, <1>2, <1>4, <3>2
    <3>4. sum[k - 1] <= sum[n]
      BY ONLY <3>2, <3>3
    <3>5. QED
      BY <3>2, <3>4
  <2> HIDE DEF below
  <2>3. QED
    BY <2>1, <2>2, Induction
<1>6. ASSUME NEW i \in 0..n PROVE sum[i] <= sum[n]
  <2>1. n - i \in Nat /\ n - i <= n /\ n - (n - i) = i
    BY <1>1
  <2>2. QED
    BY <1>5, <2>1
<1>7. QED
  BY <1>2, <1>4, <1>6

(* settle_snapshot_topk pays every rank that has a weight its basis points of
   the pool, and nobody else. *)
LEMMA TopKPaysRanks ==
  ASSUME NEW p \in Nat, NEW weights \in Seq(Nat), SumOf(weights) <= BpsDenom,
         NEW ranked \in Seq(Researchers),
         \A i, j \in 1..Len(ranked) : ranked[i] = ranked[j] => i = j
  PROVE  LET pays == SettleSnapshotTopK(p, ranked, weights)
         IN  /\ \A i \in 1..Len(ranked) :
                  PaidIn(pays, ranked[i]) = IF i <= Len(weights) THEN MulBps(p, weights[i]) ELSE 0
             /\ \A r : (\A i \in 1..Len(ranked) : ranked[i] # r) => PaidIn(pays, r) = 0
<1> DEFINE n == Lesser(Len(ranked), Len(weights))
<1>1. /\ n \in Nat /\ n <= Len(ranked) /\ n <= Len(weights)
      /\ Len(ranked) \in Nat /\ Len(weights) \in Nat
      /\ n = Len(ranked) \/ n = Len(weights)
  BY DEF Lesser
<1>2. PICK run : PaysRankByRank(run, p, ranked, weights, n)
  <2>1. n \in Nat /\ n = Lesser(Len(ranked), Len(weights))
    BY <1>1
  <2> HIDE DEF n
  <2>2. QED
    BY ONLY <2>1, RankSteps
<1>3. PICK sum : /\ sum[0] = 0
                 /\ \A i \in 1..Len(weights) : sum[i] = sum[i - 1] + weights[i]
                 /\ \A i \in 0..Len(weights) : sum[i] \in Nat /\ sum[i] <= SumOf(weights)
  BY SumsGrow
<1> HIDE DEF n
<1> DEFINE Left(i) == run[i].remaining
           Pays(i) == run[i].payouts
           OK(i) == /\ Left(i) \in 0..p
                    /\ BpsDenom * (p - Left(i)) <= p * sum[i]
                    /\ Pays(i) \in Seq(Payment)
                    /\ \A j \in 1..i : PaidIn(Pays(i), ranked[j]) = MulBps(p, weights[j])
                    /\ \A r : (\A j \in 1..i : ranked[j] # r) => PaidIn(Pays(i), r) = 0
           good == {i \in Nat : i <= n => OK(i)}
<1>4. 0 \in good
  <2>1. Left(0) = p /\ Pays(0) = <<>> /\ sum[0] = 0
    BY <1>2, <1>3 DEF PaysRankByRank
  <2>2. p - p = 0 /\ BpsDenom * 0 = 0 /\ p * 0 = 0 /\ p \in 0..p
    BY DEF BpsDenom
  <2>3. <<>> \in Seq(Payment)
    OBVIOUS
  <2>4. Left(0) \in 0..p /\ BpsDenom * (p - Left(0)) <= p * sum[0]
    BY <2>1, <2>2
  <2>5. Pays(0) \in Seq(Payment) /\ \A r : PaidIn(Pays(0), r) = 0
    BY <2>1, <2>3, PaidNothing
  <2> HIDE DEF Left, Pays
  <2>6. OK(0)
    BY <2>4, <2>5
  <2>7. QED
    BY <2>6
<1>5. ASSUME NEW i \in Nat, i \in good PROVE i + 1 \in good
  <2>1. SUFFICES ASSUME i + 1 <= n PROVE OK(i + 1)
    OBVIOUS
  <2> DEFINE k == i + 1
             w == weights[k]
             share == MulBps(p, w)
             pay == [researcher |-> ranked[k], wei |-> share]
  <2>2. OK(i)
    BY <1>1, <1>5, <2>1
  <2>3. /\ k \in 1..n /\ k \in 1..Len(weights) /\ k \in 1..Len(ranked) /\ k - 1 = i
        /\ i \in 0..Len(weights) /\ k \in 0..Len(weights)
        /\ w \in Nat /\ ranked[k] \in Researchers
        /\ \A j \in 1..i : j \in 1..Len(ranked) /\ j # k
    BY <1>1, <2>1
  <2>4. sum[i] \in Nat /\ sum[k] = sum[i] + w /\ sum[k] <= BpsDenom
    <3>1. sum[k] \in Nat /\ sum[k] <= SumOf(weights) /\ sum[i] \in Nat
          /\ sum[k] = sum[i] + w
      BY <1>3, <2>3
    <3>2. SumOf(weights) \in Nat
      BY <1>1, <1>3, SumsGrow
    <3>3. QED
      BY <3>1, <3>2 DEF BpsDenom
  <2>5. /\ share \in 0..Left(i)
        /\ BpsDenom * (p - (Left(i) - share)) <= p * (sum[i] + w)
    BY <2>2, <2>3, <2>4, ShareFits
  <2>6. Share(p, w, Left(i)) = share /\ share \in Nat /\ Left(i) \in Nat
    BY <2>2, <2>5 DEF Share, Lesser
  <2>7. run[k] = AfterRank(run[i], p, ranked[k], w)
    BY <1>2, <2>3 DEF PaysRankByRank
  <2>8. \A j \in 1..k : j \in 1..i \/ j = k
    BY <1>5
  <2>9. \A j \in 1..i : ranked[j] # ranked[k]
    BY <2>3
  <2>10. CASE share = 0
    <3>1. run[k] = run[i]
      BY <2>6, <2>7, <2>10 DEF AfterRank
    <3>2. Left(k) = Left(i) /\ Pays(k) = Pays(i) /\ Left(i) - share = Left(i)
      BY <2>6, <2>10, <3>1
    <3>3. BpsDenom * (p - Left(k)) <= p * sum[k]
      BY <2>4, <2>5, <3>2
    <3>4. \A j \in 1..k : PaidIn(Pays(k), ranked[j]) = MulBps(p, weights[j])
      <4>1. PaidIn(Pays(i), ranked[k]) = share
        BY <2>2, <2>9, <2>10
      <4>2. QED
        BY <2>2, <2>8, <3>2, <4>1
    <3>5. \A r : (\A j \in 1..k : ranked[j] # r) => PaidIn(Pays(k), r) = 0
      <4>1. \A j \in 1..i : j \in 1..k
        BY <1>5
      <4>2. QED
        BY <2>2, <3>2, <4>1
    <3> HIDE DEF Left, Pays
    <3>6. QED
      BY <2>2, <3>2, <3>3, <3>4, <3>5
  <2>11. CASE share # 0
    <3>1. run[k] = [remaining |-> Left(i) - share, payouts |-> Append(Pays(i), pay)]
      BY <2>6, <2>7, <2>11 DEF AfterRank
    <3>2. Left(k) = Left(i) - share /\ Pays(k) = Append(Pays(i), pay)
      BY <3>1
    <3>3. pay \in Payment /\ pay.researcher = ranked[k] /\ pay.wei = share
      BY <2>3, <2>6 DEF Payment
    <3>4. Pays(k) \in Seq(Payment) /\ Left(k) \in 0..p
      BY <2>2, <2>5, <2>6, <3>2, <3>3
    <3>5. BpsDenom * (p - Left(k)) <= p * sum[k]
      BY <2>4, <2>5, <3>2
    <3> HIDE DEF pay, share
    <3>6. \A r : PaidIn(Pays(k), r) = PaidIn(Pays(i), r) + IF ranked[k] = r THEN share ELSE 0
      <4>1. \A r : PaidIn(Append(Pays(i), pay), r)
                     = PaidIn(Pays(i), r) + IF pay.researcher = r THEN pay.wei ELSE 0
        BY <2>2, <3>3, PaidAppend
      <4>2. QED
        BY <3>2, <3>3, <4>1
    <3>7. PaidIn(Pays(k), ranked[k]) = share
      <4>1. PaidIn(Pays(i), ranked[k]) = 0
        BY <2>2, <2>9
      <4>2. QED
        BY <2>6, <3>6, <4>1
    <3>8. \A j \in 1..i : PaidIn(Pays(k), ranked[j]) = MulBps(p, weights[j])
      <4>1. TAKE j \in 1..i
      <4>2. PaidIn(Pays(i), ranked[j]) = MulBps(p, weights[j])
        BY <2>2
      <4>3. MulBps(p, weights[j]) \in Nat
        <5>1. weights[j] \in Nat
          BY <1>1, <2>1
        <5>2. p * weights[j] \in Nat
          BY <5>1
        <5>3. QED
          BY <5>2, MaxWeiAssumption DEF MulBps, SaturatingMul, BpsDenom
      <4>4. QED
        BY <2>9, <3>6, <4>2, <4>3
    <3>9. ASSUME NEW r, \A j \in 1..k : ranked[j] # r
          PROVE  PaidIn(Pays(k), r) = 0
      <4>1. k \in 1..k /\ \A j \in 1..i : j \in 1..k
        BY <1>5
      <4>2. ranked[k] # r /\ \A j \in 1..i : ranked[j] # r
        BY ONLY <3>9, <4>1
      <4>3. PaidIn(Pays(i), r) = 0
        BY <2>2, <4>2
      <4>4. QED
        BY <3>6, <4>2, <4>3
    <3>10. share = MulBps(p, weights[k])
      BY DEF share
    <3>11. \A j \in 1..k : PaidIn(Pays(k), ranked[j]) = MulBps(p, weights[j])
      BY ONLY <2>8, <3>7, <3>8, <3>10
    <3> HIDE DEF Left, Pays, w, k
    <3>12. OK(k)
      BY <3>4, <3>5, <3>9, <3>11
    <3>13. QED
      BY <3>12 DEF k
  <2>12. QED
    BY <2>10, <2>11
<1> HIDE DEF good
<1>6. n \in good
  BY <1>1, <1>4, <1>5, Induction
<1>7. OK(n)
  BY <1>1, <1>6 DEF good
<1>8. ASSUME NEW i \in 1..Len(ranked)
      PROVE  PaidIn(Pays(n), ranked[i]) = IF i <= Len(weights) THEN MulBps(p, weights[i]) ELSE 0
  <2>1. CASE i \in 1..n
    BY <1>1, <1>7, <2>1
  <2>2. CASE i \notin 1..n
    <3>1. \A j \in 1..n : ranked[j] # ranked[i]
      BY <1>1, <2>2
    <3>2. ~(i <= Len(weights))
      BY <1>1, <2>2
    <3>3. QED
      BY <1>7, <3>1, <3>2
  <2>3. QED
    BY <2>1, <2>2
<1>9. \A r : (\A i \in 1..Len(ranked) : ranked[i] # r) => PaidIn(Pays(n), r) = 0
  <2>1. \A j \in 1..n : j \in 1..Len(ranked)
    BY <1>1
  <2>2. QED
    BY <1>7, <2>1
<1>10. QED
  BY <1>2, <1>8, <1>9 DEF PaysRankByRank

(* The ranking is a strict order on whoever is measured, and RankOf's too. *)
LEMMA RankOrder ==
  ASSUME measured \in [Researchers -> Lifts]
  PROVE  \A a, b \in Researchers :
           /\ Precedes(Standing(a), Standing(b)) <=> RanksBefore(a, b)
           /\ ~(RanksBefore(a, b) /\ RanksBefore(b, a))
           /\ a # b => RanksBefore(a, b) \/ RanksBefore(b, a)
<1> SUFFICES ASSUME NEW a \in Researchers, NEW b \in Researchers
             PROVE  /\ Precedes(Standing(a), Standing(b)) <=> RanksBefore(a, b)
                    /\ ~(RanksBefore(a, b) /\ RanksBefore(b, a))
                    /\ a # b => RanksBefore(a, b) \/ RanksBefore(b, a)
  OBVIOUS
<1>1. /\ measured[a].delta \in Int /\ measured[a].lower \in Int /\ a \in Int
      /\ measured[b].delta \in Int /\ measured[b].lower \in Int /\ b \in Int
  BY RunnerAssumption DEF Lift
<1> DEFINE s == Standing(a)
           t == Standing(b)
<1>2. /\ s[1] = -measured[a].delta /\ s[2] = -measured[a].lower /\ s[3] = a
      /\ t[1] = -measured[b].delta /\ t[2] = -measured[b].lower /\ t[3] = b
  BY DEF Standing
<1> HIDE DEF s, t
<1>3. Precedes(s, t) <=> \/ s[1] < t[1]
                         \/ s[1] = t[1] /\ s[2] < t[2]
                         \/ s[1] = t[1] /\ s[2] = t[2] /\ s[3] < t[3]
  <2>1. /\ \A j \in 1..(1 - 1) : s[j] = t[j]
        /\ (\A j \in 1..(2 - 1) : s[j] = t[j]) <=> s[1] = t[1]
        /\ (\A j \in 1..(3 - 1) : s[j] = t[j]) <=> s[1] = t[1] /\ s[2] = t[2]
    OBVIOUS
  <2>2. \A i \in 1..3 : i = 1 \/ i = 2 \/ i = 3
    OBVIOUS
  <2>3. 1 \in 1..3 /\ 2 \in 1..3 /\ 3 \in 1..3
    OBVIOUS
  <2>4. QED
    BY <2>1, <2>2, <2>3 DEF Precedes
<1>4. Precedes(s, t) <=> RanksBefore(a, b)
  BY <1>1, <1>2, <1>3 DEF RanksBefore
<1>5. ~(RanksBefore(a, b) /\ RanksBefore(b, a))
  BY <1>1 DEF RanksBefore
<1>6. a # b => RanksBefore(a, b) \/ RanksBefore(b, a)
  BY <1>1 DEF RanksBefore
<1>7. QED
  BY <1>4, <1>5, <1>6 DEF s, t

(* In a sorted ranking of all who cleared, everybody stands at its rank. *)
LEMMA PlaceIsRank ==
  ASSUME measured \in [Researchers -> Lifts],
         NEW ranking \in SetToSeqs(Cleared),
         \A i, j \in DOMAIN ranking : i < j => ~RanksBefore(ranking[j], ranking[i])
  PROVE  /\ ranking \in Seq(Researchers)
         /\ \A i, j \in 1..Len(ranking) : ranking[i] = ranking[j] => i = j
         /\ \A r : r \in Cleared <=> \E i \in 1..Len(ranking) : ranking[i] = r
         /\ \A i \in 1..Len(ranking) : RankOf(ranking[i]) = i
<1>1. IsFiniteSet(Cleared) /\ Cleared \subseteq Researchers
  BY RunnerAssumption, FS_Subset DEF Cleared
<1>2. /\ ranking \in Seq(Cleared) /\ DOMAIN ranking = 1..Len(ranking)
      /\ ToSet(ranking) = Cleared
      /\ \A i, j \in 1..Len(ranking) : ranking[i] = ranking[j] => i = j
  <2>1. \A i, j \in 1..Cardinality(Cleared) : i # j => ranking[i] # ranking[j]
    BY DEF SetToSeqs
  <2>2. ranking \in [1..Cardinality(Cleared) -> Cleared]
    BY DEF SetToSeqs
  <2>3. ranking \in Seq(Cleared) /\ DOMAIN ranking = 1..Len(ranking) /\ ToSet(ranking) = Cleared
    BY ONLY <1>1, AllInOrder, ranking \in SetToSeqs(Cleared)
  <2>4. QED
    BY <2>1, <2>2, <2>3
<1>3. \A r : r \in Cleared <=> \E i \in 1..Len(ranking) : ranking[i] = r
  BY <1>2 DEF ToSet
<1>4. ranking \in Seq(Researchers) /\ \A i \in 1..Len(ranking) : ranking[i] \in Researchers
  BY <1>1, <1>2
<1>5. ASSUME NEW i \in 1..Len(ranking)
      PROVE  RankOf(ranking[i]) = i
  <2> DEFINE first == 1..(i - 1)
             ahead == {q \in Cleared : Precedes(Standing(q), Standing(ranking[i]))}
             stands == [j \in first |-> ranking[j]]
  <2>1. Len(ranking) \in Nat /\ i \in Nat /\ \A j \in first : j \in 1..Len(ranking) /\ j < i
    BY <1>2
  <2>2. \A j \in first : stands[j] \in ahead
    <3>1. TAKE j \in first
    <3>2. /\ j \in DOMAIN ranking /\ i \in DOMAIN ranking /\ j < i
          /\ ranking[j] \in Cleared /\ ranking[j] # ranking[i]
          /\ ranking[j] \in Researchers /\ ranking[i] \in Researchers
      BY <1>2, <1>3, <1>4, <2>1
    <3>3. RanksBefore(ranking[j], ranking[i])
      BY <3>2, RankOrder
    <3>4. QED
      BY <3>2, <3>3, RankOrder
  <2>3. ASSUME NEW q \in ahead PROVE \E j \in first : stands[j] = q
    <3>1. PICK j \in 1..Len(ranking) : ranking[j] = q
      BY <1>3
    <3>2. RanksBefore(ranking[j], ranking[i])
      BY <1>4, <3>1, RankOrder
    <3>3. ~(i < j) /\ j # i
      BY <1>2, <1>4, <3>2, RankOrder
    <3>4. j \in first
      BY <2>1, <3>3
    <3>5. QED
      BY <3>1, <3>4
  <2>4. \A j, k \in first : stands[j] = stands[k] => j = k
    BY <1>2, <2>1
  <2>5. stands \in [first -> ahead]
    BY <2>2
  <2>6. IsFiniteSet(first) /\ Cardinality(first) = i - 1
    <3>1. i - 1 \in Int /\ i >= 1
      BY <2>1
    <3>2. IsFiniteSet(1..(i - 1)) /\ Cardinality(1..(i - 1)) = IF 1 > i - 1 THEN 0 ELSE (i - 1) - 1 + 1
      BY ONLY <3>1, FS_Interval
    <3>3. QED
      BY <3>1, <3>2
  <2> HIDE DEF first, ahead, stands
  <2>7. stands \in Bijection(first, ahead)
    BY <2>3, <2>4, <2>5, Fun_IsBij
  <2>8. Cardinality(ahead) = Cardinality(first)
    <3>1. ExistsBijection(first, ahead)
      BY ONLY <2>7 DEF ExistsBijection
    <3>2. QED
      BY ONLY <2>6, <3>1, FS_Bijection
  <2>9. RankOf(ranking[i]) = 1 + Cardinality(ahead)
    BY DEF RankOf, ahead
  <2>10. QED
    BY <2>1, <2>6, <2>8, <2>9
<1>6. QED
  BY <1>2, <1>3, <1>4, <1>5

-----------------------------------------------------------------------------
(* Whoever has run is a survivor if it cleared, and whoever has not is neither;
   what is paid is what is due. *)
RankInv ==
  /\ reward \in Rewards /\ pool \in Pools
  /\ measured \in [Researchers -> Lifts]
  /\ queue \in Seq(Researchers)
  /\ \A r \in Researchers :
       \/ r \in ToSet(queue)
       \/ r \in ToSet(survivors) <=> r \in Cleared
  /\ survivors \in Seq(Cleared)
  /\ stage = "running" => Conserving
  /\ EachIsPaidForItsRank

LEMMA RankStarts == Init => RankInv
<1> SUFFICES ASSUME Init PROVE RankInv
  OBVIOUS
<1>1. queue \in Seq(Researchers) /\ ToSet(queue) = Researchers
  BY RunnerAssumption, AllInOrder DEF Init
<1>2. survivors \in Seq(Cleared)
  BY DEF Init
<1>3. QED
  BY <1>1, <1>2 DEF Init, RankInv, EachIsPaidForItsRank

LEMMA EvaluateRanks == RankInv /\ Evaluate => RankInv'
<1> SUFFICES ASSUME RankInv, Evaluate PROVE RankInv'
  OBVIOUS
<1> DEFINE r == Head(queue)
           now == survivors'
<1>1. /\ r \in Researchers /\ queue' = Tail(queue) /\ queue' \in Seq(Researchers)
      /\ ToSet(queue) = ToSet(queue') \cup {r}
  <2>1. queue \in Seq(Researchers) /\ queue # <<>> /\ queue' = Tail(queue)
    BY DEF RankInv, Evaluate
  <2>2. r \in Researchers /\ queue' \in Seq(Researchers)
    BY <2>1
  <2>3. /\ Len(queue) \in Nat /\ Len(queue) >= 1 /\ Len(queue') = Len(queue) - 1
        /\ \A i \in 1..Len(queue') : queue'[i] = queue[i + 1]
        /\ queue[1] = r
    BY <2>1
  <2>4. ToSet(queue) \subseteq ToSet(queue') \cup {r}
    <3>1. ASSUME NEW i \in 1..Len(queue) PROVE queue[i] = r \/ queue[i] \in ToSet(queue')
      <4>1. CASE i = 1
        BY <2>3, <4>1
      <4>2. CASE i # 1
        <5>1. i - 1 \in 1..Len(queue') /\ i - 1 + 1 = i
          BY <2>3, <4>2
        <5>2. queue[i] = queue'[i - 1]
          BY <2>3, <5>1
        <5>3. QED
          BY <2>2, <5>1, <5>2 DEF ToSet
      <4>3. QED
        BY <4>1, <4>2
    <3>2. QED
      BY <2>1, <3>1 DEF ToSet
  <2>5. ToSet(queue') \cup {r} \subseteq ToSet(queue)
    <3>1. \A i \in 1..Len(queue') : i + 1 \in 1..Len(queue) /\ queue'[i] = queue[i + 1]
      BY <2>3
    <3>2. 1 \in 1..Len(queue)
      BY <2>3
    <3>3. QED
      BY <2>1, <2>2, <2>3, <3>1, <3>2 DEF ToSet
  <2>6. QED
    BY <2>1, <2>2, <2>4, <2>5
<1>2. /\ Cleared' = Cleared /\ measured' = measured /\ reward' = reward /\ pool' = pool
      /\ stage' = "running" /\ (Conserving <=> Conserving') /\ stage = "running"
  BY DEF Evaluate, config, Cleared, Conserving
<1>3. now = IF r \in Cleared THEN Append(survivors, r) ELSE survivors
  BY <1>1 DEF Evaluate, Cleared
<1>4. survivors \in Seq(Cleared)
  BY DEF RankInv
<1>5. now \in Seq(Cleared) /\ ToSet(now) = ToSet(survivors) \cup ({r} \cap Cleared)
  <2>1. CASE r \in Cleared
    <3>1. /\ now \in Seq(Cleared) /\ Len(now) = Len(survivors) + 1 /\ Len(survivors) \in Nat
          /\ now[Len(survivors) + 1] = r
          /\ \A i \in 1..Len(survivors) : now[i] = survivors[i]
      BY <1>3, <1>4, <2>1
    <3>2. /\ DOMAIN now = 1..(Len(survivors) + 1) /\ DOMAIN survivors = 1..Len(survivors)
          /\ Len(survivors) + 1 \in 1..(Len(survivors) + 1)
          /\ \A i \in 1..(Len(survivors) + 1) :
               i \in 1..Len(survivors) \/ i = Len(survivors) + 1
          /\ \A i \in 1..Len(survivors) : i \in 1..(Len(survivors) + 1)
      BY <1>4, <3>1
    <3>3. \A x : x \in ToSet(now) <=> x \in ToSet(survivors) \/ x = r
      BY <3>1, <3>2 DEF ToSet
    <3>4. QED
      BY <2>1, <3>1, <3>3
  <2>2. CASE r \notin Cleared
    BY <1>3, <1>4, <2>2
  <2>3. QED
    BY <2>1, <2>2
<1> HIDE DEF r, now
<1>6. \A q \in Researchers : q \in ToSet(queue') \/ (q \in ToSet(now) <=> q \in Cleared)
  <2>1. \A q \in ToSet(survivors) : q \in Cleared
    BY <1>4 DEF ToSet
  <2>2. \A q \in Researchers : q \in ToSet(queue) \/ (q \in ToSet(survivors) <=> q \in Cleared)
    BY DEF RankInv
  <2>3. QED
    BY ONLY <1>1, <1>5, <2>1, <2>2
<1>7. Conserving' /\ ~(stage' = "settled")
  BY <1>2 DEF RankInv
<1>8. QED
  BY <1>1, <1>2, <1>5, <1>6, <1>7 DEF RankInv, EachIsPaidForItsRank, now

LEMMA SettlePaysRanks == RankInv /\ Settle => RankInv'
<1> SUFFICES ASSUME RankInv, Settle PROVE RankInv'
  OBVIOUS
<1> DEFINE ranking == survivors'
           pays == payouts'
<1>1. /\ reward' = reward /\ pool' = pool /\ measured' = measured /\ queue' = queue
      /\ stage' = "settled" /\ queue = <<>> /\ Conserving /\ Supported
      /\ ranking \in Rankings /\ pays = SettleTerminalOrTopK(ranking)
      /\ Cleared' = Cleared
  BY DEF Settle, config, RankInv, Cleared
<1>2. ToSet(survivors) = Cleared
  <2>1. ToSet(queue) = {}
    BY <1>1 DEF ToSet
  <2>2. ToSet(survivors) \subseteq Cleared /\ Cleared \subseteq Researchers
    BY DEF RankInv, ToSet, Cleared
  <2>3. QED
    BY <2>1, <2>2 DEF RankInv
<1>3. /\ measured \in [Researchers -> Lifts] /\ reward \in RewardSchedule /\ pool \in Nat
  BY RunnerAssumption, MaxWeiAssumption DEF RankInv
<1>4. /\ ranking \in SetToSeqs(Cleared)
      /\ \A i, j \in DOMAIN ranking : i < j => ~RanksBefore(ranking[j], ranking[i])
  BY <1>1, <1>2 DEF Rankings
<1> HIDE DEF ranking, pays
<1>5. /\ ranking \in Seq(Researchers)
      /\ \A i, j \in 1..Len(ranking) : ranking[i] = ranking[j] => i = j
      /\ \A r : r \in Cleared <=> \E i \in 1..Len(ranking) : ranking[i] = r
      /\ \A i \in 1..Len(ranking) : RankOf(ranking[i]) = i
  BY <1>3, <1>4, PlaceIsRank
<1>6. ASSUME NEW r \in Researchers PROVE PaidIn(pays, r) = Due(r)
  <2>1. CASE reward.kind = "TerminalPrize"
    <3>1. pays = IF ranking = <<>> \/ pool = 0 THEN <<>>
                 ELSE <<[researcher |-> Head(ranking), wei |-> pool]>>
      BY <1>1, <2>1 DEF SettleTerminalOrTopK, SettleTerminalPrize
    <3>2. CASE ranking = <<>> \/ pool = 0
      <4>1. PaidIn(pays, r) = 0
        BY <3>1, <3>2, PaidNothing
      <4>2. pool = 0 \/ r \notin Cleared
        BY <1>5, <3>2
      <4>3. QED
        BY <2>1, <4>1, <4>2 DEF Due
    <3>3. CASE ranking # <<>> /\ pool # 0
      <4> DEFINE pay == [researcher |-> ranking[1], wei |-> pool]
      <4>1. /\ Len(ranking) \in Nat /\ 1 \in 1..Len(ranking) /\ Head(ranking) = ranking[1]
            /\ ranking[1] \in Researchers
        BY <1>5, <3>3
      <4>2. pays = Append(<<>>, pay) /\ pay \in Payment
        BY <1>3, <3>1, <3>3, <4>1 DEF Payment
      <4>3. PaidIn(pays, r) = IF ranking[1] = r THEN pool ELSE 0
        <5>1. PaidIn(Append(<<>>, pay), r) = PaidIn(<<>>, r) + IF pay.researcher = r THEN pay.wei ELSE 0
          <6>1. <<>> \in Seq(Payment)
            OBVIOUS
          <6>2. QED
            BY ONLY <4>2, <6>1, PaidAppend
        <5>2. QED
          BY <1>3, <4>2, <5>1, PaidNothing
      <4>4. r \in Cleared => (RankOf(r) = 1 <=> ranking[1] = r)
        BY <1>5, <4>1
      <4>5. ranking[1] = r => r \in Cleared
        BY <1>5, <4>1
      <4>6. QED
        BY <2>1, <4>3, <4>4, <4>5 DEF Due
    <3>4. QED
      BY <3>2, <3>3
  <2>2. CASE reward.kind # "TerminalPrize"
    <3>1. /\ pays = SettleSnapshotTopK(pool, ranking, reward.weights)
          /\ reward.weights \in Seq(Nat) /\ SumOf(reward.weights) <= BpsDenom
      <4>1. reward.kind = "SnapshotTopK"
        BY <1>1, <2>2 DEF Supported
      <4>2. QED
        BY <1>1, <1>3, <2>2, <4>1 DEF SettleTerminalOrTopK, Conserving, ValidWeights, RewardSchedule
    <3>2. /\ \A i \in 1..Len(ranking) :
               PaidIn(pays, ranking[i])
                 = IF i <= Len(reward.weights) THEN MulBps(pool, reward.weights[i]) ELSE 0
          /\ \A q : (\A i \in 1..Len(ranking) : ranking[i] # q) => PaidIn(pays, q) = 0
      <4> DEFINE weights == reward.weights
                 topK == SettleSnapshotTopK(pool, ranking, weights)
      <4>1. /\ \A i \in 1..Len(ranking) :
                 PaidIn(topK, ranking[i]) = IF i <= Len(weights) THEN MulBps(pool, weights[i]) ELSE 0
            /\ \A q : (\A i \in 1..Len(ranking) : ranking[i] # q) => PaidIn(topK, q) = 0
        <5>1. /\ pool \in Nat /\ weights \in Seq(Nat) /\ SumOf(weights) <= BpsDenom
              /\ ranking \in Seq(Researchers)
              /\ \A i, j \in 1..Len(ranking) : ranking[i] = ranking[j] => i = j
          BY <1>3, <1>5, <3>1
        <5> HIDE DEF weights
        <5>2. QED
          BY ONLY <5>1, TopKPaysRanks
      <4>2. QED
        BY <3>1, <4>1
    <3>3. CASE r \notin Cleared
      BY <1>5, <3>2, <3>3 DEF Due
    <3>4. CASE r \in Cleared
      <4>1. PICK i \in 1..Len(ranking) : ranking[i] = r
        BY <1>5, <3>4
      <4>2. RankOf(r) = i /\ i \in Nat /\ Len(reward.weights) \in Nat
        BY <1>5, <3>1, <4>1
      <4>3. QED
        BY <2>2, <3>2, <3>4, <4>1, <4>2 DEF Due
    <3>5. QED
      BY <3>3, <3>4
  <2>3. QED
    BY <2>1, <2>2
<1>7. \A r : PaidTo(r)' = PaidIn(pays, r) /\ Due(r)' = Due(r)
  BY <1>1 DEF PaidTo, PaidIn, Due, RankOf, Standing, pays, config
<1>8. EachIsPaidForItsRank'
  BY <1>6, <1>7 DEF EachIsPaidForItsRank
<1>9. ranking \in Seq(Cleared)
  BY <1>5
<1>10. \A r : r \in ToSet(ranking) <=> r \in Cleared
  BY <1>5 DEF ToSet
<1>11. /\ (reward \in Rewards /\ pool \in Pools /\ measured \in [Researchers -> Lifts])'
       /\ (queue \in Seq(Researchers))' /\ ~(stage' = "running")
       /\ (survivors \in Seq(Cleared))'
  BY <1>1, <1>9 DEF RankInv, ranking
<1>12. (\A r \in Researchers : r \in ToSet(queue) \/ (r \in ToSet(survivors) <=> r \in Cleared))'
  BY <1>1, <1>10 DEF ranking
<1>13. QED
  BY <1>8, <1>11, <1>12 DEF RankInv

LEMMA RankStep == RankInv /\ [Next]_runnerVars => RankInv'
<1> SUFFICES ASSUME RankInv, [Next]_runnerVars PROVE RankInv'
  OBVIOUS
<1>1. CASE Start
  BY <1>1 DEF Start, RankInv, EachIsPaidForItsRank, Conserving, Cleared, config
<1>2. CASE Evaluate
  BY <1>2, EvaluateRanks
<1>3. CASE Fail
  BY <1>3 DEF Fail, RankInv, EachIsPaidForItsRank, Cleared, config
<1>4. CASE Settle
  BY <1>4, SettlePaysRanks
<1>5. CASE RejectReward
  BY <1>5 DEF RejectReward, RankInv, EachIsPaidForItsRank, Cleared, config
<1>6. CASE UNCHANGED runnerVars
  <2>1. UNCHANGED <<reward, pool, measured, queue, survivors, stage, payouts>>
    BY <1>6 DEF runnerVars, config
  <2>2. EachIsPaidForItsRank'
    BY <2>1 DEF RankInv, EachIsPaidForItsRank, PaidTo, Due, RankOf, Standing, Cleared
  <2>3. QED
    BY <2>1, <2>2 DEF RankInv, Conserving, Cleared
<1>7. QED
  BY <1>1, <1>2, <1>3, <1>4, <1>5, <1>6 DEF Next

(* The private runner's chain of comparisons sorts as the public runner's. *)
LEMMA RankedAlike == RankInv => Ranked = Rankings
<1> SUFFICES ASSUME RankInv PROVE Ranked = Rankings
  OBVIOUS
<1>1. /\ measured \in [Researchers -> Lifts] /\ \A q \in ToSet(survivors) : q \in Researchers
  BY DEF RankInv, Cleared, ToSet
<1>2. ASSUME NEW a \in Researchers, NEW b \in Researchers
      PROVE  RankOrdering(a, b) = "Greater" <=> RanksBefore(b, a)
  <2>1. /\ measured[a].delta \in Int /\ measured[a].lower \in Int /\ a \in Int
        /\ measured[b].delta \in Int /\ measured[b].lower \in Int /\ b \in Int
    BY <1>1, RunnerAssumption DEF Lift
  <2>2. QED
    BY <2>1 DEF RankOrdering, ThenWith, Compare, RanksBefore
<1>3. ASSUME NEW ranking \in SetToSeqs(ToSet(survivors)), NEW i \in DOMAIN ranking
      PROVE  ranking[i] \in Researchers
  BY <1>1 DEF SetToSeqs
<1>4. QED
  BY <1>2, <1>3 DEF Ranked, Rankings

(* A step of the private runner is a step of the public one: the settlement
   because the two sort alike, the others guard by guard. *)
LEMMA PrivateIsPublic == RankInv /\ [PrivateNext]_privateVars => [Next]_runnerVars
<1> SUFFICES ASSUME RankInv, [PrivateNext]_privateVars PROVE [Next]_runnerVars
  OBVIOUS
<1>1. CASE PublicRun
  BY <1>1 DEF PublicRun
<1>2. CASE PrivateStart
  BY <1>2 DEF PrivateStart, Next, Start
<1>3. CASE PrivateEvaluate
  BY <1>3 DEF PrivateEvaluate, Next, Evaluate
<1>4. CASE PrivateFail
  BY <1>4 DEF PrivateFail, Next, Fail
<1>5. CASE PrivateSettle
  <2>1. Settle
    BY <1>5, RankedAlike DEF PrivateSettle, Settle
  <2>2. QED
    BY <2>1 DEF Next
<1>6. CASE PrivateRejectReward
  BY <1>6 DEF PrivateRejectReward, Next, RejectReward
<1>7. CASE UNCHANGED privateVars
  BY <1>7 DEF privateVars
<1>8. QED
  BY <1>1, <1>2, <1>3, <1>4, <1>5, <1>6, <1>7 DEF PrivateNext

(* run_private_competitive against run_oneshot_competitive: with a loop, a gate
   and a chain of comparisons of its own, the private runner keeps, ranks and
   pays as the public one, for any researchers, lifts, schedules and pools. *)
THEOREM IsAPublicRunner == PrivateSpec => ImplementsPublicRunner
<1>1. PrivateInit => Init /\ RankInv
  BY RankStarts DEF PrivateInit
<1>2. RankInv /\ [PrivateNext]_privateVars => RankInv'
  BY PrivateIsPublic, RankStep
<1>3. QED
  BY <1>1, <1>2, PrivateIsPublic, PTL DEF PrivateSpec, ImplementsPublicRunner, Spec

(* In the public runner, and in the private one whose runs imply its promise,
   every researcher is paid the share of its rank, in full and once, and nobody
   else is paid, for any number of researchers and any lifts, weights and pool. *)
THEOREM PaidByRank == PrivateSpec => []EachIsPaidForItsRank
<1>1. RankInv => EachIsPaidForItsRank
  BY DEF RankInv
<1>2. Spec => []EachIsPaidForItsRank
  BY <1>1, RankStarts, RankStep, PTL DEF Spec
<1>3. QED
  BY <1>2, IsAPublicRunner, PTL DEF ImplementsPublicRunner

-----------------------------------------------------------------------------
(* 3. The sandboxes. *)
Places ==
  {"idle", "new", "provisioned", "counted", "executing", "ran", "resolved", "done", "dropped"}

SandboxTypes ==
  /\ host \in {"Local", "Runtime"}
  /\ counter \in Nat
  /\ boxes \subseteq 1..counter
  /\ host = "Local" => boxes = {}
  /\ pc \in [Calls -> Places]
  /\ box \in [Calls -> Nat]
  /\ ref \in [Calls -> Nat \X Nat]
  /\ candidate \in [Calls -> Calls \cup {Nobody}]
  /\ torn \in [Calls -> {"none", "ok", "failed"}]
  /\ store \in [DOMAIN store -> Calls]
  /\ DOMAIN store \subseteq (Nat \ {0}) \X Nat

(* No two calls have a sandbox in common, and a candidate is kept under the
   reference of the call that made it. *)
Apart == \A c, d \in Calls : box[c] = box[d] /\ box[c] # 0 => c = d

KeptByItsMaker == \A r \in DOMAIN store : ref[store[r]] = r

(* What one call has got so far: a sandbox and a reference in it, in process
   its candidate in the store and then in its hands, and at its end nothing
   left behind. *)
CallOK(c) ==
  /\ box[c] <= counter
  /\ pc[c] \in {"idle", "new"} => box[c] = 0
  /\ pc[c] \in {"provisioned", "counted", "executing"} => box[c] # 0
  /\ pc[c] \in {"idle", "new", "provisioned", "executing"} => ref[c] = NoRef
  /\ pc[c] = "counted" => ref[c] # NoRef
  /\ ref[c] # NoRef => box[c] # 0 /\ ref[c][1] = box[c]
  /\ candidate[c] \in {c, Nobody}
  /\ host = "Local" /\ ref[c] # NoRef =>
       /\ pc[c] = "ran" => ref[c] \in DOMAIN store
       /\ pc[c] \in {"resolved", "done"} => candidate[c] = c
       /\ pc[c] = "done" => torn[c] = "ok"
  /\ pc[c] = "done" /\ torn[c] # "failed" =>
       box[c] \notin boxes /\ \A r \in DOMAIN store : r[1] # box[c]

SandboxInv ==
  /\ SandboxTypes
  /\ Apart
  /\ KeptByItsMaker
  /\ \A c \in Calls : CallOK(c)

LEMMA SandboxStarts == SandboxInit => SandboxInv
BY DEF SandboxInit, SandboxInv, SandboxTypes, Apart, KeptByItsMaker, CallOK, Places, NoRef

(* What a step of one call leaves alone is as good for another call as it was,
   if it removes no candidate of the other's and adds nothing of its sandbox. *)
LEMMA OtherCall ==
  ASSUME SandboxTypes, NEW d \in Calls, CallOK(d),
         host' = host, counter' \in Nat, counter <= counter',
         pc'[d] = pc[d], box'[d] = box[d], ref'[d] = ref[d],
         candidate'[d] = candidate[d], torn'[d] = torn[d],
         boxes' \subseteq boxes \cup {counter + 1},
         \A r \in DOMAIN store' : r \in DOMAIN store \/ r[1] # box[d],
         host = "Local" /\ ref[d] \in DOMAIN store => ref[d] \in DOMAIN store'
  PROVE  CallOK(d)'
BY DEF SandboxTypes, CallOK

(* What the store is after a candidate was kept, and after a sandbox went. *)
LEMMA KeptOne ==
  ASSUME NEW r, NEW c, Keep(r, c)
  PROVE  /\ DOMAIN store' = DOMAIN store \cup {r}
         /\ \A s \in DOMAIN store' : store'[s] = IF s = r THEN c ELSE store[s]
         /\ store' = [s \in DOMAIN store' |-> store'[s]]
BY DEF Keep

LEMMA GoneWith ==
  ASSUME NEW b, store' = Without(b)
  PROVE  /\ DOMAIN store' = {r \in DOMAIN store : r[1] # b}
         /\ \A r \in DOMAIN store' : store'[r] = store[r]
         /\ store' = [r \in DOMAIN store' |-> store'[r]]
BY DEF Without, Restrict

LEMMA SandboxStep == SandboxInv /\ [SandboxNext]_sandboxVars => SandboxInv'
<1> SUFFICES ASSUME SandboxInv, [SandboxNext]_sandboxVars PROVE SandboxInv'
  OBVIOUS
<1> USE DEF requestVars
<1>0. /\ SandboxTypes
      /\ Apart
      /\ KeptByItsMaker
      /\ \A c \in Calls : CallOK(c)
  BY DEF SandboxInv
<1>1. ASSUME NEW c \in Calls, Refuse(c) PROVE SandboxInv'
  <2>2. SandboxTypes'
    BY <1>0, <1>1 DEF Refuse, Goto, SandboxTypes, Places, CallOK, NoRef
  <2>3. Apart' /\ KeptByItsMaker'
    BY <1>0, <1>1 DEF Refuse, Goto, SandboxTypes, Apart, KeptByItsMaker, CallOK, NoRef
  <2>4. CallOK(c)'
    BY <1>0, <1>1 DEF Refuse, Goto, SandboxTypes, Apart, KeptByItsMaker, CallOK, NoRef
  <2>5. ASSUME NEW d \in Calls, d # c PROVE CallOK(d)'
    <3>1. /\ SandboxTypes /\ CallOK(d)
          /\ host' = host /\ counter' \in Nat /\ counter <= counter'
          /\ pc'[d] = pc[d] /\ box'[d] = box[d] /\ ref'[d] = ref[d]
          /\ candidate'[d] = candidate[d] /\ torn'[d] = torn[d]
      BY <1>0, <1>1, <2>5 DEF Refuse, Goto, SandboxTypes
    <3>2. boxes' \subseteq boxes \cup {counter + 1}
      BY <1>0, <1>1 DEF Refuse, SandboxTypes
    <3>3. \A r \in DOMAIN store' : r \in DOMAIN store \/ r[1] # box[d]
      BY <1>0, <1>1, <2>5 DEF Refuse, SandboxTypes, Apart, CallOK
    <3>4. host = "Local" /\ ref[d] \in DOMAIN store => ref[d] \in DOMAIN store'
      BY <1>0, <1>1, <2>5 DEF Refuse, SandboxTypes, Apart, CallOK, NoRef
    <3>5. QED
      BY <3>1, <3>2, <3>3, <3>4, OtherCall
  <2>6. QED
    BY <2>2, <2>3, <2>4, <2>5 DEF SandboxInv
<1>2. ASSUME NEW c \in Calls, Provision(c) PROVE SandboxInv'
  <2>2. SandboxTypes'
    BY <1>0, <1>2 DEF Provision, Tick, Goto, SandboxTypes, Places, CallOK, NoRef
  <2>3. Apart' /\ KeptByItsMaker'
    BY <1>0, <1>2 DEF Provision, Tick, Goto, SandboxTypes, Apart, KeptByItsMaker, CallOK, NoRef
  <2>4. CallOK(c)'
    BY <1>0, <1>2 DEF Provision, Tick, Goto, SandboxTypes, Apart, KeptByItsMaker, CallOK, NoRef
  <2>5. ASSUME NEW d \in Calls, d # c PROVE CallOK(d)'
    <3>1. /\ SandboxTypes /\ CallOK(d)
          /\ host' = host /\ counter' \in Nat /\ counter <= counter'
          /\ pc'[d] = pc[d] /\ box'[d] = box[d] /\ ref'[d] = ref[d]
          /\ candidate'[d] = candidate[d] /\ torn'[d] = torn[d]
      BY <1>0, <1>2, <2>5 DEF Provision, Tick, Goto, SandboxTypes
    <3>2. boxes' \subseteq boxes \cup {counter + 1}
      BY <1>0, <1>2 DEF Provision, Tick, SandboxTypes
    <3>3. \A r \in DOMAIN store' : r \in DOMAIN store \/ r[1] # box[d]
      BY <1>0, <1>2, <2>5 DEF Provision, Tick, SandboxTypes, Apart, CallOK
    <3>4. host = "Local" /\ ref[d] \in DOMAIN store => ref[d] \in DOMAIN store'
      BY <1>0, <1>2, <2>5 DEF Provision, Tick, SandboxTypes, Apart, CallOK, NoRef
    <3>5. QED
      BY <3>1, <3>2, <3>3, <3>4, OtherCall
  <2>6. QED
    BY <2>2, <2>3, <2>4, <2>5 DEF SandboxInv
<1>3. ASSUME NEW c \in Calls, ProvisionFails(c) PROVE SandboxInv'
  <2>2. SandboxTypes'
    BY <1>0, <1>3 DEF ProvisionFails, Goto, SandboxTypes, Places, CallOK, NoRef
  <2>3. Apart' /\ KeptByItsMaker'
    BY <1>0, <1>3 DEF ProvisionFails, Goto, SandboxTypes, Apart, KeptByItsMaker, CallOK, NoRef
  <2>4. CallOK(c)'
    BY <1>0, <1>3 DEF ProvisionFails, Goto, SandboxTypes, Apart, KeptByItsMaker, CallOK, NoRef
  <2>5. ASSUME NEW d \in Calls, d # c PROVE CallOK(d)'
    <3>1. /\ SandboxTypes /\ CallOK(d)
          /\ host' = host /\ counter' \in Nat /\ counter <= counter'
          /\ pc'[d] = pc[d] /\ box'[d] = box[d] /\ ref'[d] = ref[d]
          /\ candidate'[d] = candidate[d] /\ torn'[d] = torn[d]
      BY <1>0, <1>3, <2>5 DEF ProvisionFails, Goto, SandboxTypes
    <3>2. boxes' \subseteq boxes \cup {counter + 1}
      BY <1>0, <1>3 DEF ProvisionFails, SandboxTypes
    <3>3. \A r \in DOMAIN store' : r \in DOMAIN store \/ r[1] # box[d]
      BY <1>0, <1>3, <2>5 DEF ProvisionFails, SandboxTypes, Apart, CallOK
    <3>4. host = "Local" /\ ref[d] \in DOMAIN store => ref[d] \in DOMAIN store'
      BY <1>0, <1>3, <2>5 DEF ProvisionFails, SandboxTypes, Apart, CallOK, NoRef
    <3>5. QED
      BY <3>1, <3>2, <3>3, <3>4, OtherCall
  <2>6. QED
    BY <2>2, <2>3, <2>4, <2>5 DEF SandboxInv
<1>4. ASSUME NEW c \in Calls, Count(c) PROVE SandboxInv'
  <2>2. SandboxTypes'
    BY <1>0, <1>4 DEF Count, Tick, Goto, SandboxTypes, Places, CallOK, NoRef
  <2>3. Apart' /\ KeptByItsMaker'
    BY <1>0, <1>4 DEF Count, Tick, Goto, SandboxTypes, Apart, KeptByItsMaker, CallOK, NoRef
  <2>4. CallOK(c)'
    BY <1>0, <1>4 DEF Count, Tick, Goto, SandboxTypes, Apart, KeptByItsMaker, CallOK, NoRef
  <2>5. ASSUME NEW d \in Calls, d # c PROVE CallOK(d)'
    <3>1. /\ SandboxTypes /\ CallOK(d)
          /\ host' = host /\ counter' \in Nat /\ counter <= counter'
          /\ pc'[d] = pc[d] /\ box'[d] = box[d] /\ ref'[d] = ref[d]
          /\ candidate'[d] = candidate[d] /\ torn'[d] = torn[d]
      BY <1>0, <1>4, <2>5 DEF Count, Tick, Goto, SandboxTypes
    <3>2. boxes' \subseteq boxes \cup {counter + 1}
      BY <1>0, <1>4 DEF Count, Tick, SandboxTypes
    <3>3. \A r \in DOMAIN store' : r \in DOMAIN store \/ r[1] # box[d]
      BY <1>0, <1>4, <2>5 DEF Count, Tick, SandboxTypes, Apart, CallOK
    <3>4. host = "Local" /\ ref[d] \in DOMAIN store => ref[d] \in DOMAIN store'
      BY <1>0, <1>4, <2>5 DEF Count, Tick, SandboxTypes, Apart, CallOK, NoRef
    <3>5. QED
      BY <3>1, <3>2, <3>3, <3>4, OtherCall
  <2>6. QED
    BY <2>2, <2>3, <2>4, <2>5 DEF SandboxInv
<1>5. ASSUME NEW c \in Calls, Record(c) PROVE SandboxInv'
  <2>1. /\ DOMAIN store' = DOMAIN store \cup {ref[c]}
        /\ \A s \in DOMAIN store' : store'[s] = IF s = ref[c] THEN c ELSE store[s]
        /\ store' = [s \in DOMAIN store' |-> store'[s]]
    BY <1>5, KeptOne DEF Record
  <2>2. SandboxTypes'
    BY <2>1, <1>0, <1>5 DEF Record, Goto, SandboxTypes, Places, CallOK, NoRef
  <2>3. Apart' /\ KeptByItsMaker'
    BY <2>1, <1>0, <1>5 DEF Record, Goto, SandboxTypes, Apart, KeptByItsMaker, CallOK, NoRef
  <2>4. CallOK(c)'
    BY <2>1, <1>0, <1>5 DEF Record, Goto, SandboxTypes, Apart, KeptByItsMaker, CallOK, NoRef
  <2>5. ASSUME NEW d \in Calls, d # c PROVE CallOK(d)'
    <3>1. /\ SandboxTypes /\ CallOK(d)
          /\ host' = host /\ counter' \in Nat /\ counter <= counter'
          /\ pc'[d] = pc[d] /\ box'[d] = box[d] /\ ref'[d] = ref[d]
          /\ candidate'[d] = candidate[d] /\ torn'[d] = torn[d]
      BY <1>0, <1>5, <2>5 DEF Record, Goto, SandboxTypes
    <3>2. boxes' \subseteq boxes \cup {counter + 1}
      BY <1>0, <1>5 DEF Record, SandboxTypes
    <3>3. \A r \in DOMAIN store' : r \in DOMAIN store \/ r[1] # box[d]
      BY <2>1, <1>0, <1>5, <2>5 DEF Record, SandboxTypes, Apart, CallOK
    <3>4. host = "Local" /\ ref[d] \in DOMAIN store => ref[d] \in DOMAIN store'
      BY <2>1, <1>0, <1>5, <2>5 DEF Record, SandboxTypes, Apart, CallOK, NoRef
    <3>5. QED
      BY <3>1, <3>2, <3>3, <3>4, OtherCall
  <2>6. QED
    BY <2>2, <2>3, <2>4, <2>5 DEF SandboxInv
<1>6. ASSUME NEW c \in Calls, MethodFails(c) PROVE SandboxInv'
  <2>2. SandboxTypes'
    BY <1>0, <1>6 DEF MethodFails, Goto, SandboxTypes, Places, CallOK, NoRef
  <2>3. Apart' /\ KeptByItsMaker'
    BY <1>0, <1>6 DEF MethodFails, Goto, SandboxTypes, Apart, KeptByItsMaker, CallOK, NoRef
  <2>4. CallOK(c)'
    BY <1>0, <1>6 DEF MethodFails, Goto, SandboxTypes, Apart, KeptByItsMaker, CallOK, NoRef
  <2>5. ASSUME NEW d \in Calls, d # c PROVE CallOK(d)'
    <3>1. /\ SandboxTypes /\ CallOK(d)
          /\ host' = host /\ counter' \in Nat /\ counter <= counter'
          /\ pc'[d] = pc[d] /\ box'[d] = box[d] /\ ref'[d] = ref[d]
          /\ candidate'[d] = candidate[d] /\ torn'[d] = torn[d]
      BY <1>0, <1>6, <2>5 DEF MethodFails, Goto, SandboxTypes
    <3>2. boxes' \subseteq boxes \cup {counter + 1}
      BY <1>0, <1>6 DEF MethodFails, SandboxTypes
    <3>3. \A r \in DOMAIN store' : r \in DOMAIN store \/ r[1] # box[d]
      BY <1>0, <1>6, <2>5 DEF MethodFails, SandboxTypes, Apart, CallOK
    <3>4. host = "Local" /\ ref[d] \in DOMAIN store => ref[d] \in DOMAIN store'
      BY <1>0, <1>6, <2>5 DEF MethodFails, SandboxTypes, Apart, CallOK, NoRef
    <3>5. QED
      BY <3>1, <3>2, <3>3, <3>4, OtherCall
  <2>6. QED
    BY <2>2, <2>3, <2>4, <2>5 DEF SandboxInv
<1>7. ASSUME NEW c \in Calls, Execute(c) PROVE SandboxInv'
  <2>2. SandboxTypes'
    BY <1>0, <1>7 DEF Execute, Goto, SandboxTypes, Places, CallOK, NoRef
  <2>3. Apart' /\ KeptByItsMaker'
    BY <1>0, <1>7 DEF Execute, Goto, SandboxTypes, Apart, KeptByItsMaker, CallOK, NoRef
  <2>4. CallOK(c)'
    BY <1>0, <1>7 DEF Execute, Goto, SandboxTypes, Apart, KeptByItsMaker, CallOK, NoRef
  <2>5. ASSUME NEW d \in Calls, d # c PROVE CallOK(d)'
    <3>1. /\ SandboxTypes /\ CallOK(d)
          /\ host' = host /\ counter' \in Nat /\ counter <= counter'
          /\ pc'[d] = pc[d] /\ box'[d] = box[d] /\ ref'[d] = ref[d]
          /\ candidate'[d] = candidate[d] /\ torn'[d] = torn[d]
      BY <1>0, <1>7, <2>5 DEF Execute, Goto, SandboxTypes
    <3>2. boxes' \subseteq boxes \cup {counter + 1}
      BY <1>0, <1>7 DEF Execute, SandboxTypes
    <3>3. \A r \in DOMAIN store' : r \in DOMAIN store \/ r[1] # box[d]
      BY <1>0, <1>7, <2>5 DEF Execute, SandboxTypes, Apart, CallOK
    <3>4. host = "Local" /\ ref[d] \in DOMAIN store => ref[d] \in DOMAIN store'
      BY <1>0, <1>7, <2>5 DEF Execute, SandboxTypes, Apart, CallOK, NoRef
    <3>5. QED
      BY <3>1, <3>2, <3>3, <3>4, OtherCall
  <2>6. QED
    BY <2>2, <2>3, <2>4, <2>5 DEF SandboxInv
<1>8. ASSUME NEW c \in Calls, ExecReturns(c) PROVE SandboxInv'
  <2>1. /\ DOMAIN store' = DOMAIN store \cup {<<box[c], 0>>}
        /\ \A s \in DOMAIN store' : store'[s] = IF s = <<box[c], 0>> THEN c ELSE store[s]
        /\ store' = [s \in DOMAIN store' |-> store'[s]]
    BY <1>8, KeptOne DEF ExecReturns
  <2>2. SandboxTypes'
    BY <2>1, <1>0, <1>8 DEF ExecReturns, Goto, SandboxTypes, Places, CallOK, NoRef
  <2>3. Apart' /\ KeptByItsMaker'
    BY <2>1, <1>0, <1>8 DEF ExecReturns, Goto, SandboxTypes, Apart, KeptByItsMaker, CallOK, NoRef
  <2>4. CallOK(c)'
    BY <2>1, <1>0, <1>8 DEF ExecReturns, Goto, SandboxTypes, Apart, KeptByItsMaker, CallOK, NoRef
  <2>5. ASSUME NEW d \in Calls, d # c PROVE CallOK(d)'
    <3>1. /\ SandboxTypes /\ CallOK(d)
          /\ host' = host /\ counter' \in Nat /\ counter <= counter'
          /\ pc'[d] = pc[d] /\ box'[d] = box[d] /\ ref'[d] = ref[d]
          /\ candidate'[d] = candidate[d] /\ torn'[d] = torn[d]
      BY <1>0, <1>8, <2>5 DEF ExecReturns, Goto, SandboxTypes
    <3>2. boxes' \subseteq boxes \cup {counter + 1}
      BY <1>0, <1>8 DEF ExecReturns, SandboxTypes
    <3>3. \A r \in DOMAIN store' : r \in DOMAIN store \/ r[1] # box[d]
      BY <2>1, <1>0, <1>8, <2>5 DEF ExecReturns, SandboxTypes, Apart, CallOK
    <3>4. host = "Local" /\ ref[d] \in DOMAIN store => ref[d] \in DOMAIN store'
      BY <2>1, <1>0, <1>8, <2>5 DEF ExecReturns, SandboxTypes, Apart, CallOK, NoRef
    <3>5. QED
      BY <3>1, <3>2, <3>3, <3>4, OtherCall
  <2>6. QED
    BY <2>2, <2>3, <2>4, <2>5 DEF SandboxInv
<1>9. ASSUME NEW c \in Calls, ExecFails(c) PROVE SandboxInv'
  <2>2. SandboxTypes'
    BY <1>0, <1>9 DEF ExecFails, Goto, SandboxTypes, Places, CallOK, NoRef
  <2>3. Apart' /\ KeptByItsMaker'
    BY <1>0, <1>9 DEF ExecFails, Goto, SandboxTypes, Apart, KeptByItsMaker, CallOK, NoRef
  <2>4. CallOK(c)'
    BY <1>0, <1>9 DEF ExecFails, Goto, SandboxTypes, Apart, KeptByItsMaker, CallOK, NoRef
  <2>5. ASSUME NEW d \in Calls, d # c PROVE CallOK(d)'
    <3>1. /\ SandboxTypes /\ CallOK(d)
          /\ host' = host /\ counter' \in Nat /\ counter <= counter'
          /\ pc'[d] = pc[d] /\ box'[d] = box[d] /\ ref'[d] = ref[d]
          /\ candidate'[d] = candidate[d] /\ torn'[d] = torn[d]
      BY <1>0, <1>9, <2>5 DEF ExecFails, Goto, SandboxTypes
    <3>2. boxes' \subseteq boxes \cup {counter + 1}
      BY <1>0, <1>9 DEF ExecFails, SandboxTypes
    <3>3. \A r \in DOMAIN store' : r \in DOMAIN store \/ r[1] # box[d]
      BY <1>0, <1>9, <2>5 DEF ExecFails, SandboxTypes, Apart, CallOK
    <3>4. host = "Local" /\ ref[d] \in DOMAIN store => ref[d] \in DOMAIN store'
      BY <1>0, <1>9, <2>5 DEF ExecFails, SandboxTypes, Apart, CallOK, NoRef
    <3>5. QED
      BY <3>1, <3>2, <3>3, <3>4, OtherCall
  <2>6. QED
    BY <2>2, <2>3, <2>4, <2>5 DEF SandboxInv
<1>10. ASSUME NEW c \in Calls, Resolve(c) PROVE SandboxInv'
  <2>2. SandboxTypes'
    BY <1>0, <1>10 DEF Resolve, Goto, SandboxTypes, Places, CallOK, NoRef
  <2>3. Apart' /\ KeptByItsMaker'
    BY <1>0, <1>10 DEF Resolve, Goto, SandboxTypes, Apart, KeptByItsMaker, CallOK, NoRef
  <2>4. CallOK(c)'
    BY <1>0, <1>10 DEF Resolve, Goto, SandboxTypes, Apart, KeptByItsMaker, CallOK, NoRef
  <2>5. ASSUME NEW d \in Calls, d # c PROVE CallOK(d)'
    <3>1. /\ SandboxTypes /\ CallOK(d)
          /\ host' = host /\ counter' \in Nat /\ counter <= counter'
          /\ pc'[d] = pc[d] /\ box'[d] = box[d] /\ ref'[d] = ref[d]
          /\ candidate'[d] = candidate[d] /\ torn'[d] = torn[d]
      BY <1>0, <1>10, <2>5 DEF Resolve, Goto, SandboxTypes
    <3>2. boxes' \subseteq boxes \cup {counter + 1}
      BY <1>0, <1>10 DEF Resolve, SandboxTypes
    <3>3. \A r \in DOMAIN store' : r \in DOMAIN store \/ r[1] # box[d]
      BY <1>0, <1>10, <2>5 DEF Resolve, SandboxTypes, Apart, CallOK
    <3>4. host = "Local" /\ ref[d] \in DOMAIN store => ref[d] \in DOMAIN store'
      BY <1>0, <1>10, <2>5 DEF Resolve, SandboxTypes, Apart, CallOK, NoRef
    <3>5. QED
      BY <3>1, <3>2, <3>3, <3>4, OtherCall
  <2>6. QED
    BY <2>2, <2>3, <2>4, <2>5 DEF SandboxInv
<1>11. ASSUME NEW c \in Calls, Teardown(c) PROVE SandboxInv'
  <2>1. \/ store' = store
        \/ /\ DOMAIN store' = {r \in DOMAIN store : r[1] # box[c]}
           /\ \A r \in DOMAIN store' : store'[r] = store[r]
           /\ store' = [r \in DOMAIN store' |-> store'[r]]
    BY <1>11, GoneWith DEF Teardown
  <2>2. SandboxTypes'
    BY <2>1, <1>0, <1>11 DEF Teardown, Goto, SandboxTypes, Places, CallOK, NoRef
  <2>3. Apart' /\ KeptByItsMaker'
    BY <2>1, <1>0, <1>11 DEF Teardown, Goto, SandboxTypes, Apart, KeptByItsMaker, CallOK, NoRef
  <2>4. CallOK(c)'
    <3>1. /\ pc'[c] = "done" /\ torn'[c] = "ok" /\ box'[c] = box[c] /\ ref'[c] = ref[c]
          /\ candidate'[c] = candidate[c] /\ counter' = counter /\ host' = host
          /\ box'[c] \notin boxes'
      BY <1>0, <1>11 DEF Teardown, Goto, SandboxTypes
    <3>2. \A r \in DOMAIN store' : r[1] # box'[c]
      BY <3>1, <1>0, <1>11, GoneWith DEF Teardown
    <3>3. QED
      BY <3>1, <3>2, <1>0, <1>11 DEF Teardown, SandboxTypes, CallOK
  <2>5. ASSUME NEW d \in Calls, d # c PROVE CallOK(d)'
    <3>1. /\ SandboxTypes /\ CallOK(d)
          /\ host' = host /\ counter' \in Nat /\ counter <= counter'
          /\ pc'[d] = pc[d] /\ box'[d] = box[d] /\ ref'[d] = ref[d]
          /\ candidate'[d] = candidate[d] /\ torn'[d] = torn[d]
      BY <1>0, <1>11, <2>5 DEF Teardown, Goto, SandboxTypes
    <3>2. boxes' \subseteq boxes \cup {counter + 1}
      BY <1>0, <1>11 DEF Teardown, SandboxTypes
    <3>3. \A r \in DOMAIN store' : r \in DOMAIN store \/ r[1] # box[d]
      BY <2>1, <1>0, <1>11, <2>5 DEF Teardown, SandboxTypes, Apart, CallOK
    <3>4. host = "Local" /\ ref[d] \in DOMAIN store => ref[d] \in DOMAIN store'
      BY <2>1, <1>0, <1>11, <2>5 DEF Teardown, SandboxTypes, Apart, CallOK, NoRef
    <3>5. QED
      BY <3>1, <3>2, <3>3, <3>4, OtherCall
  <2>6. QED
    BY <2>2, <2>3, <2>4, <2>5 DEF SandboxInv
<1>12. ASSUME NEW c \in Calls, TeardownFails(c) PROVE SandboxInv'
  <2>2. SandboxTypes'
    BY <1>0, <1>12 DEF TeardownFails, Goto, SandboxTypes, Places, CallOK, NoRef
  <2>3. Apart' /\ KeptByItsMaker'
    BY <1>0, <1>12 DEF TeardownFails, Goto, SandboxTypes, Apart, KeptByItsMaker, CallOK, NoRef
  <2>4. CallOK(c)'
    BY <1>0, <1>12 DEF TeardownFails, Goto, SandboxTypes, Apart, KeptByItsMaker, CallOK, NoRef
  <2>5. ASSUME NEW d \in Calls, d # c PROVE CallOK(d)'
    <3>1. /\ SandboxTypes /\ CallOK(d)
          /\ host' = host /\ counter' \in Nat /\ counter <= counter'
          /\ pc'[d] = pc[d] /\ box'[d] = box[d] /\ ref'[d] = ref[d]
          /\ candidate'[d] = candidate[d] /\ torn'[d] = torn[d]
      BY <1>0, <1>12, <2>5 DEF TeardownFails, Goto, SandboxTypes
    <3>2. boxes' \subseteq boxes \cup {counter + 1}
      BY <1>0, <1>12 DEF TeardownFails, SandboxTypes
    <3>3. \A r \in DOMAIN store' : r \in DOMAIN store \/ r[1] # box[d]
      BY <1>0, <1>12, <2>5 DEF TeardownFails, SandboxTypes, Apart, CallOK
    <3>4. host = "Local" /\ ref[d] \in DOMAIN store => ref[d] \in DOMAIN store'
      BY <1>0, <1>12, <2>5 DEF TeardownFails, SandboxTypes, Apart, CallOK, NoRef
    <3>5. QED
      BY <3>1, <3>2, <3>3, <3>4, OtherCall
  <2>6. QED
    BY <2>2, <2>3, <2>4, <2>5 DEF SandboxInv
<1>13. ASSUME NEW c \in Calls, Drop(c) PROVE SandboxInv'
  <2>1. \/ store' = store
        \/ /\ DOMAIN store' = {r \in DOMAIN store : r[1] # box[c]}
           /\ \A r \in DOMAIN store' : store'[r] = store[r]
           /\ store' = [r \in DOMAIN store' |-> store'[r]]
    BY <1>13, GoneWith DEF Drop, Tick
  <2>2. SandboxTypes'
    BY <2>1, <1>0, <1>13 DEF Drop, Tick, Goto, SandboxTypes, Places, CallOK, NoRef
  <2>3. Apart' /\ KeptByItsMaker'
    BY <2>1, <1>0, <1>13 DEF Drop, Tick, Goto, SandboxTypes, Apart, KeptByItsMaker, CallOK, NoRef
  <2>4. CallOK(c)'
    BY <2>1, <1>0, <1>13 DEF Drop, Tick, Goto, SandboxTypes, Apart, KeptByItsMaker, CallOK, NoRef
  <2>5. ASSUME NEW d \in Calls, d # c PROVE CallOK(d)'
    <3>1. /\ SandboxTypes /\ CallOK(d)
          /\ host' = host /\ counter' \in Nat /\ counter <= counter'
          /\ pc'[d] = pc[d] /\ box'[d] = box[d] /\ ref'[d] = ref[d]
          /\ candidate'[d] = candidate[d] /\ torn'[d] = torn[d]
      BY <1>0, <1>13, <2>5 DEF Drop, Tick, Goto, SandboxTypes
    <3>2. boxes' \subseteq boxes \cup {counter + 1}
      BY <1>0, <1>13 DEF Drop, Tick, SandboxTypes
    <3>3. \A r \in DOMAIN store' : r \in DOMAIN store \/ r[1] # box[d]
      BY <2>1, <1>0, <1>13, <2>5 DEF Drop, Tick, SandboxTypes, Apart, CallOK
    <3>4. host = "Local" /\ ref[d] \in DOMAIN store => ref[d] \in DOMAIN store'
      BY <2>1, <1>0, <1>13, <2>5 DEF Drop, Tick, SandboxTypes, Apart, CallOK, NoRef
    <3>5. QED
      BY <3>1, <3>2, <3>3, <3>4, OtherCall
  <2>6. QED
    BY <2>2, <2>3, <2>4, <2>5 DEF SandboxInv
<1>14. ASSUME NEW b, Reap(b) PROVE SandboxInv'
  <2>1. /\ DOMAIN store' = {r \in DOMAIN store : r[1] # b}
        /\ \A r \in DOMAIN store' : store'[r] = store[r]
        /\ store' = [r \in DOMAIN store' |-> store'[r]]
    BY <1>14, GoneWith DEF Reap
  <2>2. host # "Local"
    BY <1>0, <1>14 DEF Reap, SandboxTypes
  <2>3. SandboxTypes'
    BY <2>1, <1>0, <1>14 DEF Reap, SandboxTypes
  <2>4. Apart' /\ KeptByItsMaker'
    BY <2>1, <1>0, <1>14 DEF Reap, SandboxTypes, Apart, KeptByItsMaker
  <2>5. ASSUME NEW d \in Calls PROVE CallOK(d)'
    BY <2>1, <2>2, <1>0, <1>14 DEF Reap, SandboxTypes, CallOK
  <2>6. QED
    BY <2>3, <2>4, <2>5 DEF SandboxInv
<1>15. ASSUME UNCHANGED sandboxVars PROVE SandboxInv'
  BY <1>0, <1>15 DEF sandboxVars, SandboxInv, SandboxTypes, Apart, KeptByItsMaker, CallOK
<1>16. QED
  BY <1>1, <1>2, <1>3, <1>4, <1>5, <1>6, <1>7, <1>8, <1>9, <1>10, <1>11, <1>12, <1>13, <1>14, <1>15
     DEF SandboxNext, Produce

LEMMA SandboxesAreKept == SandboxSpec => []SandboxInv
  BY SandboxStarts, SandboxStep, PTL DEF SandboxSpec

(* A call returns what its own run made and nothing else, and in process loses
   nothing: a reference leads back to the call that made it, which is the only
   one with that sandbox. *)
THEOREM OwnCandidate == SandboxSpec => []EachGetsItsOwnCandidate
<1>1. SandboxInv => EachGetsItsOwnCandidate
  BY DEF SandboxInv, SandboxTypes, CallOK, EachGetsItsOwnCandidate, Result
<1>2. QED
  BY <1>1, SandboxesAreKept, PTL

(* A call that ran to its end leaves no sandbox and no candidate, unless the
   runtime refused to delete the sandbox. *)
THEOREM CleansUp == SandboxSpec => []NothingLeftBehind
<1>1. SandboxInv => NothingLeftBehind
  BY DEF SandboxInv, CallOK, NothingLeftBehind
<1>2. QED
  BY <1>1, SandboxesAreKept, PTL

-----------------------------------------------------------------------------
(* 4. Delegated training. *)
LEMMA Divided ==
  ASSUME NEW R \in Int, R > 0, NEW a \in Int
  PROVE  a = R * (a \div R) + (a % R)
BY SMTT(60)

LEMMA Quotient ==
  ASSUME NEW R \in Nat \ {0}, NEW a \in Nat
  PROVE  a \div R \in Nat /\ a % R \in Nat
OBVIOUS

LEMMA MultipleOf ==
  ASSUME NEW R \in Nat \ {0}, NEW q \in Nat
  PROVE  (R * q) % R = 0
OBVIOUS

(* Seeds a stride apart differ as long as no multiple of it comes round. *)
LEMMA SeedsDiffer ==
  ASSUME NEW R \in Nat \ {0}, NEW S \in Nat, NEW seed \in Nat,
         NEW i \in Nat \ {0}, NEW j \in Nat \ {0}, i < j, ((j - i) * S) % R # 0
  PROVE  (seed + (i - 1) * S) % R # (seed + (j - 1) * S) % R
<1> DEFINE a == seed + (i - 1) * S
           b == seed + (j - 1) * S
           k == (j - i) * S
<1>1. a \in Nat /\ b \in Nat /\ k \in Nat /\ b = a + k
  OBVIOUS
<1> SUFFICES ASSUME a % R = b % R PROVE FALSE
  OBVIOUS
<1> HIDE DEF a, b, k
<1>2. a = R * (a \div R) + (a % R) /\ b = R * (b \div R) + (b % R)
  BY <1>1, Divided
<1>3. a \div R \in Nat /\ b \div R \in Nat /\ a % R \in Nat
  BY <1>1, Quotient
<1>4. k = R * ((b \div R) - (a \div R))
  BY <1>3, <1>1, <1>2
<1>5. (b \div R) - (a \div R) \in Nat
  BY <1>3, <1>1, <1>4
<1>6. k % R = 0
  BY <1>4, <1>5, MultipleOf
<1>7. QED
  BY <1>6 DEF k

Reportable == [finite : BOOLEAN, value : Int]

(* What an operator told a run is what its job has completed with. *)
ServedByItsJob(r) ==
  \A i \in 1..Len(losses[r]) : InnerClusters(r)[i].kind = "Operator" =>
    /\ JobId(r, i) \in DOMAIN jobs
    /\ jobs[JobId(r, i)].completed
    /\ losses[r][i] = jobs[JobId(r, i)].loss

(* Whoever polls has a job, and an artifact is the merge of every backend's
   report, found finite. *)
RunOK(r) ==
  /\ losses[r] \in Seq(Reportable)
  /\ ServedByItsJob(r)
  /\ at[r] = "polling" => JobId(r, Turn(r)) \in DOMAIN jobs
  /\ artifact[r] # {} => at[r] = "done"
  /\ \A made \in artifact[r] :
       /\ Len(losses[r]) = Len(InnerClusters(r))
       /\ made.loss = MergeLoss(losses[r]) /\ made.loss.finite

TrainingTypes ==
  /\ request \in [Runs -> Requests]
  /\ DOMAIN at = Runs /\ DOMAIN losses = Runs /\ DOMAIN artifact = Runs
  /\ \A j \in DOMAIN jobs : jobs[j] \in [completed : BOOLEAN, loss : Reportable]

TrainingInv == TrainingTypes /\ \A r \in Runs : RunOK(r)

LEMMA TrainingStarts == TrainingInit => TrainingInv
<1> SUFFICES ASSUME TrainingInit PROVE TrainingInv
  OBVIOUS
<1>1. /\ request \in [Runs -> Requests]
      /\ DOMAIN at = Runs /\ losses = [r \in Runs |-> <<>>]
      /\ artifact = [r \in Runs |-> {}] /\ DOMAIN jobs = {}
      /\ \A r \in Runs : at[r] \in {"idle", "new"}
  BY DEF TrainingInit
<1>2. TrainingTypes
  BY <1>1 DEF TrainingTypes
<1>3. ASSUME NEW r \in Runs PROVE RunOK(r)
  BY <1>1, EmptySeq DEF RunOK, ServedByItsJob
<1>4. QED
  BY <1>2, <1>3 DEF TrainingInv

(* A run that is not served in a step stays as good, if no job is forgotten and
   none that was completed changes its loss. *)
LEMMA OtherRun ==
  ASSUME NEW r \in Runs, RunOK(r),
         request' = request, at'[r] = at[r], losses'[r] = losses[r],
         artifact'[r] = artifact[r],
         \A j \in DOMAIN jobs :
           j \in DOMAIN jobs' /\ (jobs[j].completed => jobs'[j] = jobs[j])
  PROVE  RunOK(r)'
<1>1. ServedByItsJob(r)'
  BY DEF RunOK, ServedByItsJob, InnerClusters, JobId
<1>2. InnerClusters(r)' = InnerClusters(r) /\ Turn(r)' = Turn(r)
  BY DEF InnerClusters, Turn
<1>3. JobId(r, Turn(r))' = JobId(r, Turn(r))
  BY <1>2 DEF JobId
<1>4. MergeLoss(losses[r])' = MergeLoss(losses[r])
  OBVIOUS
<1>5. QED
  BY <1>1, <1>2, <1>3, <1>4 DEF RunOK

(* A report, from the operator's job if it is the operator's turn. *)
LEMMA Reported ==
  ASSUME TrainingInv, NEW r \in Runs, NEW loss \in Reportable, Report(r, loss),
         request' = request, jobs' = jobs, at[r] \in {"training", "polling"},
         Serving(r) = "Operator" =>
           /\ JobId(r, Turn(r)) \in DOMAIN jobs
           /\ jobs[JobId(r, Turn(r))].completed
           /\ loss = jobs[JobId(r, Turn(r))].loss
  PROVE  TrainingInv'
<1> DEFINE reported == Append(losses[r], loss)
<1>0. TrainingTypes /\ \A s \in Runs : RunOK(s)
  BY DEF TrainingInv
<1>1. losses[r] \in Seq(Reportable)
  BY <1>0 DEF RunOK
<1>2. /\ reported \in Seq(Reportable) /\ Len(reported) = Len(losses[r]) + 1
      /\ \A i \in 1..Len(losses[r]) : reported[i] = losses[r][i]
      /\ reported[Len(losses[r]) + 1] = loss
      /\ Len(losses[r]) \in Nat
  BY <1>1, AppendProperties, LenProperties
<1>3. losses'[r] = reported /\ at'[r] \in {"training", "done", "failed"}
  BY <1>0 DEF Report, Move, TrainingTypes
<1>4. InnerClusters(r)' = InnerClusters(r) /\ \A i : JobId(r, i)' = JobId(r, i)
  BY DEF InnerClusters, JobId
<1>5. ASSUME NEW made \in artifact'[r]
      PROVE  /\ at'[r] = "done"
             /\ Len(reported) = Len(InnerClusters(r))
             /\ made.loss = MergeLoss(reported) /\ made.loss.finite
  BY <1>0, <1>5 DEF Report, Move, TrainingTypes, ValidArtifact
<1>6. MergeLoss(losses[r])' = MergeLoss(reported)
  BY <1>3
<1> HIDE DEF reported
<1>7. ServedByItsJob(r)'
  <2> SUFFICES ASSUME NEW i \in 1..Len(reported), InnerClusters(r)[i].kind = "Operator"
      PROVE  /\ JobId(r, i) \in DOMAIN jobs
             /\ jobs[JobId(r, i)].completed
             /\ reported[i] = jobs[JobId(r, i)].loss
    BY <1>3, <1>4 DEF ServedByItsJob
  <2>1. CASE i \in 1..Len(losses[r])
    BY <2>1, <1>0, <1>2 DEF RunOK, ServedByItsJob
  <2>2. CASE i = Turn(r)
    BY <2>2, <1>2 DEF Turn, Serving
  <2>3. QED
    BY <2>1, <2>2, <1>2 DEF Turn
<1>8. RunOK(r)'
  BY <1>2, <1>3, <1>4, <1>5, <1>6, <1>7 DEF RunOK
<1>9. ASSUME NEW s \in Runs, s # r PROVE RunOK(s)'
  <2>1. RunOK(s) /\ at'[s] = at[s] /\ losses'[s] = losses[s] /\ artifact'[s] = artifact[s]
    BY <1>0, <1>9 DEF Report, Move, TrainingTypes
  <2>2. QED
    BY <2>1, OtherRun
<1>10. TrainingTypes'
  BY <1>0 DEF TrainingTypes, Report, Move
<1>11. QED
  BY <1>8, <1>9, <1>10 DEF TrainingInv

(* A run that merely goes on or gives up. *)
LEMMA Moved ==
  ASSUME TrainingInv, NEW r \in Runs, NEW there \in {"training", "failed"},
         at[r] # "done", Move(r, there), UNCHANGED <<request, losses, artifact, jobs>>
  PROVE  TrainingInv'
<1>0. TrainingTypes /\ \A s \in Runs : RunOK(s)
  BY DEF TrainingInv
<1>1. TrainingTypes'
  BY <1>0 DEF TrainingTypes, Move
<1>2. ASSUME NEW s \in Runs, s # r PROVE RunOK(s)'
  <2>1. RunOK(s) /\ at'[s] = at[s]
    BY <1>0, <1>2 DEF Move, TrainingTypes
  <2>2. QED
    BY <2>1, OtherRun
<1>3. RunOK(r)'
  <2>1. at'[r] \in {"training", "failed"} /\ artifact'[r] = {} /\ losses'[r] \in Seq(Reportable)
    BY <1>0 DEF Move, TrainingTypes, RunOK
  <2>2. ServedByItsJob(r)'
    BY <1>0 DEF RunOK, ServedByItsJob, InnerClusters, JobId
  <2>3. QED
    BY <2>1, <2>2 DEF RunOK
<1>4. QED
  BY <1>1, <1>2, <1>3 DEF TrainingInv

LEMMA TrainingStep == TrainingInv /\ [TrainingNext]_trainingVars => TrainingInv'
<1> SUFFICES ASSUME TrainingInv, [TrainingNext]_trainingVars PROVE TrainingInv'
  OBVIOUS
<1>0. TrainingTypes /\ \A r \in Runs : RunOK(r)
  BY DEF TrainingInv
<1>1. ASSUME NEW r \in Runs, Admit(r) PROVE TrainingInv'
  BY <1>1, Moved DEF Admit
<1>2. ASSUME NEW r \in Runs, Simulate(r) PROVE TrainingInv'
  <2>1. request[r] \in Requests
    BY <1>0 DEF TrainingTypes
  <2>2. TrainLoss(request[r].recipe) \in Reportable
    BY <2>1, TrainingAssumption DEF TrainLoss, Number, NotFinite, Reportable
  <2>3. QED
    BY <2>2, <1>2, Reported DEF Simulate
<1>3. ASSUME NEW r \in Runs, ProcessReports(r) PROVE TrainingInv'
  <2>1. PICK loss \in Losses : Report(r, Number(loss))
    BY <1>3 DEF ProcessReports
  <2>2. Number(loss) \in Reportable
    BY TrainingAssumption DEF Number, Reportable
  <2>3. QED
    BY <2>1, <2>2, <1>3, Reported DEF ProcessReports
<1>4. ASSUME NEW r \in Runs, Submit(r) PROVE TrainingInv'
  <2> DEFINE job == JobId(r, Turn(r))
  <2>1. /\ DOMAIN jobs' = DOMAIN jobs \cup {job}
        /\ \A j \in DOMAIN jobs : jobs'[j] = jobs[j]
        /\ \A j \in DOMAIN jobs' : j \notin DOMAIN jobs => jobs'[j] = Job(FALSE, NotFinite)
    BY <1>4 DEF Submit
  <2>2. Job(FALSE, NotFinite) \in [completed : BOOLEAN, loss : Reportable]
    BY DEF Job, NotFinite, Reportable
  <2>3. TrainingTypes'
    BY <2>1, <2>2, <1>0, <1>4 DEF TrainingTypes, Submit, Move
  <2>4. ASSUME NEW s \in Runs, s # r PROVE RunOK(s)'
    <3>1. /\ RunOK(s) /\ at'[s] = at[s] /\ losses'[s] = losses[s] /\ artifact'[s] = artifact[s]
          /\ request' = request
      BY <1>0, <1>4, <2>4 DEF Submit, Move, TrainingTypes
    <3>2. QED
      BY <2>1, <3>1, OtherRun
  <2>5. /\ at'[r] \in {"polling", "failed"} /\ artifact'[r] = {}
        /\ losses' = losses /\ request' = request /\ losses[r] \in Seq(Reportable)
    BY <1>0, <1>4 DEF Submit, Move, TrainingTypes, RunOK
  <2>6. ServedByItsJob(r)'
    <3>1. \A i : JobId(r, i)' = JobId(r, i)
      BY <2>5 DEF JobId
    <3>2. InnerClusters(r)' = InnerClusters(r)
      BY <2>5 DEF InnerClusters
    <3>3. ServedByItsJob(r)
      BY <1>0 DEF RunOK
    <3>4. QED
      BY <2>1, <2>5, <3>1, <3>2, <3>3 DEF ServedByItsJob
  <2>7. JobId(r, Turn(r))' = job
    BY <2>5 DEF JobId, Turn
  <2>8. RunOK(r)'
    BY <2>1, <2>5, <2>6, <2>7 DEF RunOK
  <2>9. QED
    BY <2>3, <2>4, <2>8 DEF TrainingInv
<1>5. ASSUME NEW r \in Runs, PollCompleted(r) PROVE TrainingInv'
  <2>1. JobId(r, Turn(r)) \in DOMAIN jobs
    BY <1>0, <1>5 DEF PollCompleted, RunOK
  <2>2. jobs[JobId(r, Turn(r))].loss \in Reportable
    BY <2>1, <1>0 DEF TrainingTypes
  <2>3. QED
    BY <2>1, <2>2, <1>5, Reported DEF PollCompleted
<1>6. ASSUME NEW r \in Runs, DeadlinePasses(r) PROVE TrainingInv'
  BY <1>6, Moved DEF DeadlinePasses
<1>7. ASSUME NEW r \in Runs, BackendFails(r) PROVE TrainingInv'
  BY <1>7, Moved DEF BackendFails
<1>8. ASSUME NEW job \in DOMAIN jobs, Complete(job) PROVE TrainingInv'
  <2>1. PICK claim \in {NotFinite} \cup {Number(loss) : loss \in Losses} :
          jobs' = [jobs EXCEPT ![job] = Job(TRUE, claim)]
    BY <1>8 DEF Complete
  <2>2. claim \in Reportable
    <3>1. NotFinite \in Reportable
      BY DEF NotFinite, Reportable
    <3>2. \A loss \in Losses : Number(loss) \in Reportable
      BY TrainingAssumption DEF Number, Reportable
    <3>3. QED
      BY <3>1, <3>2
  <2>3. Job(TRUE, claim) \in [completed : BOOLEAN, loss : Reportable]
    BY <2>2 DEF Job
  <2>4. TrainingTypes'
    BY <2>1, <2>3, <1>0, <1>8 DEF TrainingTypes, Complete
  <2>5. ASSUME NEW r \in Runs PROVE RunOK(r)'
    <3>1. \A j \in DOMAIN jobs : j \in DOMAIN jobs' /\ (jobs[j].completed => jobs'[j] = jobs[j])
      BY <2>1, <1>8 DEF Complete
    <3>2. RunOK(r)
      BY <1>0
    <3>3. QED
      BY <3>1, <3>2, <1>8, OtherRun DEF Complete
  <2>6. QED
    BY <2>4, <2>5 DEF TrainingInv
<1>9. ASSUME UNCHANGED trainingVars PROVE TrainingInv'
  <2>1. ASSUME NEW r \in Runs PROVE RunOK(r)'
    BY <1>0, <1>9, OtherRun DEF trainingVars
  <2>2. QED
    BY <2>1, <1>0, <1>9 DEF trainingVars, TrainingInv, TrainingTypes
<1>10. QED
  BY <1>1, <1>2, <1>3, <1>4, <1>5, <1>6, <1>7, <1>8, <1>9 DEF TrainingNext, Proceed

LEMMA TrainingIsKept == TrainingSpec => []TrainingInv
  BY TrainingStarts, TrainingStep, PTL DEF TrainingSpec

(* Two runs that were served with one recipe under one seed were told the same:
   both were told what the job of that recipe and seed has completed with, and
   a completed job does not change. *)
THEOREM RetriesAreTold == TrainingSpec => []RetriesAgree
<1>1. ASSUME TrainingInv PROVE RetriesAgree
  <2> SUFFICES ASSUME NEW r \in Runs, NEW s \in Runs,
                      NEW i \in DOMAIN losses[r], NEW j \in DOMAIN losses[s],
                      OperatorServed(r, i), OperatorServed(s, j),
                      request[r].recipe = request[s].recipe,
                      ClusterSeed(request[r].seed, i) = ClusterSeed(request[s].seed, j)
               PROVE  losses[r][i] = losses[s][j]
    BY DEF RetriesAgree
  <2>1. i \in 1..Len(losses[r]) /\ j \in 1..Len(losses[s])
    BY <1>1, LenProperties DEF TrainingInv, RunOK
  <2>2. /\ losses[r][i] = jobs[JobId(r, i)].loss
        /\ losses[s][j] = jobs[JobId(s, j)].loss
    BY <2>1, <1>1 DEF TrainingInv, RunOK, ServedByItsJob, OperatorServed
  <2>3. JobId(r, i) = JobId(s, j)
    BY DEF JobId
  <2>4. QED
    BY <2>2, <2>3
<1>2. QED
  BY <1>1, TrainingIsKept, PTL

(* An artifact stands for every backend of its hierarchy, no two of them of one
   job: their seeds lie strides apart, and no multiple of the stride that small
   comes round. *)
THEOREM EveryReplicaCounts == TrainingSpec => []NoReplicaLeftOut
<1>1. ASSUME TrainingInv PROVE NoReplicaLeftOut
  <2> SUFFICES ASSUME NEW r \in Runs, NEW made \in artifact[r]
               PROVE  /\ Len(losses[r]) = Len(InnerClusters(r))
                      /\ made.loss = MergeLoss(losses[r]) /\ made.loss.finite
                      /\ \A i, j \in DOMAIN losses[r] : i # j => JobId(r, i) # JobId(r, j)
    BY DEF NoReplicaLeftOut
  <2>1. /\ Len(losses[r]) = Len(InnerClusters(r))
        /\ made.loss = MergeLoss(losses[r]) /\ made.loss.finite
        /\ losses[r] \in Seq(Reportable)
    BY <1>1 DEF TrainingInv, RunOK
  <2>2. DOMAIN losses[r] = 1..Len(losses[r]) /\ Len(losses[r]) \in Nat
    BY <2>1, LenProperties
  <2>3. request[r] \in Requests
    BY <1>1 DEF TrainingInv, TrainingTypes
  <2>4. ASSUME NEW i \in DOMAIN losses[r], NEW j \in DOMAIN losses[r], i < j
        PROVE  JobId(r, i) # JobId(r, j)
    <3>1. j - i \in 1..Len(InnerClusters(r)) - 1 /\ i \in Nat \ {0} /\ j \in Nat \ {0}
      BY <2>1, <2>2, <2>4
    <3>2. ((j - i) * SeedStride) % SeedRange # 0 /\ request[r].seed \in Nat
      BY <2>3, <3>1, TrainingAssumption DEF InnerClusters
    <3>3. ClusterSeed(request[r].seed, i) # ClusterSeed(request[r].seed, j)
      BY <2>4, <3>1, <3>2, SeedsDiffer, TrainingAssumption DEF ClusterSeed
    <3>4. QED
      BY <3>3 DEF JobId
  <2>5. \A i, j \in DOMAIN losses[r] : i # j => i < j \/ j < i
    BY <2>2
  <2>6. QED
    BY <2>1, <2>4, <2>5
<1>2. QED
  BY <1>1, TrainingIsKept, PTL

=============================================================================
