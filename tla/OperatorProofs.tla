--------------------------- MODULE OperatorProofs ---------------------------
(***************************************************************************)
(* The operator proved for any environment, any reports and any store:     *)
(* what it loads is runnable, no win is empty, the payload it registers    *)
(* with reads back, what is scored is what was submitted, and evidence is  *)
(* final once a competition settles.                                       *)
(***************************************************************************)
EXTENDS OperatorService, CompetitionStore, TallyProofs

(* 1. The store. Evidence is recorded while a competition is scored: what TypeOK
   lacks for the candidates to be final from the first certificate on. *)
CertifiedLate ==
  \A id \in CompetitionIds :
    (\E k \in Submitted(id) : candidates[id][k].evidence # None) =>
      status[id] \in {"Scoring", "Settling", "Closed"}

StoreInv == TypeOK /\ CertifiedLate

(* The stakes of a researcher who joins again add up, at most to the maximum. *)
LEMMA StakeType ==
  ASSUME TypeOK, NEW id \in CompetitionIds, NEW r \in Researchers, NEW stake \in Stakes
  PROVE  Accumulate(id, r, stake) \in 0..MaxWei
<1>1. Prior(id, r) \in 0..MaxWei
  BY StoreAssumption, MaxWeiAssumption DEF TypeOK, Prior
<1>2. stake \in 0..MaxWei /\ MaxWei \in Nat
  BY StoreAssumption, MaxWeiAssumption
<1>3. QED
  BY <1>1, <1>2 DEF Accumulate, SaturatingAdd

(* Only three operations touch a candidate, each one of one competition. *)
LEMMA StoreStepCases ==
  ASSUME [Next]_storeVars
  PROVE  \/ UNCHANGED candidates
         \/ \E id \in CompetitionIds, k \in Commitments :
              \/ \E r \in Researchers : Commit(id, r, k)
              \/ \E expected \in Commitments, artifact \in Artifacts :
                   Reveal(id, k, expected, artifact)
              \/ \E certificate \in Certificates : RecordEvidence(id, k, certificate)
BY DEF Next, storeVars, CreateWithPolicy, Transition, Join

(* Every operation changes what it changes to something of its type. *)
LEMMA StoreTypes ==
  ASSUME TypeOK, [Next]_storeVars
  PROVE  TypeOK'
<1>. USE DEF TypeOK
<1>1. ASSUME NEW id \in CompetitionIds, NEW minStake \in Floors, CreateWithPolicy(id, minStake)
      PROVE  TypeOK'
  <2>1. minStake \in Nat
    BY StoreAssumption, MaxWeiAssumption
  <2>2. QED
    BY <1>1, <2>1 DEF CreateWithPolicy, Status
<1>2. ASSUME NEW id \in CompetitionIds, NEW to \in Status, Transition(id, to)
      PROVE  TypeOK'
  BY <1>2 DEF Transition
<1>3. ASSUME NEW id \in CompetitionIds, NEW r \in Researchers, NEW stake \in Stakes,
             Join(id, r, stake)
      PROVE  TypeOK'
  <2>1. Accumulate(id, r, stake) \in 0..MaxWei
    BY StakeType
  <2>2. QED
    BY <1>3, <2>1 DEF Join
<1>4. ASSUME NEW id \in CompetitionIds, NEW k \in Commitments,
             NEW value \in CandidateRecord,
             candidates' = [candidates EXCEPT ![id][k] = value],
             UNCHANGED <<status, floor, researchers>>
      PROVE  TypeOK'
  BY <1>4
<1>5. ASSUME NEW id \in CompetitionIds, NEW r \in Researchers, NEW k \in Commitments,
             Commit(id, r, k)
      PROVE  TypeOK'
  BY <1>4, <1>5 DEF Commit, CandidateRecord
<1>6. ASSUME NEW id \in CompetitionIds, NEW k \in Commitments, NEW expected,
             NEW artifact \in Artifacts, Reveal(id, k, expected, artifact)
      PROVE  TypeOK'
  <2>1. candidates[id][k] \in CandidateRecord
    BY <1>6 DEF Reveal
  <2>2. candidates' = [candidates EXCEPT ![id][k] = [candidates[id][k] EXCEPT !.artifactRef = artifact]]
    BY <1>6 DEF Reveal
  <2>3. [candidates[id][k] EXCEPT !.artifactRef = artifact] \in CandidateRecord
    BY <2>1 DEF CandidateRecord
  <2>4. QED
    BY <1>4, <1>6, <2>2, <2>3 DEF Reveal
<1>7. ASSUME NEW id \in CompetitionIds, NEW k \in Commitments,
             NEW certificate \in Certificates, RecordEvidence(id, k, certificate)
      PROVE  TypeOK'
  <2>1. candidates[id][k] \in CandidateRecord
    BY <1>7 DEF RecordEvidence
  <2>2. candidates' = [candidates EXCEPT ![id][k] = [candidates[id][k] EXCEPT !.evidence = certificate]]
    BY <1>7 DEF RecordEvidence
  <2>3. [candidates[id][k] EXCEPT !.evidence = certificate] \in CandidateRecord
    BY <2>1 DEF CandidateRecord
  <2>4. QED
    BY <1>4, <1>7, <2>2, <2>3 DEF RecordEvidence
<1>8. CASE UNCHANGED storeVars
  BY <1>8 DEF storeVars
<1>9. QED
  BY <1>1, <1>2, <1>3, <1>5, <1>6, <1>7, <1>8 DEF Next

(* What a step makes of one candidate, and of its competition. *)
LEMMA CandidateStep ==
  ASSUME TypeOK, [Next]_storeVars, NEW id \in CompetitionIds, NEW k \in Commitments
  PROVE  \/ candidates'[id][k] = candidates[id][k]
         \/ /\ status[id] = "Submitting" /\ status'[id] = "Submitting"
            /\ candidates[id][k] = None \/ candidates'[id][k].evidence = candidates[id][k].evidence
            /\ candidates[id][k] = None => candidates'[id][k].evidence = None
         \/ /\ status[id] = "Scoring" /\ status'[id] = "Scoring"
            /\ candidates[id][k] # None
            /\ candidates'[id][k].researcher = candidates[id][k].researcher
            /\ candidates'[id][k].artifactRef = candidates[id][k].artifactRef
<1>. USE DEF TypeOK
<1>. DEFINE Kept == candidates'[id][k] = candidates[id][k]
            Submitting ==
              /\ status[id] = "Submitting" /\ status'[id] = "Submitting"
              /\ candidates[id][k] = None \/ candidates'[id][k].evidence = candidates[id][k].evidence
              /\ candidates[id][k] = None => candidates'[id][k].evidence = None
            Scoring ==
              /\ status[id] = "Scoring" /\ status'[id] = "Scoring"
              /\ candidates[id][k] # None
              /\ candidates'[id][k].researcher = candidates[id][k].researcher
              /\ candidates'[id][k].artifactRef = candidates[id][k].artifactRef
<1>1. ASSUME NEW c \in CompetitionIds, NEW j \in Commitments, NEW value,
             candidates' = [candidates EXCEPT ![c][j] = value], c # id \/ j # k
      PROVE  Kept
  BY <1>1
<1>2. ASSUME NEW c \in CompetitionIds, NEW j \in Commitments, NEW r \in Researchers,
             Commit(c, r, j)
      PROVE  Kept \/ Submitting
  BY <1>1, <1>2 DEF Commit
<1>3. ASSUME NEW c \in CompetitionIds, NEW j \in Commitments, NEW expected,
             NEW artifact \in Artifacts, Reveal(c, j, expected, artifact)
      PROVE  Kept \/ Submitting
  <2>1. candidates' = [candidates EXCEPT ![c][j] = [candidates[c][j] EXCEPT !.artifactRef = artifact]]
    BY <1>3 DEF Reveal
  <2>2. CASE c = id /\ j = k
    <3>1. candidates[id][k] \in CandidateRecord
      BY <1>3, <2>2 DEF Reveal
    <3>2. candidates'[id][k].evidence = candidates[id][k].evidence
      BY <2>1, <2>2, <3>1 DEF CandidateRecord
    <3>3. QED
      BY <1>3, <2>2, <3>2 DEF Reveal
  <2>3. QED
    BY <1>1, <2>1, <2>2
<1>4. ASSUME NEW c \in CompetitionIds, NEW j \in Commitments,
             NEW certificate \in Certificates, RecordEvidence(c, j, certificate)
      PROVE  Kept \/ Scoring
  <2>1. candidates' = [candidates EXCEPT ![c][j] = [candidates[c][j] EXCEPT !.evidence = certificate]]
    BY <1>4 DEF RecordEvidence
  <2>2. CASE c = id /\ j = k
    <3>1. candidates[id][k] \in CandidateRecord
      BY <1>4, <2>2 DEF RecordEvidence
    <3>2. /\ candidates'[id][k].researcher = candidates[id][k].researcher
          /\ candidates'[id][k].artifactRef = candidates[id][k].artifactRef
      BY <2>1, <2>2, <3>1 DEF CandidateRecord
    <3>3. QED
      BY <1>4, <2>2, <3>2 DEF RecordEvidence, Certifiable
  <2>3. QED
    BY <1>1, <2>1, <2>2
<1>5. QED
  BY <1>2, <1>3, <1>4, StoreStepCases

(* A competition that is scored, settling or closed stays one of these. *)
LEMMA StatusStep ==
  ASSUME TypeOK, [Next]_storeVars, NEW id \in CompetitionIds,
         status[id] \in {"Scoring", "Settling", "Closed"}
  PROVE  status'[id] \in {"Scoring", "Settling", "Closed"}
<1>1. ASSUME NEW c \in CompetitionIds, NEW to \in Status, Transition(c, to)
      PROVE  status'[id] \in {"Scoring", "Settling", "Closed"}
  BY <1>1 DEF Transition, Forward, CanTransitionTo, TypeOK
<1>2. ASSUME NEW c \in CompetitionIds, NEW minStake, CreateWithPolicy(c, minStake)
      PROVE  status'[id] = status[id]
  <2>1. c # id
    BY <1>2, StoreAssumption DEF CreateWithPolicy, Status
  <2>2. QED
    BY <1>2, <2>1 DEF CreateWithPolicy, TypeOK
<1>3. QED
  BY <1>1, <1>2 DEF Next, storeVars, Join, Commit, Reveal, RecordEvidence

LEMMA StoreStep == StoreInv /\ [Next]_storeVars => StoreInv'
<1>. SUFFICES ASSUME StoreInv, [Next]_storeVars
              PROVE  StoreInv'
  OBVIOUS
<1>. USE DEF StoreInv
<1>1. TypeOK'
  BY StoreTypes
<1>2. ASSUME NEW id \in CompetitionIds, NEW k \in Commitments,
             candidates'[id][k] # None, candidates'[id][k].evidence # None
      PROVE  status'[id] \in {"Scoring", "Settling", "Closed"}
  <2>1. CASE status'[id] = "Scoring"
    BY <2>1
  <2>2. CASE status'[id] # "Scoring"
    <3>1. candidates[id][k] # None /\ candidates[id][k].evidence # None
      BY <1>2, <2>2, CandidateStep
    <3>2. status[id] \in {"Scoring", "Settling", "Closed"}
      BY <3>1 DEF CertifiedLate, Submitted
    <3>3. QED
      BY <3>2, StatusStep
  <2>3. QED
    BY <2>1, <2>2
<1>3. QED
  BY <1>1, <1>2 DEF CertifiedLate, Submitted

LEMMA StoreInit == Init => StoreInv
<1>. SUFFICES ASSUME Init PROVE StoreInv
  OBVIOUS
<1>1. TypeOK
  BY DEF Init, TypeOK
<1>2. \A id \in CompetitionIds : Submitted(id) = {}
  BY DEF Init, Submitted
<1>3. QED
  BY <1>1, <1>2 DEF StoreInv, CertifiedLate

(* store.rs: every stake, candidate and status of a competition is what its
   type says, whatever sequence of calls is made. *)
THEOREM StoreTyped == Spec => []TypeOK
BY StoreInit, StoreStep, PTL DEF Spec, StoreInv

(* store.rs: from the first certificate on, no candidate of a competition
   appears, disappears or changes its author or its artifact. *)
THEOREM ScoredIsSubmitted == Spec => ScoredAsSubmitted
<1>1. StoreInv /\ [Next]_storeVars =>
        [\A id \in CompetitionIds :
           (\E k \in Submitted(id) : candidates[id][k].evidence # None) =>
             \A k \in Commitments :
               IF candidates[id][k] = None THEN candidates'[id][k] = None
               ELSE /\ candidates'[id][k].researcher = candidates[id][k].researcher
                    /\ candidates'[id][k].artifactRef = candidates[id][k].artifactRef]_storeVars
  <2>. SUFFICES ASSUME StoreInv, [Next]_storeVars, NEW id \in CompetitionIds,
                       \E k \in Submitted(id) : candidates[id][k].evidence # None,
                       NEW k \in Commitments
                PROVE  IF candidates[id][k] = None THEN candidates'[id][k] = None
                       ELSE /\ candidates'[id][k].researcher = candidates[id][k].researcher
                            /\ candidates'[id][k].artifactRef = candidates[id][k].artifactRef
    OBVIOUS
  <2>1. status[id] \in {"Scoring", "Settling", "Closed"}
    BY DEF StoreInv, CertifiedLate
  <2>2. QED
    BY <2>1, CandidateStep DEF StoreInv
<1>2. QED
  BY <1>1, StoreInit, StoreStep, PTL DEF Spec, ScoredAsSubmitted

(* store.rs: what a payout is computed from does not move while it is
   computed, nor after. *)
THEOREM EvidenceIsFinal == Spec => EvidenceFinalWhenSettling
<1>1. StoreInv /\ [Next]_storeVars =>
        [\A id \in CompetitionIds : status[id] \in {"Settling", "Closed"} =>
           candidates'[id] = candidates[id]]_storeVars
  <2>. SUFFICES ASSUME StoreInv, [Next]_storeVars, NEW id \in CompetitionIds,
                       status[id] \in {"Settling", "Closed"}
                PROVE  candidates'[id] = candidates[id]
    OBVIOUS
  <2>1. \A k \in Commitments : candidates'[id][k] = candidates[id][k]
    BY CandidateStep DEF StoreInv
  <2>2. TypeOK /\ TypeOK'
    BY StoreTypes DEF StoreInv
  <2>3. QED
    BY <2>1, <2>2 DEF TypeOK
<1>2. QED
  BY <1>1, StoreInit, StoreStep, PTL DEF Spec, EvidenceFinalWhenSettling

-----------------------------------------------------------------------------
(* 2. The process. What it loads from a real environment. *)
LEMMA LoadedTypes ==
  ASSUME NEW env \in Environments
  PROVE  /\ GateFrom(env) \in ConfiguredGate /\ GateValid(GateFrom(env))
         /\ SplitValid(FeeSplitFrom(env))
         /\ NonZero(env.floor, DefaultFloor) \in 1..MaxWei
         /\ NonZero(env.price, DefaultPrice) \in 1..MaxWei
<1>1. /\ env.gateLower \in Float \cup Absent /\ env.gateCeiling \in Float \cup Absent
      /\ env.gateMinN \in Nat \cup Absent
      /\ env.floor \in (0..MaxWei) \cup Absent /\ env.price \in (0..MaxWei) \cup Absent
  BY ServiceAssumption
<1>2. /\ DefaultGate \in ConfiguredGate /\ GateValid(DefaultGate)
      /\ DefaultFloor \in 1..MaxWei /\ DefaultPrice \in 1..MaxWei /\ MaxWei \in Nat
  BY ServiceAssumption, MaxWeiAssumption
<1>3. ASSUME NEW v \in (0..MaxWei) \cup Absent, NEW default \in 1..MaxWei
      PROVE  NonZero(v, default) \in 1..MaxWei
  BY <1>2, <1>3 DEF NonZero, Read, IsSet, Absent
<1>4. SplitValid(FeeSplitFrom(env))
  BY DEF FeeSplitFrom, SplitValid, DefaultSplit
<1>5. ASSUME NEW S, NEW T, NEW v \in S \cup Absent, NEW default \in T, S \subseteq T
      PROVE  Read(v, default) \in T
  BY <1>5 DEF Read, IsSet, Absent
<1>6. OverriddenGate(env) \in ConfiguredGate
  <2>1. /\ DefaultGate.minLower \in Float /\ DefaultGate.minN \in Nat
        /\ DefaultGate.ceiling \in Float \cup {Uncapped}
    BY <1>2 DEF ConfiguredGate
  <2>2. Read(env.gateLower, DefaultGate.minLower) \in Float
    BY <1>1, <1>5, <2>1
  <2>3. Read(env.gateMinN, DefaultGate.minN) \in Nat
    BY <1>1, <1>5, <2>1
  <2>4. Read(env.gateCeiling, DefaultGate.ceiling) \in Float \cup {Uncapped}
    <3>1. Float \subseteq Float \cup {Uncapped}
      OBVIOUS
    <3>2. QED
      BY <1>1, <1>5, <2>1, <3>1
  <2>5. QED
    BY <2>2, <2>3, <2>4 DEF OverriddenGate, ConfiguredGate
<1>7. GateFrom(env) \in ConfiguredGate /\ GateValid(GateFrom(env))
  BY <1>2, <1>6 DEF GateFrom
<1>8. QED
  BY <1>1, <1>2, <1>3, <1>4, <1>7

(* pricing.rs: a job costs nothing exactly if its weight is nothing. *)
LEMMA OnlyTheTickIsFree ==
  ASSUME NEW config, config.price \in 1..MaxWei, NEW job \in Jobs
  PROVE  JobPrice(config, job) = 0 <=> job = "TICK"
<1>1. JobWeight(job) \in {0, 5, 20, 50, 100} /\ (JobWeight(job) = 0 <=> job = "TICK")
  BY DEF JobWeight, Jobs
<1>2. config.price \in Nat /\ config.price > 0 /\ MaxWei \in Nat /\ MaxWei > 0
  BY MaxWeiAssumption
<1>. DEFINE price == config.price
            weight == JobWeight(job)
<1>3. price * weight \in Nat /\ (price * weight = 0 <=> weight = 0)
  BY <1>1, <1>2
<1>. HIDE DEF price, weight
<1>4. SaturatingMul(price, weight) = 0 <=> weight = 0
  BY <1>2, <1>3 DEF SaturatingMul
<1>5. QED
  BY <1>1, <1>4 DEF JobPrice, price, weight

(* What an answer rests on. *)
ServiceInv ==
  /\ environment \in Environments
  /\ stage = "started" => answer = Silent
  /\ payload # <<>> => payload = PayloadOf(environment)
  /\ stage = "serving" \/ answer # Silent => economics = ConfigFrom(environment)
  /\ answer.job = "REPORT_SCORE" /\ answer.clears =>
       /\ answer # Silent
       /\ answer.report \in Reports
       /\ ReportClears(environment, answer.report)

LEMMA ServiceStep == ServiceInv /\ [ServiceNext]_serviceVars => ServiceInv'
<1>. SUFFICES ASSUME ServiceInv, [ServiceNext]_serviceVars
              PROVE  ServiceInv'
  OBVIOUS
<1>. USE DEF ServiceInv
<1>1. CASE Register
  BY <1>1 DEF Register, Silent
<1>2. CASE Serve
  BY <1>2 DEF Serve, Silent
<1>3. CASE Stop
  BY <1>3 DEF Stop
<1>4. ASSUME NEW report \in Reports, ReportScore(report)
      PROVE  ServiceInv'
  BY <1>4 DEF ReportScore, Silent
<1>5. ASSUME NEW structure, NEW cadence, CreateCompetition(structure, cadence)
      PROVE  ServiceInv'
  BY <1>5 DEF CreateCompetition, Silent
<1>6. ASSUME NEW job \in Jobs \ {"REPORT_SCORE", "CREATE_COMPETITION"}, Acknowledge(job)
      PROVE  ServiceInv'
  BY <1>6 DEF Acknowledge, Silent
<1>7. CASE UNCHANGED serviceVars
  BY <1>7 DEF serviceVars
<1>8. QED
  BY <1>1, <1>2, <1>3, <1>4, <1>5, <1>6, <1>7 DEF ServiceNext

LEMMA ServiceStarts == ServiceInit => ServiceInv
BY DEF ServiceInit, ServiceInv, Silent

(* EconomicConfig::from_env: whatever the environment, what is loaded from it
   passes the check main makes, and no job but the tick is free. *)
THEOREM LoadedIsRunnable == ServiceSpec => []LoadedConfigIsRunnable
<1>1. ServiceInv => LoadedConfigIsRunnable
  <2>. SUFFICES ASSUME environment \in Environments PROVE LoadedConfigIsRunnable
    BY DEF ServiceInv
  <2>. DEFINE config == ConfigFrom(environment)
  <2>1. /\ config.gate = GateFrom(environment) /\ config.split = FeeSplitFrom(environment)
        /\ config.floor = NonZero(environment.floor, DefaultFloor)
        /\ config.price = NonZero(environment.price, DefaultPrice)
    BY DEF ConfigFrom
  <2>. HIDE DEF config
  <2>2. config.price \in 1..MaxWei /\ config.floor \in 1..MaxWei /\ MaxWei \in Nat
    BY <2>1, LoadedTypes, MaxWeiAssumption
  <2>3. ConfigValid(config)
    BY <2>1, <2>2, LoadedTypes DEF ConfigValid
  <2>4. \A job \in Jobs : JobPrice(config, job) = 0 <=> job = "TICK"
    BY <2>2, OnlyTheTickIsFree
  <2>5. QED
    BY <2>3, <2>4 DEF LoadedConfigIsRunnable, config
<1>2. QED
  BY <1>1, ServiceStarts, ServiceStep, PTL DEF ServiceSpec

(* report_score: no environment and no report make a win of no episodes or of
   a figure that is no number, and the gate that decides is the one checked
   at the start. *)
THEOREM NoWinIsEmpty == ServiceSpec => []NoEmptyWin
<1>1. ServiceInv => NoEmptyWin
  <2>. SUFFICES ASSUME ServiceInv, answer.job = "REPORT_SCORE", answer.clears
                PROVE  /\ answer.report.n >= 1
                       /\ Figure(answer.report.delta).finite /\ Figure(answer.report.lower).finite
                       /\ Figure(answer.report.lower).v >= 0
                       /\ answer.report.n >= economics.gate.minN
    BY DEF NoEmptyWin
  <2>. DEFINE report == answer.report
              gate == GateFrom(environment)
  <2>1. /\ report \in Reports /\ ReportClears(environment, report)
        /\ economics.gate = gate
    BY DEF ServiceInv, ConfigFrom
  <2>2. report.n \in Nat /\ report.lower \in Float \cup Absent
    BY <2>1, ServiceAssumption
  <2>3. Figure(report.lower).v \in Int
    BY <2>2 DEF Figure, Read, IsSet, Absent, Number, Float
  <2>4. /\ gate.minN \in Nat /\ gate.minN > 0
        /\ gate.minLower.v \in Int /\ gate.minLower.v >= 0
    BY LoadedTypes DEF ServiceInv, ConfiguredGate, GateValid, Float
  <2>. HIDE DEF report, gate
  <2>5. /\ Figure(report.delta).finite /\ Figure(report.lower).finite
        /\ report.n >= gate.minN
        /\ Figure(report.lower).v >= gate.minLower.v
    BY <2>1 DEF ReportClears, Reported, Decided, Clears, gate
  <2>6. report.n >= 1 /\ Figure(report.lower).v >= 0
    BY <2>2, <2>3, <2>4, <2>5
  <2>7. QED
    BY <2>1, <2>5, <2>6 DEF report
<1>2. QED
  BY <1>1, ServiceStarts, ServiceStep, PTL DEF ServiceSpec

-----------------------------------------------------------------------------
(* 3. The registration payload: what the manager reads, field by field. *)
IsReading(read, bytes) ==
  /\ ReadForward(bytes) = read[Len(bytes)].fields
  /\ read[0] = [at |-> 1, fields |-> <<>>]
  /\ \A i \in 1..Len(bytes) : read[i] = NextField(read[i - 1], bytes)

LEMMA ReadSteps ==
  ASSUME NEW bytes, Len(bytes) \in Nat
  PROVE  \E read : IsReading(read, bytes)
<1> DEFINE n == Len(bytes)
           start == [at |-> 1, fields |-> <<>>]
           read == CHOOSE g : g = [i \in 0..n |->
                     IF i = 0 THEN start ELSE NextField(g[i - 1], bytes)]
<1>1. FiniteNatInductiveDefHypothesis(read, start, LAMBDA so, i : NextField(so, bytes), 0, n)
  BY DEF FiniteNatInductiveDefHypothesis
<1>2. FiniteNatInductiveDefConclusion(read, start, LAMBDA so, i : NextField(so, bytes), 0, n)
  BY <1>1, FiniteNatInductiveDef
<1>3. read = [i \in 0..n |-> IF i = 0 THEN start ELSE NextField(read[i - 1], bytes)]
  BY <1>2 DEF FiniteNatInductiveDefConclusion
<1>4. ReadForward(bytes) = read[n].fields
  BY DEF ReadForward
<1>5. n \in Nat
  OBVIOUS
<1> HIDE DEF read, start, n
<1>6. read[0] = start
  BY <1>3, <1>5
<1>7. ASSUME NEW i \in 1..n PROVE read[i] = NextField(read[i - 1], bytes)
  <2>1. i \in 0..n /\ i # 0
    BY <1>5
  <2>2. QED
    BY <1>3, <2>1
<1>8. QED
  BY <1>4, <1>6, <1>7 DEF n, start, IsReading

(* Whoever has read to the end has read all. *)
LEMMA ReadToTheEnd ==
  ASSUME NEW bytes, Len(bytes) \in Nat, NEW read, IsReading(read, bytes),
         NEW k \in 0..Len(bytes), read[k].at > Len(bytes)
  PROVE  ReadForward(bytes) = read[k].fields
<1> DEFINE n == Len(bytes)
           good == {i \in Nat : k + i <= n => read[k + i] = read[k]}
<1>1. 0 \in good
  OBVIOUS
<1>2. ASSUME NEW i \in Nat, i \in good PROVE i + 1 \in good
  <2>1. SUFFICES ASSUME k + (i + 1) <= n PROVE read[k + (i + 1)] = read[k]
    OBVIOUS
  <2>2. k + (i + 1) \in 1..n /\ k + (i + 1) - 1 = k + i /\ k + i <= n
    BY <2>1
  <2>3. read[k + (i + 1)] = NextField(read[k], bytes)
    BY <1>2, <2>2 DEF IsReading
  <2>4. QED
    BY <2>3 DEF NextField
<1> HIDE DEF good
<1>3. Nat \subseteq good
  BY <1>1, <1>2, Induction
<1>4. n - k \in Nat /\ k + (n - k) = n
  OBVIOUS
<1>5. read[n] = read[k]
  <2>1. n - k \in good
    BY <1>3, <1>4
  <2>2. k + (n - k) <= n => read[k + (n - k)] = read[k]
    BY <2>1 DEF good
  <2>3. n \in Nat
    OBVIOUS
  <2> HIDE DEF n
  <2>4. QED
    BY <1>4, <2>2, <2>3
<1>6. QED
  BY <1>5 DEF IsReading

(* The bytes of a field that may be absent, and what reading them adds. *)
Chunk(type, value) == IF value = <<>> THEN <<>> ELSE WriteTlv(type, value)

With(fields, type, value) ==
  IF value = <<>> THEN fields ELSE Append(fields, [type |-> type, value |-> value])

(* Where a sequence stands in a longer one. *)
LEMMA Within ==
  ASSUME NEW S, NEW pre \in Seq(S), NEW mid \in Seq(S), NEW post \in Seq(S)
  PROVE  /\ pre \o mid \in Seq(S) /\ Len(pre \o mid) = Len(pre) + Len(mid)
         /\ (pre \o mid) \o post \in Seq(S)
         /\ Len((pre \o mid) \o post) = Len(pre) + Len(mid) + Len(post)
         /\ \A i \in 1..Len(mid) : ((pre \o mid) \o post)[Len(pre) + i] = mid[i]
<1> DEFINE ahead == pre \o mid
           all == ahead \o post
<1>1. Len(pre) \in Nat /\ Len(mid) \in Nat /\ Len(post) \in Nat
  BY LenProperties
<1>2. /\ ahead \in Seq(S) /\ Len(ahead) = Len(pre) + Len(mid)
      /\ \A i \in 1..Len(pre) + Len(mid) :
           ahead[i] = IF i <= Len(pre) THEN pre[i] ELSE mid[i - Len(pre)]
  BY ConcatProperties
<1> HIDE DEF ahead
<1>3. /\ all \in Seq(S) /\ Len(all) = Len(ahead) + Len(post)
      /\ \A i \in 1..Len(ahead) + Len(post) :
           all[i] = IF i <= Len(ahead) THEN ahead[i] ELSE post[i - Len(ahead)]
  <2>1. ahead \in Seq(S)
    BY <1>2
  <2>2. QED
    BY ONLY <2>1, post \in Seq(S), ConcatProperties
<1> HIDE DEF all
<1>4. ASSUME NEW i \in 1..Len(mid) PROVE all[Len(pre) + i] = mid[i]
  <2>1. /\ Len(pre) + i \in 1..Len(pre) + Len(mid) /\ ~(Len(pre) + i <= Len(pre))
        /\ Len(pre) + i - Len(pre) = i
        /\ Len(pre) + i \in 1..Len(ahead) + Len(post) /\ Len(pre) + i <= Len(ahead)
    BY <1>1, <1>2
  <2>2. all[Len(pre) + i] = ahead[Len(pre) + i]
    BY <1>3, <2>1
  <2>3. ahead[Len(pre) + i] = mid[Len(pre) + i - Len(pre)]
    BY <1>2, <2>1
  <2>4. QED
    BY <2>1, <2>2, <2>3
<1>5. QED
  BY <1>2, <1>3, <1>4 DEF all, ahead

LEMMA TlvBytes ==
  ASSUME NEW type \in Nat, NEW value \in Seq(Nat), Len(value) <= LenLimit
  PROVE  /\ WriteTlv(type, value) \in Seq(Nat)
         /\ Len(WriteTlv(type, value)) = Len(value) + 2
         /\ WriteTlv(type, value)[1] = type /\ WriteTlv(type, value)[2] = Len(value)
         /\ \A i \in 1..Len(value) : WriteTlv(type, value)[2 + i] = value[i]
<1> DEFINE v == Len(value)
           head == <<type, v>>
           tlv == head \o value
<1>1. v \in Nat
  BY LenProperties
<1>2. head \in Seq(Nat) /\ Len(head) = 2 /\ head[1] = type /\ head[2] = v
  BY <1>1
<1>3. WriteTlv(type, value) = tlv
  BY <1>1, ServiceAssumption DEF WriteTlv
<1> HIDE DEF head
<1>4. /\ tlv \in Seq(Nat) /\ Len(tlv) = 2 + v
      /\ \A i \in 1..2 + v : tlv[i] = IF i <= 2 THEN head[i] ELSE value[i - 2]
  <2>1. head \in Seq(Nat)
    BY <1>2
  <2>2. /\ tlv \in Seq(Nat) /\ Len(tlv) = Len(head) + Len(value)
        /\ \A i \in 1..Len(head) + Len(value) :
             tlv[i] = IF i <= Len(head) THEN head[i] ELSE value[i - Len(head)]
    BY ONLY <2>1, value \in Seq(Nat), ConcatProperties
  <2>3. Len(head) = 2
    BY <1>2
  <2> HIDE DEF tlv
  <2>4. QED
    BY ONLY <2>2, <2>3
<1> HIDE DEF tlv, v
<1>5. tlv[1] = type /\ tlv[2] = v
  <2>1. 1 \in 1..2 + v /\ 2 \in 1..2 + v /\ 1 <= 2 /\ 2 <= 2
    BY <1>1
  <2>2. QED
    BY <1>2, <1>4, <2>1
<1>6. ASSUME NEW i \in 1..v PROVE tlv[2 + i] = value[i]
  <2>1. 2 + i \in 1..2 + v /\ ~(2 + i <= 2) /\ 2 + i - 2 = i
    BY <1>1
  <2>2. QED
    BY <1>4, <2>1
<1>7. Len(tlv) = v + 2
  BY <1>1, <1>4
<1>8. QED
  BY <1>3, <1>4, <1>5, <1>6, <1>7 DEF v

(* A field between what comes before and after it is read as it was written. *)
Reads(pre, type, value, post, fields) ==
  NextField([at |-> Len(pre) + 1, fields |-> fields], (pre \o WriteTlv(type, value)) \o post)
    = [at |-> Len(pre) + Len(value) + 3,
       fields |-> Append(fields, [type |-> type, value |-> value])]

LEMMA FieldIsRead ==
  ASSUME NEW pre \in Seq(Nat), NEW post \in Seq(Nat), NEW value \in Seq(Nat),
         Len(value) <= LenLimit, NEW type \in Nat, NEW fields
  PROVE  Reads(pre, type, value, post, fields)
<1> DEFINE p == Len(pre)
           v == Len(value)
           q == Len(post)
           tlv == WriteTlv(type, value)
           bytes == (pre \o tlv) \o post
<1>1. p \in Nat /\ v \in Nat /\ q \in Nat
  BY LenProperties
<1>2. /\ tlv \in Seq(Nat) /\ Len(tlv) = v + 2 /\ tlv[1] = type /\ tlv[2] = v
      /\ \A i \in 1..v : tlv[2 + i] = value[i]
  BY TlvBytes
<1> HIDE DEF tlv
<1>3. /\ bytes \in Seq(Nat) /\ Len(bytes) = p + Len(tlv) + q
      /\ \A i \in 1..Len(tlv) : bytes[p + i] = tlv[i]
  <2>1. tlv \in Seq(Nat)
    BY <1>2
  <2>2. QED
    BY ONLY <2>1, pre \in Seq(Nat), post \in Seq(Nat), Within
<1> HIDE DEF bytes, p, v, q
<1>4. /\ Len(bytes) = p + v + 2 + q
      /\ bytes[p + 1] = type /\ bytes[p + 2] = v
  <2>1. 1 \in 1..Len(tlv) /\ 2 \in 1..Len(tlv)
    BY <1>1, <1>2
  <2>2. Len(bytes) = p + v + 2 + q
    BY <1>1, <1>2, <1>3
  <2>3. QED
    BY <1>2, <1>3, <2>1, <2>2
<1>5. ASSUME NEW i \in 1..v PROVE bytes[p + 2 + i] = value[i]
  <2>1. 2 + i \in 1..Len(tlv) /\ p + (2 + i) = p + 2 + i
    BY <1>1, <1>2
  <2>2. QED
    BY <1>2, <1>3, <2>1
<1> DEFINE m == p + 3
           last == p + 2 + v
           read == SubSeq(bytes, m, last)
<1>6. read = value
  <2>1. m \in Int /\ last \in Int /\ last - m + 1 = v /\ (m <= last <=> v # 0)
    BY <1>1
  <2>2. ASSUME NEW i \in m..last PROVE bytes[i] \in Nat
    <3>1. i \in 1..Len(bytes)
      BY <1>1, <1>4
    <3>2. QED
      BY <1>3, <3>1, ElementOfSeq
  <2>3. ASSUME NEW i \in 1..v PROVE m + i - 1 = p + 2 + i
    BY <1>1
  <2> HIDE DEF m, last
  <2>4. /\ read \in Seq(Nat)
        /\ Len(read) = IF m <= last THEN last - m + 1 ELSE 0
        /\ \A i \in 1..last - m + 1 : read[i] = bytes[m + i - 1]
    BY <2>1, <2>2, SubSeqProperties
  <2> HIDE DEF read
  <2>5. Len(read) = v
    BY <1>1, <2>1, <2>4
  <2>6. \A i \in 1..v : read[i] = value[i]
    BY <1>5, <2>1, <2>3, <2>4
  <2>7. QED
    BY <2>4, <2>5, <2>6, SeqEqual DEF v
<1>7. /\ ~(p + 1 > Len(bytes)) /\ p + 1 + 1 = p + 2 /\ p + 1 + 2 = m
      /\ p + 1 + 1 + v = last /\ p + 1 + 1 + v + 1 = p + v + 3
  BY <1>1, <1>4
<1> HIDE DEF m, last
<1>8. NextField([at |-> p + 1, fields |-> fields], bytes)
        = [at |-> p + 1 + 1 + bytes[p + 1 + 1] + 1,
           fields |-> Append(fields, [type |-> bytes[p + 1],
                       value |-> SubSeq(bytes, p + 1 + 2, p + 1 + 1 + bytes[p + 1 + 1])])]
  BY <1>7 DEF NextField
<1>9. NextField([at |-> p + 1, fields |-> fields], bytes)
        = [at |-> p + v + 3, fields |-> Append(fields, [type |-> type, value |-> read])]
  BY <1>4, <1>7, <1>8
<1> HIDE DEF read
<1>10. QED
  BY <1>6, <1>9 DEF p, v, bytes, tlv, Reads

(* A reading that has come to the end of these bytes with these fields. *)
ReadUpTo(read, bytes, ahead, fields) ==
  /\ IsReading(read, bytes)
  /\ \E j \in 0..Len(ahead) : read[j] = [at |-> Len(ahead) + 1, fields |-> fields]

LEMMA ChunkBytes ==
  ASSUME NEW type \in Nat, NEW value \in Seq(Nat), Len(value) <= LenLimit
  PROVE  Chunk(type, value) \in Seq(Nat)
BY TlvBytes DEF Chunk

LEMMA ChunkIsRead ==
  ASSUME NEW pre \in Seq(Nat), NEW post \in Seq(Nat), NEW value \in Seq(Nat),
         Len(value) <= LenLimit, NEW type \in Nat, NEW fields, NEW read,
         ReadUpTo(read, (pre \o Chunk(type, value)) \o post, pre, fields)
  PROVE  ReadUpTo(read, (pre \o Chunk(type, value)) \o post,
                  pre \o Chunk(type, value), With(fields, type, value))
<1>1. CASE value = <<>>
  <2>1. pre \o Chunk(type, value) = pre /\ With(fields, type, value) = fields
    BY <1>1, ConcatEmptySeq DEF Chunk, With
  <2>2. QED
    BY <2>1
<1>2. CASE value # <<>>
  <2> DEFINE tlv == WriteTlv(type, value)
             ahead == pre \o tlv
             bytes == ahead \o post
             more == Append(fields, [type |-> type, value |-> value])
  <2>1. Chunk(type, value) = tlv /\ With(fields, type, value) = more
    BY <1>2 DEF Chunk, With
  <2>2. PICK k \in 0..Len(pre) : read[k] = [at |-> Len(pre) + 1, fields |-> fields]
    BY DEF ReadUpTo
  <2>3. IsReading(read, bytes)
    BY <2>1 DEF ReadUpTo
  <2>4. NextField([at |-> Len(pre) + 1, fields |-> fields], bytes)
          = [at |-> Len(pre) + Len(value) + 3, fields |-> more]
    <3>1. Reads(pre, type, value, post, fields)
      BY ONLY FieldIsRead, pre \in Seq(Nat), post \in Seq(Nat), value \in Seq(Nat),
              Len(value) <= LenLimit, type \in Nat
    <3>2. QED
      BY <3>1 DEF Reads
  <2>5. tlv \in Seq(Nat) /\ Len(tlv) = Len(value) + 2
    BY TlvBytes
  <2> HIDE DEF tlv
  <2>6. /\ Len(ahead) = Len(pre) + Len(tlv)
        /\ Len(bytes) = Len(pre) + Len(tlv) + Len(post)
    <3>1. tlv \in Seq(Nat)
      BY <2>5
    <3>2. QED
      BY ONLY <3>1, pre \in Seq(Nat), post \in Seq(Nat), Within
  <2>7. Len(pre) \in Nat /\ Len(value) \in Nat /\ Len(post) \in Nat
    BY LenProperties
  <2> HIDE DEF bytes, ahead, more
  <2>8. /\ k + 1 \in 1..Len(bytes) /\ k + 1 - 1 = k /\ k + 1 \in 0..Len(ahead)
        /\ Len(pre) + Len(value) + 3 = Len(ahead) + 1
    BY <2>5, <2>6, <2>7
  <2>9. read[k + 1] = NextField(read[k + 1 - 1], bytes)
    BY <2>3, <2>8 DEF IsReading
  <2>10. read[k + 1] = [at |-> Len(ahead) + 1, fields |-> more]
    BY <2>2, <2>4, <2>8, <2>9
  <2>11. ReadUpTo(read, bytes, ahead, more)
    BY <2>3, <2>8, <2>10 DEF ReadUpTo
  <2>12. QED
    BY <2>1, <2>11 DEF bytes, ahead
<1>3. QED
  BY <1>1, <1>2

(* Three pieces in a row, however they are grouped. *)
InARow(a, b, c) ==
  /\ a \o b \in Seq(Nat) /\ b \o c \in Seq(Nat) /\ (a \o b) \o c \in Seq(Nat)
  /\ (a \o b) \o c = (<<>> \o a) \o (b \o c) /\ <<>> \o a = a
  /\ (a \o b) \o c = ((a \o b) \o c) \o <<>>

LEMMA Regroup ==
  ASSUME NEW a \in Seq(Nat), NEW b \in Seq(Nat), NEW c \in Seq(Nat)
  PROVE  InARow(a, b, c)
<1>1. a \o b \in Seq(Nat) /\ b \o c \in Seq(Nat)
  BY ConcatProperties
<1>2. (a \o b) \o c \in Seq(Nat)
  BY <1>1, ConcatProperties
<1>3. (a \o b) \o c = a \o (b \o c)
  BY ConcatAssociative
<1>4. <<>> \o a = a /\ ((a \o b) \o c) \o <<>> = (a \o b) \o c
  BY <1>2, ConcatEmptySeq
<1>5. QED
  BY <1>1, <1>2, <1>3, <1>4 DEF InARow

LEMMA PayloadIsRead ==
  ASSUME NEW capacity \in Seq(Nat), NEW endpoint \in Seq(Nat), NEW scorers \in Seq(Nat),
         capacity # <<>>, Len(capacity) <= LenLimit,
         Len(endpoint) <= LenLimit, Len(scorers) <= LenLimit
  PROVE  ReadForward(RegistrationPayload(capacity, endpoint, scorers))
           = With(With(<<[type |-> 1, value |-> capacity]>>, 2, endpoint), 3, scorers)
<1> DEFINE none == <<>>
           a == Chunk(1, capacity)
           b == Chunk(2, endpoint)
           c == Chunk(3, scorers)
           bytes == (a \o b) \o c
           first == With(none, 1, capacity)
           second == With(first, 2, endpoint)
           third == With(second, 3, scorers)
<1>1. RegistrationPayload(capacity, endpoint, scorers) = bytes
  BY DEF RegistrationPayload, Chunk
<1>2. a \in Seq(Nat) /\ b \in Seq(Nat) /\ c \in Seq(Nat)
  BY ChunkBytes
<1>3. none \in Seq(Nat) /\ Len(none) = 0
  BY EmptySeq
<1>4. first = <<[type |-> 1, value |-> capacity]>>
  BY DEF With
<1> HIDE DEF none, first, second, third
<1>5. /\ bytes \in Seq(Nat) /\ a \o b \in Seq(Nat)
      /\ bytes = (none \o a) \o (b \o c) /\ none \o a = a /\ b \o c \in Seq(Nat)
      /\ bytes = bytes \o none
  <2> HIDE DEF a, b, c
  <2>1. InARow(a, b, c)
    BY ONLY <1>2, Regroup
  <2>2. QED
    BY <2>1 DEF InARow, none
<1> HIDE DEF bytes
<1>6. Len(bytes) \in Nat
  BY <1>5, LenProperties
<1>7. PICK read : IsReading(read, bytes)
  BY <1>6, ReadSteps
<1>8. ReadUpTo(read, bytes, none, none)
  <2>1. 0 \in 0..Len(none) /\ read[0] = [at |-> Len(none) + 1, fields |-> none]
    BY <1>3, <1>7 DEF IsReading, none
  <2>2. QED
    BY <1>7, <2>1 DEF ReadUpTo
<1>9. ReadUpTo(read, bytes, a, first)
  <2> DEFINE post == b \o c
  <2>1. post \in Seq(Nat) /\ bytes = (none \o a) \o post
    BY <1>5
  <2> HIDE DEF post
  <2>2. ReadUpTo(read, (none \o Chunk(1, capacity)) \o post, none, none)
    BY <1>8, <2>1
  <2>3. 1 \in Nat
    OBVIOUS
  <2>4. ReadUpTo(read, (none \o Chunk(1, capacity)) \o post,
                 none \o Chunk(1, capacity), With(none, 1, capacity))
    BY ONLY ChunkIsRead, <1>3, <2>1, <2>2, <2>3, capacity \in Seq(Nat), Len(capacity) <= LenLimit
  <2>5. QED
    BY <1>5, <2>1, <2>4 DEF first
<1>10. ReadUpTo(read, bytes, a \o b, second)
  <2>1. ReadUpTo(read, (a \o Chunk(2, endpoint)) \o c, a, first)
    BY <1>9 DEF bytes
  <2>2. 2 \in Nat
    OBVIOUS
  <2> HIDE DEF a, c
  <2>3. ReadUpTo(read, (a \o Chunk(2, endpoint)) \o c,
                 a \o Chunk(2, endpoint), With(first, 2, endpoint))
    BY ONLY ChunkIsRead, <1>2, <2>1, <2>2, endpoint \in Seq(Nat), Len(endpoint) <= LenLimit
  <2>4. QED
    BY <2>3 DEF bytes, second
<1>11. ReadUpTo(read, bytes, (a \o b) \o c, third)
  <2> DEFINE pre == a \o b
  <2>1. ReadUpTo(read, (pre \o Chunk(3, scorers)) \o none, pre, second)
    BY <1>5, <1>10 DEF bytes
  <2>2. 3 \in Nat /\ pre \in Seq(Nat)
    BY <1>5
  <2> HIDE DEF pre
  <2>3. ReadUpTo(read, (pre \o Chunk(3, scorers)) \o none,
                 pre \o Chunk(3, scorers), With(second, 3, scorers))
    BY ONLY ChunkIsRead, <1>3, <2>1, <2>2, scorers \in Seq(Nat), Len(scorers) <= LenLimit
  <2>4. QED
    BY <1>5, <2>3 DEF bytes, pre, third
<1>12. PICK k \in 0..Len(bytes) : read[k] = [at |-> Len(bytes) + 1, fields |-> third]
  BY <1>11 DEF ReadUpTo, bytes
<1>13. read[k].at > Len(bytes) /\ read[k].fields = third
  BY <1>6, <1>12
<1>14. ReadForward(bytes) = third
  BY <1>6, <1>7, <1>13, ReadToTheEnd
<1>15. QED
  BY <1>1, <1>4, <1>14 DEF second, third

(* An absent field adds nothing, one that is there comes last. *)
Fields == Seq([type : Nat, value : Seq(Nat)])

Extends(more, fields, type, value) ==
  /\ more \in Fields
  /\ Len(more) = Len(fields) + (IF value = <<>> THEN 0 ELSE 1)
  /\ \A i \in 1..Len(fields) : more[i] = fields[i]
  /\ \A i \in 1..Len(more) :
       i \notin 1..Len(fields) => value # <<>> /\ more[i] = [type |-> type, value |-> value]

LEMMA WithExtends ==
  ASSUME NEW fields \in Fields, NEW type \in Nat, NEW value \in Seq(Nat)
  PROVE  Extends(With(fields, type, value), fields, type, value)
<1> DEFINE new == [type |-> type, value |-> value]
<1>1. Len(fields) \in Nat /\ new \in [type : Nat, value : Seq(Nat)]
  BY LenProperties DEF Fields
<1>2. CASE value = <<>>
  BY <1>1, <1>2 DEF With, Extends
<1>3. CASE value # <<>>
  <2> HIDE DEF new
  <2>1. /\ Append(fields, new) \in Fields
        /\ Len(Append(fields, new)) = Len(fields) + 1
        /\ \A i \in 1..Len(fields) : Append(fields, new)[i] = fields[i]
        /\ Append(fields, new)[Len(fields) + 1] = new
    BY <1>1, AppendProperties DEF Fields
  <2>2. With(fields, type, value) = Append(fields, new)
    BY <1>3 DEF With, new
  <2>3. \A i \in 1..(Len(fields) + 1) : i \notin 1..Len(fields) => i = Len(fields) + 1
    BY <1>1
  <2>4. QED
    BY <1>3, <2>1, <2>2, <2>3 DEF Extends, new
<1>4. QED
  BY <1>2, <1>3

(* What the environment is, as bytes that a field can hold. *)
LEMMA EnvironmentBytes ==
  ASSUME NEW env \in Environments
  PROVE  /\ env.endpoint \in Seq(Nat) /\ env.scorers \in Seq(Nat)
         /\ Read(env.capacity, <<0, 0, 0, 8>>) \in Seq(Nat)
         /\ Len(Read(env.capacity, <<0, 0, 0, 8>>)) = 4
<1> DEFINE capacity == Read(env.capacity, <<0, 0, 0, 8>>)
<1>1. env.endpoint \in Seq(Byte) /\ env.scorers \in Seq(Byte)
  BY ServiceAssumption
<1>2. Byte \subseteq Nat
  BY DEF Byte
<1>3. env.endpoint \in Seq(Nat) /\ env.scorers \in Seq(Nat)
  BY <1>1, <1>2, SeqMonotonic
<1>4. env.capacity \in [1..4 -> Byte] \cup Absent
  BY ServiceAssumption
<1>5. <<0, 0, 0, 8>> \in [1..4 -> Byte]
  BY DEF Byte
<1>6. capacity \in [1..4 -> Byte]
  BY <1>4, <1>5 DEF Read, IsSet, Absent
<1> HIDE DEF capacity
<1>7. capacity \in [1..4 -> Nat]
  BY <1>2, <1>6
<1>8. capacity \in Seq(Nat) /\ Len(capacity) = 4
  <2>1. capacity \in Seq(Nat)
    BY <1>7, SeqDef
  <2>2. DOMAIN capacity = 1..Len(capacity) /\ DOMAIN capacity = 1..4 /\ Len(capacity) \in Nat
    BY <1>7, <2>1, LenProperties
  <2>3. QED
    <3>1. Len(capacity) \in 1..4 \/ Len(capacity) = 0
      <4>1. Len(capacity) \in 1..Len(capacity) \/ Len(capacity) = 0
        BY <2>2
      <4>2. 1..Len(capacity) = 1..4
        BY <2>2
      <4>3. QED
        BY ONLY <4>1, <4>2
    <3>2. 4 \in 1..Len(capacity)
      BY <2>2
    <3>3. QED
      BY <2>1, <2>2, <3>1, <3>2
<1>9. QED
  BY <1>3, <1>8 DEF capacity

(* competitions_registration_payload: the manager that reads the payload forward
   by its lengths gets the fields that were meant, whichever of them are there
   and however long, up to what a length can announce. *)
THEOREM PayloadIsReadBack == ServiceSpec => []PayloadReadsBack
<1>1. ServiceInv => PayloadReadsBack
  <2> SUFFICES ASSUME ServiceInv, payload # <<>>,
                      Len(environment.endpoint) <= LenLimit,
                      Len(environment.scorers) <= LenLimit
               PROVE  PayloadReadsBack
    BY DEF PayloadReadsBack
  <2> DEFINE capacity == Read(environment.capacity, <<0, 0, 0, 8>>)
             endpoint == environment.endpoint
             scorers == environment.scorers
             first == <<[type |-> 1, value |-> capacity]>>
             second == With(first, 2, endpoint)
             third == With(second, 3, scorers)
  <2>1. /\ endpoint \in Seq(Nat) /\ scorers \in Seq(Nat)
        /\ capacity \in Seq(Nat) /\ Len(capacity) = 4
    BY EnvironmentBytes DEF ServiceInv
  <2>2. payload = RegistrationPayload(capacity, endpoint, scorers)
    BY DEF ServiceInv, PayloadOf
  <2> HIDE DEF capacity
  <2>3. capacity # <<>> /\ Len(capacity) <= LenLimit
    <3>1. Len(<<>>) = 0 /\ Len(capacity) = 4
      BY <2>1, EmptySeq
    <3>2. LenLimit \in Nat /\ LenLimit >= 4
      BY ServiceAssumption
    <3>3. QED
      BY ONLY <3>1, <3>2
  <2>4. first \in Fields /\ Len(first) = 1 /\ first[1] = [type |-> 1, value |-> capacity]
    BY <2>1 DEF Fields
  <2> HIDE DEF endpoint, scorers
  <2>5. Len(endpoint) <= LenLimit /\ Len(scorers) <= LenLimit
    BY DEF endpoint, scorers
  <2>6. ReadForward(payload) = third
    BY <2>1, <2>2, <2>3, <2>5, PayloadIsRead
  <2> HIDE DEF first
  <2>7. Extends(second, first, 2, endpoint)
    BY <2>1, <2>4, WithExtends
  <2> HIDE DEF second
  <2>8. Extends(third, second, 3, scorers)
    <3>1. second \in Fields
      BY <2>7 DEF Extends
    <3>2. QED
      BY <2>1, <3>1, WithExtends
  <2> HIDE DEF third
  <2>9. /\ Len(second) = 1 + (IF endpoint = <<>> THEN 0 ELSE 1)
        /\ Len(third) = 1 + (IF endpoint = <<>> THEN 0 ELSE 1) + (IF scorers = <<>> THEN 0 ELSE 1)
    BY <2>4, <2>7, <2>8 DEF Extends
  <2>10. 1 \in 1..Len(third) /\ third[1] = [type |-> 1, value |-> capacity]
    <3>1. 1 \in 1..Len(first) /\ 1 \in 1..Len(second) /\ 1 \in 1..Len(third)
      BY <2>4, <2>9
    <3>2. QED
      BY <2>4, <2>7, <2>8, <3>1 DEF Extends
  <2>11. ASSUME NEW i \in 1..Len(third)
         PROVE  /\ third[i].type = 2 => third[i].value = endpoint /\ endpoint # <<>>
                /\ third[i].type = 3 => third[i].value = scorers /\ scorers # <<>>
    <3>1. CASE i \notin 1..Len(second)
      BY <2>8, <3>1 DEF Extends
    <3>2. CASE i \in 1..Len(second) /\ i \notin 1..Len(first)
      <4>1. third[i] = second[i]
        BY <2>8, <3>2 DEF Extends
      <4>2. endpoint # <<>> /\ second[i] = [type |-> 2, value |-> endpoint]
        BY <2>7, <3>2 DEF Extends
      <4>3. QED
        BY <4>1, <4>2
    <3>3. CASE i \in 1..Len(second) /\ i \in 1..Len(first)
      <4>1. i = 1
        BY <2>4, <3>3
      <4>2. QED
        BY <2>10, <4>1
    <3>4. QED
      BY <3>1, <3>2, <3>3
  <2>12. QED
    <3>1. \E i \in 1..Len(third) : third[i].type = 1 /\ third[i].value = capacity
      BY <2>10
    <3>2. QED
      BY <2>6, <2>9, <2>11, <3>1 DEF PayloadReadsBack, capacity, endpoint, scorers
<1>2. QED
  BY <1>1, ServiceStarts, ServiceStep, PTL DEF ServiceSpec

=============================================================================
