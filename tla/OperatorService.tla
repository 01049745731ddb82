-------------------------- MODULE OperatorService --------------------------
(***************************************************************************)
(* One operator's process (autoresearch-competitions-bin and -lib): what   *)
(* it makes of its environment variables, the payload it registers with,   *)
(* the checks it passes before it serves, and its answers to job calls.    *)
(* A variable is unset, garbled (set, but it does not parse) or a value; a *)
(* float is a value with a flag that tells NaN and the infinities.         *)
(***************************************************************************)
EXTENDS Gates, WeiArithmetic, Sequences

CONSTANTS
  Unset, Garbled,
  LenLimit,        \* u16::MAX, the longest value a TLV field can announce
  DefaultGate,     \* Gate::default()
  DefaultFloor,    \* default min_stake_wei
  DefaultPrice,    \* default base_price_wei
  Environments,    \* bound: the environments a process is started in
  Reports          \* bound: the REPORT_SCORE requests

Roles == {"operator", "referee", "validator"}

(* What a variable or a field parses to as an f64, and what does not parse. *)
Float == [finite : BOOLEAN, v : Int]
Absent == {Unset, Garbled}

Number(v) == [finite |-> TRUE, v |-> v]

Byte == 0..255

(* A Gate as it is configured: its two floats may be anything that parses. *)
ConfiguredGate == [minLower : Float, minN : Nat, ceiling : Float \cup {Uncapped}]

(* validate_gate. *)
GateValid(gate) ==
  /\ gate.minN > 0
  /\ gate.minLower.finite /\ gate.minLower.v >= 0
  /\ gate.ceiling # Uncapped => gate.ceiling.finite

ASSUME ServiceAssumption ==
  /\ Absent \cap (Int \cup Float) = {}
  /\ Uncapped \notin Float
  /\ LenLimit \in Nat /\ LenLimit >= 4
  /\ DefaultGate \in ConfiguredGate /\ GateValid(DefaultGate)
  /\ DefaultFloor \in 1..MaxWei /\ DefaultPrice \in 1..MaxWei
  /\ \A env \in Environments :
       /\ env.split \in [Roles -> (0..255) \cup Absent]
       /\ {env.gateLower, env.gateCeiling} \subseteq Float \cup Absent
       /\ env.gateMinN \in Nat \cup Absent
       /\ {env.floor, env.price} \subseteq (0..MaxWei) \cup Absent
       /\ env.capacity \in [1..4 -> Byte] \cup Absent
       /\ {env.endpoint, env.scorers} \subseteq Seq(Byte)
  /\ Reports \subseteq [delta : Float \cup Absent, lower : Float \cup Absent,
                        n : Nat, cost : Float \cup Absent]

VARIABLES
  environment,  \* the process environment, read again by every report
  stage,        \* of the boot sequence
  economics,    \* the configuration that main checked
  payload,      \* the registration bytes written, if any
  answer        \* the last job's answer

serviceVars == <<environment, stage, economics, payload, answer>>

IsSet(v) == v # Unset /\ v # Garbled

Read(v, default) == IF IsSet(v) THEN v ELSE default

-----------------------------------------------------------------------------
DefaultSplit == [operator |-> 55, referee |-> 30, validator |-> 15]

SplitValid(split) == split["operator"] + split["referee"] + split["validator"] = 100

FeeSplitFrom(env) ==
  LET candidate == [role \in Roles |-> Read(env.split[role], DefaultSplit[role])]
  IN  IF SplitValid(candidate) THEN candidate ELSE DefaultSplit

OverriddenGate(env) ==
  [minLower |-> Read(env.gateLower, DefaultGate.minLower),
   minN |-> Read(env.gateMinN, DefaultGate.minN),
   ceiling |-> Read(env.gateCeiling, DefaultGate.ceiling)]

(* Mutant of GateFrom: the override is taken as it parses. *)
GateAsParsed(env) == OverriddenGate(env)

GateFrom(env) ==
  IF GateValid(OverriddenGate(env)) THEN OverriddenGate(env) ELSE DefaultGate

NonZero(v, default) == IF Read(v, default) = 0 THEN default ELSE Read(v, default)

ConfigFrom(env) ==
  [gate |-> GateFrom(env),
   floor |-> NonZero(env.floor, DefaultFloor),
   price |-> NonZero(env.price, DefaultPrice),
   split |-> FeeSplitFrom(env),
   shape |-> IF env.shape \in {"TerminalPrize", "SnapshotTopK", "RecordBounty"}
             THEN env.shape ELSE "SnapshotTopK"]

ConfigValid(config) ==
  /\ GateValid(config.gate)
  /\ config.floor # 0
  /\ config.price # 0
  /\ SplitValid(config.split)

-----------------------------------------------------------------------------
Jobs == {"CREATE_COMPETITION", "JOIN", "COMMIT_CANDIDATE", "REVEAL_CANDIDATE",
         "REPORT_SCORE", "SETTLE", "CHALLENGE", "TICK"}

JobWeight(job) ==
  CASE job = "CREATE_COMPETITION" -> 100
    [] job \in {"REPORT_SCORE", "SETTLE"} -> 50
    [] job = "CHALLENGE" -> 20
    [] job \in {"JOIN", "COMMIT_CANDIDATE", "REVEAL_CANDIDATE"} -> 5
    [] job = "TICK" -> 0

JobPrice(config, job) == SaturatingMul(config.price, JobWeight(job))

-----------------------------------------------------------------------------
(* A field on the wire: its type, its announced length, its bytes. *)
WriteTlv(type, value) ==
  <<type, IF Len(value) > LenLimit THEN LenLimit ELSE Len(value)>> \o value

(* Mutant of RegistrationPayload: an absent field is announced as empty. *)
PayloadWithBlanks(capacity, endpoint, scorers) ==
  WriteTlv(1, capacity) \o WriteTlv(2, endpoint) \o WriteTlv(3, scorers)

RegistrationPayload(capacity, endpoint, scorers) ==
  WriteTlv(1, capacity)
    \o (IF endpoint = <<>> THEN <<>> ELSE WriteTlv(2, endpoint))
    \o (IF scorers = <<>> THEN <<>> ELSE WriteTlv(3, scorers))

(* Eight competitions at a time unless the operator says otherwise; a capacity
   is four bytes. *)
PayloadOf(env) ==
  RegistrationPayload(Read(env.capacity, <<0, 0, 0, 8>>), env.endpoint, env.scorers)

-----------------------------------------------------------------------------
Silent == [job |-> "none", clears |-> FALSE]

ServiceInit ==
  /\ environment \in Environments
  /\ stage = "started"
  /\ economics = Unset
  /\ payload = <<>>
  /\ answer = Silent

Register ==
  /\ stage = "started"
  /\ environment.registering
  /\ payload' = PayloadOf(environment)
  /\ stage' = "registered"
  /\ UNCHANGED <<environment, economics, answer>>

(* With an explicit capacity the payload goes into the runner's own
   registration as well. *)
Serve ==
  /\ stage = "started"
  /\ ~environment.registering
  /\ ConfigValid(ConfigFrom(environment))
  /\ economics' = ConfigFrom(environment)
  /\ payload' = IF IsSet(environment.capacity) THEN PayloadOf(environment) ELSE <<>>
  /\ stage' = "serving"
  /\ UNCHANGED <<environment, answer>>

(* No network, no service id, a nonsensical configuration, a malformed cron
   schedule, a payload that cannot be written, or the runner ends. *)
Stop ==
  /\ stage \in {"started", "serving"}
  /\ stage' = "stopped"
  /\ UNCHANGED <<environment, economics, payload, answer>>

Figure(v) == Read(v, Number(0))

(* A valid gate compares as the numbers its floats hold. *)
Decided(gate) ==
  [minLower |-> gate.minLower.v, minN |-> gate.minN,
   ceiling |-> IF gate.ceiling = Uncapped THEN Uncapped ELSE gate.ceiling.v]

Reported(report) ==
  [finite |-> Figure(report.delta).finite /\ Figure(report.lower).finite,
   delta |-> Figure(report.delta).v, lower |-> Figure(report.lower).v,
   n |-> report.n, cost |-> Figure(report.cost).v, size |-> report.n]

(* Mutant of ReportClears: what is no number is taken for the zero of what
   does not parse. *)
ReportClearsZeroed(env, report) ==
  Clears(Decided(GateFrom(env)), [Reported(report) EXCEPT !.finite = TRUE])

(* The certified lift as the report's strings give it: what does not parse is
   zero. A cost that is no number counts only against a ceiling. *)
ReportClears(env, report) ==
  /\ Clears(Decided(GateFrom(env)), Reported(report))
  /\ GateFrom(env).ceiling # Uncapped => Figure(report.cost).finite

ReportScore(report) ==
  /\ stage = "serving"
  /\ answer' = [job |-> "REPORT_SCORE", clears |-> ReportClears(environment, report),
                report |-> report]
  /\ UNCHANGED <<environment, stage, economics, payload>>

(* Collaborative is one-shot only. *)
CreateCompetition(structure, cadence) ==
  /\ stage = "serving"
  /\ answer' = [job |-> "CREATE_COMPETITION",
                clears |-> ~(structure = "Collaborative" /\ cadence = "Continuous")]
  /\ UNCHANGED <<environment, stage, economics, payload>>

(* The other handlers acknowledge and change nothing; TICK comes from the cron. *)
Acknowledge(job) ==
  /\ stage = "serving"
  /\ answer' = [job |-> job, clears |-> FALSE]
  /\ UNCHANGED <<environment, stage, economics, payload>>

ServiceNext ==
  \/ Register \/ Serve \/ Stop
  \/ \E report \in Reports : ReportScore(report)
  \/ \E structure \in {"Competitive", "Collaborative"}, cadence \in {"OneShot", "Continuous"} :
       CreateCompetition(structure, cadence)
  \/ \E job \in Jobs \ {"REPORT_SCORE", "CREATE_COMPETITION"} : Acknowledge(job)

ServiceSpec == ServiceInit /\ [][ServiceNext]_serviceVars

-----------------------------------------------------------------------------
(* EconomicConfig::from_env: whatever the environment holds, what it loads
   passes the strict check main makes, so no operator is refused for its
   economics, and no job but the tick is free. *)
LoadedConfigIsRunnable ==
  LET config == ConfigFrom(environment)
  IN  /\ ConfigValid(config)
      /\ \A job \in Jobs : JobPrice(config, job) = 0 <=> job = "TICK"

(* report_score: no environment and no report make a win of no episodes or of
   a figure that is no number, and the gate that decides is the one main
   checked. *)
NoEmptyWin ==
  answer.job = "REPORT_SCORE" /\ answer.clears =>
    /\ answer.report.n >= 1
    /\ Figure(answer.report.delta).finite /\ Figure(answer.report.lower).finite
    /\ Figure(answer.report.lower).v >= 0
    /\ answer.report.n >= economics.gate.minN

(* Reading the payload forward by its lengths, field after field. A field has
   at least the two bytes of its header. *)
NextField(reading, bytes) ==
  LET at == reading.at
      last == at + 1 + bytes[at + 1]
  IN  IF at > Len(bytes) THEN reading
      ELSE [at |-> last + 1,
            fields |-> Append(reading.fields,
              [type |-> bytes[at], value |-> SubSeq(bytes, at + 2, last)])]

ReadForward(bytes) ==
  LET reading[n \in 0..Len(bytes)] ==
        IF n = 0 THEN [at |-> 1, fields |-> <<>>] ELSE NextField(reading[n - 1], bytes)
  IN  reading[Len(bytes)].fields

(* competitions_registration_payload: the manager that parses forward gets the
   fields that were meant, optional ones present or not, as long as none is
   longer than a length can say. *)
PayloadReadsBack ==
  payload # <<>> /\ Len(environment.endpoint) <= LenLimit /\ Len(environment.scorers) <= LenLimit =>
    LET fields == ReadForward(payload)
        Given(type) == {i \in 1..Len(fields) : fields[i].type = type}
    IN  /\ \E i \in Given(1) : fields[i].value = Read(environment.capacity, <<0, 0, 0, 8>>)
        /\ \A i \in Given(2) : fields[i].value = environment.endpoint /\ environment.endpoint # <<>>
        /\ \A i \in Given(3) : fields[i].value = environment.scorers /\ environment.scorers # <<>>
        /\ Len(fields) = 1 + (IF environment.endpoint = <<>> THEN 0 ELSE 1)
                           + (IF environment.scorers = <<>> THEN 0 ELSE 1)

=============================================================================
