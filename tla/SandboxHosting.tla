--------------------------- MODULE SandboxHosting ---------------------------
(***************************************************************************)
(* Operator compute: SandboxMethodEngine of autoresearch-sandbox runs a    *)
(* researcher's method in a sandbox of its own, on the in-process host or  *)
(* on sandbox-runtime. Several calls of produce share the engine and its   *)
(* host. On the in-process host every future is ready, so a call is never  *)
(* dropped half-way, but threads interleave between two locks; on          *)
(* sandbox-runtime a call may be dropped wherever it awaits, a method may  *)
(* hang, and the runtime reaps what has outlived its time.                 *)
(***************************************************************************)
EXTENDS PrivacyRules, FiniteSets, Functions

CONSTANTS
  Calls,      \* bound: the calls of produce
  Egresses,   \* bound: the egress policies of their contexts
  Backends    \* bound: the backends an engine is built with

VARIABLES
  host,       \* "Local" or "Runtime"
  backend,    \* the engine's backend
  egress,     \* the egress policy in the context of each call
  hangs,      \* whose method never returns
  pc,         \* where each call stands
  box,        \* its sandbox, 0 while it has none
  ref,        \* under which its candidate was produced
  candidate,  \* the candidate it resolved: named by the call whose run made it
  torn,       \* what its teardown answered
  report,     \* the attestation captured with its sandbox
  counter,    \* ids handed out
  boxes,      \* sandboxes that exist on sandbox-runtime
  store       \* candidates kept, by reference

requestVars == <<host, backend, egress, hangs>>
sandboxVars ==
  <<requestVars, pc, box, ref, candidate, torn, report, counter, boxes, store>>

-----------------------------------------------------------------------------
Plain(kind) == [kind |-> kind, tee |-> "None"]
Enclave(tee) == [kind |-> "Tee", tee |-> tee]

IsTee(b) == b.kind = "Tee"

BackendFor(tier, tee) ==
  IF RequiresAttestation(tier) /\ tee # "None" THEN Enclave(tee) ELSE Plain("Docker")

SandboxBackend ==
  {Plain("Local")} \cup {BackendFor(tier, tee) : tier \in PrivacyTier, tee \in TeeType}

ASSUME BackendAssumption == Backends \subseteq SandboxBackend

ValidRequest(b, policy) == IsTee(b) => policy.present /\ policy.defaultDeny

(* The runtime's enumeration of enclaves is coarser than the domain's. *)
ToRuntimeTee(tee) == IF tee = "GcpConfidential" THEN "PhalaTdx" ELSE tee

NoReport == LocalReport

SyntheticReport(tee) == [tee |-> tee, evidence |-> TRUE, measurement |-> TRUE]

(* What is captured when a sandbox is provisioned: sandbox-runtime, which is
   told the enclave to require, may return no report. *)
CaptureReports ==
  CASE ~IsTee(backend) -> {NoReport}
    [] IsTee(backend) /\ host = "Local" -> {SyntheticReport(backend.tee)}
    [] IsTee(backend) /\ host = "Runtime" ->
         {NoReport, SyntheticReport(ToRuntimeTee(backend.tee))}

(* Mutant of MaxLifetime: no limit. *)
Unlimited == 0

ExecTimeout == 600
MaxLifetime == 3600

(* Mutant of Tick: ids are handed out before they are counted. *)
Stand(n) == n

Tick(n) == n + 1

-----------------------------------------------------------------------------
NoRef == <<0, 0>>
Nobody == "Nobody"

SandboxInit ==
  /\ host \in {"Local", "Runtime"}
  /\ backend \in Backends
  /\ egress \in [Calls -> Egresses]
  /\ hangs \in SUBSET (IF host = "Local" THEN {} ELSE Calls)
  /\ \E called \in SUBSET Calls : pc = [c \in Calls |-> IF c \in called THEN "new" ELSE "idle"]
  /\ box = [c \in Calls |-> 0]
  /\ ref = [c \in Calls |-> NoRef]
  /\ candidate = [c \in Calls |-> Nobody]
  /\ torn = [c \in Calls |-> "none"]
  /\ report = [c \in Calls |-> NoReport]
  /\ counter = 0
  /\ boxes = {}
  /\ store = [r \in {} |-> Nobody]

Goto(c, there) == pc' = [pc EXCEPT ![c] = there]

Without(b) == Restrict(store, {r \in DOMAIN store : r[1] # b})

Keep(r, c) == store' = [s \in DOMAIN store \cup {r} |-> IF s = r THEN c ELSE store[s]]

-----------------------------------------------------------------------------
(* 1. Provision. *)
Refuse(c) ==
  /\ pc[c] = "new"
  /\ ~ValidRequest(backend, egress[c])
  /\ Goto(c, "done")
  /\ UNCHANGED <<requestVars, box, ref, candidate, torn, report, counter, boxes, store>>

Provision(c) ==
  /\ pc[c] = "new"
  /\ ValidRequest(backend, egress[c])
  /\ counter' = Tick(counter)
  /\ box' = [box EXCEPT ![c] = counter']
  /\ boxes' = IF host = "Runtime" THEN boxes \cup {counter'} ELSE boxes
  /\ \E captured \in CaptureReports : report' = [report EXCEPT ![c] = captured]
  /\ Goto(c, "provisioned")
  /\ UNCHANGED <<requestVars, ref, candidate, torn, store>>

ProvisionFails(c) ==
  /\ host = "Runtime"
  /\ pc[c] = "new"
  /\ ValidRequest(backend, egress[c])
  /\ Goto(c, "done")
  /\ UNCHANGED <<requestVars, box, ref, candidate, torn, report, counter, boxes, store>>

(* 2. Run the method: in process, counting and recording under two locks. *)
Count(c) ==
  /\ host = "Local"
  /\ pc[c] = "provisioned"
  /\ counter' = Tick(counter)
  /\ ref' = [ref EXCEPT ![c] = <<box[c], counter'>>]
  /\ Goto(c, "counted")
  /\ UNCHANGED <<requestVars, box, candidate, torn, report, boxes, store>>

Record(c) ==
  /\ pc[c] = "counted"
  /\ Keep(ref[c], c)
  /\ Goto(c, "ran")
  /\ UNCHANGED <<requestVars, box, ref, candidate, torn, report, counter, boxes>>

MethodFails(c) ==
  /\ host = "Local"
  /\ pc[c] = "provisioned"
  /\ Goto(c, "ran")
  /\ UNCHANGED <<requestVars, box, ref, candidate, torn, report, counter, boxes, store>>

(* On sandbox-runtime: looked up by URL, then executed, writing one file. *)
Execute(c) ==
  /\ host = "Runtime"
  /\ pc[c] = "provisioned"
  /\ Goto(c, IF box[c] \in boxes THEN "executing" ELSE "ran")
  /\ UNCHANGED <<requestVars, box, ref, candidate, torn, report, counter, boxes, store>>

ExecReturns(c) ==
  /\ pc[c] = "executing"
  /\ c \notin hangs
  /\ box[c] \in boxes
  /\ ref' = [ref EXCEPT ![c] = <<box[c], 0>>]
  /\ Keep(<<box[c], 0>>, c)
  /\ Goto(c, "ran")
  /\ UNCHANGED <<requestVars, box, candidate, torn, report, counter, boxes>>

ExecFails(c) ==
  /\ pc[c] = "executing"
  /\ c \in hangs => ExecTimeout > 0
  /\ Goto(c, "ran")
  /\ UNCHANGED <<requestVars, box, ref, candidate, torn, report, counter, boxes, store>>

(* Mutant of Resolve: a failed run returns at once. *)
ResolveOrReturn(c) ==
  /\ pc[c] = "ran"
  /\ candidate' = [candidate EXCEPT ![c] =
       IF ref[c] \in DOMAIN store THEN store[ref[c]] ELSE Nobody]
  /\ Goto(c, IF ref[c] = NoRef THEN "done" ELSE "resolved")
  /\ UNCHANGED <<requestVars, box, ref, torn, report, counter, boxes, store>>

(* 3. Resolve what was produced, if anything, and go on to the teardown. *)
Resolve(c) ==
  /\ pc[c] = "ran"
  /\ candidate' = [candidate EXCEPT ![c] =
       IF ref[c] \in DOMAIN store THEN store[ref[c]] ELSE Nobody]
  /\ Goto(c, "resolved")
  /\ UNCHANGED <<requestVars, box, ref, torn, report, counter, boxes, store>>

(* The teardown succeeds, or, on sandbox-runtime, the sandbox is not found or
   not deleted; a failure leaves it as it is. *)
Teardown(c) ==
  /\ pc[c] = "resolved"
  /\ host = "Runtime" => box[c] \in boxes
  /\ boxes' = boxes \ {box[c]}
  /\ store' = Without(box[c])
  /\ torn' = [torn EXCEPT ![c] = "ok"]
  /\ Goto(c, "done")
  /\ UNCHANGED <<requestVars, box, ref, candidate, report, counter>>

TeardownFails(c) ==
  /\ host = "Runtime"
  /\ pc[c] = "resolved"
  /\ torn' = [torn EXCEPT ![c] = "failed"]
  /\ Goto(c, "done")
  /\ UNCHANGED <<requestVars, box, ref, candidate, report, counter, boxes, store>>

(* The caller drops the future while it awaits the runtime: a request that is
   in flight may still take effect. *)
Drop(c) ==
  /\ host = "Runtime"
  /\ \/ /\ pc[c] = "new"
        /\ ValidRequest(backend, egress[c])
        /\ \/ UNCHANGED <<counter, boxes>>
           \/ counter' = Tick(counter) /\ boxes' = boxes \cup {counter'}
        /\ UNCHANGED store
     \/ pc[c] = "executing" /\ UNCHANGED <<counter, boxes, store>>
     \/ /\ pc[c] = "resolved"
        /\ \/ boxes' = boxes \ {box[c]} /\ store' = Without(box[c])
           \/ UNCHANGED <<boxes, store>>
        /\ UNCHANGED counter
  /\ Goto(c, "dropped")
  /\ UNCHANGED <<requestVars, box, ref, candidate, torn, report>>

Reap(b) ==
  /\ MaxLifetime > 0
  /\ b \in boxes
  /\ boxes' = boxes \ {b}
  /\ store' = Without(b)
  /\ UNCHANGED <<requestVars, pc, box, ref, candidate, torn, report, counter>>

-----------------------------------------------------------------------------
Produce(c) ==
  \/ Refuse(c) \/ Provision(c) \/ ProvisionFails(c)
  \/ Count(c) \/ Record(c) \/ MethodFails(c)
  \/ Execute(c) \/ ExecReturns(c) \/ ExecFails(c)
  \/ Resolve(c) \/ Teardown(c) \/ TeardownFails(c)

Ids == 1..2 * Cardinality(Calls)

SandboxNext ==
  \/ \E c \in Calls : Produce(c) \/ Drop(c)
  \/ \E b \in Ids : Reap(b)

(* Threads are scheduled, sandbox-runtime answers, ends an execution at the limit
   it was given, and its reaper runs. *)
SandboxFairness ==
  /\ \A c \in Calls : WF_sandboxVars(Produce(c))
  /\ \A b \in Ids : WF_sandboxVars(Reap(b))

SandboxSpec == SandboxInit /\ [][SandboxNext]_sandboxVars /\ SandboxFairness

-----------------------------------------------------------------------------
(* A candidate is returned only if the sandbox it came from was torn down. *)
Result(c) == IF pc[c] = "done" /\ torn[c] = "ok" THEN candidate[c] ELSE Nobody

(* LocalSandboxHost: "Bind the ref to the sandbox id so two sandboxes never
   collide": a call returns what its own run made and nothing else, and in
   process a run that made something is never lost, however the calls
   interleave between the counter, the store and each other's teardowns. *)
EachGetsItsOwnCandidate ==
  \A c \in Calls :
    /\ Result(c) \in {c, Nobody}
    /\ host = "Local" /\ pc[c] = "done" /\ ref[c] # NoRef => Result(c) = c

(* produce: "ALWAYS tear the sandbox down -- even on a run failure": of a call
   that ran to its end no sandbox is left and no candidate, unless the runtime
   refused to delete it. *)
NothingLeftBehind ==
  \A c \in Calls : pc[c] = "done" /\ torn[c] # "failed" =>
    box[c] \notin boxes /\ \A r \in DOMAIN store : r[1] # box[c]

(* Every call of produce returns, whatever its method does on sandbox-runtime;
   in process a method is taken to return. *)
EveryCallEnds == \A c \in Calls : <>(pc[c] \in {"idle", "done", "dropped"})

(* No sandbox runs forever, also when its call was dropped and nobody holds
   its handle. *)
ComputeIsReleased == \A b \in Ids : b \in boxes ~> b \notin boxes

=============================================================================
