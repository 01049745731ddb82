-------------------------- MODULE TrainingClusters --------------------------
(***************************************************************************)
(* Delegated training: DistributedTrainingEngine hands a recipe to a       *)
(* cluster, which is one backend or a hierarchy of several trained in      *)
(* turn, and the artifact that comes back is validated and scored by the   *)
(* market. The backends are the local simulation, an external process, and *)
(* jobs at a training operator, created or joined over HTTP and polled     *)
(* until they complete or a deadline passes. Several runs, retries of one  *)
(* another among them, share the operator.                                 *)
(***************************************************************************)
EXTENDS Integers, Sequences, SequencesExt, Functions

CONSTANTS
  Runs,       \* bound: the calls of produce
  Requests,   \* bound: what a run may be asked for
  Losses,     \* bound: the losses a backend may report
  SimLoss,    \* recipe -> the loss the simulation's dynamics give it
  Gap,        \* recipe -> its generalization gap
  ScaleBonus, \* number of clusters -> bonus less drift at their sync interval
  SeedStride, \* CLUSTER_SEED_STRIDE
  SeedRange   \* 2^64

(* A stride that comes back to a seed only after more backends than there are:
   it is odd, and the range a power of two. *)
ASSUME TrainingAssumption ==
  /\ SeedRange \in Nat \ {0} /\ SeedStride \in Nat
  /\ Losses \subseteq Int
  /\ \A asked \in Requests :
       /\ asked.recipe.name \in DOMAIN SimLoss /\ SimLoss[asked.recipe.name] \in Int
       /\ asked.seed \in Nat
       /\ asked.cluster.backends \in Seq([kind : STRING, sealed : BOOLEAN])
       /\ \A k \in 1..Len(asked.cluster.backends) - 1 : (k * SeedStride) % SeedRange # 0

(* An f64: a number, or one of those that are not finite. *)
Number(x) == [finite |-> TRUE, value |-> x]
NotFinite == [finite |-> FALSE, value |-> 0]

Job(completed, loss) == [completed |-> completed, loss |-> loss]

VARIABLES
  request,   \* of each run: recipe, seed, privacy, and the cluster to train on
  at,        \* where the run stands with the backend whose turn it is
  losses,    \* what the backends before it reported
  artifact,  \* what the run produced: at most one
  jobs       \* the operator's jobs, by id: completed or not, and the loss claimed

trainingVars == <<request, at, losses, artifact, jobs>>

-----------------------------------------------------------------------------
(* A recipe is a name and whether its knobs are structurally valid. A cluster
   is its backends in turn, and whether a TeeSimCluster is put around it. *)
Sim == [kind |-> "Sim", sealed |-> FALSE]
Subprocess(tee) == [kind |-> "Process", sealed |-> tee]
Service(tee) == [kind |-> "Process", sealed |-> tee]
Operator(tee) == [kind |-> "Operator", sealed |-> tee]

Plainly(backends) == [backends |-> backends, wrapped |-> FALSE]
TeeSim(cluster) == [cluster EXCEPT !.wrapped = TRUE]

InnerClusters(r) == request[r].cluster.backends

ClusterSealed(cluster) ==
  cluster.wrapped \/ \A i \in DOMAIN cluster.backends : cluster.backends[i].sealed

(* The dynamics of a recipe: a knob out of range makes a logarithm infinite. *)
TrainLoss(recipe) == IF recipe.valid THEN Number(SimLoss[recipe.name]) ELSE NotFinite
GeneralizationGap(recipe) == Gap[recipe.name]

Turn(r) == Len(losses[r]) + 1
Serving(r) == InnerClusters(r)[Turn(r)].kind

ClusterSeed(seed, index) == (seed + (index - 1) * SeedStride) % SeedRange

(* Mutant of JobId: a new job for each attempt. *)
JobPerAttempt(r, index) ==
  <<request[r].recipe, ClusterSeed(request[r].seed, index), r>>

(* The hash is taken for collision-free. It is of the recipe and the seed, not
   of the operator's task. *)
JobId(r, index) == <<request[r].recipe, ClusterSeed(request[r].seed, index)>>

(* A plain cluster hands its loss on; a hierarchy averages, and an inner loss
   that is not finite stays so. *)
MergeLoss(reported) ==
  IF \A i \in DOMAIN reported : reported[i].finite
  THEN Number(FoldLeft(LAMBDA sum, loss : sum + loss.value, 0, reported) \div Len(reported)
              - ScaleBonus[Len(reported)])
  ELSE NotFinite

(* DistributedTrainingSurface::validate. *)
ValidArtifact(recipe, loss) == recipe.valid /\ loss.finite

(* DistributedTrainingScorer::measure, but for the noise of the shards, which
   is a function of seed and split alone. *)
Measure(made, split) ==
  -(made.loss.value + IF split = "HeldOut" THEN GeneralizationGap(made.recipe) ELSE 0)

TrainingInit ==
  /\ request \in [Runs -> Requests]
  /\ \E asked \in SUBSET Runs : at = [r \in Runs |-> IF r \in asked THEN "new" ELSE "idle"]
  /\ losses = [r \in Runs |-> <<>>]
  /\ artifact = [r \in Runs |-> {}]
  /\ jobs = [j \in {} |-> Job(FALSE, NotFinite)]

-----------------------------------------------------------------------------
Move(r, there) == at' = [at EXCEPT ![r] = there]

(* What a backend reported: the next one's turn, or the merge and the checks
   that stand between an engine and the market. *)
Report(r, loss) ==
  LET reported == Append(losses[r], loss)
      merged == MergeLoss(reported)
      all == Len(reported) = Len(InnerClusters(r))
      valid == ValidArtifact(request[r].recipe, merged)
  IN  /\ losses' = [losses EXCEPT ![r] = reported]
      /\ Move(r, IF ~all THEN "training" ELSE IF valid THEN "done" ELSE "failed")
      /\ artifact' = [artifact EXCEPT ![r] =
           IF all /\ valid
           THEN {[recipe |-> request[r].recipe, seed |-> request[r].seed, loss |-> merged]}
           ELSE {}]

(* The private runner's demand of an engine, for the tiers that mandate it. *)
Admit(r) ==
  /\ at[r] = "new"
  /\ Move(r, IF request[r].private /\ ~ClusterSealed(request[r].cluster)
             THEN "failed" ELSE "training")
  /\ UNCHANGED <<request, losses, artifact, jobs>>

Simulate(r) ==
  /\ at[r] = "training"
  /\ Serving(r) = "Sim"
  /\ Report(r, TrainLoss(request[r].recipe))
  /\ UNCHANGED <<request, jobs>>

(* The process prints a finite loss as its checkpoint summary. *)
ProcessReports(r) ==
  /\ at[r] = "training"
  /\ Serving(r) = "Process"
  /\ \E loss \in Losses : Report(r, Number(loss))
  /\ UNCHANGED <<request, jobs>>

(* Mutant of BackendFails: the hierarchy goes on without the backend. *)
BackendSkipped(r) ==
  /\ \/ at[r] = "training" /\ Serving(r) # "Sim"
     \/ at[r] = "polling"
  /\ Move(r, IF Turn(r) = Len(InnerClusters(r)) /\ losses[r] # <<>> THEN "done" ELSE "failed")
  /\ artifact' = [artifact EXCEPT ![r] = IF losses[r] = <<>> THEN {} ELSE
       {[recipe |-> request[r].recipe, seed |-> request[r].seed, loss |-> MergeLoss(losses[r])]}]
  /\ UNCHANGED <<request, losses, jobs>>

(* A process cannot be launched, exits with an error or prints no summary; the
   build has no such backend; the operator cannot be reached, refuses, answers
   a poll with an error, or claims a loss that is not finite. The first failure
   of a backend is the failure of the whole hierarchy. *)
BackendFails(r) ==
  /\ \/ at[r] = "training" /\ Serving(r) # "Sim"
     \/ at[r] = "polling"
  /\ Move(r, "failed")
  /\ UNCHANGED <<request, losses, artifact, jobs>>

(* The request to create a job reaches the operator, which creates it or joins
   the one there is; its answer may be lost. *)
Submit(r) ==
  LET job == JobId(r, Turn(r))
      joined == [j \in DOMAIN jobs \cup {job} |->
                   IF j \in DOMAIN jobs THEN jobs[j] ELSE Job(FALSE, NotFinite)]
  IN  /\ at[r] = "training"
      /\ Serving(r) = "Operator"
      /\ jobs' = joined
      /\ \/ Move(r, "polling")
         \/ Move(r, "failed")
      /\ UNCHANGED <<request, losses, artifact>>

(* A poll that finds the job complete; one that does not changes nothing. *)
PollCompleted(r) ==
  LET job == JobId(r, Turn(r))
  IN  /\ at[r] = "polling"
      /\ jobs[job].completed
      /\ jobs[job].loss.finite
      /\ Report(r, jobs[job].loss)
      /\ UNCHANGED <<request, jobs>>

(* External: the operator completes a job, with whatever loss it claims. *)
Complete(job) ==
  /\ ~jobs[job].completed
  /\ \E claim \in {NotFinite} \cup {Number(loss) : loss \in Losses} :
       jobs' = [jobs EXCEPT ![job] = Job(TRUE, claim)]
  /\ UNCHANGED <<request, at, losses, artifact>>

(* Mutant of DeadlinePasses: the job is waited for, however long it takes. *)
DeadlineOnceCompleted(r) ==
  /\ at[r] = "polling"
  /\ jobs[JobId(r, Turn(r))].completed
  /\ Move(r, "failed")
  /\ UNCHANGED <<request, losses, artifact, jobs>>

(* The poll's deadline passes, whatever the operator does. *)
DeadlinePasses(r) ==
  /\ at[r] = "polling"
  /\ Move(r, "failed")
  /\ UNCHANGED <<request, losses, artifact, jobs>>

(* What goes on whatever others do. *)
Proceed(r) ==
  Admit(r) \/ Simulate(r) \/ Submit(r) \/ PollCompleted(r) \/ DeadlinePasses(r)

TrainingNext ==
  \/ \E r \in Runs : Proceed(r) \/ ProcessReports(r) \/ BackendFails(r)
  \/ \E job \in DOMAIN jobs : Complete(job)

(* A run is scheduled, and a request to the operator is answered or times out.
   A process is awaited without a limit: it may never report nor fail. *)
TrainingFairness == \A r \in Runs : WF_trainingVars(Proceed(r))

TrainingSpec == TrainingInit /\ [][TrainingNext]_trainingVars /\ TrainingFairness

-----------------------------------------------------------------------------
OperatorServed(r, i) == i <= Len(losses[r]) /\ InnerClusters(r)[i].kind = "Operator"

(* derive_job_id: "repeated market runs are idempotent at the operator":
   whatever timed out, was lost or joined on the way, two runs that were served
   with the same recipe under the same seed were told the same loss. *)
RetriesAgree ==
  \A r, s \in Runs : \A i \in DOMAIN losses[r], j \in DOMAIN losses[s] :
    /\ OperatorServed(r, i) /\ OperatorServed(s, j)
    /\ request[r].recipe = request[s].recipe
    /\ ClusterSeed(request[r].seed, i) = ClusterSeed(request[s].seed, j)
    => losses[r][i] = losses[s][j]

(* HierarchicalCluster::train: an artifact of a hierarchy is the merge of one
   finite loss of every backend, no two of them of one job; a failure on the
   way is never averaged away. *)
NoReplicaLeftOut ==
  \A r \in Runs : \A made \in artifact[r] :
    /\ Len(losses[r]) = Len(InnerClusters(r))
    /\ made.loss = MergeLoss(losses[r]) /\ made.loss.finite
    /\ \A i, j \in DOMAIN losses[r] :
         i # j /\ OperatorServed(r, i) /\ OperatorServed(r, j) => JobId(r, i) # JobId(r, j)

(* TrainedArtifact: "The Referee does not trust train_loss for payment -- it
   re-scores on held-out": two artifacts of one recipe and seed are scored
   alike, whatever their clusters reported. *)
ReportMovesNothing ==
  \A r, s \in Runs : \A made \in artifact[r], claimed \in artifact[s] :
    made.recipe = claimed.recipe /\ made.seed = claimed.seed =>
      Measure(made, "HeldOut") = Measure(claimed, "HeldOut")

AwaitsProcess(r) == at[r] = "training" /\ Serving(r) = "Process"

(* blueprint_train's limits, and subprocess_train and service_train that have
   none: a run ends, also when the operator never completes its job, unless a
   training process it has launched never does. *)
EveryTrainingEnds ==
  \A r \in Runs : <>(at[r] \in {"idle", "done", "failed"}) \/ <>[]AwaitsProcess(r)

=============================================================================
