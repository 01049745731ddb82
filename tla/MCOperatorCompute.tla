------------------------- MODULE MCOperatorCompute --------------------------
(* The two ways an operator lends its compute, sandboxes and training
   clusters. They share nothing, so in a behaviour one of them is at work. *)
EXTENDS SandboxHosting, TrainingClusters

-----------------------------------------------------------------------------
(* No policy, an open one and a closed one. *)
SomeEgresses ==
  {NoPolicy, NoEgress, [allowlist |-> {}, defaultDeny |-> FALSE, present |-> TRUE]}

SomeBackends ==
  {Plain("Local"), BackendFor("BlackBox", "PhalaTdx"),
   BackendFor("WhiteBoxNoEgress", "GcpConfidential"), BackendFor("AttestedHarness", "AwsNitro")}

-----------------------------------------------------------------------------
SoundRecipe == [name |-> "tuned", valid |-> TRUE]
BrokenRecipe == [name |-> "tuned", valid |-> FALSE]

TunedLoss == [tuned |-> 20]
TunedGap == [tuned |-> 3]

Asked(recipe, seed, private, cluster) ==
  [recipe |-> recipe, seed |-> seed, private |-> private, cluster |-> cluster]

FirstRequest == Asked(SoundRecipe, 0, FALSE, Plainly(<<Operator(TRUE)>>))

(* The same job asked for alone, twice in a hierarchy, and by the neighbouring
   seed; mixed hierarchies; private runs on clusters sealed, unsealed and
   wrapped; and a recipe that does not validate. *)
SomeRequests ==
  {FirstRequest, Asked(SoundRecipe, 1, FALSE, Plainly(<<Operator(TRUE)>>)),
   Asked(SoundRecipe, 0, TRUE, Plainly(<<Operator(TRUE), Operator(TRUE)>>)),
   Asked(SoundRecipe, 0, TRUE, Plainly(<<Sim, Operator(TRUE), Subprocess(TRUE)>>)),
   Asked(SoundRecipe, 0, TRUE, TeeSim(Plainly(<<Service(FALSE), Operator(FALSE)>>))),
   Asked(BrokenRecipe, 0, FALSE, Plainly(<<Sim>>))}

NoBonus == [k \in 1..3 |-> k - 1]

(* Whether a call is refused depends on its own policy only: all calls of a
   behaviour have the same. *)
SandboxesAtWork ==
  /\ \A c \in Calls : pc[c] = "new"
  /\ \A c, d \in Calls : egress[c] = egress[d]
  /\ \A r \in Runs : at[r] = "idle"
  /\ \A r \in Runs : request[r] = FirstRequest

ClustersAtWork ==
  /\ \A r \in Runs : at[r] = "new"
  /\ \A c \in Calls : pc[c] = "idle" /\ egress[c] = NoEgress
  /\ host = "Local" /\ backend = Plain("Local")

-----------------------------------------------------------------------------
computeVars == <<sandboxVars, trainingVars>>

ComputeInit ==
  /\ SandboxInit
  /\ TrainingInit
  /\ SandboxesAtWork \/ ClustersAtWork

ComputeNext ==
  \/ SandboxNext /\ UNCHANGED trainingVars
  \/ TrainingNext /\ UNCHANGED sandboxVars

ComputeSpec ==
  ComputeInit /\ [][ComputeNext]_computeVars /\ SandboxFairness /\ TrainingFairness

(* Every call of produce ends, in a sandbox or on a training cluster, whatever a
   method on sandbox-runtime, its sandbox or a training operator does. The one
   thing that may hold it for ever is a training process: it has no limit. *)
EveryRunEnds == EveryCallEnds /\ EveryTrainingEnds

=============================================================================
