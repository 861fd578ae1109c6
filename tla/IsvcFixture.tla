---------------------------- MODULE IsvcFixture ----------------------------
(***************************************************************************)
(* create_isvc of inference_utils.py against the controllers of the        *)
(* cluster: a runtime is created from its template, the InferenceService   *)
(* is created, and a chain of waits, which share one time budget, decides  *)
(* whether the test gets it.  Each wait samples the cluster; between two   *)
(* samples, and between two waits, the controllers go on: pods come late,  *)
(* crash, are replaced, a deployment is rolled out, the autoscaler writes  *)
(* its count.                                                              *)
(*                                                                         *)
(* The clock counts from the creation, in units of 30 seconds.             *)
(***************************************************************************)
EXTENDS ServingSpec

CONSTANTS
    Requests,     \* the arguments of create_isvc, with runtime and namespace
    Budget,       \* timeout
    DeletionWait, \* how long the wrapper waits for an object to be gone
    Pods,         \* bound: the pods that exist at one time
    MaxReplicas,  \* bound: the replicas a deployment may have
    Disturbances  \* bound: rollouts, crashes and relapses in one behaviour

ASSUME FixtureAssumption ==
    /\ Budget \in Nat \ {0} /\ DeletionWait \in Nat \ {0} /\ MaxReplicas \in Nat /\ Disturbances \in Nat
    /\ IsFiniteSet(Pods)

\* A mode is one of KServeDeploymentType; create_llmisvc waits for no pods; no
\* template asks for a route by itself, and no route leads to the test's own host.
ASSUME RequestsAssumption ==
    \A q \in Requests :
        /\ q.mode \in {Unset, "ModelMesh"} \cup KServeModes
        /\ q.min \in Nat \cup {Unset}
        /\ q.llm # Unset => ~q.waitPods
        /\ q.template # Unset => Get(q.template.annotations, "enable-route") # "true"
        /\ "localhost" \notin {q.status.url, q.status.route}

PodsWait == 1         \* wait_for_isvc_pods: 30 seconds
Deployments == {1, 2}

VARIABLES
    r,           \* the arguments
    pc,          \* the wait in hand
    clock, deadline,
    listed,      \* the deployment found
    inc,         \* how often the InferenceService has been created; 0: it does not exist
    pods,        \* the state of the pods that exist
    deps,        \* the deployments that exist
    spec,        \* spec.replicas
    ready,       \* the Ready condition
    model,       \* status.modelStatus: none, or its state
    disturbed,   \* history: what the controllers did beyond bringing the service up
    readySeen    \* history: the creation whose Ready condition was seen

fixture == <<r, pc, clock, deadline, listed, readySeen>>
cluster == <<pods, deps, spec, ready, model, disturbed>>
fixtureVars == <<fixture, cluster, inc>>

PodStates == {"pending", "ready", "crash", "error"}
Waits == {"pods", "verify", "deployments", "spec", "replicas", "deleted", "condition", "loaded"}
Steps == {"new", "listed", "mesh", "final"}
Ends == {"up", "failed", "done"}

Mode == r.mode
CheckPods == r.waitPods /\ ~r.stop
CheckReady == r.wait /\ ~r.stop
MinReplicas == IF r.min = Unset THEN 1 ELSE r.min

FixtureInit ==
    /\ r \in Requests /\ pc = "new" /\ clock = 0 /\ deadline = 0 /\ listed = 0
    /\ inc = 0 /\ pods = << >> /\ deps = {} /\ spec = 0 /\ ready = FALSE
    /\ model = "none" /\ disturbed = 0 /\ readySeen = 0

-----------------------------------------------------------------------------
\* The controllers (external).  A deployment is available when it has the pods
\* its spec asks for and all are ready.

Running == {p \in DOMAIN pods : pods[p] = "ready"}
Available == spec > 0 /\ Cardinality(DOMAIN pods) = spec /\ Running = DOMAIN pods

Controllers(undisturbed) ==
    /\ inc > 0 /\ pc \notin Ends /\ ~r.stop
    /\ IF undisturbed THEN disturbed' = disturbed
       ELSE disturbed < Disturbances /\ disturbed' = disturbed + 1
    /\ UNCHANGED <<fixture, inc>>

\* The service comes up.
DeploymentAppears ==
    /\ deps = {} /\ deps' = {1} /\ spec' = 1
    /\ Controllers(disturbed = 0) /\ UNCHANGED <<pods, ready, model>>
ReplicasSet ==
    /\ deps # {} /\ spec # MinReplicas /\ spec' = MinReplicas
    /\ Controllers(TRUE) /\ UNCHANGED <<pods, deps, ready, model>>
PodAppears ==
    /\ Cardinality(DOMAIN pods) < spec
    /\ \E p \in Pods \ DOMAIN pods : pods' = (p :> "pending") @@ pods
    /\ Controllers(TRUE) /\ UNCHANGED <<deps, spec, ready, model>>
PodStarts ==
    /\ \E p \in DOMAIN pods : pods[p] \in {"pending", "crash"} /\ pods' = [pods EXCEPT ![p] = "ready"]
    /\ Controllers(TRUE) /\ UNCHANGED <<deps, spec, ready, model>>
BecomesReady ==
    /\ Available /\ ~ready /\ ready' = TRUE
    /\ Controllers(TRUE) /\ UNCHANGED <<pods, deps, spec, model>>
ModelLoads ==
    /\ ready /\ model' \in {"loading", "loaded"} /\ model # "loaded" /\ model' # model
    /\ Controllers(TRUE) /\ UNCHANGED <<pods, deps, spec, ready>>

\* It is disturbed.
PodFails ==
    /\ \E p \in DOMAIN pods, s \in {"crash", "error"} :
          pods[p] \in {"pending", "ready"} /\ pods' = [pods EXCEPT ![p] = s]
    /\ Controllers(FALSE) /\ UNCHANGED <<deps, spec, ready, model>>
PodLeaves ==
    /\ \E p \in DOMAIN pods : pods' = [q \in DOMAIN pods \ {p} |-> pods[q]]
    /\ Controllers(FALSE) /\ UNCHANGED <<deps, spec, ready, model>>
RollOut ==
    /\ deps # {} /\ \E d \in Deployments : deps' \in {deps \cup {d}, deps \ {d}} /\ deps' # deps
    /\ Controllers(FALSE) /\ UNCHANGED <<pods, spec, ready, model>>
Rescaled ==
    /\ deps # {} /\ spec' \in 0..MaxReplicas \ {spec}
    /\ Controllers(FALSE) /\ UNCHANGED <<pods, deps, ready, model>>
Relapse ==
    /\ ready /\ \/ ready' = FALSE /\ model' = model
                \/ model # "none" /\ model' = "loading" /\ ready' = ready
    /\ Controllers(FALSE) /\ UNCHANGED <<pods, deps, spec>>

ComingUp ==
    \/ DeploymentAppears \/ ReplicasSet \/ PodAppears \/ PodStarts \/ BecomesReady \/ ModelLoads
ControllerStep ==
    ComingUp \/ PodFails \/ PodLeaves \/ RollOut \/ Rescaled \/ Relapse

-----------------------------------------------------------------------------
\* The waits of create_isvc

\* Fault: every wait gets the whole timeout.
WholeBudget == Budget

Remaining == IF clock < Budget THEN Budget - clock ELSE 0

\* A sampler is started: it gives up at the deadline.
Wait(name, timeout) == pc' = name /\ deadline' = clock + timeout
Proceed(name) == pc' = name /\ deadline' = deadline
Fail == Proceed("failed")

\* What follows the checks of the pods, and what follows the checks of Ready.
AfterPods == IF CheckReady THEN Proceed("mesh") ELSE Proceed("up")

\* create_llmisvc only waits for Ready.
DeployLlm ==
    /\ pc = "new" /\ r.llm # Unset
    /\ IF CreatedLlmIsvc(r.llm) = Unset THEN Fail /\ UNCHANGED inc
       ELSE inc' = 1 /\ IF r.wait THEN Wait("condition", Remaining) ELSE Proceed("up")
    /\ UNCHANGED <<r, clock, listed, readySeen, cluster>>

\* The runtime is made from its template, then the object, and TimeoutWatch starts.
Deploy ==
    /\ pc = "new" /\ r.llm = Unset
    /\ IF r.template = Unset \/ ~StorageArgumentsOk(r)
       THEN Fail /\ UNCHANGED inc
       ELSE /\ inc' = 1
            /\ IF CheckPods THEN Wait("pods", PodsWait) ELSE AfterPods
    /\ UNCHANGED <<r, clock, listed, readySeen, cluster>>

Sampling(wait) == pc = wait /\ clock < deadline /\ UNCHANGED <<r, clock, inc, cluster>>

\* wait_for_isvc_pods tries again when there are none; an unknown mode is a
\* ValueError, which it does not try again.  The budget of what follows was
\* read before this wait, when nothing had elapsed.
PodsExist ==
    /\ Sampling("pods")
    /\ IF LabelSelector(CreatedIsvc(r), "pod", r.runtime) = Unset THEN Fail
       ELSE pods # << >> /\ Wait("verify", Budget)
    /\ UNCHANGED <<listed, readySeen>>

\* Only for ModelMesh a container may crash and recover.
Failing(p) == pods[p] = "error" \/ (pods[p] = "crash" /\ Mode # "ModelMesh")

AllReady == pods # << >> /\ Running = DOMAIN pods

\* verify_no_failed_pods
VerifyNoFailedPods ==
    /\ Sampling("verify")
    /\ \/ (\E p \in DOMAIN pods : Failing(p)) /\ Fail
       \/ /\ \A p \in DOMAIN pods : ~Failing(p)
          /\ AllReady /\ Wait("deployments", Remaining)
    /\ UNCHANGED <<listed, readySeen>>

\* wait_for_inference_deployment_replicas: the list is made once, when it has
\* the one deployment that is expected ...
ListDeployments ==
    /\ Sampling("deployments")
    /\ Cardinality(deps) = 1 /\ listed' \in deps
    /\ Proceed("listed") /\ UNCHANGED readySeen

\* Fault: the count of the autoscaler is not waited for.
NoSpecWait == FALSE

AwaitsSpec == Mode \in RawModes

\* ... and each of the list must still exist.  A raw deployment first gets the
\* replicas the service asks for.
DeploymentExists ==
    /\ pc = "listed"
    /\ IF listed \notin deps THEN Fail
       ELSE Wait(IF AwaitsSpec THEN "spec" ELSE "replicas", Remaining)
    /\ UNCHANGED <<r, clock, listed, readySeen, inc, cluster>>

WaitForReplicasInDeployment ==
    /\ Sampling("spec")
    /\ listed \in deps /\ spec = MinReplicas
    /\ Wait("replicas", Remaining) /\ UNCHANGED <<listed, readySeen>>

\* deployment.wait_for_replicas
WaitForReplicas ==
    /\ Sampling("replicas")
    /\ listed \in deps /\ Available
    /\ AfterPods /\ UNCHANGED <<listed, readySeen>>

Recreates == Mode = "ModelMesh" /\ r.others = "mesh"

\* A second ModelMesh service of the namespace is deleted, in the time the wrapper
\* takes for it.  The runtime of each service there is looked up, and one that is
\* gone ends the test.
RecreateForModelMesh ==
    /\ pc = "mesh"
    /\ IF Mode = "ModelMesh" /\ r.others = "orphan" THEN Fail
       ELSE IF Recreates THEN Wait("deleted", DeletionWait) ELSE Wait("condition", Remaining)
    /\ UNCHANGED <<r, clock, listed, readySeen, inc, cluster>>

\* It is gone, and is created again.  One that is not gone in time is in the way.
DeployAgain ==
    /\ pc = "deleted" /\ clock < deadline
    /\ inc' = inc + 1 /\ ready' = FALSE /\ model' = "none" /\ Wait("condition", Remaining)
    /\ UNCHANGED <<r, clock, listed, readySeen, pods, deps, spec, disturbed>>

\* Ready: the model is waited for if the status has one by then.
WaitForCondition ==
    /\ Sampling("condition")
    /\ ready /\ readySeen' = inc
    /\ IF r.llm # Unset THEN Proceed("up")
       ELSE IF model = "none" THEN Proceed("final") ELSE Wait("loaded", Remaining)
    /\ UNCHANGED listed

IsModelLoaded ==
    /\ Sampling("loaded") /\ model = "loaded"
    /\ Proceed("final") /\ UNCHANGED <<listed, readySeen>>

\* Fault: the status is not read again.
FinalStatusSkipped == Proceed("up")

\* The status is read once more.
FinalStatus == IF model = "loading" THEN Fail ELSE Proceed("up")

CheckModelStatus ==
    /\ pc = "final" /\ FinalStatus
    /\ UNCHANGED <<r, clock, listed, readySeen, inc, cluster>>

\* Fault: the sampler of the model status goes on when its time is over.
ExpireUnlessModel ==
    /\ pc \in Waits \ {"loaded"} /\ clock >= deadline /\ Fail
    /\ UNCHANGED <<r, clock, listed, readySeen, inc, cluster>>

\* The time is over: TimeoutExpiredError, or UnexpectedResourceCountError.
Expire ==
    /\ pc \in Waits /\ clock >= deadline /\ Fail
    /\ UNCHANGED <<r, clock, listed, readySeen, inc, cluster>>

TearDown ==
    /\ pc = "up" /\ Proceed("done") /\ inc' = 0
    /\ UNCHANGED <<r, clock, listed, readySeen, cluster>>

Tick ==
    /\ pc \in Waits /\ clock < deadline /\ clock' = clock + 1
    /\ UNCHANGED <<r, pc, deadline, listed, readySeen, inc, cluster>>

FixtureStep ==
    \/ Deploy \/ DeployLlm \/ PodsExist \/ VerifyNoFailedPods \/ ListDeployments \/ DeploymentExists
    \/ WaitForReplicasInDeployment \/ WaitForReplicas \/ RecreateForModelMesh
    \/ DeployAgain \/ WaitForCondition \/ IsModelLoaded \/ CheckModelStatus \/ Expire

FixtureNext == FixtureStep \/ Tick \/ TearDown \/ ControllerStep

-----------------------------------------------------------------------------
\* Type invariant.
FixtureTypeOK ==
    /\ r \in Requests /\ pc \in Waits \cup Steps \cup Ends
    /\ clock \in Nat /\ deadline \in Nat /\ listed \in {0} \cup Deployments
    /\ inc \in 0..2 /\ DOMAIN pods \subseteq Pods /\ deps \subseteq Deployments
    /\ \A p \in DOMAIN pods : pods[p] \in PodStates
    /\ spec \in Nat /\ ready \in BOOLEAN /\ model \in {"none", "loading", "loaded"}
    /\ disturbed \in 0..Disturbances /\ readySeen \in 0..2

\* The pods are looked at once and the deployments are listed once, and what
\* comes later is not seen.  Yet when nothing but bringing the service up happens,
\* the test gets its one deployment, a pod that runs, and of a raw service all the
\* replicas it asked for: the wait for the count in the deployment makes up for
\* the pods the first look did not show.
QuietClusterIsHealthy ==
    pc = "up" /\ CheckPods /\ disturbed = 0 /\ MinReplicas > 0 =>
        /\ deps = {listed} /\ Running # {}
        /\ Mode \in RawModes => Running = DOMAIN pods /\ Cardinality(Running) = MinReplicas

\* Every wait takes what the ones before it left of the budget: whatever the
\* controllers do, the fixture is done after its timeout and the 30 seconds in
\* which the pods may appear.  Only the deletion of a second ModelMesh service is
\* waited for beside the budget: when it uses the budget up, Ready gets no time.
BudgetKept == clock <= Budget + PodsWait + (IF Recreates /\ CheckReady THEN DeletionWait ELSE 0)

\* When the test gets the service, Ready was seen of the object that now exists,
\* not of the one it was before a second ModelMesh service is created again, and
\* a model status that was reported late is not one of a model still loading.
YieldsWhatWasSeen ==
    [][pc # "up" /\ pc' = "up" /\ CheckReady =>
        readySeen' = inc' /\ (r.llm = Unset => model' # "loading")]_fixtureVars

\* The fixture yields or fails, whatever the controllers do.
SetupEnds == (pc = "new") ~> (pc \in Ends)
=============================================================================
