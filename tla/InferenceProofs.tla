--------------------------- MODULE InferenceProofs ---------------------------
(***************************************************************************)
(* A test with a model, for any arguments of create_isvc, any budget, any  *)
(* number of pods and disturbances, and any answer of the model.           *)
(*                                                                         *)
(* The invariants say what a wait that is over still guarantees while the  *)
(* controllers go on: Growing, that an undisturbed cluster loses nothing a *)
(* wait has seen; SeenIsThere, that Ready was seen of the object that is   *)
(* there; Deadlines, that no wait ends later than the budget.  Asked and   *)
(* Built tie the route of a client to the arguments of the fixture, and    *)
(* ExposureWritten follows the labels and annotations from the one to the  *)
(* other.  GotFits says that the tokens in hand are of one attempt, and that  *)
(* only the last may be an error.                                          *)
(***************************************************************************)
EXTENDS InferenceSession, FiniteSetTheorems, SequenceTheorems, TLAPS

Raw == Mode \in RawModes

\* The fixture is past the wait of that name.
AfterVerify == {"deployments", "listed", "spec", "replicas"}
AfterListing == {"listed", "spec", "replicas"}
Later == {"mesh", "deleted", "condition", "loaded", "final", "up"}

\* The wait that the budget does not pay for, and the waits after it.
BesideBudget == {"deleted", "condition", "loaded"}
Spare == IF Recreates /\ CheckReady THEN DeletionWait ELSE 0

\* The pods are a function of the pods there are, and the object is there, once,
\* until the last waits.
FixtureTyped ==
    /\ FixtureTypeOK
    /\ pods \in [DOMAIN pods -> PodStates]
    /\ pc = "new" => inc = 0
    /\ pc \in (Waits \cup {"listed", "mesh"}) \ {"condition", "loaded"} => inc = 1

\* No wait is given more time than is left.
Deadlines ==
    /\ BudgetKept
    /\ pc = "new" => clock = 0
    /\ pc = "pods" => deadline = PodsWait
    /\ pc = "mesh" => CheckReady
    /\ pc \in Waits \ BesideBudget => deadline <= Budget + PodsWait
    /\ pc \in BesideBudget => deadline <= Budget + PodsWait + Spare
    /\ pc \notin BesideBudget \cup {"final"} \cup Ends => clock <= Budget + PodsWait

\* A readiness that was seen is of the object that is there.
SeenIsThere == pc \in {"loaded", "final"} => readySeen = inc

\* The runtime of a service that came up was made from a template.
Built == pc \notin {"new", "failed"} /\ r.llm = Unset => r.template # Unset

\* What the controllers bring up when nothing is disturbed only grows.
Growing ==
    disturbed = 0 =>
        /\ deps \in {{}, {1}} /\ (deps = {} => spec = 0 /\ DOMAIN pods = {})
        /\ \A p \in DOMAIN pods : pods[p] \in {"pending", "ready"}
        /\ pc \in AfterVerify => Running # {}
        /\ pc \in AfterListing => listed \in deps
        /\ pc = "replicas" /\ Raw => spec = MinReplicas
        /\ pc \in Later /\ CheckPods =>
              /\ Running # {} /\ listed \in deps
              /\ Raw => spec = MinReplicas /\ Available

\* A call is only made of a service that is up, and goes where it was sent.
Asked == phase # "idle" => pc \in {"up", "done"} /\ route = Route

\* The tokens in hand are those of this attempt, from the first one on.
GotFits ==
    /\ phase = "idle" \/ call \notin {"stream", "tgisStream"} => got = << >>
    /\ phase = "trying" =>
          /\ got \in Seq(Nat \X STRING) /\ Len(got) <= Len(Answer)
          /\ \A i \in 1..Len(got) :
                \/ got[i] = <<attempt, Answer[i]>>
                \/ cut /\ call = "stream" /\ i = Len(got) /\ got[i] = <<attempt, ErrorMessage>>

\* tenacity stops after five attempts.
Tries == call \in Retried => attempt <= MaxRetries

FixtureInv == FixtureTyped /\ Deadlines /\ SeenIsThere /\ Built /\ Growing
ClientInv ==
    ClientTypeOK /\ Tries /\ GotFits /\ StreamedAnswerIsWhole
InferenceInv == FixtureInv /\ Asked /\ ClientInv
-----------------------------------------------------------------------------
(* The steps of the fixture and of the controllers.                        *)

LEMMA RemainingTyped ==
    ASSUME clock \in Nat
    PROVE  /\ Remaining \in Nat
           /\ \A limit \in Nat :
                 Budget + PodsWait <= limit /\ clock <= limit => clock + Remaining <= limit
BY FixtureAssumption DEF Remaining, PodsWait

LEMMA SpareTyped == Spare \in Nat
BY FixtureAssumption DEF Spare

LEMMA ControllersKeepFixture ==
    ASSUME ControllerStep
    PROVE  /\ UNCHANGED <<r, pc, clock, deadline, listed, readySeen, inc>>
           /\ inc > 0 /\ pc \notin Ends /\ ~r.stop
BY DEF ControllerStep, ComingUp, DeploymentAppears, ReplicasSet, PodAppears, PodStarts,
   BecomesReady, ModelLoads, PodFails, PodLeaves, RollOut, Rescaled, Relapse, Controllers, fixture

LEMMA FixtureKeepsCluster ==
    ASSUME FixtureStep \/ Tick \/ TearDown
    PROVE  UNCHANGED <<r, pods, deps, spec, disturbed>>
BY DEF FixtureStep, Tick, TearDown, Deploy, DeployLlm, PodsExist, VerifyNoFailedPods,
   ListDeployments, DeploymentExists, WaitForReplicasInDeployment, WaitForReplicas,
   RecreateForModelMesh, DeployAgain, WaitForCondition, IsModelLoaded, CheckModelStatus, Expire, Sampling, cluster

LEMMA NextCases ==
    ASSUME [Next]_vars
    PROVE  \/ (FixtureStep \/ Tick \/ TearDown \/ ControllerStep) /\ UNCHANGED clients
           \/ (ClientStep \/ \E c \in Calls : Ask(c)) /\ UNCHANGED fixtureVars
           \/ UNCHANGED <<fixtureVars, clients>>
BY DEF Next, vars, Ask

LEMMA StepDeadlines ==
    ASSUME FixtureTypeOK, Deadlines, FixtureStep \/ Tick \/ TearDown \/ ControllerStep
    PROVE  Deadlines'
<1>1. /\ clock \in Nat /\ deadline \in Nat /\ Budget \in Nat \ {0} /\ PodsWait = 1
      /\ Spare \in Nat /\ DeletionWait \in Nat /\ pc \in Waits \cup Steps \cup Ends
  BY FixtureAssumption, SpareTyped DEF FixtureTypeOK, PodsWait
<1>2. Spare' = Spare /\ CheckReady' = CheckReady /\ Recreates' = Recreates
  BY FixtureKeepsCluster, ControllersKeepFixture DEF Spare, CheckReady, Recreates, Mode
<1>3. /\ Remaining \in Nat /\ clock + Remaining <= Budget + PodsWait + Spare
      /\ clock <= Budget + PodsWait => clock + Remaining <= Budget + PodsWait
  <2>1. clock <= Budget + PodsWait + Spare
    BY DEF Deadlines, BudgetKept, Spare
  <2>2. QED
    BY <1>1, <2>1, RemainingTyped
<1>4. /\ clock <= Budget + PodsWait + Spare
      /\ pc = "new" => clock = 0
      /\ pc = "pods" => deadline = PodsWait
      /\ pc = "mesh" => CheckReady
      /\ pc \in Waits \ BesideBudget => deadline <= Budget + PodsWait
      /\ pc \in BesideBudget => deadline <= Budget + PodsWait + Spare
      /\ pc \notin BesideBudget \cup {"final"} \cup Ends => clock <= Budget + PodsWait
  BY DEF Deadlines, BudgetKept, Spare
<1> SUFFICES
      /\ clock' <= Budget + PodsWait + Spare
      /\ pc' = "new" => clock' = 0
      /\ pc' = "pods" => deadline' = PodsWait
      /\ pc' = "mesh" => CheckReady
      /\ pc' \in Waits \ BesideBudget => deadline' <= Budget + PodsWait
      /\ pc' \in BesideBudget => deadline' <= Budget + PodsWait + Spare
      /\ pc' \notin BesideBudget \cup {"final"} \cup Ends => clock' <= Budget + PodsWait
  BY <1>2 DEF Deadlines, BudgetKept, Spare, PodsWait
<1> HIDE DEF Remaining, Spare, CheckReady, Recreates
<1> USE <1>1, <1>4 DEF Waits, BesideBudget, Ends, Wait, Fail, Proceed
<1>5. CASE ControllerStep
  BY <1>5, ControllersKeepFixture
<1>6. CASE Tick \/ TearDown
  BY <1>6 DEF Tick, TearDown
<1>7. CASE FixtureStep
  <2>1. CASE Deploy
    BY <1>3, <2>1 DEF Deploy, AfterPods
  <2>2. CASE DeployLlm
    BY <1>3, <2>2 DEF DeployLlm
  <2>3. CASE PodsExist
    BY <2>3 DEF PodsExist, Sampling
  <2>4. CASE VerifyNoFailedPods
    BY <1>3, <2>4 DEF VerifyNoFailedPods, Sampling
  <2>5. CASE ListDeployments \/ IsModelLoaded
    BY <2>5 DEF ListDeployments, IsModelLoaded, Sampling
  <2>6. CASE DeploymentExists
    BY <1>3, <2>6 DEF DeploymentExists
  <2>7. CASE WaitForReplicasInDeployment
    BY <1>3, <2>7 DEF WaitForReplicasInDeployment, Sampling
  <2>8. CASE WaitForReplicas
    BY <2>8 DEF WaitForReplicas, Sampling, AfterPods
  <2>9. CASE RecreateForModelMesh
    <3>1. Recreates => Spare = DeletionWait
      BY <2>9 DEF RecreateForModelMesh, Spare
    <3>2. QED
      BY <1>3, <2>9, <3>1 DEF RecreateForModelMesh
  <2>10. CASE DeployAgain
    BY <1>3, <2>10 DEF DeployAgain
  <2>11. CASE WaitForCondition
    BY <1>3, <2>11 DEF WaitForCondition, Sampling
  <2>12. CASE CheckModelStatus \/ Expire
    BY <2>12 DEF CheckModelStatus, FinalStatus, Expire
  <2>13. QED
    BY <1>7, <2>1, <2>2, <2>3, <2>4, <2>5, <2>6, <2>7, <2>8, <2>9, <2>10, <2>11, <2>12
       DEF FixtureStep
<1>8. QED
  BY <1>5, <1>6, <1>7

LEMMA StepSeen ==
    ASSUME SeenIsThere, FixtureStep \/ Tick \/ TearDown \/ ControllerStep
    PROVE  SeenIsThere'
<1> USE DEF SeenIsThere
<1>1. CASE ControllerStep
  BY <1>1, ControllersKeepFixture
<1>2. CASE Tick \/ TearDown
  BY <1>2 DEF Tick, TearDown, Proceed
<1>3. CASE FixtureStep
  BY <1>3 DEF FixtureStep, Deploy, DeployLlm, PodsExist, VerifyNoFailedPods, ListDeployments,
     DeploymentExists, WaitForReplicasInDeployment, WaitForReplicas, RecreateForModelMesh,
     DeployAgain, WaitForCondition, IsModelLoaded, CheckModelStatus, FinalStatus, Expire, Sampling, AfterPods,
     Wait, Proceed, Fail
<1>4. QED
  BY <1>1, <1>2, <1>3

LEMMA StepBuilt ==
    ASSUME Built, FixtureStep \/ Tick \/ TearDown \/ ControllerStep
    PROVE  Built'
<1> USE DEF Built
<1>1. CASE ControllerStep
  BY <1>1, ControllersKeepFixture
<1>2. CASE Tick \/ TearDown
  BY <1>2 DEF Tick, TearDown, Proceed, Waits
<1>3. CASE FixtureStep
  BY <1>3 DEF FixtureStep, Deploy, DeployLlm, PodsExist, VerifyNoFailedPods, ListDeployments,
     DeploymentExists, WaitForReplicasInDeployment, WaitForReplicas, RecreateForModelMesh,
     DeployAgain, WaitForCondition, IsModelLoaded, CheckModelStatus, FinalStatus, Expire, Sampling, AfterPods,
     Wait, Proceed, Fail, Waits
<1>4. QED
  BY <1>1, <1>2, <1>3

-----------------------------------------------------------------------------
(* Types of the fixture and the cluster.                                   *)

LEMMA FixtureTypes ==
    ASSUME FixtureTyped, FixtureStep \/ Tick \/ TearDown
    PROVE  FixtureTyped'
<1>1. UNCHANGED <<r, pods, deps, spec, disturbed>>
  BY FixtureKeepsCluster
<1>2. /\ r \in Requests /\ pc \in Waits \cup Steps \cup Ends /\ clock \in Nat /\ deadline \in Nat
      /\ listed \in {0} \cup Deployments /\ inc \in 0..2 /\ readySeen \in 0..2
      /\ deps \subseteq Deployments /\ ready \in BOOLEAN /\ model \in {"none", "loading", "loaded"}
      /\ (pc = "new" => inc = 0)
      /\ (pc \in (Waits \cup {"listed", "mesh"}) \ {"condition", "loaded"} => inc = 1)
  BY DEF FixtureTyped, FixtureTypeOK
<1>3. Remaining \in Nat /\ \A k \in Nat : clock + k \in Nat
  BY <1>2, RemainingTyped
<1>4. Budget \in Nat /\ PodsWait \in Nat /\ DeletionWait \in Nat
  BY FixtureAssumption DEF PodsWait
<1>5. SUFFICES
        /\ pc' \in Waits \cup Steps \cup Ends /\ clock' \in Nat /\ deadline' \in Nat
        /\ listed' \in {0} \cup Deployments /\ inc' \in 0..2 /\ readySeen' \in 0..2
        /\ ready' \in BOOLEAN /\ model' \in {"none", "loading", "loaded"}
        /\ (pc' = "new" => inc' = 0)
        /\ (pc' \in (Waits \cup {"listed", "mesh"}) \ {"condition", "loaded"} => inc' = 1)
  BY <1>1 DEF FixtureTyped, FixtureTypeOK
<1> HIDE DEF Remaining
<1> USE <1>2, <1>3, <1>4 DEF Waits, Steps, Ends, Proceed, Wait, Fail
<1>6. CASE Tick \/ TearDown
  BY <1>6 DEF Tick, TearDown, cluster
<1>7. CASE Deploy \/ DeployLlm
  BY <1>7 DEF Deploy, DeployLlm, AfterPods, cluster
<1>8. CASE PodsExist \/ VerifyNoFailedPods
  BY <1>8 DEF PodsExist, VerifyNoFailedPods, Sampling, cluster
<1>9. CASE ListDeployments \/ DeploymentExists
  BY <1>9 DEF ListDeployments, DeploymentExists, Sampling, cluster
<1>10. CASE WaitForReplicasInDeployment \/ WaitForReplicas
  BY <1>10 DEF WaitForReplicasInDeployment, WaitForReplicas, AfterPods, Sampling, cluster
<1>11. CASE RecreateForModelMesh \/ DeployAgain
  <2>1. CASE RecreateForModelMesh
    BY <2>1 DEF RecreateForModelMesh, cluster
  <2>2. CASE DeployAgain
    <3>1. inc = 1
      BY <2>2 DEF DeployAgain
    <3>2. inc' = 2 /\ pc' = "condition" /\ deadline' = clock + Remaining
      BY <2>2, <3>1 DEF DeployAgain
    <3>3. ready' = FALSE /\ model' = "none" /\ UNCHANGED <<clock, listed, readySeen>>
      BY <2>2 DEF DeployAgain
    <3>4. deadline' \in Nat /\ inc' \in 0..2
      BY <3>2
    <3>5. pc' \in Waits \cup Steps \cup Ends /\ (pc' = "new" => inc' = 0)
          /\ (pc' \in (Waits \cup {"listed", "mesh"}) \ {"condition", "loaded"} => inc' = 1)
      BY <3>2
    <3>6. QED
      BY <3>3, <3>4, <3>5
  <2>3. QED
    BY <1>11, <2>1, <2>2
<1>12. CASE WaitForCondition \/ IsModelLoaded
  BY <1>12 DEF WaitForCondition, IsModelLoaded, Sampling, cluster
<1>13. CASE CheckModelStatus \/ Expire
  BY <1>13 DEF CheckModelStatus, FinalStatus, Expire, cluster
<1>14. QED
  BY <1>6, <1>7, <1>8, <1>9, <1>10, <1>11, <1>12, <1>13 DEF FixtureStep

LEMMA PodsGrow ==
    ASSUME NEW p \in Pods \ DOMAIN pods, pods \in [DOMAIN pods -> PodStates],
           DOMAIN pods \subseteq Pods, pods' = (p :> "pending") @@ pods
    PROVE  /\ DOMAIN pods' = DOMAIN pods \cup {p} /\ pods' \in [DOMAIN pods' -> PodStates]
           /\ pods'[p] = "pending" /\ \A q \in DOMAIN pods : pods'[q] = pods[q]
<1>1. pods' = [q \in {p} \cup DOMAIN pods |-> IF q \in {p} THEN "pending" ELSE pods[q]]
  BY DEF :>, @@
<1>2. QED
  BY <1>1 DEF PodStates

LEMMA MinReplicasTyped ==
    ASSUME r \in Requests
    PROVE  MinReplicas \in Nat
<1>1. r.min \in Nat \cup {Unset}
  BY RequestsAssumption
<1>2. QED
  BY <1>1 DEF MinReplicas

LEMMA ControllerTypes ==
    ASSUME FixtureTyped, ControllerStep
    PROVE  FixtureTyped'
<1>1. /\ UNCHANGED <<r, pc, clock, deadline, listed, readySeen, inc>>
      /\ disturbed \in 0..Disturbances => disturbed' \in 0..Disturbances
  <2>1. disturbed' = disturbed \/ (disturbed < Disturbances /\ disturbed' = disturbed + 1)
    BY DEF ControllerStep, ComingUp, DeploymentAppears, ReplicasSet, PodAppears, PodStarts,
       BecomesReady, ModelLoads, PodFails, PodLeaves, RollOut, Rescaled, Relapse, Controllers
  <2>2. QED
    BY <2>1, ControllersKeepFixture, FixtureAssumption
<1>2. /\ DOMAIN pods \subseteq Pods /\ pods \in [DOMAIN pods -> PodStates]
      /\ deps \subseteq Deployments /\ spec \in Nat /\ ready \in BOOLEAN
      /\ model \in {"none", "loading", "loaded"}
  BY DEF FixtureTyped, FixtureTypeOK
<1>3. DOMAIN pods' \subseteq Pods /\ pods' \in [DOMAIN pods' -> PodStates]
  <2>1. CASE PodAppears
    BY <1>2, <2>1, PodsGrow DEF PodAppears
  <2>2. CASE PodStarts \/ PodFails
    BY <1>2, <2>2 DEF PodStarts, PodFails, PodStates
  <2>3. CASE PodLeaves
    BY <1>2, <2>3 DEF PodLeaves
  <2>4. CASE pods' = pods
    BY <1>2, <2>4
  <2>5. QED
    BY <2>1, <2>2, <2>3, <2>4 DEF ControllerStep, ComingUp, DeploymentAppears, ReplicasSet,
       BecomesReady, ModelLoads, RollOut, Rescaled, Relapse
<1>4. MinReplicas \in Nat
  BY MinReplicasTyped DEF FixtureTyped, FixtureTypeOK
<1>5. deps' \subseteq Deployments /\ spec' \in Nat
  <2>1. CASE DeploymentAppears
    BY <2>1 DEF DeploymentAppears, Deployments
  <2>2. CASE ReplicasSet
    BY <1>2, <1>4, <2>2 DEF ReplicasSet
  <2>3. CASE RollOut
    <3>1. PICK d \in Deployments : deps' \in {deps \cup {d}, deps \ {d}}
      BY <2>3 DEF RollOut
    <3>2. deps' \subseteq Deployments
      BY <1>2, <3>1
    <3>3. QED
      BY <1>2, <2>3, <3>2 DEF RollOut
  <2>4. CASE Rescaled
    <3>1. MaxReplicas \in Nat
      BY FixtureAssumption
    <3>2. spec' \in 0..MaxReplicas /\ deps' = deps
      BY <2>4 DEF Rescaled
    <3>3. QED
      BY <1>2, <3>1, <3>2
  <2>5. CASE deps' = deps /\ spec' = spec
    BY <1>2, <2>5
  <2>6. QED
    BY <2>1, <2>2, <2>3, <2>4, <2>5 DEF ControllerStep, ComingUp, PodAppears, PodStarts,
       BecomesReady, ModelLoads, PodFails, PodLeaves, Relapse
<1>6. ready' \in BOOLEAN /\ model' \in {"none", "loading", "loaded"}
  BY <1>2 DEF ControllerStep, ComingUp, DeploymentAppears, ReplicasSet, PodAppears, PodStarts,
     BecomesReady, ModelLoads, PodFails, PodLeaves, RollOut, Rescaled, Relapse
<1>7. QED
  BY <1>1, <1>3, <1>5, <1>6 DEF FixtureTyped, FixtureTypeOK

-----------------------------------------------------------------------------
(* What is not disturbed only grows.                                       *)

LEMMA SomePod ==
    ASSUME pods \in [DOMAIN pods -> PodStates], AllReady
    PROVE  Running # {}
<1>1. DOMAIN pods = {} => pods = << >>
  OBVIOUS
<1>2. QED
  BY <1>1 DEF AllReady

LEMMA FixtureGrowing ==
    ASSUME FixtureTyped, Growing, FixtureStep \/ Tick \/ TearDown
    PROVE  Growing'
<1>1. UNCHANGED <<r, pods, deps, spec, disturbed>>
  BY FixtureKeepsCluster
<1> SUFFICES ASSUME disturbed = 0
    PROVE  /\ pc' \in AfterVerify => Running # {}
           /\ pc' \in AfterListing => listed' \in deps
           /\ pc' = "replicas" /\ Raw => spec = MinReplicas
           /\ pc' \in Later /\ CheckPods =>
                 /\ Running # {} /\ listed' \in deps
                 /\ Raw => spec = MinReplicas /\ Available
  BY <1>1 DEF Growing, Running, Raw, Mode, MinReplicas, CheckPods, Available
<1>2. /\ pc \in AfterVerify => Running # {}
      /\ pc \in AfterListing => listed \in deps
      /\ pc = "replicas" /\ Raw => spec = MinReplicas
      /\ pc \in Later /\ CheckPods =>
            /\ Running # {} /\ listed \in deps
            /\ Raw => spec = MinReplicas /\ Available
  BY DEF Growing
<1> USE <1>2 DEF AfterVerify, AfterListing, Later, Proceed, Wait, Fail, Sampling
<1> HIDE DEF Running, Available, Raw, MinReplicas, Remaining
<1>3. CASE Tick \/ TearDown
  BY <1>3 DEF Tick, TearDown
<1>4. CASE Deploy
  BY <1>4 DEF Deploy, AfterPods
<1>5. CASE DeployLlm
  <2>1. ~CheckPods
    BY <1>5, RequestsAssumption DEF DeployLlm, CheckPods, FixtureTyped, FixtureTypeOK
  <2>2. QED
    BY <1>5, <2>1 DEF DeployLlm
<1>6. CASE PodsExist
  BY <1>6 DEF PodsExist
<1>7. CASE VerifyNoFailedPods
  BY <1>7, SomePod DEF VerifyNoFailedPods, FixtureTyped
<1>8. CASE ListDeployments
  BY <1>8 DEF ListDeployments
<1>9. CASE DeploymentExists
  BY <1>9 DEF DeploymentExists, AwaitsSpec, Raw
<1>10. CASE WaitForReplicasInDeployment
  BY <1>10 DEF WaitForReplicasInDeployment
<1>11. CASE WaitForReplicas
  BY <1>11 DEF WaitForReplicas, AfterPods
<1>12. CASE RecreateForModelMesh \/ DeployAgain
  BY <1>12 DEF RecreateForModelMesh, DeployAgain
<1>13. CASE WaitForCondition
  BY <1>13 DEF WaitForCondition
<1>14. CASE IsModelLoaded \/ CheckModelStatus
  BY <1>14 DEF IsModelLoaded, CheckModelStatus, FinalStatus
<1>15. CASE Expire
  BY <1>15 DEF Expire
<1>16. QED
  BY <1>3, <1>4, <1>5, <1>6, <1>7, <1>8, <1>9, <1>10, <1>11, <1>12, <1>13, <1>14, <1>15
     DEF FixtureStep

\* A step that takes no pod and no deployment away.
LEMMA Grows ==
    ASSUME Growing, UNCHANGED <<r, pc, listed>>, disturbed = 0,
           deps' = {1}, deps \subseteq deps', Running \subseteq Running',
           \A p \in DOMAIN pods' : pods'[p] \in {"pending", "ready"},
           Raw /\ (pc = "replicas" \/ (pc \in Later /\ CheckPods)) => spec' = spec,
           Raw /\ pc \in Later /\ CheckPods => Available'
    PROVE  Growing'
<1>1. /\ pc \in AfterVerify => Running # {}
      /\ pc \in AfterListing => listed \in deps
      /\ pc = "replicas" /\ Raw => spec = MinReplicas
      /\ pc \in Later /\ CheckPods =>
            /\ Running # {} /\ listed \in deps
            /\ Raw => spec = MinReplicas /\ Available
  BY DEF Growing
<1>2. Running # {} => Running' # {}
  OBVIOUS
<1>3. Raw' = Raw /\ MinReplicas' = MinReplicas /\ CheckPods' = CheckPods
  BY DEF Raw, Mode, MinReplicas, CheckPods
<1> HIDE DEF Running, Available, Raw, MinReplicas, CheckPods
<1>4. /\ pc' \in AfterVerify => Running' # {}
      /\ pc' \in AfterListing => listed' \in deps'
      /\ pc' = "replicas" /\ Raw' => spec' = MinReplicas'
      /\ pc' \in Later /\ CheckPods' =>
            /\ Running' # {} /\ listed' \in deps'
            /\ Raw' => spec' = MinReplicas' /\ Available'
  BY <1>1, <1>2, <1>3
<1>5. QED
  BY <1>4 DEF Growing

LEMMA ControllerGrowing ==
    ASSUME FixtureTyped, Growing, ControllerStep
    PROVE  Growing'
<1>1. UNCHANGED <<r, pc, clock, deadline, listed, readySeen, inc>>
  BY ControllersKeepFixture
<1>2. CASE disturbed' # 0
  BY <1>2 DEF Growing
<1>3. CASE disturbed' = 0
  <2>1. disturbed = 0 /\ ComingUp
    <3>1. disturbed \in Nat
      BY FixtureAssumption DEF FixtureTyped, FixtureTypeOK
    <3>2. QED
      BY <1>3, <3>1 DEF ControllerStep, PodFails, PodLeaves, RollOut, Rescaled, Relapse,
         ComingUp, DeploymentAppears, ReplicasSet, PodAppears, PodStarts, BecomesReady, ModelLoads,
         Controllers
  <2>2. /\ deps \in {{}, {1}} /\ (deps = {} => spec = 0 /\ DOMAIN pods = {})
        /\ \A p \in DOMAIN pods : pods[p] \in {"pending", "ready"}
        /\ Raw /\ pc = "replicas" => spec = MinReplicas
        /\ Raw /\ pc \in Later /\ CheckPods => spec = MinReplicas /\ Available
        /\ pc \in Later /\ CheckPods => Running # {}
    BY <2>1 DEF Growing
  <2>3. /\ IsFiniteSet(DOMAIN pods) /\ Cardinality(DOMAIN pods) \in Nat
        /\ pods \in [DOMAIN pods -> PodStates] /\ DOMAIN pods \subseteq Pods
    <3>1. DOMAIN pods \subseteq Pods /\ pods \in [DOMAIN pods -> PodStates] /\ IsFiniteSet(Pods)
      BY FixtureAssumption DEF FixtureTyped, FixtureTypeOK
    <3>2. IsFiniteSet(DOMAIN pods)
      BY <3>1, FS_Subset
    <3>3. QED
      BY <3>1, <3>2, FS_CardinalityType
  <2>4. CASE DeploymentAppears
    <3>1. deps = {} /\ deps' = {1} /\ pods' = pods /\ DOMAIN pods = {}
      BY <2>2, <2>4 DEF DeploymentAppears
    <3>2. Running = {} /\ Running' = {}
      BY <3>1 DEF Running
    <3>3. pc \notin AfterVerify /\ ~(pc \in Later /\ CheckPods) /\ pc # "replicas"
          /\ pc \notin AfterListing
      BY <2>1, <3>2 DEF Growing, AfterVerify, AfterListing
    <3>4. CheckPods' = CheckPods
      BY <1>1 DEF CheckPods
    <3>5. QED
      BY <1>1, <3>1, <3>3, <3>4 DEF Growing
  <2>5. CASE ReplicasSet
    <3>1. deps' = {1} /\ deps' = deps /\ pods' = pods /\ spec # MinReplicas
      BY <2>2, <2>5 DEF ReplicasSet
    <3>2. Running' = Running
      BY <3>1 DEF Running
    <3>3. QED
      BY <1>1, <2>1, <2>2, <3>1, <3>2, Grows
  <2>6. CASE PodAppears
    <3>1. /\ Cardinality(DOMAIN pods) < spec /\ deps' = deps /\ spec' = spec
          /\ \E p \in Pods \ DOMAIN pods : pods' = (p :> "pending") @@ pods
      BY <2>6 DEF PodAppears
    <3>2. PICK p \in Pods \ DOMAIN pods : pods' = (p :> "pending") @@ pods
      BY <3>1
    <3>3. /\ DOMAIN pods' = DOMAIN pods \cup {p} /\ pods'[p] = "pending"
          /\ \A q \in DOMAIN pods : pods'[q] = pods[q]
      BY <2>3, <3>2, PodsGrow
    <3>4. deps = {1}
      BY <2>2, <2>3, <3>1
    <3>5. Running \subseteq Running' /\ \A q \in DOMAIN pods' : pods'[q] \in {"pending", "ready"}
      BY <2>2, <3>3 DEF Running
    <3>6. ~Available
      BY <2>3, <3>1 DEF Available
    <3>7. QED
      BY <1>1, <2>1, <2>2, <3>1, <3>4, <3>5, <3>6, Grows
  <2>7. CASE PodStarts
    <3>1. PICK p \in DOMAIN pods : /\ pods[p] \in {"pending", "crash"}
                                   /\ pods' = [pods EXCEPT ![p] = "ready"]
      BY <2>7 DEF PodStarts
    <3>2. /\ DOMAIN pods' = DOMAIN pods /\ pods'[p] = "ready" /\ deps' = deps /\ spec' = spec
          /\ \A q \in DOMAIN pods : q # p => pods'[q] = pods[q]
      BY <2>3, <2>7, <3>1 DEF PodStarts
    <3>3. Running \subseteq Running' /\ \A q \in DOMAIN pods' : pods'[q] \in {"pending", "ready"}
      BY <2>2, <3>2 DEF Running
    <3>4. Available => Available'
      BY <3>2, <3>3 DEF Available, Running
    <3>5. deps = {1}
      BY <2>2, <3>1
    <3>6. QED
      BY <1>1, <2>1, <2>2, <3>2, <3>3, <3>4, <3>5, Grows
  <2>8. CASE BecomesReady \/ ModelLoads
    <3>1. UNCHANGED <<pods, deps, spec, disturbed>>
      BY <2>8 DEF BecomesReady, ModelLoads, Controllers
    <3>2. QED
      BY <1>1, <3>1 DEF Growing, Running, Raw, Mode, MinReplicas, CheckPods, Available
  <2>9. QED
    BY <2>1, <2>4, <2>5, <2>6, <2>7, <2>8 DEF ComingUp
<1>4. QED
  BY <1>2, <1>3

\* The test gets what Growing keeps of the waits.
LEMMA GrowingIsHealthy ==
    ASSUME FixtureTyped, Growing
    PROVE  QuietClusterIsHealthy
<1> SUFFICES ASSUME pc = "up", CheckPods, disturbed = 0
    PROVE  /\ deps = {listed} /\ Running # {}
           /\ Mode \in RawModes => Running = DOMAIN pods /\ Cardinality(Running) = MinReplicas
  BY DEF QuietClusterIsHealthy
<1>1. /\ deps \in {{}, {1}} /\ listed \in deps /\ Running # {}
      /\ Raw => spec = MinReplicas /\ Available
  BY DEF Growing, Later
<1>2. QED
  BY <1>1 DEF Raw, Available

-----------------------------------------------------------------------------
(* The fixture as a whole.                                                 *)

LEMMA StepFixtureInv ==
    ASSUME FixtureInv, FixtureStep \/ Tick \/ TearDown \/ ControllerStep
    PROVE  FixtureInv'
<1>1. FixtureTyped'
  BY FixtureTypes, ControllerTypes DEF FixtureInv
<1>2. Deadlines'
  BY StepDeadlines DEF FixtureInv, FixtureTyped
<1>3. SeenIsThere' /\ Built'
  BY StepSeen, StepBuilt DEF FixtureInv
<1>4. Growing'
  BY FixtureGrowing, ControllerGrowing DEF FixtureInv
<1>5. QED
  BY <1>1, <1>2, <1>3, <1>4 DEF FixtureInv

LEMMA FixtureStays ==
    ASSUME FixtureInv, UNCHANGED fixtureVars
    PROVE  FixtureInv'
<1>1. UNCHANGED <<r, pc, clock, deadline, listed, readySeen, pods, deps, spec, ready, model,
                  disturbed, inc>>
  BY DEF fixtureVars, fixture, cluster
<1>2. FixtureTyped'
  BY <1>1 DEF FixtureInv, FixtureTyped, FixtureTypeOK
<1>3. Deadlines' /\ SeenIsThere' /\ Built'
  BY <1>1 DEF FixtureInv, Deadlines, BudgetKept, Spare, CheckReady, Recreates, Mode, SeenIsThere, Built
<1>4. Growing'
  BY <1>1 DEF FixtureInv, Growing, Running, Raw, Mode, MinReplicas, CheckPods, Available
<1>5. QED
  BY <1>2, <1>3, <1>4 DEF FixtureInv

-----------------------------------------------------------------------------
(* The clients.                                                            *)

\* Tokens are counted as they stand: all in hand are of this attempt.
LEMMA AllOfThisAttempt ==
    ASSUME GotFits, phase = "trying"
    PROVE  Cardinality({i \in DOMAIN got : got[i][1] = attempt}) = Len(got)
<1>1. /\ got \in Seq(Nat \X STRING)
      /\ \A i \in 1..Len(got) :
            got[i] = <<attempt, Answer[i]>> \/ got[i] = <<attempt, ErrorMessage>>
  BY DEF GotFits
<1>2. {i \in DOMAIN got : got[i][1] = attempt} = 1..Len(got)
  <2>1. \A i \in 1..Len(got) : got[i][1] = attempt
    BY <1>1
  <2>2. DOMAIN got = 1..Len(got)
    BY <1>1
  <2>3. QED
    BY <2>1, <2>2
<1>3. Len(got) \in Nat
  BY <1>1
<1>4. Cardinality(1..Len(got)) = Len(got)
  BY <1>3, FS_Interval
<1>5. QED
  BY <1>2, <1>4

LEMMA TokenStep ==
    ASSUME ClientInv, TokenArrives
    PROVE  ClientInv'
<1>1. /\ phase = "trying" /\ phase' = phase /\ call' = call /\ attempt' = attempt /\ cut' = cut
      /\ call \in {"stream", "tgisStream"} /\ out' = out /\ ~cut
  BY DEF TokenArrives, Trying
<1>2. /\ got \in Seq(Nat \X STRING) /\ Len(got) <= Len(Answer)
      /\ \A i \in 1..Len(got) : got[i] = <<attempt, Answer[i]>>
      /\ attempt \in Nat /\ Answer \in Seq(STRING)
  BY <1>1, AnswerAssumption DEF ClientInv, GotFits, ClientTypeOK, CurlAttempts
<1>3. Len(got) < Len(Answer) /\ got' = Append(got, <<attempt, Answer[Len(got) + 1]>>)
  BY <1>1, AllOfThisAttempt DEF TokenArrives, ClientInv
<1>4. Answer[Len(got) + 1] \in STRING
  BY <1>2, <1>3
<1>5. /\ got' \in Seq(Nat \X STRING) /\ Len(got') = Len(got) + 1 /\ Len(got') <= Len(Answer)
      /\ \A i \in 1..Len(got') : got'[i] = <<attempt, Answer[i]>>
  BY <1>2, <1>3, <1>4
<1>6. QED
  BY <1>1, <1>5 DEF ClientInv, ClientTypeOK, Tries, GotFits, StreamedAnswerIsWhole

LEMMA ErrorStep ==
    ASSUME ClientInv, ErrorArrives
    PROVE  ClientInv'
<1>1. /\ phase = "trying" /\ phase' = phase /\ call' = call /\ attempt' = attempt /\ ~cut /\ cut'
      /\ call = "stream" /\ out' = out
      /\ Len(got) < Len(Answer) /\ got' = Append(got, <<attempt, ErrorMessage>>)
  BY DEF ErrorArrives, Trying
<1>2. got \in Seq(Nat \X STRING) /\ \A i \in 1..Len(got) : got[i] = <<attempt, Answer[i]>>
  BY <1>1 DEF ClientInv, GotFits
<1> attempt \in Nat /\ Len(Answer) \in Nat
  BY AnswerAssumption DEF ClientInv, ClientTypeOK, CurlAttempts
<1> ErrorMessage \in STRING
  BY AnswerAssumption
<1>3. /\ got' \in Seq(Nat \X STRING) /\ Len(got') = Len(got) + 1 /\ Len(got') <= Len(Answer)
      /\ \A i \in 1..Len(got) : got'[i] = <<attempt, Answer[i]>>
      /\ got'[Len(got')] = <<attempt, ErrorMessage>>
  <2> DEFINE item == <<attempt, ErrorMessage>>
  <2>1. item \in Nat \X STRING
    OBVIOUS
  <2> HIDE DEF item
  <2>2. got' = Append(got, item)
    BY <1>1 DEF item
  <2>3. /\ got' \in Seq(Nat \X STRING) /\ Len(got') = Len(got) + 1
        /\ \A i \in 1..Len(got) : got'[i] = got[i]
        /\ got'[Len(got) + 1] = item
    BY <1>2, <2>1, <2>2
  <2>4. Len(got') <= Len(Answer)
    BY <1>1, <1>2, <2>3
  <2>5. QED
    BY <1>2, <2>3, <2>4 DEF item
<1>4. GotFits'
  BY <1>1, <1>2, <1>3 DEF GotFits
<1>5. QED
  BY <1>1, <1>3, <1>4 DEF ErrorArrives, ClientInv, ClientTypeOK, Tries, StreamedAnswerIsWhole

\* What a stream that is over has brought.
LEMMA StreamHasAll ==
    ASSUME ClientInv, phase = "trying", StreamOver,
           NEW result, result = [i \in DOMAIN got |-> got[i][2]]
    PROVE  /\ Len(result) <= Len(Answer)
           /\ Len(result) < Len(Answer) => cut
           /\ \A i \in DOMAIN result :
                 \/ result[i] = Answer[i]
                 \/ cut /\ call = "stream" /\ i = Len(result) /\ result[i] = ErrorMessage
<1>1. /\ got \in Seq(Nat \X STRING) /\ Len(got) <= Len(Answer)
      /\ \A i \in 1..Len(got) :
            \/ got[i] = <<attempt, Answer[i]>>
            \/ cut /\ call = "stream" /\ i = Len(got) /\ got[i] = <<attempt, ErrorMessage>>
  BY DEF ClientInv, GotFits
<1>2. /\ DOMAIN result = 1..Len(got) /\ Len(result) = Len(got) /\ Len(got) \in Nat
      /\ \A i \in DOMAIN result :
            \/ result[i] = Answer[i]
            \/ cut /\ call = "stream" /\ i = Len(result) /\ result[i] = ErrorMessage
  <2>1. DOMAIN result = 1..Len(got) /\ Len(got) \in Nat
    BY <1>1
  <2>2. \A i \in 1..Len(got) :
           \/ result[i] = Answer[i]
           \/ cut /\ call = "stream" /\ i = Len(got) /\ result[i] = ErrorMessage
    <3> SUFFICES ASSUME NEW i \in 1..Len(got)
        PROVE  \/ result[i] = Answer[i]
               \/ cut /\ call = "stream" /\ i = Len(got) /\ result[i] = ErrorMessage
      OBVIOUS
    <3>1. result[i] = got[i][2]
      BY <2>1
    <3>2. QED
      BY <1>1, <3>1
  <2>3. \A i \in 1..Len(got) : got[i][2] \in STRING
    BY <1>1
  <2>4. result \in Seq(STRING)
    BY <2>1, <2>3
  <2>5. Len(result) = Len(got)
    BY <2>1, <2>4
  <2>6. QED
    BY <2>1, <2>2, <2>5
<1>3. Len(got) < Len(Answer) => cut
  <2>1. CASE got # << >> /\ got[Len(got)][2] = Answer[Len(Answer)]
    <3>1. Len(got) \in 1..Len(got) /\ (cut \/ Answer[Len(got)] = Answer[Len(Answer)])
      BY <1>1, <2>1
    <3>2. Len(got) \in 1..Len(Answer) /\ Len(Answer) \in Nat
      BY <1>1, <3>1, AnswerAssumption
    <3>3. cut \/ Len(got) = Len(Answer)
      BY <3>1, <3>2, AnswerAssumption
    <3>4. QED
      BY <3>2, <3>3
  <2>2. QED
    BY <2>1 DEF StreamOver
<1>4. QED
  BY <1>1, <1>2, <1>3

LEMMA StepClientInv ==
    ASSUME ClientInv, ClientStep
    PROVE  ClientInv'
<1> USE DEF Trying, Return, Raise, Retried
<1>1. /\ call \in Calls \cup {"none"} /\ phase \in {"idle", "trying", "returned", "raised"}
      /\ attempt \in 0..7 /\ Len(got) <= Len(Answer) /\ cut \in BOOLEAN
      /\ Len(Answer) \in Nat /\ CurlAttempts + 1 = 7
      /\ (call \in Retried => attempt <= MaxRetries)
  BY AnswerAssumption DEF ClientInv, ClientTypeOK, CurlAttempts, Tries
<1>2. phase = "trying" /\ UNCHANGED <<call, route>>
  BY DEF ClientStep, CurlAttempt, CurlExpires, AttemptFails, PostAnswers, OnceFails, TokenArrives,
     ErrorArrives, StreamIsCut, StreamReturns, TgisStreamReturns
<1>3. call \notin {"stream", "tgisStream"} => got = << >>
  BY <1>2 DEF ClientInv, GotFits
<1>4. CASE CurlAttempt
  <2>1. /\ call = "curl" /\ attempt <= 6 /\ got' = got /\ got = << >> /\ cut' = cut
        /\ \/ attempt' = attempt + 1 /\ phase' = phase /\ out' = out
           \/ attempt' = attempt /\ phase' \in {"raised", "returned"}
    BY <1>3, <1>4 DEF CurlAttempt, CurlAttempts
  <2>2. attempt' \in 0..7 /\ call' = "curl" /\ phase' \in {"trying", "returned", "raised"}
    <3>1. attempt \in Nat /\ attempt <= 6 /\ (attempt' = attempt \/ attempt' = attempt + 1)
      <4>1. attempt <= 6
        BY <1>4 DEF CurlAttempt, CurlAttempts
      <4>2. attempt' = attempt \/ attempt' = attempt + 1
        BY <1>4, Zenon DEF CurlAttempt
      <4>3. QED
        BY <1>1, <4>1, <4>2
    <3>2. attempt' \in 0..7
      BY <3>1
    <3>3. QED
      BY <1>2, <2>1, <3>2
  <2>3. ClientTypeOK' /\ Tries'
    BY <1>1, <2>1, <2>2 DEF ClientTypeOK, Tries, Calls, CurlAttempts
  <2>4. got' = << >> /\ Len(got') = 0
    BY <2>1
  <2>5. GotFits'
    BY <1>1, <2>4 DEF GotFits
  <2>6. StreamedAnswerIsWhole'
    BY <1>2, <2>1 DEF StreamedAnswerIsWhole
  <2>7. QED
    BY <2>3, <2>5, <2>6 DEF ClientInv
<1>5. CASE CurlExpires \/ PostAnswers \/ OnceFails
  <2>1. /\ UNCHANGED <<attempt, got, cut>> /\ phase' \in {"raised", "returned"}
        /\ (phase' = "returned" => (call \in {"stream", "tgisStream"} => out' = Nothing))
    BY <1>5 DEF CurlExpires, PostAnswers, OnceFails
  <2>2. ClientTypeOK' /\ Tries' /\ GotFits'
    BY <1>1, <1>2, <1>3, <2>1 DEF ClientTypeOK, Tries, GotFits, CurlAttempts
  <2>3. StreamedAnswerIsWhole'
    BY <1>2, <2>1 DEF StreamedAnswerIsWhole
  <2>4. QED
    BY <2>2, <2>3 DEF ClientInv
<1>6. CASE AttemptFails
  <2>1. /\ call \in Retried /\ got' = << >> /\ cut' = FALSE
        /\ \/ attempt' = attempt /\ phase' = "raised"
           \/ attempt # 5 /\ attempt' = attempt + 1 /\ phase' = "trying"
    BY <1>2, <1>6 DEF AttemptFails, Forget, MaxRetries
  <2>2. attempt' \in 0..5 /\ Len(got') = 0
    BY <1>1, <2>1 DEF MaxRetries
  <2>3. ClientTypeOK' /\ Tries'
    <3>1. attempt' \in 0..CurlAttempts + 1 /\ attempt' <= MaxRetries /\ 0 <= Len(Answer)
      BY <1>1, <2>2 DEF CurlAttempts, MaxRetries
    <3>2. call' \in Calls /\ phase' \in {"trying", "raised"} /\ cut' \in BOOLEAN
      BY <1>2, <2>1 DEF Calls
    <3>3. QED
      BY <2>2, <3>1, <3>2 DEF ClientTypeOK, Tries
  <2>4. GotFits'
    BY <1>1, <1>2, <2>1, <2>2 DEF GotFits
  <2>5. StreamedAnswerIsWhole'
    BY <1>2, <2>1 DEF StreamedAnswerIsWhole
  <2>6. QED
    BY <2>3, <2>4, <2>5 DEF ClientInv
<1>7. CASE TokenArrives \/ ErrorArrives
  BY <1>7, TokenStep, ErrorStep
<1>8. CASE StreamIsCut
  BY <1>1, <1>2, <1>8 DEF StreamIsCut, ClientInv, ClientTypeOK, Tries, GotFits,
     StreamedAnswerIsWhole
<1>9. CASE StreamReturns \/ TgisStreamReturns
  <2> DEFINE result == [i \in DOMAIN got |-> got[i][2]]
  <2>1. /\ StreamOver /\ UNCHANGED <<attempt, got, cut>> /\ phase' = "returned"
        /\ call \in {"stream", "tgisStream"}
        /\ \/ out' = result /\ (call = "stream" \/ ~cut)
           \/ out' = Nothing
    BY <1>9 DEF StreamReturns, TgisStreamReturns, StopReason
  <2>2. /\ Len(result) <= Len(Answer)
        /\ Len(result) < Len(Answer) => cut
        /\ \A i \in DOMAIN result :
              \/ result[i] = Answer[i]
              \/ cut /\ call = "stream" /\ i = Len(result) /\ result[i] = ErrorMessage
    BY <1>2, <2>1, StreamHasAll
  <2> HIDE DEF result
  <2>3. StreamedAnswerIsWhole'
    BY <1>2, <2>1, <2>2 DEF StreamedAnswerIsWhole
  <2>4. ClientTypeOK' /\ Tries' /\ GotFits'
    BY <1>1, <1>2, <2>1 DEF ClientTypeOK, Tries, GotFits, CurlAttempts
  <2>5. QED
    BY <2>3, <2>4 DEF ClientInv
<1>10. QED
  BY <1>4, <1>5, <1>6, <1>7, <1>8, <1>9 DEF ClientStep

\* The test asks: the call starts, with nothing in hand.
LEMMA StartClientInv ==
    ASSUME ClientInv, NEW c \in Calls, NEW to, Start(c, to)
    PROVE  ClientInv'
<1>1. /\ phase = "idle" /\ call' = c /\ phase' = "trying" /\ attempt' = 1
      /\ UNCHANGED <<got, out, cut>> /\ got = << >>
  BY DEF Start, ClientInv, GotFits
<1>2. Len(got') = 0 /\ Len(Answer) \in Nat
  BY <1>1, AnswerAssumption
<1>3. ClientTypeOK' /\ Tries'
  BY <1>1, <1>2 DEF ClientInv, ClientTypeOK, Tries, MaxRetries, CurlAttempts
<1>4. GotFits'
  BY <1>1, <1>2 DEF GotFits
<1>5. StreamedAnswerIsWhole'
  BY <1>1 DEF StreamedAnswerIsWhole
<1>6. QED
  BY <1>3, <1>4, <1>5 DEF ClientInv

LEMMA ClientStays ==
    ASSUME ClientInv, UNCHANGED clients
    PROVE  ClientInv'
BY DEF clients, ClientInv, ClientTypeOK, Tries, GotFits, StreamedAnswerIsWhole

-----------------------------------------------------------------------------
(* What create_isvc writes is what the clients read.                       *)

LEMMA ModeWritten ==
    ASSUME r.mode # Unset
    PROVE  DeploymentType(Isvc, r.status.mode) = r.mode
<1> DEFINE given == "deploymentMode" :> r.mode @@ "autoscalerClass" :> r.autoscaler
<1>1. "deploymentMode" \in DOMAIN given /\ given["deploymentMode"] = r.mode
  BY DEF :>, @@
<1> HIDE DEF given
<1>2. "deploymentMode" \in DOMAIN Given(given) /\ Given(given)["deploymentMode"] = r.mode
  BY <1>1 DEF Given
<1>3. Get(IsvcAnnotations(r), "deploymentMode") = r.mode
  <2> DEFINE auth == IF r.auth /\ r.mode \in KServeModes THEN "enable-auth" :> "true" ELSE << >>
             stop == IF r.stop THEN "stop" :> "True" ELSE << >>
  <2>1. IsvcAnnotations(r) = Given(given) @@ auth @@ stop
    BY DEF IsvcAnnotations, given
  <2> HIDE DEF auth, stop
  <2>2. Get((Given(given) @@ auth) @@ stop, "deploymentMode") = r.mode
    BY <1>2 DEF @@, Get
  <2>3. QED
    BY <2>1, <2>2
<1>4. Isvc.annotations = IsvcAnnotations(r)
  BY DEF Isvc, CreatedIsvc
<1>5. QED
  BY <1>3, <1>4 DEF DeploymentType

LEMMA LabelsWritten ==
    /\ Get(Isvc.labels, "kserve-visibility") = "exposed"
         <=> (r.external = "yes" /\ r.mode \in RawModes)
               \/ Get(r.labels, "kserve-visibility") = "exposed"
    /\ Get(Isvc.labels, "knative-visibility") # "cluster-local"
         <=> ~(r.external = "no" /\ r.mode = "Serverless")
               /\ Get(r.labels, "knative-visibility") # "cluster-local"
<1> DEFINE raw == IF r.external = "yes" /\ r.mode \in RawModes
                  THEN "kserve-visibility" :> "exposed" ELSE << >>
           less == IF r.external = "no" /\ r.mode = "Serverless"
                   THEN "knative-visibility" :> "cluster-local" ELSE << >>
<1>1. Isvc.labels = (raw @@ less) @@ r.labels
  BY DEF Isvc, CreatedIsvc, IsvcLabels
<1>2. /\ DOMAIN raw = IF r.external = "yes" /\ r.mode \in RawModes
                      THEN {"kserve-visibility"} ELSE {}
      /\ "kserve-visibility" \in DOMAIN raw => raw["kserve-visibility"] = "exposed"
  BY DEF :>
<1>3. /\ DOMAIN less = IF r.external = "no" /\ r.mode = "Serverless"
                       THEN {"knative-visibility"} ELSE {}
      /\ "knative-visibility" \in DOMAIN less => less["knative-visibility"] = "cluster-local"
  BY DEF :>
<1> HIDE DEF raw, less
<1>4. Get((raw @@ less) @@ r.labels, "kserve-visibility")
        = IF "kserve-visibility" \in DOMAIN raw THEN raw["kserve-visibility"]
          ELSE Get(r.labels, "kserve-visibility")
  BY <1>3 DEF @@, Get
<1>5. Get((raw @@ less) @@ r.labels, "knative-visibility")
        = IF "knative-visibility" \in DOMAIN less THEN less["knative-visibility"]
          ELSE Get(r.labels, "knative-visibility")
  BY <1>2 DEF @@, Get
<1>6. QED
  BY <1>1, <1>2, <1>3, <1>4, <1>5

LEMMA RouteWritten ==
    ASSUME Get(r.template.annotations, "enable-route") # "true"
    PROVE  Get(Runtime.annotations, "enable-route") = "true" <=> r.rt.route
<1> DEFINE route1 == IF r.rt.route THEN "enable-route" :> "true" ELSE << >>
           auth == IF r.rt.auth THEN "enable-auth" :> "true" ELSE << >>
           protocol == IF r.rt.protocol # Unset THEN "apiProtocol" :> r.rt.protocol ELSE << >>
<1>1. Runtime.annotations = ((route1 @@ auth) @@ protocol) @@ r.template.annotations
  BY DEF Runtime, UpdatedModelDict, RuntimeAnnotations
<1>2. DOMAIN route1 = (IF r.rt.route THEN {"enable-route"} ELSE {})
      /\ ("enable-route" \in DOMAIN route1 => route1["enable-route"] = "true")
  BY DEF :>
<1>3. "enable-route" \notin DOMAIN auth /\ "enable-route" \notin DOMAIN protocol
  BY DEF :>
<1> HIDE DEF route1, auth, protocol
<1>4. Get(((route1 @@ auth) @@ protocol) @@ r.template.annotations, "enable-route")
        = IF "enable-route" \in DOMAIN route1 THEN route1["enable-route"]
          ELSE Get(r.template.annotations, "enable-route")
  BY <1>3 DEF @@, Get
<1>5. QED
  BY <1>1, <1>2, <1>4

LEMMA ExposureWritten ==
    ASSUME r \in Requests, r.llm = Unset, r.mode # Unset, r.template # Unset
    PROVE  Url # "localhost" <=> RouteAsked
<1>1. /\ r.mode \in {"ModelMesh", "RawDeployment", "Standard", "Serverless"}
      /\ Get(r.template.annotations, "enable-route") # "true"
      /\ r.status.url # "localhost" /\ r.status.route # "localhost"
  BY RequestsAssumption DEF KServeModes, RawModes
<1>2. DeploymentType(Isvc, r.status.mode) = r.mode
  BY ModeWritten
<1>3. Isvc.kind = "isvc"
  BY DEF Isvc, CreatedIsvc
<1>4. IsServiceExposed(Isvc, Runtime, r.status.mode) <=> RouteAsked
  <2>1. CASE r.mode = "ModelMesh"
    BY <1>1, <1>2, <1>3, <2>1, RouteWritten DEF IsServiceExposed, RouteAsked, RawModes
  <2>2. CASE r.mode = "Serverless"
    BY <1>1, <1>2, <1>3, <2>2, LabelsWritten DEF IsServiceExposed, RouteAsked, RawModes
  <2>3. CASE r.mode \in RawModes
    BY <1>1, <1>2, <1>3, <2>3, LabelsWritten DEF IsServiceExposed, RouteAsked, RawModes
  <2>4. QED
    BY <1>1, <2>1, <2>2, <2>3 DEF RawModes
<1>5. Url = IF ~IsServiceExposed(Isvc, Runtime, r.status.mode) THEN "localhost"
            ELSE IF DeploymentType(Isvc, r.status.mode) = "ModelMesh" THEN r.status.route
            ELSE r.status.url
  BY DEF Url, InferenceUrl
<1>6. QED
  BY <1>1, <1>4, <1>5

-----------------------------------------------------------------------------
(* The session.                                                            *)

\* The route of a service is a matter of its arguments.
LEMMA RouteIsFixed ==
    ASSUME r' = r
    PROVE  Route' = Route
BY DEF Route, Url, Isvc, Runtime, Exposed, ServiceMode, Port

LEMMA InitInferenceInv ==
    ASSUME Init
    PROVE  InferenceInv
<1>1. /\ r \in Requests /\ pc = "new" /\ clock = 0 /\ deadline = 0 /\ listed = 0
      /\ inc = 0 /\ pods = << >> /\ deps = {} /\ spec = 0 /\ ready = FALSE
      /\ model = "none" /\ disturbed = 0 /\ readySeen = 0
  BY DEF Init, FixtureInit
<1>2. /\ call = "none" /\ phase = "idle" /\ attempt = 0
      /\ got = << >> /\ out = Nothing /\ cut = FALSE
  BY DEF Init, ClientInit
<1>3. /\ Budget \in Nat /\ Disturbances \in Nat
  BY FixtureAssumption
<1>4. /\ DOMAIN pods = {} /\ pods \in [DOMAIN pods -> PodStates] /\ \A p \in DOMAIN pods : FALSE
  BY <1>1
<1>5. FixtureTyped
  <2>1. /\ DOMAIN pods \subseteq Pods /\ deps \subseteq Deployments /\ listed \in {0} \cup Deployments
        /\ \A p \in DOMAIN pods : pods[p] \in PodStates
    BY <1>1, <1>4
  <2>2. inc \in 0..2 /\ readySeen \in 0..2 /\ disturbed \in 0..Disturbances /\ clock \in Nat
        /\ deadline \in Nat /\ spec \in Nat
    BY <1>1, <1>3
  <2>3. QED
    BY <1>1, <1>4, <2>1, <2>2 DEF FixtureTyped, FixtureTypeOK, Waits, Steps
<1>6. Deadlines /\ SeenIsThere /\ Built
  <2>1. 0 <= Budget + PodsWait /\ 0 <= Budget + PodsWait + Spare
    BY <1>3, SpareTyped DEF PodsWait
  <2>2. BudgetKept
    BY <1>1, <2>1 DEF BudgetKept, Spare
  <2> HIDE DEF BudgetKept, Spare
  <2>3. QED
    BY <1>1, <2>1, <2>2 DEF Deadlines, Waits, BesideBudget, SeenIsThere, Built
<1>7. Growing
  BY <1>1, <1>4 DEF Growing, AfterVerify, AfterListing, Later
<1>8. Len(got) = 0 /\ 0 <= Len(Answer)
  BY <1>2, AnswerAssumption
<1>9. ClientTypeOK /\ Tries
  <2>1. attempt \in 0..CurlAttempts + 1 /\ attempt <= MaxRetries
    BY <1>2 DEF CurlAttempts, MaxRetries
  <2>2. QED
    BY <1>2, <1>8, <2>1 DEF ClientTypeOK, Tries
<1>10. GotFits /\ StreamedAnswerIsWhole /\ Asked
  BY <1>2 DEF GotFits, StreamedAnswerIsWhole, Asked
<1>11. QED
  BY <1>5, <1>6, <1>7, <1>9, <1>10 DEF InferenceInv, FixtureInv, ClientInv

LEMMA StepAsked ==
    ASSUME Asked, [Next]_vars
    PROVE  Asked'
<1>1. CASE (FixtureStep \/ Tick \/ TearDown \/ ControllerStep) /\ UNCHANGED clients
  <2>1. r' = r /\ phase' = phase /\ route' = route
    BY <1>1, FixtureKeepsCluster, ControllersKeepFixture DEF clients
  <2>2. Route' = Route
    BY <2>1, RouteIsFixed
  <2>3. phase # "idle" => pc' \in {"up", "done"}
    <3>1. CASE ControllerStep
      BY <3>1, ControllersKeepFixture DEF Asked
    <3>2. CASE Tick \/ TearDown
      BY <3>2 DEF Tick, TearDown, Proceed, Asked, Waits
    <3>3. CASE FixtureStep
      BY <3>3 DEF FixtureStep, Deploy, DeployLlm, PodsExist, VerifyNoFailedPods, ListDeployments,
         DeploymentExists, WaitForReplicasInDeployment, WaitForReplicas, RecreateForModelMesh,
         DeployAgain, WaitForCondition, IsModelLoaded, CheckModelStatus, Expire, Sampling, Waits,
         Asked
    <3>4. QED
      BY <1>1, <3>1, <3>2, <3>3
  <2>4. QED
    BY <2>1, <2>2, <2>3 DEF Asked
<1>2. CASE UNCHANGED fixtureVars /\ (ClientStep \/ (\E c \in Calls : Ask(c)) \/ UNCHANGED clients)
  <2>1. r' = r /\ pc' = pc
    BY <1>2 DEF fixtureVars, fixture
  <2>2. Route' = Route
    BY <2>1, RouteIsFixed
  <2>3. CASE ClientStep
    <3>1. phase = "trying" /\ route' = route
      BY <2>3 DEF ClientStep, CurlAttempt, CurlExpires, AttemptFails, PostAnswers, OnceFails,
         TokenArrives, ErrorArrives, StreamIsCut, StreamReturns, TgisStreamReturns, Trying
    <3>2. QED
      BY <2>1, <2>2, <3>1 DEF Asked
  <2>4. CASE \E c \in Calls : Ask(c)
    BY <2>1, <2>2, <2>4 DEF Asked, Ask, Start
  <2>5. CASE UNCHANGED clients
    BY <2>1, <2>2, <2>5 DEF Asked, clients
  <2>6. QED
    BY <1>2, <2>3, <2>4, <2>5
<1>3. QED
  BY <1>1, <1>2, NextCases

LEMMA StepInferenceInv ==
    ASSUME InferenceInv, [Next]_vars
    PROVE  InferenceInv'
<1>1. Asked'
  BY StepAsked DEF InferenceInv
<1>2. FixtureInv'
  BY NextCases, StepFixtureInv, FixtureStays DEF InferenceInv
<1>3. ClientInv'
  <2>1. CASE UNCHANGED clients
    BY <2>1, ClientStays DEF InferenceInv
  <2>2. CASE ClientStep
    BY <2>2, StepClientInv DEF InferenceInv
  <2>3. CASE \E c \in Calls : Ask(c)
    BY <2>3, StartClientInv DEF InferenceInv, Ask
  <2>4. QED
    BY <2>1, <2>2, <2>3, NextCases
<1>4. QED
  BY <1>1, <1>2, <1>3 DEF InferenceInv

LEMMA Invariant == Spec => []InferenceInv
<1>1. Init => InferenceInv
  BY InitInferenceInv
<1>2. InferenceInv /\ [Next]_vars => InferenceInv'
  BY StepInferenceInv
<1>3. QED
  BY <1>1, <1>2, PTL DEF Spec

\* Types: create_isvc, the cluster it waits for and the clients of a test keep to
\* their types, for any arguments, budget, and number of pods.
THEOREM InferenceTypeCorrect == Spec => []TypeOK
<1>1. InferenceInv => TypeOK
  BY DEF InferenceInv, FixtureInv, FixtureTyped, ClientInv, TypeOK
<1>2. QED
  BY <1>1, Invariant, PTL

\* create_isvc is done after its timeout and the 30 seconds of wait_for_isvc_pods,
\* whatever the controllers do and however many waits follow each other; only for
\* a second ModelMesh service the time its deletion may take comes on top.
THEOREM WaitsShareTheBudget == Spec => []BudgetKept
<1>1. InferenceInv => BudgetKept
  BY DEF InferenceInv, FixtureInv, Deadlines
<1>2. QED
  BY <1>1, Invariant, PTL

\* The pods are looked at once and the deployments listed once; when nothing is
\* disturbed, the test that waited for the pods still gets its one deployment with
\* a running pod, and of a raw service all the replicas it asked for.
THEOREM QuietServiceIsHealthy == Spec => []QuietClusterIsHealthy
<1>1. InferenceInv => QuietClusterIsHealthy
  BY GrowingIsHealthy DEF InferenceInv, FixtureInv
<1>2. QED
  BY <1>1, Invariant, PTL

\* A streamed answer is the beginning of the model's answer, of one attempt, and
\* all of it; only the client that does not look for its end may get less, or an
\* error for the rest.
THEOREM AnswersAreWhole == Spec => []StreamedAnswerIsWhole
<1>1. InferenceInv => StreamedAnswerIsWhole
  BY DEF InferenceInv, ClientInv
<1>2. QED
  BY <1>1, Invariant, PTL

\* A test goes through the route exactly when its fixture asked for one: the labels
\* and annotations that create_isvc and the runtime write, whatever else the caller
\* put there, are what Inference.is_service_exposed reads.
THEOREM RouteIsAsAsked == Spec => []ExposureAsAsked
<1>1. InferenceInv => ExposureAsAsked
  <2> SUFFICES ASSUME InferenceInv, phase # "idle", r.llm = Unset, r.mode # Unset
      PROVE  route.url # "localhost" <=> RouteAsked
    BY DEF ExposureAsAsked
  <2>1. route = Route /\ pc \in {"up", "done"}
    BY DEF InferenceInv, Asked
  <2>2. r \in Requests /\ r.template # Unset
    BY <2>1 DEF InferenceInv, FixtureInv, FixtureTyped, FixtureTypeOK, Built
  <2>3. route.url = Url
    BY <2>1 DEF Route
  <2>4. QED
    BY <2>2, <2>3, ExposureWritten
<1>2. QED
  BY <1>1, Invariant, PTL

\* When create_isvc yields, Ready was seen of the object that exists then - of the
\* one that was created again, for a second ModelMesh service -, and a model whose
\* status was reported late is not still loading.
THEOREM YieldsWhatExists == Spec => YieldsWhatWasSeen
<1> DEFINE Yield == pc # "up" /\ pc' = "up" /\ CheckReady =>
                      readySeen' = inc' /\ (r.llm = Unset => model' # "loading")
<1>1. InferenceInv /\ [Next]_vars => [Yield]_fixtureVars
  <2> SUFFICES ASSUME InferenceInv, [Next]_vars, pc # "up", pc' = "up", CheckReady
      PROVE  readySeen' = inc' /\ (r.llm = Unset => model' # "loading")
    BY DEF fixtureVars
  <2>1. FixtureStep
    <3>1. FixtureStep \/ Tick \/ TearDown \/ ControllerStep
      BY NextCases DEF fixtureVars, fixture
    <3>2. QED
      BY <3>1, ControllersKeepFixture DEF Tick, TearDown, Proceed, Waits
  <2>2. SeenIsThere /\ r.wait /\ ~r.stop
    BY DEF InferenceInv, FixtureInv, CheckReady
  <2>3. QED
    BY <2>1, <2>2 DEF SeenIsThere, FixtureStep, Deploy, DeployLlm, PodsExist, VerifyNoFailedPods,
       ListDeployments, DeploymentExists, WaitForReplicasInDeployment, WaitForReplicas,
       RecreateForModelMesh, DeployAgain, WaitForCondition, IsModelLoaded, CheckModelStatus, FinalStatus, Expire,
       Sampling, AfterPods, Wait, Proceed, Fail, CheckReady, cluster
<1>2. QED
  BY <1>1, Invariant, PTL DEF Spec, YieldsWhatWasSeen
=============================================================================
