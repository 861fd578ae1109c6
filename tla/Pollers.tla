------------------------------ MODULE Pollers ------------------------------
(***************************************************************************)
(* The waits of the utilities that sample the cluster: each is a           *)
(* TimeoutSampler, or a function under its retry decorator, that looks at  *)
(* pods or at one object every few seconds and decides by what it saw.     *)
(* They are implementations of TimedWait.                                  *)
(*                                                                         *)
(* The clock counts the samples of the sampler in hand.                    *)
(***************************************************************************)
EXTENDS Naturals, Sequences, FiniteSets

CONSTANTS
    Loops,      \* the waits in question
    PodIds,     \* bound: the pods there can be, in the order they are listed
    Expected,   \* expected_num_pods
    Checks,     \* number_of_consecutive_checks
    Limit       \* bound: samples before a sampler gives up

ASSUME PollersAssumption ==
    PodIds \subseteq Nat /\ IsFiniteSet(PodIds) /\ Expected \in Nat /\ Checks \in Nat \ {0}
    /\ Limit \in Nat \ {0}

PodLoops == {"podsRunning", "podsByLabels", "kueue", "mariadb", "deletion"}
ObjectLoops ==
    {"container", "oauth", "download", "route", "phaseKept", "sanity", "metrics", "user", "guardrails"}

ASSUME LoopsAssumption == Loops \subseteq PodLoops \cup ObjectLoops

PodStates == {"absent", "pending", "running", "terminating", "succeeded"}

\* One observed object: it is missing, it is being changed, it is not or it is as
\* it should be, or what is read of it cannot be dealt with.
Things == {"absent", "updating", "other", "good", "null"}

VARIABLES
    loop, phase,
    stage,      \* which of the samplers of the wait
    clock,
    count,      \* good samples counted
    listed,     \* the pods the wait has listed
    last,       \* the last sample, or none
    pods, thing,
    recent      \* history: the samples of the wait, true for a good one

wait == <<loop, phase, stage, clock, count, listed, last, recent>>
world == <<pods, thing>>
vars == <<wait, world>>

Existing == {i \in PodIds : pods[i] # "absent"}
Stages ==
    IF loop = "mariadb" THEN 3 ELSE IF loop \in {"oauth", "download", "sanity"} THEN 2 ELSE 1

Init ==
    /\ loop \in Loops /\ phase = "waiting" /\ stage = 1 /\ clock = 0 /\ count = 0 /\ last = "none"
    /\ pods \in [PodIds -> IF loop \in PodLoops THEN {"absent", "pending"} ELSE {"absent"}]
    /\ thing \in IF loop \in ObjectLoops \cup {"kueue"} THEN {"absent", "other"} ELSE {"absent"}
    /\ listed = IF loop \in {"podsRunning", "deletion"} THEN Existing ELSE {}
    /\ recent = << >>

-----------------------------------------------------------------------------
\* What a sample tells: good; bad, the next one is awaited; error, an exception
\* that the sampler passes over; fatal, one that ends the wait.

\* Fault: pods marked for deletion count as running.
NotRunningYet(i) == pods[i] = "pending"

\* A container waits, the pod is marked for deletion, or its phase is another.
NotRunning(i) == pods[i] \in {"pending", "terminating"}

\* get_not_running_pods goes through the list until a pod of it is gone.
Looked == {i \in listed : \A j \in listed : j <= i => pods[j] # "absent"}
PodsRunning == IF \E i \in Looked : NotRunning(i) THEN "bad" ELSE "good"

PodsByLabels == IF Cardinality(Existing) = Expected THEN "good" ELSE "error"

\* wait_for_kueue_crds_available: the CRDs, then the pods.
Kueue ==
    IF thing = "absent" THEN "error"
    ELSE IF Existing # {} /\ \A i \in Existing : pods[i] = "running" THEN "good" ELSE "bad"

\* wait_for_mariadb_pods: there are pods; they are listed again, by a call of its
\* own; then each of this list is ready.  One limit stands for those of the pods.
Mariadb ==
    CASE stage = 1 -> IF Existing # {} THEN "good" ELSE "bad"
      [] stage = 2 -> "good"
      [] stage = 3 -> IF \A i \in listed : pods[i] = "running" THEN "good" ELSE "bad"

\* wait_for_serverless_pods_deletion: each pod of the list, for a minute.
Deletion == IF listed \cap Existing = {} THEN "good" ELSE "bad"

Container == IF thing = "good" THEN "good" ELSE "error"

\* A change is to be seen first, then its end: one that is over between two samples
\* is waited for until the time is over.
Passed == IF thing = (IF stage = 1 THEN "updating" ELSE "good") THEN "good" ELSE "bad"

\* wait_for_oauth_openshift_deployment: the reason of a rollout, then that of its
\* end; without conditions the loop over them fails.
Oauth == IF thing = "null" THEN "fatal" ELSE IF thing = "absent" THEN "error" ELSE Passed

\* download_model_data: the pod runs, then it has succeeded; it may have failed.
Download == IF thing = "null" THEN "fatal" ELSE IF thing = "absent" THEN "error" ELSE Passed

Route == IF thing = "absent" THEN "error" ELSE IF thing = "good" THEN "good" ELSE "bad"

\* check_pod_status_in_time: another phase is an AssertionError.
PhaseKept ==
    IF thing = "absent" THEN "error" ELSE IF thing = "good" THEN "bad" ELSE "fatal"

\* verify_cluster_sanity: the DSCI, then the DSC is waited for; nodes that are not
\* healthy (null) end the session at once.
Sanity ==
    IF thing = "good" THEN "good" ELSE IF thing \in {"absent", "null"} THEN "fatal" ELSE "error"

Metrics == IF thing = "absent" THEN "error" ELSE IF thing = "good" THEN "good" ELSE "bad"

\* wait_for_user_creation passes over its own exception, not over ClusterLoginError.
User == IF thing = "good" THEN "good" ELSE IF thing = "null" THEN "fatal" ELSE "error"

\* check_guardrails_health_endpoint passes over a TimeoutError, which requests
\* does not raise.
Guardrails == IF thing = "good" THEN "good" ELSE IF thing = "absent" THEN "fatal" ELSE "bad"

Result ==
    CASE loop = "podsRunning" -> PodsRunning [] loop = "podsByLabels" -> PodsByLabels
      [] loop = "kueue" -> Kueue [] loop = "mariadb" -> Mariadb [] loop = "deletion" -> Deletion
      [] loop = "container" -> Container [] loop = "oauth" -> Oauth
      [] loop = "download" -> Download [] loop = "route" -> Route
      [] loop = "phaseKept" -> PhaseKept [] loop = "sanity" -> Sanity
      [] loop = "metrics" -> Metrics [] loop = "user" -> User [] loop = "guardrails" -> Guardrails

-----------------------------------------------------------------------------
\* The samplers

Needed ==
    IF loop = "podsRunning" THEN Checks ELSE IF loop = "route" THEN 2 ELSE 1

\* Fault: the count goes on over samples that are not good.
CountAll(result) == IF result = "good" THEN count + 1 ELSE count

\* wait_for_pods_running starts again, wait_for_route_timeout does not.
Counted(result) ==
    IF result = "good" THEN count + 1 ELSE IF loop = "podsRunning" THEN 0 ELSE count

\* A pod of a list that was seen ready is not looked at again.
StillListed == IF loop = "mariadb" THEN {i \in listed : pods[i] # "running"} ELSE listed

Sample ==
    /\ phase = "waiting" /\ clock < Limit
    /\ LET n == Counted(Result)
       IN  CASE Result = "fatal" ->
                    /\ phase' = (IF loop = "sanity" THEN "exit" ELSE "raised")
                    /\ UNCHANGED <<stage, clock, count, listed>>
             [] Result # "fatal" /\ n < Needed ->
                    /\ clock' = clock + 1 /\ count' = n /\ listed' = StillListed
                    /\ UNCHANGED <<phase, stage>>
             [] Result # "fatal" /\ n >= Needed /\ stage < Stages ->
                    /\ stage' = stage + 1 /\ clock' = 0 /\ count' = 0 /\ listed' = Existing
                    /\ UNCHANGED phase
             [] OTHER -> phase' = "returned" /\ UNCHANGED <<stage, clock, count, listed>>
    /\ last' = IF Result = "error" THEN last ELSE Result
    /\ recent' = Append(recent, Result = "good")
    /\ UNCHANGED <<loop, world>>

\* Fault: a wait whose time is over returns as if it had seen what it waits for.
OutcomeReturned == IF loop = "podsRunning" /\ last # "bad" THEN "returned" ELSE "expired"

\* The time of the sampler is over.  wait_for_pods_running returns None unless the
\* last sample had pods; validate_metrics_field reads a sample there may not be;
\* verify_cluster_sanity ends the session with 99; the deletion is not waited for
\* any longer; and a phase that was kept until then is what was asked for.
Outcome ==
    CASE loop = "phaseKept" -> "returned"
      [] loop = "deletion" -> "silent"
      [] loop = "podsRunning" -> IF last = "bad" THEN "expired" ELSE "silent"
      [] loop = "metrics" -> IF last = "none" THEN "unbound" ELSE "expired"
      [] loop = "sanity" -> "exit"
      [] OTHER -> "expired"

Expire ==
    /\ phase = "waiting" /\ clock >= Limit
    /\ phase' = Outcome
    /\ UNCHANGED <<loop, stage, clock, count, listed, last, recent, world>>

\* The cluster goes on (external).
PodChanges ==
    /\ phase = "waiting" /\ loop \in PodLoops
    /\ \E i \in PodIds, s \in PodStates : s # pods[i] /\ pods' = [pods EXCEPT ![i] = s]
    /\ UNCHANGED <<wait, thing>>

ThingChanges ==
    /\ phase = "waiting" /\ loop \in ObjectLoops \cup {"kueue"}
    /\ thing' \in Things \ {thing}
    /\ UNCHANGED <<wait, pods>>

Next == Sample \/ Expire \/ PodChanges \/ ThingChanges

\* The sampler sleeps and looks again: it is never kept from it.
Spec == Init /\ [][Next]_vars /\ WF_vars(Sample \/ Expire)

-----------------------------------------------------------------------------
\* Type invariant.
TypeOK ==
    /\ loop \in Loops /\ stage \in 1..3 /\ clock \in 0..Limit /\ count \in 0..Limit
    /\ phase \in {"waiting", "returned", "silent", "expired", "raised", "unbound", "exit"}
    /\ listed \subseteq PodIds /\ last \in {"none", "good", "bad", "fatal"}
    /\ pods \in [PodIds -> PodStates] /\ thing \in Things /\ recent \in Seq(BOOLEAN)

\* Every wait is a TimedWait: it returns upon a good sample, it gives up for a
\* fatal one or when its time is over, and it ends whatever the cluster does.
Abstract == INSTANCE TimedWait WITH
    state <- CASE phase = "waiting" -> "waiting" [] phase = "returned" -> "returned"
               [] OTHER -> "gaveUp",
    left <- (Stages - stage) * (Limit + 1) + (Limit - clock),
    held <- IF loop = "phaseKept" THEN clock >= Limit ELSE clock < Limit /\ Result = "good",
    over <- clock >= Limit \/ Result = "fatal"

ImplementsTimedWait == Abstract!Spec

\* When wait_for_pods_running returns, the pods it has listed run, but for those
\* that come in the list after one that is gone by then: these nobody looks at.
ListedPodsRan ==
    [][phase' = "returned" /\ loop = "podsRunning" =>
        \A i \in listed : \/ pods[i] \in {"running", "succeeded", "absent"}
                          \/ \E j \in listed : j < i /\ pods[j] = "absent"]_vars

\* ... and the pods ran in all of the last samples, as many as were asked for.
ChecksWereConsecutive ==
    phase = "returned" /\ loop = "podsRunning" =>
        /\ Len(recent) >= Checks
        /\ \A i \in Len(recent) - Checks + 1 .. Len(recent) : recent[i]

\* The docstring of wait_for_pods_running: it waits for all pods of the namespace.
AllPodsRunning ==
    [][phase' = "returned" /\ loop = "podsRunning" =>
        \A i \in Existing : pods[i] \in {"running", "succeeded"}]_vars
=============================================================================
