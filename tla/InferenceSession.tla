-------------------------- MODULE InferenceSession --------------------------
(***************************************************************************)
(* A test with a model: the fixture of IsvcFixture brings the service up,  *)
(* then the test asks it through one of the clients of InferenceClients,   *)
(* which find the service by what the fixture wrote into its objects.      *)
(***************************************************************************)
EXTENDS IsvcFixture, InferenceClients

vars == <<fixtureVars, clients>>

Init == FixtureInit /\ ClientInit

Isvc == CreatedIsvc(r)
Runtime == UpdatedModelDict(r.template, r.rt)
Exposed == IsServiceExposed(Isvc, Runtime, r.status.mode)
Url ==
    IF r.llm = Unset THEN InferenceUrl(Isvc, Runtime, r.status.mode, r.status)
    ELSE LlmInferenceUrl(CreatedLlmIsvc(r.llm), r.status.addresses, r.status.url, r.status.services)
ServiceMode == DeploymentType(Isvc, r.status.mode)
Port == TargetPort(Isvc, Exposed, ServiceMode, r.client.protocol, r.status.ports, r.status.podPorts)

\* The command, and the port to forward if the service is internal.
Route ==
    [url |-> Url,
     reachable |-> \/ r.llm # Unset
                   \/ /\ Command(r.client, ServiceMode, Exposed, Url) # Unset
                      /\ Exposed \/ Port # Unset]

Ask(c) == pc = "up" /\ Start(c, Route) /\ UNCHANGED fixtureVars

Next ==
    \/ FixtureStep /\ UNCHANGED clients
    \/ Tick /\ UNCHANGED clients
    \/ TearDown /\ phase \in {"returned", "raised"} /\ UNCHANGED clients
    \/ ControllerStep /\ UNCHANGED clients
    \/ (\E c \in Calls : Ask(c))
    \/ ClientStep /\ UNCHANGED fixtureVars

\* The test's own process and the clock go on; nothing is asked of the cluster.
Fairness ==
    /\ WF_vars(FixtureStep /\ UNCHANGED clients) /\ WF_vars(Tick /\ UNCHANGED clients)

Spec == Init /\ [][Next]_vars /\ Fairness

-----------------------------------------------------------------------------
TypeOK == FixtureTypeOK /\ ClientTypeOK

\* What the caller of the fixtures asked for: a route, or for Serverless none.
RouteAsked ==
    IF r.mode = "ModelMesh" THEN r.rt.route
    ELSE IF r.mode = "Serverless"
         THEN r.external # "no" /\ Get(r.labels, "knative-visibility") # "cluster-local"
         ELSE r.external = "yes" \/ Get(r.labels, "kserve-visibility") = "exposed"

\* A client goes through the route if, and only if, one was asked for: what
\* create_isvc and the runtime write is what the client reads, in every
\* deployment mode that is named.
ExposureAsAsked ==
    phase # "idle" /\ r.llm = Unset /\ r.mode # Unset =>
        (route.url # "localhost" <=> RouteAsked)

\* The docstring of get_llm_inference_url: without a URL in the status, the
\* service that the labels lead to is used before the name is guessed.
ServicesAreDiscovered ==
    phase # "idle" /\ r.llm # Unset /\ r.status.addresses = Unset /\ r.status.url = Unset
        /\ r.status.services # << >> => route.url = r.status.services[1]
=============================================================================
