---------------------------- MODULE ServingSpec ----------------------------
(***************************************************************************)
(* What the helpers of inference_utils.py, serving_runtime.py and          *)
(* llmd_utils.py write into the objects they create, and what they read    *)
(* back from them: how the arguments of create_isvc become annotations and *)
(* labels, how the runtime of a template is adapted, and how a client      *)
(* finds out from the labels where the model is served.                    *)
(*                                                                         *)
(* A Python dictionary is a function on the keys it has; Unset is None, or *)
(* what get returns for a key that is missing.                             *)
(***************************************************************************)
EXTENDS Naturals, Sequences, FiniteSets

CONSTANT Unset

ASSUME UnsetAssumption == Unset \notin STRING

\* A dictionary of one entry, and f updated over g; defined here, and not taken
\* from the module TLC, for the proofs to see what they are.
key :> value == [k \in {key} |-> value]
f @@ g == [k \in DOMAIN f \cup DOMAIN g |-> IF k \in DOMAIN f THEN f[k] ELSE g[k]]

RawModes == {"RawDeployment", "Standard"}
KServeModes == RawModes \cup {"Serverless"}

Get(dict, key) == IF key \in DOMAIN dict THEN dict[key] ELSE Unset
Given(dict) == [key \in {k \in DOMAIN dict : dict[k] # Unset} |-> dict[key]]
Truthy(value) == value \notin {Unset, ""}

-----------------------------------------------------------------------------
\* create_isvc(r): r has the arguments.

\* _check_storage_arguments, called when one of the three is given.
StorageArgumentsOk(r) ==
    (Truthy(r.uri) \/ Truthy(r.path) \/ Truthy(r.key)) =>
        /\ ~(Truthy(r.uri) /\ Truthy(r.path))
        /\ Truthy(r.uri) \/ Truthy(r.key)
        /\ Truthy(r.key) => Truthy(r.path)

\* The storage of predictor_dict: the URI wins over the key.
Storage(r) ==
    IF Truthy(r.uri) THEN [storageUri |-> r.uri]
    ELSE IF Truthy(r.key) THEN [key |-> r.key, path |-> r.path] ELSE << >>

\* predictor_dict has the arguments that are given; minReplicas 0 is one.
Predictor(r) ==
    Given([runtime |-> r.runtime, minReplicas |-> r.min, maxReplicas |-> r.max,
           workerSpec |-> r.worker]) @@ Storage(r)

IsvcAnnotations(r) ==
    Given("deploymentMode" :> r.mode @@ "autoscalerClass" :> r.autoscaler)
    @@ (IF r.auth /\ r.mode \in KServeModes THEN "enable-auth" :> "true" ELSE << >>)
    @@ (IF r.stop THEN "stop" :> "True" ELSE << >>)

\* Fault: the two kinds of route are not told apart.
LabelsOneKind(r) ==
    r.labels @@ (IF r.external = "yes" THEN "kserve-visibility" :> "exposed" ELSE << >>)

\* The labels argument, with the label that asks for a route or against one:
\* a Serverless service is exposed unless it is told not to be.
IsvcLabels(r) ==
    (IF r.external = "yes" /\ r.mode \in RawModes
     THEN "kserve-visibility" :> "exposed" ELSE << >>)
    @@ (IF r.external = "no" /\ r.mode = "Serverless"
        THEN "knative-visibility" :> "cluster-local" ELSE << >>)
    @@ r.labels

CreatedIsvc(r) ==
    [kind |-> "isvc", annotations |-> IsvcAnnotations(r), labels |-> IsvcLabels(r),
     predictor |-> Predictor(r)]

-----------------------------------------------------------------------------
\* ServingRuntimeFromTemplate.update_model_dict: a template has annotations,
\* containers by name and supported formats by name.

RuntimeAnnotations(template, rt) ==
    (IF rt.route THEN "enable-route" :> "true" ELSE << >>)
    @@ (IF rt.auth THEN "enable-auth" :> "true" ELSE << >>)
    @@ (IF rt.protocol # Unset THEN "apiProtocol" :> rt.protocol ELSE << >>)
    @@ template.annotations

\* One entry point for TGIS and OpenAI: a vLLM template with a new image.
SingleEntrypoint(template, rt) ==
    rt.tgis /\ template.vllm /\ rt.image # Unset /\ rt.deployment # Unset

\* A container of the template: switches, resources, image, entry point, and
\* last, over all of them, what the caller gave for a container of that name.
AdaptedContainer(template, rt, name) ==
    LET c == template.containers[name]
        asked == Get(rt.containers, name)
        single == SingleEntrypoint(template, rt)
        env == [v \in DOMAIN c.env |->
                  IF v = "HTTP" /\ rt.http # Unset THEN rt.http
                  ELSE IF v = "GRPC" /\ rt.grpc # Unset THEN rt.grpc ELSE c.env[v]]
        ports == IF single /\ rt.deployment \in {"grpc", "raw"} THEN rt.deployment
                 ELSE IF "GRPC" \in DOMAIN c.env /\ rt.grpc = "true" THEN "8085" ELSE c.ports
        base == [env |-> env, ports |-> ports,
                 image |-> IF rt.image # Unset THEN rt.image ELSE c.image,
                 modelArg |-> c.modelArg /\ ~single,
                 adapter |-> single /\ rt.deployment \in {"grpc", "raw"}]
    IN  IF asked = Unset THEN base ELSE asked @@ base

\* Containers the caller gave that the template lacks are added.
RuntimeContainers(template, rt) ==
    [name \in DOMAIN template.containers \cup DOMAIN rt.containers |->
        IF name \in DOMAIN template.containers THEN AdaptedContainer(template, rt, name)
        ELSE rt.containers[name]]

\* supported_model_formats replaces the template's; else the versions asked for.
RuntimeFormats(template, rt) ==
    IF rt.formats # << >> THEN rt.formats
    ELSE [f \in DOMAIN template.formats |->
            IF f \in DOMAIN rt.versions THEN rt.versions[f] ELSE template.formats[f]]

UpdatedModelDict(template, rt) ==
    [annotations |-> RuntimeAnnotations(template, rt),
     multiModel |-> IF rt.multi # Unset THEN rt.multi ELSE template.multiModel,
     containers |-> RuntimeContainers(template, rt),
     formats |-> RuntimeFormats(template, rt)]

\* get_runtime_image_from_template: Unset stands for ResourceNotFoundError.
TemplateImage(template) ==
    IF template = Unset \/ template.containers = << >> THEN Unset
    ELSE template.containers["main"].image

-----------------------------------------------------------------------------
\* create_llmisvc and get_llm_inference_url

LlmConfigReferences(prefill, noScheduler) ==
    {"template_ref"}
    \cup (IF prefill THEN {"prefill_template_ref", "decode_template_ref", "scheduler_ref"}
          ELSE IF ~noScheduler THEN {"scheduler_ref"} ELSE {})

\* The router when the caller gives none.
Router(l) ==
    IF l.noScheduler THEN {"route"} ELSE {"scheduler", "route", "gateway"}

LlmModelUri(l) ==
    IF Truthy(l.uri) THEN l.uri
    ELSE IF Truthy(l.key) /\ Truthy(l.path) THEN l.path ELSE Unset

\* Unset stands for ValueError.
CreatedLlmIsvc(l) ==
    IF LlmModelUri(l) = Unset \/ l.resources = Unset THEN Unset
    ELSE [kind |-> "llm",
          annotations |-> "enable-auth" :> (IF l.auth THEN "true" ELSE "false") @@ l.annotations,
          labels |-> l.labels, router |-> Router(l),
          usesScheduler |-> "scheduler" \in Router(l),
          references |-> LlmConfigReferences(l.prefill, l.noScheduler),
          prefill |-> l.prefill /\ l.prefillConfig]

-----------------------------------------------------------------------------
\* Reading the objects back

\* create_isvc_label_selector_str; Unset stands for ValueError.
LabelSelector(isvc, type, runtime) ==
    LET mode == Get(isvc.annotations, "deploymentMode")
    IN  IF mode \in KServeModes THEN <<"inferenceservice">>
        ELSE IF mode # "ModelMesh" THEN Unset
        ELSE IF type = "service" THEN <<"modelmesh-service">> ELSE <<"name", runtime>>

\* Status and service discovery; an error of the discovery is passed over.
LlmInferenceUrl(llm, addresses, url, services) ==
    IF addresses # Unset THEN addresses
    ELSE IF url # Unset THEN url
    ELSE IF LabelSelector(llm, "service", Unset) # Unset /\ services # << >> THEN services[1]
    ELSE "fallback"

\* Inference.get_deployment_type: the annotation, or what the status reports.
DeploymentType(service, statusMode) ==
    LET mode == Get(service.annotations, "deploymentMode")
    IN  IF mode # Unset THEN mode
        ELSE IF service.kind = "isvc" THEN statusMode ELSE "Serverless"

\* Inference.is_service_exposed
IsServiceExposed(service, runtime, statusMode) ==
    LET mode == DeploymentType(service, statusMode)
        kserve == Get(service.labels, "kserve-visibility")
    IN  \/ /\ mode \in RawModes
           /\ IF service.kind = "graph" THEN kserve # "cluster-local" ELSE kserve = "exposed"
        \/ /\ mode = "Serverless"
           /\ Get(service.labels, "knative-visibility") # "cluster-local"
        \/ /\ mode = "ModelMesh" /\ service.kind = "isvc"
           /\ Get(runtime.annotations, "enable-route") = "true"

\* Inference.get_inference_url; Unset stands for an error.
InferenceUrl(service, runtime, statusMode, status) ==
    IF ~IsServiceExposed(service, runtime, statusMode) THEN "localhost"
    ELSE IF DeploymentType(service, statusMode) = "ModelMesh" THEN status.route ELSE status.url

\* UserInference.get_target_port: the first TCP port, of that name for ModelMesh;
\* for a multi-node service not exposed, the first port of the first pod.
TargetPort(service, exposed, mode, protocol, ports, podPorts) ==
    LET fits(p) == /\ p.tcp
                   /\ mode = "ModelMesh" => p.name = protocol
        found == SelectSeq(ports, fits)
    IN  IF service.kind = "isvc" /\ "workerSpec" \in DOMAIN service.predictor /\ ~exposed
        THEN IF podPorts # << >> THEN podPorts[1].number ELSE Unset
        ELSE IF found # << >> /\ mode \in KServeModes \cup {"ModelMesh"} THEN found[1].number ELSE Unset

\* get_runtime_config and get_inference_body: what the inference configuration
\* has for the kind of inference and the protocol; Unset stands for ValueError.
RuntimeConfig(config, type, protocol) ==
    IF type \notin DOMAIN config THEN Unset
    ELSE Get(config[type], IF protocol \in {"http", "https"} THEN "http" ELSE protocol)

InferenceBody(input, useDefault, default) ==
    IF useDefault THEN IF Truthy(default) THEN default ELSE Unset ELSE input

\* generate_command, with the endpoint's URL: the parts that decide where the
\* request goes and how; Unset stands for ValueError.
Command(c, mode, exposed, url) ==
    LET config == RuntimeConfig(c.config, c.type, c.protocol)
        body == InferenceBody(c.input, c.useDefault, c.default)
    IN  IF Unset \in {config, body, url} \/ c.protocol \notin {"http", "https", "grpc"} THEN Unset
        ELSE [tool |-> IF c.protocol = "grpc" THEN "grpcurl" ELSE "curl",
              plaintext |-> c.protocol = "grpc" /\ mode \in RawModes,
              port |-> IF c.protocol = "grpc" /\ exposed THEN 443 ELSE 0,
              insecure |-> c.insecure \/ c.ca = Unset, token |-> c.token, url |-> url]
=============================================================================
