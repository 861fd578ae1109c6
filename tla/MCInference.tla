---------------------------- MODULE MCInference ----------------------------
(* A service of every deployment mode, with and without a route, the       *)
(* arguments that are refused or that leave out a wait, and the neighbours *)
(* of a ModelMesh namespace.                                               *)
EXTENDS InferenceSession

Template ==
    [annotations |-> << >>, multiModel |-> "false", vllm |-> TRUE, formats |-> "onnx" :> "1",
     containers |-> "main" :> [env |-> "HTTP" :> "false" @@ "GRPC" :> "false", ports |-> "8080",
                               image |-> "vllm", modelArg |-> TRUE, adapter |-> FALSE]]
NoChange ==
    [route |-> FALSE, auth |-> FALSE, protocol |-> Unset, tgis |-> FALSE, image |-> Unset,
     deployment |-> Unset, http |-> Unset, grpc |-> Unset, containers |-> << >>,
     formats |-> << >>, versions |-> << >>, multi |-> Unset]
Client ==
    [config |-> "infer" :> ("http" :> "body" @@ "grpc" :> "body"), type |-> "infer",
     protocol |-> "https", input |-> "text", useDefault |-> FALSE, default |-> Unset,
     insecure |-> FALSE, ca |-> "ca", token |-> Unset]
TcpPort(name, number) == [name |-> name, number |-> number, tcp |-> TRUE]
Status ==
    [mode |-> "Serverless", url |-> "host", route |-> "route",
     addresses |-> Unset, services |-> <<"service">>, podPorts |-> << >>,
     ports |-> <<[name |-> "dns", number |-> 53, tcp |-> FALSE], TcpPort("https", 8443)>>]

Raw ==
    [mode |-> "RawDeployment", auth |-> FALSE, external |-> Unset, labels |-> << >>,
     uri |-> "s3", key |-> Unset, path |-> Unset, runtime |-> "rt", min |-> Unset,
     max |-> Unset, worker |-> Unset, autoscaler |-> Unset, stop |-> FALSE, waitPods |-> TRUE,
     wait |-> TRUE, others |-> "none", template |-> Template, rt |-> NoChange,
     client |-> Client, status |-> Status, llm |-> Unset]
Llm ==
    [Raw EXCEPT !.waitPods = FALSE,
        !.llm = [uri |-> Unset, key |-> "secret", path |-> "path", resources |-> "cpu",
                 auth |-> TRUE, annotations |-> << >>, labels |-> << >>, prefill |-> FALSE,
                 prefillConfig |-> FALSE, noScheduler |-> FALSE]]
Mesh == [Raw EXCEPT !.mode = "ModelMesh", !.others = "mesh"]

Waiting ==
    {Raw, [Raw EXCEPT !.min = 2, !.external = "yes"], [Raw EXCEPT !.mode = "Serverless", !.min = 2],
     [Mesh EXCEPT !.rt.route = TRUE], Llm}

\* Without the waits, so that what is read back from the objects is all there is.
Quick(q) == [q EXCEPT !.waitPods = FALSE, !.wait = FALSE]
Asked ==
    {Quick([Raw EXCEPT !.mode = m, !.external = e, !.labels = l]) :
        m \in {"RawDeployment", "Standard", "Serverless"}, e \in {Unset, "yes", "no"},
        l \in {<< >>, "kserve-visibility" :> "exposed", "knative-visibility" :> "cluster-local"}}
MultiNode ==
    {Quick([Raw EXCEPT !.worker = "spec", !.status.podPorts = p]) :
        p \in {<< >>, <<TcpPort("http", 8080)>>}}
Refused ==
    {[Raw EXCEPT !.key = "k"], [Raw EXCEPT !.template = Unset], [Raw EXCEPT !.mode = Unset],
     [Mesh EXCEPT !.others = "orphan"], [Raw EXCEPT !.stop = TRUE],
     [Llm EXCEPT !.llm.resources = Unset],
     Quick([Raw EXCEPT !.client.type = "graph"]), Quick([Raw EXCEPT !.mode = Unset]),
     Quick([Mesh EXCEPT !.client.protocol = "https"])}

MCAnswer == <<"one", "two", "three">>
MCRequests ==
    Waiting \cup Asked \cup MultiNode \cup Refused
        \cup {[Llm EXCEPT !.wait = FALSE, !.status.url = u] : u \in {Unset, "host"}}
=============================================================================
