---------------------------- MODULE MCDscEditor ----------------------------
(* Six of the repository's fixtures, on a cluster with kueue, the          *)
(* llama-stack operator and models-as-a-service removed and kserve         *)
(* headless: every kind of wait, two fixtures of one field in both scopes. *)
EXTENDS DscEditor

MCFields == {"kueue", "maas", "llama", "service"}
MCValues == {"Managed", "Unmanaged", "Removed", "Headed", "Headless"}
MCOriginal == [kueue |-> "Removed", maas |-> "Removed", llama |-> "Removed", service |-> "Headless"]
MCWant == [kueue |-> "Unmanaged", maas |-> "Managed", llama |-> "Managed", service |-> "Headed"]

\* kueue: ensure_kueue_unmanaged_in_dsc; controller, subscription: maas_controller_enabled_latest,
\* maas_subscription_controller_enabled_latest; llama: enabled_llama_stack_operator;
\* headed: patched_dsc_kserve_headed; graph: kserve_raw_headless_service_config.
MCFixtures == {"kueue", "controller", "subscription", "llama", "headed", "graph"}
MCScope == [kueue |-> 0, controller |-> 0, subscription |-> 0, llama |-> 2, headed |-> 2, graph |-> 2]
MCPatch == [kueue |-> {"kueue"}, controller |-> {"maas"}, subscription |-> {"maas"},
            llama |-> {"llama"}, headed |-> {"service"}, graph |-> {"service"}]
MCWaits == [kueue |-> <<"reconciled">>,
            controller |-> <<"component", "ready">>, subscription |-> <<"component", "ready">>,
            llama |-> <<"component">>,
            headed |-> <<"unready", "ready">>, graph |-> <<"ready">>]
MCRequests == {{"headed"}, {"graph"}, {"llama"}, {"kueue", "headed"}, {"controller"},
               {"subscription", "llama"}}
=============================================================================
