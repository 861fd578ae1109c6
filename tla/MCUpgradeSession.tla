-------------------------- MODULE MCUpgradeSession --------------------------
(* Two services with baselines that are handed over, the first in their    *)
(* namespace, the LLM service with its gateway, and the service that only  *)
(* post-upgrade tests create.                                              *)
EXTENDS UpgradeSession

MCServices == {"isvc", "auth", "llm", "new"}
MCResources == MCServices \cup {"home", "gateway"}
MCWithin == [r \in MCResources |-> IF r = "isvc" THEN "home" ELSE r]
MCNeeds == [r \in MCResources |-> IF r = "llm" THEN {"gateway"} ELSE {MCWithin[r]} \ {r}]
MCStack == [s \in MCServices |-> {s} \cup MCNeeds[s]]
MCTests == {[service |-> s, pre |-> TRUE, post |-> FALSE] : s \in {"isvc", "auth", "llm"}} \cup
           {[service |-> s, pre |-> FALSE, post |-> TRUE] : s \in MCServices}
MCOrder == [t \in MCTests |->
    CASE t.service = "isvc" -> 1 [] t.service = "new" -> 2 [] t.service = "auth" -> 3 [] OTHER -> 4]
=============================================================================
