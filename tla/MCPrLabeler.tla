---------------------------- MODULE MCPrLabeler ----------------------------
(* Bodies and known labels for the model checker.  A comment without a     *)
(* command, one with two, a cancellation and a comment that takes its own  *)
(* command back reach every branch of the comment handler.                 *)
EXTENDS PrLabeler, TLC

Cmd(c)    == [cmd |-> c, cancel |-> FALSE]
Cancel(c) == [cmd |-> c, cancel |-> TRUE]

MCWelcome == <<Cmd("verified"), Cmd("lgtm")>>

MCBodies == { <<>>, MCWelcome, <<Cancel("verified")>>, <<Cmd("lgtm"), Cancel("lgtm")>> }

\* Few bodies, for the runs that replay one divergence.
FewBodies == {<<Cmd("lgtm")>>, <<Cancel("lgtm")>>, <<Cmd("verified")>>, MCWelcome}

\* A run is known only by the event it serves.
SlotSymmetry == Permutations(Slots)

MCRepoLabels == {<<"verified", Nobody>>}
=============================================================================
