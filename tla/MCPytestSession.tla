-------------------------- MODULE MCPytestSession --------------------------
(* Two workers and a spare; tests for both sides of an upgrade, for one,   *)
(* for any session, and of both modes; a library's two loggers.            *)
EXTENDS PytestSession, TLC
MCTests ==
    {[keys |-> {"pre_upgrade", "post_upgrade", "raw"}], [keys |-> {"post_upgrade", "serverless"}],
     [keys |-> {"pre_upgrade", "install", "raw"}], [keys |-> {"serverless"}]}
MCOptions ==
    {o \in [pre : BOOLEAN, post : BOOLEAN, modes : {{}, {"raw"}}] : o.pre => ~o.post}
MCChain ==
    "root" :> <<"root">> @@ "basic" :> <<"basic", "root">> @@ "pkg" :> <<"pkg", "root">>
        @@ "pkg.mod" :> <<"pkg.mod", "pkg", "root">>
=============================================================================
