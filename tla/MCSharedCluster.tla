-------------------------- MODULE MCSharedCluster --------------------------
(* Three processes, of which two want the same value; one of them probes   *)
(* for a user where there is a login to switch.                            *)
EXTENDS SharedCluster, TLC
MCData == 1 :> "a" @@ 2 :> "a" @@ 3 :> "b"
=============================================================================
