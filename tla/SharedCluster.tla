---------------------------- MODULE SharedCluster ----------------------------
(***************************************************************************)
(* Several pytest processes on one cluster: each gets its client, of the   *)
(* admin or of the ordinary user (LoginSwitch), and then runs a fixture    *)
(* with it (ClusterFixtures).  A project is requested with the client of   *)
(* the ordinary user, whose project it becomes; other kinds of fixture are *)
(* the admin's.                                                            *)
(***************************************************************************)
EXTENDS LoginSwitch, ClusterFixtures

ASSUME WorkersAssumption == Workers = Procs

VARIABLE owner   \* of the project: who requested it

sharedVars == <<loginVars, vars, owner>>

SharedInit == LoginInit /\ Init /\ owner = Unasked

\* create_ns makes a project if it gets an unprivileged client; the probes
\* only find out about a user.
NeedsLogin == kind = "project"

LogIn(w) == NeedsLogin /\ LoginStep(w) /\ UNCHANGED <<vars, owner>>

UseCluster(p) ==
    /\ NeedsLogin => at[p] = "ready" /\ p \notin Probes
    /\ Step(p) \/ Kill(p)
    /\ owner' = IF there' = Absent THEN Unasked
                ELSE IF there = Absent /\ NeedsLogin THEN client[p] ELSE owner
    /\ UNCHANGED loginVars

SharedNext == \E p \in Procs : LogIn(p) \/ UseCluster(p)

SharedSpec == SharedInit /\ [][SharedNext]_sharedVars

SharedTypeOK ==
    /\ TypeOK
    /\ mode \in Modes /\ kubeconfig \in {"admin", "user"} /\ refused \in 0..MaxRefused /\ together \in BOOLEAN
    /\ at \in [Workers -> {"start", "ready", "failed"} \cup Switching]
    /\ before \in [Workers -> {Unasked, "admin", "user"}]
    /\ client \in [Workers -> {Unasked, "admin", "user"}]
    /\ owner \in {Unasked, "admin", "user"}

\* With --use-unprivileged-client a project belongs to the ordinary user, and
\* once nobody is switching the kubeconfig is the admin's again, unless two
\* workers were switching at once; for the kubeconfig, unless a login was
\* refused.
UserNeedsOneSwitchAtATime ==
    /\ owner = "admin" => mode = "off" \/ together
    /\ kubeconfig # "admin" /\ (\A w \in Workers : at[w] \notin Switching) =>
        together \/ refused > 0
=============================================================================
