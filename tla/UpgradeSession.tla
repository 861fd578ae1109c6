--------------------------- MODULE UpgradeSession ---------------------------
(***************************************************************************)
(* The model server's upgrade tests over several pytest sessions: with     *)
(* --pre-upgrade the fixtures of upgrade/conftest.py create their          *)
(* resources and leave them on the cluster, with a baseline of each        *)
(* InferenceService in a ConfigMap; with --post-upgrade the same fixtures  *)
(* hand out what is there, and remove it in the end.  A user may give any  *)
(* of the flags, run any part of the tests, and kill a session.            *)
(*                                                                         *)
(* A resource on the cluster is known by the session that created it; no   *)
(* fixture is set up twice in a session.  The gateway of the LLM services, *)
(* which CI may have made before, and the secrets are adopted where they   *)
(* exist: the session that does leaves them.  How several processes save their *)
(* baselines at once is the subject of UpgradeBaseline.                    *)
(***************************************************************************)
EXTENDS Naturals, Sequences, SequencesExt

CONSTANTS
    Services,   \* InferenceServices, one per file of tests
    Resources,  \* they, and what they are built from
    Needs,      \* the fixtures a resource's fixture requests
    Within,     \* the namespace of a resource; of a namespace, itself
    Stack,      \* all resources of a service's tests
    Adopts,     \* those whose fixture takes what exists
    Baselined,  \* services whose baseline is captured
    Home,       \* UPGRADE_NAMESPACE: the baselines of all services are there
    New,        \* resources of post-upgrade tests only
    Tests,      \* [service, pre, post]: the tests and their markers
    Order,      \* which of them pytest collects first: the files' names
    NoTest,
    MaxSessions,\* bound: sessions in one behaviour
    MaxFaults   \* bound: operations that fail, and kills, in one behaviour

ASSUME ServicesAssumption == Services \subseteq Resources /\ New \subseteq Resources
ASSUME ShapeAssumption ==
    /\ Home \in Resources \ New /\ Within \in [Resources -> Resources] /\ Within[Home] = Home
    /\ Needs \in [Resources -> SUBSET Resources] /\ Stack \in [Services -> SUBSET Resources]
    /\ \A r \in Resources : Within[Within[r]] = Within[r] /\ (r \in New <=> Within[r] \in New)
    /\ \A r \in Resources : Within[r] # r => Within[r] \in Needs[r]
    /\ \A r \in Resources : Needs[r] \cap New # {} => r \in New
    /\ \A s \in Services : s \in Stack[s] /\ \A r \in Stack[s] : Needs[r] \subseteq Stack[s]
    /\ \A s \in Services \ New : Stack[s] \cap New = {}
    /\ Adopts \subseteq Resources \ Services /\ Home \notin Adopts /\ Baselined \subseteq Services
ASSUME TestsAssumption ==
    /\ Tests \subseteq [service : Services, pre : BOOLEAN, post : BOOLEAN]
    /\ \A t \in Tests : t.service \in New => ~t.pre
    /\ \A t, u \in Tests : t.pre /\ u.pre /\ t.service = u.service => t = u
    /\ NoTest \notin Tests /\ Order \in [Tests -> Nat]
\* What is handed over, some post-upgrade test asks for that needs nothing new.
ASSUME CoverAssumption ==
    \A r \in Resources \ New : \E t \in Tests :
        t.post /\ r \in Stack[t.service] /\ Stack[t.service] \cap New = {}
ASSUME BoundsAssumption == MaxSessions \in Nat /\ MaxFaults \in Nat

Flags == {f \in [pre : BOOLEAN, post : BOOLEAN, delete : BOOLEAN] :
            (f.pre \/ f.post) /\ (f.delete => f.pre)}

VARIABLES
    there,    \* session that created a resource; 0: it does not exist
    entry,    \* the baselines: which one of a service was captured, or 0
    session,  \* sessions so far
    flags,    \* of this or the last session
    pc,       \* where pytest is
    test,     \* the test in hand
    todo,     \* tests still to run
    up,       \* fixtures set up, in order
    adopted,  \* those of them that took what they found
    failed,   \* fixtures that failed: pytest keeps the exception
    captures, \* services whose capture fixture was run
    loaded,   \* upgrade_baseline_fixture, when pytest has its value ...
    loading,  \* ... or its exception
    faults,   \* bound: faults so far
    before,   \* history: there, at the start of the session
    whole,    \* history: every post-upgrade test was selected
    spoilt,   \* history: the session was killed, or a clean-up failed
    handed,   \* history: services handed over by a pre-upgrade session
    taken     \* history: handed, at the start of the session

cluster == <<there, entry>>
fixtures == <<up, adopted, failed, captures, loaded, loading>>
history == <<before, whole, spoilt, handed, taken>>
vars == <<cluster, session, flags, pc, test, todo, fixtures, faults, history>>

Nothing == [s \in Services |-> 0]

\* Made by CI before the first session.
CI == MaxSessions + 1

\* The ConfigMap is there.
HasBaselines == \E s \in Services : entry[s] # 0

Init ==
    /\ there \in [Resources -> {0, CI}] /\ entry = Nothing
    /\ \A r \in Resources : there[r] # 0 => r \in Adopts \ New /\ Within[r] = r
    /\ session = 0 /\ flags = [pre |-> FALSE, post |-> TRUE, delete |-> FALSE]
    /\ pc = "over" /\ test = NoTest /\ todo = {}
    /\ up = <<>> /\ adopted = {} /\ failed = {} /\ captures = {} /\ loaded = Nothing /\ loading = "pending"
    /\ faults = 0
    /\ before = there /\ whole = FALSE /\ spoilt = FALSE /\ handed = {} /\ taken = {}

-----------------------------------------------------------------------------
(* A session and its tests.                                                *)

\* pytest_collection_modifyitems, of what the user asks for.
Selected(f) == {t \in Tests : (f.pre /\ t.pre) \/ (f.post /\ t.post)}

Start ==
    /\ pc = "over" /\ session < MaxSessions
    /\ \E f \in Flags : \E part \in SUBSET Selected(f) :
        /\ part # {}
        /\ flags' = f /\ todo' = part
        /\ whole' = ({t \in Tests : t.post} \subseteq part)
    /\ session' = session + 1 /\ pc' = "idle"
    /\ up' = <<>> /\ adopted' = {} /\ failed' = {}
    /\ captures' = {} /\ loaded' = Nothing /\ loading' = "pending"
    /\ before' = there /\ spoilt' = FALSE /\ taken' = handed
    /\ UNCHANGED <<cluster, test, faults, handed>>

\* "pre_upgrade_tests + post_upgrade_tests".
PickTest(t) ==
    /\ pc = "idle" /\ t \in todo /\ (t.pre \/ \A u \in todo : ~u.pre)
    /\ \A u \in todo : u.pre = t.pre => Order[t] <= Order[u]
    /\ test' = t /\ todo' = todo \ {t} /\ pc' = "setup"
    /\ UNCHANGED <<cluster, session, flags, fixtures, faults, history>>

Fault == faults < MaxFaults /\ faults' = faults + 1

\* The test ends with an error in its set up.
Error == pc' = "idle" /\ test' = NoTest

-----------------------------------------------------------------------------
(* Fixtures.                                                               *)

IsUp(r) == Contains(up, r)

\* The next fixture of the test in hand, in an order that its needs allow.
IsNext(r) ==
    /\ pc = "setup" /\ r \in Stack[test.service]
    /\ ~IsUp(r) /\ \A n \in Needs[r] : IsUp(n)

\* Fixtures that only make a handle of the resource.
Reuses(r) == flags.post /\ r \notin New

\* Fault: what a session did not create it leaves alone.
DeletesItsOwn(r) == there[r] = session /\ (flags.delete \/ ~flags.pre)

\* Fault: a fixture removes what it adopted.
DeletesAdopted(r) == Reuses(r) \/ r \in New \/ flags.delete \/ ~flags.pre

\* Whether a fixture removes its resource: always after an upgrade, and for
\* resources of that session only; else as teardown_resources says.  What it
\* adopted it leaves.
Deletes(r) == r \notin adopted /\ (Reuses(r) \/ r \in New \/ flags.delete \/ ~flags.pre)

\* What the tests of a service need, its baseline included.
Keeps(s) == Stack[s] \cup (IF s \in Baselined THEN {Home} ELSE {})

Reuse(r) ==
    /\ IsNext(r) /\ Reuses(r)
    /\ up' = Append(up, r)
    /\ handed' = {s \in handed : r \notin Keeps(s)}
    /\ UNCHANGED <<cluster, session, flags, pc, test, todo, adopted, failed, captures, loaded, loading,
                   faults, before, whole, spoilt, taken>>

\* Fault: a resource that is there already is taken for the fixture's own.
CreateOrAdopt(r) ==
    /\ IsNext(r) /\ ~Reuses(r) /\ r \notin failed
    /\ there' = IF there[r] = 0 THEN [there EXCEPT ![r] = session] ELSE there
    /\ up' = Append(up, r)
    /\ UNCHANGED <<entry, session, flags, pc, test, todo, adopted, failed, captures, loaded, loading,
                   faults, history>>

Create(r) ==
    /\ IsNext(r) /\ ~Reuses(r) /\ r \notin failed /\ there[r] = 0
    /\ there' = [there EXCEPT ![r] = session] /\ up' = Append(up, r)
    /\ UNCHANGED <<entry, session, flags, pc, test, todo, adopted, failed, captures, loaded, loading,
                   faults, history>>

\* What is there already is the fixture's, but not to remove.
Adopt(r) ==
    /\ IsNext(r) /\ ~Reuses(r) /\ r \in Adopts \ failed /\ there[r] # 0
    /\ up' = Append(up, r) /\ adopted' = adopted \cup {r}
    /\ UNCHANGED <<cluster, session, flags, pc, test, todo, failed, captures, loaded, loading,
                   faults, history>>

\* A resource of that name is there already, or the fixture failed before.
CannotCreate(r) ==
    /\ IsNext(r) /\ ~Reuses(r) /\ (r \in failed \/ (there[r] # 0 /\ r \notin Adopts))
    /\ failed' = failed \cup {r} /\ Error
    /\ UNCHANGED <<cluster, session, flags, todo, up, adopted, captures, loaded, loading, faults,
                   history>>

\* The creation fails, or the wait that follows it: then the context manager
\* removes the resource again, if it is to be removed at all.  What is adopted is
\* waited for, too.
CreateFails(r) ==
    /\ IsNext(r) /\ ~Reuses(r) /\ r \notin failed /\ (there[r] = 0 \/ r \in Adopts)
    /\ Fault
    /\ \/ UNCHANGED there
       \/ there[r] = 0 /\ ~Deletes(r) /\ there' = [there EXCEPT ![r] = session]
    /\ failed' = failed \cup {r} /\ Error
    /\ UNCHANGED <<entry, session, flags, todo, up, adopted, captures, loaded, loading, history>>

SetupDone == pc = "setup" /\ \A r \in Stack[test.service] : IsUp(r)

\* Fault: existing entries win over new ones.
SavedOldFirst(s) == IF entry[s] = 0 THEN [entry EXCEPT ![s] = there[s]] ELSE entry

\* existing_data.update(baselines).
Saved(s) == [entry EXCEPT ![s] = there[s]]

\* _capture_and_save_baseline, once in a session; the ConfigMap needs Home.
Capture ==
    /\ SetupDone /\ test.pre /\ ~flags.post /\ test.service \in Baselined \ captures
    /\ captures' = captures \cup {test.service}
    /\ there[Home] # 0
    /\ entry' = Saved(test.service) /\ pc' = "run"
    /\ UNCHANGED <<there, session, flags, test, todo, up, adopted, failed, loaded, loading, faults,
                   history>>

CaptureFails ==
    /\ SetupDone /\ test.pre /\ ~flags.post /\ test.service \in Baselined \ captures
    /\ IF there[Home] = 0 THEN UNCHANGED faults ELSE Fault
    /\ captures' = captures \cup {test.service} /\ Error
    /\ UNCHANGED <<cluster, session, flags, todo, up, adopted, failed, loaded, loading, history>>

\* load_baseline_from_configmap, once in a session: without the ConfigMap it
\* raises, for every test of the session that asks for it.
Load ==
    /\ SetupDone /\ test.post /\ ~test.pre /\ test.service \in Baselined /\ loading = "pending"
    /\ loading' = IF HasBaselines THEN "done" ELSE "failed"
    /\ loaded' = entry
    /\ UNCHANGED <<cluster, session, flags, pc, test, todo, up, adopted, failed, captures, faults,
                   history>>

\* With --post-upgrade the capture fixtures return at once.  One test stands for
\* the tests of a file with its marker; those that only ask whether the service
\* exists run without the baselines, too.
BeginTest ==
    /\ SetupDone
    /\ test.service \in Baselined => IF test.pre THEN flags.post ELSE loading # "pending"
    /\ pc' = "run"
    /\ UNCHANGED <<cluster, session, flags, test, todo, fixtures, faults, history>>

EndTest ==
    /\ pc = "run"
    /\ pc' = "idle" /\ test' = NoTest
    /\ handed' = IF test.pre /\ ~flags.post /\ ~flags.delete THEN handed \cup {test.service} ELSE handed
    /\ UNCHANGED <<cluster, session, flags, todo, fixtures, faults, before, whole, spoilt, taken>>

-----------------------------------------------------------------------------
(* The end of a session.                                                   *)

AllRun ==
    /\ pc = "idle" /\ todo = {}
    /\ pc' = "teardown"
    /\ UNCHANGED <<cluster, session, flags, test, todo, fixtures, faults, history>>

\* What is in a namespace goes with it.
Removed(r) ==
    /\ there' = [q \in Resources |-> IF q = r \/ Within[q] = r THEN 0 ELSE there[q]]
    /\ entry' = IF r = Home THEN Nothing ELSE entry

\* The last set up first; a clean-up that fails is reported, and the rest goes on.
TakeDown ==
    /\ pc = "teardown" /\ up # <<>>
    /\ up' = Front(up)
    /\ \/ Deletes(Last(up)) /\ Removed(Last(up)) /\ UNCHANGED <<faults, spoilt>>
       \/ ~Deletes(Last(up)) /\ UNCHANGED <<cluster, faults, spoilt>>
       \/ /\ Deletes(Last(up)) /\ there[Last(up)] # 0
          /\ Fault /\ spoilt' = TRUE /\ UNCHANGED cluster
    /\ UNCHANGED <<session, flags, pc, test, todo, adopted, failed, captures, loaded, loading, before,
                   whole, handed, taken>>

End ==
    /\ pc = "teardown" /\ up = <<>>
    /\ pc' = "over"
    /\ UNCHANGED <<cluster, session, flags, test, todo, fixtures, faults, history>>

Kill ==
    /\ pc # "over" /\ Fault
    /\ pc' = "over" /\ test' = NoTest /\ todo' = {} /\ up' = <<>> /\ spoilt' = TRUE
    /\ UNCHANGED <<cluster, session, flags, adopted, failed, captures, loaded, loading, before, whole,
                   handed, taken>>

Next ==
    \/ Start \/ (\E t \in Tests : PickTest(t))
    \/ \E r \in Resources : Reuse(r) \/ Create(r) \/ Adopt(r) \/ CannotCreate(r) \/ CreateFails(r)
    \/ Capture \/ CaptureFails \/ Load \/ BeginTest \/ EndTest
    \/ AllRun \/ TakeDown \/ End \/ Kill

Spec == Init /\ [][Next]_vars

-----------------------------------------------------------------------------
\* Type invariant; nothing outlives its namespace.
TypeOK ==
    /\ there \in [Resources -> 0..CI] /\ entry \in [Services -> 0..CI]
    /\ session \in 0..MaxSessions /\ flags \in Flags
    /\ pc \in {"over", "idle", "setup", "run", "teardown"}
    /\ test \in Tests \cup {NoTest} /\ todo \subseteq Tests
    /\ up \in Seq(Resources) /\ adopted \subseteq Adopts /\ failed \subseteq Resources
    /\ captures \subseteq Services /\ loaded \in [Services -> 0..CI] /\ loading \in {"pending", "done", "failed"}
    /\ faults \in 0..MaxFaults
    /\ before \in [Resources -> 0..CI] /\ whole \in BOOLEAN /\ spoilt \in BOOLEAN
    /\ handed \subseteq Services /\ taken \subseteq Services
    /\ \A r \in Resources : there[r] # 0 => there[Within[r]] # 0
    /\ HasBaselines => there[Home] # 0

\* What a passed pre-upgrade test leaves stays, all its service is built from and
\* its baseline, until a post-upgrade session takes it up: no second pre-upgrade
\* session, with --delete-pre-upgrade-resources or without, failing or killed,
\* removes any of it, not even what that session adopted.
HandedOverIsKept ==
    \A s \in handed :
        /\ \A r \in Keeps(s) : there[r] # 0
        /\ s \in Baselined => entry[s] = there[s]

\* A post-upgrade session compares a service that was handed over to it with the
\* baseline of that very service, whatever was captured under its name before.
ComparedWithItsOwn ==
    pc = "run" /\ test.post /\ ~test.pre /\ loading = "done" /\ test.service \in taken \cap Baselined
        => loaded[test.service] = there[test.service]

\* A complete post-upgrade session that is not killed, and all of whose clean-ups
\* succeed, leaves none of the resources of earlier sessions, even of killed ones:
\* and not the gateway either that CI made for all of them.
PostCleansUp ==
    pc = "over" /\ flags.post /\ whole /\ ~spoilt => \A r \in Resources \ New : there[r] = 0

\* A session for debugging, with --delete-pre-upgrade-resources, leaves the cluster
\* as it found it: all of its own resources gone, none of an earlier session.
TrialLeavesAsFound ==
    pc = "over" /\ flags.delete /\ ~flags.post /\ ~spoilt => there = before

\* docs/UPGRADE.md: "Run pre-upgrade and post-upgrade tests": a pre-upgrade test
\* runs on a service that is there, in a session with both flags too.
PreTestsHaveTheirService ==
    pc = "run" /\ test.pre => there[test.service] # 0
=============================================================================
