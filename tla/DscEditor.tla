----------------------------- MODULE DscEditor -----------------------------
(***************************************************************************)
(* The fixtures that patch the DataScienceCluster for the tests that need  *)
(* it, in one pytest session: update_components_in_dsc and its users,      *)
(* ensure_kueue_unmanaged_in_dsc, the MaaS fixtures, and the class         *)
(* fixtures of tests/fixtures.  Each enters a ResourceEditor, which backs  *)
(* up the fields it changes, then waits for the status of the DSC; pytest  *)
(* enters wider scopes first, keeps a fixture up until its scope is over,  *)
(* and takes the last entered down first within a scope.                   *)
(*                                                                         *)
(* Not here: the two editors of updated_dsc_component_state_scope_session  *)
(* and the parametrised default_deployment_mode_in_dsc, which set a field  *)
(* to more than one value.                                                 *)
(***************************************************************************)
EXTENDS DscOperator, Naturals, Sequences

CONSTANTS
    Fixtures,
    Scope,     \* of a fixture: 0 session, 1 package, 2 class
    Patch,     \* the fields a fixture sets
    Want,      \* the value a field is set to: the same in all its fixtures
    Careful,   \* fixtures that look first and patch only what differs
    Waits,     \* what a fixture waits for after its patch, in order
    WaitsAfter,\* fixtures that wait for Ready after their restore
    Requests,  \* sets of these fixtures one test may use
    None,      \* a field that is not backed up
    MaxTests   \* bound: tests in the session

Levels == 0..3
Condition == {"component", "reconciled", "unready", "ready"}

ASSUME FixturesAssumption ==
    /\ Scope \in [Fixtures -> 0..2] /\ Careful \subseteq Fixtures /\ WaitsAfter \subseteq Fixtures
    /\ Patch \in [Fixtures -> SUBSET Fields] /\ Want \in [Fields -> Values]
    /\ Waits \in [Fixtures -> Seq(Condition)]
    /\ Requests \subseteq SUBSET Fixtures
    /\ None \notin Values /\ MaxTests \in Nat \ {0}

\* Two fixtures that set one field have one scope (the two MaaS fixtures are
\* session fixtures, those that set rawDeploymentServiceConfig class fixtures).
ASSUME ScopeAssumption ==
    \A f, g \in Fixtures : Patch[f] \cap Patch[g] # {} => Scope[f] = Scope[g]

\* Whose condition is waited for is set to Managed by all its fixtures, and was
\* either that or Removed: components with a third state have no such fixture.
ASSUME ComponentAssumption ==
    \A f \in Fixtures : (\E i \in DOMAIN Waits[f] : Waits[f][i] = "component") =>
        \A p \in Patch[f] : Original[p] \in {Removed, Want[p]}

VARIABLES
    pc,       \* where pytest is
    need,     \* fixtures still to set up for the test in hand
    now,      \* the fixture being set up or taken down
    left,     \* what it has still to wait for
    up,       \* fixtures set up
    under,    \* those that were up when a fixture was set up
    failed,   \* fixtures whose set up failed: pytest keeps the exception
    saved,    \* the backups of the editors
    keep,     \* scopes from this one on are over
    tests,    \* tests so far
    settled,  \* history: the operator had nothing to do at the baseline of a fixture
    patched   \* history: fixtures whose editor changed something

pytestVars == <<pc, need, now, left, up, under, failed, saved, keep, tests, settled, patched>>
vars == <<spec, operatorVars, pytestVars>>

NoBackup == [p \in Fields |-> None]

Init ==
    /\ OperatorInit
    /\ pc = "between" /\ need = {} /\ now \in Fixtures /\ left = <<>>
    /\ up = {} /\ under = [f \in Fixtures |-> {}] /\ failed = {}
    /\ saved = [f \in Fixtures |-> NoBackup]
    /\ keep = 3 /\ tests = 0
    /\ settled = [f \in Fixtures |-> FALSE] /\ patched = {}

-----------------------------------------------------------------------------
(* ResourceEditor.                                                         *)

\* Fault: the whole spec is backed up, not only what the patch changes.
BackupOfAll(f) == spec

\* The fields the patch changes, with the values they have.
Backup(f) == [p \in Fields |-> IF p \in Patch[f] /\ spec[p] # Want[p] THEN spec[p] ELSE None]

Patched(f) == [p \in Fields |-> IF p \in Patch[f] THEN Want[p] ELSE spec[p]]

\* Fault: the editor's exit does not restore after an exception.
RestoredNot(f) == spec

Restored(f) == [p \in Fields |-> IF saved[f][p] = None THEN spec[p] ELSE saved[f][p]]

Drop(f) == /\ spec' = Restored(f)
           /\ saved' = [saved EXCEPT ![f] = NoBackup]
           /\ patched' = patched \ {f}

-----------------------------------------------------------------------------
(* Setting up what a test needs.                                           *)

PickTest ==
    /\ pc = "between" /\ tests < MaxTests
    /\ need' \in Requests
    /\ tests' = tests + 1 /\ pc' = "setup"
    /\ UNCHANGED <<spec, operatorVars, now, left, up, under, failed, saved, keep, settled, patched>>

\* Wider scopes first.
IsNext(f) == pc = "setup" /\ f \in need /\ \A g \in need : Scope[f] <= Scope[g]

Cached(f) ==
    /\ IsNext(f) /\ f \in up
    /\ need' = need \ {f}
    /\ UNCHANGED <<spec, operatorVars, pc, now, left, up, under, failed, saved, keep, tests,
                   settled, patched>>

\* The test in hand ends; the next one shares the scopes below k with it.
Finish(k) == /\ pc' = "teardown" /\ need' = {}
             /\ keep' = k /\ (tests = MaxTests => k = 0)

CachedFailure(f) ==
    /\ IsNext(f) /\ f \in failed
    /\ \E k \in Levels : Finish(k)
    /\ UNCHANGED <<spec, operatorVars, now, left, up, under, failed, saved, tests, settled, patched>>

\* Fault: a fixture that failed is set up again for the next test.
ReadAgain(f) ==
    /\ IsNext(f) /\ f \notin up
    /\ now' = f /\ pc' = "read"
    /\ moved' = FALSE /\ settled' = [settled EXCEPT ![f] = Settled]
    /\ UNCHANGED <<spec, seen, busy, applied, ready, cond, need, left, up, under, failed, saved,
                   keep, tests, patched>>

\* The fixture reads the DSC; get_dsc_ready_condition notes the time of the
\* last transition of Ready.
Read(f) ==
    /\ IsNext(f) /\ f \notin up \cup failed
    /\ now' = f /\ pc' = "read"
    /\ moved' = FALSE /\ settled' = [settled EXCEPT ![f] = Settled]
    /\ UNCHANGED <<spec, seen, busy, applied, ready, cond, need, left, up, under, failed, saved,
                   keep, tests, patched>>

\* ... and enters its editor, if it has anything to change.
Enter ==
    /\ pc = "read"
    /\ spec' = Patched(now)
    /\ saved' = [saved EXCEPT ![now] = Backup(now)]
    /\ left' = IF now \in Careful /\ Patched(now) = spec THEN <<>> ELSE Waits[now]
    /\ patched' = IF Patched(now) = spec THEN patched ELSE patched \cup {now}
    /\ pc' = "wait"
    /\ UNCHANGED <<operatorVars, need, now, up, under, failed, keep, tests, settled>>

\* Fault: the reconciliation counts as over as soon as Ready is True.
HoldsTooSoon(c, f) ==
    CASE c = "component" -> \A p \in Patch[f] : cond[p]
      [] c = "unready" -> \E p \in Patch[f] : ~cond[p]
      [] OTHER -> ready

\* "component": the conditions of the patched components are True; "reconciled":
\* wait_for_dsc_reconciliation; "unready": the condition has been seen not to be
\* True; "ready": wait_for_dsc_status_ready.
Holds(c, f) ==
    CASE c = "component" -> \A p \in Patch[f] : cond[p]
      [] c = "reconciled" -> moved /\ ready
      [] c = "unready" -> \E p \in Patch[f] : ~cond[p]
      [] OTHER -> ready

Wait ==
    /\ pc = "wait" /\ left # <<>> /\ Holds(Head(left), now)
    /\ left' = Tail(left)
    /\ UNCHANGED <<spec, operatorVars, pc, need, now, up, under, failed, saved, keep, tests,
                   settled, patched>>

\* Fault: a wait without an end.
WaitForever == FALSE /\ UNCHANGED vars

\* The exception leaves the editor, which restores; pytest keeps it for the
\* tests to come and goes on.
TimeOut ==
    /\ pc = "wait" /\ left # <<>> /\ ~Holds(Head(left), now)
    /\ Drop(now) /\ failed' = failed \cup {now} /\ left' = <<>>
    /\ \E k \in Levels : Finish(k)
    /\ UNCHANGED <<operatorVars, now, up, under, tests, settled>>

SetUp ==
    /\ pc = "wait" /\ left = <<>>
    /\ up' = up \cup {now} /\ under' = [under EXCEPT ![now] = up]
    /\ need' = need \ {now} /\ pc' = "setup"
    /\ UNCHANGED <<spec, operatorVars, now, left, failed, saved, keep, tests, settled, patched>>

-----------------------------------------------------------------------------
(* The test, and taking down the scopes that end with it.                  *)

RunTest ==
    /\ pc = "setup" /\ need = {}
    /\ pc' = "test"
    /\ UNCHANGED <<spec, operatorVars, need, now, left, up, under, failed, saved, keep, tests,
                   settled, patched>>

EndTest ==
    /\ pc = "test"
    /\ \E k \in Levels : Finish(k)
    /\ UNCHANGED <<spec, operatorVars, now, left, up, under, failed, saved, tests, settled, patched>>

\* Narrower scopes first, the last set up first within a scope.
IsLast(f) ==
    /\ f \in up /\ Scope[f] >= keep
    /\ \A g \in up : Scope[g] <= Scope[f] /\ (Scope[g] = Scope[f] => f \notin under[g])

TakeDown(f) ==
    /\ pc = "teardown" /\ IsLast(f)
    /\ Drop(f) /\ up' = up \ {f} /\ now' = f
    /\ pc' = IF f \in WaitsAfter THEN "after" ELSE "teardown"
    /\ UNCHANGED <<operatorVars, need, left, under, failed, keep, tests, settled>>

\* Ready, or a timeout that pytest reports: the teardown goes on.
After ==
    /\ pc = "after"
    /\ pc' = "teardown"
    /\ UNCHANGED <<spec, operatorVars, need, now, left, up, under, failed, saved, keep, tests,
                   settled, patched>>

TornDown ==
    /\ pc = "teardown" /\ \A f \in up : Scope[f] < keep
    /\ failed' = {f \in failed : Scope[f] < keep}
    /\ pc' = IF keep = 0 THEN "over" ELSE "between"
    /\ UNCHANGED <<spec, operatorVars, need, now, left, up, under, saved, keep, tests, settled,
                   patched>>

PytestStep ==
    \/ PickTest \/ Enter \/ Wait \/ TimeOut \/ SetUp \/ RunTest \/ EndTest \/ After \/ TornDown
    \/ \E f \in Fixtures : Cached(f) \/ CachedFailure(f) \/ Read(f) \/ TakeDown(f)

Next == PytestStep \/ (OperatorStep /\ UNCHANGED pytestVars)

\* pytest goes on by itself, every wait of it ends in a timeout at the latest,
\* and the operator keeps reconciling.
Spec == Init /\ [][Next]_vars /\ WF_vars(PytestStep) /\ WF_vars(OperatorStep /\ UNCHANGED pytestVars)

-----------------------------------------------------------------------------
\* Type invariant.
TypeOK ==
    /\ OperatorTypeOK
    /\ pc \in {"between", "setup", "read", "wait", "test", "teardown", "after", "over"}
    /\ need \subseteq Fixtures /\ now \in Fixtures /\ left \in Seq(Condition)
    /\ up \subseteq Fixtures /\ under \in [Fixtures -> SUBSET Fixtures]
    /\ failed \subseteq Fixtures /\ up \cap failed = {}
    /\ saved \in [Fixtures -> [Fields -> Values \cup {None}]]
    /\ keep \in Levels /\ tests \in 0..MaxTests
    /\ settled \in [Fixtures -> BOOLEAN] /\ patched \subseteq Fixtures

\* Whenever no fixture is up, after whatever timeouts and in whatever order the
\* scopes ended, the DSC has the spec the session found.
LeavesNoTrace == pc \in {"between", "over"} /\ up = {} => spec = Original

\* A test runs on a spec that has every patch of the fixtures it may rely on,
\* whichever fixtures of narrower scopes came and went since they were set up.
PatchesInForce ==
    pc = "test" => \A f \in up : \A p \in Patch[f] : spec[p] = Want[p]

\* When the operator had nothing to do at its baseline, a fixture that waited for
\* the reconciliation, or for the condition of its component, is right: the
\* cluster embodies the patch, whatever a quick operator never showed.
NoFalsePositiveWhenSettled ==
    pc = "test" => \A f \in up \cap patched :
        settled[f] /\ (\E i \in DOMAIN Waits[f] : Waits[f][i] \in {"reconciled", "component"})
            => \A p \in Patch[f] : applied[p] = Want[p]

\* Once the session is over the cluster gets back, and stays, where it was.
ClusterRecovers == <>[](applied = Original /\ ready /\ cond = Up(Original) /\ pc = "over")

\* data_science_cluster_utils.py: "This function prevents false positives where
\* DSC reports Ready=True immediately after a patch, before actual
\* reconciliation begins."
NoFalsePositive ==
    pc = "test" => \A f \in up \cap patched :
        (\E i \in DOMAIN Waits[f] : Waits[f][i] = "reconciled")
            => \A p \in Patch[f] : applied[p] = Want[p]
=============================================================================
