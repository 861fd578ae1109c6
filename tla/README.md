# A verification project for opendatahub-tests

opendatahub-tests is a pytest suite for Open Data Hub / OpenShift AI, and the
scripts with which its repository is run. Most of its files are tests: a request
to a cluster and an assertion on the answer. What can go wrong without anybody
noticing is in what the tests share: a cluster that several fixtures change, files
that several processes write, sessions that hand resources to later sessions, and
the bot that labels pull requests from overlapping workflow runs; and in the waits
and clients through which every test looks at a cluster that goes on changing. That
is what is modelled here.

Contents: [the system](#1-the-system) · [plan](#2-plan) ·
[modules](#3-the-modules-and-the-code) · [runs](#4-runs-and-bounds) ·
[fairness](#5-fairness) · [proofs](#6-proofs) ·
[divergences](#7-where-code-and-documentation-differ) ·
[not modelled](#8-what-is-not-modelled)

## 1. The system

| Component | State it keeps | Operations | Interacts with |
|---|---|---|---|
| Pull-request label bot (`.github/workflows/scripts/pr_workflow.py`, `add-remove-labels.yml`, `on-review-add-label.yml`) | labels and approving review on GitHub; a snapshot of the labels per run | a run per push, comment, review; one REST call per label | other runs of the same pull request, through GitHub only |
| Size label (`set_pr_size`, `size-labeler.yml`) | the size label | one run per push, cancelled by the next | GitHub's concurrency group |
| DataScienceCluster patching (`utilities/data_science_cluster_utils.py`, fixtures in `tests/conftest.py`, `tests/fixtures/`, `tests/**/conftest.py`) | the DSC's spec; a backup per `ResourceEditor`, in the pytest process | patch, wait, restore | the operator, which follows late; pytest's scopes and cache of fixtures |
| Must-gather (`conftest.py` hooks, `utilities/must_gather_collector.py`, `utilities/database.py`) | an SQLite file, `py_config`, directories of bundles | hooks of session, setup, failure, teardown | pytest's order of hooks; the next session, through the file; other xdist workers |
| Upgrade baselines (`upgrade/utils.py`) | a ConfigMap with an entry per InferenceService | look, create, read, update with retries | other writers; the deletion of the namespace |
| Upgrade fixtures (`upgrade/conftest.py`, `teardown_resources`, `create_ns`) | namespaces, services, their baselines: all on the cluster | create or reuse, capture, load, remove | earlier and later sessions |
| Test collection (`pytest_collection_modifyitems`) | none | filter and order by markers and flags | decides what the fixtures above see |
| Session of several processes (`conftest.py` hooks under pytest-xdist) | the log file, the database and the base directory, shared by all processes | start, tests, finish; the start of a replacement for a crashed worker | the other processes, through files that each of them removes |
| Logging (`utilities/logger.py`) | handlers, the queue, the filter of the root | `setup_logging`, the patched `addHandler`, the listener thread | libraries that make loggers at any time |
| InferenceService creation and waits (`inference_utils.py`, `infra.py`, `llmd_utils.py`) | the time budget of one fixture | create, wait for pods, deployments, replicas, conditions, the model's status | the controllers of KServe, Knative and Kubernetes |
| Serving runtimes, LLMD and inference clients (`serving_runtime.py`, `inference_utils.py`, `llmd_utils.py`, `plugins/`) | the attempts and tokens of one call | what goes into the objects, what is read back, one request with its retries | the fixtures that wrote the objects; routers and models that fail |
| Pollers (`general.py`, `infra.py`, `kueue_utils.py`, `monitoring.py` and others) | counters of a wait | sample until a condition or a timeout | a cluster that changes meanwhile |
| Login switching (`tests/conftest.py`, `infra.py`, `user_utils.py`) | the kubeconfig | log in as another user, build a client, log in back | every `oc` call of every process of the machine |
| Fixtures on shared resources (`infra.py`, `general.py`, `llmd_utils.py`, `tests/conftest.py`) | one resource of the cluster; what each process has to take back | look or create, edit, wait, use, clean up | the same fixture in other processes, users and later sessions |
| Jira gating, constants and wrappers, wrapper checks, the tests themselves | little or none | | |

What is hard about them, and what makes them correct:

* **Label bot.** Runs overlap (no concurrency group), each works on the labels it
  read at its start, and one run makes many calls, each of which may be refused.
  Correct: every label and the bot's approval come from somebody who may give
  them; only labels the repository knows are attached; a run that nobody disturbs
  has the effect of one step, and cannot be refused a call; a push takes the votes
  away.
* **Size label.** The run is cancelled between any two calls. Correct: never two
  size labels, and, when the pushes stop, the right one.
* **DSC patching.** Editors of different scopes are nested and patch the same
  resource, sometimes the same field; any wait inside one may time out; the status
  that is waited for is that of an earlier spec until the operator has acted.
  Correct: the spec is restored whatever failed, a test runs with its patches, a
  wait that returns means what its name says, and the cluster comes back.
* **Must-gather.** The failure hook runs between other hooks and finds whatever
  they left in shared variables; sessions are killed; names are not unique.
  Correct: data goes to the directory of the test it is about, covers its time, and
  stays.
* **Upgrade baselines.** Optimistic concurrency over two reads. Correct: no saved
  entry is lost, a writer gives up only for a reason, every writer ends.
* **Upgrade fixtures.** State outlives the process; a later session with other
  flags acts on it; sessions fail and are killed half-way. Correct: what was handed
  over is kept with its own baseline until it is taken up, is compared with that
  one, and is gone in the end; a trial leaves nothing.

* **Session of several processes.** Every process calls the hooks, and each removes
  what all share: the log when it starts, the database when it finishes, the
  collected data when it starts. Correct: the controller is not disturbed; data and
  start times are lost for no other reason than the known ones.
* **Logging.** Handlers are taken over once, loggers appear later, and the queue pickles
  what it is given. Correct: one record is in the file once, and what is missing has a
  known reason.
* **InferenceService.** Pods are looked at once, deployments listed once, and the
  cluster goes on in between. Correct: the waits make up for what each one misses,
  stay within one budget, and end.
* **Clients.** Answers arrive in parts, errors look like answers. Correct: what a test
  gets is one answer, of one attempt, from the address the fixture asked for.
* **Pollers.** A sample is old when it is used. Correct: a wait returns upon what it
  waits for, gives up for a reason, ends.
* **Login switching, shared resources.** One kubeconfig and one resource, several
  processes. Correct: the user is back, a project has the right owner, who created
  a resource removes it, what was found stays.

Each hazard is listed, at the line where it bites, in `PROJECT.json`.

## 2. Plan

The order is by what would hurt most and be seen last: first what changes shared
state for others (labels and approvals, the DSC), then what is lost silently (logs,
baselines, resources across sessions), then the waits and the clients.

| Module | Subject | State |
|---|---|---|
| `PrLabeler`, `PrSizeLabeler`, `PrLabelerProofs` | the label bot, the size label | done |
| `DscOperator`, `DscEditor`, `DscEditorProofs` | fixtures that patch the DSC, and the operator | done, but for fixtures that set a field to several values |
| `MustGather`, `MustGatherProofs` | collection of data on failures | done for one process |
| `UpgradeBaseline`, `UpgradeBaselineProofs` | the ConfigMap and its concurrent writers | done |
| `UpgradeSession`, `UpgradeSessionProofs` | sessions before and after an upgrade | done |
| `ServingSpec`, `IsvcFixture`, `InferenceClients`, `InferenceSession`, `InferenceProofs` | `create_isvc`, `create_llmisvc`, their waits against controllers that replace deployments and pods, and the client that then asks the service | done |
| `ClusterFixtures`, `LoginSwitch`, `SharedCluster`, `SharedClusterProofs` | fixtures of several processes on one resource, and the kubeconfig they share | done |
| `Logging`, `PytestSession` | collection, the files of several xdist processes, and the log of one | done |
| `TimedWait`, `Pollers` | fourteen sampling loops, and the abstract wait they implement | done |
| `SessionProofs` | proofs about `PytestSession`, `Logging` and `Pollers` | done |
| `Handover` | an abstract service that is absent, offered or taken up; `UpgradeSession` shown to implement it | next |

Compositions: `DscEditor` extends `DscOperator`; `UpgradeSession` treats the save of
a baseline as one step, and `UpgradeBaseline` says when several may overlap and what
is then lost; `InferenceSession` joins the fixture (`IsvcFixture`), the client
(`InferenceClients`) and, through what both read and write (`ServingSpec`), the address;
`SharedCluster` joins `LoginSwitch` and `ClusterFixtures`: the client a process got is
the one it requests a project with; `PytestSession` extends `Logging`. `TimedWait` is an
abstract specification, and `Pollers` is shown to implement it. Abstract specifications
that are still worth stating: `Handover` (above), and for the
labels an atomic bot that serves one event at a time, of which
`UndisturbedRunIsAtomic` is the part that the code keeps.

Theorems still worth proving: that `UpgradeSession` implements `Handover`. Every safety
invariant that a run checks has a theorem (section 6).

## 3. The modules and the code

`PROJECT.json` maps every definition to its lines. Definitions preceded by
"Fault:" are not part of the model: each is a plausible mistake in the definition
that follows it, and shows that the properties notice it.

**PrLabeler.** `labels`, `repoLabels`, `botApproved` are what GitHub keeps; `run[r]`
is one process of `pr_workflow.py`, with the event it was given, the snapshot
(`snap`) of `self.pr.labels`, and the call it has pending. `Trigger` is a push, a
comment (made, edited, deleted) or a review; `Fetch…` are the branches of
`run_pr_label_action` up to the first write; `LookupLabel`, `CreateLabel`,
`AttachLabel`, `StripLabel`, `RemoveLabel`, `ApprovePr` are one REST call each, and
any of them is refused, and kills the run, exactly when GitHub would refuse it. A
label is a pair of its kind and a login. The order in which a dictionary of commands
is worked off is left open; that a login with capitals is compared with lower-case
names is kept (`LabelInPr`). A text is of a user, or the welcome comment as the run's own
interpreter spells it, or the same in another order: the comment ends in the `repr` of a
set of strings, whose order differs from process to process, and only the second is
recognised (`QuotesWelcome`).

**PrSizeLabeler.** `Push` by anybody, `Cancel` by GitHub, and the run: `Start` reads
the labels, `Measure` the size in a later request, `RemoveOther`/`AlreadySet` are the
loop, `AddLabel` its end.

**DscOperator** is external: `Observe`, `ReportBusy`, `ReportDone` are what the code
expects of the operator, that the status is of an earlier spec for a while, and that
a quick reconciliation need not show. **DscEditor** is one pytest process: `Read`
(the baseline of the wait), `Enter` (the `ResourceEditor`: backup of the changed
fields, patch), `Wait` and `TimeOut`, `SetUp`, then `RunTest`, `EndTest`, and
`TakeDown` of the scopes that end, last set up first. A fixture that is up is
`Cached`, one that failed too (`CachedFailure`). Which fixtures there are, with
their scopes, fields and waits, is a matter of constants; `MCDscEditor` gives six of
the repository's. `ComponentAssumption` says of a fixture that waits for a component's
condition that the component is Removed or, already, as the fixture wants it: all
such fixtures set it to Managed, and a component has no third state.

**MustGather.** One action per hook, and `Tick`. `dir` is
`py_config["must_gather_collector"]["collector_directory"]` below the base, `rows`
the SQLite file, `bundles` the archives. The teardown hook of `conftest.py` runs before
pytest's own, which is why `Teardown` and `FixturesTornDown` are two actions in that
order. A failure collects, or breaks off and leaves its folder (`folders`), or does not: the
database and must-gather may fail themselves. A test's directory is its name without what
is no word character, so two parametrized tests may share one (`PlaceOf`); what is archived
is a folder that the code finds in the directory, not necessarily the one it just made
(`Candidates`).

**UpgradeBaseline.** One action per call on the cluster of
`save_baseline_to_configmap`: `Look` (`exists`, outside the loop and in it), `Create`,
`Read` (the data), `ReadAgain` (the dictionary with the resourceVersion), `Update`,
`Gone` when the ConfigMap has been deleted between two calls. A version is the number
of writes.

**UpgradeSession.** `there[r]` is the session that created a resource. `Start` chooses
flags and tests, `PickTest` keeps the order of `pytest_collection_modifyitems`;
`Reuse`, `Create`, `CannotCreate`, `CreateFails` are the branches of every fixture;
`Capture`, `Load`, `BeginTest`, `EndTest` the tests; `TakeDown` the end of the fixtures,
in reverse order; `Kill` may come at any time. `Deletes` is `teardown_resources` with the
two cases that do not ask for it. All upgrade fixtures have one of two shapes: they
reuse if `post_upgrade` and create else, or (`New`) create if `post_upgrade` and do
nothing else. Some of the first (`Adopts`: the gateway, the Secret of the S3 endpoint) do not
conflict with what is there: they take it as it is (`Adopt`) and leave it (`adopted`), and
somebody else, `CI`, may have made it before the first session. A post-upgrade session
removes the gateway all the same, whoever made it. `Order` is the order of collection;
`Baselined` are the services whose state is captured. Deleting a namespace deletes what is in it, the baselines with the first
one. `CoverAssumption` says that whatever a pre-upgrade session may leave is used by some
post-upgrade test that needs nothing of its own (`New`): who hands something over has a
test that takes it up.

**ServingSpec** has no state: the objects `create_isvc`, `ServingRuntimeFromTemplate` and
`create_llmisvc` make of their arguments, and what `Inference`, `UserInference` and
`get_llm_inference_url` read back from objects. A dictionary is a function on its keys,
`Unset` is `None` or an exception, as the comments say. Its `:>` and `@@` are those of the
module `TLC`, written out so that the provers see them.

**IsvcFixture.** `pc` is the wait in hand of one call of `create_isvc` (or
`create_llmisvc`), one action per wait: `PodsExist` (`wait_for_isvc_pods`),
`VerifyNoFailedPods`, `ListDeployments` and `DeploymentExists` (the list is made once
and then gone through), `WaitForReplicasInDeployment`, `WaitForReplicas`,
`RecreateForModelMesh` and `DeployAgain` (the deletion of a second ModelMesh service is
waited for, beside the budget), `WaitForCondition`, `IsModelLoaded`, `CheckModelStatus`.
`RequestsAssumption` names what is taken for granted of the arguments: a mode is a known
one, `create_llmisvc` waits for no pods, no template asks for a route by itself, and no
address that a status carries is `localhost`. `Tick` is time, in units of 30 seconds;
`Expire` the timeout of the wait in hand, whose length is what `TimeoutWatch` had left
when it was started. The controllers are external: the ones that bring the service up
(`ComingUp`), and those that disturb it (`PodFails`, `PodLeaves`, `RollOut`, `Rescaled`,
`Relapse`).

**InferenceClients.** One call of `run_inference_flow`, `OpenAIClient` or
`TGISGRPCPlugin`, an action per attempt, per token and per way to end; the error that a
server sends in a stream, and that is taken for a token, is one of them (`ErrorArrives`). **InferenceSession**
is the composition: when the fixture has yielded, a client asks the address that
`ServingSpec` finds in the objects the fixture made.

**Pollers.** `loop` says which of fourteen functions is looked at, `Result` what a sample
tells it (good, bad, an exception that is passed over, one that is not), `Counted` how it
counts, `Outcome` how it ends when its time is over; the cluster changes between any two
samples. Some loops are several in a row (`Stages`): that for MariaDB waits for pods, lists
them again, and then waits for each of this list. **TimedWait** is what all of them promise. `ImplementsTimedWait` is the
refinement: `returned` is a return, every other end is giving up, `left` counts the
samples left in this stage and those after it.

**ClusterFixtures.** `kind` is which fixture; all processes run the same one on the same
resource. `Look`, `Create`, `BackUp`, `Patch`, `WaitEnds`, `BodyEnds`, `Leave` are its calls,
`CreateFails`, `PatchFails`, `WaitFails`, `BodyFails`, `LeaveFails` the refused ones,
`CreateUnanswered` and `PatchUnanswered` those that took effect although the answer was lost, and
`Kill` the end of a process between any two. How the kinds differ - whether they look
first, edit what they find, wait, and have the wait and the yield inside `with` - is said
by `Looks`, `Edits`, `Waits`, `WaitIsGuarded`, `BodyIsGuarded`. **LoginSwitch** has an
action per call of `oc` on the kubeconfig, for `unprivileged_client` and for
`test_idp_user` (the `Probes`). **SharedCluster** composes the two: a project is requested
with the client the process has got, and belongs to its user.

**Logging.** `handlers` and `propagate` per logger; `Log` puts a record into the queue once
for each logger on its way up that has the queue's handler; `Write` is the listener's
thread. A record is pickled unformatted: one that cannot be (`Unpicklable`) never gets into
the queue, and one that cannot be loaded again (`Unloadable`, as with a `RedactedString` among
its values) ends the thread with an exception (`dead`). **PytestSession** has one action per step of `pytest_sessionstart` and
`pytest_sessionfinish` that looks at or changes a shared file, `Selected` for
`pytest_collection_modifyitems`, and xdist's `Assign`, `WorkerCrashes` and replacement as
external. A file is known by the process that made it, so that a process may have a file
open (`dbOf`, `logOf`) that is no longer the one there.

## 4. Runs and bounds

| Run | States | Question | Bounds, and why they are enough |
|---|---|---|---|
| `pr_labeler` | 868,434 | Can any order of three overlapping runs give a label or an approval nobody may give, or kill a run that had nobody to disturb it? | Two runs at once, three events: every pair of a decision and another's write occurs, and a third run sees the result. Author, member and stranger; comments with no command, two, a cancellation, one that takes itself back, the welcome text in the run's own order and in another. |
| `cancel_revokes_approval` | – | Does `/lgtm cancel` revoke the approval? (No.) | |
| `pr_size` | 2,079 | Two labels? The right one in the end? | sizes on both sides of all thresholds; three pushes: one in progress, one pending, one more |
| `dsc_editor` | 730,270 | Is the spec restored, is a test on its patches, is a wait right when the operator was idle, does the cluster come back? | three tests: one to set up, one that shares scopes with it, one after its scopes ended; every kind of wait; two fixtures of one field in session and class scope |
| `must_gather` | 6,327,180 | Right directory, right window, nothing overwritten, and is what is archived of the test it is filed under? | two sessions: one that was killed and one that finds its file; three tests, two with one row of the database, two with one directory; a clock reading within the minute in which the default window is taken, and one far above. No test is marked to skip must-gather: in the model it is one that does not fail |
| `upgrade_baseline` | 17,789 | Is an entry lost otherwise than by the two reads? Who gives up? Does everybody end? | four writers with two rounds: more writers than rounds, so that giving up occurs |
| `upgrade_session` | 8,767,122 | Is what is handed over kept, compared with its own baseline, and removed? Does a trial leave the cluster as it was? | three sessions: a pre-upgrade one, another, disturbed or a trial, that meets what it left, a post-upgrade one; two faults; a service in the namespace of the baselines, one outside, the LLM service with its gateway, which may be there from the start, and one that only post-upgrade tests create |
| `both_flags` | – | Do pre-upgrade tests have their service when both flags are given? (No.) | the same |
| `inference` | 198,398 | Does a quiet cluster give a healthy service, is the budget kept, does the set-up end, is an answer whole, and does the client go where it was asked to? | a budget of two units and the 30 seconds before it; two pods, two replicas, two deployments: a list that is stale, a pod too few and one too many; one disturbance, after which the first property claims nothing; services of every mode, with and without a route, the arguments that are refused, the neighbours of a ModelMesh namespace; three tokens: a stream that breaks at the start, in the middle, at the end |
| `pollers` | 5,718 | Is every loop a timed wait? Do those that count, count as they say? | two pods, of which one may go while the other is looked at; three samples, one more than the consecutive ones that are asked for |
| `shared_cluster` | 143,123 | Who leaves what behind? Is a created resource kept until its creator removes it, and a found one at all? Is the user back? | three processes: two that want the same value and one that wants another; all eight kinds; found or not; one refused login, any number of other failures and kills |
| `pytest_session` | 5,355,012 | Whose files are removed by whom, and which records are written? | one process, or a controller, two workers and one replacement; four tests that cover the markers; every pair of flags but both (which is the subject of `both_flags`); tests of two modes, of which none or one is asked for; with one process four loggers, of which two are a library's, and two records, plain, unpicklable or unloadable, so that the second may repeat the first or come after one that ended the listener |

Both runs with "(No.)" end in the counterexample of section 7. The others pass, and
every property of theirs fails for at least one of the faults. Seven more configurations
are kept beside the runs, each with one property that a comment or a document states and
TLC refutes: `PushClearsVotes`, `CancelRemovesLabel` and `WelcomeAsksForNothing` (of `MCPrLabeler`), `NoFalsePositive`
(`MCDscEditor`), `NoEntryDropped` (`UpgradeBaseline`), `AllPodsRunning` (`Pollers`),
`ServicesAreDiscovered` (`MCInference`); `tlc -config <name>.cfg <module>` shows them.
The type invariants are in the modules (`TypeOK`) and, where there are proofs, proved;
the runs are kept for what could be wrong.

`CHECK_DEADLOCK FALSE` is set where the bounds, or the end of all sessions, stop the
system. Slots of `PrLabeler` are symmetric: they differ in nothing but their name, and
no run with symmetry checks liveness.

History variables (`asked`, `askedNow`, `approvalAsked`, `disturbed`, `settled`,
`patched`, `split`, `before`, `handed`, `taken`, `whole`, `spoilt`, `began`, `readySeen`,
`recent`, `crossed`, `broken`, `together`, `owner`, `ran`, `lost`, `dropped`, `late`, `stubborn`,
`doubled`) guard no step, but for `ran`, from which xdist's `Assign` and `Finish` know what
is left to run, and `disturbed` of `IsvcFixture`, which also bounds the disturbances.

What the less obvious properties say:

* `CrashNeedsDisturbance`: the script catches no `GithubException`. It dies only when
  another run wrote after its snapshot, so the workflows' overlap is the only cause.
* `UndisturbedRunIsAtomic` compares a finished run with a plain reading of the
  commands in order (`Outcome`), independent of the dictionary the code builds.
* `NoFalsePositiveWhenSettled` is the part of `wait_for_dsc_reconciliation`'s promise
  that holds: the operator must have been idle when the baseline was read. The same
  holds of waits for a component's condition, which is old otherwise.
* `ItemBundlesKept` excepts tests that share a directory: `mg-0.zip` of one, when its start is
  not known, replaces that of the other. It covers setup and call only. What a failing fixture teardown
  collects goes to the base directory as `mg-<start>.zip` and may replace that of
  another test, because the collector is reset first.
* `BundleIsItsTests`: a collection that breaks off leaves its folder, and the next one in that
  directory may archive that folder instead of its own; so what is archived under a test may be of
  another, but of its directory. In the base directory, where teardowns collect, it may be of any.
* `HandedOverIsKept` says that no pre-upgrade session harms what an earlier one left, all that
  the service needs included: a conflict keeps its fixtures from being set up, so they are
  not taken down either; what they adopt they leave.
* `ComparedWithItsOwn` is restricted to services whose pre-upgrade test passed. One
  whose creation failed after it was on the cluster is there without a baseline of
  its own, and an earlier entry under its name may be in force.
* `PostCleansUp` needs a session with all post-upgrade tests and without failing
  clean-ups: with a part of the tests, only what they use is removed.

* `QuietClusterIsHealthy` is what the chain of waits is worth: `verify_no_failed_pods` is
  content with the pods it happens to see, and the deployments are listed once, but the
  wait for the count in the deployment makes up for both as long as nothing fails. With
  one disturbance at the wrong moment a test may get a service that is not healthy.
* `BudgetKept`: the waits share one `TimeoutWatch`, except that the 30 seconds for the
  pods to appear are not taken off, nor the time the wrapper takes for the deletion of a
  second ModelMesh service.
* `YieldsWhatWasSeen`: a second ModelMesh service is created again, and Ready of the first
  creation must not count for the second.
* `StreamedAnswerIsWhole`: tokens of a broken attempt are not mixed into the next. That the
  HTTP client takes the end of a connection for the end of the answer, and an error that
  comes in a stream for a token of it, is part of it.
* `ListedPodsRan`: `get_not_running_pods` stops at the first pod of the list that is gone,
  so those after it are not looked at in that sample.
* `LeftoverNeedsCause` lists all ways in which a resource is not as it was found when
  everybody is done: a kill; a call that changed the cluster and had no answer; a clean-up
  that is refused or takes too long; a failure where nothing guards the resource (the Secret that
  is waited for in `__enter__`, the project's lines after the yield, the operator); two
  editors that restore each other's values; the operator that is uninstalled by whoever
  used it. It is the answer to what a killed session leaves of its patches of the DSC.
* `CreatorKeepsIt`: of several processes only the one that created a resource will delete
  it, and nobody takes it away before. The operator is not covered: it is the exception
  of `FoundIsNotRemoved`.
* `UserNeedsOneSwitchAtATime`: one worker switching alone always gets the right client and
  comes back, if no login is refused. Two at once may each record the other's user as the
  one to go back to.
* `LossNeedsReplacement`, `UnknownNeedsFinisher`: all first workers have cleared the base
  directory before the first test starts, because xdist waits for every collection; the
  start of a replacement does not wait, and the first worker to finish removes the database.
* `RecordsWrittenOnce` names the exceptions: a message the root has logged before, a record
  that cannot be pickled, one made after the stop, those from one on that cannot be loaded;
  and, for a record that is there twice, loggers that got a handler after the setup and
  still propagate.

## 5. Fairness

* `PrSizeLabeler`: weak fairness of `Cancel` and of the run's steps. GitHub ends what is
  in progress and starts what is pending; nothing obliges anybody to push.
* `DscEditor`: weak fairness of pytest's step, because each wait has a timeout
  (`TimeoutSampler`, `wait_for_condition`) and pytest goes on after an error; weak
  fairness of the operator's step, which a controller's work queue gives. No fairness of
  single actions: whether a wait ends by its condition or by its timeout is open.
* `UpgradeBaseline`: weak fairness of each writer's step: a worker goes on with its
  fixtures. None for the deletion of the namespace.
* `InferenceSession` (`SetupEnds`): weak fairness of the fixture's step and of the clock: the
  test's process goes on, and every wait has a deadline. None of the controllers'.
* `Pollers` (in `ImplementsTimedWait`: the wait ends): weak fairness of the loop's own step.
* The other modules claim no liveness and state no fairness: what a killed process or a
  refused call leaves need not ever be repaired.

## 6. Proofs

TLAPS checks these for every value of the constants that meets the named assumptions
of the modules, all of which TLC evaluates.

| Module | Theorem | Shows |
|---|---|---|
| `PrLabelerProofs` | `TypeCorrect`, `OnlyAskedLabels`, `OnlyAskedApproval`, `OnlyDefinedLabels`, `CrashesNeedDisturbance`, `MembersGetTheirApproval`, `UndisturbedRunsAreAtomic` | any number of overlapping runs, users, comments of any length, and events |
| | `SizeTypeCorrect`, `OneSizeLabel` | any sizes and number of pushes; no removal is refused |
| `DscEditorProofs` | `TypeCorrect`, `SessionLeavesNoTrace`, `TestsHaveTheirPatches`, `IdleBaselineTells` | any fixtures, scopes, fields, waits and timeouts |
| `MustGatherProofs` | `TypeCorrect`, `OwnDirectory`, `WindowSuffices`, `NothingOverwritten`, `ArchivedIsItsTests` | any tests, names, directories, clock and number of sessions |
| `UpgradeBaselineProofs` | `TypeCorrect`, `OnlySplitReadsLose`, `RoundsSuffice` | any writers and rounds |
| `UpgradeSessionProofs` | `TypeCorrect`, `HandedOverStays`, `OwnBaseline`, `TrialLeavesNothing`, `CompleteCleansUp` | any services, resources, flags, sessions, failures and kills |
| `InferenceProofs` | `InferenceTypeCorrect`, `WaitsShareTheBudget`, `QuietServiceIsHealthy`, `YieldsWhatExists`, `RouteIsAsAsked`, `AnswersAreWhole` | any budget, deployments, pods, replicas, requests and tokens |
| `SharedClusterProofs` | `FixturesRunAsAlone`, `CreatorAlwaysKeepsIt`, `FoundStaysThere`, `LeftoversHaveACause`, `SwitchesApartAreSafe` | any number of processes, values, failures and kills, all kinds of fixture |
| `SessionProofs` | `SessionTypeCorrect`, `CollectedIsKept`, `UnknownIsFinished`, `ControllerUndisturbed`, `RecordsAreWrittenOnce` | any workers, replacements, tests, options, loggers and records |
| | `PollersTypeCorrect`, `ReturnsAfterConsecutiveChecks`, `ReturnsWithPodsRunning`, `WaitsAreTimed` | any pods and numbers of samples, all fourteen loops |

In each of these modules `Inductive` (or, where a module is about several parts, one such
fact for each: `FixtureInductive`, `LedgerInductive`, `LoginInductive` of
`SharedClusterProofs`, `Invariant` of `InferenceProofs`, the theorems on `SessionInv`, `LogInv`
and `PollersInv` in `SessionProofs`, on `SizeInv` in `PrLabelerProofs`) says that
an `IInv` holds in every reachable state, by one lemma per action. The properties are not
inductive as they stand, and what is added to them is the reason why they hold:

* **Labels** (`RunsFit`): a run in flight writes what it decided long ago. Each pending
  call is one the run's event allows: its label is among those `asked` for, the approval
  has been asked for, and what `attach` is about to attach is in `repoLabels`, from which
  nothing is ever removed.
* **An undisturbed run** (`RunsRight`, `RunsHead`): as long as no other run has written
  since the snapshot, what was read still holds of every label the run has not dealt with,
  so no call is refused (`CrashesNeedDisturbance`); and a label is, or is not, in the
  outcome of the event exactly if it is there now, or still to be put, and not still to be
  taken off (`Heading`). That this is so at the start is a fact about data: the dictionary
  of commands holds the last one about each label (`RequestedIsFinal`), and obeying all of
  them in order comes to the same (`ObeyedByDictionary`). `Due` says of a member's `/lgtm` that
  the bot has approved or its command is still to come, whatever others do.
* **Size** (`SnapshotIsTrue`): the run in progress is the only writer, so its snapshot,
  less what it has removed, is what is there; it adds its label only when that is
  nothing.
* **DSC** (`Backups`, `OneBackup`, `Untouched`, `InForce`, `Entering`): a field that is not
  backed up has its original value, one that is has exactly one holder of that value, and
  the fixtures that set the field and come later find nothing to back up. The assumption
  `ScopeAssumption`, that fixtures of one field share a scope, is needed for
  `PatchesInForce`: the holder goes down last of them only within a scope. The repository
  meets it.
* **The answer of a wait** (`Watched`, `Told`, `Resting`, `KnownValues`): from a baseline that
  was read while the operator was idle to the end of the waits, the operator has not looked
  at the patch, or works on nothing else, or has done so. So a transition, or the condition
  of a component that was Removed, is the patch's. And a patch that is confirmed stays: the
  spec keeps it (`InForce`), and what the operator takes up is the spec. The assumption
  `ComponentAssumption` excludes a component whose condition was True for another reason.
* **Must-gather** (`Reset`, `Times`, `Kept`): outside a test the collector is at the base;
  a row is never younger than the test that finds it, even one that a killed session
  left; a test fails at most once before its directory is left for good, and a folder in a
  directory is of a test of that directory.
* **Baselines** (`Fresh`, `GoneForGood`, `Counted`): a writer that holds the current
  version holds the current data, unless its two reads were split; the ConfigMap is not
  created a second time while it has an entry; each conflict is the write of a writer
  that is done, which bounds the conflicts by the number of writers. With the five rounds
  of the code and the five capture fixtures of the repository nobody gives up.
* **Sessions** (`Safe`, `Created`, `Captured`, `Kept`, `AsFound`): a fixture that is up and
  will remove its resource is not one that something handed over depends on. For a
  creation that is so because it succeeds only where nothing was; what was adopted is left; for
  a reuse, because it takes the service up; and a test that hands its service over does so in a session that
  removes only what post-upgrade tests create. A trial session has changed exactly what
  its fixtures stand for, of which nothing was there before.
* **The last session** (`CleanInv`): a reuse does not fail, so each post-upgrade test that
  needs nothing new is still to come, or being set up, or has its fixtures up; when no test
  is left all of them are, `CoverAssumption` says that they are all there is, and each is
  then removed.
* **Service** (`Growing`, `Deadlines`, `SeenIsThere`, `Built`): in a quiet cluster what a wait
  has seen is not lost while the next one looks; every deadline is within the budget; the
  Ready that was seen is of the object that is there. **Client** (`Asked`, `GotFits`,
  `ExposureWritten`): it asks the route that the labels and annotations of the fixture's own
  object stand for, and what it has got are the first tokens of the attempt in hand.
* **Shared resources** (`Uninstalled`, `FoundStays`, `PlacesAgree`, `CreatedIsOwed`,
  `ChangedIsOwed`): creation succeeds only where nothing is, so what was found has no
  creator; a process that has not changed anything yet, or is done, owes nothing; and as
  long as the resource is not as it was found somebody owes its removal or its
  restoration. That is proved of `ClusterFixtures` and carried over to `SharedCluster`,
  which implements it (`FixturesRunAsAlone`).
* **Login** (`KnowsTheWayBack`, `OneAtATime`, `ClientsAsMeant`): whoever switches alone came
  from the admin's kubeconfig, so what it records is the way back, and the context it
  reads is the user's.
* **Processes of a session** (`ControllerAlone`, `ControllerSees`, `BegunWhenCleared`,
  `OpenIsThere`): the controller starts before there is any other process and finishes when
  all have ended; there is data, or a test to run, only when every first worker has cleared
  the directory; the database a process has open is the one there, unless another finished.
* **Log** (`HandlersInv`, `InOrder`, `RecordsInv`): after the setup each logger that does not propagate
  has the queue's handler, and one that does has it only if it is among the `stubborn`. So
  the first logger of a chain that has the handler or does not propagate is the only one
  that puts the record into the queue. Records leave the queue in the order they were made
  (`InOrder`), so that all before the one the listener dies of are written.
* **Pollers** (`Counting`): good samples are counted since the last bad one, and there are
  fewer than asked for while the wait goes on. `WaitsAreTimed` is the safety part of
  `ImplementsTimedWait`: every step of a loop is a step of `TimedWait`, or none.

Two facts are about data of any size: that `Obeyed`, a recursive function, is what the last
command about each label says, and that a chain of loggers has a first one with a
property. An induction rule with an operator as its parameter is not at hand, so
they are proved by a least counterexample: a set of numbers that is not empty has a smallest
(`Smallest`, from the library's facts on well-founded relations).

Model-checked only: the liveness properties (`SettlesOnItsSize`, `ClusterRecovers`,
`EveryWriterEnds`, `SetupEnds`, and of `ImplementsTimedWait` that every poller ends), since TLAPS
has no means for fairness here; and the two properties that are violated (section 7).

## 7. Where code and documentation differ

| Configuration | What the documentation says | What the code does |
|---|---|---|
| `PushClearsVotes` | `constants.py:38,40`: the labels are "removed on each new commit push" | a run that took its snapshot before the push attaches its label after it |
| `WelcomeAsksForNothing` | `pr_workflow.py:218`: "Welcome message found in PR … Not processing" | the text is compared with a `repr` of a set, whose order is another in each process: an edit of the bot's comment by a member asks for all it lists |
| `CancelRevokesApproval` (run) | `constants.py:37`: "To remove, add `/lgtm cancel`" | the dismissal is behind a comparison that the renaming of the label makes false |
| `CancelRemovesLabel` | `docs/GITHUB_WORKFLOWS.md:17`: "To remove a label, add `/<label name> cancel`" | a login with a capital is compared with lower-case names |
| `NoFalsePositive` | `data_science_cluster_utils.py:82`: "prevents false positives" | a transition of an earlier change, after the baseline, is taken for the patch's |
| `NoEntryDropped` | `upgrade/utils.py:465`: "to avoid dropping entries if concurrent writers update" | data and resourceVersion come from two reads |
| `BothFlags` (run) | `docs/UPGRADE.md:28`: "Run pre-upgrade and post-upgrade tests" with both flags | every fixture reuses, none creates |
| `AllPodsRunning` | `general.py:443`: "Waits for all pods in a given namespace to reach Running/Completed state" | the pods are listed once, before the first sample |
| `ServicesAreDiscovered` | `llmd_utils.py:354`: "Service discovery via labels" is the second source of the address | the discovery's error is passed over, and the name is made up |

## 8. What is not modelled

* **DSC fixtures that set one field to several values** (two editors of
  `tests/model_registry/conftest.py`, `default_deployment_mode_in_dsc`): `Want` would
  depend on the fixture. That a killed session leaves its patches behind is in
  `ClusterFixtures`, not in `DscEditor`.
* **`SKIP_RESOURCE_TEARDOWN` and `REUSE_IF_RESOURCE_EXISTS`** of `docs/UPGRADE.md` are read
  by the wrapper library; the model is of a session without them.
* **The waits after a restore of the DSC** in sessions of several processes: `DscEditor` has
  one process with all its scopes and waits, `ClusterFixtures` several, but one fixture each.
* **`teardown=False`** of `create_isvc` and of the other helpers: the object stays, which its
  caller asked for.
* **Processes and files**: with xdist, what is in the log of which process (all write to the
  file they opened, which a later start may have unlinked), an SQLite file locked for too
  long, and the removal of empty directories.
* **The `tier2` marker** that collection adds to unmarked tests: it changes what `-m` selects,
  and nothing else.
* **Left out as data**: label colours, log text, archives' content, the counts a baseline
  is made of, the Secret with the token of the auth tests.
* **No state, or only other programs' state**: Jira gating (a query and a comparison),
  constants and generated wrappers, the wrapper usage check, and the tests
  themselves.
