---------------------------- MODULE PytestSession ----------------------------
(***************************************************************************)
(* A pytest session with --collect-must-gather from the hooks of the root  *)
(* conftest.py: start, collection, tests and finish, in one process, or in *)
(* the controller and the workers of pytest-xdist, where every process     *)
(* calls the hooks of its own.  They share the log file, the database of   *)
(* the start times and the directory of the collected data.  A worker may  *)
(* crash in a test; xdist starts another in its place, which takes over    *)
(* its tests.                                                              *)
(*                                                                         *)
(* What the log of a process is made of is looked at in a session of one   *)
(* process (Logging); what one process collects is the subject of          *)
(* MustGather.  Not here: an SQLite file locked for too long.              *)
(***************************************************************************)
EXTENDS Logging

CONSTANTS
    Workers,     \* those that are started first ...
    Spares,      \* ... and those that take a crashed one's place
    Controller,
    Tests,       \* [keys: a set of markers]
    Modes,       \* markers that name a deployment mode
    Options,     \* [pre, post, modes]: the command line
    Nobody

Procs == Workers \cup Spares \cup {Controller}

ASSUME ProcsAssumption ==
    /\ Controller \notin Workers \cup Spares /\ Workers \cap Spares = {}
    /\ Nobody \notin Procs
ASSUME TestsAssumption ==
    /\ \A t \in Tests : t.keys \subseteq {"pre_upgrade", "post_upgrade", "install"} \cup Modes
    /\ Options \subseteq [pre : BOOLEAN, post : BOOLEAN, modes : SUBSET Modes]

VARIABLES
    option,
    parallel,  \* run with xdist
    pc,
    logFile,   \* who made the log file that is there
    logOf,     \* who made the log file a process writes to
    db,        \* who made the database file that is there
    dbOf,      \* who made the one a process has open
    todo,      \* the tests a process has to run
    test,      \* the test in hand
    known,     \* its start time is in the database
    bundles,   \* collected data: whose, of which test, with the start time known or not
    ran,       \* history: tests begun
    lost       \* history: data collected in this session was removed

sessionVars == <<option, parallel, pc, logFile, logOf, db, dbOf, todo, test, known, bundles,
                 ran, lost>>

Starting == {"look", "unlink", "open", "database", "clear"}
Finishing == {"stop", "removing", "remove"}
Ends == {"over", "broken", "crashed"}

NoTest == [keys |-> {"none"}]

SessionInit ==
    /\ LogInit
    /\ option \in Options /\ parallel \in BOOLEAN
    /\ pc = [p \in Procs |-> "off"]
    /\ logFile \in {Nobody, "before"} /\ logOf = [p \in Procs |-> Nobody]
    /\ db \in {Nobody, "before"} /\ dbOf = [p \in Procs |-> Nobody]
    /\ todo = [p \in Procs |-> {}] /\ test = [p \in Procs |-> NoTest]
    /\ known = [p \in Procs |-> FALSE]
    /\ bundles = {} /\ ran = {} /\ lost = FALSE

Goto(p, to) == pc' = [pc EXCEPT ![p] = to]

-----------------------------------------------------------------------------
(* pytest_collection_modifyitems.                                          *)

\* _add_upgrade_test.
InModes(t) == option.modes = {} \/ t.keys \cap option.modes # {}

Upgrade(t) == t.keys \cap {"pre_upgrade", "post_upgrade"} # {} /\ InModes(t)

\* What is no upgrade test, or not one of the modes, is an ordinary test.
Selected ==
    LET pre == {t \in Tests : Upgrade(t) /\ "pre_upgrade" \in t.keys}
        post == {t \in Tests : Upgrade(t) /\ "post_upgrade" \in t.keys}
    IN IF option.pre \/ option.post
       THEN (IF option.pre THEN pre ELSE {}) \cup (IF option.post THEN post ELSE {})
       ELSE {t \in Tests : Upgrade(t) => "install" \in t.keys}

-----------------------------------------------------------------------------
(* pytest_sessionstart.                                                    *)

Crashed == {w \in Workers \cup Spares : pc[w] = "crashed"}

ReplacementDue == Cardinality(Crashed) > Cardinality({s \in Spares : pc[s] # "off"})

\* The controller first, then all its workers; a spare for a crashed worker.
Begin(p) ==
    /\ pc[p] = "off" /\ Goto(p, "look")
    /\ \/ p = Controller
       \/ p \in Workers /\ parallel /\ pc[Controller] = "idle"
       \/ p \in Spares /\ ReplacementDue
    /\ UNCHANGED <<option, parallel, logFile, logOf, db, dbOf, todo, test, known, bundles, ran,
                   lost, logVars>>

\* Fault: the old log is unlinked without a look.
LookForNothing(p) ==
    /\ pc[p] = "look" /\ Goto(p, "unlink")
    /\ UNCHANGED <<option, parallel, logFile, logOf, db, dbOf, todo, test, known, bundles, ran,
                   lost, logVars>>

\* os.path.exists(tests_log_file).
LookForLog(p) ==
    /\ pc[p] = "look" /\ Goto(p, IF logFile = Nobody THEN "open" ELSE "unlink")
    /\ UNCHANGED <<option, parallel, logFile, logOf, db, dbOf, todo, test, known, bundles, ran,
                   lost, logVars>>

\* unlink() raises when another process was quicker.
UnlinkLog(p) ==
    /\ pc[p] = "unlink" /\ Goto(p, IF logFile = Nobody THEN "broken" ELSE "open")
    /\ logFile' = Nobody
    /\ UNCHANGED <<option, parallel, logOf, db, dbOf, todo, test, known, bundles, ran, lost,
                   logVars>>

\* setup_logging appends to the file, or makes it.
OpenLog(p) ==
    /\ pc[p] = "open" /\ Goto(p, "database")
    /\ logFile' = (IF logFile = Nobody THEN p ELSE logFile)
    /\ logOf' = [logOf EXCEPT ![p] = logFile']
    /\ IF parallel THEN UNCHANGED logVars ELSE SetupLogging
    /\ UNCHANGED <<option, parallel, db, dbOf, todo, test, known, bundles, ran, lost>>

\* Fault: every process begins with an empty database.
OpenEmptyDatabase(p) ==
    /\ pc[p] = "database" /\ Goto(p, "clear")
    /\ db' = p /\ dbOf' = [dbOf EXCEPT ![p] = p]
    /\ UNCHANGED <<option, parallel, logFile, logOf, todo, test, known, bundles, ran, lost,
                   logVars>>

\* Database().
OpenDatabase(p) ==
    /\ pc[p] = "database" /\ Goto(p, "clear")
    /\ db' = (IF db = Nobody THEN p ELSE db) /\ dbOf' = [dbOf EXCEPT ![p] = db']
    /\ UNCHANGED <<option, parallel, logFile, logOf, todo, test, known, bundles, ran, lost,
                   logVars>>

\* Only the tests of one process, or a crashed worker's, are there to be run
\* at once; the workers get theirs when all of them have collected.
Inherited(p) ==
    IF p = Controller THEN IF parallel THEN {} ELSE Selected
    ELSE IF p \in Spares THEN UNION {todo[w] : w \in Crashed} ELSE {}

\* shutil.rmtree of the base directory; then the process collects.
ClearBase(p) ==
    /\ pc[p] = "clear" /\ Goto(p, "idle")
    /\ lost' = (lost \/ bundles # {}) /\ bundles' = {}
    /\ todo' = [q \in Procs |-> IF q = p THEN Inherited(p)
                                ELSE IF p \in Spares /\ q \in Crashed THEN {} ELSE todo[q]]
    /\ UNCHANGED <<option, parallel, logFile, logOf, db, dbOf, test, known, ran, logVars>>

-----------------------------------------------------------------------------
(* The tests.                                                              *)

AllCollected == \A w \in Workers : pc[w] \notin {"off"} \cup Starting

\* Fault: a worker gets its tests as soon as it has collected.
AssignAtOnce(t, w) ==
    /\ parallel /\ t \in Selected \ (ran \cup UNION {todo[p] : p \in Procs})
    /\ w \in Workers /\ pc[w] = "idle"
    /\ todo' = [todo EXCEPT ![w] = @ \cup {t}]
    /\ UNCHANGED <<option, parallel, pc, logFile, logOf, db, dbOf, test, known, bundles, ran,
                   lost, logVars>>

\* xdist deals out the tests.
Assign(t, w) ==
    /\ parallel /\ AllCollected /\ t \in Selected \ (ran \cup UNION {todo[p] : p \in Procs})
    /\ w \in Workers /\ pc[w] = "idle"
    /\ todo' = [todo EXCEPT ![w] = @ \cup {t}]
    /\ UNCHANGED <<option, parallel, pc, logFile, logOf, db, dbOf, test, known, bundles, ran,
                   lost, logVars>>

\* What a process writes or reads is in the file it has open; when that is no
\* longer the one there, it goes by the file that is there, or fails.
Reaches(p) == IF dbOf[p] = db THEN {TRUE} ELSE IF db = Nobody THEN {FALSE} ELSE BOOLEAN

\* pytest_runtest_setup.
RunTest(p, t) ==
    /\ pc[p] = "idle" /\ t \in todo[p] /\ Goto(p, "test")
    /\ test' = [test EXCEPT ![p] = t] /\ todo' = [todo EXCEPT ![p] = @ \ {t}]
    /\ \E ok \in Reaches(p) : known' = [known EXCEPT ![p] = ok]
    /\ ran' = ran \cup {t}
    /\ UNCHANGED <<option, parallel, logFile, logOf, db, dbOf, bundles, lost, logVars>>

TestPasses(p) ==
    /\ pc[p] = "test" /\ Goto(p, "idle")
    /\ UNCHANGED <<option, parallel, logFile, logOf, db, dbOf, todo, test, known, bundles, ran,
                   lost, logVars>>

\* pytest_exception_interact; rows written before stay with the file open.
TestFails(p) ==
    /\ pc[p] = "test" /\ Goto(p, "idle")
    /\ \E ok \in Reaches(p) \cup {known[p]} :
        bundles' = bundles \cup {[of |-> p, test |-> test[p], known |-> known[p] /\ ok]}
    /\ UNCHANGED <<option, parallel, logFile, logOf, db, dbOf, todo, test, known, ran, lost,
                   logVars>>

WorkerCrashes(w) ==
    /\ pc[w] = "test" /\ w \in Workers \cup Spares
    /\ Cardinality(Crashed) < Cardinality(Spares)
    /\ Goto(w, "crashed")
    /\ UNCHANGED <<option, parallel, logFile, logOf, db, dbOf, todo, test, known, bundles, ran,
                   lost, logVars>>

-----------------------------------------------------------------------------
(* pytest_sessionfinish.                                                   *)

\* xdist tells a worker to finish when it has no test left, not when all
\* have; the controller finishes after its workers.
Finish(p) ==
    /\ pc[p] = "idle" /\ todo[p] = {}
    /\ IF p = Controller
       THEN parallel =>
            ~ReplacementDue /\ \A w \in Workers \cup Spares : pc[w] \in Ends \cup {"off"}
       ELSE AllCollected /\ Selected \subseteq ran \cup UNION {todo[q] : q \in Procs}
    /\ Goto(p, "stop")
    /\ IF parallel THEN UNCHANGED logVars ELSE StopListener
    /\ UNCHANGED <<option, parallel, logFile, logOf, db, dbOf, todo, test, known, bundles, ran,
                   lost>>

\* The listener has written what it was given, or died of it.
LogStopped(p) ==
    /\ pc[p] = "stop" /\ (parallel \/ listener \in {"stopped", "dead"})
    /\ Goto(p, "removing")
    /\ UNCHANGED <<option, parallel, logFile, logOf, db, dbOf, todo, test, known, bundles, ran,
                   lost, logVars>>

\* os.path.exists(file_path).
LookForDatabase(p) ==
    /\ pc[p] = "removing" /\ Goto(p, IF db = Nobody THEN "over" ELSE "remove")
    /\ UNCHANGED <<option, parallel, logFile, logOf, db, dbOf, todo, test, known, bundles, ran,
                   lost, logVars>>

\* os.remove raises when another process was quicker; the directories without
\* data, which are all it removes then, are not in this model.
RemoveDatabase(p) ==
    /\ pc[p] = "remove" /\ Goto(p, IF db = Nobody THEN "broken" ELSE "over")
    /\ db' = Nobody
    /\ UNCHANGED <<option, parallel, logFile, logOf, dbOf, todo, test, known, bundles, ran, lost,
                   logVars>>

Step(p) ==
    \/ Begin(p) \/ LookForLog(p) \/ UnlinkLog(p) \/ OpenLog(p) \/ OpenDatabase(p) \/ ClearBase(p)
    \/ TestPasses(p) \/ TestFails(p) \/ WorkerCrashes(p) \/ Finish(p) \/ LogStopped(p)
    \/ LookForDatabase(p) \/ RemoveDatabase(p)
    \/ \E t \in Tests : RunTest(p, t) \/ Assign(t, p)

SessionNext ==
    \/ \E p \in Procs : Step(p)
    \/ ~parallel /\ LogStep /\ UNCHANGED sessionVars

SessionSpec == SessionInit /\ [][SessionNext]_<<sessionVars, logVars>>

-----------------------------------------------------------------------------
(* Properties.                                                             *)

Spared == \E s \in Spares : pc[s] # "off"

\* What a worker has collected stays, unless a worker was started in the place
\* of another: no first worker's start clears what another has collected.
LossNeedsReplacement == lost => Spared

\* When a test's start time is not known to the must-gather another process has
\* finished: the database is removed by the
\* first that finishes, not by the last.
UnknownNeedsFinisher ==
    \A b \in bundles : ~b.known => \E p \in Procs \ {b.of} : pc[p] = "over"

\* The controller, which starts before its workers and finishes after them,
\* never breaks over a log or a database that another process removed between
\* its look and its own removal.  Without workers it writes to the log that is
\* there, and has the database that is there until it removes it.
ControllerIsUndisturbed ==
    /\ pc[Controller] # "broken"
    /\ ~parallel /\ pc[Controller] \in {"idle", "test", "stop", "removing"} =>
        logOf[Controller] = logFile /\ dbOf[Controller] = db

\* In one process every record is in the file once when the listener has ended.
\* It is missing only if the root had logged the message before, if one of its
\* values could not be pickled, if the listener had been told to stop, or from the
\* record on that could not be loaded again; and twice there only if it went up
\* from a logger a library gave a handler after the setup.
RecordsWrittenOnce ==
    listener \in {"stopped", "dead"} => \A i \in 1..made :
        /\ written[i] = 0 => i \in dropped \cup late \/ \E d \in fatal : d <= i
        /\ written[i] > 1 => i \in doubled
=============================================================================
