----------------------------- MODULE MustGather -----------------------------
(***************************************************************************)
(* What a pytest session with --collect-must-gather leaves behind.  The    *)
(* hooks of the root conftest.py note when a test starts, in an SQLite     *)
(* file, and where its data goes, in py_config; when a phase of a test     *)
(* fails, pytest_exception_interact collects the cluster's logs since the  *)
(* start into that place.  pytest calls the hooks of conftest.py before    *)
(* its own: the teardown hook runs before the fixtures are torn down.      *)
(*                                                                         *)
(* One unit of the clock is a minute, the limit of                         *)
(* calculate_must_gather_timer.                                            *)
(***************************************************************************)
EXTENDS Naturals, Sequences

CONSTANTS
    Items,        \* the collected tests
    Names,        \* what the database knows a test by: its file and name
    NameOf,       \* ... which leaves out its class
    Places,       \* directories below a base: a test's file, class and name ...
    PlaceOf,      \* ... with "_" for what is no word character, "." or "-" in the name
    SkipMarked,   \* tests marked skip_must_gather
    Instants,     \* bound: readings of the clock in one behaviour
    MaxSessions   \* bound: sessions in one behaviour

ASSUME ItemsAssumption ==
    NameOf \in [Items -> Names] /\ PlaceOf \in [Items -> Places] /\ SkipMarked \subseteq Items
ASSUME BoundsAssumption == 1 \in Instants /\ Instants \subseteq Nat \ {0} /\ MaxSessions \in Nat \ {0}

Default == 5   \* default_duration

VARIABLES
    on,        \* the session is running
    todo,      \* tests still to run
    item,      \* the test in hand
    phase,     \* its phase
    dir,       \* collector_directory, as the places below the base
    rows,      \* the database file: start time of the oldest row of a name, or 0
    folders,   \* what must-gather has written and nobody has archived
    bundles,   \* the archives: a bundle is a file of a directory
    clock,
    sessions,
    began      \* history: when the test in hand began

vars == <<on, todo, item, phase, dir, rows, folders, bundles, clock, sessions, began>>

Phases == {"setup", "call", "teardown"}

Folder == [item : Items, dir : Seq(Places)]

Bundle == [item : Items, phase : Phases, dir : Seq(Places),
           of : Items,                  \* whose folder it was made of
           start : Instants \cup {0},   \* what the database said
           age : Nat, since : Nat]      \* how long the test had run; how far back this reaches

Init ==
    /\ on = FALSE /\ todo = {} /\ item \in Items /\ phase = "none" /\ dir = <<>>
    /\ rows = [n \in Names |-> 0] /\ folders = {} /\ bundles = {}
    /\ clock = 1 /\ sessions = 0 /\ began = 1

-----------------------------------------------------------------------------
\* pytest_sessionstart: Database() opens the file, whatever is in it; the
\* collected data of an earlier session is removed.
SessionStart ==
    /\ ~on /\ sessions < MaxSessions
    /\ on' = TRUE /\ sessions' = sessions + 1 /\ todo' = Items
    /\ phase' = "none" /\ dir' = <<>> /\ folders' = {} /\ bundles' = {}
    /\ UNCHANGED <<item, rows, clock, began>>

\* Fault: every test collects into the base directory.
PreparedBase(i) == dir

\* prepare_pytest_item_data_dir, below the directory in force.
Prepared(i) == Append(dir, PlaceOf[i])

\* insert_test_start_time adds a row; get_test_start_time reads the first one.
WithRow(n) == IF rows[n] = 0 THEN [rows EXCEPT ![n] = clock] ELSE rows

\* pytest_runtest_setup; an error of the database is logged and passed over.
Setup(i) ==
    /\ on /\ phase = "none" /\ i \in todo
    /\ item' = i /\ todo' = todo \ {i} /\ phase' = "setup"
    /\ dir' = Prepared(i)
    /\ rows' \in {rows, WithRow(NameOf[i])}
    /\ began' = clock
    /\ UNCHANGED <<on, folders, bundles, clock, sessions>>

\* Fault: the two branches of the conditional are exchanged.
TimerSwapped(start) ==
    IF start > 0 /\ clock - start <= 1 THEN clock - start ELSE Default

\* calculate_must_gather_timer.
Timer(start) ==
    IF start > 0 /\ clock - start > 1 THEN clock - start ELSE Default

\* collect_rhoai_must_gather archives a folder as mg-<start>.zip in the
\* directory in force, in the place of a file of that name.
Archived(folder, start) ==
    {b \in bundles : b.dir # dir \/ b.start # start} \cup
    {[item |-> item, phase |-> phase, dir |-> dir, of |-> folder.item, start |-> start,
      since |-> Timer(start), age |-> clock - began]}

\* Fault: a folder is looked for in the directories below as well.
CandidatesBelow == folders \cup {[item |-> item, dir |-> dir]}

\* get_must_gather_output_dir: whichever folder of the directory comes first.
Candidates == {f \in folders \cup {[item |-> item, dir |-> dir]} : f.dir = dir}

\* A phase fails: nothing is collected for a marked test, or without an image;
\* must-gather that runs out of its time, or an archive that cannot be written,
\* leaves the folder.  The start is 0 when the database cannot be read.
Failed ==
    \/ UNCHANGED <<folders, bundles>>
    \/ /\ item \notin SkipMarked
       /\ folders' = folders \cup {[item |-> item, dir |-> dir]} /\ UNCHANGED bundles
    \/ /\ item \notin SkipMarked
       /\ \E f \in Candidates, start \in {rows[NameOf[item]], 0} :
             /\ bundles' = Archived(f, start)
             /\ folders' = (folders \cup {[item |-> item, dir |-> dir]}) \ {f}

SetupPasses ==
    /\ phase = "setup" /\ phase' = "call"
    /\ UNCHANGED <<on, todo, item, dir, rows, folders, bundles, clock, sessions, began>>

SetupOrCallFails ==
    /\ phase \in {"setup", "call"} /\ phase' = "ended"
    /\ Failed
    /\ UNCHANGED <<on, todo, item, dir, rows, clock, sessions, began>>

CallPasses ==
    /\ phase = "call" /\ phase' = "ended"
    /\ UNCHANGED <<on, todo, item, dir, rows, folders, bundles, clock, sessions, began>>

\* Fault: the hook does not reset the collector.
TeardownNoReset ==
    /\ phase = "ended" /\ phase' = "teardown"
    /\ UNCHANGED <<on, todo, item, dir, rows, folders, bundles, clock, sessions, began>>

\* pytest_runtest_teardown: "reset must-gather collector after each tests" ...
Teardown ==
    /\ phase = "ended" /\ phase' = "teardown"
    /\ dir' = <<>>
    /\ UNCHANGED <<on, todo, item, rows, folders, bundles, clock, sessions, began>>

\* ... and only now are the fixtures of the test torn down.
FixturesTornDown ==
    /\ phase = "teardown" /\ phase' = "none"
    /\ Failed
    /\ UNCHANGED <<on, todo, item, dir, rows, clock, sessions, began>>

\* pytest_sessionfinish removes the database file.
SessionFinish ==
    /\ on /\ todo = {} /\ phase = "none"
    /\ on' = FALSE /\ rows' = [n \in Names |-> 0]
    /\ UNCHANGED <<todo, item, phase, dir, folders, bundles, clock, sessions, began>>

\* The process is killed: the file stays.
Crash ==
    /\ on /\ on' = FALSE /\ phase' = "none"
    /\ UNCHANGED <<todo, item, dir, rows, folders, bundles, clock, sessions, began>>

Tick == /\ clock' \in {t \in Instants : t > clock}
        /\ UNCHANGED <<on, todo, item, phase, dir, rows, folders, bundles, sessions, began>>

Next == \/ SessionStart \/ (\E i \in Items : Setup(i)) \/ SetupPasses \/ SetupOrCallFails
        \/ CallPasses \/ Teardown \/ FixturesTornDown \/ SessionFinish \/ Crash \/ Tick

Spec == Init /\ [][Next]_vars

-----------------------------------------------------------------------------
\* Type invariant.
TypeOK ==
    /\ on \in BOOLEAN /\ todo \subseteq Items /\ item \in Items
    /\ phase \in Phases \cup {"none", "ended"}
    /\ dir \in Seq(Places) /\ Len(dir) <= 1
    /\ rows \in [Names -> Instants \cup {0}]
    /\ folders \subseteq Folder /\ bundles \subseteq Bundle
    /\ clock \in Instants /\ sessions \in 0..MaxSessions /\ began \in Instants

\* While a test is set up and runs its data goes to its own directory, although
\* each directory is made below the one in force before it, and whatever phase
\* of whatever earlier test failed or killed the session.
DirIsTheItems == phase \in {"setup", "call", "ended"} => dir = <<PlaceOf[item]>>

\* What is collected reaches back to the start of the failing test, when the
\* database has a start for it.
WindowCoversTest ==
    \A b \in bundles : b.start > 0 => b.age <= b.since

\* What a setup or a call left stays until the session is over: no later test,
\* nor an unreadable database, lets another bundle take its place, unless it is
\* a test whose name differs only in characters that the directory drops.
ItemBundlesKept ==
    [][on /\ on' =>
        \A b \in bundles : b.phase # "teardown" =>
            \/ b \in bundles'
            \/ \E c \in bundles' : /\ c.item # b.item /\ PlaceOf[c.item] = PlaceOf[b.item]
                                   /\ c.dir = b.dir /\ c.start = b.start]_vars

\* An archive of a setup or a call holds what was collected for its own test, or
\* else for one that shares its directory: what a collection leaves when it
\* breaks off is never archived under a test of another directory.  (An archive
\* of a teardown, in the base directory, may hold any test's.)
BundleIsItsTests ==
    \A b \in bundles : b.phase # "teardown" => PlaceOf[b.of] = PlaceOf[b.item]
=============================================================================
