-------------------------- MODULE MustGatherProofs --------------------------
(***************************************************************************)
(* For any tests, names, directories, clocks and number of sessions: the   *)
(* data of a test goes to its directory, reaches back to its start, and    *)
(* stays, other tests of the same directory apart.  It rests on the reset  *)
(* of the directory between tests (Reset), on rows that are never of the   *)
(* future (Times), on a test failing at most once before its directory is  *)
(* reset (Kept), and on folders left where their test ran (Left).          *)
(***************************************************************************)
EXTENDS MustGather, TLAPS

\* Outside a test the directory in force is the base.
Reset ==
    /\ on /\ phase \in {"none", "teardown"} => dir = <<>>
    /\ ~on => phase = "none"

\* The row a test finds is no younger than the test.
Times ==
    /\ \A n \in Names : rows[n] <= clock
    /\ began <= clock
    /\ phase # "none" => rows[NameOf[item]] <= began

\* What a setup or a call left is in the directory of a test that is over, or
\* as good as over.
Kept ==
    on => \A b \in bundles : b.phase # "teardown" =>
        /\ b.dir = <<PlaceOf[b.item]>> /\ b.item \notin todo
        /\ b.item = item => phase \in {"ended", "teardown", "none"}

\* A folder left behind is in its test's directory, or in the base.
Left == \A f \in folders : f.dir = <<>> \/ f.dir = <<PlaceOf[f.item]>>

InHand == on /\ phase # "none" => item \notin todo

IInv ==
    /\ TypeOK /\ Reset /\ DirIsTheItems /\ Times /\ WindowCoversTest /\ Kept /\ InHand
    /\ Left /\ BundleIsItsTests

-----------------------------------------------------------------------------
LEMMA InitInv == Init => IInv
<1> SUFFICES ASSUME Init PROVE IInv
    OBVIOUS
<1>1. TypeOK
  <2>1. rows \in [Names -> Instants \cup {0}] /\ bundles \subseteq Bundle /\ folders \subseteq Folder
    BY DEF Init
  <2>2. dir \in Seq(Places) /\ Len(dir) <= 1
    BY DEF Init
  <2>3. sessions \in 0..MaxSessions
    BY BoundsAssumption DEF Init
  <2>4. QED
    BY <2>1, <2>2, <2>3, BoundsAssumption DEF Init, TypeOK, Phases
<1>2. QED
    BY <1>1, BoundsAssumption
       DEF IInv, Init, Reset, DirIsTheItems, Times, WindowCoversTest, Kept, InHand, Left, BundleIsItsTests

\* The clock and the rows are numbers.
LEMMA Numbers ==
    ASSUME TypeOK
    PROVE  /\ clock \in Nat \ {0} /\ began \in Nat \ {0}
           /\ \A n \in Names : rows[n] \in Nat
           /\ NameOf[item] \in Names
<1>1. \A t \in Instants : t \in Nat \ {0}
    BY BoundsAssumption
<1>2. clock \in Instants /\ began \in Instants
      /\ \A n \in Names : rows[n] \in Instants \cup {0}
    BY DEF TypeOK
<1>3. NameOf[item] \in Names
    BY ItemsAssumption DEF TypeOK
<1>4. QED
    BY <1>1, <1>2, <1>3

LEMMA SessionStartKeepsInv == IInv /\ SessionStart => IInv'
<1> SUFFICES ASSUME IInv, SessionStart PROVE IInv'
    OBVIOUS
<1> USE DEF IInv, SessionStart
<1>1. TypeOK'
    BY BoundsAssumption DEF TypeOK
<1>2. QED
    BY <1>1 DEF Reset, DirIsTheItems, Times, WindowCoversTest, Kept, InHand, Left, BundleIsItsTests

LEMMA SetupKeepsInv == ASSUME IInv, NEW i \in Items, Setup(i) PROVE IInv'
<1> USE DEF IInv, Setup
<1>1. dir' = <<PlaceOf[i]>> /\ PlaceOf[i] \in Places
    BY ItemsAssumption DEF Reset, Prepared
<1>2. rows' \in [Names -> Instants \cup {0}]
    BY DEF TypeOK, WithRow
<1>3. TypeOK'
    BY <1>1, <1>2 DEF TypeOK, Phases
<1>4. Reset' /\ DirIsTheItems' /\ InHand'
    BY <1>1 DEF Reset, DirIsTheItems, InHand
<1>5. Times'
  <2>1. \A n \in Names : rows'[n] <= clock
    BY Numbers DEF Times, WithRow, TypeOK
  <2>2. NameOf[i] \in Names /\ clock <= clock
    BY Numbers, ItemsAssumption
  <2>3. QED
    BY <2>1, <2>2 DEF Times
<1>6. WindowCoversTest'
    BY DEF WindowCoversTest
<1>7. Kept'
    BY DEF Kept
<1>8. Left' /\ BundleIsItsTests'
    BY DEF Left, BundleIsItsTests
<1>9. QED
    BY <1>3, <1>4, <1>5, <1>6, <1>7, <1>8

\* A place below the base is not the base.
LEMMA BelowIsNotBase == ASSUME NEW x PROVE <<x>> # <<>>
<1>1. Len(<<x>>) = 1 /\ Len(<<>>) = 0
    OBVIOUS
<1>2. QED
    BY <1>1

\* The place of bundle b is taken by one of a test of the same directory.
Displaced(b, S) ==
    \E c \in S : /\ c.item # b.item /\ PlaceOf[c.item] = PlaceOf[b.item]
                 /\ c.dir = b.dir /\ c.start = b.start

\* What a failing phase collects is well formed, reaches back to its start, is
\* of a test of its directory, and takes no other directory's place.
LEMMA FailedFacts ==
    ASSUME IInv, phase \in Phases, on, Failed
    PROVE  /\ bundles' \subseteq Bundle /\ folders' \subseteq Folder
           /\ \A b \in bundles' : b.start > 0 => b.age <= b.since
           /\ \A b \in bundles' : b \in bundles \/
                   /\ b.item = item /\ b.phase = phase /\ b.dir = dir
                   /\ phase # "teardown" => PlaceOf[b.of] = PlaceOf[item]
           /\ \A b \in bundles : b.phase # "teardown" => b \in bundles' \/ Displaced(b, bundles')
           /\ \A f \in folders' : f.dir = <<>> \/ f.dir = <<PlaceOf[f.item]>>
<1> USE DEF IInv
<1> DEFINE mine == [item |-> item, dir |-> dir]
<1>1. mine \in Folder /\ mine.item = item /\ mine.dir = dir
    BY DEF TypeOK, Folder
<1>2. dir = IF phase = "teardown" THEN <<>> ELSE <<PlaceOf[item]>>
    BY DEF Reset, DirIsTheItems, Phases
<1> HIDE DEF mine
<1>3. \A f \in folders \cup {mine} : f \in Folder /\ (f.dir = <<>> \/ f.dir = <<PlaceOf[f.item]>>)
    BY <1>1, <1>2 DEF Left, TypeOK
<1>4. CASE UNCHANGED <<folders, bundles>>
    BY <1>4 DEF TypeOK, WindowCoversTest, Left
<1>5. CASE folders' = folders \cup {mine} /\ UNCHANGED bundles
    BY <1>3, <1>5 DEF TypeOK, WindowCoversTest
<1>6. ASSUME NEW f \in Candidates, NEW start \in {rows[NameOf[item]], 0},
             bundles' = Archived(f, start), folders' = (folders \cup {mine}) \ {f}
      PROVE  /\ bundles' \subseteq Bundle /\ folders' \subseteq Folder
             /\ \A b \in bundles' : b.start > 0 => b.age <= b.since
             /\ \A b \in bundles' : b \in bundles \/
                     /\ b.item = item /\ b.phase = phase /\ b.dir = dir
                     /\ phase # "teardown" => PlaceOf[b.of] = PlaceOf[item]
             /\ \A b \in bundles : b.phase # "teardown" => b \in bundles' \/ Displaced(b, bundles')
             /\ \A g \in folders' : g.dir = <<>> \/ g.dir = <<PlaceOf[g.item]>>
  <2> DEFINE new == [item |-> item, phase |-> phase, dir |-> dir, of |-> f.item, start |-> start,
                     since |-> Timer(start), age |-> clock - began]
  <2>1. bundles' = {b \in bundles : b.dir # dir \/ b.start # start} \cup {new}
    BY <1>6 DEF Archived
  <2>2. start \in Nat /\ start <= began /\ start \in Instants \cup {0} /\ began <= clock
    BY Numbers DEF Times, TypeOK, Phases
  <2>3. Timer(start) \in Nat /\ clock - began \in Nat
    BY <2>2, Numbers DEF Timer, Default
  <2>4. start > 0 => clock - began <= Timer(start)
    BY <2>2, Numbers DEF Timer, Default
  <2>5. f \in folders \cup {mine} /\ f.dir = dir /\ f.item \in Items
    <3>1. f \in folders \cup {mine} /\ f.dir = dir
      BY DEF Candidates, mine
    <3>2. QED
      BY <1>3, <3>1 DEF Folder
  <2>6. new \in Bundle
    BY <2>2, <2>3, <2>5 DEF Bundle, TypeOK
  <2>7. phase # "teardown" => PlaceOf[f.item] = PlaceOf[item]
    <3>1. SUFFICES ASSUME phase # "teardown" PROVE PlaceOf[f.item] = PlaceOf[item]
      OBVIOUS
    <3>2. <<PlaceOf[item]>> = <<PlaceOf[f.item]>>
      BY <1>2, <1>3, <2>5, <3>1, BelowIsNotBase
    <3>3. QED
      BY <3>2
  <2>8. new.start = start /\ new.age = clock - began /\ new.since = Timer(start)
        /\ new.item = item /\ new.phase = phase /\ new.dir = dir /\ new.of = f.item
    OBVIOUS
  <2> HIDE DEF new
  <2>9. ASSUME NEW b \in bundles, b.phase # "teardown", b.dir = dir, b.start = start
        PROVE  Displaced(b, bundles')
    <3>1. b.dir = <<PlaceOf[b.item]>> /\ (b.item = item => phase \in {"ended", "teardown", "none"})
      BY <2>9 DEF Kept
    <3>2. phase # "teardown"
      BY <1>2, <2>9, <3>1, BelowIsNotBase
    <3>3. b.item # item
      BY <3>1, <3>2 DEF Phases
    <3>4. <<PlaceOf[b.item]>> = <<PlaceOf[item]>>
      BY <1>2, <2>9, <3>1, <3>2
    <3>5. new \in bundles' /\ new.item # b.item /\ PlaceOf[new.item] = PlaceOf[b.item]
          /\ new.dir = b.dir /\ new.start = b.start
      BY <2>1, <2>8, <2>9, <3>3, <3>4
    <3>6. QED
      BY <3>5 DEF Displaced
  <2>10. \A b \in bundles' : b \in bundles \/ b = new
    BY <2>1
  <2>11. bundles' \subseteq Bundle /\ folders' \subseteq Folder
    BY <1>3, <1>6, <2>6, <2>10 DEF TypeOK
  <2>12. \A b \in bundles' : b.start > 0 => b.age <= b.since
    BY <2>4, <2>8, <2>10 DEF WindowCoversTest
  <2>13. \A b \in bundles : b.phase # "teardown" => b \in bundles' \/ Displaced(b, bundles')
    BY <2>1, <2>9
  <2>14. QED
    BY <1>3, <1>6, <2>7, <2>8, <2>10, <2>11, <2>12, <2>13
<1>7. QED
    BY <1>4, <1>5, <1>6 DEF Failed, mine

LEMMA SetupOrCallFailsKeepsInv == IInv /\ SetupOrCallFails => IInv'
<1> SUFFICES ASSUME IInv, SetupOrCallFails PROVE IInv'
    OBVIOUS
<1> USE DEF IInv, SetupOrCallFails
<1>1. on /\ phase \in Phases
    BY DEF Reset, Phases
<1>2. TypeOK' /\ WindowCoversTest'
    BY <1>1, FailedFacts DEF TypeOK, WindowCoversTest
<1>3. Reset' /\ DirIsTheItems' /\ InHand' /\ Times'
    BY <1>1 DEF Reset, DirIsTheItems, InHand, Times
<1>4. Kept'
  <2>1. dir = <<PlaceOf[item]>> /\ item \notin todo
    BY <1>1 DEF DirIsTheItems, InHand
  <2>2. QED
    BY <1>1, <2>1, FailedFacts DEF Kept
<1>5. Left' /\ BundleIsItsTests'
    BY <1>1, FailedFacts DEF Left, BundleIsItsTests
<1>6. QED
    BY <1>2, <1>3, <1>4, <1>5

LEMMA FixturesTornDownKeepsInv == IInv /\ FixturesTornDown => IInv'
<1> SUFFICES ASSUME IInv, FixturesTornDown PROVE IInv'
    OBVIOUS
<1> USE DEF IInv, FixturesTornDown
<1>1. on /\ phase \in Phases
    BY DEF Reset, Phases
<1>2. TypeOK' /\ WindowCoversTest'
    BY <1>1, FailedFacts DEF TypeOK, WindowCoversTest
<1>3. Reset' /\ DirIsTheItems' /\ InHand' /\ Times'
    BY <1>1 DEF Reset, DirIsTheItems, InHand, Times
<1>4. Kept'
    BY <1>1, FailedFacts DEF Kept
<1>5. Left' /\ BundleIsItsTests'
    BY <1>1, FailedFacts DEF Left, BundleIsItsTests
<1>6. QED
    BY <1>2, <1>3, <1>4, <1>5

\* Steps that collect nothing and leave the directory and the rows alone.
LEMMA QuietStepKeepsInv ==
    ASSUME IInv, SetupPasses \/ CallPasses
    PROVE  IInv'
<1> USE DEF IInv, SetupPasses, CallPasses
<1>1. on
    BY DEF Reset
<1>2. TypeOK'
    BY DEF TypeOK, Phases
<1>3. QED
    BY <1>1, <1>2 DEF Reset, DirIsTheItems, Times, WindowCoversTest, Kept, InHand, Left, BundleIsItsTests

LEMMA TeardownKeepsInv == IInv /\ Teardown => IInv'
<1> SUFFICES ASSUME IInv, Teardown PROVE IInv'
    OBVIOUS
<1> USE DEF IInv, Teardown
<1>1. TypeOK'
    BY DEF TypeOK, Phases
<1>2. QED
    BY <1>1 DEF Reset, DirIsTheItems, Times, WindowCoversTest, Kept, InHand, Left, BundleIsItsTests

LEMMA SessionFinishKeepsInv == IInv /\ SessionFinish => IInv'
<1> SUFFICES ASSUME IInv, SessionFinish PROVE IInv'
    OBVIOUS
<1> USE DEF IInv, SessionFinish
<1>1. TypeOK'
    BY DEF TypeOK
<1>2. Times'
    BY Numbers DEF Times
<1>3. QED
    BY <1>1, <1>2 DEF Reset, DirIsTheItems, WindowCoversTest, Kept, InHand, Left, BundleIsItsTests

LEMMA CrashKeepsInv == IInv /\ Crash => IInv'
<1> SUFFICES ASSUME IInv, Crash PROVE IInv'
    OBVIOUS
<1> USE DEF IInv, Crash
<1>1. TypeOK'
    BY DEF TypeOK
<1>2. QED
    BY <1>1 DEF Reset, DirIsTheItems, Times, WindowCoversTest, Kept, InHand, Left, BundleIsItsTests

LEMMA TickKeepsInv == IInv /\ Tick => IInv'
<1> SUFFICES ASSUME IInv, Tick PROVE IInv'
    OBVIOUS
<1> USE DEF IInv, Tick
<1>1. clock' \in Instants /\ clock' \in Nat /\ clock < clock'
    BY BoundsAssumption
<1>2. TypeOK'
    BY <1>1 DEF TypeOK
<1>3. Times'
  <2>1. began <= clock'
    BY <1>1, Numbers DEF Times
  <2>2. \A n \in Names : rows[n] <= clock'
    BY <1>1, Numbers DEF Times
  <2>3. QED
    BY <2>1, <2>2 DEF Times
<1>4. QED
    BY <1>2, <1>3 DEF Reset, DirIsTheItems, WindowCoversTest, Kept, InHand, Left, BundleIsItsTests

LEMMA StepKeepsInv == IInv /\ [Next]_vars => IInv'
<1> SUFFICES ASSUME IInv, [Next]_vars PROVE IInv'
    OBVIOUS
<1>1. CASE SessionStart
    BY <1>1, SessionStartKeepsInv
<1>2. CASE \E i \in Items : Setup(i)
    BY <1>2, SetupKeepsInv
<1>3. CASE SetupPasses \/ CallPasses
    BY <1>3, QuietStepKeepsInv
<1>4. CASE SetupOrCallFails
    BY <1>4, SetupOrCallFailsKeepsInv
<1>5. CASE Teardown
    BY <1>5, TeardownKeepsInv
<1>6. CASE FixturesTornDown
    BY <1>6, FixturesTornDownKeepsInv
<1>7. CASE SessionFinish
    BY <1>7, SessionFinishKeepsInv
<1>8. CASE Crash
    BY <1>8, CrashKeepsInv
<1>9. CASE Tick
    BY <1>9, TickKeepsInv
<1>10. CASE UNCHANGED vars
    BY <1>10 DEF vars, IInv, TypeOK, Reset, DirIsTheItems, Times, WindowCoversTest, Kept, InHand, Left, BundleIsItsTests
<1>11. QED
    BY <1>1, <1>2, <1>3, <1>4, <1>5, <1>6, <1>7, <1>8, <1>9, <1>10 DEF Next

\* Only a failing phase changes the bundles of a session that goes on.
LEMMA BundlesStay ==
    ASSUME IInv, [Next]_vars, on, on'
    PROVE  \A b \in bundles : b.phase # "teardown" => b \in bundles' \/ Displaced(b, bundles')
<1>1. CASE SetupOrCallFails \/ FixturesTornDown
  <2>1. phase \in Phases /\ Failed
    BY <1>1 DEF SetupOrCallFails, FixturesTornDown, Phases
  <2>2. QED
    BY <2>1, FailedFacts
<1>2. CASE UNCHANGED bundles
    BY <1>2
<1>3. QED
    BY <1>1, <1>2 DEF Next, vars, SessionStart, Setup, SetupPasses, CallPasses, Teardown,
                      SessionFinish, Crash, Tick

-----------------------------------------------------------------------------
\* The reset of the collector, the order of the times and the place of what was
\* collected, as above, hold in every reachable state of any number of sessions.
THEOREM Inductive == Spec => []IInv
<1>1. Init => IInv
    BY InitInv
<1>2. IInv /\ [Next]_vars => IInv'
    BY StepKeepsInv
<1>3. QED
    BY <1>1, <1>2, PTL DEF Spec

\* The state keeps its type: item directories never nest.
THEOREM TypeCorrect == Spec => []TypeOK
<1>1. IInv => TypeOK
    BY DEF IInv
<1>2. QED
    BY <1>1, Inductive, PTL

\* A test's data goes to the test's own directory until its teardown hook.
THEOREM OwnDirectory == Spec => []DirIsTheItems
<1>1. IInv => DirIsTheItems
    BY DEF IInv
<1>2. QED
    BY <1>1, Inductive, PTL

\* A window computed from a start that the database returned covers the test,
\* whatever sessions were killed before and whichever tests share a name.
THEOREM WindowSuffices == Spec => []WindowCoversTest
<1>1. IInv => WindowCoversTest
    BY DEF IInv
<1>2. QED
    BY <1>1, Inductive, PTL

\* Within a session what a failing setup or call collected is overwritten by
\* nothing but the data of a test that shares its directory.
THEOREM NothingOverwritten == Spec => ItemBundlesKept
<1>1. ASSUME IInv, [Next]_vars
      PROVE  [on /\ on' =>
                \A b \in bundles : b.phase # "teardown" =>
                    \/ b \in bundles'
                    \/ \E c \in bundles' : /\ c.item # b.item /\ PlaceOf[c.item] = PlaceOf[b.item]
                                           /\ c.dir = b.dir /\ c.start = b.start]_vars
    BY <1>1, BundlesStay DEF Displaced
<1>2. QED
    BY <1>1, Inductive, PTL DEF Spec, ItemBundlesKept

\* However collections break off, what is archived for a failing setup or call
\* was collected for a test of its directory.
THEOREM ArchivedIsItsTests == Spec => []BundleIsItsTests
<1>1. IInv => BundleIsItsTests
    BY DEF IInv
<1>2. QED
    BY <1>1, Inductive, PTL
=============================================================================
