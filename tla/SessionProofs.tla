---------------------------- MODULE SessionProofs ----------------------------
(***************************************************************************)
(* A pytest session and its log, and the waits of its tests, for any tests,*)
(* workers, loggers, number of log records and length of a wait.           *)
(*                                                                         *)
(* SessionInv orders the processes: the controller starts before there are *)
(* others and finishes after them, and there is data to lose only once     *)
(* every first worker has cleared the directory.  LogInv says where every  *)
(* record is, and that a logger hears itself through exactly one handler   *)
(* of the queue.  That the records go through one handler needs the first  *)
(* logger of a chain that has one or does not propagate: Smallest names it.*)
(* For the pollers, Counting ties the number of good samples to the last   *)
(* answers, and a step of theirs is a step, or none, of TimedWait.         *)
(***************************************************************************)
EXTENDS PytestSession, Pollers, FiniteSetTheorems, SequenceTheorems, WellFoundedInduction, TLAPS

-----------------------------------------------------------------------------
(* Who writes what: the processes of a session.                            *)

Others == Procs \ {Controller}
Makers == Procs \cup {Nobody, "before"}

SessionTypeOK ==
    /\ option \in Options /\ parallel \in BOOLEAN
    /\ pc \in [Procs -> {"off", "idle", "test"} \cup Starting \cup Finishing \cup Ends]
    /\ logFile \in Makers /\ logOf \in [Procs -> Makers]
    /\ db \in Makers /\ dbOf \in [Procs -> Makers]
    /\ todo \in [Procs -> SUBSET Tests] /\ test \in [Procs -> Tests \cup {NoTest}]
    /\ known \in [Procs -> BOOLEAN]
    /\ bundles \subseteq [of : Procs, test : Tests \cup {NoTest}, known : BOOLEAN]
    /\ ran \subseteq Tests /\ lost \in BOOLEAN

\* The controller is alone until it waits for tests, and from its finish on.
ControllerAlone ==
    /\ pc[Controller] \in {"off"} \cup Starting \/ ~parallel =>
          \A p \in Others : pc[p] = "off"
    /\ pc[Controller] \in Finishing \cup Ends =>
          ~ReplacementDue /\ \A p \in Others : pc[p] \in Ends \cup {"off"}

\* What the controller has seen is there, and what it has open.
ControllerSees ==
    /\ pc[Controller] \notin {"broken", "crashed"}
    /\ pc[Controller] = "unlink" => logFile # Nobody
    /\ pc[Controller] = "remove" => db # Nobody
    /\ ~parallel /\ pc[Controller] \in {"database", "clear", "idle", "test", "stop", "removing", "remove"} =>
          logOf[Controller] = logFile
    /\ ~parallel /\ pc[Controller] \in {"clear", "idle", "test", "stop", "removing", "remove"} =>
          dbOf[Controller] = db

\* There are tests, and data, only when every first worker has cleared the directory.
Cleared == ~parallel \/ AllCollected \/ Spared
Begun == bundles # {} \/ \E p \in Procs : todo[p] # {} \/ pc[p] = "test"
BegunWhenCleared ==
    Begun => pc[Controller] \notin {"off"} \cup Starting /\ Cleared

Open == {"clear", "idle", "test"} \cup Finishing
FinishedNotBy(p) == \E q \in Procs \ {p} : pc[q] = "over"

\* The database a process has open is the one there, unless another has finished.
OpenIsThere ==
    \A p \in Procs : pc[p] \in Open =>
        dbOf[p] # Nobody /\ (dbOf[p] # db => FinishedNotBy(p))

UnknownInTest == \A p \in Procs : pc[p] = "test" /\ ~known[p] => FinishedNotBy(p)

SessionInv ==
    /\ SessionTypeOK /\ ControllerAlone /\ ControllerSees /\ BegunWhenCleared /\ LossNeedsReplacement
    /\ OpenIsThere /\ UnknownInTest /\ UnknownNeedsFinisher

-----------------------------------------------------------------------------
(* The log.                                                                *)

LogTypeOK ==
    /\ exists \subseteq Loggers /\ handlers \in [Loggers -> SUBSET {"queue", "own"}]
    /\ propagate \in [Loggers -> BOOLEAN] /\ patched \in BOOLEAN /\ msgs \subseteq Messages
    /\ queue \in Seq(0..made) /\ listener \in {"none", "on", "stopping", "stopped", "dead"}
    /\ made \in 0..MaxRecords /\ written \in [1..MaxRecords -> Nat] /\ fatal \subseteq 1..made

HandlersInv ==
    /\ Root \in exists
    /\ patched <=> listener # "none"
    /\ \A l \in Loggers : l \notin exists => handlers[l] = {} /\ propagate[l]
    /\ ~patched => \A l \in Loggers : "queue" \notin handlers[l]
    /\ patched => \A l \in Loggers : l = Root \/ ~propagate[l] => "queue" \in handlers[l]
    /\ patched => \A l \in Loggers \ {Root} :
          "queue" \in handlers[l] /\ propagate[l] => l \in stubborn

\* Records come out of the queue in the order they were made.
InOrder ==
    \A m, n \in 1..Len(queue) : m <= n /\ queue[m] # 0 /\ queue[n] # 0 => queue[m] <= queue[n]

Behind(i) == \E d \in fatal : d <= i

\* A record the listener was given is written, or waits for it, until a fatal
\* one has ended it: then those before that one are.
RecordsInv ==
    /\ \A i \in 1..MaxRecords : i > made => written[i] = 0
    /\ listener \in {"none", "on"} => \A n \in 1..Len(queue) : queue[n] # 0
    /\ listener = "none" => made = 0
    /\ listener # "dead" => \A i \in 1..made : i \notin dropped \cup late =>
          written[i] > 0 \/ \E n \in 1..Len(queue) : queue[n] = i /\ \A m \in 1..n : queue[m] # 0
    /\ listener = "stopped" => \A i \in 1..made : i \notin dropped \cup late => written[i] > 0
    /\ listener = "dead" =>
          /\ fatal # {}
          /\ \A i \in 1..made : i \notin dropped \cup late => written[i] > 0 \/ Behind(i)
    /\ \A i \in 1..made : i \notin doubled =>
          /\ written[i] <= 1
          /\ \A n \in 1..Len(queue) : queue[n] = i =>
                written[i] = 0 /\ \A m \in 1..Len(queue) : queue[m] = i => m = n

LogInv == LogTypeOK /\ HandlersInv /\ InOrder /\ RecordsInv

-----------------------------------------------------------------------------
(* Steps of the processes.                                                 *)

LEMMA NoneReplaced ==
    ASSUME \A p \in Others : pc[p] = "off"
    PROVE  ~ReplacementDue
<1>1. Crashed = {} /\ {s \in Spares : pc[s] # "off"} = {}
  BY ProcsAssumption DEF Crashed, Others, Procs
<1>2. Cardinality({}) = 0
  BY FS_EmptySet
<1>3. QED
  BY <1>1, <1>2 DEF ReplacementDue

\* A step is one process's: it moves no other.
LEMMA StepIsLocal ==
    ASSUME SessionTypeOK, NEW p \in Procs, Step(p)
    PROVE  /\ option' = option /\ parallel' = parallel
           /\ pc' \in [Procs -> {"off", "idle", "test"} \cup Starting \cup Finishing \cup Ends]
           /\ \A q \in Procs : q # p => pc'[q] = pc[q]
           /\ pc[p] \notin {"over", "broken", "crashed"}
           /\ pc'[p] # "off" /\ (pc[p] \notin {"off"} \cup Starting => pc'[p] \notin Starting)
<1> USE DEF SessionTypeOK
<1>1. CASE Begin(p) \/ LookForLog(p) \/ UnlinkLog(p) \/ OpenLog(p) \/ OpenDatabase(p) \/ ClearBase(p)
  BY <1>1 DEF Begin, LookForLog, UnlinkLog, OpenLog, OpenDatabase, ClearBase, Goto, Starting,
              Finishing, Ends
<1>2. CASE TestPasses(p) \/ TestFails(p) \/ WorkerCrashes(p) \/ Finish(p) \/ LogStopped(p)
  BY <1>2 DEF TestPasses, TestFails, WorkerCrashes, Finish, LogStopped, Goto, Starting,
              Finishing, Ends
<1>3. CASE LookForDatabase(p) \/ RemoveDatabase(p) \/ \E t \in Tests : RunTest(p, t) \/ Assign(t, p)
  BY <1>3 DEF LookForDatabase, RemoveDatabase, RunTest, Assign, Goto, Starting, Finishing, Ends
<1>4. QED
  BY <1>1, <1>2, <1>3 DEF Step

\* Another process moves only while the controller waits for its workers.
LEMMA OthersMoveBetween ==
    ASSUME SessionTypeOK, ControllerAlone, NEW p \in Others, Step(p)
    PROVE  parallel /\ pc[Controller] \in {"idle", "test"}
<1>1. CASE pc[p] = "off"
  <2>1. Begin(p)
    BY <1>1 DEF Step, LookForLog, UnlinkLog, OpenLog, OpenDatabase, ClearBase, TestPasses,
                TestFails, WorkerCrashes, Finish, LogStopped, LookForDatabase, RemoveDatabase,
                RunTest, Assign
  <2>2. \/ parallel /\ pc[Controller] = "idle"
        \/ ReplacementDue
    BY <2>1 DEF Begin, Others
  <2>3. CASE ReplacementDue
    BY <2>3, NoneReplaced DEF ControllerAlone, SessionTypeOK, Others, Procs
  <2>4. QED
    BY <2>2, <2>3
<1>2. CASE pc[p] # "off"
  <2>1. pc[p] \notin Ends
    BY StepIsLocal DEF Others, Ends
  <2>2. QED
    BY <1>2, <2>1 DEF ControllerAlone, SessionTypeOK, Procs
<1>3. QED
  BY <1>1, <1>2

LEMMA StepControllerAlone ==
    ASSUME SessionTypeOK, ControllerAlone, NEW p \in Procs, Step(p)
    PROVE  ControllerAlone'
<1> DEFINE C == Controller
<1>1. C \in Procs
  BY DEF Procs
<1>2. CASE p # C
  <2>1. parallel /\ pc[C] \in {"idle", "test"}
    BY <1>2, OthersMoveBetween DEF Others
  <2>2. parallel' /\ pc'[C] \in {"idle", "test"}
    BY <1>1, <1>2, <2>1, StepIsLocal
  <2>3. QED
    BY <2>2 DEF ControllerAlone, Starting, Finishing, Ends
<1>3. CASE p = C
  <2>1. \A q \in Others : pc'[q] = pc[q]
    BY <1>3, StepIsLocal DEF Others
  <2>2. ReplacementDue' <=> ReplacementDue
    <3>1. Crashed' = Crashed /\ {s \in Spares : pc'[s] # "off"} = {s \in Spares : pc[s] # "off"}
      BY <2>1, ProcsAssumption DEF Crashed, Others, Procs
    <3>2. QED
      BY <3>1 DEF ReplacementDue
  <2>3. ASSUME pc'[C] \in {"off"} \cup Starting \/ ~parallel'
        PROVE  \A q \in Others : pc'[q] = "off"
    BY <1>3, <2>1, <2>3, StepIsLocal DEF ControllerAlone
  <2>4. ASSUME pc'[C] \in Finishing \cup Ends
        PROVE  ~ReplacementDue /\ \A q \in Others : pc[q] \in Ends \cup {"off"}
    <3>1. CASE pc[C] \in Finishing \cup Ends
      BY <3>1 DEF ControllerAlone
    <3>2. CASE ~parallel \/ pc[C] \in {"off"} \cup Starting
      BY <3>2, NoneReplaced DEF ControllerAlone
    <3>3. CASE parallel /\ pc[C] \in {"idle", "test"}
      <4>1. ~WorkerCrashes(C)
        BY ProcsAssumption DEF WorkerCrashes
      <4>2. Finish(C)
        BY <1>1, <1>3, <2>4, <3>3, <4>1 DEF SessionTypeOK, Step, Begin, LookForLog, UnlinkLog,
           OpenLog, OpenDatabase, ClearBase, TestPasses, TestFails, LogStopped, LookForDatabase,
           RemoveDatabase, RunTest, Assign, Goto, Finishing, Ends
      <4>3. QED
        BY <3>3, <4>2, ProcsAssumption DEF Finish, Others, Procs
    <3>4. QED
      BY <1>1, <3>1, <3>2, <3>3 DEF SessionTypeOK
  <2>5. QED
    BY <2>1, <2>2, <2>3, <2>4 DEF ControllerAlone
<1>4. QED
  BY <1>2, <1>3

LEMMA StepControllerSees ==
    ASSUME SessionTypeOK, ControllerAlone, ControllerSees, NEW p \in Procs, Step(p)
    PROVE  ControllerSees'
<1> DEFINE C == Controller
<1>1. C \in Procs
  BY DEF Procs
<1>2. CASE p # C
  <2>1. parallel /\ pc[C] \in {"idle", "test"}
    BY <1>2, OthersMoveBetween DEF Others
  <2>2. parallel' /\ pc'[C] \in {"idle", "test"}
    BY <1>1, <1>2, <2>1, StepIsLocal
  <2>3. QED
    BY <2>2 DEF ControllerSees
<1>3. CASE p = C
  <2> USE DEF SessionTypeOK, ControllerSees
  <2>1. CASE Begin(C) \/ LookForLog(C) \/ UnlinkLog(C)
    BY <1>1, <2>1 DEF Begin, LookForLog, UnlinkLog, Goto
  <2>2. CASE OpenLog(C)
    BY <1>1, <2>2 DEF OpenLog, Goto
  <2>3. CASE OpenDatabase(C)
    BY <1>1, <2>3 DEF OpenDatabase, Goto
  <2>4. CASE ClearBase(C)
    BY <1>1, <2>4 DEF ClearBase, Goto
  <2>5. CASE TestPasses(C) \/ TestFails(C) \/ Finish(C) \/ LogStopped(C)
    BY <1>1, <2>5 DEF TestPasses, TestFails, Finish, LogStopped, Goto
  <2>6. CASE LookForDatabase(C) \/ RemoveDatabase(C)
    BY <1>1, <2>6 DEF LookForDatabase, RemoveDatabase, Goto
  <2>7. CASE \E t \in Tests : RunTest(C, t) \/ Assign(t, C)
    BY <1>1, <2>7 DEF RunTest, Assign, Goto
  <2>8. ~WorkerCrashes(C)
    BY ProcsAssumption DEF WorkerCrashes
  <2>9. QED
    BY <1>3, <2>1, <2>2, <2>3, <2>4, <2>5, <2>6, <2>7, <2>8 DEF Step
<1>4. QED
  BY <1>2, <1>3

LEMMA StepSessionTypeOK ==
    ASSUME SessionTypeOK, NEW p \in Procs, Step(p)
    PROVE  SessionTypeOK'
<1> USE DEF SessionTypeOK, Makers
<1>1. CASE Begin(p) \/ LookForLog(p)
  BY <1>1, StepIsLocal DEF Begin, LookForLog
<1>2. CASE UnlinkLog(p)
  BY <1>2, StepIsLocal DEF UnlinkLog
<1>3. CASE OpenLog(p)
  BY <1>3, StepIsLocal DEF OpenLog
<1>4. CASE OpenDatabase(p)
  BY <1>4, StepIsLocal DEF OpenDatabase
<1>5. CASE ClearBase(p)
  <2>1. Selected \subseteq Tests
    BY DEF Selected
  <2>2. Inherited(p) \subseteq Tests
    <3>1. Crashed \subseteq Procs
      BY DEF Crashed, Procs
    <3>2. UNION {todo[w] : w \in Crashed} \subseteq Tests
      BY <3>1
    <3>3. QED
      BY <2>1, <3>2, Zenon DEF Inherited
  <2>3. todo' \in [Procs -> SUBSET Tests]
    BY <1>5, <2>2 DEF ClearBase
  <2>4. QED
    BY <1>5, <2>3, StepIsLocal DEF ClearBase
<1>6. CASE TestPasses(p) \/ WorkerCrashes(p) \/ Finish(p) \/ LogStopped(p) \/ LookForDatabase(p)
  BY <1>6, StepIsLocal DEF TestPasses, WorkerCrashes, Finish, LogStopped, LookForDatabase
<1>7. CASE TestFails(p)
  <2>1. PICK ok \in Reaches(p) \cup {known[p]} :
          bundles' = bundles \cup {[of |-> p, test |-> test[p], known |-> known[p] /\ ok]}
    BY <1>7 DEF TestFails
  <2>2. (known[p] /\ ok) \in BOOLEAN
    OBVIOUS
  <2>3. bundles' \subseteq [of : Procs, test : Tests \cup {NoTest}, known : BOOLEAN]
    <3> DEFINE k == known[p] /\ ok
    <3> HIDE DEF k
    <3>1. k \in BOOLEAN /\ bundles' = bundles \cup {[of |-> p, test |-> test[p], known |-> k]}
      BY <2>1, <2>2 DEF k
    <3>2. QED
      BY <3>1
  <2>4. QED
    BY <1>7, <2>3, StepIsLocal DEF TestFails
<1>8. CASE RemoveDatabase(p)
  BY <1>8, StepIsLocal DEF RemoveDatabase
<1>9. ASSUME NEW t \in Tests, RunTest(p, t)
      PROVE  SessionTypeOK'
  <2>1. PICK ok \in Reaches(p) : known' = [known EXCEPT ![p] = ok]
    BY <1>9 DEF RunTest
  <2>2. ok \in BOOLEAN
    BY DEF Reaches
  <2>3. QED
    BY <1>9, <2>1, <2>2, StepIsLocal DEF RunTest
<1>10. ASSUME NEW t \in Tests, Assign(t, p)
       PROVE  SessionTypeOK'
  BY <1>10 DEF Assign
<1>11. QED
  BY <1>1, <1>2, <1>3, <1>4, <1>5, <1>6, <1>7, <1>8, <1>9, <1>10 DEF Step

-----------------------------------------------------------------------------
(* What is collected is kept.                                              *)

LEMMA StepCleared ==
    ASSUME SessionTypeOK, Cleared, NEW p \in Procs, Step(p)
    PROVE  Cleared'
<1>1. ASSUME NEW q \in Procs, pc[q] \notin {"off"} \cup Starting
      PROVE  pc'[q] \notin {"off"} \cup Starting
  BY <1>1, StepIsLocal
<1>2. ASSUME NEW q \in Procs, pc[q] # "off"
      PROVE  pc'[q] # "off"
  BY <1>2, StepIsLocal
<1>3. parallel' = parallel
  BY StepIsLocal
<1>4. QED
  BY <1>1, <1>2, <1>3 DEF Cleared, AllCollected, Spared, Procs

\* A test comes to a process by a deal, or with a crashed worker's place.
LEMMA StepBegun ==
    ASSUME SessionTypeOK, ControllerAlone, BegunWhenCleared, NEW p \in Procs, Step(p)
    PROVE  BegunWhenCleared'
<1> DEFINE C == Controller
<1>1. SUFFICES ASSUME Begun' PROVE pc'[C] \notin {"off"} \cup Starting /\ Cleared'
  BY DEF BegunWhenCleared
<1>2. C \in Procs
  BY DEF Procs
<1>3. CASE Begun
  BY <1>2, <1>3, StepCleared, StepIsLocal DEF BegunWhenCleared
<1>4. CASE ~Begun
  <2>1. bundles = {} /\ \A q \in Procs : todo[q] = {} /\ pc[q] # "test"
    BY <1>4 DEF Begun
  <2>2. ClearBase(p) \/ \E t \in Tests : Assign(t, p)
    <3>1. ~TestFails(p) /\ ~TestPasses(p) /\ ~\E t \in Tests : RunTest(p, t)
      BY <2>1 DEF TestFails, TestPasses, RunTest
    <3>2. ASSUME \/ Begin(p) \/ LookForLog(p) \/ UnlinkLog(p) \/ OpenLog(p) \/ OpenDatabase(p)
                 \/ WorkerCrashes(p) \/ Finish(p) \/ LogStopped(p) \/ LookForDatabase(p)
                 \/ RemoveDatabase(p)
          PROVE  FALSE
      <4>1. bundles' = bundles /\ todo' = todo /\ pc'[p] # "test"
        BY <3>2 DEF SessionTypeOK, Begin, LookForLog, UnlinkLog, OpenLog, OpenDatabase,
                    WorkerCrashes, Finish, LogStopped, LookForDatabase, RemoveDatabase, Goto
      <4>2. \A q \in Procs : pc'[q] # "test"
        BY <2>1, <4>1, StepIsLocal
      <4>3. QED
        BY <1>1, <2>1, <4>1, <4>2 DEF Begun
    <3>3. QED
      BY <3>1, <3>2 DEF Step
  <2>3. CASE ClearBase(p)
    <3>1. pc'[p] = "idle" /\ bundles' = {} /\ parallel' = parallel
      BY <2>3 DEF ClearBase, Goto, SessionTypeOK
    <3>2. todo' = [q \in Procs |-> IF q = p THEN Inherited(p)
                       ELSE IF p \in Spares /\ q \in Crashed THEN {} ELSE todo[q]]
      BY <2>3, Zenon DEF ClearBase
    <3>3. Inherited(p) # {}
      <4>1. \A q \in Procs : pc'[q] # "test"
        BY <2>1, <3>1, StepIsLocal
      <4>2. PICK q \in Procs : todo'[q] # {}
        BY <1>1, <3>1, <4>1 DEF Begun
      <4>3. QED
        BY <2>1, <3>2, <4>2
    <3>4. p \notin Spares
      <4>1. SUFFICES ASSUME p \in Spares PROVE FALSE
        OBVIOUS
      <4>2. Inherited(p) = UNION {todo[w] : w \in Crashed} /\ Crashed \subseteq Procs
        BY <4>1, ProcsAssumption DEF Inherited, Crashed, Procs
      <4>3. QED
        BY <2>1, <3>3, <4>2
    <3>5. p = C /\ ~parallel
      BY <3>3, <3>4 DEF Inherited
    <3>6. QED
      BY <3>1, <3>5 DEF Cleared, Starting
  <2>4. ASSUME NEW t \in Tests, Assign(t, p)
        PROVE  pc'[C] \notin {"off"} \cup Starting /\ Cleared'
    <3>1. parallel /\ AllCollected /\ p \in Workers /\ pc[p] = "idle" /\ pc' = pc
      BY <2>4 DEF Assign
    <3>2. pc[C] \in {"idle", "test"}
      BY <3>1, OthersMoveBetween, ProcsAssumption DEF Others
    <3>3. Cleared'
      BY <3>1, StepCleared DEF Cleared
    <3>4. QED
      BY <3>1, <3>2, <3>3 DEF Starting
  <2>5. QED
    BY <2>2, <2>3, <2>4
<1>5. QED
  BY <1>3, <1>4

LEMMA StepLoss ==
    ASSUME SessionTypeOK, ControllerAlone, BegunWhenCleared, LossNeedsReplacement,
           NEW p \in Procs, Step(p)
    PROVE  LossNeedsReplacement'
<1>1. SUFFICES ASSUME lost' PROVE Spared'
  BY DEF LossNeedsReplacement
<1>2. Spared => Spared'
  BY StepIsLocal DEF Spared, Procs
<1>3. CASE lost
  BY <1>2, <1>3 DEF LossNeedsReplacement
<1>4. CASE ~lost
  <2>1. ClearBase(p) /\ bundles # {} /\ pc[p] = "clear"
    BY <1>1, <1>4 DEF Step, Begin, LookForLog, UnlinkLog, OpenLog, OpenDatabase, ClearBase,
       TestPasses, TestFails, WorkerCrashes, Finish, LogStopped, LookForDatabase, RemoveDatabase,
       RunTest, Assign
  <2>2. pc[Controller] \notin {"off"} \cup Starting /\ Cleared
    BY <2>1 DEF BegunWhenCleared, Begun
  <2>3. p \in Others
    BY <2>1, <2>2 DEF Others, Starting
  <2>4. parallel
    BY <2>3, OthersMoveBetween
  <2>5. CASE Spared
    BY <1>2, <2>5
  <2>6. CASE AllCollected
    <3>1. p \in Spares
      BY <2>1, <2>3, <2>6 DEF AllCollected, Others, Procs, Starting
    <3>2. QED
      BY <1>2, <2>1, <3>1 DEF Spared
  <2>7. QED
    BY <2>2, <2>4, <2>5, <2>6 DEF Cleared
<1>5. QED
  BY <1>3, <1>4

-----------------------------------------------------------------------------
(* What is known of a start time.                                          *)

LEMMA StepFinishedNotBy ==
    ASSUME SessionTypeOK, NEW p \in Procs, Step(p), NEW q \in Procs, FinishedNotBy(q)
    PROVE  FinishedNotBy(q)'
<1>1. PICK o \in Procs \ {q} : pc[o] = "over"
  BY DEF FinishedNotBy
<1>2. pc'[o] = "over"
  BY <1>1, StepIsLocal
<1>3. QED
  BY <1>1, <1>2 DEF FinishedNotBy

LEMMA StepOpen ==
    ASSUME SessionTypeOK, OpenIsThere, NEW p \in Procs, Step(p)
    PROVE  OpenIsThere'
<1>1. SUFFICES ASSUME NEW q \in Procs, pc'[q] \in Open
               PROVE  dbOf'[q] # Nobody /\ (dbOf'[q] # db' => FinishedNotBy(q)')
  BY DEF OpenIsThere
<1>2. pc'[q] = IF q = p THEN pc'[p] ELSE pc[q]
  BY StepIsLocal
<1>3. CASE OpenDatabase(p)
  <2>1. /\ db' = (IF db = Nobody THEN p ELSE db) /\ pc[p] \notin Open
        /\ dbOf' = [dbOf EXCEPT ![p] = db']
    BY <1>3 DEF OpenDatabase, Open, Finishing
  <2>2. dbOf'[p] = db' /\ db' # Nobody /\ \A o \in Procs : o # p => dbOf'[o] = dbOf[o]
    BY <2>1, ProcsAssumption DEF SessionTypeOK
  <2>3. CASE q = p
    BY <2>2, <2>3
  <2>4. CASE q # p
    <3>1. dbOf[q] # Nobody /\ (dbOf[q] # db => FinishedNotBy(q))
      BY <1>1, <1>2, <2>4 DEF OpenIsThere
    <3>2. db' # db => dbOf[q] # db
      BY <2>1, <3>1
    <3>3. QED
      BY <2>2, <2>4, <3>1, <3>2, StepFinishedNotBy
  <2>5. QED
    BY <2>3, <2>4
<1>4. CASE RemoveDatabase(p)
  <2>1. pc'[p] \in Ends /\ dbOf' = dbOf /\ db' = Nobody
        /\ pc'[p] = (IF db = Nobody THEN "broken" ELSE "over")
    BY <1>4 DEF SessionTypeOK, RemoveDatabase, Goto, Ends
  <2>2. q # p /\ pc[q] \in Open
    BY <1>1, <1>2, <2>1 DEF Open, Finishing, Ends
  <2>3. dbOf[q] # Nobody /\ (dbOf[q] # db => FinishedNotBy(q))
    BY <2>2 DEF OpenIsThere
  <2>4. CASE db = Nobody
    BY <2>1, <2>3, <2>4, StepFinishedNotBy
  <2>5. CASE db # Nobody
    <3>1. FinishedNotBy(q)'
      BY <2>1, <2>2, <2>5 DEF FinishedNotBy
    <3>2. QED
      BY <2>1, <2>3, <3>1
  <2>6. QED
    BY <2>4, <2>5
<1>5. CASE ~OpenDatabase(p) /\ ~RemoveDatabase(p)
  <2>1. db' = db /\ dbOf' = dbOf
    BY <1>5 DEF Step, Begin, LookForLog, UnlinkLog, OpenLog, ClearBase, TestPasses, TestFails,
       WorkerCrashes, Finish, LogStopped, LookForDatabase, RunTest, Assign
  <2>2. pc'[p] \in Open => pc[p] \in Open
    BY <1>5 DEF SessionTypeOK, Step, Begin, LookForLog, UnlinkLog, OpenLog, ClearBase, TestPasses,
       TestFails, WorkerCrashes, Finish, LogStopped, LookForDatabase, RunTest, Assign, Goto, Open,
       Finishing
  <2>3. pc[q] \in Open
    BY <1>1, <1>2, <2>2
  <2>4. QED
    BY <2>1, <2>3, StepFinishedNotBy DEF OpenIsThere
<1>6. QED
  BY <1>3, <1>4, <1>5

\* A process that cannot reach its database has been overtaken by a finisher.
LEMMA UnreachedIsFinished ==
    ASSUME OpenIsThere, NEW p \in Procs, pc[p] \in Open, FALSE \in Reaches(p)
    PROVE  FinishedNotBy(p)
BY DEF OpenIsThere, Reaches

LEMMA StepUnknown ==
    ASSUME SessionTypeOK, OpenIsThere, UnknownInTest, NEW p \in Procs, Step(p)
    PROVE  UnknownInTest'
<1>1. SUFFICES ASSUME NEW q \in Procs, pc'[q] = "test", ~known'[q]
               PROVE  FinishedNotBy(q)'
  BY DEF UnknownInTest
<1>2. SUFFICES FinishedNotBy(q)
  BY StepFinishedNotBy
<1>3. ASSUME NEW t \in Tests, RunTest(p, t)
      PROVE  FinishedNotBy(q)
  <2>1. PICK ok \in Reaches(p) : known' = [known EXCEPT ![p] = ok]
    BY <1>3 DEF RunTest
  <2>2. pc[p] \in Open
    BY <1>3 DEF RunTest, Open
  <2>3. CASE q = p
    <3>1. ok \in BOOLEAN /\ known'[p] = ok
      BY <2>1 DEF SessionTypeOK, Reaches
    <3>2. QED
      BY <1>1, <2>2, <2>3, <3>1, UnreachedIsFinished
  <2>4. CASE q # p
    BY <1>1, <2>1, <2>4, StepIsLocal DEF UnknownInTest
  <2>5. QED
    BY <2>3, <2>4
<1>4. CASE ~\E t \in Tests : RunTest(p, t)
  <2>1. known' = known
    BY <1>4 DEF Step, Begin, LookForLog, UnlinkLog, OpenLog, OpenDatabase, ClearBase, TestPasses,
       TestFails, WorkerCrashes, Finish, LogStopped, LookForDatabase, RemoveDatabase, Assign
  <2>2. pc'[p] = "test" => pc[p] = "test"
    BY <1>4 DEF SessionTypeOK, Step, Begin, LookForLog, UnlinkLog, OpenLog, OpenDatabase, ClearBase,
       TestPasses, TestFails, WorkerCrashes, Finish, LogStopped, LookForDatabase, RemoveDatabase,
       Assign, Goto
  <2>3. pc[q] = "test"
    BY <1>1, <2>2, StepIsLocal
  <2>4. QED
    BY <1>1, <2>1, <2>3 DEF UnknownInTest
<1>5. QED
  BY <1>3, <1>4

LEMMA StepUnknownKept ==
    ASSUME SessionTypeOK, OpenIsThere, UnknownInTest, UnknownNeedsFinisher, NEW p \in Procs, Step(p)
    PROVE  UnknownNeedsFinisher'
<1>1. SUFFICES ASSUME NEW b \in bundles', ~b.known
               PROVE  FinishedNotBy(b.of)'
  BY DEF UnknownNeedsFinisher, FinishedNotBy
<1>2. CASE b \in bundles
  <2>1. b.of \in Procs /\ FinishedNotBy(b.of)
    BY <1>1, <1>2 DEF SessionTypeOK, UnknownNeedsFinisher, FinishedNotBy
  <2>2. QED
    BY <2>1, StepFinishedNotBy
<1>3. CASE b \notin bundles
  <2>1. TestFails(p)
    BY <1>1, <1>3 DEF Step, Begin, LookForLog, UnlinkLog, OpenLog, OpenDatabase, ClearBase,
       TestPasses, TestFails, WorkerCrashes, Finish, LogStopped, LookForDatabase, RemoveDatabase,
       RunTest, Assign
  <2>2. PICK ok \in Reaches(p) \cup {known[p]} :
          bundles' = bundles \cup {[of |-> p, test |-> test[p], known |-> known[p] /\ ok]}
    BY <2>1 DEF TestFails
  <2>3. b.of = p /\ b.known = (known[p] /\ ok)
    BY <1>1, <1>3, <2>2
  <2>4. pc[p] = "test" /\ pc[p] \in Open
    BY <2>1 DEF TestFails, Open
  <2>5. CASE ~known[p]
    BY <2>3, <2>4, <2>5, StepFinishedNotBy DEF UnknownInTest
  <2>6. CASE known[p]
    <3>1. ok \in BOOLEAN
      BY DEF SessionTypeOK, Reaches
    <3>2. ok = FALSE
      BY <1>1, <2>3, <2>6, <3>1
    <3>3. FALSE \in Reaches(p)
      BY <2>6, <3>2
    <3>4. QED
      BY <2>3, <2>4, <3>3, UnreachedIsFinished, StepFinishedNotBy
  <2>7. QED
    BY <2>5, <2>6
<1>4. QED
  BY <1>2, <1>3

-----------------------------------------------------------------------------
LEMMA InitSession == SessionInit => SessionInv
<1> SUFFICES ASSUME SessionInit PROVE SessionInv
  OBVIOUS
<1> USE DEF SessionInit
<1>1. SessionTypeOK
  BY DEF SessionTypeOK, Makers
<1>2. \A p \in Procs : pc[p] = "off" /\ todo[p] = {} /\ ~known[p]
  OBVIOUS
<1>3. Controller \in Procs
  BY DEF Procs
<1>4. ControllerAlone /\ ControllerSees
  BY <1>2, <1>3 DEF ControllerAlone, ControllerSees, Finishing, Ends, Others
<1>5. BegunWhenCleared /\ LossNeedsReplacement
  BY <1>2 DEF BegunWhenCleared, Begun, LossNeedsReplacement
<1>6. OpenIsThere /\ UnknownInTest /\ UnknownNeedsFinisher
  BY <1>2 DEF OpenIsThere, Open, Finishing, UnknownInTest, UnknownNeedsFinisher
<1>7. QED
  BY <1>1, <1>4, <1>5, <1>6 DEF SessionInv

LEMMA StepSession ==
    SessionInv /\ [SessionNext]_<<sessionVars, logVars>> => SessionInv'
<1> SUFFICES ASSUME SessionInv, [SessionNext]_<<sessionVars, logVars>> PROVE SessionInv'
  OBVIOUS
<1>1. CASE UNCHANGED sessionVars
  BY <1>1 DEF SessionInv, sessionVars, SessionTypeOK, ControllerAlone, ReplacementDue, Crashed,
     ControllerSees, BegunWhenCleared, Begun, Cleared, AllCollected, LossNeedsReplacement, Spared,
     OpenIsThere, FinishedNotBy, UnknownInTest, UnknownNeedsFinisher
<1>2. ASSUME NEW p \in Procs, Step(p) PROVE SessionInv'
  BY <1>2, StepSessionTypeOK, StepControllerAlone, StepControllerSees, StepBegun, StepLoss,
     StepOpen, StepUnknown, StepUnknownKept DEF SessionInv
<1>3. QED
  BY <1>1, <1>2 DEF SessionNext, sessionVars

\* Type correctness of the hooks' state.
THEOREM SessionTypeCorrect == SessionSpec => []SessionTypeOK
<1>1. SessionInv => SessionTypeOK
  BY DEF SessionInv
<1>2. QED
  BY <1>1, InitSession, StepSession, PTL DEF SessionSpec

\* No first worker's start removes what another process has collected: with any
\* number of workers and spares, that takes a crash and a replacement.
THEOREM CollectedIsKept == SessionSpec => []LossNeedsReplacement
<1>1. SessionInv => LossNeedsReplacement
  BY DEF SessionInv
<1>2. QED
  BY <1>1, InitSession, StepSession, PTL DEF SessionSpec

\* A start time a must-gather does not know was lost to another process's finish.
THEOREM UnknownIsFinished == SessionSpec => []UnknownNeedsFinisher
<1>1. SessionInv => UnknownNeedsFinisher
  BY DEF SessionInv
<1>2. QED
  BY <1>1, InitSession, StepSession, PTL DEF SessionSpec

\* The controller never breaks over the log or the database, and alone it writes
\* to the ones that are there.
THEOREM ControllerUndisturbed == SessionSpec => []ControllerIsUndisturbed
<1>1. SessionInv => ControllerIsUndisturbed
  BY DEF SessionInv, ControllerSees, ControllerIsUndisturbed
<1>2. QED
  BY <1>1, InitSession, StepSession, PTL DEF SessionSpec

-----------------------------------------------------------------------------
(* Where a record goes.                                                    *)

LEMMA Smallest ==
    ASSUME NEW S \in SUBSET Nat, S # {}
    PROVE  \E n \in S : \A m \in S : n <= m
<1> DEFINE R == OpToRel(<, Nat)
<1>1. IsWellFoundedOn(R, Nat)
  BY NatLessThanWellFounded
<1>2. \A x, y \in Nat : y < x => <<y, x>> \in R
  BY DEF OpToRel
<1> HIDE DEF R
<1>3. \E n \in S : \A m \in S : ~(<<m, n>> \in R)
  BY <1>1, WFMin, Zenon
<1>4. \E n \in S : \A m \in S : ~(m < n)
  BY <1>2, <1>3, Zenon
<1>5. \A m, n \in Nat : ~(m < n) => n <= m
  OBVIOUS
<1>6. QED
  BY <1>4, <1>5

\* The loggers above l that its records come to, by their place in the chain.
Places(l) == {j \in 1..Len(Chain[l]) : \A k \in 1..(j - 1) : propagate[Chain[l][k]]}

LEMMA ChainTyped ==
    ASSUME NEW l \in Loggers
    PROVE  /\ Chain[l] \in Seq(Loggers) /\ Len(Chain[l]) \in Nat \ {0}
           /\ \A i \in 1..Len(Chain[l]) : Chain[l][i] \in Loggers
           /\ \A i \in 1..Len(Chain[l]) : Chain[l][i] = Root <=> i = Len(Chain[l])
<1>1. Chain[l] \in Seq(Loggers) /\ Chain[l] # <<>>
  BY LoggersAssumption
<1>2. Len(Chain[l]) \in Nat \ {0}
  BY <1>1, EmptySeq
<1>3. \A i \in 1..Len(Chain[l]) : Chain[l][i] \in Loggers
  BY <1>1, ElementOfSeq
<1>4. QED
  BY <1>1, <1>2, <1>3, LoggersAssumption

\* Whatever propagates, a record comes to a queue's handler ...
LEMMA SomeHandlerHears ==
    ASSUME LogTypeOK, HandlersInv, patched, NEW l \in Loggers
    PROVE  \E k \in Reached(l) : "queue" \in handlers[k]
<1> DEFINE final == Len(Chain[l])
<1> DEFINE stops == {i \in 1..final : i = final \/ ~propagate[Chain[l][i]]}
<1>1. final \in Nat \ {0} /\ stops \subseteq Nat /\ stops # {}
  <2>1. final \in Nat \ {0}
    BY ChainTyped
  <2>2. final \in stops
    BY <2>1
  <2>3. QED
    BY <2>1, <2>2
<1>2. PICK n \in stops : \A m \in stops : n <= m
  <2> HIDE DEF stops, final
  <2>1. QED
    BY <1>1, Smallest
<1>3. \A k \in 1..(n - 1) : propagate[Chain[l][k]]
  <2>1. ASSUME NEW k \in 1..(n - 1) PROVE propagate[Chain[l][k]]
    <3>1. k \in 1..final /\ k # final /\ ~(n <= k)
      BY <1>1
    <3>2. QED
      BY <1>2, <3>1
  <2>2. QED
    BY <2>1
<1>4. Chain[l][n] \in Reached(l)
  BY <1>3 DEF Reached
<1>5. "queue" \in handlers[Chain[l][n]]
  BY <1>1, ChainTyped DEF HandlersInv
<1>6. QED
  BY <1>4, <1>5

\* ... and to one only, unless it passed one that a library gave its own.
LEMMA OneHandlerHears ==
    ASSUME LogTypeOK, HandlersInv, patched, NEW l \in Loggers,
           ~\E k \in Reached(l) : k \in stubborn /\ propagate[k]
    PROVE  \A k, m \in Reached(l) : "queue" \in handlers[k] /\ "queue" \in handlers[m] => k = m
<1>1. ASSUME NEW i \in Places(l), NEW j \in Places(l), i < j, "queue" \in handlers[Chain[l][i]]
      PROVE  FALSE
  <2>1. i \in 1..Len(Chain[l]) /\ i \in 1..(j - 1) /\ i # Len(Chain[l])
    BY <1>1, ChainTyped DEF Places
  <2>2. propagate[Chain[l][i]]
    BY <2>1 DEF Places
  <2>3. Chain[l][i] \in Loggers \ {Root}
    BY <2>1, ChainTyped
  <2>4. Chain[l][i] \in stubborn
    BY <1>1, <2>2, <2>3 DEF HandlersInv
  <2>5. Chain[l][i] \in Reached(l)
    BY DEF Reached, Places
  <2>6. QED
    BY <2>2, <2>4, <2>5
<1>2. ASSUME NEW k \in Reached(l), NEW m \in Reached(l),
             "queue" \in handlers[k], "queue" \in handlers[m]
      PROVE  k = m
  <2>1. PICK i \in Places(l) : k = Chain[l][i]
    BY DEF Reached, Places
  <2>2. PICK j \in Places(l) : m = Chain[l][j]
    BY DEF Reached, Places
  <2>3. i \in Int /\ j \in Int
    BY DEF Places
  <2>4. ~(i < j) /\ ~(j < i)
    BY <1>1, <1>2, <2>1, <2>2
  <2>5. QED
    BY <2>1, <2>2, <2>3, <2>4
<1>3. QED
  BY <1>2

LEMMA ReachedFinite ==
    ASSUME NEW l \in Loggers
    PROVE  IsFiniteSet(Reached(l))
<1>1. Len(Chain[l]) \in Nat
  BY ChainTyped
<1>2. IsFiniteSet(Places(l))
  <2>1. IsFiniteSet(1..Len(Chain[l]))
    BY <1>1, FS_Interval
  <2>2. Places(l) \in SUBSET (1..Len(Chain[l]))
    BY DEF Places
  <2>3. QED
    BY <2>1, <2>2, FS_Subset
<1> DEFINE f == [i \in Places(l) |-> Chain[l][i]]
<1>3. Reached(l) = {Chain[l][i] : i \in Places(l)}
  BY DEF Reached, Places
<1>4. f \in Surjection(Places(l), Reached(l))
  BY <1>3 DEF Surjection
<1>5. QED
  <2> HIDE DEF f
  <2>1. QED
    BY <1>2, <1>4, FS_Surjection

\* How many copies of a record the queue gets.
LEMMA CopiesOfRecord ==
    ASSUME LogTypeOK, HandlersInv, patched, NEW l \in Loggers
    PROVE  LET n == Cardinality({k \in Reached(l) : "queue" \in handlers[k]})
           IN  /\ n \in Nat \ {0}
               /\ (~\E k \in Reached(l) : k \in stubborn /\ propagate[k]) => n = 1
<1> DEFINE heard == {k \in Reached(l) : "queue" \in handlers[k]}
<1>1. IsFiniteSet(heard) /\ Cardinality(heard) \in Nat
  <2>1. heard \in SUBSET Reached(l)
    OBVIOUS
  <2>2. IsFiniteSet(heard)
    BY <2>1, ReachedFinite, FS_Subset
  <2>3. QED
    BY <2>2, FS_CardinalityType
<1>2. PICK k \in heard : TRUE
  BY SomeHandlerHears
<1>3. Cardinality(heard) # 0
  BY <1>1, <1>2, FS_EmptySet
<1>4. ASSUME ~\E m \in Reached(l) : m \in stubborn /\ propagate[m]
      PROVE  Cardinality(heard) = 1
  <2>1. heard = {k}
    BY <1>2, <1>4, OneHandlerHears
  <2>2. Cardinality({k}) = 1
    BY FS_Singleton
  <2>3. QED
    BY <2>1, <2>2
<1>5. QED
  BY <1>1, <1>3, <1>4

-----------------------------------------------------------------------------
(* Steps of the log.                                                       *)

\* What a logger call does to the queue.
LEMMA LogEffect ==
    ASSUME LogInv, NEW l \in Loggers, NEW m \in Messages, Log(l, m)
    PROVE  /\ made < MaxRecords /\ made' = made + 1 /\ listener # "none" /\ listener' = listener
           /\ written' = written /\ dropped \subseteq dropped' /\ doubled \subseteq doubled'
           /\ late' = IF listener \in {"on", "dead"} THEN late ELSE late \cup {made + 1}
           /\ fatal \subseteq fatal' /\ fatal' \subseteq fatal \cup {made + 1}
           /\ dropped' \subseteq dropped \cup {made + 1} /\ doubled' \subseteq doubled \cup {made + 1}
           /\ \/ queue' = queue /\ made + 1 \in dropped'
              \/ \E n \in Nat \ {0} :
                    /\ queue' = queue \o [k \in 1..n |-> made + 1]
                    /\ made + 1 \notin doubled' => n = 1
<1> DEFINE heard == {k \in Reached(l) : "queue" \in handlers[k]}
<1> DEFINE n == Cardinality(heard)
<1> DEFINE drop == m \in Unpicklable \/ (l = Root /\ m \in msgs)
<1> DEFINE kills == ~drop /\ m \in Unloadable
<1> DEFINE twice == \E k \in Reached(l) : k \in stubborn /\ propagate[k]
<1>1. /\ queue' = (IF drop THEN queue ELSE queue \o [k \in 1..n |-> made + 1])
      /\ dropped' = (IF drop THEN dropped \cup {made + 1} ELSE dropped)
      /\ doubled' = (IF twice THEN doubled \cup {made + 1} ELSE doubled)
      /\ fatal' = (IF kills THEN fatal \cup {made + 1} ELSE fatal)
      /\ late' = (IF listener \in {"on", "dead"} THEN late ELSE late \cup {made + 1})
  BY Zenon DEF Log
<1>2. made < MaxRecords /\ made' = made + 1 /\ listener # "none" /\ listener' = listener
      /\ written' = written
  BY DEF Log
<1>3. n \in Nat \ {0} /\ (~twice => n = 1)
  <2>1. patched
    BY <1>2 DEF LogInv, HandlersInv
  <2>2. QED
    BY <2>1, CopiesOfRecord DEF LogInv
<1> HIDE DEF n, drop, twice, kills
<1>4. made + 1 \notin doubled' => n = 1
  BY <1>1, <1>3
<1>5. QED
  BY <1>1, <1>2, <1>3, <1>4

LEMMA StepLog ==
    ASSUME LogInv, NEW l \in Loggers, NEW m \in Messages, Log(l, m)
    PROVE  LogInv'
<1> DEFINE x == made + 1
<1>1. /\ made < MaxRecords /\ made' = x /\ listener # "none" /\ listener' = listener
      /\ written' = written /\ dropped \subseteq dropped' /\ doubled \subseteq doubled'
      /\ late' = (IF listener \in {"on", "dead"} THEN late ELSE late \cup {x})
      /\ fatal \subseteq fatal' /\ fatal' \subseteq fatal \cup {x}
      /\ dropped' \subseteq dropped \cup {x} /\ doubled' \subseteq doubled \cup {x}
  BY LogEffect
<1>2. made \in Nat /\ MaxRecords \in Nat /\ x \in 1..MaxRecords /\ written[x] = 0
  <2>1. made \in Nat /\ MaxRecords \in Nat /\ x \in 1..MaxRecords /\ x > made
    BY <1>1, LoggersAssumption DEF LogInv, LogTypeOK
  <2>2. QED
    BY <2>1 DEF LogInv, RecordsInv
<1>3. /\ queue \in Seq(0..x) /\ Len(queue) \in Nat
      /\ \A i \in 1..Len(queue) : queue[i] \in 0..made
  <2>1. queue \in Seq(0..made) /\ 0..made \subseteq 0..x
    BY <1>2 DEF LogInv, LogTypeOK
  <2>2. QED
    BY <2>1, SeqMonotonic, ElementOfSeq, LenProperties
<1>4. PICK n \in Nat :
        /\ queue' \in Seq(0..x) /\ Len(queue') = Len(queue) + n
        /\ \A i \in 1..Len(queue) : queue'[i] = queue[i]
        /\ \A i \in 1..Len(queue') : i \in 1..Len(queue) \/ queue'[i] = x
        /\ n = 0 => x \in dropped'
        /\ x \notin doubled' => n <= 1
  <2>1. CASE queue' = queue /\ x \in dropped'
    <3>1. queue' \in Seq(0..x) /\ Len(queue') = Len(queue) + 0
      BY <1>3, <2>1
    <3>2. /\ \A i \in 1..Len(queue) : queue'[i] = queue[i]
          /\ \A i \in 1..Len(queue') : i \in 1..Len(queue)
      BY <2>1
    <3> WITNESS 0 \in Nat
    <3>3. QED
      BY <2>1, <3>1, <3>2
  <2>2. ASSUME NEW n \in Nat \ {0}, queue' = queue \o [k \in 1..n |-> x], x \notin doubled' => n = 1
        PROVE  \E c \in Nat :
                /\ queue' \in Seq(0..x) /\ Len(queue') = Len(queue) + c
                /\ \A i \in 1..Len(queue) : queue'[i] = queue[i]
                /\ \A i \in 1..Len(queue') : i \in 1..Len(queue) \/ queue'[i] = x
                /\ c = 0 => x \in dropped'
                /\ x \notin doubled' => c <= 1
    <3> DEFINE new == [k \in 1..n |-> x]
    <3>1. new \in Seq(0..x) /\ Len(new) = n /\ \A i \in 1..n : new[i] = x
      BY <1>2
    <3> HIDE DEF new
    <3>2. queue' = queue \o new
      BY <2>2 DEF new
    <3>3. /\ queue' \in Seq(0..x) /\ Len(queue') = Len(queue) + n
          /\ \A i \in 1..Len(queue) + n :
                queue'[i] = IF i <= Len(queue) THEN queue[i] ELSE new[i - Len(queue)]
      BY <1>3, <3>1, <3>2, ConcatProperties
    <3>4. \A i \in 1..Len(queue) : queue'[i] = queue[i]
      BY <1>3, <3>3
    <3>5. ASSUME NEW i \in 1..Len(queue'), i \notin 1..Len(queue) PROVE queue'[i] = x
      <4>1. i \in 1..Len(queue) + n /\ ~(i <= Len(queue)) /\ i - Len(queue) \in 1..n
        BY <1>3, <3>3, <3>5
      <4>2. QED
        BY <3>1, <3>3, <4>1
    <3>6. QED
      BY <2>2, <3>3, <3>4, <3>5
  <2>3. QED
    BY <2>1, <2>2, LogEffect
<1>5. LogTypeOK'
  BY <1>1, <1>2, <1>4 DEF LogInv, LogTypeOK, Log
<1>6. HandlersInv'
  BY <1>1 DEF LogInv, HandlersInv, Log
<1>7. InOrder'
  <2>1. SUFFICES ASSUME NEW i \in 1..Len(queue'), NEW j \in 1..Len(queue'), i <= j,
                        queue'[i] # 0, queue'[j] # 0
                 PROVE  queue'[i] <= queue'[j]
    BY DEF InOrder
  <2>2. CASE i \in 1..Len(queue) /\ j \in 1..Len(queue)
    BY <1>4, <2>1, <2>2 DEF LogInv, InOrder
  <2>3. CASE j \notin 1..Len(queue)
    <3>1. queue'[j] = x
      BY <1>4, <2>3
    <3>2. queue'[i] \in 0..x
      BY <1>4, ElementOfSeq
    <3>3. QED
      BY <1>2, <3>1, <3>2
  <2>4. QED
    BY <1>3, <1>4, <2>1, <2>2, <2>3
<1>8. RecordsInv'
  <2> USE DEF LogInv, RecordsInv
  <2>1. \A i \in 1..MaxRecords : i > made' => written'[i] = 0
    BY <1>1, <1>2
  <2>2. listener' \in {"none", "on"} => \A i \in 1..Len(queue') : queue'[i] # 0
    BY <1>1, <1>2, <1>4
  <2>3. listener' = "none" => made' = 0
    BY <1>1
  <2>4. ASSUME NEW i \in 1..made', i \notin dropped' \cup late', listener' # "dead"
        PROVE  /\ written'[i] > 0 \/ \E j \in 1..Len(queue') :
                                        queue'[j] = i /\ \A k \in 1..j : queue'[k] # 0
               /\ listener' = "stopped" => written'[i] > 0
    <3>1. CASE i = x
      <4>1. n # 0 /\ listener = "on"
        BY <1>1, <1>4, <2>4, <3>1
      <4>2. Len(queue) + 1 \in 1..Len(queue') /\ Len(queue) + 1 \notin 1..Len(queue)
        BY <1>3, <1>4, <4>1
      <4>3. queue'[Len(queue) + 1] = x
        BY <1>4, <4>2
      <4>4. \A k \in 1..Len(queue) + 1 : queue'[k] # 0
        <5>1. \A k \in 1..Len(queue') : queue'[k] # 0
          BY <1>1, <2>2, <4>1
        <5>2. QED
          BY <1>3, <1>4, <4>1, <5>1
      <4>5. QED
        BY <1>1, <3>1, <4>1, <4>2, <4>3, <4>4
    <3>2. CASE i # x
      <4>1. i \in 1..made /\ i \notin dropped \cup late
        BY <1>1, <1>2, <2>4, <3>2
      <4>2. CASE written[i] > 0
        BY <1>1, <4>2
      <4>3. CASE ~(written[i] > 0)
        <5>1. PICK j \in 1..Len(queue) : queue[j] = i /\ \A k \in 1..j : queue[k] # 0
          BY <1>1, <2>4, <4>1, <4>3
        <5>2. j \in 1..Len(queue') /\ \A k \in 1..j : k \in 1..Len(queue)
          BY <1>3, <1>4
        <5>3. queue'[j] = i /\ \A k \in 1..j : queue'[k] # 0
          BY <1>4, <5>1, <5>2
        <5>4. listener' # "stopped"
          BY <1>1, <4>1, <4>3
        <5>5. QED
          BY <5>2, <5>3, <5>4
      <4>4. QED
        BY <4>2, <4>3
    <3>3. QED
      BY <3>1, <3>2
  <2>5. ASSUME NEW i \in 1..made', i \notin doubled'
        PROVE  /\ written'[i] <= 1
               /\ \A j \in 1..Len(queue') : queue'[j] = i =>
                    written'[i] = 0 /\ \A k \in 1..Len(queue') : queue'[k] = i => k = j
    <3>1. CASE i = x
      <4>1. n <= 1
        BY <1>4, <2>5, <3>1
      <4>2. \A j \in 1..Len(queue') : queue'[j] = x => j = Len(queue) + 1
        <5>1. \A j \in 1..Len(queue) : queue'[j] # x
          BY <1>2, <1>3, <1>4
        <5>2. QED
          BY <1>3, <1>4, <4>1, <5>1
      <4>3. QED
        BY <1>1, <1>2, <3>1, <4>2
    <3>2. CASE i # x
      <4>1. i \in 1..made /\ i \notin doubled
        BY <1>1, <1>2, <2>5, <3>2
      <4>2. \A j \in 1..Len(queue') : queue'[j] = i => j \in 1..Len(queue) /\ queue[j] = i
        BY <1>4, <3>2
      <4>3. QED
        BY <1>1, <4>1, <4>2
    <3>3. QED
      BY <3>1, <3>2
  <2>6. ASSUME listener' = "dead", NEW i \in 1..made', i \notin dropped' \cup late'
        PROVE  fatal' # {} /\ (written'[i] > 0 \/ Behind(i)')
    <3>1. listener = "dead" /\ fatal # {} /\ fatal \subseteq fatal'
      BY <1>1, <2>6
    <3>2. CASE i = x
      <4>1. PICK d \in fatal : d \in 1..made
        BY <3>1 DEF LogTypeOK
      <4>2. d \in fatal' /\ d <= i
        BY <1>2, <3>1, <3>2, <4>1
      <4>3. QED
        BY <4>2 DEF Behind
    <3>3. CASE i # x
      <4>1. i \in 1..made /\ i \notin dropped \cup late
        BY <1>1, <1>2, <2>6, <3>3
      <4>2. written[i] > 0 \/ Behind(i)
        BY <3>1, <4>1
      <4>3. QED
        BY <1>1, <3>1, <4>2 DEF Behind
    <3>4. QED
      BY <3>2, <3>3
  <2>7. listener' = "dead" => fatal' # {}
    BY <1>1
  <2> HIDE DEF LogInv
  <2>8. QED
    BY <2>1, <2>2, <2>3, <2>4, <2>5, <2>6, <2>7
<1>9. QED
  BY <1>5, <1>6, <1>7, <1>8 DEF LogInv

LEMMA StepWrite ==
    ASSUME LogInv, Write
    PROVE  LogInv'
<1> DEFINE h == Head(queue)
<1>1. /\ queue \in Seq(0..made) /\ queue # <<>> /\ queue' = Tail(queue)
      /\ made' = made /\ dropped' = dropped /\ late' = late /\ doubled' = doubled
      /\ fatal' = fatal /\ fatal \subseteq 1..made /\ made \in 0..MaxRecords /\ MaxRecords \in Nat /\ written \in [1..MaxRecords -> Nat]
      /\ listener \in {"on", "stopping"}
  BY LoggersAssumption DEF Write, LogInv, LogTypeOK
<1>2. /\ Len(queue) \in Nat \ {0} /\ queue' \in Seq(0..made) /\ Len(queue') = Len(queue) - 1
      /\ h = queue[1] /\ h \in 0..made
      /\ \A i \in 1..Len(queue') : i + 1 \in 1..Len(queue) /\ queue'[i] = queue[i + 1]
  BY <1>1, HeadTailProperties, EmptySeq
<1>3. InOrder'
  BY <1>2 DEF LogInv, InOrder
<1>4. ASSUME NEW i \in 1..made, i \notin doubled, NEW j \in 1..Len(queue'), queue'[j] = i
      PROVE  written[i] = 0 /\ \A k \in 1..Len(queue') : queue'[k] = i => k = j
  <2>1. j + 1 \in 1..Len(queue) /\ queue[j + 1] = i
    BY <1>2, <1>4
  <2>2. written[i] = 0 /\ \A k \in 1..Len(queue) : queue[k] = i => k = j + 1
    BY <1>4, <2>1 DEF LogInv, RecordsInv
  <2>3. \A k \in 1..Len(queue') : queue'[k] = i => k + 1 = j + 1
    BY <1>2, <2>2
  <2>4. QED
    BY <1>2, <2>2, <2>3
<1>5. CASE h = 0
  <2>1. listener' = "stopped" /\ written' = written
    BY <1>1, <1>5 DEF Write
  <2>2. LogTypeOK'
    BY <1>1, <1>2, <2>1 DEF Write, LogInv, LogTypeOK
  <2>3. HandlersInv'
    BY <1>1, <2>1 DEF Write, LogInv, HandlersInv
  <2>4. RecordsInv'
    <3> USE DEF LogInv, RecordsInv
    <3>1. \A i \in 1..made : i \notin dropped \cup late => written[i] > 0
      <4>1. SUFFICES ASSUME NEW i \in 1..made, i \notin dropped \cup late,
                            NEW j \in 1..Len(queue), \A k \in 1..j : queue[k] # 0
                     PROVE  FALSE
        BY <1>1
      <4>2. 1 \in 1..j
        BY <1>2
      <4>3. QED
        BY <1>2, <1>5, <4>1, <4>2
    <3>2. QED
      BY <1>1, <1>4, <2>1, <3>1
  <2>5. QED
    BY <1>3, <2>2, <2>3, <2>4 DEF LogInv
<1>6. CASE h \in fatal
  <2>1. listener' = "dead" /\ written' = written
    BY <1>1, <1>6 DEF Write
  <2>2. LogTypeOK'
    BY <1>1, <1>2, <2>1 DEF Write, LogInv, LogTypeOK
  <2>3. HandlersInv'
    BY <1>1, <2>1 DEF Write, LogInv, HandlersInv
  <2>4. RecordsInv'
    <3>1. ASSUME NEW i \in 1..made, i \notin dropped \cup late, ~(written[i] > 0)
          PROVE  h <= i
      <4>1. PICK j \in 1..Len(queue) : queue[j] = i
        BY <1>1, <3>1 DEF LogInv, RecordsInv
      <4>2. 1 <= j /\ 1 \in 1..Len(queue) /\ queue[1] # 0 /\ queue[j] # 0
        BY <1>1, <1>2, <1>6, <4>1
      <4>3. queue[1] <= queue[j]
        BY <4>2 DEF LogInv, InOrder
      <4>4. QED
        BY <1>2, <4>1, <4>3
    <3>2. \A i \in 1..made : i \notin dropped \cup late => written[i] > 0 \/ Behind(i)'
      BY <1>1, <1>6, <3>1 DEF Behind
    <3>3. QED
      BY <1>1, <1>4, <1>6, <2>1, <3>2 DEF LogInv, RecordsInv
  <2>5. QED
    BY <1>3, <2>2, <2>3, <2>4 DEF LogInv
<1>7. CASE h \notin fatal \cup {0}
  <2>1. listener' = listener /\ written' = [written EXCEPT ![h] = @ + 1]
    BY <1>7 DEF Write
  <2>2. h \in 1..made /\ h \in 1..MaxRecords
    BY <1>1, <1>2, <1>7
  <2>3. /\ written' \in [1..MaxRecords -> Nat]
        /\ \A i \in 1..MaxRecords : written'[i] = IF i = h THEN written[i] + 1 ELSE written[i]
    BY <1>1, <2>1, <2>2
  <2>4. LogTypeOK'
    BY <1>1, <1>2, <2>1, <2>3 DEF Write, LogInv, LogTypeOK
  <2>5. HandlersInv'
    BY <1>1, <2>1 DEF Write, LogInv, HandlersInv
  <2>6. RecordsInv'
    <3> USE DEF LogInv, RecordsInv
    <3>1. \A i \in 1..MaxRecords : i > made' => written'[i] = 0
      BY <1>1, <2>2, <2>3
    <3>2. listener' \in {"none", "on"} => \A i \in 1..Len(queue') : queue'[i] # 0
      BY <1>2, <2>1
    <3>3. ASSUME NEW i \in 1..made, i \notin dropped \cup late
          PROVE  written'[i] > 0 \/ \E j \in 1..Len(queue') :
                                      queue'[j] = i /\ \A k \in 1..j : queue'[k] # 0
      <4>0. i \in 1..MaxRecords /\ written[i] \in Nat
        BY <1>1
      <4>1. CASE written[i] > 0 \/ i = h
        BY <2>3, <4>0, <4>1
      <4>2. CASE ~(written[i] > 0) /\ i # h
        <5>1. PICK j \in 1..Len(queue) : queue[j] = i /\ \A k \in 1..j : queue[k] # 0
          BY <1>1, <3>3, <4>2
        <5>2. j # 1
          BY <1>2, <4>2, <5>1
        <5>3. j - 1 \in 1..Len(queue') /\ queue'[j - 1] = i
          <6>1. j - 1 \in 1..Len(queue') /\ (j - 1) + 1 = j
            BY <1>2, <5>2
          <6>2. QED
            BY <1>2, <5>1, <6>1
        <5>4. ASSUME NEW k \in 1..(j - 1) PROVE queue'[k] # 0
          <6>1. k \in 1..Len(queue') /\ k + 1 \in 1..j
            BY <1>2, <5>3
          <6>2. QED
            BY <1>2, <5>1, <6>1
        <5>5. QED
          BY <5>3, <5>4
      <4>3. QED
        BY <4>1, <4>2
    <3>4. ASSUME NEW i \in 1..made, i \notin doubled
          PROVE  /\ written'[i] <= 1
                 /\ \A j \in 1..Len(queue') : queue'[j] = i =>
                      written'[i] = 0 /\ \A k \in 1..Len(queue') : queue'[k] = i => k = j
      <4>0. i \in 1..MaxRecords /\ written[i] \in Nat
        BY <1>1
      <4>1. /\ written[i] <= 1
            /\ \A j \in 1..Len(queue) : queue[j] = i =>
                written[i] = 0 /\ \A k \in 1..Len(queue) : queue[k] = i => k = j
        BY <3>4
      <4>2. CASE i = h
        <5>1. 1 \in 1..Len(queue) /\ queue[1] = i
          BY <1>2, <4>2
        <5>2. written[i] = 0 /\ \A k \in 1..Len(queue) : queue[k] = i => k = 1
          BY <4>1, <5>1
        <5>3. \A j \in 1..Len(queue') : queue'[j] # i
          <6>1. SUFFICES ASSUME NEW j \in 1..Len(queue'), queue'[j] = i PROVE FALSE
            OBVIOUS
          <6>2. j + 1 \in 1..Len(queue) /\ queue[j + 1] = i /\ j + 1 # 1
            BY <1>2, <6>1
          <6>3. QED
            BY <5>2, <6>2
        <5>4. QED
          BY <2>3, <4>0, <4>2, <5>2, <5>3
      <4>3. CASE i # h
        <5>1. written'[i] = written[i]
          BY <2>3, <4>0, <4>3
        <5>2. ASSUME NEW j \in 1..Len(queue'), queue'[j] = i
              PROVE  written[i] = 0 /\ \A k \in 1..Len(queue') : queue'[k] = i => k = j
          <6>1. j + 1 \in 1..Len(queue) /\ queue[j + 1] = i
            BY <1>2, <5>2
          <6>2. written[i] = 0 /\ \A k \in 1..Len(queue) : queue[k] = i => k = j + 1
            BY <4>1, <6>1
          <6>3. \A k \in 1..Len(queue') : queue'[k] = i => k + 1 = j + 1
            BY <1>2, <6>2
          <6>4. QED
            BY <1>2, <6>2, <6>3
        <5>3. QED
          BY <4>1, <5>1, <5>2
      <4>4. QED
        BY <4>2, <4>3
    <3>5. QED
      BY <1>1, <2>1, <3>1, <3>2, <3>3, <3>4
  <2>7. QED
    BY <1>3, <2>4, <2>5, <2>6 DEF LogInv
<1>8. QED
  BY <1>5, <1>6, <1>7

LEMMA StepSetup ==
    ASSUME LogInv, SetupLogging
    PROVE  LogInv'
<1>1. listener = "none" /\ ~patched /\ made = 0
  BY DEF SetupLogging, LogInv, HandlersInv, RecordsInv
<1>2. /\ handlers' = [l \in Loggers |-> IF l \in exists \cup {Basic} THEN {"queue"} ELSE handlers[l]]
      /\ propagate' = [l \in Loggers |-> l \notin (exists \ {Root}) \cup {Basic} /\ propagate[l]]
      /\ exists' = exists \cup {Basic} /\ patched' = TRUE /\ listener' = "on"
      /\ UNCHANGED <<msgs, queue, made, written, fatal, dropped, late, stubborn, doubled>>
  BY Zenon DEF SetupLogging, TakeOver
<1>3. \A l \in Loggers :
        /\ handlers'[l] = IF l \in exists \cup {Basic} THEN {"queue"} ELSE handlers[l]
        /\ propagate'[l] = (l \notin (exists \ {Root}) \cup {Basic} /\ propagate[l])
  BY <1>2, Zenon
<1>4. LogTypeOK'
  <2>1. propagate' \in [Loggers -> BOOLEAN]
    BY <1>2
  <2>2. handlers' \in [Loggers -> SUBSET {"queue", "own"}]
    BY <1>2 DEF LogInv, LogTypeOK
  <2>3. QED
    BY <1>2, <2>1, <2>2, LoggersAssumption DEF LogInv, LogTypeOK
<1>5. HandlersInv'
  <2> USE DEF LogInv, HandlersInv
  <2>1. Root \in exists' /\ patched' /\ listener' # "none"
    BY <1>2
  <2>2. ASSUME NEW l \in Loggers, l \notin exists' PROVE handlers'[l] = {} /\ propagate'[l]
    <3>1. l \notin exists \cup {Basic}
      BY <1>2, <2>2
    <3>2. handlers[l] = {} /\ propagate[l]
      BY <3>1
    <3>3. QED
      BY <1>3, <3>1, <3>2
  <2>3. ASSUME NEW l \in Loggers, l = Root \/ ~propagate'[l] PROVE "queue" \in handlers'[l]
    <3>1. l \in exists \cup {Basic}
      <4>1. CASE l = Root
        BY <4>1
      <4>2. CASE ~propagate'[l]
        BY <1>3, <4>2
      <4>3. QED
        BY <2>3, <4>1, <4>2
    <3>2. QED
      BY <1>3, <3>1
  <2>4. ASSUME NEW l \in Loggers \ {Root}, "queue" \in handlers'[l] PROVE ~propagate'[l]
    <3>1. "queue" \notin handlers[l]
      BY <1>1
    <3>2. l \in exists \cup {Basic}
      BY <1>3, <2>4, <3>1
    <3>3. QED
      BY <1>3, <3>2
  <2>5. QED
    BY <2>1, <2>2, <2>3, <2>4
<1>6. RecordsInv'
  BY <1>1, <1>2 DEF LogInv, RecordsInv
<1>7. QED
  BY <1>2, <1>4, <1>5, <1>6 DEF LogInv, InOrder

LEMMA StepStop ==
    ASSUME LogInv, StopListener
    PROVE  LogInv'
<1>1. /\ queue \in Seq(0..made) /\ made \in Nat /\ Len(queue) \in Nat
      /\ \/ listener = "on" /\ listener' = "stopping"
         \/ listener = "dead" /\ listener' = "dead"
      /\ UNCHANGED <<exists, handlers, propagate, patched, msgs, made, written, fatal, dropped, late,
                     stubborn, doubled>>
  BY LoggersAssumption, LenProperties DEF StopListener, LogInv, LogTypeOK
<1>2. /\ queue' \in Seq(0..made) /\ Len(queue') = Len(queue) + 1
      /\ \A i \in 1..Len(queue) : queue'[i] = queue[i]
      /\ queue'[Len(queue) + 1] = 0
  BY <1>1, AppendProperties DEF StopListener
<1>3. LogTypeOK' /\ HandlersInv'
  BY <1>1, <1>2 DEF LogInv, LogTypeOK, HandlersInv
<1>4. RecordsInv'
  <2> USE DEF LogInv, RecordsInv
  <2>1. ASSUME NEW i \in 1..made, NEW j \in 1..Len(queue), queue[j] = i,
               \A k \in 1..j : queue[k] # 0
        PROVE  \E n \in 1..Len(queue') : queue'[n] = i /\ \A k \in 1..n : queue'[k] # 0
    <3>1. j \in 1..Len(queue') /\ \A k \in 1..j : k \in 1..Len(queue)
      BY <1>1, <1>2
    <3>2. QED
      BY <1>2, <2>1, <3>1
  <2>2. ASSUME NEW i \in 1..made, NEW j \in 1..Len(queue'), queue'[j] = i
        PROVE  j \in 1..Len(queue) /\ queue[j] = i
    BY <1>1, <1>2, <2>2
  <2>3. \A i \in 1..made : Behind(i)' <=> Behind(i)
    BY <1>1 DEF Behind
  <2>4. QED
    BY <1>1, <2>1, <2>2, <2>3
<1>5. InOrder'
  BY <1>1, <1>2 DEF LogInv, InOrder
<1>6. QED
  BY <1>3, <1>4, <1>5 DEF LogInv

LEMMA StepAddHandler ==
    ASSUME LogInv, NEW l \in Loggers, AddHandler(l)
    PROVE  LogInv'
<1>1. PICK up \in {propagate[l], FALSE} : propagate' = [propagate EXCEPT ![l] = up]
  BY DEF AddHandler
<1>2. /\ l \in exists \ {Root, Basic} /\ handlers' = [handlers EXCEPT ![l] = HandlersWith(l)]
      /\ stubborn' = (IF patched THEN stubborn \cup {l} ELSE stubborn)
      /\ UNCHANGED <<exists, patched, msgs, queue, listener, made, written, fatal, dropped, late,
                     doubled>>
  BY DEF AddHandler
<1>3. up \in BOOLEAN /\ (up => propagate[l])
  BY DEF LogInv, LogTypeOK
<1>4. /\ HandlersWith(l) \subseteq {"queue", "own"} /\ handlers[l] \subseteq HandlersWith(l)
      /\ patched => "queue" \in HandlersWith(l)
      /\ ~patched => ("queue" \in HandlersWith(l) => "queue" \in handlers[l])
  BY DEF HandlersWith, LogInv, LogTypeOK
<1>5. LogTypeOK'
  BY <1>1, <1>2, <1>3, <1>4 DEF LogInv, LogTypeOK
<1>6. \A k \in Loggers :
        /\ handlers'[k] = IF k = l THEN HandlersWith(l) ELSE handlers[k]
        /\ propagate'[k] = IF k = l THEN up ELSE propagate[k]
  BY <1>1, <1>2 DEF LogInv, LogTypeOK
<1>7. HandlersInv'
  BY <1>2, <1>3, <1>4, <1>6 DEF LogInv, HandlersInv
<1>8. RecordsInv'
  BY <1>2 DEF LogInv, RecordsInv, Behind
<1>9. QED
  BY <1>2, <1>5, <1>7, <1>8 DEF LogInv, InOrder

LogNext == SetupLogging \/ StopListener \/ LogStep

LEMMA InitLog == LogInit => LogInv
<1> SUFFICES ASSUME LogInit PROVE LogInv
  OBVIOUS
<1>1. queue \in Seq(0..made)
  BY DEF LogInit
<1>2. Root \in Loggers /\ made \in 0..MaxRecords
  BY LoggersAssumption DEF LogInit
<1>3. LogTypeOK
  BY <1>1, <1>2 DEF LogInit, LogTypeOK
<1>4. HandlersInv
  BY <1>2 DEF LogInit, HandlersInv
<1>5. RecordsInv
  BY <1>2 DEF LogInit, RecordsInv
<1>6. InOrder
  BY DEF LogInit, InOrder
<1>7. QED
  BY <1>3, <1>4, <1>5, <1>6 DEF LogInv

LEMMA StepLogInv == LogInv /\ [LogNext]_logVars => LogInv'
<1> SUFFICES ASSUME LogInv, [LogNext]_logVars PROVE LogInv'
  OBVIOUS
<1>1. CASE UNCHANGED logVars
  BY <1>1 DEF logVars, LogInv, LogTypeOK, HandlersInv, InOrder, RecordsInv, Behind
<1>2. ASSUME NEW l \in Loggers, MakeLogger(l) PROVE LogInv'
  BY <1>2 DEF MakeLogger, LogInv, LogTypeOK, HandlersInv, InOrder, RecordsInv, Behind
<1>3. QED
  BY <1>1, <1>2, StepSetup, StepStop, StepAddHandler, StepLog, StepWrite DEF LogNext, LogStep

LEMMA SessionStepsLog == [SessionNext]_<<sessionVars, logVars>> => [LogNext]_logVars
<1>1. ASSUME NEW p \in Procs, Step(p) PROVE [LogNext]_logVars
  BY <1>1 DEF LogNext, Step, Begin, LookForLog, UnlinkLog, OpenLog, OpenDatabase, ClearBase,
     TestPasses, TestFails, WorkerCrashes, Finish, LogStopped, LookForDatabase, RemoveDatabase,
     RunTest, Assign
<1>2. QED
  BY <1>1 DEF SessionNext, LogNext

\* Whatever loggers there are, what libraries do to them and when, and whichever
\* values cannot be pickled or loaded: a record the root's filter lets through, and
\* that can be pickled, made before the listener is told to stop and before any
\* record it dies of, is in the file, and once.
THEOREM RecordsAreWrittenOnce == SessionSpec => []RecordsWrittenOnce
<1>1. LogInv => RecordsWrittenOnce
  <2> SUFFICES ASSUME LogInv, listener \in {"stopped", "dead"}, NEW i \in 1..made
               PROVE  (written[i] = 0 => i \in dropped \cup late \/ Behind(i))
                      /\ (written[i] > 1 => i \in doubled)
    BY DEF RecordsWrittenOnce, Behind
  <2>1. i \in 1..MaxRecords
    BY LoggersAssumption DEF LogInv, LogTypeOK
  <2>2. written[i] \in Nat
    BY <2>1 DEF LogInv, LogTypeOK
  <2>3. QED
    BY <2>2 DEF LogInv, RecordsInv
<1>2. SessionInit => LogInv
  BY InitLog DEF SessionInit
<1>3. LogInv /\ [SessionNext]_<<sessionVars, logVars>> => LogInv'
  BY SessionStepsLog, StepLogInv
<1>4. QED
  BY <1>1, <1>2, <1>3, PTL DEF SessionSpec

-----------------------------------------------------------------------------
(* The waits.                                                              *)

\* The samples counted are good ones and, of the pods, the last ones.
Counting ==
    /\ count <= clock /\ stage <= Stages
    /\ phase = "waiting" => count < Needed
    /\ phase = "waiting" /\ loop = "podsRunning" =>
          /\ count <= Len(recent)
          /\ \A i \in Len(recent) - count + 1 .. Len(recent) : recent[i]

PollersInv == TypeOK /\ Counting /\ ChecksWereConsecutive

LEMMA ResultTyped ==
    ASSUME TypeOK
    PROVE  Result \in {"good", "bad", "error", "fatal"}
<1>1. loop \in PodLoops \cup ObjectLoops
  BY LoopsAssumption DEF TypeOK
<1>2. CASE loop \in PodLoops
  <2>1. Mariadb \in {"good", "bad"}
    BY DEF TypeOK, Mariadb
  <2>2. QED
    BY <1>2, <2>1 DEF PodLoops, Result, PodsRunning, PodsByLabels, Kueue, Deletion
<1>3. CASE loop \in ObjectLoops
  BY <1>3 DEF ObjectLoops, Result, Container, Oauth, Download, Passed, Route, PhaseKept, Sanity,
              Metrics, User, Guardrails
<1>4. QED
  BY <1>1, <1>2, <1>3

LEMMA NeededTyped == Needed \in Nat \ {0} /\ Stages \in 1..3
BY PollersAssumption DEF Needed, Stages

LEMMA CountedTyped ==
    ASSUME TypeOK
    PROVE  /\ Counted(Result) \in Nat /\ Counted(Result) <= count + 1
           /\ Counted(Result) >= Needed /\ count < Needed => Result = "good"
BY PollersAssumption, NeededTyped DEF TypeOK, Counted

\* The four ways a sample goes.

LEMMA SampleCases ==
    ASSUME TypeOK, Counting, Sample
    PROVE  \/ /\ Result = "fatal" /\ phase' \in {"exit", "raised"}
              /\ UNCHANGED <<stage, clock, count, listed>>
           \/ /\ Counted(Result) < Needed /\ clock' = clock + 1 /\ count' = Counted(Result)
              /\ listed' = StillListed /\ UNCHANGED <<phase, stage>>
           \/ /\ Result = "good" /\ stage < Stages /\ stage' = stage + 1
              /\ clock' = 0 /\ count' = 0 /\ listed' = Existing /\ UNCHANGED phase
           \/ /\ Result = "good" /\ Counted(Result) >= Needed /\ phase' = "returned"
              /\ UNCHANGED <<stage, clock, count, listed>>
<1> DEFINE n == Counted(Result)
<1>1. n \in Nat /\ Needed \in Nat /\ stage \in 1..3 /\ Stages \in 1..3 /\ count < Needed
      /\ (n >= Needed => Result = "good")
  BY CountedTyped, NeededTyped DEF TypeOK, Counting, Sample
<1>2. CASE Result = "fatal"
  BY <1>2 DEF Sample
<1>3. CASE Result # "fatal" /\ n < Needed
  <2>1. clock' = clock + 1 /\ count' = n /\ listed' = StillListed /\ UNCHANGED <<phase, stage>>
    BY <1>1, <1>3 DEF Sample
  <2>2. QED
    BY <1>3, <2>1
<1>4. CASE Result # "fatal" /\ n >= Needed /\ stage < Stages
  <2>1. ~(n < Needed)
    BY <1>1, <1>4
  <2>2. stage' = stage + 1 /\ clock' = 0 /\ count' = 0 /\ listed' = Existing /\ UNCHANGED phase
    BY <1>4, <2>1 DEF Sample
  <2>3. QED
    BY <1>1, <1>4, <2>2
<1>5. CASE Result # "fatal" /\ n >= Needed /\ ~(stage < Stages)
  <2>1. ~(n < Needed)
    BY <1>1, <1>5
  <2>2. phase' = "returned" /\ UNCHANGED <<stage, clock, count, listed>>
    BY <1>5, <2>1 DEF Sample
  <2>3. QED
    BY <1>1, <1>5, <2>2
<1>6. QED
  BY <1>1, <1>2, <1>3, <1>4, <1>5

LEMMA SampleRest ==
    ASSUME TypeOK, Sample
    PROVE  /\ phase = "waiting" /\ clock < Limit /\ loop' = loop /\ pods' = pods /\ thing' = thing
           /\ last' \in {"none", "good", "bad", "fatal"}
           /\ recent' = Append(recent, Result = "good") /\ recent' \in Seq(BOOLEAN)
           /\ Len(recent') = Len(recent) + 1 /\ Len(recent) \in Nat
           /\ recent'[Len(recent) + 1] = (Result = "good")
           /\ \A i \in 1..Len(recent) : recent'[i] = recent[i]
<1>1. phase = "waiting" /\ clock < Limit /\ loop' = loop /\ pods' = pods /\ thing' = thing
      /\ last' = (IF Result = "error" THEN last ELSE Result)
      /\ recent' = Append(recent, Result = "good")
  BY DEF Sample, world
<1>2. last' \in {"none", "good", "bad", "fatal"}
  BY <1>1, ResultTyped DEF TypeOK
<1> DEFINE good == Result = "good"
<1>3. recent \in Seq(BOOLEAN) /\ good \in BOOLEAN /\ recent' = Append(recent, good)
  BY <1>1 DEF TypeOK
<1> HIDE DEF good
<1>4. /\ recent' \in Seq(BOOLEAN) /\ Len(recent') = Len(recent) + 1
      /\ \A i \in 1..Len(recent) : recent'[i] = recent[i]
      /\ recent'[Len(recent) + 1] = good
  BY <1>3, AppendProperties
<1>5. Len(recent) \in Nat
  BY <1>3, LenProperties
<1>6. QED
  BY <1>1, <1>2, <1>4, <1>5 DEF good

LEMMA StepPollersType ==
    ASSUME TypeOK, Counting, Next
    PROVE  TypeOK'
<1>1. CASE Sample
  <2>1. clock \in Nat /\ Limit \in Nat /\ count \in Nat /\ count <= clock /\ clock < Limit
    BY <1>1, PollersAssumption DEF TypeOK, Counting, Sample
  <2>2. StillListed \subseteq PodIds /\ Existing \subseteq PodIds
    BY DEF TypeOK, StillListed, Existing
  <2>3. Counted(Result) \in Nat /\ Counted(Result) <= count + 1
    BY CountedTyped
  <2>4. stage \in 1..3 /\ Stages \in 1..3
    BY NeededTyped DEF TypeOK
  <2>5. /\ stage' \in 1..3 /\ clock' \in 0..Limit /\ count' \in 0..Limit /\ listed' \subseteq PodIds
        /\ phase' \in {"waiting", "returned", "silent", "expired", "raised", "unbound", "exit"}
    BY <1>1, <2>1, <2>2, <2>3, <2>4, SampleCases DEF TypeOK
  <2>6. QED
    BY <1>1, <2>5, SampleRest DEF TypeOK
<1>2. CASE Expire
  <2>1. phase' \in {"waiting", "returned", "silent", "expired", "raised", "unbound", "exit"}
    BY <1>2, Zenon DEF Expire, Outcome
  <2>2. QED
    BY <1>2, <2>1 DEF TypeOK, Expire, world
<1>3. CASE PodChanges
  BY <1>3 DEF TypeOK, PodChanges, wait
<1>4. CASE ThingChanges
  BY <1>4 DEF TypeOK, ThingChanges, wait
<1>5. QED
  BY <1>1, <1>2, <1>3, <1>4 DEF Next

LEMMA StepCounting ==
    ASSUME TypeOK, Counting, Next
    PROVE  Counting'
<1>1. CASE Sample
  <2>1. /\ clock \in Nat /\ count \in Nat /\ count <= clock /\ stage \in 1..3 /\ stage <= Stages
        /\ Counted(Result) \in Nat /\ Counted(Result) <= count + 1 /\ phase = "waiting"
    BY <1>1, CountedTyped DEF TypeOK, Counting, Sample
  <2>2. loop' = loop /\ Stages' = Stages /\ Needed' = Needed /\ Needed \in Nat \ {0}
        /\ Stages \in 1..3
    BY <1>1, SampleRest, NeededTyped DEF Stages, Needed
  <2>3. count' <= clock' /\ stage' <= Stages' /\ (phase' = "waiting" => count' < Needed')
    BY <1>1, <2>1, <2>2, SampleCases
  <2>4. ASSUME phase' = "waiting", loop' = "podsRunning"
        PROVE  /\ count' <= Len(recent')
               /\ \A i \in Len(recent') - count' + 1 .. Len(recent') : recent'[i]
    <3>1. Stages = 1
      BY <2>2, <2>4 DEF Stages
    <3>2. count' = Counted(Result)
      BY <1>1, <2>1, <2>4, <3>1, SampleCases
    <3>3. /\ count <= Len(recent) /\ Len(recent) \in Nat /\ Len(recent') = Len(recent) + 1
          /\ \A i \in Len(recent) - count + 1 .. Len(recent) : recent[i]
      BY <1>1, <2>1, <2>2, <2>4, SampleRest DEF Counting
    <3>4. CASE Result = "good"
      <4>1. count' = count + 1
        BY <3>2, <3>4 DEF Counted
      <4>2. ASSUME NEW i \in Len(recent') - count' + 1 .. Len(recent') PROVE recent'[i]
        <5>1. i \in Len(recent) - count + 1 .. Len(recent) \/ i = Len(recent) + 1
          BY <2>1, <3>3, <4>1
        <5>2. CASE i \in Len(recent) - count + 1 .. Len(recent)
          <6>1. i \in 1..Len(recent) /\ recent[i]
            BY <2>1, <3>3, <5>2
          <6>2. QED
            BY <1>1, <6>1, SampleRest
        <5>3. CASE i = Len(recent) + 1
          BY <1>1, <3>4, <5>3, SampleRest
        <5>4. QED
          BY <5>1, <5>2, <5>3
      <4>3. QED
        BY <2>1, <3>3, <4>1, <4>2
    <3>5. CASE Result # "good"
      <4>1. count' = 0
        BY <2>2, <2>4, <3>2, <3>5 DEF Counted
      <4>2. QED
        BY <3>3, <4>1
    <3>6. QED
      BY <3>4, <3>5
  <2>5. QED
    BY <2>3, <2>4 DEF Counting
<1>2. CASE Expire
  <2>1. phase' # "waiting"
    BY <1>2, Zenon DEF Expire, Outcome
  <2>2. QED
    BY <1>2, <2>1 DEF Counting, Expire, Stages
<1>3. CASE PodChanges \/ ThingChanges
  BY <1>3 DEF Counting, PodChanges, ThingChanges, wait, Stages, Needed
<1>4. QED
  BY <1>1, <1>2, <1>3 DEF Next

LEMMA StepConsecutive ==
    ASSUME TypeOK, Counting, ChecksWereConsecutive, Next
    PROVE  ChecksWereConsecutive'
<1>1. SUFFICES ASSUME phase' = "returned", loop' = "podsRunning"
               PROVE  /\ Len(recent') >= Checks
                      /\ \A i \in Len(recent') - Checks + 1 .. Len(recent') : recent'[i]
  BY DEF ChecksWereConsecutive
<1>2. CASE Sample
  <2>1. loop = "podsRunning" /\ phase = "waiting" /\ Needed = Checks /\ Checks \in Nat \ {0}
    BY <1>1, <1>2, SampleRest, PollersAssumption DEF Needed
  <2>2. Result = "good" /\ Counted(Result) >= Needed
    BY <1>1, <1>2, <2>1, SampleCases
  <2>3. /\ count \in Nat /\ count <= Len(recent) /\ Len(recent) \in Nat
        /\ Len(recent') = Len(recent) + 1
        /\ \A i \in Len(recent) - count + 1 .. Len(recent) : recent[i]
    BY <1>2, <2>1, SampleRest DEF TypeOK, Counting
  <2>4. Checks <= count + 1
    BY <2>1, <2>2, <2>3, CountedTyped
  <2>5. ASSUME NEW i \in Len(recent') - Checks + 1 .. Len(recent') PROVE recent'[i]
    <3>1. i \in Len(recent) - count + 1 .. Len(recent) \/ i = Len(recent) + 1
      BY <2>1, <2>3, <2>4
    <3>2. CASE i \in Len(recent) - count + 1 .. Len(recent)
      <4>1. i \in 1..Len(recent) /\ recent[i]
        BY <2>3, <3>2
      <4>2. QED
        BY <1>2, <4>1, SampleRest
    <3>3. CASE i = Len(recent) + 1
      BY <1>2, <2>2, <3>3, SampleRest
    <3>4. QED
      BY <3>1, <3>2, <3>3
  <2>6. QED
    BY <2>1, <2>3, <2>4, <2>5
<1>3. ~Expire
  BY <1>1 DEF Expire, Outcome
<1>4. CASE PodChanges \/ ThingChanges
  BY <1>1, <1>4 DEF PodChanges, ThingChanges, wait
<1>5. QED
  BY <1>2, <1>3, <1>4 DEF Next

LEMMA InitPollers == Init => PollersInv
<1> SUFFICES ASSUME Init PROVE PollersInv
  OBVIOUS
<1>1. TypeOK
  <2>1. recent \in Seq(BOOLEAN)
    BY DEF Init
  <2>2. pods \in [PodIds -> PodStates] /\ thing \in Things
    BY DEF Init, PodStates, Things
  <2>3. listed \subseteq PodIds
    BY DEF Init, Existing
  <2>4. QED
    BY <2>1, <2>2, <2>3, PollersAssumption DEF Init, TypeOK
<1>2. Counting
  <2>1. Len(recent) = 0
    BY DEF Init
  <2>2. count = 0 /\ clock = 0 /\ stage = 1
    BY DEF Init
  <2>3. QED
    BY <2>1, <2>2, NeededTyped DEF Counting
<1>3. QED
  BY <1>1, <1>2 DEF Init, PollersInv, ChecksWereConsecutive

LEMMA StepPollers == PollersInv /\ [Next]_vars => PollersInv'
<1> SUFFICES ASSUME PollersInv, [Next]_vars PROVE PollersInv'
  OBVIOUS
<1>1. CASE UNCHANGED vars
  BY <1>1 DEF vars, wait, world, PollersInv, TypeOK, Counting, Stages, Needed, ChecksWereConsecutive
<1>2. CASE Next
  BY <1>2, StepPollersType, StepCounting, StepConsecutive DEF PollersInv
<1>3. QED
  BY <1>1, <1>2

\* Type correctness of the waits, for any pods, limits and numbers of checks.
THEOREM PollersTypeCorrect == Spec => []TypeOK
<1>1. PollersInv => TypeOK
  BY DEF PollersInv
<1>2. QED
  BY <1>1, InitPollers, StepPollers, PTL DEF Spec

\* wait_for_pods_running returns only upon as many good samples in a row as it
\* was asked for.
THEOREM ReturnsAfterConsecutiveChecks == Spec => []ChecksWereConsecutive
<1>1. PollersInv => ChecksWereConsecutive
  BY DEF PollersInv
<1>2. QED
  BY <1>1, InitPollers, StepPollers, PTL DEF Spec

\* ... and the pods it has listed run then, up to the first that is gone.
THEOREM ReturnsWithPodsRunning == Spec => ListedPodsRan
<1>1. PollersInv /\ [Next]_vars =>
        [phase' = "returned" /\ loop = "podsRunning" =>
            \A i \in listed : \/ pods[i] \in {"running", "succeeded", "absent"}
                              \/ \E j \in listed : j < i /\ pods[j] = "absent"]_vars
  <2>1. SUFFICES ASSUME PollersInv, Next, phase' = "returned", loop = "podsRunning",
                        NEW i \in listed
                 PROVE  \/ pods[i] \in {"running", "succeeded", "absent"}
                        \/ \E j \in listed : j < i /\ pods[j] = "absent"
    OBVIOUS
  <2>2. TypeOK /\ Counting
    BY <2>1 DEF PollersInv
  <2>3. Sample
    BY <2>1 DEF Next, Expire, Outcome, PodChanges, ThingChanges, wait
  <2>4. PodsRunning = "good"
    BY <2>1, <2>2, <2>3, SampleRest, SampleCases DEF Result
  <2>5. pods[i] \in PodStates /\ \A j \in listed : j \in Nat
    BY <2>2, PollersAssumption DEF TypeOK
  <2>6. CASE i \in Looked
    <3>1. ~NotRunning(i)
      BY <2>4, <2>6 DEF PodsRunning
    <3>2. QED
      BY <2>5, <3>1 DEF NotRunning, PodStates
  <2>7. CASE i \notin Looked
    <3>1. PICK j \in listed : j <= i /\ pods[j] = "absent"
      BY <2>1, <2>7 DEF Looked
    <3>2. j < i \/ j = i
      BY <2>1, <2>5, <3>1
    <3>3. QED
      BY <3>1, <3>2
  <2>8. QED
    BY <2>6, <2>7
<1>2. QED
  BY <1>1, InitPollers, StepPollers, PTL DEF Spec, ListedPodsRan

\* The steps of a wait are those of a TimedWait: every sample brings the end
\* nearer, it returns upon what it waits for, and gives up for a reason.
LEMMA StepImplements ==
    ASSUME PollersInv, [Next]_vars
    PROVE  [Abstract!Next]_(Abstract!vars)
<1>1. TypeOK /\ Counting
  BY DEF PollersInv
<1>2. Limit \in Nat \ {0} /\ clock \in 0..Limit /\ stage \in 1..3 /\ Stages \in 1..3
  BY <1>1, PollersAssumption, NeededTyped DEF TypeOK
<1>3. CASE Sample
  <2>1. phase = "waiting" /\ clock < Limit /\ loop' = loop /\ Stages' = Stages
    BY <1>1, <1>3, SampleRest DEF Stages
  <2>2. CASE Result = "fatal" /\ phase' \in {"exit", "raised"}
    BY <2>1, <2>2 DEF Abstract!Next, Abstract!GiveUp
  <2>3. CASE clock' = clock + 1 /\ UNCHANGED <<phase, stage>>
    <3>1. \A k \in Int : k + (Limit - (clock + 1)) < k + (Limit - clock)
      BY <1>2
    <3>2. (Stages - stage) * (Limit + 1) \in Int
      BY <1>2
    <3>3. (Stages' - stage') * (Limit + 1) + (Limit - clock')
            < (Stages - stage) * (Limit + 1) + (Limit - clock)
      BY <2>1, <2>3, <3>1, <3>2
    <3>4. QED
      BY <2>1, <2>3, <3>3 DEF Abstract!Next, Abstract!Sample
  <2>4. CASE stage < Stages /\ stage' = stage + 1 /\ clock' = 0 /\ UNCHANGED phase
    <3>1. (1 - 1) * (Limit + 1) + (Limit - 0) < 1 * (Limit + 1) + (Limit - clock)
      BY <1>2
    <3>2. (2 - 1) * (Limit + 1) + (Limit - 0) < 2 * (Limit + 1) + (Limit - clock)
      BY <1>2
    <3>3. \/ Stages - stage = 1 /\ Stages' - stage' = 1 - 1
          \/ Stages - stage = 2 /\ Stages' - stage' = 2 - 1
      BY <1>2, <2>1, <2>4
    <3>4. (Stages' - stage') * (Limit + 1) + (Limit - clock')
            < (Stages - stage) * (Limit + 1) + (Limit - clock)
      BY <2>4, <3>1, <3>2, <3>3
    <3>5. QED
      BY <2>1, <2>4, <3>4 DEF Abstract!Next, Abstract!Sample
  <2>5. CASE Result = "good" /\ phase' = "returned"
    <3>1. loop # "phaseKept"
      BY <2>5 DEF Result, PhaseKept
    <3>2. QED
      BY <2>1, <2>5, <3>1 DEF Abstract!Next, Abstract!Return
  <2>6. QED
    BY <1>1, <1>3, <2>2, <2>3, <2>4, <2>5, SampleCases
<1>4. CASE Expire
  <2>1. phase = "waiting" /\ clock >= Limit /\ phase' = Outcome
    BY <1>4 DEF Expire
  <2>2. CASE loop = "phaseKept"
    <3>1. phase' = "returned"
      BY <2>1, <2>2 DEF Outcome
    <3>2. QED
      BY <2>1, <2>2, <3>1 DEF Abstract!Next, Abstract!Return
  <2>3. CASE loop # "phaseKept"
    <3>1. phase' \notin {"waiting", "returned"}
      BY <2>1, <2>3 DEF Outcome
    <3>2. QED
      BY <2>1, <3>1 DEF Abstract!Next, Abstract!GiveUp
  <2>4. QED
    BY <2>2, <2>3
<1>5. CASE UNCHANGED <<loop, phase, stage, clock>>
  BY <1>5 DEF Abstract!Next, Abstract!Others, Stages
<1>6. QED
  BY <1>3, <1>4, <1>5 DEF Next, PodChanges, ThingChanges, vars, wait

LEMMA InitImplements == Init => Abstract!Init
<1> SUFFICES ASSUME Init PROVE Abstract!Init
  OBVIOUS
<1>1. Limit \in Nat /\ clock = 0 /\ stage = 1 /\ Stages \in 1..3
  BY PollersAssumption, NeededTyped DEF Init
<1>2. Stages - stage \in 0..2
  BY <1>1
<1>3. (Stages - stage) * (Limit + 1) + (Limit - clock) \in Nat
  BY <1>1, <1>2
<1>4. QED
  BY <1>3 DEF Init, Abstract!Init

\* Every wait implements the safety part of TimedWait; that it ends rests on
\* fairness.
THEOREM WaitsAreTimed == Spec => Abstract!Init /\ [][Abstract!Next]_(Abstract!vars)
<1>1. PollersInv /\ [Next]_vars => [Abstract!Next]_(Abstract!vars)
  BY StepImplements
<1>2. QED
  BY <1>1, InitImplements, InitPollers, StepPollers, PTL DEF Spec
=============================================================================
