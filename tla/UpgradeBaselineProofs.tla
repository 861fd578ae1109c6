----------------------- MODULE UpgradeBaselineProofs -----------------------
(***************************************************************************)
(* What holds of the baseline ConfigMap for any set of writers and any     *)
(* number of rounds.  The invariant has three parts besides the type: what *)
(* a writer has read is what is there as long as no write came in between, *)
(* the ConfigMap that is gone stays gone, and the writes are counted by    *)
(* the writers that are done, each round of a writer by one of them.       *)
(***************************************************************************)
EXTENDS UpgradeBaseline, FiniteSetTheorems, TLAPS

Done == {w \in Writers : pc[w] = "done"}

\* A writer outside split that still has the current version has the current data.
FreshFor(w) ==
    /\ seen[w] <= version
    /\ pc[w] = "read again" /\ seen[w] = version /\ cm # {} => data[w] = cm
    /\ pc[w] = "update" /\ seen[w] = version /\ cm # {} /\ w \notin split => data[w] = cm

Fresh == \A w \in Writers : FreshFor(w)

\* The namespace does not come back, nor does the ConfigMap in it.
GoneForGood ==
    /\ deleted <=> ~namespace
    /\ deleted => cm = {}
    /\ \A w \in Writers : pc[w] = "create" => deleted
    /\ ~deleted => (cm = {} <=> version = 0)
    /\ cm # {} => version > 0

\* Every conflict of a writer is a write it had not seen.
Counted ==
    /\ version = Cardinality(Done)
    /\ \A w \in Writers :
        /\ pc[w] \in {"again", "read", "create", "exhausted"} => tries[w] < version
        /\ pc[w] \in {"read again", "update"} => tries[w] < seen[w]
        /\ pc[w] \in {"first", "create first"} => tries[w] = 0

IInv == TypeOK /\ Fresh /\ GoneForGood /\ Counted /\ LossNeedsSplitRead

-----------------------------------------------------------------------------
\* A writer that finishes is one more among those that are done.
LEMMA OneMoreDone ==
    ASSUME TypeOK, NEW w \in Writers, pc[w] # "done", Goto(w, "done")
    PROVE  Cardinality(Done') = Cardinality(Done) + 1
<1>1. IsFiniteSet(Done)
    BY WritersAssumption, FS_Subset DEF Done
<1>2. Done' = Done \cup {w}
    BY DEF Done, Goto, TypeOK
<1>3. w \notin Done
    BY DEF Done
<1>4. QED
    BY <1>1, <1>2, <1>3, FS_AddElement

\* A step to any other place leaves them as they are.
LEMMA NoMoreDone ==
    ASSUME TypeOK, NEW w \in Writers, pc[w] # "done",
           NEW l, l # "done", Goto(w, l)
    PROVE  Done' = Done
BY DEF Done, Goto, TypeOK

LEMMA Numbers ==
    ASSUME TypeOK, NEW w \in Writers
    PROVE  /\ tries[w] \in Nat /\ seen[w] \in Nat /\ version \in Nat
           /\ pc[w] # "exhausted" => tries[w] < Attempts
<1>1. tries[w] \in 0..Attempts /\ (pc[w] # "exhausted" => tries[w] # Attempts)
    BY DEF TypeOK
<1>2. QED
    BY <1>1, AttemptsAssumption DEF TypeOK

\* The type, for every step that is not a conflict.
LEMMA GotoKeepsType ==
    ASSUME TypeOK, NEW w \in Writers, pc[w] # "exhausted",
           NEW l \in Labels \ {"exhausted"}, Goto(w, l), UNCHANGED tries,
           namespace' \in BOOLEAN, deleted' \in BOOLEAN,
           cm' \subseteq Writers, version' \in Nat, split' \subseteq Writers,
           data' \in [Writers -> SUBSET Writers], seen' \in [Writers -> Nat]
    PROVE  TypeOK'
<1>1. pc' \in [Writers -> Labels]
    BY DEF TypeOK, Goto
<1>2. \A v \in Writers : pc'[v] = "exhausted" <=> pc[v] = "exhausted"
    BY DEF TypeOK, Goto
<1>3. QED
    BY <1>1, <1>2 DEF TypeOK

-----------------------------------------------------------------------------
LEMMA InitInv == Init => IInv
<1> SUFFICES ASSUME Init PROVE IInv
    OBVIOUS
<1>1. TypeOK
  <2>1. \A w \in Writers : pc[w] = "first" /\ tries[w] = 0
    BY DEF Init
  <2>2. pc \in [Writers -> Labels] /\ tries \in [Writers -> 0..Attempts]
    BY AttemptsAssumption DEF Init, Labels, Over
  <2>3. \A w \in Writers : pc[w] = "exhausted" <=> tries[w] = Attempts
    BY <2>1, AttemptsAssumption
  <2>4. QED
    BY <2>2, <2>3 DEF Init, TypeOK
<1>2. Done = {}
    BY DEF Done, Init
<1>3. Counted
    BY <1>2, FS_EmptySet DEF Counted, Init
<1>4. QED
    BY <1>1, <1>3 DEF IInv, Init, Fresh, FreshFor, GoneForGood, LossNeedsSplitRead

LEMMA LookKeepsInv ==
    ASSUME IInv, NEW w \in Writers, Look(w)
    PROVE  IInv'
<1> USE DEF IInv
<1>1. PICK l \in {"again", "read", "create first", "create"} :
        /\ Goto(w, l)
        /\ l = "again" => pc[w] = "first" /\ cm # {}
        /\ l = "read" => pc[w] = "again"
        /\ l = "create first" => pc[w] = "first"
        /\ l = "create" => pc[w] = "again" /\ cm = {}
    BY DEF Look
<1>2. TypeOK'
  <2>1. l \in Labels \ {"exhausted"}
    BY DEF Labels, Over
  <2>2. QED
    BY <1>1, <2>1, GotoKeepsType DEF TypeOK, Look
<1>3. Fresh'
    BY <1>1 DEF TypeOK, Look, Goto, Fresh, FreshFor
<1>4. GoneForGood'
  <2>1. l = "create" => deleted
    <3> SUFFICES ASSUME l = "create", ~deleted PROVE FALSE
        OBVIOUS
    <3>1. pc[w] = "again"
        BY <1>1
    <3>2. tries[w] < version
        BY <3>1 DEF Counted
    <3>3. tries[w] \in Nat /\ version \in Nat
        BY Numbers
    <3>4. version = 0
        BY <1>1 DEF GoneForGood
    <3>5. QED
        BY <3>2, <3>3, <3>4
  <2>2. QED
    BY <1>1, <2>1 DEF TypeOK, Look, Goto, GoneForGood
<1>5. Counted'
  <2>1. Done' = Done
    BY <1>1, NoMoreDone DEF Look
  <2>2. l = "again" => 0 < version
    BY <1>1 DEF TypeOK, GoneForGood, Counted, LossNeedsSplitRead
  <2>3. QED
    BY <1>1, <2>1, <2>2 DEF TypeOK, Look, Goto, Counted
<1>6. LossNeedsSplitRead'
    BY <1>1 DEF TypeOK, Look, Goto, LossNeedsSplitRead
<1>7. QED
    BY <1>2, <1>3, <1>4, <1>5, <1>6

\* Both ways to be accepted write the next version and end the writer.
LEMMA WriteKeepsInv ==
    ASSUME IInv, NEW w \in Writers, pc[w] # "done", tries[w] < Attempts,
           ~deleted, Goto(w, "done"),
           cm' \subseteq Writers, w \in cm', cm \subseteq cm' \/ w \in split,
           version' = version + 1,
           UNCHANGED <<namespace, tries, data, seen, split, deleted>>
    PROVE  IInv'
<1> USE DEF IInv
<1>1. TypeOK'
  <2>1. "done" \in Labels \ {"exhausted"}
    BY DEF Labels, Over
  <2>2. QED
    BY <2>1, GotoKeepsType DEF TypeOK
<1>2. Fresh'
  <2>1. \A v \in Writers : seen[v] <= version /\ seen[v] \in Nat
    BY Numbers DEF Fresh, FreshFor
  <2>2. \A v \in Writers : seen'[v] <= version' /\ seen'[v] # version'
    BY <2>1, Numbers
  <2>3. QED
    BY <2>2 DEF Fresh, FreshFor
<1>3. GoneForGood'
    BY Numbers DEF TypeOK, Goto, GoneForGood
<1>4. Counted'
  <2>1. version' = Cardinality(Done')
    BY OneMoreDone DEF Counted
  <2>2. ASSUME NEW v \in Writers, v # w
        PROVE  /\ pc'[v] = pc[v] /\ tries'[v] = tries[v] /\ seen'[v] = seen[v]
               /\ tries[v] < version => tries[v] < version'
    BY <2>2, Numbers DEF TypeOK, Goto
  <2>3. pc'[w] = "done"
    BY DEF TypeOK, Goto
  <2>4. QED
    BY <2>1, <2>2, <2>3 DEF Counted
<1>5. LossNeedsSplitRead'
    BY DEF TypeOK, Goto, LossNeedsSplitRead
<1>6. QED
    BY <1>1, <1>2, <1>3, <1>4, <1>5

\* A conflict is about a write that the writer had not seen.
LEMMA ConflictKeepsInv ==
    ASSUME IInv, NEW w \in Writers, Conflict(w), pc[w] = "update", seen[w] # version,
           UNCHANGED <<namespace, cm, version, data, seen, split, deleted>>
    PROVE  IInv'
<1> USE DEF IInv
<1>1. tries[w] + 1 < version /\ tries[w] < Attempts /\ tries[w] \in Nat
  <2>1. tries[w] < seen[w] /\ seen[w] <= version
    BY DEF Fresh, FreshFor, Counted
  <2>2. QED
    BY <2>1, Numbers
<1>2. PICK l \in {"exhausted", "again"} :
        Goto(w, l) /\ (l = "exhausted" <=> tries[w] + 1 = Attempts)
    BY DEF Conflict
<1>3. TypeOK'
  <2>1. pc' \in [Writers -> Labels]
    BY <1>2 DEF TypeOK, Goto, Labels, Over
  <2>2. tries' \in [Writers -> 0..Attempts]
    BY <1>1, AttemptsAssumption DEF TypeOK, Conflict
  <2>3. \A v \in Writers : pc'[v] = "exhausted" <=> tries'[v] = Attempts
    BY <1>1, <1>2 DEF TypeOK, Conflict, Goto
  <2>4. QED
    BY <2>1, <2>2, <2>3 DEF TypeOK
<1>4. Fresh'
    BY <1>2 DEF TypeOK, Goto, Fresh, FreshFor
<1>5. GoneForGood'
    BY <1>2 DEF TypeOK, Goto, GoneForGood
<1>6. Counted'
  <2>1. Done' = Done
    BY <1>2, NoMoreDone
  <2>2. QED
    BY <1>1, <1>2, <2>1, AttemptsAssumption DEF TypeOK, Conflict, Goto, Counted
<1>7. LossNeedsSplitRead'
    BY <1>2 DEF TypeOK, Goto, LossNeedsSplitRead
<1>8. QED
    BY <1>3, <1>4, <1>5, <1>6, <1>7

\* A writer that dies of an exception.
LEMMA FailureKeepsInv ==
    ASSUME IInv, NEW w \in Writers, pc[w] \notin Over, Goto(w, "failed"),
           UNCHANGED <<namespace, cm, version, tries, data, seen, split, deleted>>
    PROVE  IInv'
<1> USE DEF IInv
<1>1. TypeOK'
  <2>1. "failed" \in Labels \ {"exhausted"}
    BY DEF Labels, Over
  <2>2. QED
    BY <2>1, GotoKeepsType DEF TypeOK, Over
<1>2. Fresh' /\ GoneForGood' /\ LossNeedsSplitRead'
    BY DEF TypeOK, Goto, Fresh, FreshFor, GoneForGood, LossNeedsSplitRead, Over
<1>3. Counted'
  <2>1. Done' = Done
    BY NoMoreDone DEF Over
  <2>2. QED
    BY <2>1 DEF TypeOK, Goto, Counted
<1>4. QED
    BY <1>1, <1>2, <1>3

LEMMA CreateKeepsInv ==
    ASSUME IInv, NEW w \in Writers, Create(w)
    PROVE  IInv'
<1> USE DEF IInv
<1>1. CASE namespace /\ cm = {} /\ cm' = {w} /\ version' = version + 1
           /\ Goto(w, "done") /\ UNCHANGED tries
  <2>1. tries[w] < Attempts
    BY Numbers DEF Create
  <2>2. QED
    BY <1>1, <2>1, WriteKeepsInv DEF Create, GoneForGood
<1>2. CASE cm # {} /\ pc[w] = "create"
    BY <1>2 DEF GoneForGood
<1>3. CASE Goto(w, "failed") /\ UNCHANGED <<cm, version, tries>>
    BY <1>3, FailureKeepsInv DEF Create, Over
<1>4. QED
    BY <1>1, <1>2, <1>3 DEF Create

LEMMA ReadKeepsInv ==
    ASSUME IInv, NEW w \in Writers, Read(w)
    PROVE  IInv'
<1> USE DEF IInv, Read
<1>1. TypeOK'
  <2>1. "read again" \in Labels \ {"exhausted"}
    BY DEF Labels, Over
  <2>2. QED
    BY <2>1, GotoKeepsType DEF TypeOK
<1>2. Fresh'
  <2>1. ASSUME NEW v \in Writers, v # w
        PROVE  pc'[v] = pc[v] /\ data'[v] = data[v] /\ seen'[v] = seen[v]
    BY <2>1 DEF TypeOK, Goto
  <2>2. pc'[w] = "read again" /\ data'[w] = cm /\ seen'[w] = version
    BY DEF TypeOK, Goto
  <2>3. FreshFor(w)'
    <3>1. seen'[w] = version' /\ version' \in Nat
      BY <2>2 DEF TypeOK
    <3> HIDE DEF IInv, Read
    <3>2. seen'[w] <= version'
      BY <3>1
    <3>3. QED
      BY <2>2, <3>2 DEF FreshFor, Read
  <2>4. ASSUME NEW v \in Writers, v # w
        PROVE  FreshFor(v)'
    BY <2>1, <2>4 DEF Fresh, FreshFor
  <2>5. QED
    BY <2>3, <2>4 DEF Fresh, FreshFor
<1>3. GoneForGood' /\ LossNeedsSplitRead'
    BY DEF TypeOK, Goto, GoneForGood, LossNeedsSplitRead
<1>4. Counted'
  <2>1. Done' = Done
    BY NoMoreDone
  <2>2. QED
    BY <2>1 DEF TypeOK, Goto, Counted
<1>5. QED
    BY <1>1, <1>2, <1>3, <1>4

LEMMA ReadAgainKeepsInv ==
    ASSUME IInv, NEW w \in Writers, ReadAgain(w)
    PROVE  IInv'
<1>1. tries[w] < version
  <2>1. tries[w] < seen[w] /\ seen[w] <= version
    BY DEF IInv, Fresh, FreshFor, Counted, ReadAgain
  <2>2. QED
    BY <2>1, Numbers DEF IInv
<1> USE DEF IInv, ReadAgain
<1>2. TypeOK'
  <2>1. "update" \in Labels \ {"exhausted"}
    BY DEF Labels, Over
  <2>2. QED
    BY <2>1, GotoKeepsType DEF TypeOK
<1>3. Fresh'
  <2>1. ASSUME NEW v \in Writers, v # w
        PROVE  /\ pc'[v] = pc[v] /\ seen'[v] = seen[v]
               /\ v \in split' <=> v \in split
    BY <2>1 DEF TypeOK, Goto
  <2>2. pc'[w] = "update" /\ seen'[w] = version
    BY DEF TypeOK, Goto
  <2>3. w \notin split' => data[w] = cm
    BY DEF Fresh, FreshFor
  <2>4. FreshFor(w)'
    <3>1. seen'[w] = version' /\ version' \in Nat
      BY <2>2 DEF TypeOK
    <3> HIDE DEF IInv, ReadAgain
    <3>2. seen'[w] <= version'
      BY <3>1
    <3>3. QED
      BY <2>2, <2>3, <3>2 DEF FreshFor, ReadAgain
  <2>5. ASSUME NEW v \in Writers, v # w
        PROVE  FreshFor(v)'
    BY <2>1, <2>5 DEF Fresh, FreshFor
  <2>6. QED
    BY <2>4, <2>5 DEF Fresh, FreshFor
<1>4. GoneForGood'
    BY DEF TypeOK, Goto, GoneForGood
<1>5. LossNeedsSplitRead'
    BY DEF TypeOK, Goto, LossNeedsSplitRead
<1>6. Counted'
  <2>1. Done' = Done
    BY NoMoreDone
  <2>2. QED
    BY <1>1, <2>1 DEF TypeOK, Goto, Counted
<1>7. QED
    BY <1>2, <1>3, <1>4, <1>5, <1>6

LEMMA UpdateKeepsInv ==
    ASSUME IInv, NEW w \in Writers, Update(w)
    PROVE  IInv'
<1> USE DEF IInv
<1>1. CASE seen[w] = version
  <2>1. tries[w] < Attempts
    BY Numbers DEF Update
  <2>2. ~deleted
    BY DEF Update, GoneForGood
  <2>3. w \notin split => data[w] = cm
    BY <1>1 DEF Fresh, FreshFor, Update
  <2>4. cm' = data[w] \cup {w} /\ cm' \subseteq Writers
    BY <1>1 DEF Update, TypeOK
  <2>5. QED
    BY <1>1, <2>1, <2>2, <2>3, <2>4, WriteKeepsInv DEF Update
<1>2. CASE seen[w] # version
    BY <1>2, ConflictKeepsInv DEF Update
<1>3. QED
    BY <1>1, <1>2

LEMMA DeleteKeepsInv ==
    ASSUME IInv, DeleteNamespace
    PROVE  IInv'
<1> USE DEF IInv, DeleteNamespace
<1>1. TypeOK'
    BY DEF TypeOK
<1>2. Fresh' /\ GoneForGood' /\ LossNeedsSplitRead'
    BY DEF TypeOK, Fresh, FreshFor, GoneForGood, LossNeedsSplitRead
<1>3. Counted'
  <2>1. Done' = Done
    BY DEF Done
  <2>2. QED
    BY <2>1 DEF Counted
<1>4. QED
    BY <1>1, <1>2, <1>3

LEMMA StepKeepsInv == IInv /\ [Next]_vars => IInv'
<1> SUFFICES ASSUME IInv, [Next]_vars PROVE IInv'
    OBVIOUS
<1>1. ASSUME NEW w \in Writers, Step(w) PROVE IInv'
  <2>1. CASE Look(w)
    BY <2>1, LookKeepsInv
  <2>2. CASE Create(w)
    BY <2>2, CreateKeepsInv
  <2>3. CASE Gone(w)
    BY <2>3, FailureKeepsInv DEF Gone, Over
  <2>4. CASE Read(w)
    BY <2>4, ReadKeepsInv
  <2>5. CASE ReadAgain(w)
    BY <2>5, ReadAgainKeepsInv
  <2>6. CASE Update(w)
    BY <2>6, UpdateKeepsInv
  <2>7. QED
    BY <1>1, <2>1, <2>2, <2>3, <2>4, <2>5, <2>6 DEF Step
<1>2. CASE DeleteNamespace
    BY <1>2, DeleteKeepsInv
<1>3. CASE UNCHANGED vars
  <2>1. Done' = Done
    BY <1>3 DEF vars, Done
  <2>2. TypeOK' /\ Fresh' /\ GoneForGood' /\ LossNeedsSplitRead'
    BY <1>3 DEF vars, IInv, TypeOK, Fresh, FreshFor, GoneForGood, LossNeedsSplitRead
  <2>3. Counted'
    BY <1>3, <2>1 DEF vars, IInv, Counted
  <2>4. QED
    BY <2>2, <2>3 DEF IInv
<1>4. QED
    BY <1>1, <1>2, <1>3 DEF Next

\* A writer that gives up has seen Attempts conflicts, each of them a write of
\* somebody who is done, besides the write that created the ConfigMap.
LEMMA ExhaustedIsOutnumbered == IInv => GivesUpAfterOthers
<1> SUFFICES ASSUME IInv, NEW w \in Writers, pc[w] = "exhausted"
             PROVE  Cardinality({v \in Writers \ {w} : pc[v] = "done"}) > Attempts
    BY DEF GivesUpAfterOthers
<1>1. tries[w] = Attempts /\ tries[w] < version
    BY DEF IInv, TypeOK, Counted
<1>2. Done = {v \in Writers \ {w} : pc[v] = "done"}
    BY DEF Done
<1>3. Attempts < Cardinality(Done)
    BY <1>1 DEF IInv, Counted
<1>4. Attempts \in Nat /\ Cardinality(Done) \in Nat
    BY AttemptsAssumption DEF IInv, TypeOK, Counted
<1>5. QED
    BY <1>2, <1>3, <1>4

-----------------------------------------------------------------------------
\* What a writer has read, what is gone and what was counted, as above, holds in
\* every reachable state of the overlapping calls of save_baseline_to_configmap.
THEOREM Inductive == Spec => []IInv
<1>1. Init => IInv
    BY InitInv
<1>2. IInv /\ [Next]_vars => IInv'
    BY StepKeepsInv
<1>3. QED
    BY <1>1, <1>2, PTL DEF Spec

\* The state keeps its type, and a writer that has used up its rounds stops.
THEOREM TypeCorrect == Spec => []TypeOK
<1>1. IInv => TypeOK
    BY DEF IInv
<1>2. QED
    BY <1>1, Inductive, PTL

\* However many fixtures save their baselines at once, an entry is lost only to a
\* writer that took its data and its resourceVersion from different states of the
\* ConfigMap (or with the namespace).
THEOREM OnlySplitReadsLose == Spec => []LossNeedsSplitRead
<1>1. IInv => LossNeedsSplitRead
    BY DEF IInv
<1>2. QED
    BY <1>1, Inductive, PTL

\* With n rounds a writer gives up only if n + 1 others have saved: the code's five
\* rounds are enough for its five capture fixtures.
THEOREM RoundsSuffice == Spec => []GivesUpAfterOthers
<1>1. IInv => GivesUpAfterOthers
    BY ExhaustedIsOutnumbered
<1>2. QED
    BY <1>1, Inductive, PTL
=============================================================================
