------------------------- MODULE SharedClusterProofs -------------------------
(***************************************************************************)
(* Proofs about SharedCluster, for any number of processes, any kinds of   *)
(* fixture, values, failures and kills.  First the resource, then the      *)
(* kubeconfig; the two only meet in the owner of a project.                *)
(***************************************************************************)
EXTENDS SharedCluster, TLAPS

\* Only the operator is uninstalled, and it is not deleted.
Uninstalled ==
    \A p \in Procs : /\ undo[p] = "uninstall" => kind = "operator"
                     /\ undo[p] = "delete" => kind # "operator"

\* What was found is there, so nobody has created it and nobody will delete it.
FoundStays ==
    found = Found /\ kind # "operator" => there # Absent /\ \A p \in Procs : undo[p] # "delete"

FixtureIInv == TypeOK /\ Uninstalled /\ FoundStays /\ CreatorKeepsIt

LEMMA FixtureInitially == Init => FixtureIInv
  BY ValuesAssumption, DataAssumption, KindsAssumption
  DEF Init, FixtureIInv, TypeOK, Uninstalled, FoundStays, CreatorKeepsIt, Start, Active, Ends

\* The steps that leave the resource, and what is to be undone, alone.
LEMMA OnlyMoves ==
    ASSUME FixtureIInv, NEW p \in Procs, NEW to \in Start \cup Active \cup Ends,
           Goto(p, to), UNCHANGED <<kind, found, there, undo, backup, crossed>>,
           broken' \in {broken, broken \cup {p}}
    PROVE  FixtureIInv'
  BY DEF FixtureIInv, TypeOK, Uninstalled, FoundStays, CreatorKeepsIt, Goto

LEMMA LookKeeps ==
    ASSUME FixtureIInv, NEW p \in Procs, Look(p) PROVE FixtureIInv'
<1> USE ValuesAssumption DEF FixtureIInv, Uninstalled
<1>1. TypeOK'
  BY DEF TypeOK, Look, Goto, Adopt, Start, Active, Ends
<1>2. \A q \in Procs : undo'[q] = undo[q] \/ undo'[q] = Nothing \/ (undo'[q] = "uninstall" /\ kind = "operator")
  BY DEF TypeOK, Look, Adopt
<1>3. UNCHANGED <<kind, found, there>>
  BY DEF Look
<1>4. FoundStays' /\ CreatorKeepsIt'
  BY <1>2, <1>3 DEF FoundStays, CreatorKeepsIt
<1> QED
  BY <1>1, <1>2, <1>3, <1>4

LEMMA CreateKeeps ==
    ASSUME FixtureIInv, NEW p \in Procs, Create(p) \/ CreateUnanswered(p) PROVE FixtureIInv'
<1> USE ValuesAssumption, DataAssumption DEF FixtureIInv
<1>1. TypeOK'
  BY DEF TypeOK, Create, CreateUnanswered, Goto, Owes, Start, Active, Ends
<1>2. there' # Absent /\ there = Absent /\ UNCHANGED <<kind, found>>
  BY DEF Create, CreateUnanswered
<1>3. \A q \in Procs : undo[q] # "delete"
  BY <1>2 DEF CreatorKeepsIt
<1>4. \A q \in Procs : undo'[q] = IF q = p THEN Owes ELSE undo[q]
  BY DEF Create, CreateUnanswered, TypeOK
<1>5. Uninstalled'
  BY <1>2, <1>4 DEF Uninstalled, Owes
<1>6. FoundStays'
  BY <1>2 DEF FoundStays
<1>7. CreatorKeepsIt'
  BY <1>2, <1>3, <1>4 DEF CreatorKeepsIt
<1> QED
  BY <1>1, <1>5, <1>6, <1>7

LEMMA PatchKeeps ==
    ASSUME FixtureIInv, NEW p \in Procs, Patch(p) \/ PatchUnanswered(p) PROVE FixtureIInv'
<1> USE ValuesAssumption, DataAssumption DEF FixtureIInv
<1>1. TypeOK'
  BY DEF TypeOK, Patch, PatchUnanswered, Goto, Start, Active, Ends
<1>2. (there' = there \/ (there # Absent /\ there' # Absent)) /\ UNCHANGED <<kind, found>>
  BY DEF Patch, PatchUnanswered
<1>3. \A q \in Procs : undo'[q] = undo[q] \/ undo'[q] \notin {"delete", "uninstall"}
  BY DEF Patch, PatchUnanswered, TypeOK
<1> QED
  BY <1>1, <1>2, <1>3 DEF Uninstalled, FoundStays, CreatorKeepsIt

\* Of the processes only the creator deletes; an editor writes what it backed
\* up, which is a value, and only where something is.
LEMMA LeaveKeeps ==
    ASSUME FixtureIInv, NEW p \in Procs, Leave(p) PROVE FixtureIInv'
<1> USE ValuesAssumption DEF FixtureIInv
<1>1. \A q \in Procs : undo'[q] = IF q = p THEN Nothing ELSE undo[q]
  BY DEF Leave, TypeOK
<1>2. UNCHANGED <<kind, found, backup, broken>>
  BY DEF Leave
<1>3. undo[p] \in {"delete", "uninstall"} => there' = Absent
  BY DEF Leave
<1>4. undo[p] \notin {"delete", "uninstall"} =>
        there' = there \/ (there # Absent /\ there' \in Values \cup {Found})
  BY DEF Leave, TypeOK
<1>5. TypeOK'
  <2>1. there' \in Values \cup {Absent, Found}
    BY <1>3, <1>4 DEF TypeOK
  <2>2. undo' \in [Procs -> Values \cup {Nothing, Found, "delete", "uninstall"}]
    BY DEF TypeOK, Leave
  <2>3. pc' \in [Procs -> Start \cup Active \cup Ends] /\ crossed' \in BOOLEAN
    BY DEF TypeOK, Leave, Goto, Ends
  <2> QED
    BY <1>2, <2>1, <2>2, <2>3 DEF TypeOK
<1>6. Uninstalled'
  BY <1>1, <1>2 DEF Uninstalled
<1>7. FoundStays'
  BY <1>1, <1>2, <1>4 DEF FoundStays, Uninstalled
<1>8. CreatorKeepsIt'
  <2>1. CASE undo[p] \in {"delete", "uninstall"}
    BY <2>1, <1>1, <1>2 DEF CreatorKeepsIt, Uninstalled
  <2>2. CASE undo[p] \notin {"delete", "uninstall"}
    BY <2>2, <1>1, <1>4 DEF CreatorKeepsIt
  <2> QED
    BY <2>1, <2>2
<1> QED
  BY <1>5, <1>6, <1>7, <1>8

LEMMA FixtureStepKeeps ==
    ASSUME FixtureIInv, NEW p \in Procs, Step(p) \/ Kill(p) PROVE FixtureIInv'
<1>1. CASE Look(p)
  BY <1>1, LookKeeps
<1>2. CASE Create(p) \/ CreateUnanswered(p)
  BY <1>2, CreateKeeps
<1>3. CASE Patch(p) \/ PatchUnanswered(p)
  BY <1>3, PatchKeeps
<1>4. CASE Leave(p)
  BY <1>4, LeaveKeeps
<1>5. CASE BackUp(p)
  BY <1>5 DEF FixtureIInv, TypeOK, Uninstalled, FoundStays, CreatorKeepsIt, BackUp, Goto,
              Start, Active, Ends
<1>6. CASE Begin(p) \/ CreateFails(p) \/ PatchFails(p) \/ WaitEnds(p) \/ WaitFails(p)
            \/ BodyEnds(p) \/ BodyFails(p) \/ LeaveFails(p) \/ Kill(p)
  <2>1. PICK to \in Start \cup Active \cup Ends : Goto(p, to)
    BY <1>6 DEF Begin, CreateFails, PatchFails, WaitEnds, WaitFails, BodyEnds, BodyFails,
                LeaveFails, Kill, Start, Active, Ends
  <2>2. /\ UNCHANGED <<kind, found, there, undo, backup, crossed>>
        /\ broken' \in {broken, broken \cup {p}}
    BY <1>6 DEF Begin, CreateFails, PatchFails, WaitEnds, WaitFails, BodyEnds, BodyFails,
                LeaveFails, Kill
  <2> QED
    BY <2>1, <2>2, OnlyMoves
<1> QED
  BY <1>1, <1>2, <1>3, <1>4, <1>5, <1>6 DEF Step

LEMMA FixtureStutters ==
    ASSUME FixtureIInv, UNCHANGED vars PROVE FixtureIInv'
  BY DEF FixtureIInv, TypeOK, Uninstalled, FoundStays, CreatorKeepsIt, vars

\* The login only goes before the fixture: every session of several processes
\* is one of ClusterFixtures.
THEOREM FixturesRunAsAlone == SharedSpec => Spec
<1>1. SharedInit => Init
  BY DEF SharedInit
<1>2. [SharedNext]_sharedVars => [Next]_vars
  BY DEF SharedNext, sharedVars, vars, LogIn, UseCluster, Next
<1> QED
  BY <1>1, <1>2, PTL DEF SharedSpec, Spec

LEMMA FixtureInductive == Spec => []FixtureIInv
<1>1. FixtureIInv /\ [Next]_vars => FixtureIInv'
  BY FixtureStepKeeps, FixtureStutters DEF Next
<1> QED
  BY <1>1, FixtureInitially, PTL DEF Spec

\* CreatorKeepsIt: of the processes that use a resource at most one will delete
\* it, and until it does the resource is there.
THEOREM CreatorAlwaysKeepsIt == SharedSpec => []CreatorKeepsIt
<1>1. FixtureIInv => CreatorKeepsIt
  BY DEF FixtureIInv
<1> QED
  BY <1>1, FixturesRunAsAlone, FixtureInductive, PTL

\* FoundIsNotRemoved: no fixture but that of the operator removes what was there
\* before.
THEOREM FoundStaysThere == SharedSpec => FoundIsNotRemoved
<1>1. FixtureIInv /\ FixtureIInv' /\ [Next]_vars =>
        [(there \in {found} \ {Absent} /\ there' = Absent) => kind = "operator"]_vars
  <2> SUFFICES ASSUME FixtureIInv, FixtureIInv', Next, there \in {found} \ {Absent},
                      there' = Absent
               PROVE  kind = "operator"
    BY DEF vars
  <2>1. found = Found
    BY DEF FixtureIInv, TypeOK
  <2>2. UNCHANGED <<kind, found>>
    BY DEF Next, Step, Kill, Look, Begin, Create, CreateFails, CreateUnanswered, BackUp, Patch,
           PatchFails, PatchUnanswered, WaitEnds, WaitFails, BodyEnds, BodyFails, Leave, LeaveFails
  <2> QED
    BY <2>1, <2>2 DEF FixtureIInv, FoundStays
<1> QED
  BY <1>1, FixturesRunAsAlone, FixtureInductive, PTL DEF Spec, FoundIsNotRemoved

-----------------------------------------------------------------------------
(* What is left behind.                                                    *)

\* Until a process has changed something it has nothing to take back, nor when
\* it is done; it fails with something left only where nothing guards it, or
\* where it had no answer or its clean-up failed.
PlacesAgree ==
    \A p \in Procs :
        /\ pc[p] \in {"start", "create", "edit", "patch", "done"} => undo[p] = Nothing
        /\ pc[p] = "failed" /\ undo[p] # Nothing =>
              p \in broken \/ kind \in {"secret", "operator", "project"}
        /\ pc[p] = "wait" => Waits(kind)

\* A resource that was not found is somebody's to remove.
CreatedIsOwed ==
    found = Absent /\ there # Absent => \E p \in Procs : undo[p] \in {"delete", "uninstall"}

\* One that was found, and is not as it was, is somebody's to restore.
ChangedIsOwed ==
    found = Found /\ kind # "operator" /\ ~crossed /\ there # Found =>
        \E p \in Procs : undo[p] # Nothing

LedgerIInv == FixtureIInv /\ PlacesAgree /\ CreatedIsOwed /\ ChangedIsOwed

LEMMA LedgerInitially == Init => LedgerIInv
  BY FixtureInitially DEF Init, LedgerIInv, PlacesAgree, CreatedIsOwed, ChangedIsOwed

\* A step of a process changes its own place and debt, and never what was found.
LEMMA StepsAreLocal ==
    ASSUME FixtureIInv, NEW p \in Procs, Step(p) \/ Kill(p)
    PROVE  /\ UNCHANGED <<kind, found>>
           /\ broken \subseteq broken'
           /\ \A q \in Procs \ {p} : pc'[q] = pc[q] /\ undo'[q] = undo[q]
  BY DEF FixtureIInv, TypeOK, Step, Kill, Look, Adopt, Begin, Create, CreateFails, CreateUnanswered,
         BackUp, Patch, PatchFails, PatchUnanswered, WaitEnds, WaitFails, BodyEnds, BodyFails, Leave, LeaveFails, Goto

LEMMA PlacesStayAgreed ==
    ASSUME LedgerIInv, NEW p \in Procs, Step(p) \/ Kill(p) PROVE PlacesAgree'
<1> USE ValuesAssumption DEF PlacesAgree
<1>t. TypeOK /\ PlacesAgree
  BY DEF LedgerIInv, FixtureIInv
<1>0. /\ UNCHANGED <<kind, found>> /\ broken \subseteq broken'
      /\ \A q \in Procs \ {p} : pc'[q] = pc[q] /\ undo'[q] = undo[q]
  BY StepsAreLocal DEF LedgerIInv
<1> SUFFICES /\ pc'[p] \in {"start", "create", "edit", "patch", "done"} => undo'[p] = Nothing
             /\ pc'[p] = "failed" /\ undo'[p] # Nothing =>
                   p \in broken' \/ kind \in {"secret", "operator", "project"}
             /\ pc'[p] = "wait" => Waits(kind)
  BY <1>t, <1>0 DEF Waits
<1>1. CASE Look(p)
  BY <1>1, <1>t DEF Look, Adopt, Goto, TypeOK, Edits, Looks, Waits
<1>2. CASE Create(p) \/ CreateUnanswered(p)
  BY <1>2, <1>t DEF Create, CreateUnanswered, Goto, TypeOK
<1>3. CASE BackUp(p) \/ PatchFails(p) \/ Begin(p) \/ CreateFails(p)
  BY <1>3, <1>t DEF BackUp, PatchFails, Begin, CreateFails, Goto, TypeOK
<1>4. CASE Patch(p) \/ PatchUnanswered(p)
  BY <1>4, <1>t DEF Patch, PatchUnanswered, Goto, TypeOK
<1>5. CASE WaitEnds(p) \/ BodyEnds(p) \/ Kill(p)
  BY <1>5, <1>t DEF WaitEnds, BodyEnds, Kill, Goto, TypeOK
<1>6. CASE WaitFails(p)
  BY <1>6, <1>t DEF WaitFails, Goto, TypeOK, WaitIsGuarded, Waits
<1>7. CASE BodyFails(p) \/ LeaveFails(p)
  BY <1>7, <1>t DEF BodyFails, LeaveFails, Goto, TypeOK, BodyIsGuarded
<1>8. CASE Leave(p)
  BY <1>8, <1>t DEF Leave, Goto, TypeOK
<1> QED
  BY <1>1, <1>2, <1>3, <1>4, <1>5, <1>6, <1>7, <1>8 DEF Step

\* Who changes the resource owes, and who pays puts it back: with what it was
\* found to be, or with what another wrote, which is noted.
LEMMA DebtsStay ==
    ASSUME LedgerIInv, NEW p \in Procs, Step(p) \/ Kill(p)
    PROVE  CreatedIsOwed' /\ ChangedIsOwed'
<1> USE ValuesAssumption DEF CreatedIsOwed, ChangedIsOwed
<1>t. FixtureIInv /\ TypeOK /\ PlacesAgree /\ CreatedIsOwed /\ ChangedIsOwed
  BY DEF LedgerIInv, FixtureIInv
<1>0. /\ UNCHANGED <<kind, found>>
      /\ \A q \in Procs \ {p} : pc'[q] = pc[q] /\ undo'[q] = undo[q]
  BY <1>t, StepsAreLocal
<1>1. CASE Create(p) \/ CreateUnanswered(p)
  <2>1. undo'[p] \in {"delete", "uninstall"} /\ undo'[p] # Nothing
    BY <1>1, <1>t DEF Create, CreateUnanswered, Owes, TypeOK
  <2> QED
    BY <2>1
<1>2. CASE Patch(p) \/ PatchUnanswered(p)
  <2>1. undo[p] = Nothing /\ crossed' = crossed
    BY <1>2, <1>t DEF PlacesAgree, Patch, PatchUnanswered
  <2>2. CASE there' = there /\ undo' = undo
    BY <2>1, <2>2, <1>t, <1>0
  <2>3. CASE there # Absent /\ undo'[p] # Nothing
    <3>1. ChangedIsOwed'
      BY <2>3
    <3>2. CreatedIsOwed'
      BY <2>1, <2>3, <1>t, <1>0
    <3> QED
      BY <3>1, <3>2
  <2> QED
    BY <1>2, <1>t, <2>2, <2>3 DEF Patch, PatchUnanswered, TypeOK
<1>3. CASE Leave(p)
  <2>1. CASE undo[p] \in {"delete", "uninstall"}
    <3>1. there' = Absent
      BY <1>3, <2>1 DEF Leave
    <3>2. found = Found => kind = "operator"
      BY <2>1, <1>t DEF FixtureIInv, FoundStays, Uninstalled
    <3> QED
      BY <3>1, <3>2, <1>0
  <2>2. CASE undo[p] = Nothing
    <3>1. there' = there /\ (crossed' => crossed \/ there' \in Values \cap {undo[p]})
      BY <1>3, <2>2 DEF Leave
    <3>2. crossed' = crossed
      BY <1>3, <2>2, <1>t DEF Leave, TypeOK
    <3> QED
      BY <3>1, <3>2, <2>2, <1>t, <1>0
  <2>3. CASE undo[p] \in Values \cup {Found}
    <3>1. there' = IF there = Absent THEN there ELSE undo[p]
      BY <1>3, <2>3 DEF Leave
    <3>2. crossed' = (crossed \/ there' \in Values \cap {undo[p]})
      BY <1>3 DEF Leave
    <3>3. CreatedIsOwed'
      BY <3>1, <2>3, <1>t, <1>0
    <3>4. found = Found /\ kind # "operator" => there # Absent
      BY <1>t DEF FixtureIInv, FoundStays
    <3>5. ChangedIsOwed'
      BY <3>1, <3>2, <3>4, <2>3, <1>0
    <3> QED
      BY <3>3, <3>5
  <2> QED
    BY <2>1, <2>2, <2>3, <1>t DEF TypeOK
<1>4. CASE Look(p)
  <2>1. undo[p] = Nothing /\ UNCHANGED <<there, crossed>>
    BY <1>4, <1>t DEF Look, PlacesAgree
  <2> QED
    BY <2>1, <1>t, <1>0
<1>5. CASE UNCHANGED <<there, undo, crossed>>
  BY <1>5, <1>t, <1>0
<1> QED
  BY <1>1, <1>2, <1>3, <1>4, <1>5
  DEF Step, Kill, Begin, CreateFails, BackUp, PatchFails, WaitEnds, WaitFails, BodyEnds,
      BodyFails, LeaveFails

LEMMA LedgerInductive == Spec => []LedgerIInv
<1>1. ASSUME LedgerIInv, Next PROVE LedgerIInv'
  <2>1. PICK p \in Procs : Step(p) \/ Kill(p)
    BY <1>1 DEF Next
  <2> QED
    BY <1>1, <2>1, FixtureStepKeeps, PlacesStayAgreed, DebtsStay DEF LedgerIInv
<1>2. ASSUME LedgerIInv, UNCHANGED vars PROVE LedgerIInv'
  BY <1>2, FixtureStutters DEF LedgerIInv, PlacesAgree, CreatedIsOwed, ChangedIsOwed, vars
<1> QED
  BY <1>1, <1>2, LedgerInitially, PTL DEF Spec

\* LeftoverNeedsCause: when all processes have ended and the resource is not as
\* it was found, one was killed, had no answer or could not clean up, or failed
\* where nothing guards it, or two editors crossed, or the operator was found.
THEOREM LeftoversHaveACause == SharedSpec => []LeftoverNeedsCause
<1>1. LedgerIInv => LeftoverNeedsCause
  <2> SUFFICES ASSUME LedgerIInv, AtRest, there # found,
                      ~(crossed /\ found = Found), ~(kind = "operator" /\ found = Found)
               PROVE  \E p \in Procs : Owing(p)
    BY DEF LeftoverNeedsCause
  <2>1. found \in {Absent, Found} /\ PlacesAgree /\ CreatedIsOwed /\ ChangedIsOwed
    BY DEF LedgerIInv, FixtureIInv, TypeOK
  <2>2. PICK p \in Procs : undo[p] # Nothing
    BY <2>1, ValuesAssumption DEF CreatedIsOwed, ChangedIsOwed
  <2>3. pc[p] \in {"start", "done", "failed", "killed"}
    BY DEF AtRest, Start, Ends
  <2>4. Owing(p)
    BY <2>1, <2>2, <2>3 DEF Owing, PlacesAgree
  <2> QED
    BY <2>4
<1> QED
  BY <1>1, FixturesRunAsAlone, LedgerInductive, PTL

-----------------------------------------------------------------------------
(* The kubeconfig.                                                         *)

Users == {"admin", "user"}

LoginTypeOK ==
    /\ mode \in Modes /\ kubeconfig \in Users /\ refused \in Nat /\ together \in BOOLEAN
    /\ at \in [Workers -> {"start", "ready", "failed"} \cup Switching]
    /\ before \in [Workers -> Users \cup {Unasked}]
    /\ client \in [Workers -> Users \cup {Unasked}]
    /\ owner \in Users \cup {Unasked}

\* Who switches knows whom to go back to.
KnowsTheWayBack == \A w \in Workers : at[w] \in Switching => before[w] # Unasked

\* As long as no two switch at once, the kubeconfig is the user's when the
\* context is read, and, as long as no login is refused, whoever switches came
\* from the admin's and leaves it so.
OneAtATime ==
    ~together =>
        /\ \A v, w \in Workers : at[v] \in Switching /\ at[w] \in Switching => v = w
        /\ \A w \in Workers : at[w] = "context" => kubeconfig = "user"
        /\ refused = 0 =>
            /\ \A w \in Workers : at[w] \in Switching => before[w] = "admin"
            /\ (\A w \in Workers : at[w] \notin Switching) => kubeconfig = "admin"

\* So a client that acts as the admin is one that was meant to.
ClientsAsMeant ==
    mode # "off" /\ ~together =>
        owner # "admin" /\ \A w \in Workers : client[w] # "admin"

LoginIInv == LoginTypeOK /\ KnowsTheWayBack /\ OneAtATime /\ ClientsAsMeant

LEMMA LoginInitially == SharedInit => LoginIInv
<1> SUFFICES ASSUME SharedInit PROVE LoginIInv
  OBVIOUS
<1> USE LoginAssumption DEF SharedInit, LoginInit, Switching
<1>1. LoginTypeOK
  BY DEF LoginTypeOK, Users
<1>2. \A w \in Workers : at[w] = "start" /\ client[w] = Unasked
  OBVIOUS
<1>3. KnowsTheWayBack
  BY <1>2 DEF KnowsTheWayBack
<1>4. OneAtATime
  BY <1>2 DEF OneAtATime
<1>5. ClientsAsMeant
  BY <1>2 DEF ClientsAsMeant
<1> QED
  BY <1>1, <1>3, <1>4, <1>5 DEF LoginIInv

LEMMA LoginStepTypes ==
    ASSUME LoginIInv, NEW w \in Workers, LoginStep(w), UNCHANGED owner
    PROVE  LoginTypeOK'
<1> USE LoginAssumption DEF LoginIInv, LoginTypeOK, Users, Switching, To
<1>1. CASE NoSwitch(w)
  <2>1. at' \in [Workers -> {"start", "ready", "failed"} \cup Switching]
    BY <1>1 DEF NoSwitch
  <2>2. client' \in [Workers -> Users \cup {Unasked}]
    BY <1>1 DEF NoSwitch
  <2> QED
    BY <1>1, <2>1, <2>2 DEF NoSwitch
<1>2. CASE WhoAmI(w)
  BY <1>2 DEF WhoAmI
<1>3. CASE Login(w)
  BY <1>3 DEF Login
<1>4. CASE LoginRefused(w) \/ LogBackRefused(w)
  <2>1. PICK to \in {"login", "failed", "ready"} : To(w, to)
    BY <1>4 DEF LoginRefused, LogBackRefused
  <2>2. refused' \in Nat /\ UNCHANGED <<mode, kubeconfig, before, client>>
    BY <1>4 DEF LoginRefused, LogBackRefused
  <2> QED
    BY <2>1, <2>2
<1>5. CASE ReadContext(w)
  BY <1>5 DEF ReadContext
<1>6. CASE NoClient(w)
  BY <1>6 DEF NoClient
<1>7. CASE LogBack(w)
  BY <1>7 DEF LogBack, KnowsTheWayBack
<1> QED
  BY <1>1, <1>2, <1>3, <1>4, <1>5, <1>6, <1>7 DEF LoginStep

\* A step of a switch moves one worker, and notes whether another switches too.
LEMMA SwitchMoves ==
    ASSUME LoginIInv, NEW w \in Workers, NEW to, To(w, to)
    PROVE  /\ \A v \in Workers : at'[v] = IF v = w THEN to ELSE at[v]
           /\ ~together' => ~together /\ \A v \in Workers : at[v] \in Switching => v = w
  BY DEF LoginIInv, LoginTypeOK, To

LEMMA LoginStepKeeps ==
    ASSUME LoginIInv, NEW w \in Workers, LoginStep(w), UNCHANGED owner
    PROVE  LoginIInv'
<1> USE LoginAssumption DEF KnowsTheWayBack, OneAtATime, ClientsAsMeant, Switching
<1>0. LoginTypeOK'
  BY LoginStepTypes
<1>t. LoginTypeOK /\ KnowsTheWayBack /\ OneAtATime /\ ClientsAsMeant
  BY DEF LoginIInv
<1>1. CASE NoSwitch(w)
  <2>1. \A v \in Workers : at'[v] \in Switching => at[v] \in Switching /\ v # w /\ at'[v] = at[v]
    BY <1>1, <1>t DEF NoSwitch, LoginTypeOK
  <2>2. \A v \in Workers : at[v] \in Switching => at'[v] \in Switching
    BY <1>1, <1>t DEF NoSwitch, LoginTypeOK
  <2>3. \A v \in Workers : client'[v] = client[v] \/ client'[v] # "admin" \/ mode = "off"
    BY <1>1, <1>t DEF NoSwitch, LoginTypeOK
  <2>4. UNCHANGED <<mode, kubeconfig, before, refused, together>>
    BY <1>1 DEF NoSwitch
  <2>5. KnowsTheWayBack' /\ ClientsAsMeant'
    BY <1>t, <2>1, <2>3, <2>4
  <2>6. OneAtATime'
    BY <1>t, <2>1, <2>2, <2>4
  <2> QED
    BY <1>0, <2>5, <2>6 DEF LoginIInv
<1>2. CASE WhoAmI(w)
  <2>1. /\ \A v \in Workers : at'[v] = IF v = w THEN "login" ELSE at[v]
        /\ ~together' => ~together /\ \A v \in Workers : at[v] \in Switching => v = w
    BY <1>2, SwitchMoves DEF WhoAmI
  <2>2. \A v \in Workers : before'[v] = IF v = w THEN kubeconfig ELSE before[v]
    BY <1>2, <1>t DEF WhoAmI, LoginTypeOK
  <2>3. at[w] = "start" /\ UNCHANGED <<mode, kubeconfig, client, refused>>
    BY <1>2 DEF WhoAmI
  <2>4. kubeconfig # Unasked
    BY <1>t DEF LoginTypeOK, Users
  <2>5. KnowsTheWayBack' /\ ClientsAsMeant'
    BY <1>t, <2>1, <2>2, <2>3, <2>4
  <2>6. OneAtATime'
    BY <1>t, <2>1, <2>2, <2>3
  <2> QED
    BY <1>0, <2>5, <2>6 DEF LoginIInv
<1>3. CASE Login(w)
  <2>1. PICK to \in {"back", "context"} : To(w, to)
    BY <1>3 DEF Login
  <2>2. /\ \A v \in Workers : at'[v] = IF v = w THEN to ELSE at[v]
        /\ ~together' => ~together /\ \A v \in Workers : at[v] \in Switching => v = w
    BY <2>1, SwitchMoves
  <2>3. at[w] = "login" /\ kubeconfig' = "user" /\ UNCHANGED <<mode, before, client, refused>>
    BY <1>3 DEF Login
  <2>4. KnowsTheWayBack' /\ ClientsAsMeant' /\ OneAtATime'
    BY <1>t, <2>2, <2>3
  <2> QED
    BY <1>0, <2>4 DEF LoginIInv
<1>4. CASE LoginRefused(w) \/ NoClient(w) \/ LogBackRefused(w)
  <2>1. PICK to \in {"login", "failed", "ready"} : To(w, to)
    BY <1>4 DEF LoginRefused, NoClient, LogBackRefused
  <2>2. /\ \A v \in Workers : at'[v] = IF v = w THEN to ELSE at[v]
        /\ ~together' => ~together /\ \A v \in Workers : at[v] \in Switching => v = w
    BY <2>1, SwitchMoves
  <2>3. at[w] \in Switching /\ refused' # 0 /\ UNCHANGED <<mode, kubeconfig, before, client>>
    BY <1>4, <1>t DEF LoginRefused, NoClient, LogBackRefused, LoginTypeOK
  <2>4. KnowsTheWayBack' /\ ClientsAsMeant' /\ OneAtATime'
    BY <1>t, <2>2, <2>3
  <2> QED
    BY <1>0, <2>4 DEF LoginIInv
<1>5. CASE ReadContext(w)
  <2>1. /\ \A v \in Workers : at'[v] = IF v = w THEN "back" ELSE at[v]
        /\ ~together' => ~together /\ \A v \in Workers : at[v] \in Switching => v = w
    BY <1>5, SwitchMoves DEF ReadContext
  <2>2. \A v \in Workers : client'[v] = IF v = w THEN kubeconfig ELSE client[v]
    BY <1>5, <1>t DEF ReadContext, LoginTypeOK
  <2>3. at[w] = "context" /\ UNCHANGED <<mode, kubeconfig, before, refused>>
    BY <1>5 DEF ReadContext
  <2>4. ~together => kubeconfig = "user"
    BY <1>t, <2>3
  <2>5. KnowsTheWayBack' /\ ClientsAsMeant' /\ OneAtATime'
    BY <1>t, <2>1, <2>2, <2>3, <2>4
  <2> QED
    BY <1>0, <2>5 DEF LoginIInv
<1>6. CASE LogBack(w)
  <2>1. /\ \A v \in Workers : at'[v] = IF v = w THEN "ready" ELSE at[v]
        /\ ~together' => ~together /\ \A v \in Workers : at[v] \in Switching => v = w
    BY <1>6, SwitchMoves DEF LogBack
  <2>2. at[w] = "back" /\ kubeconfig' = before[w] /\ UNCHANGED <<mode, before, client, refused>>
    BY <1>6 DEF LogBack
  <2>3. KnowsTheWayBack' /\ ClientsAsMeant' /\ OneAtATime'
    BY <1>t, <2>1, <2>2
  <2> QED
    BY <1>0, <2>3 DEF LoginIInv
<1> QED
  BY <1>1, <1>2, <1>3, <1>4, <1>5, <1>6 DEF LoginStep

\* The owner of a project is the user of a client.
LEMMA ClusterStepKeeps ==
    ASSUME LoginIInv, NEW p \in Procs, UseCluster(p) PROVE LoginIInv'
<1>1. UNCHANGED loginVars
  BY DEF UseCluster
<1>2. p \in Workers /\ (owner' = owner \/ owner' = Unasked \/ owner' = client[p])
  BY WorkersAssumption DEF UseCluster
<1>3. Unasked # "admin"
  BY LoginAssumption
<1>4. owner' \in Users \cup {Unasked}
  BY <1>2 DEF LoginIInv, LoginTypeOK
<1>5. LoginTypeOK' /\ KnowsTheWayBack' /\ OneAtATime'
  BY <1>1, <1>4 DEF LoginIInv, LoginTypeOK, KnowsTheWayBack, OneAtATime, loginVars
<1>6. ClientsAsMeant'
  BY <1>1, <1>2, <1>3 DEF LoginIInv, ClientsAsMeant, loginVars
<1> QED
  BY <1>5, <1>6 DEF LoginIInv

LEMMA LoginInductive == SharedSpec => []LoginIInv
<1>1. ASSUME LoginIInv, SharedNext PROVE LoginIInv'
  BY <1>1, LoginStepKeeps, ClusterStepKeeps, WorkersAssumption DEF SharedNext, LogIn
<1>2. ASSUME LoginIInv, UNCHANGED sharedVars PROVE LoginIInv'
  BY <1>2 DEF LoginIInv, LoginTypeOK, KnowsTheWayBack, OneAtATime, ClientsAsMeant, sharedVars,
              loginVars
<1> QED
  BY <1>1, <1>2, LoginInitially, PTL DEF SharedSpec

\* UserNeedsOneSwitchAtATime: unless two workers switch at once, a project
\* belongs to the ordinary user and, if no login is refused, the kubeconfig is
\* the admin's again once nobody is switching.
THEOREM SwitchesApartAreSafe == SharedSpec => []UserNeedsOneSwitchAtATime
<1>1. LoginIInv => UserNeedsOneSwitchAtATime
  <2> SUFFICES ASSUME LoginIInv PROVE UserNeedsOneSwitchAtATime
    OBVIOUS
  <2>1. owner = "admin" => mode = "off" \/ together
    BY DEF LoginIInv, ClientsAsMeant
  <2>2. ~together /\ refused = 0 /\ (\A w \in Workers : at[w] \notin Switching) => kubeconfig = "admin"
    BY DEF LoginIInv, OneAtATime
  <2>3. refused \in Nat
    BY DEF LoginIInv, LoginTypeOK
  <2> QED
    BY <2>1, <2>2, <2>3 DEF UserNeedsOneSwitchAtATime
<1> QED
  BY <1>1, LoginInductive, PTL
=============================================================================
