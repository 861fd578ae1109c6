--------------------------- MODULE ClusterFixtures ---------------------------
(***************************************************************************)
(* The context managers and fixtures that put one resource of the cluster  *)
(* into the state their tests need and take it back afterwards, run by     *)
(* several pytest processes: xdist workers, two users of the same cluster, *)
(* or a session after one that was killed.  All name the same resource.    *)
(* Between any two calls of one process the others go on, a call may fail, *)
(* and a process may be killed.                                            *)
(***************************************************************************)
EXTENDS FiniteSets

CONSTANTS
    Procs,
    Kinds,   \* the kinds of fixture that are looked at
    Values,  \* what the fixtures write
    Data,    \* the value a process wants the resource to have
    Found,   \* the value of a resource that was there before all of them
    Absent,  \* there is no such resource
    Nothing  \* nothing to undo, or nothing backed up

ASSUME DataAssumption == Data \in [Procs -> Values]
ASSUME ValuesAssumption ==
    /\ Found \notin Values \cup {Absent, Nothing, "delete", "uninstall"}
    /\ Absent \notin Values \cup {Nothing, "delete", "uninstall"}
    /\ Nothing \notin Values \cup {"delete", "uninstall"}
    /\ {"delete", "uninstall"} \cap Values = {}

AllKinds ==
    {"object", "secret", "configmap", "gateway", "operator", "dsc", "namespace", "project"}

ASSUME KindsAssumption == Kinds \subseteq AllKinds

\* Fixtures that look whether the resource is there and use it if it is.
Looks(k) == k \in {"secret", "configmap", "gateway", "operator", "dsc"}

\* Those that change what they find, with a ResourceEditor.
Edits(k) == k \in {"configmap", "dsc"}

\* Those that wait for the resource before they yield.
Waits(k) == k \in {"secret", "gateway", "operator", "dsc", "namespace", "project"}

\* Of these, the ones whose wait is inside "with": when it fails the resource
\* is taken back.  The others wait in __enter__ or before the yield.
WaitIsGuarded(k) == k \in {"gateway", "dsc", "namespace"}

\* An exception at the yield takes the resource back.
BodyIsGuarded(k) == k \notin {"operator", "project"}

VARIABLES
    kind,
    found,    \* the resource before all of them
    there,    \* the resource
    pc,
    undo,     \* what a process has to take back: it deletes, uninstalls or restores
    backup,   \* what an editor has read
    crossed,  \* history: an editor restores what another process wrote
    broken    \* history: those whose call to write had no answer, or whose clean-up failed

vars == <<kind, found, there, pc, undo, backup, crossed, broken>>

Start == {"start"}
Active == {"create", "edit", "patch", "wait", "using", "leave"}
Ends == {"done", "failed", "killed"}

Init ==
    /\ kind \in Kinds /\ found \in {Absent, Found} /\ (kind = "dsc" => found = Found)
    /\ there = found
    /\ pc = [p \in Procs |-> "start"] /\ undo = [p \in Procs |-> Nothing]
    /\ backup = [p \in Procs |-> Nothing] /\ crossed = FALSE /\ broken = {}

Goto(p, to) == pc' = [pc EXCEPT ![p] = to]

-----------------------------------------------------------------------------
(* Set up.                                                                 *)

\* Fault: whoever uses the secret takes it for its own.
AdoptAsOwn(p) ==
    undo' = [undo EXCEPT ![p] = IF kind \in {"operator", "secret"} THEN "delete" ELSE Nothing]

\* The resource is there: it is waited for or used; the operator is
\* uninstalled in the end whoever installed it.
Adopt(p) == undo' = [undo EXCEPT ![p] = IF kind = "operator" THEN "uninstall" ELSE Nothing]

Look(p) ==
    /\ pc[p] = "start" /\ Looks(kind)
    /\ IF there = Absent
       THEN \/ Goto(p, "create") /\ UNCHANGED undo
            \/ kind = "gateway" /\ Goto(p, "failed") /\ UNCHANGED undo  \* disconnected
       ELSE IF Edits(kind)
       THEN /\ Goto(p, IF kind = "dsc" /\ there = Data[p] THEN "using" ELSE "edit")
            /\ UNCHANGED undo
       ELSE Adopt(p) /\ Goto(p, IF kind = "gateway" THEN "wait" ELSE "using")
    /\ UNCHANGED <<kind, found, there, backup, crossed, broken>>

\* The others create at once.
Begin(p) ==
    /\ pc[p] = "start" /\ ~Looks(kind) /\ Goto(p, "create")
    /\ UNCHANGED <<kind, found, there, undo, backup, crossed, broken>>

\* From then on "with" deletes the resource; a ProjectRequest is deleted by
\* the lines after the yield, the operator is uninstalled there.
Owes == IF kind = "operator" THEN "uninstall" ELSE "delete"

\* Fault: a conflict counts as created.
CreateAnyhow(p) ==
    /\ pc[p] = "create" /\ there' = Data[p]
    /\ undo' = [undo EXCEPT ![p] = Owes] /\ Goto(p, IF Waits(kind) THEN "wait" ELSE "using")
    /\ UNCHANGED <<kind, found, backup, crossed, broken>>

Create(p) ==
    /\ pc[p] = "create" /\ there = Absent
    /\ there' = Data[p] /\ undo' = [undo EXCEPT ![p] = Owes]
    /\ Goto(p, IF Waits(kind) THEN "wait" ELSE "using")
    /\ UNCHANGED <<kind, found, backup, crossed, broken>>

\* The API server answers 409, or refuses.
CreateFails(p) ==
    /\ pc[p] = "create" /\ Goto(p, "failed")
    /\ UNCHANGED <<kind, found, there, undo, backup, crossed, broken>>

\* It creates the resource, and the answer is lost: the exception comes before
\* "with" guards anything.
CreateUnanswered(p) ==
    /\ pc[p] = "create" /\ there = Absent
    /\ there' = Data[p] /\ undo' = [undo EXCEPT ![p] = Owes]
    /\ broken' = broken \cup {p} /\ Goto(p, "failed")
    /\ UNCHANGED <<kind, found, backup, crossed>>

\* ResourceEditor: what is there is backed up if the patch changes it.
BackUp(p) ==
    /\ pc[p] = "edit"
    /\ IF there = Absent THEN Goto(p, "failed") /\ UNCHANGED backup
       ELSE /\ backup' = [backup EXCEPT ![p] = IF there = Data[p] THEN Nothing ELSE there]
            /\ Goto(p, "patch")
    /\ UNCHANGED <<kind, found, there, undo, crossed, broken>>

Patch(p) ==
    /\ pc[p] = "patch"
    /\ IF backup[p] = Nothing
       THEN Goto(p, IF Waits(kind) THEN "wait" ELSE "using") /\ UNCHANGED <<there, undo>>
       ELSE IF there = Absent
       THEN Goto(p, "failed") /\ UNCHANGED <<there, undo>>
       ELSE /\ there' = Data[p] /\ undo' = [undo EXCEPT ![p] = backup[p]]
            /\ Goto(p, IF Waits(kind) THEN "wait" ELSE "using")
    /\ UNCHANGED <<kind, found, backup, crossed, broken>>

PatchFails(p) ==
    /\ pc[p] = "patch" /\ backup[p] # Nothing /\ Goto(p, "failed")
    /\ UNCHANGED <<kind, found, there, undo, backup, crossed, broken>>

\* The editor has written and does not know it.
PatchUnanswered(p) ==
    /\ pc[p] = "patch" /\ backup[p] # Nothing /\ there # Absent
    /\ there' = Data[p] /\ undo' = [undo EXCEPT ![p] = backup[p]]
    /\ broken' = broken \cup {p} /\ Goto(p, "failed")
    /\ UNCHANGED <<kind, found, backup, crossed>>

WaitEnds(p) ==
    /\ pc[p] = "wait" /\ Goto(p, "using")
    /\ UNCHANGED <<kind, found, there, undo, backup, crossed, broken>>

\* Fault: the exception passes the resource by.
WaitFailsBare(p) ==
    /\ pc[p] = "wait" /\ Goto(p, "failed")
    /\ UNCHANGED <<kind, found, there, undo, backup, crossed, broken>>

\* The wait times out, or setting the labels of the project fails.
WaitFails(p) ==
    /\ pc[p] = "wait" /\ Goto(p, IF WaitIsGuarded(kind) THEN "leave" ELSE "failed")
    /\ UNCHANGED <<kind, found, there, undo, backup, crossed, broken>>

-----------------------------------------------------------------------------
(* Use and clean-up.                                                       *)

BodyEnds(p) ==
    /\ pc[p] = "using" /\ Goto(p, "leave")
    /\ UNCHANGED <<kind, found, there, undo, backup, crossed, broken>>

\* Something else set up in the same fixture fails: the exception arrives at
\* the yield.
BodyFails(p) ==
    /\ pc[p] = "using" /\ kind # "operator"
    /\ Goto(p, IF BodyIsGuarded(kind) THEN "leave" ELSE "failed")
    /\ UNCHANGED <<kind, found, there, undo, backup, crossed, broken>>

\* clean_up succeeds when the resource has gone already; an editor needs it.
Leave(p) ==
    /\ pc[p] = "leave"
    /\ undo' = [undo EXCEPT ![p] = Nothing]
    /\ there' = IF undo[p] \in {"delete", "uninstall"} THEN Absent
                ELSE IF undo[p] = Nothing \/ there = Absent THEN there
                ELSE undo[p]
    /\ crossed' = (crossed \/ there' \in Values \cap {undo[p]})
    /\ Goto(p, IF there = Absent /\ undo[p] \in Values \cup {Found} THEN "failed" ELSE "done")
    /\ UNCHANGED <<kind, found, backup, broken>>

\* The clean-up is refused, or is not over in time; that of a project is not even
\* tried when its serverless pods stay.  A deletion that is over later is a Leave.
LeaveFails(p) ==
    /\ pc[p] = "leave" /\ undo[p] # Nothing /\ Goto(p, "failed")
    /\ broken' = broken \cup {p}
    /\ UNCHANGED <<kind, found, there, undo, backup, crossed>>

Kill(p) ==
    /\ pc[p] \in Active /\ Goto(p, "killed")
    /\ UNCHANGED <<kind, found, there, undo, backup, crossed, broken>>

Step(p) ==
    \/ Look(p) \/ Begin(p) \/ Create(p) \/ CreateFails(p) \/ CreateUnanswered(p) \/ BackUp(p)
    \/ Patch(p) \/ PatchFails(p) \/ PatchUnanswered(p) \/ WaitEnds(p) \/ WaitFails(p) \/ BodyEnds(p) \/ BodyFails(p)
    \/ Leave(p) \/ LeaveFails(p)

Next == \E p \in Procs : Step(p) \/ Kill(p)

Spec == Init /\ [][Next]_vars

-----------------------------------------------------------------------------
(* Properties.                                                             *)

TypeOK ==
    /\ kind \in Kinds /\ found \in {Absent, Found} /\ there \in Values \cup {Absent, Found}
    /\ pc \in [Procs -> Start \cup Active \cup Ends]
    /\ undo \in [Procs -> Values \cup {Nothing, Found, "delete", "uninstall"}]
    /\ backup \in [Procs -> Values \cup {Nothing, Found}]
    /\ crossed \in BOOLEAN /\ broken \subseteq Procs

AtRest == \A p \in Procs : pc[p] \in Start \cup Ends

\* A process ended and what it had to take back is still to be taken back: it was
\* killed, the API server did not answer it or its clean-up failed, or it failed
\* where nothing guards the resource.
Owing(p) ==
    /\ undo[p] # Nothing
    /\ \/ pc[p] = "killed"
       \/ pc[p] = "failed" /\ (p \in broken \/ kind \in {"secret", "operator", "project"})

\* When every process has ended the resource is as it was found, unless one of
\* them owes its clean-up for one of these causes, unless two editors that found
\* the resource crossed, and unless the operator was found, which
\* installed_mariadb_operator uninstalls all the same.
LeftoverNeedsCause ==
    AtRest /\ there # found =>
        \/ \E p \in Procs : Owing(p)
        \/ crossed /\ found = Found
        \/ kind = "operator" /\ found = Found

\* At most one process is about to delete the resource, the one that created
\* it, and until it does nobody takes the resource away under its tests.
CreatorKeepsIt ==
    \A p \in Procs : undo[p] = "delete" =>
        there # Absent /\ \A q \in Procs : undo[q] = "delete" => q = p

\* What was found is never removed, except by the fixture of the operator.
FoundIsNotRemoved ==
    [][(there \in {found} \ {Absent} /\ there' = Absent) => kind = "operator"]_vars
=============================================================================
