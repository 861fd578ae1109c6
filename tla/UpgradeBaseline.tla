-------------------------- MODULE UpgradeBaseline --------------------------
(***************************************************************************)
(* The ConfigMap in which the pre-upgrade fixtures of the model server     *)
(* tests keep what they saw of their InferenceServices, for the session    *)
(* after the upgrade: save_baseline_to_configmap of upgrade/utils.py, called *)
(* once by each capture_*_upgrade_baseline fixture.  The fixtures of one   *)
(* pytest process come one after the other, those of several pytest-xdist  *)
(* workers overlap.                                                        *)
(*                                                                         *)
(* A baseline is known by the writer that saves it.  The resourceVersion   *)
(* of the ConfigMap is the number of writes so far: an update carries the  *)
(* one it has read, and the API server refuses it with 409 when another    *)
(* write came in between.                                                  *)
(***************************************************************************)
EXTENDS Naturals, FiniteSets

CONSTANTS
    Writers,   \* the fixtures that save a baseline
    Attempts   \* rounds of the retry loop: 5 in the code

ASSUME WritersAssumption == IsFiniteSet(Writers)
ASSUME AttemptsAssumption == Attempts \in Nat \ {0}

VARIABLES
    namespace,  \* UPGRADE_NAMESPACE exists
    cm,         \* the writers with an entry; none: no ConfigMap
    version,    \* writes so far
    pc,         \* where a writer is
    tries,      \* rounds of its loop that ended in a conflict
    data,       \* existing_data: what it read first
    seen,       \* resourceVersion it read last
    split,      \* history: a writer put back data older than the version it gave
    deleted     \* history: the namespace went away

vars == <<namespace, cm, version, pc, tries, data, seen, split, deleted>>

Init ==
    /\ namespace = TRUE /\ cm = {} /\ version = 0
    /\ pc = [w \in Writers |-> "first"] /\ tries = [w \in Writers |-> 0]
    /\ data = [w \in Writers |-> {}] /\ seen = [w \in Writers |-> 0]
    /\ split = {} /\ deleted = FALSE

Goto(w, l) == pc' = [pc EXCEPT ![w] = l]

\* Fault: the next round sends the same dictionary once more.
ConflictNoReread(w) ==
    /\ tries' = [tries EXCEPT ![w] = @ + 1]
    /\ Goto(w, IF tries[w] + 1 = Attempts THEN "exhausted" ELSE "update")

\* Fault: one round too many.
ConflictOneMore(w) ==
    /\ tries' = [tries EXCEPT ![w] = @ + 1]
    /\ Goto(w, IF tries[w] = Attempts THEN "exhausted" ELSE "again")

\* Fault: a conflict is not counted, and the same dictionary is sent again.
ConflictUncounted(w) == Goto(w, "update") /\ UNCHANGED tries

\* The exception of a 409 starts the next round, up to the last.
Conflict(w) ==
    /\ tries' = [tries EXCEPT ![w] = @ + 1]
    /\ Goto(w, IF tries[w] + 1 = Attempts THEN "exhausted" ELSE "again")

\* cm.exists, before the loop and in each of its rounds.
Look(w) ==
    /\ pc[w] \in {"first", "again"}
    /\ Goto(w, CASE cm # {} /\ pc[w] = "first" -> "again"
                 [] cm # {} /\ pc[w] = "again" -> "read"
                 [] pc[w] = "first" -> "create first"
                 [] OTHER -> "create")
    /\ UNCHANGED <<namespace, cm, version, tries, data, seen, split, deleted>>

\* cm.deploy(): refused without the namespace, and with a 409 when another
\* writer was faster; before the loop nothing catches that.
Create(w) ==
    /\ pc[w] \in {"create first", "create"}
    /\ \/ /\ namespace /\ cm = {}
          /\ cm' = {w} /\ version' = version + 1
          /\ Goto(w, "done") /\ UNCHANGED tries
       \/ /\ cm # {} /\ pc[w] = "create"
          /\ Conflict(w) /\ UNCHANGED <<cm, version>>
       \/ /\ ~namespace \/ (cm # {} /\ pc[w] = "create first")
          /\ Goto(w, "failed") /\ UNCHANGED <<cm, version, tries>>
    /\ UNCHANGED <<namespace, data, seen, split, deleted>>

\* A read of a ConfigMap that is gone raises.
Gone(w) ==
    /\ pc[w] \in {"read", "read again", "update"} /\ cm = {}
    /\ Goto(w, "failed")
    /\ UNCHANGED <<namespace, cm, version, tries, data, seen, split, deleted>>

\* existing_data comes from one GET ...
Read(w) ==
    /\ pc[w] = "read" /\ cm # {}
    /\ data' = [data EXCEPT ![w] = cm]
    /\ seen' = [seen EXCEPT ![w] = version]
    /\ Goto(w, "read again")
    /\ UNCHANGED <<namespace, cm, version, tries, split, deleted>>

\* ... and resource_dict, with the resourceVersion, from the next: every use of
\* cm.instance asks the API server.
ReadAgain(w) ==
    /\ pc[w] = "read again" /\ cm # {}
    /\ split' = IF seen[w] = version THEN split \ {w} ELSE split \cup {w}
    /\ seen' = [seen EXCEPT ![w] = version]
    /\ Goto(w, "update")
    /\ UNCHANGED <<namespace, cm, version, tries, data, deleted>>

\* Fault: the dictionary is sent without its resourceVersion.
UpdateBlind(w) ==
    /\ pc[w] = "update" /\ cm # {}
    /\ cm' = data[w] \cup {w} /\ version' = version + 1
    /\ Goto(w, "done")
    /\ UNCHANGED <<namespace, tries, data, seen, split, deleted>>

Update(w) ==
    /\ pc[w] = "update" /\ cm # {}
    /\ IF seen[w] = version
       THEN /\ cm' = data[w] \cup {w} /\ version' = version + 1
            /\ Goto(w, "done") /\ UNCHANGED tries
       ELSE Conflict(w) /\ UNCHANGED <<cm, version>>
    /\ UNCHANGED <<namespace, data, seen, split, deleted>>

\* With --delete-pre-upgrade-resources the worker that made the namespace
\* deletes it when its own tests are over.
DeleteNamespace ==
    /\ namespace
    /\ namespace' = FALSE /\ cm' = {} /\ deleted' = TRUE
    /\ UNCHANGED <<version, pc, tries, data, seen, split>>

Step(w) == Look(w) \/ Create(w) \/ Gone(w) \/ Read(w) \/ ReadAgain(w) \/ Update(w)

Next == (\E w \in Writers : Step(w)) \/ DeleteNamespace

\* Each worker goes on with its fixtures; nobody has to delete anything.
Spec == Init /\ [][Next]_vars /\ \A w \in Writers : WF_vars(Step(w))

-----------------------------------------------------------------------------
Over == {"done", "failed", "exhausted"}
Labels == Over \cup {"first", "again", "create first", "create", "read", "read again", "update"}

\* Type invariant; a writer that has used up its rounds does nothing more.
TypeOK ==
    /\ namespace \in BOOLEAN /\ deleted \in BOOLEAN
    /\ cm \subseteq Writers /\ version \in Nat
    /\ pc \in [Writers -> Labels] /\ tries \in [Writers -> 0..Attempts]
    /\ data \in [Writers -> SUBSET Writers] /\ seen \in [Writers -> Nat]
    /\ split \subseteq Writers
    /\ \A w \in Writers : pc[w] = "exhausted" <=> tries[w] = Attempts

\* While the namespace stays, a baseline that was saved is lost only to a writer
\* whose two reads had a write between them: all other overlaps of creations,
\* updates and retries keep it.
LossNeedsSplitRead ==
    ~deleted /\ (\A v \in split : pc[v] # "done") =>
        \A w \in Writers : pc[w] = "done" => w \in cm

\* A writer gives up only after the one that created the ConfigMap and one more
\* for each of its rounds are done: with five rounds none of up to six gives up.
GivesUpAfterOthers ==
    \A w \in Writers : pc[w] = "exhausted" =>
        Cardinality({v \in Writers \ {w} : pc[v] = "done"}) > Attempts

\* The loop ends for every writer, whatever the others do.
EveryWriterEnds == \A w \in Writers : <>(pc[w] \in Over)

\* upgrade/utils.py: "Optimistic retry loop to avoid dropping entries if
\* concurrent writers update the same baseline ConfigMap around the same time."
NoEntryDropped ==
    ~deleted => \A w \in Writers : pc[w] = "done" => w \in cm
=============================================================================
