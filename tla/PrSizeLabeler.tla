--------------------------- MODULE PrSizeLabeler ---------------------------
(***************************************************************************)
(* The size label of a pull request: size-labeler.yml runs set_pr_size of  *)
(* pr_workflow.py on every push.  Its concurrency group keeps one run at a *)
(* time and cancels the one in progress when the next push arrives, at any *)
(* point between two of its REST calls.                                    *)
(***************************************************************************)
EXTENDS Naturals, Sequences, FiniteSets

CONSTANTS
    Sizes,     \* numbers of changed lines a push may leave the pull request with
    MaxPushes  \* bound: pushes in one behaviour

ASSUME SizesAssumption == Sizes # {} /\ Sizes \subseteq Nat
ASSUME PushesAssumption == MaxPushes \in Nat \ {0}

SizeNames == <<"xs", "s", "m", "l", "xl", "xxl">>
SizeLabels == {SizeNames[i] : i \in DOMAIN SizeNames}

\* Fault: an inclusive upper bound is read as exclusive.
GetSizeLabelExclusive(size) ==
    LET max == <<20, 50, 100, 300, 1000>>
        fits == {i \in DOMAIN max : size < max[i]}
    IN IF fits = {} THEN "xxl" ELSE SizeNames[CHOOSE i \in fits : \A j \in fits : i <= j]

\* size_labels: the first range, in the order of the dictionary, that holds size.
GetSizeLabel(size) ==
    LET range == <<<<0, 20>>, <<21, 50>>, <<51, 100>>, <<101, 300>>, <<301, 1000>>>>
        fits == {i \in DOMAIN range : range[i][1] <= size /\ size <= range[i][2]}
    IN IF fits = {} THEN "xxl" ELSE SizeNames[CHOOSE i \in fits : \A j \in fits : i <= j]

VARIABLES
    size,       \* additions and deletions of the pull request now
    sizeLabels, \* its size labels
    pushes,     \* pushes so far
    pending,    \* the concurrency group holds a run not started
    pc,         \* where the run in progress is
    todo,       \* labels of its snapshot it has not looked at
    chosen      \* the label it computed

sizeVars == <<size, sizeLabels, pushes, pending, pc, todo, chosen>>

SizeInit == /\ size \in Sizes /\ sizeLabels = {}
            /\ pushes = 1 /\ pending = TRUE
            /\ pc = "none" /\ todo = {} /\ chosen = "xs"

Push == /\ pushes < MaxPushes
        /\ size' \in Sizes
        /\ pushes' = pushes + 1 /\ pending' = TRUE
        /\ UNCHANGED <<sizeLabels, pc, todo, chosen>>

\* cancel-in-progress.
Cancel == /\ pending /\ pc # "none"
          /\ pc' = "none" /\ todo' = {}
          /\ UNCHANGED <<size, sizeLabels, pushes, pending, chosen>>

\* The run fetches the pull request with its labels ...
Start == /\ pending /\ pc = "none"
         /\ pending' = FALSE /\ pc' = "measure" /\ todo' = sizeLabels
         /\ UNCHANGED <<size, sizeLabels, pushes, chosen>>

\* ... and, in another request, the files: a push may come between the two.
Measure == /\ pc = "measure"
           /\ chosen' = GetSizeLabel(size) /\ pc' = "sweep"
           /\ UNCHANGED <<size, sizeLabels, pushes, pending, todo>>

\* The loop over the snapshot, in whatever order GitHub lists it.
AlreadySet == /\ pc = "sweep" /\ chosen \in todo
              /\ pc' = "none" /\ todo' = {}
              /\ UNCHANGED <<size, sizeLabels, pushes, pending, chosen>>

\* Fault: the old label stays.
RemoveOtherLeft ==
    /\ pc = "sweep"
    /\ \E l \in todo \ {chosen} : todo' = todo \ {l}
    /\ UNCHANGED <<size, sizeLabels, pushes, pending, pc, chosen>>

\* Fault: the loop looks at the label it has removed once more.
RemoveOtherAgain ==
    /\ pc = "sweep"
    /\ \E l \in todo \ {chosen} : sizeLabels' = sizeLabels \ {l}
    /\ UNCHANGED <<size, pushes, pending, pc, todo, chosen>>

RemoveOther ==
    /\ pc = "sweep"
    /\ \E l \in todo \ {chosen} : todo' = todo \ {l} /\ sizeLabels' = sizeLabels \ {l}
    /\ UNCHANGED <<size, pushes, pending, pc, chosen>>

AddLabel == /\ pc = "sweep" /\ todo = {}
            /\ sizeLabels' = sizeLabels \cup {chosen} /\ pc' = "none"
            /\ UNCHANGED <<size, pushes, pending, todo, chosen>>

SizeRun == Start \/ Measure \/ AlreadySet \/ RemoveOther \/ AddLabel

SizeNext == Push \/ Cancel \/ SizeRun

\* GitHub starts what is pending, after ending what is in progress, and lets a
\* run that is not cancelled go on; nobody has to push.
SizeSpec == SizeInit /\ [][SizeNext]_sizeVars /\ WF_sizeVars(Cancel) /\ WF_sizeVars(SizeRun)

-----------------------------------------------------------------------------
\* Type invariant; a run in its sweep holds only labels that are there, so that
\* remove_from_labels is never refused.
SizeTypeOK == /\ size \in Sizes /\ pushes \in 1..MaxPushes /\ pending \in BOOLEAN
              /\ sizeLabels \subseteq SizeLabels /\ chosen \in SizeLabels
              /\ pc \in {"none", "measure", "sweep"}
              /\ todo \subseteq sizeLabels

\* The thresholds a reader of the table expects: how many of them size exceeds.
Expected(n) == SizeNames[1 + Cardinality({m \in {20, 50, 100, 300, 1000} : n > m})]

\* A run killed between removing the old label and adding the new one leaves
\* none; no order of pushes and kills leaves two.
AtMostOneSizeLabel == Cardinality(sizeLabels) <= 1

\* When the pushes stop, the pull request ends with the one label of its size.
SettlesOnItsSize == <>[](sizeLabels = {Expected(size)})
=============================================================================
