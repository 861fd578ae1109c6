---------------------------- MODULE DscOperator ----------------------------
(***************************************************************************)
(* The DataScienceCluster resource (DSC) and the operator that serves it,  *)
(* as the test suite sees them: a spec anybody may patch, and a status     *)
(* that follows it after a while.  The operator is not part of the         *)
(* repository; utilities/data_science_cluster_utils.py says what it may    *)
(* do: "DSC reports Ready=True immediately after a patch, before actual    *)
(* reconciliation begins".                                                 *)
(*                                                                         *)
(* Only the fields some fixture patches are modelled, each with the status *)
(* condition of its component.                                             *)
(***************************************************************************)
CONSTANTS
    Fields,    \* e.g. spec.components.kueue.managementState
    Values,    \* what a field may hold
    Removed,   \* the value that takes the component off the cluster
    Original   \* the spec the session found

ASSUME OriginalAssumption == Original \in [Fields -> Values]

VARIABLES
    spec,     \* the DSC's spec
    seen,     \* the spec the operator took up last
    busy,     \* it is still at work on it
    applied,  \* the spec the cluster embodied when it was last done
    ready,    \* status of the condition Ready
    cond,     \* status of each component's condition
    moved     \* lastTransitionTime of Ready differs from the noted baseline

operatorVars == <<seen, busy, applied, ready, cond, moved>>

Up(s) == [p \in Fields |-> s[p] # Removed]

OperatorInit ==
    /\ spec = Original /\ seen = Original /\ applied = Original
    /\ busy = FALSE /\ ready = TRUE /\ cond = Up(Original) /\ moved = FALSE

Settled == ~busy /\ seen = spec /\ ready

\* The operator takes up the spec: it works on what it read, even if another
\* patch comes meanwhile.
Observe ==
    /\ ~busy /\ seen # spec
    /\ seen' = spec /\ busy' = TRUE
    /\ UNCHANGED <<spec, applied, ready, cond, moved>>

\* It says that it is at work (it may be done before it comes to that).
ReportBusy ==
    /\ busy /\ ready
    /\ ready' = FALSE /\ moved' = TRUE
    /\ cond' = [p \in Fields |-> cond[p] /\ seen[p] = applied[p]]
    /\ UNCHANGED <<spec, seen, busy, applied>>

ReportDone ==
    /\ busy
    /\ busy' = FALSE /\ applied' = seen /\ cond' = Up(seen)
    /\ ready' = TRUE /\ moved' = (moved \/ ~ready)
    /\ UNCHANGED <<spec, seen>>

OperatorStep == Observe \/ ReportBusy \/ ReportDone

OperatorTypeOK ==
    /\ spec \in [Fields -> Values] /\ seen \in [Fields -> Values]
    /\ applied \in [Fields -> Values] /\ cond \in [Fields -> BOOLEAN]
    /\ busy \in BOOLEAN /\ ready \in BOOLEAN /\ moved \in BOOLEAN
=============================================================================
