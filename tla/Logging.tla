------------------------------- MODULE Logging -------------------------------
(***************************************************************************)
(* logger.py in one process: setup_logging takes the handlers of every     *)
(* logger there is away and gives it the queue's, addHandler is patched    *)
(* for the loggers to come, and a listener thread writes what is in the    *)
(* queue to the file until it is stopped.  A record goes to the handlers   *)
(* of its logger and, as long as they propagate, of those above it; a      *)
(* filter is only asked at the logger the record was made at.  Libraries   *)
(* make loggers, and give them handlers, at any time.                      *)
(*                                                                         *)
(* The queue is one between processes: a record is pickled with its values *)
(* as they are, since prepare does not format it.  One that cannot be      *)
(* pickled never gets into the queue; one that can but cannot be loaded    *)
(* again, as with a RedactedString among its values, ends the listener     *)
(* thread with an exception.                                               *)
(***************************************************************************)
EXTENDS Naturals, Sequences, FiniteSets

CONSTANTS
    Loggers, Root, Basic,  \* Basic: the logger of the banners
    Chain,       \* a logger and those above it, up to Root
    Messages,
    Unpicklable, \* messages with a value that cannot be pickled,
    Unloadable,  \* or not be loaded again
    MaxRecords   \* bound: records in one behaviour

ASSUME LoggersAssumption ==
    /\ {Root, Basic} \subseteq Loggers /\ Chain \in [Loggers -> Seq(Loggers)]
    /\ \A l \in Loggers : \A i \in 1..Len(Chain[l]) : Chain[l][i] = Root <=> i = Len(Chain[l])
    /\ \A l \in Loggers : Chain[l] # <<>>
    /\ Unpicklable \subseteq Messages /\ Unloadable \subseteq Messages \ Unpicklable
    /\ MaxRecords \in Nat

VARIABLES
    exists,     \* loggers made so far
    handlers,   \* of a logger: the queue's, or others
    propagate,
    patched,    \* addHandler is ours
    msgs,       \* what the DuplicateFilter of the root has seen
    queue,      \* records, and a 0 where the listener is to stop
    listener,
    made,       \* records so far
    written,    \* how often a record is in the file
    fatal,      \* records in the queue that cannot be loaded
    dropped,    \* history: records the filter dropped, or that were not pickled
    late,       \* history: records made after the listener was told to stop
    stubborn,   \* history: loggers a library gave a handler after the setup ...
    doubled     \* history: ... and records that went up from there

logVars == <<exists, handlers, propagate, patched, msgs, queue, listener, made, written, fatal,
             dropped, late, stubborn, doubled>>

LogInit ==
    /\ exists = {Root} /\ handlers = [l \in Loggers |-> {}] /\ propagate = [l \in Loggers |-> TRUE]
    /\ patched = FALSE /\ msgs = {} /\ queue = <<>> /\ listener = "none"
    /\ made = 0 /\ written = [i \in 1..MaxRecords |-> 0]
    /\ fatal = {} /\ dropped = {} /\ late = {} /\ stubborn = {} /\ doubled = {}

\* Fault: the loggers there are keep handing their records up.
TakeOverPropagating ==
    /\ handlers' = [l \in Loggers |-> IF l \in exists \cup {Basic} THEN {"queue"} ELSE handlers[l]]
    /\ propagate' = [propagate EXCEPT ![Basic] = FALSE]

\* The loggers there are, the root and "basic".
TakeOver ==
    /\ handlers' = [l \in Loggers |-> IF l \in exists \cup {Basic} THEN {"queue"} ELSE handlers[l]]
    /\ propagate' = [l \in Loggers |-> l \notin (exists \ {Root}) \cup {Basic} /\ propagate[l]]

SetupLogging ==
    /\ listener = "none" /\ listener' = "on" /\ patched' = TRUE
    /\ TakeOver /\ exists' = exists \cup {Basic}
    /\ UNCHANGED <<msgs, queue, made, written, fatal, dropped, late, stubborn, doubled>>

MakeLogger(l) ==
    /\ l \notin exists /\ exists' = exists \cup {l}
    /\ UNCHANGED <<handlers, propagate, patched, msgs, queue, listener, made, written, fatal,
                   dropped, late, stubborn, doubled>>

\* _patched: the queue's handler instead, unless the logger has it.
HandlersWith(l) == handlers[l] \cup {IF patched THEN "queue" ELSE "own"}

\* A library gives a logger a handler, and may stop it from propagating.
AddHandler(l) ==
    /\ l \in exists \ {Root, Basic} /\ handlers' = [handlers EXCEPT ![l] = HandlersWith(l)]
    /\ \E up \in {propagate[l], FALSE} : propagate' = [propagate EXCEPT ![l] = up]
    /\ stubborn' = IF patched THEN stubborn \cup {l} ELSE stubborn
    /\ UNCHANGED <<exists, patched, msgs, queue, listener, made, written, fatal, dropped, late,
                   doubled>>

\* Logger.callHandlers.
Reached(l) ==
    {Chain[l][i] : i \in {j \in 1..Len(Chain[l]) : \A k \in 1..(j - 1) : propagate[Chain[l][k]]}}

\* A record after the setup; the root's filter has seen the message or not.
Log(l, m) ==
    /\ l \in exists /\ listener # "none" /\ made < MaxRecords /\ made' = made + 1
    /\ LET heard == {k \in Reached(l) : "queue" \in handlers[k]}
           drop == m \in Unpicklable \/ (l = Root /\ m \in msgs)
       IN /\ queue' = IF drop THEN queue ELSE queue \o [k \in 1..Cardinality(heard) |-> made + 1]
          /\ dropped' = IF drop THEN dropped \cup {made + 1} ELSE dropped
          /\ fatal' = IF ~drop /\ m \in Unloadable THEN fatal \cup {made + 1} ELSE fatal
          /\ doubled' = IF \E k \in Reached(l) : k \in stubborn /\ propagate[k]
                        THEN doubled \cup {made + 1} ELSE doubled
    /\ msgs' = IF l = Root THEN msgs \cup {m} ELSE msgs
    /\ late' = IF listener \in {"on", "dead"} THEN late ELSE late \cup {made + 1}
    /\ UNCHANGED <<exists, handlers, propagate, patched, listener, written, stubborn>>

\* The listener thread.
Write ==
    /\ listener \in {"on", "stopping"} /\ queue # <<>> /\ queue' = Tail(queue)
    /\ \/ Head(queue) = 0 /\ listener' = "stopped" /\ UNCHANGED written
       \/ Head(queue) \in fatal /\ listener' = "dead" /\ UNCHANGED written
       \/ /\ Head(queue) \notin fatal \cup {0}
          /\ written' = [written EXCEPT ![Head(queue)] = @ + 1] /\ UNCHANGED listener
    /\ UNCHANGED <<exists, handlers, propagate, patched, msgs, made, fatal, dropped, late, stubborn,
                   doubled>>

\* log_listener.stop() waits for the thread to end; other threads do not.
StopListener ==
    /\ \/ listener = "on" /\ listener' = "stopping"
       \/ listener = "dead" /\ UNCHANGED listener
    /\ queue' = Append(queue, 0)
    /\ UNCHANGED <<exists, handlers, propagate, patched, msgs, made, written, fatal, dropped, late,
                   stubborn, doubled>>

LogStep ==
    \/ \E l \in Loggers : MakeLogger(l) \/ AddHandler(l) \/ \E m \in Messages : Log(l, m)
    \/ Write
=============================================================================
