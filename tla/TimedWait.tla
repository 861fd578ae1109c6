----------------------------- MODULE TimedWait -----------------------------
(***************************************************************************)
(* What a wait of the test suite promises its caller: it returns in a step *)
(* in which what it waits for holds, it gives up only when its time is     *)
(* over or something it cannot wait out has happened, and it ends.         *)
(***************************************************************************)
EXTENDS Naturals

VARIABLES
    state,    \* waiting, returned or gaveUp
    left,     \* the samples left
    held,     \* what is waited for holds now
    over      \* the time is over, or there is no use in waiting on

vars == <<state, left, held, over>>

Init == state = "waiting" /\ left \in Nat

Sample == state = "waiting" /\ left' < left /\ UNCHANGED state

Return == state = "waiting" /\ held /\ state' = "returned"

GiveUp == state = "waiting" /\ over /\ state' = "gaveUp"

Others == UNCHANGED <<state, left>>

Next == Sample \/ Return \/ GiveUp \/ Others

Spec == Init /\ [][Next]_vars /\ <>(state # "waiting")
=============================================================================
