---------------------------- MODULE MCMustGather ----------------------------
(* Two tests of one name in two classes of a file, as in                   *)
(* test_route_visibility.py, and one whose directory is another's, their   *)
(* parameters differing in a space only.                                   *)
EXTENDS MustGather

MCItems == {"exposed", "hidden", "spaced"}
MCNameOf == [exposed |-> "route", hidden |-> "route", spaced |-> "other"]
MCPlaceOf == [exposed |-> "a", hidden |-> "b", spaced |-> "b"]
=============================================================================
