------------------------------ MODULE MCProfile ------------------------------
(***************************************************************************)
(* Profile for TLC: the owner 1 has met 2 in two tournaments that are over *)
(* and 3 in a third, and in one to come waits with a bye for the winner of *)
(* 2 and 3.  Days and moments of creation disagree on what is newest.      *)
(***************************************************************************)
EXTENDS Profile

MCTour        == 1..4
MCSeedOrder   == <<<<1, 2>>, <<1, 2>>, <<1, 3>>, <<1, 2, 3>>>>
MCCreatedAt   == <<9, 1, 5, 6>>
MCDay         == <<1, 3, 3, 2>>
MCHandleOrder == <<1, 2, 3>>
MCQueries     == {[page |-> 1, size |-> 10], [page |-> 2, size |-> 2]}
================================================================================
