-------------------------------- MODULE MCDoors --------------------------------
(***************************************************************************)
(* Doors for TLC.  Players, events and requests are interchangeable.       *)
(***************************************************************************)
EXTENDS Doors, TLC

Symmetry  == Permutations(Player) \cup Permutations(Event) \cup Permutations(Request)
AmountSet == {-150}
================================================================================
