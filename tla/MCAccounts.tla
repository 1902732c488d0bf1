------------------------------ MODULE MCAccounts -------------------------------
(***************************************************************************)
(* Accounts for TLC.  Players and requests are interchangeable; the        *)
(* handles are Dave, dave and eve.                                         *)
(***************************************************************************)
EXTENDS Accounts, TLC

Symmetry == Permutations(Player) \cup Permutations(Request)
Handles  == {[name |-> "dave", upper |-> FALSE], [name |-> "dave", upper |-> TRUE],
             [name |-> "eve", upper |-> FALSE]}
================================================================================
