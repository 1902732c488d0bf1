---------------------------- MODULE MCBracketPlay ----------------------------
(***************************************************************************)
(* BracketPlay on small fields.  Entrants are numbers and a seed order is  *)
(* 1..n: the operators never compare entrants but for equality, so every   *)
(* other order of n entrants is a renaming of this one.                    *)
(***************************************************************************)
EXTENDS Payout

CONSTANTS Fields   \* the field sizes a draw may have

MCOrders == {[i \in 1..n |-> i] : n \in Fields}
================================================================================
