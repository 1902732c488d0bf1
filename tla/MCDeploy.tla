------------------------------- MODULE MCDeploy --------------------------------
(* Deploy for TLC: two builds that differ by a migration, one of them followed *)
(* by a build that never gets ready, and keys that a deploy takes and refuses. *)
EXTENDS Deploy

MCKnows == [b \in Binary |-> IF b = 1 THEN 1 ELSE 2]
================================================================================
