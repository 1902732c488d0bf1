---------------------------- MODULE MCTournament ----------------------------
(***************************************************************************)
(* Tournament for TLC.  Players and requests are interchangeable.          *)
(*                                                                         *)
(* LiveSpec starts where registration ends: the tournament is live, every  *)
(* player has an entry without a level, and no bracket was drawn.          *)
(***************************************************************************)
EXTENDS Tournament, TLC

Symmetry == Permutations(Player) \cup Permutations(Request)

LiveInit ==
  /\ status = "live" /\ deadline = 0 /\ winner = NoEntrant
  /\ entrants \in {f \in [1..Cardinality(Player) ->
                         [player : Player, level : {NoLevel}, seed : {NoSeed}]] :
                    \A i, j \in DOMAIN f : f[i].player = f[j].player => i = j}
  /\ entered = Cardinality(Player)
  /\ matches = NoMatches /\ draw = 0
  /\ ledger = {} /\ players = Player /\ now = 0
  /\ step = [r \in Request |-> "idle"] /\ call = [r \in Request |-> NoCall]
  /\ seen = [r \in Request |-> NoGuard] /\ plan = [r \in Request |-> NoPlan]

LiveSpec == LiveInit /\ [][Next]_vars

\* A bound: the clock is about registration, and a bracket ends that.
ClockBeforeTheDraw == now > 0 => draw = 0
================================================================================
