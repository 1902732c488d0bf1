------------------------------ MODULE MCReplies ------------------------------
(***************************************************************************)
(* Replies for TLC.  The tournament starts somewhere on its way, with one  *)
(* or two entries of a field of two and with or without a bracket, and     *)
(* MaxBegun requests come, two at a time.                                  *)
(***************************************************************************)
EXTENDS Replies, TLC

CONSTANTS
  First, Second,   \* the players who may be in at the start
  MaxBegun         \* bound: the requests that ever come

VARIABLE begun
mcvars == <<all, begun>>

Symmetry == Permutations(Request)

StartField ==
  {[e \in 1..n |-> [player |-> <<First, Second>>[e], level |-> NoLevel, seed |-> NoSeed]] :
     n \in 1..2}

MCInit ==
  /\ status \in {"draft", "open", "live"} /\ deadline = MaxTime /\ winner = NoEntrant
  /\ \/ entrants \in StartField /\ matches = NoMatches /\ draw = 0
     \/ /\ status = "live"
        /\ entrants = [e \in 1..2 |-> [player |-> <<First, Second>>[e],
                                       level |-> NoLevel, seed |-> e]]
        /\ matches \in {Generate(<<1, 2>>), Reported(Generate(<<1, 2>>), <<1, 0>>, 1)}
        /\ draw = 1
  /\ entered = Cardinality(DOMAIN entrants)
  /\ ledger = {} /\ players = Player /\ now = 0
  /\ step = [r \in Request |-> "idle"] /\ call = [r \in Request |-> NoCall]
  /\ seen = [r \in Request |-> NoGuard] /\ plan = [r \in Request |-> NoPlan]
  /\ tail = [r \in Request |-> NoTail] /\ since = [r \in Request |-> "none"]
  /\ begun = 0

\* A request begins when it leaves idle and nothing was left of the last one.
Starts == {r \in Request : ~Running(r) /\ step'[r] # "idle"}

MCNext ==
  /\ RNext
  /\ begun' = begun + Cardinality(Starts)
  /\ begun' <= MaxBegun

MCSpec == MCInit /\ [][MCNext]_mcvars
================================================================================
