------------------------------ MODULE BracketPlay ------------------------------
(***************************************************************************)
(* What a tournament's bracket promises: every operation on it happens in  *)
(* one piece, on the bracket as it is at that instant.  The service reads  *)
(* the bracket, computes, and writes back in another statement; Tournament *)
(* models those steps and is checked to implement this module.             *)
(*                                                                         *)
(* seeds is the seed order the entrant rows hold, <<>> when no row has a   *)
(* seed; matches is the bracket the match rows hold.                       *)
(***************************************************************************)
EXTENDS Bracket, FiniteSets

CONSTANTS
  Entrant,   \* the entrants a seed order may name
  Orders     \* the seed orders a draw may use

ASSUME EntrantAssumption == NoEntrant \notin Entrant
ASSUME OrdersAssumption  ==
  \A o \in Orders :
    /\ o \in Seq(Entrant) /\ Len(o) \in 2..MaxEntrants
    /\ \A i, j \in 1..Len(o) : o[i] = o[j] => i = j

VARIABLES seeds, matches
vars == <<seeds, matches>>

Init == seeds = <<>> /\ matches = NoMatches

\* generate_bracket and reorder_seeds: a new draw, while no result was entered.
Draw(order) ==
  /\ ~HasResults(matches)
  /\ seeds' = order
  /\ matches' = Generate(order)

\* delete_bracket: the matches and the seeds go, while no result was entered.
DeleteBracket ==
  /\ ~HasResults(matches)
  /\ seeds' = <<>>
  /\ matches' = NoMatches

ReportResult(p, w) ==
  /\ CanReport(matches, p, w)
  /\ matches' = Reported(matches, p, w)
  /\ UNCHANGED seeds

ClearResult(p) ==
  /\ CanClear(matches, p)
  /\ matches' = Cleared(matches, p)
  /\ UNCHANGED seeds

\* The tournament is deleted, and its matches and entrants with it.
Delete == seeds' = <<>> /\ matches' = NoMatches

Next ==
  \/ \E order \in Orders : Draw(order)
  \/ DeleteBracket
  \/ \E p \in DOMAIN matches :
       \/ \E w \in {matches[p].a, matches[p].b} : ReportResult(p, w)
       \/ ClearResult(p)
  \/ Delete

Spec == Init /\ [][Next]_vars

--------------------------------------------------------------------------------
\* Type invariant: the match rows form a function from positions to matches.
TypeOK ==
  /\ seeds \in {<<>>} \cup Orders
  /\ DOMAIN matches \subseteq Position
  /\ matches \in [DOMAIN matches -> Match(Entrant)]

\* Result propagation (Bracket::feed, called by generate, report and clear): at
\* every instant the side of a match is the winner of the match that feeds it,
\* and is empty exactly while that match is undecided.
FeedsAgree ==
  \A p \in DOMAIN matches :
    NextMatch(p) \in DOMAIN matches =>
      LET next == matches[NextMatch(p)]
      IN  (IF FeedsSideA(p) THEN next.a ELSE next.b) = matches[p].winner

\* A winner sits in its match, and only a bye of round one is decided with an
\* empty side: no result survives the removal of one of its players.
WinnersSit ==
  \A p \in DOMAIN matches :
    LET m == matches[p]
    IN  m.winner # NoEntrant =>
          /\ m.winner \in {m.a, m.b}
          /\ IsReady(m) \/ p[1] = 1

\* Nobody meets themselves and nobody plays two matches of one round, whatever
\* results were entered, corrected and removed on the way.
OncePerRound ==
  \A p, q \in DOMAIN matches :
    LET Sides(m) == {m.a, m.b} \ {NoEntrant}
    IN  /\ matches[p].a = matches[p].b => matches[p].a = NoEntrant
        /\ p[1] = q[1] /\ p # q => Sides(matches[p]) \cap Sides(matches[q]) = {}

\* A bracket can always be played to its end: without a champion some match is
\* ready, undecided and accepts a result (Bracket::report refuses nothing there).
NeverStuck ==
  matches # NoMatches /\ Champion(matches) = NoEntrant =>
    \E p \in DOMAIN matches :
      matches[p].winner = NoEntrant /\ CanReport(matches, p, matches[p].a)

\* Every bracket the program writes is one from_matches accepts when it reads it
\* back, so no tournament is locked out of its own bracket.
ReadsBack == matches # NoMatches => WellFormed(DOMAIN matches)

\* Round one seats every seeded entrant, and the byes go to the top seeds.
SeedsSeated ==
  LET first == {p \in DOMAIN matches : p[1] = 1}
      byes  == {p \in first : ~IsReady(matches[p])}
      Sits(p) == {matches[p].a, matches[p].b} \ {NoEntrant}
  IN  /\ UNION {Sits(p) : p \in first} = {seeds[i] : i \in DOMAIN seeds}
      /\ UNION {Sits(p) : p \in byes} = {seeds[i] : i \in 1..Cardinality(byes)}

\* A played match that the next one was decided on is settled: while the bracket
\* stands, no step changes it before the next match is cleared.
DecidedPathSettled ==
  [][matches' # NoMatches =>
       \A p \in DOMAIN matches :
         (NextMatch(p) \in DOMAIN matches
            /\ matches[NextMatch(p)].winner # NoEntrant)
         => /\ p \in DOMAIN matches'
            /\ matches'[p] = matches[p]]_vars
================================================================================
