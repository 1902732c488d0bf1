-------------------------------- MODULE Bracket --------------------------------
(***************************************************************************)
(* Single elimination brackets as pure data and rules: the operators of    *)
(* crates/bunker-models/src/bracket.rs.                                    *)
(*                                                                         *)
(* A bracket is a function from positions <<round, slot>> to matches, as   *)
(* the unique index on (tournament_id, round, slot) makes it.  The bracket *)
(* a tournament does not have is NoMatches, the empty function.  Match ids *)
(* are not part of a bracket: the matches of one draw are told apart by    *)
(* their position, and Tournament numbers the draws.                       *)
(***************************************************************************)
EXTENDS Integers, Sequences

CONSTANTS
  NoEntrant,   \* the empty side of a match, the winner of an undecided one
  MaxEntrants  \* MAX_ENTRANTS: the largest field a bracket takes

ASSUME MaxEntrantsAssumption == MaxEntrants \in 2..256

Match(Entrant) ==
  [a : Entrant \cup {NoEntrant}, b : Entrant \cup {NoEntrant},
   winner : Entrant \cup {NoEntrant}]

EmptyMatch == [a |-> NoEntrant, b |-> NoEntrant, winner |-> NoEntrant]
NoMatches  == [p \in {} |-> EmptyMatch]

IsReady(m)  == m.a # NoEntrant /\ m.b # NoEntrant
IsPlayed(m) == IsReady(m) /\ m.winner # NoEntrant

(***************************************************************************)
(* The shape: round r of a bracket of k rounds has Pow2[k-r] slots.  The    *)
(* table of powers ends at the 256 entrants of the largest field.          *)
(***************************************************************************)
Pow2 == [i \in 0..8 |-> <<1, 2, 4, 8, 16, 32, 64, 128, 256>>[i + 1]]

RoundCount(n)   == CHOOSE k \in 1..8 : Pow2[k-1] < n /\ n <= Pow2[k]
\* Bugs of the shape: rounds counted from zero, and a bracket without its final.
PositionsFromZero(k) == UNION {{r - 1} \X (0 .. Pow2[k-r] - 1) : r \in 1..k}
PositionsShort(k)    == UNION {{r} \X (0 .. Pow2[k-r] - 1) : r \in 1..k-1}

Positions(k)    == UNION {{r} \X (0 .. Pow2[k-r] - 1) : r \in 1..k}
Position        == (1..8) \X (0..127)
NextMatch(p)    == <<p[1] + 1, p[2] \div 2>>
\* A bug: every match feeds side a.
AlwaysSideA(p) == p \in Nat \X Nat

FeedsSideA(p)   == p[2] % 2 = 0

\* What from_matches accepts: rounds 1 to k without a gap, slots from 0 without
\* a gap, each round twice the size of the one after, one final.
WellFormed(D) ==
  LET Slots(r) == {p[2] : p \in {q \in D : q[1] = r}}
  IN  \E k \in 1..8 :
        /\ {p[1] : p \in D} = 1..k
        /\ \A r \in 1..k : Slots(r) = 0 .. Pow2[k-r] - 1

(***************************************************************************)
(* Bracket::generate.  The missing entrants are byes and go to the first   *)
(* slots, one per match: a slot below `byes' takes one entrant of the seed *)
(* order, every other slot takes the next two.                             *)
(***************************************************************************)
\* Bugs of the draw: the pairs overlap, and the byes go to the last slots.
FirstRoundOverlap(order, byes, s) ==
  IF s < byes
  THEN [a |-> order[s + 1], b |-> NoEntrant, winner |-> order[s + 1]]
  ELSE [a |-> order[s + 1], b |-> order[s + 2], winner |-> NoEntrant]

ByesLast(order, byes, s) ==
  LET played == (Len(order) - byes) \div 2
  IN  IF s < played
      THEN [a |-> order[2*s + 1], b |-> order[2*s + 2], winner |-> NoEntrant]
      ELSE [a |-> order[s + played + 1], b |-> NoEntrant, winner |-> order[s + played + 1]]

FirstRoundMatch(order, byes, s) ==
  IF s < byes
  THEN [a |-> order[s + 1], b |-> NoEntrant, winner |-> order[s + 1]]
  ELSE [a |-> order[2*s - byes + 1], b |-> order[2*s - byes + 2],
        winner |-> NoEntrant]

SecondRoundMatch(order, byes, s) ==
  [a      |-> FirstRoundMatch(order, byes, 2*s).winner,
   b      |-> FirstRoundMatch(order, byes, 2*s + 1).winner,
   winner |-> NoEntrant]

Generate(order) ==
  LET k    == RoundCount(Len(order))
      byes == Pow2[k] - Len(order)
  IN  [p \in Positions(k) |->
         CASE p[1] = 1 -> FirstRoundMatch(order, byes, p[2])
           [] p[1] = 2 -> SecondRoundMatch(order, byes, p[2])
           [] OTHER    -> EmptyMatch]

(***************************************************************************)
(* Results.  `report' and `clear' share the shape: guards on the match and *)
(* on the match after it, then the winner of the match and the side it     *)
(* feeds are written together.                                             *)
(***************************************************************************)
HasResults(B) == \E p \in DOMAIN B : IsPlayed(B[p])

FinalOf(B)  == CHOOSE p \in DOMAIN B : NextMatch(p) \notin DOMAIN B
Champion(B) == B[FinalOf(B)].winner

\* A bug: a result is taken whatever was decided on it.
AnyTime(B, p) == p \in DOMAIN B

NextUndecided(B, p) ==
  NextMatch(p) \in DOMAIN B => B[NextMatch(p)].winner = NoEntrant

Feed(B, p, e) ==
  [q \in DOMAIN B |->
     IF q # NextMatch(p) THEN B[q]
     ELSE IF FeedsSideA(p) THEN [B[q] EXCEPT !.a = e]
                           ELSE [B[q] EXCEPT !.b = e]]

CanReport(B, p, w) ==
  /\ p \in DOMAIN B
  /\ IsReady(B[p])
  /\ w \in {B[p].a, B[p].b}
  /\ NextUndecided(B, p)

Reported(B, p, w) == Feed([B EXCEPT ![p].winner = w], p, w)

CanClear(B, p) ==
  /\ p \in DOMAIN B
  /\ IsPlayed(B[p])
  /\ NextUndecided(B, p)

\* A bug: the side the match fed keeps the player.
ClearedAlone(B, p) == [B EXCEPT ![p].winner = NoEntrant]

Cleared(B, p) == Feed([B EXCEPT ![p].winner = NoEntrant], p, NoEntrant)

\* The rows a result touches: the match and the one it feeds.
Changed(B, p) == {p, NextMatch(p)} \cap DOMAIN B
================================================================================
