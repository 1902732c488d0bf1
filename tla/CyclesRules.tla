----------------------------- MODULE CyclesRules -----------------------------
(***************************************************************************)
(* What pays cycles, how many, and the ladder they climb: the pure rules   *)
(* of crates/bunker-models/src/points.rs.                                  *)
(*                                                                         *)
(* An award names a player, a kind and a source, the key that makes a      *)
(* retry pay nobody twice; its amount follows from the kind and the tier   *)
(* of the field.                                                           *)
(***************************************************************************)
EXTENDS Bracket, FiniteSets

CONSTANTS
  NoPlayer     \* the player of an entrant whose account was deleted

--------------------------------------------------------------------------------
(* Amounts. *)

FieldTier   == {"small", "medium", "large"}
MinEntrants == [small |-> 2, medium |-> 8, large |-> 16]

\* The largest tier whose floor the field reaches; small below every floor.
TierFor(count) ==
  IF count >= MinEntrants.large THEN "large"
  ELSE IF count >= MinEntrants.medium THEN "medium" ELSE "small"

\* What a kind pays in a field of a tier.  Only a placement depends on the tier,
\* and an adjustment has no fixed amount.
Placement ==
  [champion     |-> [small |-> 120, medium |-> 200, large |-> 300],
   finalist     |-> [small |-> 70,  medium |-> 120, large |-> 180],
   semifinalist |-> [small |-> 40,  medium |-> 60,  large |-> 90]]

PaidFor(kind, tier) ==
  CASE kind = "checkin"   -> 100
    [] kind = "entry"     -> 40
    [] kind = "match_win" -> 30
    [] OTHER              -> Placement[kind][tier]

--------------------------------------------------------------------------------
(* The ladder. *)

Rank  == <<"zombie", "guest", "user", "sudoer", "daemon", "kernel">>
Floor == [zombie |-> 0, guest |-> 80, user |-> 600, sudoer |-> 1500,
          daemon |-> 3000, kernel |-> 6000]

\* The highest rank whose floor the total reaches; a negative total is a zombie.
RankIndex(cycles) ==
  LET reached == {i \in DOMAIN Rank : cycles >= Floor[Rank[i]]}
  IN  IF reached = {} THEN 1 ELSE CHOOSE i \in reached : \A j \in reached : j <= i

\* Standing::new, without the place: the rank a total gives, its floor, and the
\* floor of the rank above, absent at the top.
Standing(cycles) ==
  LET i == RankIndex(cycles)
  IN  [cycles |-> cycles, rank |-> Rank[i], floor |-> Floor[Rank[i]],
       next |-> IF i = Len(Rank) THEN {} ELSE {Floor[Rank[i + 1]]}]

--------------------------------------------------------------------------------
(* What a concluded tournament pays.  field is the player of every entrant. *)

TournamentRef == <<0, 0, 0>>
MatchRef(d, p) == <<d, p[1], p[2]>>
LoserOf(m) == IF ~IsPlayed(m) THEN NoEntrant ELSE IF m.winner = m.a THEN m.b ELSE m.a

\* A bug: an entrant without an account is paid too.
PayAnyone(field, kind, e, source) ==
  {[player |-> field[x], kind |-> kind, source |-> source] :
     x \in {y \in DOMAIN field : y = e}}

\* The award of an entrant; an entrant without an account gets none.
Pay(field, kind, e, source) ==
  {[player |-> field[x], kind |-> kind, source |-> source] :
     x \in {y \in DOMAIN field : y = e /\ field[y] # NoPlayer}}

\* A bug: the final is taken for the semifinal.
SemisAtTheFinal(B) == {p \in DOMAIN B : IsPlayed(B[p]) /\ p = FinalOf(B)}

\* The played matches of the round before the final; a bracket of two has none.
Semifinals(B) == {p \in DOMAIN B : IsPlayed(B[p]) /\ NextMatch(p) = FinalOf(B)}

\* tournament_awards: who is paid for what.
TournamentAwards(field, B, d, named) ==
  LET Played  == {p \in DOMAIN B : IsPlayed(B[p])}
      Entries == UNION {Pay(field, "entry", e, TournamentRef) : e \in DOMAIN field}
      Wins    == UNION {Pay(field, "match_win", B[p].winner, MatchRef(d, p)) : p \in Played}
      Losers  == UNION {Pay(field, "semifinalist", LoserOf(B[p]), TournamentRef) :
                          p \in Semifinals(B)}
  IN  IF B = NoMatches
      THEN Entries \cup Pay(field, "champion", named, TournamentRef)
      ELSE Entries \cup Wins \cup Losers
             \cup Pay(field, "champion", Champion(B), TournamentRef)
             \cup Pay(field, "finalist", LoserOf(B[FinalOf(B)]), TournamentRef)
================================================================================
