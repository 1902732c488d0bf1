-------------------------------- MODULE Payout --------------------------------
(***************************************************************************)
(* What a played bracket pays, place by place: tournament_awards over the  *)
(* brackets BracketPlay reaches, with the amounts of CyclesRules.          *)
(***************************************************************************)
EXTENDS BracketPlay, CyclesRules, FiniteSetsExt

\* Every entrant has an account, named like the entrant.
Field == [e \in {seeds[i] : i \in DOMAIN seeds} |-> e]

\* The cycles every entrant takes home when the tournament concludes now.
TakesHome ==
  LET tier   == TierFor(Len(seeds))
      awards == TournamentAwards(Field, matches, 1, NoEntrant)
  IN  [e \in DOMAIN Field |->
         MapThenSumSet(LAMBDA a : PaidFor(a.kind, tier),
                       {a \in awards : a.player = e})]

\* A better place is never paid less, whatever the byes (tournament_awards: a bye
\* is not a win, so the top seeds play fewer matches): the champion takes home
\* more than the finalist, the finalist more than either loser of a semifinal,
\* and those more than everybody who went out before.
PlacesPayInOrder ==
  matches # NoMatches /\ Champion(matches) # NoEntrant =>
    LET home     == TakesHome
        champion == Champion(matches)
        finalist == LoserOf(matches[FinalOf(matches)])
        semis    == {LoserOf(matches[p]) : p \in {q \in DOMAIN matches :
                       IsPlayed(matches[q]) /\ NextMatch(q) = FinalOf(matches)}}
        others   == DOMAIN Field \ ({champion, finalist} \cup semis)
    IN  /\ home[champion] > home[finalist]
        /\ \A s \in semis : home[finalist] > home[s]
        /\ \A s \in semis, o \in others : home[s] > home[o]
================================================================================
