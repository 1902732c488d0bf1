----------------------------- MODULE Profile_proofs -----------------------------
(***************************************************************************)
(* The profile of a player, for any number of players, tournaments, days   *)
(* and pages.                                                              *)
(*                                                                         *)
(* Every bracket that is there is sound and of the players who were drawn  *)
(* into it (Boards).  So a win of the log is the win of a player who was   *)
(* paid for it (Paid), and whoever lost a match of a tournament lost no    *)
(* other: the last loss to an opponent is one match, and no two opponents  *)
(* share it.  The rows of a list have an order without ties, so their      *)
(* places are the numbers below their count and a page is a window of      *)
(* them; what a request read is what the tables say as long as nothing     *)
(* was written (Reading).                                                  *)
(***************************************************************************)
EXTENDS Profile, FiniteSums, SequenceTheorems, WellFoundedInduction, TLAPS

--------------------------------------------------------------------------------
(* The facts of BracketPlay_proofs that are about brackets; its variables  *)
(* are of no matter here.                                                  *)

Bracketed == INSTANCE BracketPlay_proofs
               WITH Entrant <- Players, Orders <- {SeedOrder[t] : t \in Tour},
                    seeds <- <<>>, matches <- NoMatches

SoundBracket(B, t) == Bracketed!SoundBracket(B, Drawn(t))

\* What BracketPlay assumes of its constants.
LEMMA AsAssumed ==
  /\ MaxEntrants \in 2..256
  /\ NoEntrant \notin Players
  /\ \A o \in {SeedOrder[t] : t \in Tour} :
       /\ o \in Seq(Players) /\ Len(o) \in 2..MaxEntrants
       /\ \A i, j \in 1..Len(o) : o[i] = o[j] => i = j
BY MaxEntrantsAssumption, PlayersAssumption, OrdersAreOfPlayers

LEMMA DrawnArePlayers ==
  ASSUME NEW t \in Tour
  PROVE  /\ Drawn(t) \subseteq Players
         /\ NoEntrant \notin Drawn(t) /\ NoPlayer \notin Drawn(t)
<1>1. SeedOrder[t] \in Seq(Players)
  BY OrdersAreOfPlayers
<1>2. \A i \in DOMAIN SeedOrder[t] : SeedOrder[t][i] \in Players
  BY <1>1
<1>3. QED
  BY <1>2, PlayersAssumption DEF Drawn

\* The operators of a bracket are the same text there.
LEMMA SameBracket ==
  /\ \A o : Bracketed!Generate(o) = Generate(o)
  /\ \A B, p, e : Bracketed!Feed(B, p, e) = Feed(B, p, e)
  /\ \A m : Bracketed!IsReady(m) <=> IsReady(m)
  /\ \A B, p : Bracketed!NextUndecided(B, p) <=> NextUndecided(B, p)
  /\ \A k : Bracketed!Positions(k) = Positions(k)
  /\ Bracketed!Position = Position
  /\ \A E : Bracketed!Match(E) = Match(E)
<1>1. \A k : Bracketed!Positions(k) = Positions(k)
  BY DEF Bracketed!Positions, Positions, Bracketed!Pow2, Pow2
<1>2. \A o : Bracketed!Generate(o) = Generate(o)
  BY DEF Bracketed!Generate, Generate, Bracketed!RoundCount, RoundCount, Bracketed!Pow2,
         Pow2, Bracketed!Positions, Positions, Bracketed!FirstRoundMatch,
         FirstRoundMatch, Bracketed!SecondRoundMatch, SecondRoundMatch,
         Bracketed!EmptyMatch, EmptyMatch
<1>3. \A B, p, e : Bracketed!Feed(B, p, e) = Feed(B, p, e)
  BY DEF Bracketed!Feed, Feed, Bracketed!NextMatch, NextMatch, Bracketed!FeedsSideA,
         FeedsSideA
<1>4. \A B, p : Bracketed!NextUndecided(B, p) <=> NextUndecided(B, p)
  BY DEF Bracketed!NextUndecided, NextUndecided, Bracketed!NextMatch, NextMatch
<1>5. QED
  BY <1>1, <1>2, <1>3, <1>4
     DEF Bracketed!IsReady, IsReady, Bracketed!Position, Position, Bracketed!Match, Match

\* A draw is sound, and so is a bracket with one more result or one less.
LEMMA DrawIsSound ==
  ASSUME NEW t \in Tour
  PROVE  SoundBracket(Generate(SeedOrder[t]), t)
<1>1. /\ SeedOrder[t] \in Seq(Players) /\ Len(SeedOrder[t]) \in 2..256
      /\ \A i, j \in 1..Len(SeedOrder[t]) : SeedOrder[t][i] = SeedOrder[t][j] => i = j
  <2>1. /\ SeedOrder[t] \in Seq(Players) /\ Len(SeedOrder[t]) \in 2..MaxEntrants
        /\ \A i, j \in 1..Len(SeedOrder[t]) : SeedOrder[t][i] = SeedOrder[t][j] => i = j
    BY OrdersAreOfPlayers
  <2>2. 2..MaxEntrants \subseteq 2..256
    BY MaxEntrantsAssumption
  <2>3. QED
    BY <2>1, <2>2
<1>2. SeedOrder[t] \in Seq(Drawn(t))
  BY <1>1 DEF Drawn
<1>3. Bracketed!OrderOf(SeedOrder[t], Drawn(t))
  BY <1>1, <1>2, DrawnArePlayers DEF Bracketed!OrderOf
<1>4. QED
  BY <1>3, AsAssumed, SameBracket, Bracketed!GenerateSound DEF SoundBracket

LEMMA ResultIsSound ==
  ASSUME NEW t \in Tour, NEW B, SoundBracket(B, t), NEW p \in DOMAIN B
  PROVE  /\ \A w \in {B[p].a, B[p].b} :
              CanReport(B, p, w) => SoundBracket(Reported(B, p, w), t)
         /\ CanClear(B, p) => SoundBracket(Cleared(B, p), t)
<1>1. ASSUME IsReady(B[p]), NextUndecided(B, p), NEW e \in {B[p].a, B[p].b, NoEntrant}
      PROVE  SoundBracket(Feed([B EXCEPT ![p].winner = e], p, e), t)
  BY <1>1, AsAssumed, SameBracket, Bracketed!ResultSound DEF SoundBracket
<1>2. QED
  BY <1>1 DEF CanReport, Reported, CanClear, Cleared, IsPlayed

\* What a sound bracket is known by here: it has matches, whose sides were drawn, and
\* a winner sits in its match and not on both sides of it.
LEMMA SoundMatches ==
  ASSUME NEW t \in Tour, NEW B, SoundBracket(B, t)
  PROVE  /\ DOMAIN B \subseteq Position /\ B # NoMatches
         /\ \A p \in DOMAIN B :
              /\ B[p] \in Match(Drawn(t))
              /\ B[p].winner # NoEntrant => B[p].winner \in {B[p].a, B[p].b}
              /\ B[p].a = B[p].b => B[p].a = NoEntrant
<1>1. DOMAIN B \subseteq Position
  BY AsAssumed, SameBracket, Bracketed!SoundPositions DEF SoundBracket
<1>2. B # NoMatches
  <2>1. PICK k \in 1..8 : DOMAIN B = Bracketed!Positions(k)
    BY DEF SoundBracket, Bracketed!SoundBracket
  <2>2. Bracketed!FinalOf(B) \in DOMAIN B
    BY <2>1, AsAssumed, Bracketed!FinalExists
  <2>3. QED
    BY <2>2 DEF NoMatches
<1>3. B \in [DOMAIN B -> Match(Drawn(t))]
  BY SameBracket DEF SoundBracket, Bracketed!SoundBracket
<1>4. QED
  BY <1>1, <1>2, <1>3 DEF SoundBracket, Bracketed!SoundBracket, Bracketed!WinnersIn,
                          Bracketed!OnceEach
--------------------------------------------------------------------------------
(* The inductive invariant.                                                *)

\* What is there, and a bracket of those who were drawn, if there is one.
Boards ==
  /\ There \subseteq Tour /\ DOMAIN day = There /\ DOMAIN board = There
  /\ status \in [There -> {"open", "live", "concluded"}]
  /\ day \in [There -> Int]
  /\ account \subseteq Players
  /\ \A t \in There : IF board[t] = NoMatches THEN status[t] # "concluded"
                                              ELSE SoundBracket(board[t], t)

\* The matches of a bracket that the owner won, and their names in the ledger.
WonIn(B) == {p \in DOMAIN B : IsPlayed(B[p]) /\ B[p].winner = Owner}
WinRefs(t, B) == {MatchRef(t, p) : p \in WonIn(B)}

WinRows(rows) == {row \in rows : row.kind = "match_win"}
PaidRefs(t)   == {row.source : row \in {paid \in WinRows(ledger) : paid.tour = t}}

\* A win is paid when its tournament concludes, and only then; the wins of the bracket
\* are, if that is the one the conclusion read.
Paid ==
  /\ \A row \in WinRows(ledger) : row.tour \in There /\ status[row.tour] = "concluded"
  /\ \A t \in There \ raced : status[t] = "concluded" =>
       PaidRefs(t) = IF Owner \in account THEN WinRefs(t, board[t]) ELSE {}

\* What the conclusion under way has read: a sound bracket, which is the one that is there
\* unless a result came late, and every account of an entrant that is still there.
Planned ==
  \A c \in closing :
    /\ DOMAIN c = {"tour", "status", "board", "accounts", "late"} /\ c.late \in BOOLEAN
    /\ c.status # "concluded"
    /\ c.tour \in Tour /\ SoundBracket(c.board, c.tour)
    /\ account \cap Drawn(c.tour) \subseteq c.accounts
    /\ c.tour \in There => /\ board[c.tour] # NoMatches
                           /\ c.late = FALSE => board[c.tour] = c.board

\* The rows of a conclusion: the wins among them are the owner's.
LEMMA AwardWins ==
  ASSUME NEW t \in Tour, NEW B, SoundBracket(B, t), NEW accounts, NEW at
  PROVE  /\ \A row \in AwardRows(t, B, accounts, at) : row.tour = t
         /\ {row.source : row \in WinRows(AwardRows(t, B, accounts, at))}
              = IF Owner \in accounts THEN WinRefs(t, B) ELSE {}
<1> DEFINE field  == [e \in Drawn(t) |-> IF e \in accounts THEN e ELSE NoPlayer]
           tier   == TierFor(Len(SeedOrder[t]))
           awards == {a \in TournamentAwards(field, B, t, NoEntrant) : a.player = Owner}
           RowOf(a) == [tour |-> t, kind |-> a.kind, source |-> a.source,
                        amount |-> PaidFor(a.kind, tier), at |-> at, id |-> IdOf(t, a)]
           rows   == AwardRows(t, B, accounts, at)
<1>1. rows = {RowOf(a) : a \in awards}
  BY DEF AwardRows
<1>2. /\ B # NoMatches
      /\ \A p \in DOMAIN B : B[p].winner # NoEntrant => B[p].winner \in Drawn(t)
  BY SoundMatches DEF Match
<1>3. /\ DOMAIN field = Drawn(t)
      /\ \A e \in Drawn(t) : field[e] = IF e \in accounts THEN e ELSE NoPlayer
  BY DEF Drawn
<1>  HIDE DEF field
<1>4. Owner # NoPlayer
  BY PlayersAssumption DEF Players
<1>5. \A kind, e, source : Pay(field, kind, e, source) =
        IF e \in Drawn(t) /\ field[e] # NoPlayer
        THEN {[player |-> field[e], kind |-> kind, source |-> source]} ELSE {}
  BY <1>3 DEF Pay
<1>6. \A a : a \in awards /\ a.kind = "match_win" <=>
        \E p \in WonIn(B) : /\ Owner \in accounts
                            /\ a = [player |-> Owner, kind |-> "match_win",
                                    source |-> MatchRef(t, p)]
  <2>1. ASSUME NEW a, a \in awards, a.kind = "match_win"
        PROVE  \E p \in WonIn(B) : /\ Owner \in accounts
                                   /\ a = [player |-> Owner, kind |-> "match_win",
                                           source |-> MatchRef(t, p)]
    <3>1. PICK p \in {q \in DOMAIN B : IsPlayed(B[q])} :
            a \in Pay(field, "match_win", B[p].winner, MatchRef(t, p))
      <4>1. \A kind, e, source : \A x \in Pay(field, kind, e, source) : x.kind = kind
        BY <1>5
      <4>2. QED
        BY <2>1, <4>1, <1>2 DEF TournamentAwards
    <3>2. a.player = Owner
      BY <2>1
    <3>3. /\ a = [player |-> field[B[p].winner], kind |-> "match_win",
                  source |-> MatchRef(t, p)]
          /\ B[p].winner \in Drawn(t) /\ field[B[p].winner] # NoPlayer
      BY <3>1, <1>5
    <3>4. B[p].winner = Owner /\ Owner \in accounts
      BY <3>2, <3>3, <1>3
    <3>5. QED
      BY <3>1, <3>2, <3>3, <3>4 DEF WonIn
  <2>2. ASSUME NEW a, NEW p \in WonIn(B), Owner \in accounts,
               a = [player |-> Owner, kind |-> "match_win", source |-> MatchRef(t, p)]
        PROVE  a \in awards /\ a.kind = "match_win"
    <3>1. p \in DOMAIN B /\ IsPlayed(B[p]) /\ B[p].winner = Owner
      BY DEF WonIn
    <3>2. Owner \in Drawn(t) /\ field[Owner] = Owner
      BY <3>1, <1>2, <1>3, <2>2 DEF IsPlayed
    <3>3. a \in Pay(field, "match_win", B[p].winner, MatchRef(t, p))
      BY <3>1, <3>2, <2>2, <1>4, <1>5
    <3>4. a \in TournamentAwards(field, B, t, NoEntrant)
      BY <3>1, <3>3, <1>2 DEF TournamentAwards
    <3>5. QED
      BY <3>4, <2>2
  <2>3. QED
    BY <2>1, <2>2
<1>  HIDE DEF awards, rows
<1>7. \A a : /\ RowOf(a).tour = t /\ RowOf(a).kind = a.kind
             /\ RowOf(a).source = a.source
  OBVIOUS
<1>  HIDE DEF RowOf
<1>8. {row.source : row \in WinRows(rows)}
        = IF Owner \in accounts THEN WinRefs(t, B) ELSE {}
  <2>1. \A s : s \in {row.source : row \in WinRows(rows)} <=>
                \E a \in awards : a.kind = "match_win" /\ s = a.source
    BY <1>1, <1>7 DEF WinRows
  <2>2. \A s : s \in {row.source : row \in WinRows(rows)} <=>
                Owner \in accounts /\ s \in WinRefs(t, B)
    <3>1. ASSUME Owner \in accounts, NEW p \in WonIn(B)
          PROVE  \E a \in awards : a.kind = "match_win" /\ MatchRef(t, p) = a.source
      <4> DEFINE a == [player |-> Owner, kind |-> "match_win", source |-> MatchRef(t, p)]
      <4>1. a \in awards /\ a.kind = "match_win"
        BY <3>1, <1>6
      <4>2. a.source = MatchRef(t, p)
        OBVIOUS
      <4>3. QED
        BY <4>1, <4>2
    <3>2. ASSUME NEW a \in awards, a.kind = "match_win"
          PROVE  Owner \in accounts /\ a.source \in WinRefs(t, B)
      BY <3>2, <1>6 DEF WinRefs
    <3>3. QED
      BY <2>1, <3>1, <3>2 DEF WinRefs
  <2>3. QED
    BY <2>2
<1>9. QED
  BY <1>1, <1>7, <1>8 DEF rows

\* A final alone takes a result at once.
LEMMA FinalOfTwo ==
  ASSUME NEW t \in Past, NEW w \in {SeedOrder[t][1], SeedOrder[t][2]}
  PROVE  SoundBracket(Reported(Generate(SeedOrder[t]), <<1, 0>>, w), t)
<1> DEFINE o == SeedOrder[t]
           B == Generate(o)
           f == <<1, 0>>
<1>1. t \in Tour /\ Len(o) = 2 /\ o \in Seq(Players)
  BY PlayersAssumption, OrdersAreOfPlayers
<1>2. RoundCount(2) = 1
  BY DEF RoundCount, Pow2
<1>3. Positions(1) = {f}
  BY DEF Positions, Pow2
<1>4. B = [p \in {f} |-> [a |-> o[1], b |-> o[2], winner |-> NoEntrant]]
  <2>1. Pow2[RoundCount(Len(o))] - Len(o) = 0
    BY <1>1, <1>2 DEF Pow2
  <2>2. FirstRoundMatch(o, 0, 0) = [a |-> o[1], b |-> o[2], winner |-> NoEntrant]
    BY DEF FirstRoundMatch
  <2>3. f[1] = 1 /\ f[2] = 0
    OBVIOUS
  <2>4. QED
    BY <1>1, <1>2, <1>3, <2>1, <2>2, <2>3 DEF Generate
<1>5. o[1] \in Players /\ o[2] \in Players
  BY <1>1
<1>6. DOMAIN B = {f} /\ B[f].a = o[1] /\ B[f].b = o[2]
  BY <1>4
<1>7. NextMatch(f) \notin DOMAIN B
  BY <1>6 DEF NextMatch
<1>  HIDE DEF B, f
<1>8. CanReport(B, f, w)
  BY <1>5, <1>6, <1>7, PlayersAssumption DEF CanReport, IsReady, NextUndecided
<1>9. SoundBracket(B, t)
  BY <1>1, DrawIsSound DEF B
<1>10. w \in {B[f].a, B[f].b} /\ f \in DOMAIN B
  BY <1>6
<1>11. SoundBracket(Reported(B, f, w), t)
  BY <1>1, <1>8, <1>9, <1>10, ResultIsSound
<1>12. QED
  BY <1>11 DEF B, f

LEMMA InitSound == Init => Boards /\ Paid /\ Planned
<1>  SUFFICES ASSUME Init
              PROVE  Boards /\ Paid /\ Planned
  OBVIOUS
<1>1. There = Tour /\ account = Players
  BY DEF Init, There
<1>2. \A t \in Tour : status[t] = "concluded" <=> t \in Past
  BY DEF Init
<1>3. \A t \in Past : SoundBracket(board[t], t)
  <2>1. \A t \in Past : \E w \in {SeedOrder[t][1], SeedOrder[t][2]} :
          board[t] = Reported(Generate(SeedOrder[t]), <<1, 0>>, w)
    BY PlayersAssumption DEF Init
  <2>2. QED
    BY <2>1, FinalOfTwo
<1>4. \A t \in Tour \ Past : board[t] = NoMatches
  BY DEF Init
<1>5. Boards
  <2>1. DOMAIN day = Tour /\ DOMAIN board = Tour /\ day \in [Tour -> Int]
    BY DistinctKeys DEF Init
  <2>2. status \in [Tour -> {"open", "live", "concluded"}]
    BY DEF Init
  <2>3. \A t \in Past : t \in Tour /\ board[t] # NoMatches
    BY <1>3, SoundMatches, PlayersAssumption
  <2>4. QED
    BY <1>1, <1>2, <1>3, <1>4, <2>1, <2>2, <2>3 DEF Boards
<1> DEFINE at(t) == Cardinality({u \in Past : CreatedAt[u] <= CreatedAt[t]})
           rows(t) == AwardRows(t, board[t], Players, at(t))
<1>6. ledger = {CheckinRow} \cup UNION {rows(t) : t \in Past}
  BY DEF Init
<1>7. CheckinRow.kind # "match_win"
  BY DEF CheckinRow
<1>8. ASSUME NEW t \in Past
      PROVE  /\ \A row \in rows(t) : row.tour = t
             /\ {row.source : row \in WinRows(rows(t))} = WinRefs(t, board[t])
  <2>1. Owner \in Players /\ t \in Tour
    BY PlayersAssumption DEF Players
  <2>2. QED
    BY <2>1, <1>3, AwardWins
<1>  HIDE DEF rows
<1>9. \A row : row \in WinRows(ledger) <=> \E t \in Past : row \in WinRows(rows(t))
  BY <1>6, <1>7 DEF WinRows
<1>10. \A row \in WinRows(ledger) : row.tour \in There /\ status[row.tour] = "concluded"
  BY <1>1, <1>2, <1>8, <1>9, PlayersAssumption DEF WinRows
<1>11. ASSUME NEW t \in Past
       PROVE  PaidRefs(t) = WinRefs(t, board[t])
  <2>1. \A row : row \in WinRows(ledger) /\ row.tour = t <=> row \in WinRows(rows(t))
    BY <1>8, <1>9 DEF WinRows
  <2>2. {paid \in WinRows(ledger) : paid.tour = t} = WinRows(rows(t))
    BY <2>1
  <2>3. QED
    BY <2>2, <1>8 DEF PaidRefs
<1>12. Owner \in account
  BY <1>1 DEF Players
<1>13. Paid
  BY <1>1, <1>2, <1>10, <1>11, <1>12 DEF Paid
<1>14. Planned
  BY DEF Init, Planned
<1>15. QED
  BY <1>5, <1>13, <1>14

\* A bracket of a tournament that is not concluded is written, soundly.
LEMMA BoardWritten ==
  ASSUME Boards, Paid, NEW t \in There, status[t] # "concluded",
         NEW B, SoundBracket(B, t), board' = [board EXCEPT ![t] = B],
         UNCHANGED <<status, day, account, ledger, raced>>
  PROVE  Boards' /\ Paid'
<1>1. /\ There' = There /\ DOMAIN board' = There /\ board'[t] = B /\ t \in Tour
      /\ \A u \in There \ {t} : board'[u] = board[u]
  BY DEF Boards, There
<1>2. B # NoMatches
  BY <1>1, SoundMatches
<1>3. Boards'
  <2>1. \A u \in There : IF board'[u] = NoMatches THEN status'[u] # "concluded"
                                                ELSE SoundBracket(board'[u], u)
    BY <1>1, <1>2 DEF Boards
  <2>2. QED
    BY <1>1, <2>1 DEF Boards
<1>4. \A u \in There : PaidRefs(u)' = PaidRefs(u)
  BY DEF PaidRefs, WinRows
<1>5. \A u \in There : status[u] = "concluded" => WinRefs(u, board'[u]) = WinRefs(u, board[u])
  BY <1>1
<1>6. Paid'
  BY <1>1, <1>4, <1>5 DEF Paid, WinRows
<1>7. QED
  BY <1>3, <1>6

\* A conclusion pays what the log shows from now on, but for one that a result came late
\* for.
LEMMA ConcludeSound ==
  ASSUME Boards, Paid, Planned, NEW c \in closing, ConclusionCommits(c),
         status[c.tour] # "concluded"
  PROVE  Boards' /\ Paid'
<1> DEFINE t == c.tour
           new == AwardRows(t, c.board, c.accounts, now + 1)
<1>1. /\ t \in There /\ board[t] # NoMatches
      /\ status' = [status EXCEPT ![t] = "concluded"]
      /\ ledger' = ledger \cup new
      /\ raced' = IF c.late THEN raced \cup {t} ELSE raced
      /\ UNCHANGED <<day, board, account>>
  BY DEF ConclusionCommits, Planned
<1>2. /\ There' = There /\ status'[t] = "concluded" /\ t \in Tour
      /\ \A u \in There \ {t} : status'[u] = status[u]
      /\ SoundBracket(board[t], t) /\ SoundBracket(c.board, t)
  BY <1>1 DEF Boards, There, Planned
<1>3. Boards'
  BY <1>1, <1>2 DEF Boards
<1>4. /\ \A row \in new : row.tour = t
      /\ {row.source : row \in WinRows(new)}
           = IF Owner \in c.accounts THEN WinRefs(t, c.board) ELSE {}
  BY <1>2, AwardWins
<1>  HIDE DEF new
<1>5. ASSUME t \notin raced'
       PROVE  (IF Owner \in c.accounts THEN WinRefs(t, c.board) ELSE {})
                = IF Owner \in account THEN WinRefs(t, board[t]) ELSE {}
  <2>1. c.late = FALSE
    BY <1>1, <1>5 DEF Planned
  <2>2. board[t] = c.board /\ c.accounts \subseteq account
    BY <2>1, <1>1 DEF Planned, ConclusionCommits
  <2>3. CASE Owner \in account \ c.accounts
    <3>1. Owner \notin Drawn(t) /\ Owner # NoEntrant
      BY <2>3, PlayersAssumption DEF Planned, Players
    <3>2. \A p \in DOMAIN board[t] : board[t][p].winner # NoEntrant =>
                                      board[t][p].winner \in Drawn(t)
      BY <1>2, SoundMatches DEF Match
    <3>3. WonIn(board[t]) = {}
      BY <3>1, <3>2 DEF WonIn
    <3>4. WinRefs(t, board[t]) = {}
      BY <3>3 DEF WinRefs
    <3>5. QED
      BY <2>3, <3>4
  <2>4. QED
    BY <2>2, <2>3
<1>6. \A row : row \in WinRows(ledger') <=> row \in WinRows(ledger) \/ row \in WinRows(new)
  BY <1>1 DEF WinRows
<1>7. \A row \in WinRows(ledger) : row.tour \in There \ {t}
  BY <1>1 DEF Paid
<1>8. \A row \in WinRows(new) : row.tour = t
  BY <1>4 DEF WinRows
<1>9. PaidRefs(t)' = {row.source : row \in WinRows(new)}
  <2>1. {paid \in WinRows(ledger') : paid.tour = t} = WinRows(new)
    BY <1>6, <1>7, <1>8
  <2>2. QED
    BY <2>1 DEF PaidRefs
<1>10. ASSUME NEW u \in There, u # t
      PROVE  PaidRefs(u)' = PaidRefs(u)
  <2>1. {paid \in WinRows(ledger') : paid.tour = u} = {paid \in WinRows(ledger) : paid.tour = u}
    BY <1>6, <1>8, <1>10
  <2>2. QED
    BY <2>1 DEF PaidRefs
<1>11. \A row \in WinRows(ledger') : row.tour \in There' /\ status'[row.tour] = "concluded"
  BY <1>1, <1>2, <1>6, <1>7, <1>8 DEF Paid
<1>12. \A u \in There \ raced' : status'[u] = "concluded" =>
         PaidRefs(u)' = IF Owner \in account THEN WinRefs(u, board[u]) ELSE {}
  <2>1. ASSUME t \notin raced'
        PROVE  PaidRefs(t)' = IF Owner \in account THEN WinRefs(t, board[t]) ELSE {}
    BY <1>4, <1>9, <1>5, <2>1
  <2>2. ASSUME NEW u \in There \ raced', u # t, status'[u] = "concluded"
        PROVE  PaidRefs(u)' = IF Owner \in account THEN WinRefs(u, board[u]) ELSE {}
    <3>1. u \in There \ raced
      BY <1>1
    <3>2. QED
      BY <2>2, <3>1, <1>2, <1>10 DEF Paid
  <2>3. QED
    BY <2>1, <2>2
<1>13. Paid'
  BY <1>1, <1>2, <1>11, <1>12 DEF Paid
<1>14. QED
  BY <1>3, <1>13

\* The payments of a deleted tournament go with it, and only those.
LEMMA DeleteTournamentSound ==
  ASSUME Boards, Paid, NEW t \in There, DeleteTournament(t)
  PROVE  Boards' /\ Paid'
<1>1. /\ There' = There \ {t} /\ DOMAIN day' = There \ {t} /\ DOMAIN board' = There \ {t}
      /\ \A u \in There \ {t} : /\ status'[u] = status[u] /\ day'[u] = day[u]
                               /\ board'[u] = board[u]
      /\ status' = [u \in There \ {t} |-> status[u]]
      /\ day' = [u \in There \ {t} |-> day[u]]
      /\ ledger' = {row \in ledger : row.tour # t}
      /\ account' = account /\ raced' = raced
  BY DEF DeleteTournament, Drop, There, Boards
<1>2. Boards'
  BY <1>1 DEF Boards
<1>3. \A row : row \in WinRows(ledger') <=> row \in WinRows(ledger) /\ row.tour # t
  BY <1>1 DEF WinRows
<1>4. ASSUME NEW u \in There \ {t}
      PROVE  PaidRefs(u)' = PaidRefs(u)
  <2>1. {paid \in WinRows(ledger') : paid.tour = u} = {paid \in WinRows(ledger) : paid.tour = u}
    BY <1>3
  <2>2. QED
    BY <2>1 DEF PaidRefs
<1>5. Paid'
  BY <1>1, <1>3, <1>4 DEF Paid
<1>6. QED
  BY <1>2, <1>5

\* The owner's payments go with the account; another's account was paid nothing here.
LEMMA DeleteAccountSound ==
  ASSUME Boards, Paid, NEW p \in Players, DeleteAccount(p)
  PROVE  Boards' /\ Paid'
<1>1. /\ account' = account \ {p} /\ ledger' = IF p = Owner THEN {} ELSE ledger
      /\ UNCHANGED <<status, day, board, raced>>
  BY DEF DeleteAccount
<1>2. There' = There
  BY <1>1 DEF There
<1>3. Boards'
  BY <1>1, <1>2 DEF Boards
<1>4. CASE p = Owner
  <2>1. WinRows(ledger') = {} /\ Owner \notin account'
    BY <1>1, <1>4 DEF WinRows
  <2>2. \A u : PaidRefs(u)' = {}
    BY <2>1 DEF PaidRefs
  <2>3. Paid'
    BY <2>1, <2>2 DEF Paid
  <2>4. QED
    BY <1>3, <2>3
<1>5. CASE p # Owner
  <2>1. ledger' = ledger /\ (Owner \in account' <=> Owner \in account)
    BY <1>1, <1>5
  <2>2. \A u : PaidRefs(u)' = PaidRefs(u)
    BY <2>1 DEF PaidRefs, WinRows
  <2>3. Paid'
    BY <1>1, <1>2, <2>1, <2>2 DEF Paid, WinRows
  <2>4. QED
    BY <1>3, <2>3
<1>6. QED
  BY <1>4, <1>5

\* A check-in is no win.
LEMMA RemoveCheckinSound ==
  ASSUME Boards, Paid, RemoveCheckin
  PROVE  Boards' /\ Paid'
<1>1. ledger' = ledger \ {CheckinRow} /\ UNCHANGED <<status, day, board, account, raced>>
  BY DEF RemoveCheckin
<1>2. There' = There
  BY <1>1 DEF There
<1>3. WinRows(ledger') = WinRows(ledger)
  BY <1>1 DEF WinRows, CheckinRow
<1>4. \A u : PaidRefs(u)' = PaidRefs(u)
  BY <1>3 DEF PaidRefs
<1>5. Paid'
  BY <1>1, <1>2, <1>3, <1>4 DEF Paid
<1>6. QED
  BY <1>1, <1>2, <1>5 DEF Boards

\* Neither going live nor a new date concludes anything.
LEMMA StatusAndDateSound ==
  ASSUME Boards, Paid, NEW t \in There,
         GoLive(t) \/ \E d \in NewDays : MoveDate(t, d)
  PROVE  Boards' /\ Paid'
<1>1. /\ UNCHANGED <<board, account, ledger, raced>> /\ There' = There
      /\ status' \in [There -> {"open", "live", "concluded"}]
      /\ day' \in [There -> Int]
      /\ \A u \in There : status'[u] = "concluded" <=> status[u] = "concluded"
  <2>1. CASE GoLive(t)
    BY <2>1 DEF GoLive, Boards, There
  <2>2. ASSUME NEW d \in NewDays, MoveDate(t, d)
        PROVE  /\ UNCHANGED <<board, account, ledger, raced>> /\ There' = There
               /\ status' \in [There -> {"open", "live", "concluded"}]
               /\ day' \in [There -> Int]
               /\ \A u \in There : status'[u] = "concluded" <=> status[u] = "concluded"
    BY <2>2, DistinctKeys DEF MoveDate, Boards, There
  <2>3. QED
    BY <2>1, <2>2
<1>2. Boards'
  BY <1>1 DEF Boards
<1>3. \A u : PaidRefs(u)' = PaidRefs(u)
  BY <1>1 DEF PaidRefs, WinRows
<1>4. Paid'
  BY <1>1, <1>3 DEF Paid, WinRows
<1>5. QED
  BY <1>2, <1>4

LEMMA SoundStep == Boards /\ Paid /\ Planned /\ [Next]_vars => Boards' /\ Paid'
<1>  SUFFICES ASSUME Boards, Paid, Planned, [Next]_vars
              PROVE  Boards' /\ Paid'
  OBVIOUS
<1>1. CASE UNCHANGED <<tables, raced>>
  <2>1. There' = There
    BY <1>1 DEF tables, There
  <2>2. Boards'
    BY <1>1, <2>1 DEF tables, Boards
  <2>3. \A u : PaidRefs(u)' = PaidRefs(u)
    BY <1>1 DEF tables, PaidRefs, WinRows
  <2>4. Paid'
    BY <1>1, <2>1, <2>3 DEF tables, Paid, WinRows
  <2>5. QED
    BY <2>2, <2>4
<1>2. ASSUME NEW t \in There, Draw(t)
      PROVE  Boards' /\ Paid'
  <2>1. t \in Tour /\ status[t] # "concluded"
    BY <1>2 DEF Boards, Draw
  <2>2. SoundBracket(Generate(SeedOrder[t]), t)
    BY <2>1, DrawIsSound
  <2>3. QED
    BY <1>2, <2>1, <2>2, BoardWritten DEF Draw, WritesBoard
<1>3. ASSUME NEW t \in There, NEW p \in DOMAIN board[t],
             \/ \E w \in {board[t][p].a, board[t][p].b} : Report(t, p, w)
             \/ Clear(t, p)
      PROVE  Boards' /\ Paid'
  <2>1. t \in Tour /\ SoundBracket(board[t], t)
    BY DEF Boards, NoMatches
  <2>2. CASE Clear(t, p)
    BY <2>1, <2>2, ResultIsSound, BoardWritten DEF Clear, WritesBoard
  <2>3. ASSUME NEW w \in {board[t][p].a, board[t][p].b}, Report(t, p, w)
        PROVE  Boards' /\ Paid'
    BY <2>1, <2>3, ResultIsSound, BoardWritten DEF Report, WritesBoard
  <2>4. QED
    BY <1>3, <2>2, <2>3
<1>4. CASE Reader \/ (\E t \in There : ConclusionReads(t)) \/ ConclusionEnds \/ UNCHANGED vars
  BY <1>1, <1>4 DEF Reader, Begin, Lookup, ReadRecord, ReadNemesis, ReadLog, ReadEntries,
     ReadTotals, End, ConclusionReads, ConclusionEnds, vars, stored, tables
<1>5. CASE Backoffice
  <2>1. ASSUME NEW c \in closing, ConclusionCommits(c)
        PROVE  Boards' /\ Paid'
    BY <2>1, ConcludeSound DEF ConclusionCommits, Planned
  <2>2. QED
    BY <1>2, <1>3, <1>5, <2>1, DeleteTournamentSound, DeleteAccountSound,
       RemoveCheckinSound, StatusAndDateSound DEF Backoffice
<1>6. QED
  BY <1>4, <1>5 DEF Next

\* A write of a bracket is noted by the conclusion it comes too late for.
LEMMA BoardNoted ==
  ASSUME Boards, Planned, NEW t \in There, NEW B, SoundBracket(B, t), WritesBoard(t, B)
  PROVE  Planned'
<1>1. /\ t \in Tour /\ There' = There /\ account' = account
      /\ board'[t] = B /\ \A u \in There \ {t} : board'[u] = board[u]
  BY DEF WritesBoard, Boards, There
<1>2. B # NoMatches
  BY <1>1, SoundMatches
<1>3. ASSUME NEW d \in closing'
      PROVE  \E c \in closing :
               /\ DOMAIN d = DOMAIN c /\ d.late = (c.late \/ c.tour = t)
               /\ d.tour = c.tour /\ d.board = c.board /\ d.accounts = c.accounts
               /\ d.status = c.status
  <2>1. PICK c \in closing : d = [c EXCEPT !.late = @ \/ c.tour = t]
    BY DEF WritesBoard
  <2>2. DOMAIN c = {"tour", "status", "board", "accounts", "late"}
    BY DEF Planned
  <2>3. QED
    BY <2>1, <2>2
<1>4. ASSUME NEW d \in closing'
      PROVE  /\ DOMAIN d = {"tour", "status", "board", "accounts", "late"}
             /\ d.late \in BOOLEAN /\ d.status # "concluded"
             /\ d.tour \in Tour /\ SoundBracket(d.board, d.tour)
             /\ account' \cap Drawn(d.tour) \subseteq d.accounts
             /\ d.tour \in There' => /\ board'[d.tour] # NoMatches
                                     /\ d.late = FALSE => board'[d.tour] = d.board
  <2>1. PICK c \in closing :
          /\ DOMAIN d = DOMAIN c /\ d.late = (c.late \/ c.tour = t)
          /\ d.tour = c.tour /\ d.board = c.board /\ d.accounts = c.accounts
          /\ d.status = c.status
    BY <1>3
  <2>2. CASE c.tour = t
    BY <1>1, <1>2, <2>1, <2>2 DEF Planned
  <2>3. CASE c.tour # t
    BY <1>1, <2>1, <2>3 DEF Planned
  <2>4. QED
    BY <2>2, <2>3
<1>5. QED
  BY <1>4 DEF Planned

LEMMA PlannedStep == Boards /\ Planned /\ [Next]_vars => Planned'
<1>  SUFFICES ASSUME Boards, Planned, [Next]_vars
              PROVE  Planned'
  OBVIOUS
<1>1. ASSUME closing' = {}
      PROVE  Planned'
  BY <1>1 DEF Planned
<1>2. ASSUME closing' = closing, account' \subseteq account, There' \subseteq There,
             \A t \in There' : board'[t] = board[t]
      PROVE  Planned'
  BY <1>2 DEF Planned
<1>3. ASSUME NEW t \in There, ConclusionReads(t)
      PROVE  Planned'
  <2>1. /\ t \in Tour /\ SoundBracket(board[t], t) /\ board[t] # NoMatches
        /\ status[t] # "concluded"
    BY <1>3 DEF ConclusionReads, Boards
  <2>2. /\ closing' = {[tour |-> t, status |-> status[t], board |-> board[t],
                        accounts |-> account \cap Drawn(t), late |-> FALSE]}
        /\ There' = There /\ board' = board /\ account' = account
    BY <1>3 DEF ConclusionReads, tables, There
  <2>3. \A d \in closing' :
          /\ DOMAIN d = {"tour", "status", "board", "accounts", "late"} /\ d.late = FALSE
          /\ d.status = status[t] /\ d.tour = t /\ d.board = board[t]
          /\ d.accounts = account \cap Drawn(t)
    BY <2>2
  <2>4. QED
    BY <2>1, <2>2, <2>3 DEF Planned
<1>4. ASSUME NEW t \in There, Draw(t)
      PROVE  Planned'
  <2>1. t \in Tour
    BY DEF Boards
  <2>2. QED
    BY <1>4, <2>1, DrawIsSound, BoardNoted DEF Draw
<1>5. ASSUME NEW t \in There, NEW p \in DOMAIN board[t],
             \/ \E w \in {board[t][p].a, board[t][p].b} : Report(t, p, w)
             \/ Clear(t, p)
      PROVE  Planned'
  <2>1. t \in Tour /\ SoundBracket(board[t], t)
    BY DEF Boards, NoMatches
  <2>2. CASE Clear(t, p)
    BY <2>1, <2>2, ResultIsSound, BoardNoted DEF Clear
  <2>3. ASSUME NEW w \in {board[t][p].a, board[t][p].b}, Report(t, p, w)
        PROVE  Planned'
    BY <2>1, <2>3, ResultIsSound, BoardNoted DEF Report
  <2>4. QED
    BY <1>5, <2>2, <2>3
<1>6. ASSUME NEW t \in There, DeleteTournament(t)
      PROVE  Planned'
  <2>1. /\ closing' = closing /\ account' = account /\ There' = There \ {t}
        /\ \A u \in There \ {t} : board'[u] = board[u]
    BY <1>6 DEF DeleteTournament, Drop, There, Boards
  <2>2. QED
    BY <1>2, <2>1
<1>7. ASSUME NEW t \in There, GoLive(t) \/ \E d \in NewDays : MoveDate(t, d)
      PROVE  Planned'
  <2>1. /\ closing' = closing /\ account' = account /\ There' = There /\ board' = board
    BY <1>7 DEF GoLive, MoveDate, There
  <2>2. QED
    BY <1>2, <2>1
<1>8. CASE RemoveCheckin \/ (\E p \in Players : DeleteAccount(p))
  <2>1. /\ closing' = closing /\ account' \subseteq account /\ There' = There
        /\ board' = board
    BY <1>8 DEF RemoveCheckin, DeleteAccount, There
  <2>2. QED
    BY <1>2, <2>1
<1>9. CASE Backoffice
  BY <1>1, <1>4, <1>5, <1>6, <1>7, <1>8, <1>9 DEF Backoffice, ConclusionCommits
<1>10. CASE Reader \/ UNCHANGED vars
  <2>1. UNCHANGED stored
    BY <1>10 DEF Reader, Begin, Lookup, ReadRecord, ReadNemesis, ReadLog, ReadEntries,
                 ReadTotals, End, vars, stored, tables
  <2>2. /\ closing' = closing /\ account' = account /\ There' = There /\ board' = board
    BY <2>1 DEF stored, tables, There
  <2>3. QED
    BY <1>2, <2>2
<1>11. QED
  BY <1>1, <1>3, <1>9, <1>10 DEF Next, ConclusionEnds

LEMMA SoundInvariant == Spec => [](Boards /\ Paid /\ Planned)
BY InitSound, SoundStep, PlannedStep, PTL DEF Spec

--------------------------------------------------------------------------------
(* The log.                                                                *)

\* A row of the log is a side of a played match, whose player has an account.
LEMMA RowsOfTheLog ==
  ASSUME NEW q, q # NoPlayer, NEW row
  PROVE  row \in LogOf(q) <=>
           \E t \in There : \E p \in DOMAIN board[t] :
             /\ InLog(t, p) /\ q \in account
             /\ \/ q = board[t][p].a /\ row = SideRow(t, p, q, board[t][p].b)
                \/ q = board[t][p].b /\ row = SideRow(t, p, q, board[t][p].a)
<1>1. row \in PlayerMatches <=>
        \E t \in There : \E p \in DOMAIN board[t] :
          /\ InLog(t, p)
          /\ \/ row = SideRow(t, p, board[t][p].a, board[t][p].b)
             \/ row = SideRow(t, p, board[t][p].b, board[t][p].a)
  <2> DEFINE Played == UNION {{t} \X {p \in DOMAIN board[t] : InLog(t, p)} : t \in There}
             Side(t, p) == \/ row = SideRow(t, p, board[t][p].a, board[t][p].b)
                           \/ row = SideRow(t, p, board[t][p].b, board[t][p].a)
  <2>1. \A x : x \in Played <=> \E t \in There : \E p \in DOMAIN board[t] :
                                 InLog(t, p) /\ x = <<t, p>>
    OBVIOUS
  <2>  HIDE DEF Played
  <2>2. row \in PlayerMatches <=> \E x \in Played : Side(x[1], x[2])
    BY DEF PlayerMatches, Played
  <2>3. \A t, p : <<t, p>>[1] = t /\ <<t, p>>[2] = p
    OBVIOUS
  <2>  HIDE DEF Side
  <2>4. ASSUME NEW x \in Played, Side(x[1], x[2])
        PROVE  \E t \in There : \E p \in DOMAIN board[t] : InLog(t, p) /\ Side(t, p)
    <3>1. PICK t \in There : \E p \in DOMAIN board[t] : InLog(t, p) /\ x = <<t, p>>
      BY <2>1
    <3>2. PICK p \in DOMAIN board[t] : InLog(t, p) /\ x = <<t, p>>
      BY <3>1
    <3>3. Side(t, p)
      BY <2>3, <2>4, <3>2
    <3>4. QED
      BY <3>2, <3>3
  <2>5. ASSUME NEW t \in There, NEW p \in DOMAIN board[t], InLog(t, p), Side(t, p)
        PROVE  \E x \in Played : Side(x[1], x[2])
    <3>1. <<t, p>> \in Played
      BY <2>1, <2>5
    <3>2. Side(<<t, p>>[1], <<t, p>>[2])
      BY <2>3, <2>5
    <3>3. QED
      BY <3>1, <3>2
  <2>6. row \in PlayerMatches <=>
          \E t \in There : \E p \in DOMAIN board[t] : InLog(t, p) /\ Side(t, p)
    BY <2>2, <2>4, <2>5
  <2>7. QED
    BY <2>6 DEF Side
<1>2. \A t, p, me, other : SideRow(t, p, me, other).player = PlayerOf(me)
  BY DEF SideRow
<1>3. \A me : PlayerOf(me) = q <=> me = q /\ q \in account
  BY DEF PlayerOf
<1>4. QED
  BY <1>1, <1>2, <1>3 DEF LogOf

LEMMA SideRowFields ==
  ASSUME NEW t, NEW p, NEW me, NEW other
  PROVE  LET row == SideRow(t, p, me, other)
         IN  /\ row.tour = t /\ row.round = p[1] /\ row.slot = p[2]
             /\ row.player = PlayerOf(me) /\ row.opponent = PlayerOf(other)
             /\ row.won <=> board[t][p].winner = me
BY DEF SideRow

\* The wins of the log in a concluded tournament are those of its bracket.
LEMMA LoggedWins ==
  ASSUME Boards
  PROVE  \A s : s \in {MatchRef(row.tour, <<row.round, row.slot>>) :
                        row \in {won \in WonBy(LogOf(Owner)) :
                                  status[won.tour] = "concluded" /\ won.tour \notin raced}}
               <=> \E t \in There \ raced :
                     /\ status[t] = "concluded" /\ Owner \in account
                     /\ s \in WinRefs(t, board[t])
<1>1. Owner # NoPlayer
  BY PlayersAssumption DEF Players
<1>2. ASSUME NEW row \in WonBy(LogOf(Owner)),
             status[row.tour] = "concluded" /\ row.tour \notin raced
      PROVE  \E t \in There \ raced : /\ status[t] = "concluded" /\ Owner \in account
                                     /\ MatchRef(row.tour, <<row.round, row.slot>>)
                                          \in WinRefs(t, board[t])
  <2>1. row \in LogOf(Owner) /\ row.won
    BY DEF WonBy
  <2>2. PICK t \in There : \E p \in DOMAIN board[t] :
          /\ InLog(t, p) /\ Owner \in account
          /\ \/ row = SideRow(t, p, Owner, board[t][p].b)
             \/ row = SideRow(t, p, Owner, board[t][p].a)
    BY <1>1, <2>1, RowsOfTheLog
  <2>  PICK p \in DOMAIN board[t] :
          /\ InLog(t, p) /\ Owner \in account
          /\ \/ row = SideRow(t, p, Owner, board[t][p].b)
             \/ row = SideRow(t, p, Owner, board[t][p].a)
    BY <2>2
  <2>3. /\ row.tour = t /\ row.round = p[1] /\ row.slot = p[2]
        /\ board[t][p].winner = Owner
    BY <2>1, <2>2, SideRowFields
  <2>4. p \in WonIn(board[t])
    BY <2>2, <2>3 DEF WonIn, InLog
  <2>5. MatchRef(row.tour, <<row.round, row.slot>>) = MatchRef(t, p)
    BY <2>3 DEF MatchRef
  <2>6. QED
    BY <1>2, <2>2, <2>3, <2>4, <2>5 DEF WinRefs
<1>3. ASSUME NEW t \in There \ raced, status[t] = "concluded", Owner \in account,
             NEW p \in WonIn(board[t])
      PROVE  \E row \in WonBy(LogOf(Owner)) :
               /\ status[row.tour] = "concluded" /\ row.tour \notin raced
               /\ MatchRef(t, p) = MatchRef(row.tour, <<row.round, row.slot>>)
  <2>1. p \in DOMAIN board[t] /\ IsPlayed(board[t][p]) /\ board[t][p].winner = Owner
    BY DEF WonIn
  <2>2. SoundBracket(board[t], t) /\ t \in Tour
    BY <1>3 DEF Boards
  <2>3. Owner \in {board[t][p].a, board[t][p].b}
    BY <2>1, <2>2, SoundMatches DEF IsPlayed
  <2>4. InLog(t, p)
    BY <1>3, <2>1 DEF InLog
  <2>5. PICK other : /\ other \in {board[t][p].a, board[t][p].b}
                     /\ SideRow(t, p, Owner, other) \in LogOf(Owner)
    BY <1>1, <1>3, <2>1, <2>3, <2>4, RowsOfTheLog
  <2> DEFINE row == SideRow(t, p, Owner, other)
  <2>6. row.tour = t /\ row.round = p[1] /\ row.slot = p[2] /\ row.won
    BY <2>1, SideRowFields
  <2>7. MatchRef(t, p) = MatchRef(row.tour, <<row.round, row.slot>>)
    BY <2>6 DEF MatchRef
  <2>8. row \in WonBy(LogOf(Owner))
    BY <2>5, <2>6 DEF WonBy
  <2>9. QED
    BY <1>3, <2>6, <2>7, <2>8
<1> DEFINE Rows == {won \in WonBy(LogOf(Owner)) :
                      status[won.tour] = "concluded" /\ won.tour \notin raced}
           Ref(row) == MatchRef(row.tour, <<row.round, row.slot>>)
           IsPaid(s) == \E t \in There \ raced :
                          /\ status[t] = "concluded" /\ Owner \in account
                          /\ s \in WinRefs(t, board[t])
<1>4. ASSUME NEW row \in Rows
      PROVE  IsPaid(Ref(row))
  BY <1>2
<1>5. ASSUME NEW s, IsPaid(s)
      PROVE  \E row \in Rows : s = Ref(row)
  <2>1. PICK t \in There \ raced : /\ status[t] = "concluded" /\ Owner \in account
                                  /\ s \in WinRefs(t, board[t])
    BY <1>5
  <2>2. PICK p \in WonIn(board[t]) : s = MatchRef(t, p)
    BY <2>1 DEF WinRefs
  <2>3. QED
    BY <1>3, <2>1, <2>2
<1>6. ASSUME NEW s
      PROVE  s \in {Ref(row) : row \in Rows} <=> IsPaid(s)
  <2>  HIDE DEF Rows, Ref, IsPaid
  <2>1. QED
    BY <1>4, <1>5
<1>7. QED
  BY <1>6

\* Whatever was corrected before a conclusion reads the bracket and whoever leaves at any
\* moment, a player is paid for exactly the wins the match log shows in concluded
\* tournaments (tournament_awards and the view player_matches), but for those whose
\* bracket was written between a conclusion's read and its commit, which set_status does
\* not see.
THEOREM PaidForTheLog == Spec => []WinsArePaid
<1>1. ASSUME Boards, Paid
      PROVE  WinsArePaid
  <2> DEFINE logged == {MatchRef(row.tour, <<row.round, row.slot>>) :
                          row \in {won \in WonBy(LogOf(Owner)) :
                                    status[won.tour] = "concluded" /\ won.tour \notin raced}}
             paid   == {row.source : row \in {r \in ledger :
                                    r.kind = "match_win" /\ r.tour \notin raced}}
  <2>1. \A s : s \in paid <=>
          \E t \in There \ raced : status[t] = "concluded" /\ s \in PaidRefs(t)
    BY <1>1 DEF Paid, PaidRefs, WinRows
  <2>2. \A t \in There \ raced : status[t] = "concluded" =>
          PaidRefs(t) = IF Owner \in account THEN WinRefs(t, board[t]) ELSE {}
    BY <1>1 DEF Paid
  <2>3. \A s : s \in logged <=>
          \E t \in There \ raced : /\ status[t] = "concluded" /\ Owner \in account
                                  /\ s \in WinRefs(t, board[t])
    BY <1>1, LoggedWins
  <2>  HIDE DEF logged, paid
  <2>4. logged = paid
    BY <2>1, <2>2, <2>3
  <2>5. QED
    BY <2>4 DEF WinsArePaid, logged, paid
<1>2. QED
  BY <1>1, SoundInvariant, PTL

--------------------------------------------------------------------------------
(* Orders: the first of a finite set, and keys of four columns.            *)

\* A finite set has a first element in a strict total order.
LEMMA FirstOfFinite ==
  ASSUME NEW S, IsFiniteSet(S), S # {}, NEW R,
         \A x \in S : <<x, x>> \notin R,
         \A x, y, z \in S : <<x, y>> \in R /\ <<y, z>> \in R => <<x, z>> \in R,
         \A x, y \in S : x # y => <<x, y>> \in R \/ <<y, x>> \in R
  PROVE  \E x \in S : \A y \in S \ {x} : <<x, y>> \in R
<1> DEFINE Ahead(x) == {y \in S : <<y, x>> \in R}
           T == {Ahead(x) : x \in S}
           Less == StrictSubsetOrdering(S)
<1>1. T \subseteq FiniteSubsetsOf(S) /\ T # {}
  <2>1. \A x \in S : Ahead(x) \in SUBSET S /\ IsFiniteSet(Ahead(x))
    BY FS_Subset
  <2>2. \A x \in S : Ahead(x) \in FiniteSubsetsOf(S)
    BY <2>1 DEF FiniteSubsetsOf
  <2>  HIDE DEF Ahead
  <2>3. QED
    BY <2>2
<1>2. PICK A \in T : \A C \in T : <<C, A>> \notin Less
  <2>  HIDE DEF T, Less
  <2>1. IsWellFoundedOn(Less, FiniteSubsetsOf(S))
    BY FS_StrictSubsetOrderingWellFounded DEF Less
  <2>2. QED
    BY <1>1, <2>1, WFMin
<1>3. PICK x \in S : A = Ahead(x)
  BY <1>2
<1>4. ASSUME NEW y \in S, <<y, x>> \in R
      PROVE  FALSE
  <2>1. Ahead(y) \subseteq Ahead(x) /\ y \in Ahead(x) /\ y \notin Ahead(y)
    BY <1>4
  <2>2. <<Ahead(y), Ahead(x)>> \in Less
    BY <2>1 DEF StrictSubsetOrdering
  <2>3. QED
    BY <1>2, <1>3, <2>2
<1>5. QED
  BY <1>4

\* Keys of two and of four columns, column by column.
Lex(a, b, c, d) == a < c \/ (a = c /\ b < d)

LEMMA FourColumns ==
  ASSUME NEW a \in Int, NEW b \in Int, NEW c \in Int, NEW d \in Int
  PROVE  <<a>> \o <<b, c>> \o <<d>> = <<a, b, c, d>>
<1> DEFINE s == <<a>> \o <<b, c>>
           e == <<d>>
           t == s \o e
<1>1. e \in Seq(Int) /\ Len(e) = 1 /\ e[1] = d
  OBVIOUS
<1>2. s \in Seq(Int) /\ Len(s) = 3 /\ s[1] = a /\ s[2] = b /\ s[3] = c
  OBVIOUS
<1>  HIDE DEF s, e
<1>3. t \in Seq(Int) /\ Len(t) = 4 /\ t[1] = a /\ t[2] = b /\ t[3] = c /\ t[4] = d
  <2>1. /\ t \in Seq(Int) /\ Len(t) = 4
        /\ \A i \in 1..4 : t[i] = IF i <= 3 THEN s[i] ELSE e[i - 3]
    <3>1. /\ t \in Seq(Int) /\ Len(t) = Len(s) + Len(e)
          /\ \A i \in 1 .. Len(s) + Len(e) :
               t[i] = IF i <= Len(s) THEN s[i] ELSE e[i - Len(s)]
      <4>1. s \in Seq(Int) /\ e \in Seq(Int)
        BY <1>1, <1>2
      <4>2. QED
        BY <4>1, ConcatProperties, Zenon
    <3>2. Len(s) = 3 /\ Len(e) = 1 /\ 3 + 1 = 4
      BY <1>1, <1>2
    <3>  HIDE DEF t
    <3>3. QED
      BY <3>1, <3>2
  <2>2. /\ 1 \in 1..4 /\ 2 \in 1..4 /\ 3 \in 1..4 /\ 4 \in 1..4 /\ 4 - 3 = 1
        /\ 1 <= 3 /\ 2 <= 3 /\ 3 <= 3 /\ ~(4 <= 3)
    OBVIOUS
  <2>  HIDE DEF t
  <2>3. t[1] = s[1] /\ t[2] = s[2] /\ t[3] = s[3] /\ t[4] = e[1]
    BY <2>1, <2>2
  <2>4. QED
    BY <1>1, <1>2, <2>1, <2>3
<1>  HIDE DEF t
<1>4. t = <<t[1], t[2], t[3], t[4]>>
  BY <1>3
<1>5. t = <<a, b, c, d>>
  BY <1>3, <1>4
<1>6. QED
  BY <1>5 DEF t, s, e

LEMMA BeforeOfFour ==
  ASSUME NEW a \in Int, NEW b \in Int, NEW c \in Int, NEW d \in Int,
         NEW e \in Int, NEW f \in Int, NEW g \in Int, NEW h \in Int
  PROVE  Before(<<a, b, c, d>>, <<e, f, g, h>>) <=>
           a < e \/ (a = e /\ (b < f \/ (b = f /\ Lex(c, d, g, h))))
<1> DEFINE k == <<a, b, c, d>>
           l == <<e, f, g, h>>
<1>1. /\ DOMAIN k = 1..4
      /\ k[1] = a /\ k[2] = b /\ k[3] = c /\ k[4] = d
      /\ l[1] = e /\ l[2] = f /\ l[3] = g /\ l[4] = h
  OBVIOUS
<1>2. /\ 1..1-1 = {} /\ 1..2-1 = {1} /\ 1..3-1 = {1, 2} /\ 1..4-1 = {1, 2, 3}
      /\ 1..4 = {1, 2, 3, 4}
  OBVIOUS
<1>  HIDE DEF k, l
<1>3. Before(k, l) <=>
                      \/ k[1] < l[1]
                      \/ k[2] < l[2] /\ k[1] = l[1]
                      \/ k[3] < l[3] /\ k[1] = l[1] /\ k[2] = l[2]
                      \/ k[4] < l[4] /\ k[1] = l[1] /\ k[2] = l[2] /\ k[3] = l[3]
  BY <1>1, <1>2 DEF Before
<1>4. QED
  BY <1>1, <1>3 DEF Lex, k, l

--------------------------------------------------------------------------------
(* The losses of the owner, and the last one to an opponent.               *)

Losses      == LostBy(LogOf(Owner))
LossesTo(o) == LostBy(Against(Owner, o))

LEMMA LossOf ==
  ASSUME Boards, NEW row \in Losses
  PROVE  \E t \in There : \E p \in DOMAIN board[t] :
           /\ t \in Tour /\ SoundBracket(board[t], t) /\ p \in Position
           /\ board[t][p].winner # Owner
           /\ \E other \in Players :
                /\ {board[t][p].a, board[t][p].b} = {Owner, other}
                /\ row = SideRow(t, p, Owner, other)
                /\ other # Owner
<1>1. row \in LogOf(Owner) /\ ~row.won
  BY DEF Losses, LostBy
<1>2. Owner # NoPlayer /\ Owner # NoEntrant
  BY PlayersAssumption DEF Players
<1>3. PICK t \in There : \E p \in DOMAIN board[t] :
         /\ InLog(t, p) /\ Owner \in account
         /\ \/ Owner = board[t][p].a /\ row = SideRow(t, p, Owner, board[t][p].b)
            \/ Owner = board[t][p].b /\ row = SideRow(t, p, Owner, board[t][p].a)
  BY <1>1, <1>2, RowsOfTheLog
<1>  PICK p \in DOMAIN board[t] :
         /\ InLog(t, p) /\ Owner \in account
         /\ \/ Owner = board[t][p].a /\ row = SideRow(t, p, Owner, board[t][p].b)
            \/ Owner = board[t][p].b /\ row = SideRow(t, p, Owner, board[t][p].a)
  BY <1>3
<1>4. t \in Tour /\ SoundBracket(board[t], t)
  BY DEF Boards, NoMatches
<1>5. /\ p \in Position /\ board[t][p] \in Match(Drawn(t))
      /\ board[t][p].a = board[t][p].b => board[t][p].a = NoEntrant
  BY <1>4, SoundMatches
<1>6. IsReady(board[t][p])
  BY DEF InLog, IsPlayed
<1>7. PICK other : /\ {board[t][p].a, board[t][p].b} = {Owner, other}
                   /\ row = SideRow(t, p, Owner, other)
                   /\ other \in {board[t][p].a, board[t][p].b} /\ other # Owner
  BY <1>2, <1>5, <1>6 DEF IsReady
<1>8. other \in Players
  BY <1>4, <1>5, <1>6, <1>7, DrawnArePlayers DEF IsReady, Match
<1>9. board[t][p].winner # Owner
  BY <1>1, <1>7, SideRowFields
<1>10. QED
  BY <1>4, <1>5, <1>7, <1>8, <1>9

\* A tournament is lost once: the owner has at most one loss in each.
LEMMA OneLossEach ==
  ASSUME Boards, NEW r \in Losses, NEW s \in Losses, r.tour = s.tour
  PROVE  r = s
<1>1. Owner # NoEntrant
  BY PlayersAssumption DEF Players
<1>2. PICK t \in There : \E p \in DOMAIN board[t] :
         /\ t \in Tour /\ SoundBracket(board[t], t) /\ p \in Position
         /\ board[t][p].winner # Owner
         /\ \E other \in Players :
              /\ {board[t][p].a, board[t][p].b} = {Owner, other}
              /\ r = SideRow(t, p, Owner, other)
              /\ other # Owner
  BY LossOf
<1>3. PICK p \in DOMAIN board[t], x \in Players :
         /\ board[t][p].winner # Owner
         /\ {board[t][p].a, board[t][p].b} = {Owner, x}
         /\ r = SideRow(t, p, Owner, x)
         /\ x # Owner
  BY <1>2
<1>4. PICK u \in There : \E q \in DOMAIN board[u] :
         /\ u \in Tour /\ SoundBracket(board[u], u) /\ q \in Position
         /\ board[u][q].winner # Owner
         /\ \E other \in Players :
              /\ {board[u][q].a, board[u][q].b} = {Owner, other}
              /\ s = SideRow(u, q, Owner, other)
              /\ other # Owner
  BY LossOf
<1>5. PICK q \in DOMAIN board[u], y \in Players :
         /\ board[u][q].winner # Owner
         /\ {board[u][q].a, board[u][q].b} = {Owner, y}
         /\ s = SideRow(u, q, Owner, y)
         /\ y # Owner
  BY <1>4
<1>6. t = u
  BY <1>3, <1>5, SideRowFields
<1>7. p = q
  <2>1. Bracketed!SoundBracket(board[t], Drawn(t))
    BY <1>2 DEF SoundBracket
  <2>2. Owner \in {board[t][p].a, board[t][p].b} /\ Owner \in {board[t][q].a, board[t][q].b}
    BY <1>3, <1>5, <1>6
  <2>3. /\ p \in DOMAIN board[t] /\ q \in DOMAIN board[t]
        /\ board[t][p].winner # Owner /\ board[t][q].winner # Owner
    BY <1>3, <1>5, <1>6
  <2> DEFINE B == board[t]
             E == Drawn(t)
  <2>4. /\ Bracketed!SoundBracket(B, E) /\ p \in DOMAIN B /\ q \in DOMAIN B
        /\ Owner \in {B[p].a, B[p].b} /\ Owner \in {B[q].a, B[q].b}
        /\ B[p].winner # Owner /\ B[q].winner # Owner
    BY <2>1, <2>2, <2>3
  <2>  HIDE DEF B, E
  <2>5. QED
    BY <1>1, <2>4, AsAssumed, Bracketed!LosesOnce
<1>8. x = y
  BY <1>3, <1>5, <1>6, <1>7
<1>9. QED
  BY <1>3, <1>5, <1>6, <1>7, <1>8

LEMMA LossKeys ==
  ASSUME Boards, NEW row \in Losses
  PROVE  /\ row.tour \in Tour
         /\ -day[row.tour] \in Int /\ -CreatedAt[row.tour] \in Int
         /\ -row.round \in Int /\ row.slot \in Int
<1>1. PICK t \in There : \E p \in DOMAIN board[t] :
         t \in Tour /\ p \in Position /\ \E other : row = SideRow(t, p, Owner, other)
  BY LossOf
<1>2. PICK p \in Position : \E other : row = SideRow(t, p, Owner, other)
  BY <1>1
<1>3. p[1] \in Int /\ p[2] \in Int /\ day[t] \in Int /\ CreatedAt[t] \in Int
  BY <1>1, DistinctKeys DEF Boards, Position
<1>4. row.tour = t /\ row.round = p[1] /\ row.slot = p[2]
  BY <1>2, SideRowFields
<1>5. QED
  BY <1>1, <1>3, <1>4

\* So the order of the log tells losses apart by their day and their tournament.
LEMMA LossOrder ==
  ASSUME Boards, NEW r \in Losses, NEW s \in Losses
  PROVE  /\ Before(MatchKey(r), MatchKey(s)) <=>
              Lex(-day[r.tour], -CreatedAt[r.tour], -day[s.tour], -CreatedAt[s.tour])
         /\ -CreatedAt[r.tour] = -CreatedAt[s.tour] => r = s
<1>1. /\ r.tour \in Tour /\ -day[r.tour] \in Int /\ -CreatedAt[r.tour] \in Int
      /\ -r.round \in Int /\ r.slot \in Int
  BY LossKeys
<1>2. /\ s.tour \in Tour /\ -day[s.tour] \in Int /\ -CreatedAt[s.tour] \in Int
      /\ -s.round \in Int /\ s.slot \in Int
  BY LossKeys
<1>3. -CreatedAt[r.tour] = -CreatedAt[s.tour] => r = s
  <2>1. CreatedAt[r.tour] \in Int /\ CreatedAt[s.tour] \in Int
    BY <1>1, <1>2, DistinctKeys
  <2>2. -CreatedAt[r.tour] = -CreatedAt[s.tour] => r.tour = s.tour
    BY <1>1, <1>2, <2>1, DistinctKeys
  <2>3. QED
    BY <2>2, OneLossEach
<1> DEFINE a == -day[r.tour]
           b == -CreatedAt[r.tour]
           c == -day[s.tour]
           d == -CreatedAt[s.tour]
           e == -r.round
           f == -s.round
           g == r.slot
           h == s.slot
<1>4. /\ MatchKey(r) = <<a, b, e, g>> /\ MatchKey(s) = <<c, d, f, h>>
      /\ a \in Int /\ b \in Int /\ c \in Int /\ d \in Int
      /\ e \in Int /\ f \in Int /\ g \in Int /\ h \in Int
      /\ b = d => r = s
  BY <1>1, <1>2, <1>3 DEF MatchKey
<1>5. r = s => e = f /\ g = h
  OBVIOUS
<1>  HIDE DEF a, b, c, d, e, f, g, h
<1>6. Before(<<a, b, e, g>>, <<c, d, f, h>>) <=>
        a < c \/ (a = c /\ (b < d \/ (b = d /\ Lex(e, g, f, h))))
  <2>1. /\ a \in Int /\ b \in Int /\ c \in Int /\ d \in Int
        /\ e \in Int /\ f \in Int /\ g \in Int /\ h \in Int
    BY <1>4
  <2>2. QED
    BY <2>1, BeforeOfFour
<1>7. Before(MatchKey(r), MatchKey(s)) <=> Lex(a, b, c, d)
  BY <1>4, <1>5, <1>6 DEF Lex
<1>8. QED
  BY <1>3, <1>7 DEF a, b, c, d

LEMMA LossesAreFinite ==
  ASSUME Boards
  PROVE  /\ IsFiniteSet(Losses)
         /\ \A o : /\ LossesTo(o) = {row \in Losses : row.opponent = o}
                  /\ IsFiniteSet(LossesTo(o)) /\ Cardinality(LossesTo(o)) \in Nat
<1> DEFINE D == (Tour \X Position) \X Players
           S == {SideRow(x[1][1], x[1][2], Owner, x[2]) : x \in D}
           f == [x \in D |-> SideRow(x[1][1], x[1][2], Owner, x[2])]
<1>1. IsFiniteSet(D)
  <2>1. IsFiniteSet(1..8) /\ IsFiniteSet(0..127)
    <3>1. 0 \in Int /\ 1 \in Int /\ 8 \in Int /\ 127 \in Int
      OBVIOUS
    <3>2. QED
      BY <3>1, FS_Interval, Zenon
  <2>2. IsFiniteSet(Position)
    BY <2>1, FS_Product DEF Position
  <2>3. IsFiniteSet(Tour \X Position)
    BY <2>2, PlayersAssumption, FS_Product
  <2>4. QED
    BY <2>3, PlayersAssumption, FS_Product
<1>2. f \in Surjection(D, S)
  <2>  DEFINE Row(x) == SideRow(x[1][1], x[1][2], Owner, x[2])
  <2>  HIDE DEF D, Row
  <2>1. [x \in D |-> Row(x)] \in Surjection(D, {Row(x) : x \in D})
    BY DEF Surjection
  <2>2. QED
    BY <2>1 DEF Row
<1>3. IsFiniteSet(S)
  <2>  HIDE DEF D, S, f
  <2>1. QED
    BY <1>1, <1>2, FS_Surjection
<1>4. Losses \subseteq S
  <2>  SUFFICES ASSUME NEW row \in Losses
                PROVE  row \in S
    OBVIOUS
  <2>1. PICK t \in There : \E p \in DOMAIN board[t] :
          /\ t \in Tour /\ p \in Position
          /\ \E other \in Players : row = SideRow(t, p, Owner, other)
    BY LossOf
  <2>2. PICK p \in Position, other \in Players : row = SideRow(t, p, Owner, other)
    BY <2>1
  <2>3. <<<<t, p>>, other>> \in D
    BY <2>1, <2>2
  <2>  DEFINE x == <<<<t, p>>, other>>
  <2>4. row = SideRow(x[1][1], x[1][2], Owner, x[2])
    BY <2>2
  <2>5. QED
    BY <2>3, <2>4
<1>5. IsFiniteSet(Losses)
  BY <1>3, <1>4, FS_Subset
<1>6. ASSUME NEW o
      PROVE  LossesTo(o) = {row \in Losses : row.opponent = o}
  BY DEF LossesTo, Losses, LostBy, Against
<1>7. ASSUME NEW o
      PROVE  IsFiniteSet(LossesTo(o)) /\ Cardinality(LossesTo(o)) \in Nat
  BY <1>5, <1>6, FS_Subset, FS_CardinalityType
<1>8. QED
  BY <1>5, <1>6, <1>7

\* The order of the losses is transitive.
LEMMA BeforeTransitive ==
  ASSUME Boards, NEW x \in Losses, NEW y \in Losses, NEW z \in Losses,
         Before(MatchKey(x), MatchKey(y)), Before(MatchKey(y), MatchKey(z))
  PROVE  Before(MatchKey(x), MatchKey(z))
<1> DEFINE a == -day[x.tour]
           b == -CreatedAt[x.tour]
           c == -day[y.tour]
           d == -CreatedAt[y.tour]
           e == -day[z.tour]
           f == -CreatedAt[z.tour]
<1>1. /\ a \in Int /\ b \in Int /\ c \in Int /\ d \in Int /\ e \in Int /\ f \in Int
      /\ Lex(a, b, c, d) /\ Lex(c, d, e, f)
      /\ Lex(a, b, e, f) => Before(MatchKey(x), MatchKey(z))
  BY LossKeys, LossOrder
<1>  HIDE DEF a, b, c, d, e, f
<1>2. Lex(a, b, e, f)
  BY <1>1 DEF Lex
<1>3. QED
  BY <1>1, <1>2

\* Whoever beat the owner did so for a last time, which is what Latest reads.
LastTo(o) == CHOOSE row \in LossesTo(o) : \A other \in LossesTo(o) :
               other # row => Before(MatchKey(row), MatchKey(other))

LEMMA LastLoss ==
  ASSUME Boards, NEW o, LossesTo(o) # {}
  PROVE  LET last == LastTo(o)
         IN  /\ last \in LossesTo(o)
             /\ \A loss \in LossesTo(o) : loss # last => Before(MatchKey(last), MatchKey(loss))
             /\ Latest(LossesTo(o)) = <<-day[last.tour], -CreatedAt[last.tour]>>
<1> DEFINE L == LossesTo(o)
           R == {x \in L \X L : Before(MatchKey(x[1]), MatchKey(x[2]))}
<1>1. IsFiniteSet(L) /\ L \subseteq Losses
  BY LossesAreFinite
<1>  HIDE DEF L
<1>2. \A x, y \in L : <<x, y>> \in R <=> Before(MatchKey(x), MatchKey(y))
  OBVIOUS
<1>  HIDE DEF R
<1>3. \A x, y \in L :
        /\ <<x, y>> \in R <=>
             Lex(-day[x.tour], -CreatedAt[x.tour], -day[y.tour], -CreatedAt[y.tour])
        /\ -CreatedAt[x.tour] = -CreatedAt[y.tour] => x = y
        /\ -day[x.tour] \in Int /\ -CreatedAt[x.tour] \in Int
  BY <1>1, <1>2, LossOrder, LossKeys
<1>4. \A x \in L : <<x, x>> \notin R
  BY <1>3 DEF Lex
<1>5. \A x, y, z \in L : <<x, y>> \in R /\ <<y, z>> \in R => <<x, z>> \in R
  BY <1>1, <1>2, BeforeTransitive
<1>6. \A x, y \in L : x # y => <<x, y>> \in R \/ <<y, x>> \in R
  BY <1>3 DEF Lex
<1>7. \E x \in L : \A y \in L \ {x} : <<x, y>> \in R
  BY <1>1, <1>4, <1>5, <1>6, FirstOfFinite DEF L
<1> DEFINE last == LastTo(o)
<1>8. last = CHOOSE row \in L : \A other \in L :
               other # row => Before(MatchKey(row), MatchKey(other))
  BY DEF LastTo, L
<1>9. Latest(L) = <<-day[last.tour], -CreatedAt[last.tour]>>
  BY <1>8 DEF Latest
<1>  HIDE DEF last
<1>10. /\ last \in L
       /\ \A loss \in L : loss # last => Before(MatchKey(last), MatchKey(loss))
  BY <1>2, <1>7, <1>8
<1>11. QED
  BY <1>9, <1>10 DEF L, last

--------------------------------------------------------------------------------
(* The nemesis.                                                            *)

Rivals == {o \in account \ {Owner} : Cardinality(LossesTo(o)) >= NemesisMinLosses}

\* The key of a rival: how often, how long ago, and the handle.
LEMMA RivalKey ==
  ASSUME Boards, NEW o \in Rivals
  PROVE  LET last == LastTo(o)
         IN  /\ NemesisKey(Owner, o) = <<-Cardinality(LossesTo(o)), -day[last.tour],
                                         -CreatedAt[last.tour], HandleOrder[o]>>
             /\ -Cardinality(LossesTo(o)) \in Int
             /\ -day[last.tour] \in Int /\ -CreatedAt[last.tour] \in Int
             /\ HandleOrder[o] \in Int
             /\ last \in LossesTo(o) /\ last \in Losses /\ last.opponent = o
             /\ \A loss \in LossesTo(o) : loss # last => Before(MatchKey(last), MatchKey(loss))
<1>1. Cardinality(LossesTo(o)) \in Nat /\ Cardinality(LossesTo(o)) >= 2 /\ o \in Players
  BY LossesAreFinite DEF Rivals, NemesisMinLosses, Boards
<1>2. LossesTo(o) # {}
  BY <1>1, FS_EmptySet
<1> DEFINE last == LastTo(o)
<1>3. /\ last \in LossesTo(o)
      /\ \A loss \in LossesTo(o) : loss # last => Before(MatchKey(last), MatchKey(loss))
      /\ Latest(LossesTo(o)) = <<-day[last.tour], -CreatedAt[last.tour]>>
  BY <1>2, LastLoss
<1>4. last \in Losses /\ last.opponent = o
  BY <1>3, LossesAreFinite
<1>5. -day[last.tour] \in Int /\ -CreatedAt[last.tour] \in Int
  BY <1>4, LossKeys
<1>6. HandleOrder[o] \in Int
  BY <1>1, DistinctKeys
<1>7. NemesisKey(Owner, o) = <<-Cardinality(LossesTo(o))>> \o Latest(LossesTo(o))
                               \o <<HandleOrder[o]>>
  BY DEF NemesisKey, LossesTo
<1>8. -Cardinality(LossesTo(o)) \in Int
  BY <1>1
<1>9. NemesisKey(Owner, o) = <<-Cardinality(LossesTo(o)), -day[last.tour],
                              -CreatedAt[last.tour], HandleOrder[o]>>
  BY <1>3, <1>5, <1>6, <1>7, <1>8, FourColumns
<1>10. QED
  BY <1>1, <1>3, <1>4, <1>5, <1>6, <1>9

\* The nemesis is the first of the rivals.
LEMMA FirstRival ==
  ASSUME Boards
  PROVE  LET n == NemesisOf(Owner).opponent
         IN  IF Rivals = {} THEN n = NoPlayer
             ELSE /\ n \in Rivals /\ n # NoPlayer
                  /\ \A q \in Rivals \ {n} :
                       Before(NemesisKey(Owner, n), NemesisKey(Owner, q))
<1> DEFINE R == {x \in Rivals \X Rivals :
                   Before(NemesisKey(Owner, x[1]), NemesisKey(Owner, x[2]))}
           c(o) == -Cardinality(LossesTo(o))
           y(o) == -day[LastTo(o).tour]
           t(o) == -CreatedAt[LastTo(o).tour]
           h(o) == HandleOrder[o]
<1>1. \A o, q \in Rivals : <<o, q>> \in R <=>
        Before(NemesisKey(Owner, o), NemesisKey(Owner, q))
  OBVIOUS
<1>2. \A o \in Rivals : /\ NemesisKey(Owner, o) = <<c(o), y(o), t(o), h(o)>>
                        /\ c(o) \in Int /\ y(o) \in Int /\ t(o) \in Int /\ h(o) \in Int
  BY RivalKey
<1>3. Rivals \subseteq Players /\ IsFiniteSet(Rivals)
  BY PlayersAssumption, FS_Subset DEF Rivals, Boards
<1>4. \A o, q \in Rivals : h(o) = h(q) => o = q
  BY <1>3, DistinctKeys
<1>  HIDE DEF R, c, y, t, h
<1>5. \A o, q \in Rivals : <<o, q>> \in R <=>
        c(o) < c(q) \/ (c(o) = c(q) /\
          (y(o) < y(q) \/ (y(o) = y(q) /\ Lex(t(o), h(o), t(q), h(q)))))
  <2>  SUFFICES ASSUME NEW o \in Rivals, NEW q \in Rivals
                PROVE  Before(<<c(o), y(o), t(o), h(o)>>, <<c(q), y(q), t(q), h(q)>>) <=>
                         c(o) < c(q) \/ (c(o) = c(q) /\
                           (y(o) < y(q) \/ (y(o) = y(q) /\ Lex(t(o), h(o), t(q), h(q)))))
    BY <1>1, <1>2
  <2>1. /\ c(o) \in Int /\ y(o) \in Int /\ t(o) \in Int /\ h(o) \in Int
        /\ c(q) \in Int /\ y(q) \in Int /\ t(q) \in Int /\ h(q) \in Int
    BY <1>2
  <2>  DEFINE co == c(o)  yo == y(o)  to == t(o)  ho == h(o)
              cq == c(q)  yq == y(q)  tq == t(q)  hq == h(q)
  <2>2. /\ co \in Int /\ yo \in Int /\ to \in Int /\ ho \in Int
        /\ cq \in Int /\ yq \in Int /\ tq \in Int /\ hq \in Int
    BY <2>1
  <2>  HIDE DEF co, yo, to, ho, cq, yq, tq, hq
  <2>3. Before(<<co, yo, to, ho>>, <<cq, yq, tq, hq>>) <=>
          co < cq \/ (co = cq /\ (yo < yq \/ (yo = yq /\ Lex(to, ho, tq, hq))))
    BY <2>2, BeforeOfFour
  <2>4. QED
    BY <2>3 DEF co, yo, to, ho, cq, yq, tq, hq
<1>6. \A o \in Rivals : <<o, o>> \notin R
  BY <1>2, <1>5 DEF Lex
<1>7. \A o, q, r \in Rivals : <<o, q>> \in R /\ <<q, r>> \in R => <<o, r>> \in R
  BY <1>2, <1>5 DEF Lex
<1>8. \A o, q \in Rivals : o # q => <<o, q>> \in R \/ <<q, o>> \in R
  BY <1>2, <1>4, <1>5 DEF Lex
<1> DEFINE n == NemesisOf(Owner).opponent
           first == CHOOSE o \in Rivals : \A q \in Rivals \ {o} :
                      Before(NemesisKey(Owner, o), NemesisKey(Owner, q))
<1>9. n = IF Rivals = {} THEN NoPlayer ELSE first
  BY DEF NemesisOf, Rivals, LossesTo, NoRivalry
<1>10. CASE Rivals = {}
  BY <1>9, <1>10
<1>11. CASE Rivals # {}
  <2>1. \E o \in Rivals : \A q \in Rivals \ {o} : <<o, q>> \in R
    BY <1>3, <1>6, <1>7, <1>8, <1>11, FirstOfFinite
  <2>2. /\ first \in Rivals
        /\ \A q \in Rivals \ {first} :
             Before(NemesisKey(Owner, first), NemesisKey(Owner, q))
    BY <1>1, <2>1
  <2>3. first # NoPlayer
    BY <1>3, <2>2, PlayersAssumption
  <2>  HIDE DEF first
  <2>4. QED
    BY <1>9, <1>11, <2>2, <2>3
<1>12. QED
  BY <1>10, <1>11

\* The nemesis stands out (nemesis in match_storage.rs): no opponent with an account
\* has more wins over the owner, and one with as many won the last of them longer ago.
THEOREM NemesisIsTheWorst == Spec => []NemesisStandsOut
<1>1. ASSUME Boards
      PROVE  NemesisStandsOut
  <2> DEFINE n == NemesisOf(Owner).opponent
  <2>  SUFFICES ASSUME NEW o \in account \ {Owner, n}
                PROVE  IF n = NoPlayer THEN Cardinality(LossesTo(o)) < NemesisMinLosses
                       ELSE \/ Cardinality(LossesTo(o)) < Cardinality(LossesTo(n))
                            \/ /\ Cardinality(LossesTo(o)) = Cardinality(LossesTo(n))
                               /\ \E last \in LossesTo(n) : \A loss \in LossesTo(o) :
                                    Before(MatchKey(last), MatchKey(loss))
    BY DEF NemesisStandsOut, LossesTo
  <2>1. /\ Cardinality(LossesTo(o)) \in Nat /\ Cardinality(LossesTo(n)) \in Nat
        /\ o \notin Rivals => Cardinality(LossesTo(o)) < NemesisMinLosses
        /\ n \in Rivals => Cardinality(LossesTo(n)) >= NemesisMinLosses
    BY <1>1, LossesAreFinite DEF Rivals, NemesisMinLosses
  <2>2. IF Rivals = {} THEN n = NoPlayer
        ELSE /\ n \in Rivals /\ n # NoPlayer
             /\ \A q \in Rivals \ {n} : Before(NemesisKey(Owner, n), NemesisKey(Owner, q))
    BY <1>1, FirstRival
  <2>  HIDE DEF n
  <2>3. CASE o \notin Rivals
    BY <2>1, <2>2, <2>3 DEF NemesisMinLosses
  <2>4. CASE o \in Rivals
    <3> DEFINE a == LastTo(n)
               b == LastTo(o)
    <3>1. /\ n \in Rivals /\ n # NoPlayer
          /\ Before(NemesisKey(Owner, n), NemesisKey(Owner, o))
      BY <2>2, <2>4
    <3>2. /\ NemesisKey(Owner, n) = <<-Cardinality(LossesTo(n)), -day[a.tour],
                                     -CreatedAt[a.tour], HandleOrder[n]>>
          /\ -Cardinality(LossesTo(n)) \in Int /\ -day[a.tour] \in Int
          /\ -CreatedAt[a.tour] \in Int /\ HandleOrder[n] \in Int
          /\ a \in LossesTo(n) /\ a \in Losses /\ a.opponent = n
      BY <1>1, <3>1, RivalKey
    <3>3. /\ NemesisKey(Owner, o) = <<-Cardinality(LossesTo(o)), -day[b.tour],
                                     -CreatedAt[b.tour], HandleOrder[o]>>
          /\ -Cardinality(LossesTo(o)) \in Int /\ -day[b.tour] \in Int
          /\ -CreatedAt[b.tour] \in Int /\ HandleOrder[o] \in Int
          /\ b \in LossesTo(o) /\ b \in Losses /\ b.opponent = o
          /\ \A loss \in LossesTo(o) : loss # b => Before(MatchKey(b), MatchKey(loss))
      BY <1>1, <2>4, RivalKey
    <3>  HIDE DEF a, b
    <3>4. \/ -Cardinality(LossesTo(n)) < -Cardinality(LossesTo(o))
          \/ /\ -Cardinality(LossesTo(n)) = -Cardinality(LossesTo(o))
             /\ \/ -day[a.tour] < -day[b.tour]
                \/ /\ -day[a.tour] = -day[b.tour]
                   /\ Lex(-CreatedAt[a.tour], HandleOrder[n],
                          -CreatedAt[b.tour], HandleOrder[o])
      <4>1. /\ -Cardinality(LossesTo(n)) \in Int /\ -day[a.tour] \in Int
            /\ -CreatedAt[a.tour] \in Int /\ HandleOrder[n] \in Int
            /\ -Cardinality(LossesTo(o)) \in Int /\ -day[b.tour] \in Int
            /\ -CreatedAt[b.tour] \in Int /\ HandleOrder[o] \in Int
        BY <3>2, <3>3
      <4>2. Before(<<-Cardinality(LossesTo(n)), -day[a.tour], -CreatedAt[a.tour],
                     HandleOrder[n]>>,
                   <<-Cardinality(LossesTo(o)), -day[b.tour], -CreatedAt[b.tour],
                     HandleOrder[o]>>)
        BY <3>1, <3>2, <3>3
      <4> DEFINE u == -Cardinality(LossesTo(n))
                 v == -day[a.tour]
                 w == -CreatedAt[a.tour]
                 x == -Cardinality(LossesTo(o))
                 y == -day[b.tour]
                 z == -CreatedAt[b.tour]
                 k == HandleOrder[n]
                 l == HandleOrder[o]
      <4>3. /\ u \in Int /\ v \in Int /\ w \in Int /\ x \in Int /\ y \in Int /\ z \in Int
            /\ k \in Int /\ l \in Int
            /\ Before(<<u, v, w, k>>, <<x, y, z, l>>)
        BY <4>1, <4>2
      <4>  HIDE DEF u, v, w, x, y, z, k, l
      <4>4. /\ u \in Int /\ v \in Int /\ w \in Int /\ k \in Int
            /\ x \in Int /\ y \in Int /\ z \in Int /\ l \in Int
        BY <4>3
      <4>5. Before(<<u, v, w, k>>, <<x, y, z, l>>) <=>
              u < x \/ (u = x /\ (v < y \/ (v = y /\ Lex(w, k, z, l))))
        BY <4>4, BeforeOfFour
      <4>6. u < x \/ (u = x /\ (v < y \/ (v = y /\ Lex(w, k, z, l))))
        BY <4>3, <4>5
      <4>7. QED
        BY ONLY <4>6, Zenon DEF u, v, w, x, y, z, k, l
    <3>5. a # b
      BY <3>2, <3>3
    <3>6. -CreatedAt[a.tour] # -CreatedAt[b.tour]
      BY <1>1, <3>2, <3>3, <3>5, LossOrder
    <3>7. CASE -Cardinality(LossesTo(n)) < -Cardinality(LossesTo(o))
      BY <2>1, <3>1, <3>7
    <3>8. CASE ~(-Cardinality(LossesTo(n)) < -Cardinality(LossesTo(o)))
      <4>1. /\ Cardinality(LossesTo(n)) = Cardinality(LossesTo(o))
            /\ Lex(-day[a.tour], -CreatedAt[a.tour], -day[b.tour], -CreatedAt[b.tour])
        BY <2>1, <3>2, <3>3, <3>4, <3>6, <3>8 DEF Lex
      <4>2. Before(MatchKey(a), MatchKey(b))
        BY <1>1, <3>2, <3>3, <4>1, LossOrder
      <4>3. ASSUME NEW loss \in LossesTo(o)
            PROVE  Before(MatchKey(a), MatchKey(loss))
        BY <1>1, <3>2, <3>3, <4>2, BeforeTransitive, LossesAreFinite
      <4>4. QED
        BY <3>1, <3>2, <4>1, <4>3
    <3>9. QED
      BY <3>7, <3>8
  <2>5. QED
    BY <2>3, <2>4
<1>2. QED
  BY <1>1, SoundInvariant, PTL

--------------------------------------------------------------------------------
(* Places in an order, and the window of a page.                           *)

\* In a strict total order of a finite set everybody has a place of his own, and no
\* place is left out.
LEMMA PlacesInOrder ==
  ASSUME NEW S, IsFiniteSet(S), NEW R,
         \A x \in S : <<x, x>> \notin R,
         \A x, y, z \in S : <<x, y>> \in R /\ <<y, z>> \in R => <<x, z>> \in R,
         \A x, y \in S : x # y => <<x, y>> \in R \/ <<y, x>> \in R
  PROVE  [x \in S |-> Cardinality({y \in S : <<y, x>> \in R})]
           \in Bijection(S, 0 .. Cardinality(S) - 1)
<1> DEFINE Ahead(x) == {y \in S : <<y, x>> \in R}
           n == Cardinality(S)
           T == 0 .. n - 1
           f == [x \in S |-> Cardinality(Ahead(x))]
<1>1. n \in Nat
  BY FS_CardinalityType
<1>2. ASSUME NEW x \in S
      PROVE  IsFiniteSet(Ahead(x)) /\ f[x] \in T
  <2>1. Ahead(x) \in SUBSET S /\ Ahead(x) # S
    OBVIOUS
  <2>  HIDE DEF Ahead
  <2>2. IsFiniteSet(Ahead(x)) /\ Cardinality(Ahead(x)) <= n /\ Cardinality(Ahead(x)) # n
    BY <2>1, FS_Subset
  <2>3. Cardinality(Ahead(x)) \in Nat
    BY <2>2, FS_CardinalityType
  <2>4. QED
    BY <1>1, <2>2, <2>3
<1>3. ASSUME NEW x \in S, NEW y \in S, <<x, y>> \in R
      PROVE  f[x] # f[y]
  <2>1. Ahead(x) \in SUBSET Ahead(y) /\ Ahead(x) # Ahead(y)
    BY <1>3
  <2>2. IsFiniteSet(Ahead(y))
    BY <1>2
  <2>  HIDE DEF Ahead
  <2>3. Cardinality(Ahead(y)) # Cardinality(Ahead(x))
    BY <2>1, <2>2, FS_Subset
  <2>4. QED
    BY <2>3
<1>4. f \in Injection(S, T)
  <2>1. f \in [S -> T]
    BY <1>2
  <2>  HIDE DEF f
  <2>2. QED
    BY <1>3, <2>1 DEF Injection, IsInjective
<1>5. IsFiniteSet(T) /\ Cardinality(T) = n
  <2>1. 0 \in Int /\ n - 1 \in Int
    BY <1>1
  <2>2. IsFiniteSet(T) /\ Cardinality(T) = IF 0 > n - 1 THEN 0 ELSE (n - 1) - 0 + 1
    BY <2>1, FS_Interval
  <2>3. QED
    BY <1>1, <2>2
<1>  HIDE DEF f, T
<1>6. f \in Surjection(S, T)
  BY <1>4, <1>5, FS_Injection
<1>7. QED
  BY <1>4, <1>6 DEF Bijection, f, T

\* A window over the places holds what is left from its start, up to its length.
LEMMA WindowSize ==
  ASSUME NEW S, IsFiniteSet(S), NEW f \in Bijection(S, 0 .. Cardinality(S) - 1),
         NEW off \in Nat, NEW lim \in Nat \ {0}
  PROVE  Cardinality({x \in S : f[x] \in off .. off + lim - 1}) =
           LET left == Cardinality(S) - off
           IN  IF left < 0 THEN 0 ELSE IF left < lim THEN left ELSE lim
<1> DEFINE n == Cardinality(S)
           W == {x \in S : f[x] \in off .. off + lim - 1}
           top == IF n < off + lim THEN n ELSE off + lim
           I == off .. top - 1
           g == [x \in W |-> f[x]]
<1>1. n \in Nat /\ IsFiniteSet(W)
  BY FS_CardinalityType, FS_Subset
<1>2. /\ f \in [S -> 0 .. n - 1]
      /\ \A x, y \in S : f[x] = f[y] => x = y
      /\ \A i \in 0 .. n - 1 : \E x \in S : f[x] = i
  BY DEF Bijection, Injection, IsInjective, Surjection
<1>  HIDE DEF n
<1>3. \A i : i \in I <=> i \in 0 .. n - 1 /\ i \in off .. off + lim - 1
  BY <1>1
<1>  HIDE DEF I
<1>4. g \in [W -> I]
  BY <1>2, <1>3
<1>5. g \in Injection(W, I)
  BY <1>2, <1>4 DEF Injection, IsInjective
<1>6. g \in Surjection(W, I)
  <2>1. ASSUME NEW i \in I
        PROVE  \E x \in W : g[x] = i
    <3>1. PICK x \in S : f[x] = i
      BY <1>2, <1>3
    <3>2. x \in W
      BY <1>3, <3>1
    <3>3. QED
      BY <3>1, <3>2
  <2>  HIDE DEF g
  <2>2. QED
    BY <1>4, <2>1 DEF Surjection
<1>  HIDE DEF g, W
<1>7. Cardinality(W) = Cardinality(I)
  BY <1>1, <1>5, <1>6, FS_Bijection DEF ExistsBijection, Bijection
<1>8. top - 1 \in Int /\ off \in Int
  BY <1>1
<1>9. Cardinality(off .. top - 1) = IF off > top - 1 THEN 0 ELSE (top - 1) - off + 1
  BY <1>8, FS_Interval
<1>10. QED
  BY <1>1, <1>7, <1>9 DEF W, I, n

\* A page is past the last one when the pages before it hold all rows.
LEMMA PagesRoundUp ==
  ASSUME NEW n \in Nat, NEW p \in Nat \ {0}, NEW s \in Nat \ {0}
  PROVE  p > (n + s - 1) \div s <=> n <= (p - 1) * s
<1> DEFINE q == (n + s - 1) \div s
<1>1. q \in Int /\ q * s <= n + s - 1 /\ n + s - 1 < q * s + s
  OBVIOUS
<1>  HIDE DEF q
<1>2. (p - 1) * s = p * s - s
  OBVIOUS
<1>3. p > q => p * s >= q * s + s
  <2>1. p > q => p - (q + 1) \in Nat
    BY <1>1
  <2>2. p > q => (p - (q + 1)) * s \in Nat
    BY <2>1
  <2>3. (p - (q + 1)) * s = p * s - q * s - s
    BY <1>1
  <2>4. p * s \in Int /\ q * s \in Int
    BY <1>1
  <2>5. QED
    BY <2>2, <2>3, <2>4
<1>4. p <= q => p * s <= q * s
  <2>1. p <= q => q - p \in Nat
    BY <1>1
  <2>2. p <= q => (q - p) * s \in Nat
    BY <2>1
  <2>3. (q - p) * s = q * s - p * s
    BY <1>1
  <2>4. p * s \in Int /\ q * s \in Int
    BY <1>1
  <2>5. QED
    BY <2>2, <2>3, <2>4
<1>5. p * s \in Int /\ q * s \in Int
  BY <1>1
<1>6. QED
  BY <1>1, <1>2, <1>3, <1>4, <1>5 DEF q

\* A page of rows whose keys tell them apart is full unless it is the last, empty only
\* past the last one, and all there is when it is as long as the list (paginate).
LEMMA PageIsFull ==
  ASSUME NEW S, IsFiniteSet(S), NEW key, NEW query \in [page : Nat \ {0}, size : 1..100],
         \A x \in S : ~Before(key[x], key[x]),
         \A x, y, z \in S : Before(key[x], key[y]) /\ Before(key[y], key[z])
                              => Before(key[x], key[z]),
         \A x, y \in S : x # y => Before(key[x], key[y]) \/ Before(key[y], key[x])
  PROVE  LET items == PageOf(S, key, query)
             n     == Cardinality(S)
             left  == n - Offset(query)
         IN  /\ n \in Nat
             /\ items \subseteq S /\ IsFiniteSet(items)
             /\ Cardinality(items) = IF left < 0 THEN 0 ELSE IF left < Limit(query) THEN left
                                                              ELSE Limit(query)
             /\ items = {} <=> query.page > TotalPages(n, query)
             /\ Cardinality(items) = n => items = S
<1> DEFINE items == PageOf(S, key, query)
           n   == Cardinality(S)
           R   == {x \in S \X S : Before(key[x[1]], key[x[2]])}
           f   == [x \in S |-> Cardinality({y \in S : <<y, x>> \in R})]
           off == (query.page - 1) * query.size
           lim == query.size
<1>1. n \in Nat
  BY FS_CardinalityType
<1>2. \A x, y \in S : <<x, y>> \in R <=> Before(key[x], key[y])
  OBVIOUS
<1>  HIDE DEF R
<1>3. f \in Bijection(S, 0 .. n - 1)
  <2>1. /\ \A x \in S : <<x, x>> \notin R
        /\ \A x, y, z \in S : <<x, y>> \in R /\ <<y, z>> \in R => <<x, z>> \in R
        /\ \A x, y \in S : x # y => <<x, y>> \in R \/ <<y, x>> \in R
    BY <1>2
  <2>2. QED
    BY <2>1, PlacesInOrder
<1>4. query.page \in Nat \ {0} /\ lim \in Nat \ {0}
  OBVIOUS
<1>5. off \in Nat
  <2>1. query.page - 1 \in Nat
    BY <1>4
  <2>2. QED
    BY <1>4, <2>1
<1>6. \A x \in S : {other \in S : Before(key[other], key[x])} = {y \in S : <<y, x>> \in R}
  BY <1>2
<1>7. items = {x \in S : f[x] \in off .. off + lim - 1}
  BY <1>6 DEF PageOf, Offset, Limit
<1>8. Cardinality(items) = IF n - off < 0 THEN 0 ELSE IF n - off < lim THEN n - off ELSE lim
  <2>  HIDE DEF f, off, lim, n
  <2>1. QED
    BY <1>3, <1>4, <1>5, <1>7, WindowSize DEF n
<1>9. items \subseteq S /\ IsFiniteSet(items)
  BY <1>7, FS_Subset
<1>10. items = {} <=> n <= off
  <2>1. items = {} <=> Cardinality(items) = 0
    BY <1>9, FS_EmptySet
  <2>  HIDE DEF items, off, lim, n
  <2>2. QED
    BY <1>1, <1>4, <1>5, <1>8, <2>1
<1>11. query.page > TotalPages(n, query) <=> n <= off
  BY <1>1, <1>4, PagesRoundUp DEF TotalPages
<1>12. Cardinality(items) = n => items = S
  BY <1>9, FS_Subset
<1>13. Offset(query) = off /\ Limit(query) = lim
  BY DEF Offset, Limit
<1>14. QED
  BY <1>1, <1>8, <1>9, <1>10, <1>11, <1>12, <1>13

\* Keys of two columns.
LEMMA BeforeOfTwo ==
  ASSUME NEW a \in Int, NEW b \in Int, NEW c \in Int, NEW d \in Int
  PROVE  Before(<<a, b>>, <<c, d>>) <=> Lex(a, b, c, d)
<1> DEFINE k == <<a, b>>
           l == <<c, d>>
<1>1. /\ DOMAIN k = 1..2 /\ k[1] = a /\ k[2] = b /\ l[1] = c /\ l[2] = d
      /\ 1..1-1 = {} /\ 1..2-1 = {1} /\ 1..2 = {1, 2}
  OBVIOUS
<1>  HIDE DEF k, l
<1>2. Before(k, l) <=> k[1] < l[1] \/ (k[2] < l[2] /\ k[1] = l[1])
  BY <1>1 DEF Before
<1>3. QED
  BY <1>1, <1>2 DEF Lex, k, l

--------------------------------------------------------------------------------
(* The pages of the log.                                                   *)

\* A row of the owner's log is the owner's side of a match of a sound bracket.
LEMMA OwnRow ==
  ASSUME Boards, NEW row \in LogOf(Owner)
  PROVE  \E t \in There : \E p \in DOMAIN board[t] :
           /\ t \in Tour /\ p \in Position /\ day[t] \in Int
           /\ \E other \in Players :
                /\ {board[t][p].a, board[t][p].b} = {Owner, other}
                /\ row = SideRow(t, p, Owner, other)
                /\ other # Owner
<1>1. Owner # NoPlayer /\ Owner # NoEntrant
  BY PlayersAssumption DEF Players
<1>2. PICK t \in There : \E p \in DOMAIN board[t] :
         /\ InLog(t, p) /\ Owner \in account
         /\ \/ Owner = board[t][p].a /\ row = SideRow(t, p, Owner, board[t][p].b)
            \/ Owner = board[t][p].b /\ row = SideRow(t, p, Owner, board[t][p].a)
  BY <1>1, RowsOfTheLog
<1>  PICK p \in DOMAIN board[t] :
         /\ InLog(t, p) /\ Owner \in account
         /\ \/ Owner = board[t][p].a /\ row = SideRow(t, p, Owner, board[t][p].b)
            \/ Owner = board[t][p].b /\ row = SideRow(t, p, Owner, board[t][p].a)
  BY <1>2
<1>3. t \in Tour /\ SoundBracket(board[t], t) /\ day[t] \in Int
  BY DEF Boards, NoMatches
<1>4. /\ p \in Position /\ board[t][p] \in Match(Drawn(t))
      /\ board[t][p].a = board[t][p].b => board[t][p].a = NoEntrant
  BY <1>3, SoundMatches
<1>5. IsReady(board[t][p])
  BY DEF InLog, IsPlayed
<1>6. PICK other : /\ {board[t][p].a, board[t][p].b} = {Owner, other}
                   /\ row = SideRow(t, p, Owner, other)
                   /\ other \in {board[t][p].a, board[t][p].b} /\ other # Owner
  BY <1>1, <1>4, <1>5 DEF IsReady
<1>7. other \in Players
  BY <1>3, <1>4, <1>5, <1>6, DrawnArePlayers DEF IsReady, Match
<1>8. QED
  BY <1>3, <1>4, <1>6, <1>7

\* Its columns order the log, and no two rows have the same.
LEMMA OwnRowKey ==
  ASSUME Boards, NEW row \in LogOf(Owner)
  PROVE  /\ row.tour \in Tour /\ CreatedAt[row.tour] \in Int
         /\ -day[row.tour] \in Int /\ -CreatedAt[row.tour] \in Int
         /\ row.round \in Int /\ -row.round \in Int /\ row.slot \in Int
<1>1. PICK t \in There : \E p \in DOMAIN board[t] :
         /\ t \in Tour /\ p \in Position /\ day[t] \in Int
         /\ \E other : row = SideRow(t, p, Owner, other)
  BY OwnRow
<1>2. PICK p \in Position : \E other : row = SideRow(t, p, Owner, other)
  BY <1>1
<1>3. p[1] \in Int /\ p[2] \in Int /\ day[t] \in Int /\ CreatedAt[t] \in Int
  BY <1>1, DistinctKeys DEF Position
<1>4. row.tour = t /\ row.round = p[1] /\ row.slot = p[2]
  BY <1>2, SideRowFields
<1>5. QED
  BY <1>1, <1>3, <1>4

LEMMA OneRowEach ==
  ASSUME Boards, NEW r \in LogOf(Owner), NEW s \in LogOf(Owner),
         r.tour = s.tour, r.round = s.round, r.slot = s.slot
  PROVE  r = s
<1>1. PICK t \in There : \E p \in DOMAIN board[t] :
         /\ p \in Position
         /\ \E other \in Players :
              /\ {board[t][p].a, board[t][p].b} = {Owner, other}
              /\ r = SideRow(t, p, Owner, other)
              /\ other # Owner
  BY OwnRow
<1>2. PICK p \in DOMAIN board[t], x \in Players :
         /\ p \in Position
         /\ {board[t][p].a, board[t][p].b} = {Owner, x}
         /\ r = SideRow(t, p, Owner, x)
         /\ x # Owner
  BY <1>1
<1>3. PICK u \in There : \E q \in DOMAIN board[u] :
         /\ q \in Position
         /\ \E other \in Players :
              /\ {board[u][q].a, board[u][q].b} = {Owner, other}
              /\ s = SideRow(u, q, Owner, other)
              /\ other # Owner
  BY OwnRow
<1>4. PICK q \in DOMAIN board[u], y \in Players :
         /\ q \in Position
         /\ {board[u][q].a, board[u][q].b} = {Owner, y}
         /\ s = SideRow(u, q, Owner, y)
         /\ y # Owner
  BY <1>3
<1>5. t = u /\ p[1] = q[1] /\ p[2] = q[2]
  BY <1>2, <1>4, SideRowFields
<1>6. p = q
  BY <1>2, <1>4, <1>5 DEF Position
<1>7. x = y
  BY <1>2, <1>4, <1>5, <1>6
<1>8. QED
  BY <1>2, <1>4, <1>5, <1>6, <1>7

LEMMA LogIsFinite ==
  ASSUME Boards
  PROVE  IsFiniteSet(LogOf(Owner))
<1> DEFINE D == (Tour \X Position) \X Players
           Row(x) == SideRow(x[1][1], x[1][2], Owner, x[2])
<1>1. IsFiniteSet(D)
  <2>1. IsFiniteSet(1..8) /\ IsFiniteSet(0..127)
    <3>1. 0 \in Int /\ 1 \in Int /\ 8 \in Int /\ 127 \in Int
      OBVIOUS
    <3>2. QED
      BY <3>1, FS_Interval, Zenon
  <2>2. IsFiniteSet(Position)
    BY <2>1, FS_Product DEF Position
  <2>3. IsFiniteSet(Tour \X Position)
    BY <2>2, PlayersAssumption, FS_Product
  <2>4. QED
    BY <2>3, PlayersAssumption, FS_Product
<1>2. LogOf(Owner) \subseteq {Row(x) : x \in D}
  <2>  SUFFICES ASSUME NEW row \in LogOf(Owner)
                PROVE  \E x \in D : row = Row(x)
    OBVIOUS
  <2>1. PICK t \in There : \E p \in DOMAIN board[t] :
          /\ t \in Tour /\ p \in Position
          /\ \E other \in Players : row = SideRow(t, p, Owner, other)
    BY OwnRow
  <2>2. PICK p \in Position, other \in Players : row = SideRow(t, p, Owner, other)
    BY <2>1
  <2>  DEFINE x == <<<<t, p>>, other>>
  <2>3. x \in D
    BY <2>1, <2>2
  <2>4. row = Row(x)
    BY <2>2
  <2>5. QED
    BY <2>3, <2>4
<1>  HIDE DEF D, Row
<1>3. [x \in D |-> Row(x)] \in Surjection(D, {Row(x) : x \in D})
  BY DEF Surjection
<1>4. IsFiniteSet({Row(x) : x \in D})
  BY <1>1, <1>3, FS_Surjection
<1>5. QED
  BY <1>2, <1>4, FS_Subset

\* The order of the log is a strict and total one.
LEMMA LogOrder ==
  ASSUME Boards
  PROVE  LET L == LogOf(Owner)
             key == [row \in L |-> MatchKey(row)]
         IN  /\ \A x \in L : ~Before(key[x], key[x])
             /\ \A x, y, z \in L : Before(key[x], key[y]) /\ Before(key[y], key[z])
                                     => Before(key[x], key[z])
             /\ \A x, y \in L : x # y => Before(key[x], key[y]) \/ Before(key[y], key[x])
<1> DEFINE L == LogOf(Owner)
           Ahead(x, y) == Before(MatchKey(x), MatchKey(y))
           a(x) == -day[x.tour]
           b(x) == -CreatedAt[x.tour]
           c(x) == -x.round
<1>1. ASSUME NEW x \in L
      PROVE  a(x) \in Int /\ b(x) \in Int /\ c(x) \in Int /\ x.slot \in Int
  BY OwnRowKey
<1>2. ASSUME NEW x \in L, NEW y \in L
      PROVE  Ahead(x, y) <=>
               a(x) < a(y) \/ (a(x) = a(y) /\
                 (b(x) < b(y) \/ (b(x) = b(y) /\ Lex(c(x), x.slot, c(y), y.slot))))
  <2>  DEFINE xa == a(x)  xb == b(x)  xc == c(x)  xd == x.slot
              ya == a(y)  yb == b(y)  yc == c(y)  yd == y.slot
  <2>1. MatchKey(x) = <<xa, xb, xc, xd>> /\ MatchKey(y) = <<ya, yb, yc, yd>>
    BY DEF MatchKey
  <2>2. /\ xa \in Int /\ xb \in Int /\ xc \in Int /\ xd \in Int
        /\ ya \in Int /\ yb \in Int /\ yc \in Int /\ yd \in Int
    BY <1>1
  <2>  HIDE DEF xa, xb, xc, xd, ya, yb, yc, yd
  <2>3. Before(<<xa, xb, xc, xd>>, <<ya, yb, yc, yd>>) <=>
          xa < ya \/ (xa = ya /\ (xb < yb \/ (xb = yb /\ Lex(xc, xd, yc, yd))))
    BY <2>2, BeforeOfFour
  <2>4. Ahead(x, y) <=>
          xa < ya \/ (xa = ya /\ (xb < yb \/ (xb = yb /\ Lex(xc, xd, yc, yd))))
    BY <2>1, <2>3
  <2>5. QED
    BY <2>4 DEF xa, xb, xc, xd, ya, yb, yc, yd
<1>3. ASSUME NEW x \in L, NEW y \in L,
             a(x) = a(y), b(x) = b(y), c(x) = c(y), x.slot = y.slot
      PROVE  x = y
  <2>1. /\ x.tour \in Tour /\ CreatedAt[x.tour] \in Int /\ x.round \in Int
        /\ y.tour \in Tour /\ CreatedAt[y.tour] \in Int /\ y.round \in Int
    BY OwnRowKey
  <2>2. CreatedAt[x.tour] = CreatedAt[y.tour] /\ x.round = y.round
    BY <1>3, <2>1
  <2>3. x.tour = y.tour
    BY <2>1, <2>2, DistinctKeys
  <2>4. QED
    BY <1>3, <2>2, <2>3, OneRowEach
<1>  HIDE DEF L, a, b, c, Ahead
<1>4. \A x \in L : ~Ahead(x, x)
  BY <1>1, <1>2 DEF Lex
<1>5. \A x, y, z \in L : Ahead(x, y) /\ Ahead(y, z) => Ahead(x, z)
  <2>  SUFFICES ASSUME NEW x \in L, NEW y \in L, NEW z \in L, Ahead(x, y), Ahead(y, z)
                PROVE  Ahead(x, z)
    OBVIOUS
  <2>1. /\ a(x) \in Int /\ b(x) \in Int /\ c(x) \in Int /\ x.slot \in Int
        /\ a(y) \in Int /\ b(y) \in Int /\ c(y) \in Int /\ y.slot \in Int
        /\ a(z) \in Int /\ b(z) \in Int /\ c(z) \in Int /\ z.slot \in Int
    BY <1>1
  <2>2. /\ a(x) < a(y) \/ (a(x) = a(y) /\
              (b(x) < b(y) \/ (b(x) = b(y) /\ Lex(c(x), x.slot, c(y), y.slot))))
        /\ a(y) < a(z) \/ (a(y) = a(z) /\
              (b(y) < b(z) \/ (b(y) = b(z) /\ Lex(c(y), y.slot, c(z), z.slot))))
    BY <1>2
  <2>3. a(x) < a(z) \/ (a(x) = a(z) /\
              (b(x) < b(z) \/ (b(x) = b(z) /\ Lex(c(x), x.slot, c(z), z.slot))))
    BY <2>1, <2>2 DEF Lex
  <2>4. QED
    BY <1>2, <2>3
<1>6. \A x, y \in L : x # y => Ahead(x, y) \/ Ahead(y, x)
  BY <1>1, <1>2, <1>3 DEF Lex
<1>7. QED
  BY <1>4, <1>5, <1>6 DEF L, Ahead

--------------------------------------------------------------------------------
(* The rows of the ledger.                                                 *)

\* The ids of the payments of a tournament; no other tournament has them.
IdsOf(t) == 100 * CreatedAt[t] + 20 .. 100 * CreatedAt[t] + 68

LEMMA IdsAreApart ==
  ASSUME NEW t \in Tour, NEW u \in Tour, NEW i \in IdsOf(t)
  PROVE  i # 0 /\ (i \in IdsOf(u) => t = u)
<1>1. CreatedAt[t] \in Int /\ CreatedAt[u] \in Int
  BY DistinctKeys
<1>2. i \in IdsOf(u) => CreatedAt[t] = CreatedAt[u]
  BY <1>1 DEF IdsOf
<1>3. i # 0
  BY <1>1 DEF IdsOf
<1>4. QED
  BY <1>2, <1>3, DistinctKeys

LEMMA KindNumbers ==
  /\ \A kind \in {"entry", "match_win", "semifinalist", "finalist", "champion"} :
       \E k \in 2..6 : Kinds[k] = kind
  /\ \A k \in 2..6 : (CHOOSE i \in DOMAIN Kinds : Kinds[i] = Kinds[k]) = k
<1>1. /\ DOMAIN Kinds = 1..7
      /\ Kinds[1] = "checkin" /\ Kinds[2] = "entry" /\ Kinds[3] = "match_win"
      /\ Kinds[4] = "semifinalist" /\ Kinds[5] = "finalist" /\ Kinds[6] = "champion"
      /\ Kinds[7] = "adjustment"
  BY DEF Kinds
<1>2. \A kind \in {"entry", "match_win", "semifinalist", "finalist", "champion"} :
        \E k \in 2..6 : Kinds[k] = kind
  BY <1>1
<1>3. \A i, k \in 1..7 : Kinds[i] = Kinds[k] => i = k
  BY <1>1
<1>4. QED
  BY <1>1, <1>2, <1>3

LEMMA AmountsAreNumbers ==
  ASSUME NEW kind \in {"entry", "match_win", "semifinalist", "finalist", "champion"}, NEW n
  PROVE  PaidFor(kind, TierFor(n)) \in Int
<1>1. TierFor(n) \in {"small", "medium", "large"}
  BY DEF TierFor
<1>2. QED
  BY <1>1 DEF PaidFor, Placement

\* Of a conclusion the owner gets one award of a kind, and one win of a round.
LEMMA AwardRowIs ==
  ASSUME NEW t \in Tour, NEW B, SoundBracket(B, t), NEW accounts, NEW at,
         NEW row \in AwardRows(t, B, accounts, at)
  PROVE  \E k \in 2..6, s \in 0..8 :
           /\ row = [tour |-> t, kind |-> Kinds[k], source |-> row.source,
                     amount |-> PaidFor(Kinds[k], TierFor(Len(SeedOrder[t]))), at |-> at,
                     id |-> 100 * CreatedAt[t] + 10 * k + s]
           /\ IF k = 3 THEN \E p \in WonIn(B) : row.source = MatchRef(t, p) /\ s = p[1]
                       ELSE row.source = TournamentRef /\ s = 0
<1> DEFINE field  == [e \in Drawn(t) |-> IF e \in accounts THEN e ELSE NoPlayer]
           tier   == TierFor(Len(SeedOrder[t]))
           awards == {a \in TournamentAwards(field, B, t, NoEntrant) : a.player = Owner}
           others == {"entry", "semifinalist", "finalist", "champion"}
<1>1. PICK a \in awards :
         row = [tour |-> t, kind |-> a.kind, source |-> a.source,
                amount |-> PaidFor(a.kind, tier), at |-> at, id |-> IdOf(t, a)]
  BY DEF AwardRows
<1>2. B # NoMatches /\ DOMAIN B \subseteq Position
  BY SoundMatches
<1>3. \A e \in DOMAIN field : field[e] = Owner => e = Owner
  BY PlayersAssumption DEF Players
<1>  HIDE DEF field
<1>4. \A kind, e, source : \A x \in Pay(field, kind, e, source) :
        /\ x.kind = kind /\ x.source = source
        /\ e \in DOMAIN field /\ x.player = field[e]
  BY DEF Pay
<1>5. \/ a.kind \in others /\ a.source = TournamentRef
      \/ \E p \in WonIn(B) : a.kind = "match_win" /\ a.source = MatchRef(t, p)
  <2>1. ASSUME NEW p \in {q \in DOMAIN B : IsPlayed(B[q])},
               a \in Pay(field, "match_win", B[p].winner, MatchRef(t, p))
        PROVE  p \in WonIn(B) /\ a.kind = "match_win" /\ a.source = MatchRef(t, p)
    BY <1>3, <1>4, <2>1 DEF WonIn
  <2>2. a \in TournamentAwards(field, B, t, NoEntrant)
    OBVIOUS
  <2>  HIDE DEF awards
  <2>3. QED
    BY <1>2, <1>4, <2>1, <2>2 DEF TournamentAwards
<1>6. CASE a.kind \in others /\ a.source = TournamentRef
  <2>1. PICK k \in 2..6 : Kinds[k] = a.kind
    BY <1>6, KindNumbers
  <2>2. k # 3
    BY <1>6, <2>1 DEF Kinds
  <2>3. IdOf(t, a) = 100 * CreatedAt[t] + 10 * k + 0
    <3>1. a.source[2] = 0 /\ (CHOOSE i \in DOMAIN Kinds : Kinds[i] = a.kind) = k
      BY <1>6, <2>1, KindNumbers DEF TournamentRef
    <3>2. QED
      BY <3>1 DEF IdOf
  <2>4. 0 \in 0..8
    OBVIOUS
  <2>5. QED
    BY <1>1, <1>6, <2>1, <2>2, <2>3, <2>4
<1>7. ASSUME NEW p \in WonIn(B), a.kind = "match_win", a.source = MatchRef(t, p)
      PROVE  \E k \in 2..6, s \in 0..8 :
           /\ row = [tour |-> t, kind |-> Kinds[k], source |-> row.source,
                     amount |-> PaidFor(Kinds[k], TierFor(Len(SeedOrder[t]))), at |-> at,
                     id |-> 100 * CreatedAt[t] + 10 * k + s]
           /\ IF k = 3 THEN \E q \in WonIn(B) : row.source = MatchRef(t, q) /\ s = q[1]
                       ELSE row.source = TournamentRef /\ s = 0
  <2>1. Kinds[3] = a.kind /\ 3 \in 2..6
    BY <1>7 DEF Kinds
  <2>2. p[1] \in 0..8
    BY <1>2 DEF WonIn, Position
  <2>3. IdOf(t, a) = 100 * CreatedAt[t] + 10 * 3 + p[1]
    <3>1. a.source[2] = p[1] /\ (CHOOSE i \in DOMAIN Kinds : Kinds[i] = a.kind) = 3
      BY <1>7, <2>1, KindNumbers DEF MatchRef
    <3>2. QED
      BY <3>1 DEF IdOf
  <2>4. QED
    BY <1>1, <1>7, <2>1, <2>2, <2>3
<1>8. QED
  BY <1>5, <1>6, <1>7

\* The rows of a conclusion are finitely many, with amounts and with ids of their own.
LEMMA AwardRowsKeyed ==
  ASSUME NEW t \in Tour, NEW B, SoundBracket(B, t), NEW accounts, NEW at
  PROVE  /\ IsFiniteSet(AwardRows(t, B, accounts, at))
         /\ \A row \in AwardRows(t, B, accounts, at) :
              row.tour = t /\ row.at = at /\ row.amount \in Int /\ row.id \in IdsOf(t)
         /\ \A r, s \in AwardRows(t, B, accounts, at) : r.id = s.id => r = s
<1> DEFINE rows == AwardRows(t, B, accounts, at)
<1>1. CreatedAt[t] \in Int
  BY DistinctKeys
<1>2. ASSUME NEW row \in rows
      PROVE  row.tour = t /\ row.at = at /\ row.amount \in Int /\ row.id \in IdsOf(t)
  <2>1. PICK k \in 2..6, s \in 0..8 :
           row = [tour |-> t, kind |-> Kinds[k], source |-> row.source,
                  amount |-> PaidFor(Kinds[k], TierFor(Len(SeedOrder[t]))), at |-> at,
                  id |-> 100 * CreatedAt[t] + 10 * k + s]
    BY AwardRowIs
  <2>2. Kinds[k] \in {"entry", "match_win", "semifinalist", "finalist", "champion"}
    BY DEF Kinds
  <2>3. row.amount \in Int
    BY <2>1, <2>2, AmountsAreNumbers
  <2>4. row.id = 100 * CreatedAt[t] + 10 * k + s
    BY <2>1
  <2>5. row.id \in IdsOf(t)
    BY <1>1, <2>4 DEF IdsOf
  <2>6. QED
    BY <2>1, <2>3, <2>5
<1>3. ASSUME NEW r \in rows, NEW s \in rows, r.id = s.id
      PROVE  r = s
  <2>1. PICK k \in 2..6, i \in 0..8 :
           /\ r = [tour |-> t, kind |-> Kinds[k], source |-> r.source,
                   amount |-> PaidFor(Kinds[k], TierFor(Len(SeedOrder[t]))), at |-> at,
                   id |-> 100 * CreatedAt[t] + 10 * k + i]
           /\ IF k = 3 THEN \E p \in WonIn(B) : r.source = MatchRef(t, p) /\ i = p[1]
                       ELSE r.source = TournamentRef /\ i = 0
    BY AwardRowIs
  <2>2. PICK l \in 2..6, j \in 0..8 :
           /\ s = [tour |-> t, kind |-> Kinds[l], source |-> s.source,
                   amount |-> PaidFor(Kinds[l], TierFor(Len(SeedOrder[t]))), at |-> at,
                   id |-> 100 * CreatedAt[t] + 10 * l + j]
           /\ IF l = 3 THEN \E p \in WonIn(B) : s.source = MatchRef(t, p) /\ j = p[1]
                       ELSE s.source = TournamentRef /\ j = 0
    BY AwardRowIs
  <2>3. 100 * CreatedAt[t] + 10 * k + i = 100 * CreatedAt[t] + 10 * l + j
    BY <1>3, <2>1, <2>2
  <2>4. k = l /\ i = j
    BY <1>1, <2>3
  <2>5. ASSUME NEW p \in WonIn(B), NEW q \in WonIn(B), p[1] = q[1]
        PROVE  p = q
    <3>1. /\ p \in DOMAIN B /\ B[p].winner = Owner /\ q \in DOMAIN B /\ B[q].winner = Owner
          /\ Owner # NoEntrant
      BY PlayersAssumption DEF WonIn, Players
    <3>2. Owner \in {B[p].a, B[p].b} /\ Owner \in {B[q].a, B[q].b}
      BY <3>1, SoundMatches
    <3>3. Bracketed!OnceEach(B)
      BY DEF SoundBracket, Bracketed!SoundBracket
    <3>4. QED
      BY <2>5, <3>1, <3>2, <3>3 DEF Bracketed!OnceEach
  <2>6. r.source = s.source
    BY <2>1, <2>2, <2>4, <2>5
  <2>7. QED
    BY <2>1, <2>2, <2>4, <2>6
<1>4. IsFiniteSet(rows)
  <2> DEFINE f == [row \in rows |-> row.id]
  <2>1. f \in [rows -> IdsOf(t)]
    BY <1>2
  <2>2. \A r, s \in rows : f[r] = f[s] => r = s
    BY <1>3
  <2>  HIDE DEF f, rows
  <2>3. f \in Injection(rows, IdsOf(t))
    BY <2>1, <2>2 DEF Injection, IsInjective
  <2>4. 100 * CreatedAt[t] + 20 \in Int /\ 100 * CreatedAt[t] + 68 \in Int
    BY <1>1
  <2>5. IsFiniteSet(IdsOf(t))
    BY <2>4, FS_Interval DEF IdsOf
  <2>6. QED
    BY <2>3, <2>5, FS_Injection
<1>5. QED
  BY <1>2, <1>3, <1>4

\* The ledger of the owner: the check-in and the payments of tournaments that are
\* concluded, or were when they went; no two rows have one id.
Entries ==
  /\ now \in Int /\ IsFiniteSet(ledger)
  /\ \A row \in ledger :
       /\ row.amount \in Int /\ row.at \in Int
       /\ \/ row = CheckinRow
          \/ /\ row.tour \in Tour /\ row.id \in IdsOf(row.tour)
             /\ row.tour \in There => status[row.tour] = "concluded"
  /\ \A r, s \in ledger : r.id = s.id => r = s

LEMMA EntriesInit == Init => Entries
<1>  SUFFICES ASSUME Init
              PROVE  Entries
  OBVIOUS
<1> DEFINE at(t) == Cardinality({u \in Past : CreatedAt[u] <= CreatedAt[t]})
           rows(t) == AwardRows(t, board[t], Players, at(t))
<1>1. /\ There = Tour /\ \A t \in Past : t \in Tour /\ status[t] = "concluded"
  BY PlayersAssumption DEF Init, There
<1>2. IsFiniteSet(Past) /\ now = Cardinality(Past)
  <2>1. Past \in SUBSET Tour /\ IsFiniteSet(Tour)
    BY PlayersAssumption
  <2>2. QED
    BY <2>1, FS_Subset DEF Init
<1>3. ASSUME NEW t \in Past
      PROVE  at(t) \in Int
  BY <1>2, FS_Subset, FS_CardinalityType
<1>4. ASSUME NEW t \in Past
      PROVE  SoundBracket(board[t], t)
  <2>1. Boards /\ t \in There /\ status[t] = "concluded"
    BY <1>1, InitSound
  <2>2. QED
    BY <2>1 DEF Boards
<1>5. ledger = {CheckinRow} \cup UNION {rows(t) : t \in Past}
  BY DEF Init
<1>6. ASSUME NEW t \in Past
      PROVE  /\ IsFiniteSet(rows(t))
             /\ \A row \in rows(t) : /\ row.tour = t /\ row.at \in Int /\ row.amount \in Int
                                     /\ row.id \in IdsOf(t)
             /\ \A r, s \in rows(t) : r.id = s.id => r = s
  <2>1. at(t) \in Int /\ t \in Tour /\ SoundBracket(board[t], t)
    BY <1>1, <1>3, <1>4
  <2> DEFINE m == at(t)
  <2>  HIDE DEF m
  <2>2. /\ IsFiniteSet(AwardRows(t, board[t], Players, m))
        /\ \A row \in AwardRows(t, board[t], Players, m) :
             row.tour = t /\ row.at = m /\ row.amount \in Int /\ row.id \in IdsOf(t)
        /\ \A r, s \in AwardRows(t, board[t], Players, m) : r.id = s.id => r = s
    BY <2>1, AwardRowsKeyed
  <2>3. m \in Int /\ rows(t) = AwardRows(t, board[t], Players, m)
    BY <2>1 DEF m
  <2>4. QED
    BY <2>2, <2>3
<1>  HIDE DEF rows, at
<1>7. IsFiniteSet(ledger)
  <2>1. [t \in Past |-> rows(t)] \in Surjection(Past, {rows(t) : t \in Past})
    BY DEF Surjection
  <2>2. IsFiniteSet({rows(t) : t \in Past})
    BY <1>2, <2>1, FS_Surjection
  <2>3. IsFiniteSet(UNION {rows(t) : t \in Past})
    BY <1>6, <2>2, FS_UNION
  <2>4. IsFiniteSet({CheckinRow})
    BY FS_Singleton
  <2>5. QED
    BY <1>5, <2>3, <2>4, FS_Union
<1>8. CheckinRow.id = 0 /\ CheckinRow.at = 0 /\ CheckinRow.amount = 100
  BY DEF CheckinRow, PaidFor
<1>9. \A row \in ledger : row = CheckinRow \/ \E t \in Past : row \in rows(t)
  BY <1>5
<1>10. ASSUME NEW row \in ledger
       PROVE  /\ row.amount \in Int /\ row.at \in Int
              /\ \/ row = CheckinRow
                 \/ /\ row.tour \in Tour /\ row.id \in IdsOf(row.tour)
                    /\ row.tour \in There => status[row.tour] = "concluded"
  BY <1>1, <1>6, <1>8, <1>9
<1>11. ASSUME NEW r \in ledger, NEW s \in ledger, r.id = s.id
       PROVE  r = s
  BY <1>1, <1>6, <1>8, <1>9, <1>11, IdsAreApart
<1>12. now \in Int
  BY <1>2, FS_CardinalityType
<1>13. QED
  BY <1>7, <1>10, <1>11, <1>12 DEF Entries

\* Rows that go leave the others as they are.
LEMMA FewerEntries ==
  ASSUME Entries, ledger' \subseteq ledger, now' \in Int,
         \A t \in There' : t \in There /\ (status[t] = "concluded" => status'[t] = "concluded")
  PROVE  Entries'
<1>1. IsFiniteSet(ledger')
  BY FS_Subset DEF Entries
<1>2. \A row \in ledger' : row.tour \in There' => \/ row = CheckinRow
                                                  \/ status'[row.tour] = "concluded"
  BY DEF Entries
<1>3. QED
  BY <1>1, <1>2 DEF Entries, CheckinRow, IdsOf

\* A conclusion adds rows with new ids: its tournament was not concluded before.
LEMMA ConcludeEntries ==
  ASSUME Planned, Entries, NEW c \in closing, ConclusionCommits(c),
         status[c.tour] # "concluded"
  PROVE  Entries'
<1> DEFINE t == c.tour
           new == AwardRows(t, c.board, c.accounts, now + 1)
<1>1. /\ t \in There
      /\ status' = [status EXCEPT ![t] = "concluded"]
      /\ ledger' = ledger \cup new /\ now' = now + 1
  BY DEF ConclusionCommits
<1>2. /\ There' = There /\ status'[t] = "concluded" /\ t \in Tour
      /\ \A u \in There \ {t} : status'[u] = status[u]
      /\ SoundBracket(c.board, t)
  BY <1>1 DEF Planned, There
<1>3. now \in Int /\ now + 1 \in Int
  BY DEF Entries
<1>4. /\ IsFiniteSet(new)
      /\ \A row \in new : row.tour = t /\ row.at \in Int /\ row.amount \in Int
                           /\ row.id \in IdsOf(t)
      /\ \A r, s \in new : r.id = s.id => r = s
  BY <1>2, <1>3, AwardRowsKeyed
<1>  HIDE DEF new
<1>5. \A row \in ledger :
        row = CheckinRow \/ (row.tour \in Tour \ {t} /\ row.id \in IdsOf(row.tour))
  BY <1>1 DEF Entries
<1>6. CheckinRow.id = 0
  BY DEF CheckinRow
<1>7. ASSUME NEW r \in ledger, NEW s \in new
      PROVE  r.id # s.id
  BY <1>2, <1>4, <1>5, <1>6, IdsAreApart
<1>8. IsFiniteSet(ledger')
  BY <1>1, <1>4, FS_Union DEF Entries
<1>9. ASSUME NEW row \in ledger'
      PROVE  /\ row.amount \in Int /\ row.at \in Int
             /\ \/ row = CheckinRow
                \/ /\ row.tour \in Tour /\ row.id \in IdsOf(row.tour)
                   /\ row.tour \in There' => status'[row.tour] = "concluded"
  BY <1>1, <1>2, <1>4, <1>5 DEF Entries
<1>10. \A r, s \in ledger' : r.id = s.id => r = s
  BY <1>1, <1>4, <1>7 DEF Entries
<1>11. QED
  BY <1>1, <1>3, <1>8, <1>9, <1>10 DEF Entries, CheckinRow, IdsOf

LEMMA EntriesStep == Boards /\ Planned /\ Entries /\ [Next]_vars => Entries'
<1>  SUFFICES ASSUME Boards, Planned, Entries, [Next]_vars
              PROVE  Entries'
  OBVIOUS
<1>1. now \in Int
  BY DEF Entries
<1>2. CASE UNCHANGED <<status, ledger, now>>
  BY <1>1, <1>2, FewerEntries DEF There
<1>3. ASSUME NEW t \in There, GoLive(t)
      PROVE  Entries'
  <2>1. /\ status' = [status EXCEPT ![t] = "live"] /\ status[t] = "open"
        /\ ledger' = ledger /\ now' = now
    BY <1>3 DEF GoLive
  <2>2. \A u \in There' : u \in There /\ (status[u] = "concluded" => status'[u] = "concluded")
    BY <2>1 DEF There
  <2>3. QED
    BY <1>1, <2>1, <2>2, FewerEntries
<1>4. ASSUME NEW t \in There, DeleteTournament(t)
      PROVE  Entries'
  <2>1. /\ There' = There \ {t} /\ \A u \in There \ {t} : status'[u] = status[u]
        /\ ledger' \subseteq ledger /\ now' = now
    BY <1>4 DEF DeleteTournament, Drop, There
  <2>2. QED
    BY <1>1, <2>1, FewerEntries
<1>5. ASSUME NEW p \in Players, DeleteAccount(p)
      PROVE  Entries'
  <2>1. ledger' \subseteq ledger /\ status' = status /\ now' = now
    BY <1>5 DEF DeleteAccount
  <2>2. QED
    BY <1>1, <2>1, FewerEntries DEF There
<1>6. CASE RemoveCheckin
  BY <1>1, <1>6, FewerEntries DEF RemoveCheckin, There
<1>7. ASSUME NEW t \in There, \/ Draw(t) \/ \E d \in NewDays : MoveDate(t, d)
                              \/ \E p \in DOMAIN board[t] :
                                   \/ \E w \in {board[t][p].a, board[t][p].b} : Report(t, p, w)
                                   \/ Clear(t, p)
      PROVE  UNCHANGED <<status, ledger, now>>
  BY <1>7 DEF Draw, MoveDate, Report, Clear, WritesBoard
<1>8. CASE Reader \/ (\E t \in There : ConclusionReads(t)) \/ ConclusionEnds \/ UNCHANGED vars
  BY <1>2, <1>8 DEF Reader, Begin, Lookup, ReadRecord, ReadNemesis, ReadLog, ReadEntries,
     ReadTotals, End, ConclusionReads, ConclusionEnds, vars, stored, tables
<1>9. CASE Backoffice
  <2>1. ASSUME NEW c \in closing, ConclusionCommits(c)
        PROVE  Entries'
    BY <2>1, ConcludeEntries DEF ConclusionCommits, Planned
  <2>2. QED
    BY <1>2, <1>3, <1>4, <1>5, <1>6, <1>7, <1>9, <2>1 DEF Backoffice
<1>10. QED
  BY <1>8, <1>9 DEF Next

\* A history is in the order of its payments.
LEMMA EntryOrder ==
  ASSUME Entries
  PROVE  LET key == [row \in ledger |-> EntryKey(row)]
         IN  /\ \A x \in ledger : ~Before(key[x], key[x])
             /\ \A x, y, z \in ledger : Before(key[x], key[y]) /\ Before(key[y], key[z])
                                         => Before(key[x], key[z])
             /\ \A x, y \in ledger : x # y => Before(key[x], key[y]) \/ Before(key[y], key[x])
<1> DEFINE Ahead(x, y) == Before(EntryKey(x), EntryKey(y))
           a(x) == -x.at
<1>1. ASSUME NEW x \in ledger
      PROVE  a(x) \in Int /\ x.id \in Int
  <2>1. x.at \in Int /\ (x = CheckinRow \/ (x.tour \in Tour /\ x.id \in IdsOf(x.tour)))
    BY DEF Entries
  <2>2. x.id \in Int
    BY <2>1, DistinctKeys DEF CheckinRow, IdsOf
  <2>3. QED
    BY <2>1, <2>2
<1>2. ASSUME NEW x \in ledger, NEW y \in ledger
      PROVE  Ahead(x, y) <=> Lex(a(x), x.id, a(y), y.id)
  <2>  DEFINE xa == a(x)  xb == x.id
              ya == a(y)  yb == y.id
  <2>1. EntryKey(x) = <<xa, xb>> /\ EntryKey(y) = <<ya, yb>>
    BY DEF EntryKey
  <2>2. xa \in Int /\ xb \in Int /\ ya \in Int /\ yb \in Int
    BY <1>1
  <2>  HIDE DEF xa, xb, ya, yb
  <2>3. Before(<<xa, xb>>, <<ya, yb>>) <=> Lex(xa, xb, ya, yb)
    BY <2>2, BeforeOfTwo
  <2>4. Ahead(x, y) <=> Lex(xa, xb, ya, yb)
    BY <2>1, <2>3
  <2>5. QED
    BY <2>4 DEF xa, xb, ya, yb
<1>3. \A x, y \in ledger : x.id = y.id => x = y
  BY DEF Entries
<1>  HIDE DEF a, Ahead
<1>4. \A x \in ledger : ~Ahead(x, x)
  BY <1>1, <1>2 DEF Lex
<1>5. \A x, y, z \in ledger : Ahead(x, y) /\ Ahead(y, z) => Ahead(x, z)
  <2>  SUFFICES ASSUME NEW x \in ledger, NEW y \in ledger, NEW z \in ledger,
                       Ahead(x, y), Ahead(y, z)
                PROVE  Ahead(x, z)
    OBVIOUS
  <2>1. /\ a(x) \in Int /\ x.id \in Int /\ a(y) \in Int /\ y.id \in Int
        /\ a(z) \in Int /\ z.id \in Int
    BY <1>1
  <2>2. Lex(a(x), x.id, a(y), y.id) /\ Lex(a(y), y.id, a(z), z.id)
    BY <1>2
  <2>3. Lex(a(x), x.id, a(z), z.id)
    BY <2>1, <2>2 DEF Lex
  <2>4. QED
    BY <1>2, <2>3
<1>6. \A x, y \in ledger : x # y => Ahead(x, y) \/ Ahead(y, x)
  BY <1>1, <1>2, <1>3 DEF Lex
<1>7. QED
  BY <1>4, <1>5, <1>6 DEF Ahead

--------------------------------------------------------------------------------
(* The sum of a set of rows, and the sum of the totals of its kinds.       *)

LEMMA SumOfIsTotal ==
  ASSUME NEW rows
  PROVE  SumOf(rows) = Total([row \in rows |-> row.amount], rows)
<1> DEFINE w == [row \in rows |-> row.amount]
           Adds(g) == [s \in SUBSET rows |->
                        IF s = {} THEN 0 ELSE (CHOOSE x \in s : TRUE).amount
                                              + g[s \ {CHOOSE x \in s : TRUE}]]
<1>1. SumOf(rows) = (CHOOSE g : g = Adds(g))[rows]
  BY DEF SumOf, MapThenSumSet, MapThenFoldSet
<1>2. \A g : IsSum(g, w, rows) <=> g = Adds(g)
  <2>1. \A s \in SUBSET rows : s # {} => w[Pick(s)] = (CHOOSE x \in s : TRUE).amount
    BY Picked DEF Pick
  <2>2. ASSUME NEW g
        PROVE  [s \in SUBSET rows |-> IF s = {} THEN 0 ELSE w[Pick(s)] + g[s \ {Pick(s)}]]
                 = Adds(g)
    BY <2>1 DEF Pick
  <2>3. QED
    BY <2>2 DEF IsSum
<1>3. SumsOf(w, rows) = (CHOOSE g : g = Adds(g))
  BY <1>2 DEF SumsOf
<1>4. QED
  BY <1>1, <1>3 DEF Total

SumOfKinds(totals) == MapThenSumSet(LAMBDA kind : totals[kind], DOMAIN totals)

LEMMA SumOfKindsIsTotal ==
  ASSUME NEW totals
  PROVE  SumOfKinds(totals) = Total(totals, DOMAIN totals)
<1> DEFINE K == DOMAIN totals
           Adds(g) == [s \in SUBSET K |->
                        IF s = {} THEN 0 ELSE totals[CHOOSE x \in s : TRUE]
                                              + g[s \ {CHOOSE x \in s : TRUE}]]
<1>1. SumOfKinds(totals) = (CHOOSE g : g = Adds(g))[K]
  BY DEF SumOfKinds, MapThenSumSet, MapThenFoldSet
<1>2. \A g : IsSum(g, totals, K) <=> g = Adds(g)
  BY DEF IsSum, Pick
<1>3. SumsOf(totals, K) = (CHOOSE g : g = Adds(g))
  BY <1>2 DEF SumsOf
<1>4. QED
  BY <1>1, <1>3 DEF Total

\* The totals of the kinds add up to the standing.
LEMMA TotalsAddUp ==
  ASSUME Entries
  PROVE  SumOfKinds(Totals) = SumOf(ledger)
<1> DEFINE w == [row \in ledger |-> row.amount]
           f == [row \in ledger |-> row.kind]
           K == {row.kind : row \in ledger}
           Of(kind) == {row \in ledger : row.kind = kind}
<1>1. IsFiniteSet(ledger) /\ \A row \in ledger : w[row] \in Int
  BY DEF Entries
<1>2. IsFiniteSet(K)
  <2>1. f \in Surjection(ledger, K)
    BY DEF Surjection
  <2>  HIDE DEF f, K
  <2>2. QED
    BY <1>1, <2>1, FS_Surjection
<1>3. ASSUME NEW kind \in K
      PROVE  Totals[kind] = Total(w, PartOf(ledger, f, kind))
  <2> DEFINE T == Of(kind)
             v == [row \in T |-> row.amount]
  <2>1. T \subseteq ledger /\ T = PartOf(ledger, f, kind)
    BY DEF PartOf
  <2>2. IsFiniteSet(T) /\ \A row \in T : v[row] = w[row]
    BY <1>1, <2>1, FS_Subset
  <2>3. Totals[kind] = SumOf(T)
    BY DEF Totals
  <2>4. SumOf(T) = Total(v, T)
    BY SumOfIsTotal
  <2>  HIDE DEF T, v, w
  <2>5. Total(v, T) = Total(w, T)
    BY <2>2, TotalReads
  <2>6. QED
    BY <2>1, <2>3, <2>4, <2>5
<1>4. DOMAIN Totals = K
  BY DEF Totals
<1>5. \A row \in ledger : f[row] \in K
  OBVIOUS
<1>6. SumOf(ledger) = Total(w, ledger)
  BY SumOfIsTotal
<1>  HIDE DEF w, f, K
<1> DEFINE g == Totals
<1>7. \A kind \in K : g[kind] = Total(w, PartOf(ledger, f, kind))
  BY <1>3
<1>  HIDE DEF g
<1>8. Total(g, K) = Total(w, ledger)
  BY <1>1, <1>2, <1>5, <1>7, TotalOfParts
<1>9. QED
  BY <1>4, <1>6, <1>8, SumOfKindsIsTotal DEF g

--------------------------------------------------------------------------------
(* The answer, read piece by piece.                                        *)

\* What was not written reads the same again.
LEMMA SameReads ==
  ASSUME UNCHANGED tables
  PROVE  /\ RecordOf(Owner)' = RecordOf(Owner) /\ NemesisOf(Owner)' = NemesisOf(Owner)
         /\ \A q : MatchPage(Owner, q)' = MatchPage(Owner, q)
         /\ \A q : EntryPage(q)' = EntryPage(q)
         /\ Totals' = Totals
<1>1. /\ status' = status /\ day' = day /\ board' = board /\ account' = account
      /\ ledger' = ledger
  BY DEF tables
<1>2. PlayerMatches' = PlayerMatches
  BY <1>1 DEF PlayerMatches, There, InLog, SideRow, PlayerOf
<1>3. LogOf(Owner)' = LogOf(Owner)
  BY <1>2 DEF LogOf
<1>4. RecordOf(Owner)' = RecordOf(Owner)
  BY <1>3 DEF RecordOf
<1>5. \A o : Against(Owner, o)' = Against(Owner, o)
  BY <1>3 DEF Against
<1>6. ASSUME NEW o
      PROVE  /\ LostBy(Against(Owner, o))' = LostBy(Against(Owner, o))
             /\ WonBy(Against(Owner, o))' = WonBy(Against(Owner, o))
             /\ NemesisKey(Owner, o)' = NemesisKey(Owner, o)
  <2>1. /\ LostBy(Against(Owner, o))' = LostBy(Against(Owner, o))
        /\ WonBy(Against(Owner, o))' = WonBy(Against(Owner, o))
    BY <1>5 DEF LostBy, WonBy
  <2>2. Latest(LostBy(Against(Owner, o)))' = Latest(LostBy(Against(Owner, o)))
    BY <1>1, <2>1 DEF Latest, MatchKey
  <2>3. QED
    BY <2>1, <2>2 DEF NemesisKey
<1>7. NemesisOf(Owner)' = NemesisOf(Owner)
  <2> DEFINE first == CHOOSE o \in Rivals : \A q \in Rivals \ {o} :
                        Before(NemesisKey(Owner, o), NemesisKey(Owner, q))
             won   == Cardinality(WonBy(Against(Owner, first)))
             lost  == Cardinality(LostBy(Against(Owner, first)))
  <2>1. Rivals' = Rivals
    BY <1>1, <1>6 DEF Rivals, LossesTo
  <2>2. first' = first
    BY <1>6, <2>1
  <2>3. NemesisOf(Owner) = IF Rivals = {} THEN NoRivalry
                           ELSE [opponent |-> first, wins |-> won, losses |-> lost]
    BY DEF NemesisOf, Rivals, LossesTo
  <2>4. NemesisOf(Owner)' = IF Rivals' = {} THEN NoRivalry
                            ELSE [opponent |-> first', wins |-> won', losses |-> lost']
    BY DEF NemesisOf, Rivals, LossesTo
  <2>  HIDE DEF first
  <2>5. won' = won /\ lost' = lost
    BY <1>3, <2>2 DEF Against, WonBy, LostBy
  <2>  HIDE DEF won, lost
  <2>6. QED
    BY <2>1, <2>2, <2>3, <2>4, <2>5
<1>8. \A q : MatchPage(Owner, q)' = MatchPage(Owner, q)
  BY <1>1, <1>3 DEF MatchPage, LogRows, MatchKey
<1>9. \A q : EntryPage(q)' = EntryPage(q)
  BY <1>1 DEF EntryPage, EntryKey
<1>10. Totals' = Totals
  BY <1>1 DEF Totals
<1>11. QED
  BY <1>4, <1>7, <1>8, <1>9, <1>10

\* What a request has read, as long as nothing was written since it began.
Fresh(r) ==
  IF r.op = "matches"
  THEN /\ r.step \in {"nemesis", "log", "answered"} => r.record = RecordOf(Owner)
       /\ r.step \in {"log", "answered"} => r.nemesis = NemesisOf(Owner)
       /\ r.step = "answered" => r.page = {MatchPage(Owner, r.query)}
  ELSE /\ r.step \in {"totals", "answered"} => r.page = {EntryPage(r.query)}
       /\ r.step = "answered" => r.totals = {Totals}

RequestFields == {"step", "op", "query", "writes", "record", "nemesis", "page", "totals"}

Reading ==
  /\ DOMAIN req = RequestFields
  /\ req.query \in [page : Nat \ {0}, size : 1..100] /\ req.writes \in Nat
  /\ req.op \in {"matches", "cycles"}
  /\ req.op = "matches" =>
       req.step \in {"idle", "lookup", "record", "nemesis", "log", "answered"} /\ req.totals = {}
  /\ req.op = "cycles" => req.step \in {"idle", "lookup", "entries", "totals", "answered"}
  /\ req.writes = 0 => Fresh(req)

LEMMA NothingRead ==
  /\ DOMAIN NoReq = RequestFields
  /\ NoReq.query \in [page : Nat \ {0}, size : 1..100] /\ NoReq.writes = 0
  /\ NoReq.op = "matches" /\ NoReq.step = "idle" /\ NoReq.totals = {}
BY DEF NoReq, RequestFields

LEMMA FreshReads ==
  ASSUME NEW r, UNCHANGED tables
  PROVE  Fresh(r)' <=> Fresh(r)
BY SameReads DEF Fresh

LEMMA ReadingInit == Init => Reading
BY NothingRead DEF Init, Reading, Fresh

\* A step of the request itself.
LEMMA ReaderReads == Reading /\ Reader => Reading'
<1>  SUFFICES ASSUME Reading, Reader
              PROVE  Reading'
  OBVIOUS
<1>1. UNCHANGED tables
  BY DEF Reader, Begin, Lookup, ReadRecord, ReadNemesis, ReadLog, ReadEntries, ReadTotals, End,
         stored
<1>2. /\ RecordOf(Owner)' = RecordOf(Owner) /\ NemesisOf(Owner)' = NemesisOf(Owner)
      /\ \A q : MatchPage(Owner, q)' = MatchPage(Owner, q)
      /\ \A q : EntryPage(q)' = EntryPage(q)
      /\ Totals' = Totals
  BY <1>1, SameReads
<1>3. CASE req' = NoReq
  BY <1>3, NothingRead DEF Reading, Fresh
<1>4. ASSUME NEW op \in {"matches", "cycles"}, NEW public \in BOOLEAN, NEW query \in Queries,
             Begin(op, public, query)
      PROVE  Reading'
  <2>1. /\ DOMAIN req' = RequestFields /\ req'.query = query /\ req'.writes = 0
        /\ req'.op = op /\ req'.totals = {}
        /\ req'.step = IF public THEN "lookup" ELSE FirstRead[op]
    BY <1>4, NothingRead DEF Begin, RequestFields
  <2>2. query \in [page : Nat \ {0}, size : 1..100]
    BY QueriesAssumption
  <2>3. QED
    BY <2>1, <2>2 DEF Reading, Fresh, FirstRead
<1>5. CASE Lookup
  <2>1. CASE ~(Owner \in account /\ came)
    BY <1>3, <1>5, <2>1 DEF Lookup
  <2>2. CASE Owner \in account /\ came
    BY <1>2, <1>5, <2>2 DEF Lookup, Reading, RequestFields, Fresh, FirstRead
  <2>3. QED
    BY <2>1, <2>2
<1>6. CASE ReadRecord
  BY <1>2, <1>6 DEF ReadRecord, Reading, RequestFields, Fresh
<1>7. CASE ReadNemesis
  BY <1>2, <1>7 DEF ReadNemesis, Reading, RequestFields, Fresh
<1>8. CASE ReadLog
  BY <1>2, <1>8 DEF ReadLog, Reading, RequestFields, Fresh
<1>9. CASE ReadEntries
  BY <1>2, <1>9 DEF ReadEntries, Reading, RequestFields, Fresh
<1>10. CASE ReadTotals
  BY <1>2, <1>10 DEF ReadTotals, Reading, RequestFields, Fresh
<1>11. QED
  BY <1>3, <1>4, <1>5, <1>6, <1>7, <1>8, <1>9, <1>10 DEF Reader, End

\* A write is counted by the request it falls into.
LEMMA ReadingStep == Reading /\ [Next]_vars => Reading'
<1>  SUFFICES ASSUME Reading, [Next]_vars
              PROVE  Reading'
  OBVIOUS
<1>1. CASE Backoffice
  <2>1. Writes
    BY <1>1 DEF Backoffice, GoLive, Draw, Report, Clear, WritesBoard, ConclusionCommits,
                MoveDate, DeleteTournament, DeleteAccount, RemoveCheckin
  <2>2. CASE req.step = "idle" /\ UNCHANGED req
    BY <2>2 DEF Reading, Fresh
  <2>3. CASE req' = [req EXCEPT !.writes = @ + 1]
    BY <2>3 DEF Reading, RequestFields
  <2>4. QED
    BY <2>1, <2>2, <2>3 DEF Writes
<1>2. CASE (\E t \in There : ConclusionReads(t)) \/ ConclusionEnds \/ UNCHANGED vars
  <2>1. UNCHANGED tables /\ UNCHANGED req
    BY <1>2 DEF ConclusionReads, ConclusionEnds, vars, stored, tables
  <2>2. QED
    BY <2>1, SameReads DEF Reading, Fresh
<1>3. QED
  BY <1>1, <1>2, ReaderReads DEF Next

LEMMA RecordCounts ==
  ASSUME Boards
  PROVE  RecordOf(Owner).wins + RecordOf(Owner).losses = Cardinality(LogOf(Owner))
<1> DEFINE L == LogOf(Owner)
           W == WonBy(L)
           D == LostBy(L)
<1>1. W \cup D = L /\ W \cap D = {} /\ W \subseteq L /\ D \subseteq L
  BY DEF WonBy, LostBy
<1>2. IsFiniteSet(W) /\ IsFiniteSet(D)
  BY <1>1, LogIsFinite, FS_Subset
<1>3. RecordOf(Owner).wins = Cardinality(W) /\ RecordOf(Owner).losses = Cardinality(D)
  BY DEF RecordOf
<1>  HIDE DEF L, W, D
<1>4. /\ Cardinality(W \cup D) = Cardinality(W) + Cardinality(D) - Cardinality(W \cap D)
      /\ Cardinality(W) \in Nat /\ Cardinality(D) \in Nat
  BY <1>2, FS_Union, FS_CardinalityType
<1>5. Cardinality(W \cap D) = 0
  BY <1>1, FS_EmptySet
<1>6. Cardinality(L) = Cardinality(W) + Cardinality(D)
  <2>1. Cardinality(W \cup D) = Cardinality(W) + Cardinality(D)
    BY <1>4, <1>5
  <2>2. QED
    BY <1>1, <2>1
<1>7. QED
  BY <1>3, <1>6 DEF L

LEMMA NemesisCounts ==
  LET n == NemesisOf(Owner)
      With(rows) == Cardinality({row \in rows : row.opponent = n.opponent})
  IN  n # NoRivalry => /\ With(WonBy(LogOf(Owner)))  = n.wins
                       /\ With(LostBy(LogOf(Owner))) = n.losses
<1> DEFINE first == CHOOSE o \in Rivals : \A q \in Rivals \ {o} :
                      Before(NemesisKey(Owner, o), NemesisKey(Owner, q))
           n == NemesisOf(Owner)
<1>1. n = IF Rivals = {} THEN NoRivalry
          ELSE [opponent |-> first, wins |-> Cardinality(WonBy(Against(Owner, first))),
                losses |-> Cardinality(LostBy(Against(Owner, first)))]
  BY DEF NemesisOf, Rivals, LossesTo
<1>  HIDE DEF first, n
<1>2. \A o : /\ WonBy(Against(Owner, o)) = {row \in WonBy(LogOf(Owner)) : row.opponent = o}
             /\ LostBy(Against(Owner, o)) = {row \in LostBy(LogOf(Owner)) : row.opponent = o}
  BY DEF WonBy, LostBy, Against
<1>3. ASSUME n # NoRivalry
      PROVE  /\ n.opponent = first
             /\ n.wins = Cardinality(WonBy(Against(Owner, first)))
             /\ n.losses = Cardinality(LostBy(Against(Owner, first)))
  BY <1>1, <1>3
<1>4. ASSUME n # NoRivalry
      PROVE  /\ Cardinality({row \in WonBy(LogOf(Owner)) : row.opponent = n.opponent}) = n.wins
             /\ Cardinality({row \in LostBy(LogOf(Owner)) : row.opponent = n.opponent})
                  = n.losses
  BY <1>2, <1>3, <1>4
<1>5. QED
  BY <1>4 DEF n

\* The page of a list that has an order.
LEMMA PaginatedIsFull ==
  ASSUME NEW S, IsFiniteSet(S), NEW key, NEW query \in [page : Nat \ {0}, size : 1..100],
         \A x \in S : ~Before(key[x], key[x]),
         \A x, y, z \in S : Before(key[x], key[y]) /\ Before(key[y], key[z])
                              => Before(key[x], key[z]),
         \A x, y \in S : x # y => Before(key[x], key[y]) \/ Before(key[y], key[x])
  PROVE  LET page == Paginated(Cardinality(S), S, key, query)
             left == page.total - Offset(query)
         IN  /\ page.total = Cardinality(S)
             /\ Cardinality(page.items) =
                  IF left < 0 THEN 0 ELSE IF left < Limit(query) THEN left ELSE Limit(query)
             /\ page.items = {} <=> query.page > page.pages
             /\ page.total = Cardinality(page.items) => page.items = S
<1> DEFINE page == Paginated(Cardinality(S), S, key, query)
<1>1. /\ page.total = Cardinality(S) /\ page.items = PageOf(S, key, query)
      /\ page.pages = TotalPages(Cardinality(S), query)
  BY DEF Paginated
<1>2. LET items == PageOf(S, key, query)
          n     == Cardinality(S)
          left  == n - Offset(query)
      IN  /\ Cardinality(items) = IF left < 0 THEN 0 ELSE IF left < Limit(query) THEN left
                                                           ELSE Limit(query)
          /\ items = {} <=> query.page > TotalPages(n, query)
          /\ Cardinality(items) = n => items = S
  BY PageIsFull
<1>  HIDE DEF page
<1>3. QED
  BY <1>1, <1>2 DEF page

\* An answer no write fell into says what the tables say.
LEMMA AnswersHold == Boards /\ Entries /\ Reading => AnswerAddsUp
<1>  SUFFICES ASSUME Boards, Entries, Reading, req.step = "answered", req.writes = 0,
                     NEW page \in req.page
              PROVE  LET left  == page.total - Offset(req.query)
                         whole == page.total = Cardinality(page.items)
                         With(rows) == Cardinality({row \in rows :
                                                      row.opponent = req.nemesis.opponent})
                     IN  /\ Cardinality(page.items) =
                              IF left < 0 THEN 0 ELSE IF left < Limit(req.query) THEN left
                                                                 ELSE Limit(req.query)
                         /\ page.items = {} <=> req.query.page > page.pages
                         /\ req.op = "matches" =>
                              /\ req.record.wins + req.record.losses = page.total
                              /\ whole /\ req.nemesis # NoRivalry =>
                                   /\ With(WonBy(page.items)) = req.nemesis.wins
                                   /\ With(LostBy(page.items)) = req.nemesis.losses
                         /\ \A totals \in req.totals :
                              /\ SumOfKinds(totals) = SumOf(ledger)
                              /\ whole => SumOf(page.items) = SumOf(ledger)
  BY DEF AnswerAddsUp, SumOfKinds, MapThenSumSet, MapThenFoldSet
<1> DEFINE query == req.query
<1>1. /\ query \in [page : Nat \ {0}, size : 1..100] /\ Fresh(req)
      /\ req.op \in {"matches", "cycles"}
      /\ req.op = "matches" => req.totals = {}
  BY DEF Reading
<1>2. CASE req.op = "matches"
  <2> DEFINE L   == LogOf(Owner)
             key == [row \in L |-> MatchKey(row)]
  <2>1. /\ req.record = RecordOf(Owner) /\ req.nemesis = NemesisOf(Owner)
        /\ page = Paginated(Cardinality(L), L, key, query) /\ req.totals = {}
    BY <1>1, <1>2 DEF Fresh, MatchPage, LogRows
  <2>2. /\ \A x \in L : ~Before(key[x], key[x])
        /\ \A x, y, z \in L : Before(key[x], key[y]) /\ Before(key[y], key[z])
                                => Before(key[x], key[z])
        /\ \A x, y \in L : x # y => Before(key[x], key[y]) \/ Before(key[y], key[x])
    BY LogOrder
  <2>3. IsFiniteSet(L)
    BY LogIsFinite
  <2>4. req.record.wins + req.record.losses = Cardinality(L)
    BY <2>1, RecordCounts
  <2>5. req.nemesis # NoRivalry =>
          /\ Cardinality({row \in WonBy(L) : row.opponent = req.nemesis.opponent})
               = req.nemesis.wins
          /\ Cardinality({row \in LostBy(L) : row.opponent = req.nemesis.opponent})
               = req.nemesis.losses
    BY <2>1, NemesisCounts
  <2>  HIDE DEF L, key, query
  <2>6. LET left == page.total - Offset(query)
        IN  /\ page.total = Cardinality(L)
            /\ Cardinality(page.items) =
                 IF left < 0 THEN 0 ELSE IF left < Limit(query) THEN left ELSE Limit(query)
            /\ page.items = {} <=> query.page > page.pages
            /\ page.total = Cardinality(page.items) => page.items = L
    BY <1>1, <2>1, <2>2, <2>3, PaginatedIsFull
  <2>7. QED
    BY <2>1, <2>4, <2>5, <2>6 DEF query
<1>3. CASE req.op = "cycles"
  <2> DEFINE key == [row \in ledger |-> EntryKey(row)]
  <2>1. page = Paginated(Cardinality(ledger), ledger, key, query) /\ req.totals = {Totals}
    BY <1>1, <1>3 DEF Fresh, EntryPage
  <2>2. /\ \A x \in ledger : ~Before(key[x], key[x])
        /\ \A x, y, z \in ledger : Before(key[x], key[y]) /\ Before(key[y], key[z])
                                     => Before(key[x], key[z])
        /\ \A x, y \in ledger : x # y => Before(key[x], key[y]) \/ Before(key[y], key[x])
    BY EntryOrder
  <2>3. IsFiniteSet(ledger)
    BY DEF Entries
  <2>4. SumOfKinds(Totals) = SumOf(ledger)
    BY TotalsAddUp
  <2>  HIDE DEF key, query
  <2>5. LET left == page.total - Offset(query)
        IN  /\ page.total = Cardinality(ledger)
            /\ Cardinality(page.items) =
                 IF left < 0 THEN 0 ELSE IF left < Limit(query) THEN left ELSE Limit(query)
            /\ page.items = {} <=> query.page > page.pages
            /\ page.total = Cardinality(page.items) => page.items = ledger
    BY <1>1, <2>1, <2>2, <2>3, PaginatedIsFull
  <2>6. QED
    BY <1>3, <2>1, <2>4, <2>5 DEF query
<1>4. req.op = "matches" \/ req.op = "cycles"
  BY <1>1
<1>5. QED
  BY <1>2, <1>3, <1>4

\* An answer no write fell into adds up (log_of, history_of, PageQuery, Paginated): its
\* pages are full but the last, the record counts the log, the nemesis is in the log as
\* often as it says, and the totals are the standing.
THEOREM AnswersAddUp == Spec => []AnswerAddsUp
<1> DEFINE I == Boards /\ Entries /\ Reading
<1>1. Init => I
  BY InitSound, EntriesInit, ReadingInit
<1>2. Boards /\ Paid /\ Planned /\ I /\ [Next]_vars => I'
  BY SoundStep, EntriesStep, ReadingStep
<1>3. I => AnswerAddsUp
  BY AnswersHold
<1>  HIDE DEF I
<1>4. QED
  BY <1>1, <1>2, <1>3, SoundInvariant, PTL DEF Spec

--------------------------------------------------------------------------------
(* The pages of a list, one after the other.                               *)

Asked(page, size) == [page |-> page, size |-> size]

PlaceOf(S, key, x) == Cardinality({other \in S : Before(key[other], key[x])})

\* The pages of one size, from the first to the last that the answer names, show every
\* row of the log and of the history, and the rows of an earlier page come before those
\* of a later one: so none is shown twice.
PagesShowAll ==
  \A size \in 1..100 :
    /\ \A row \in LogOf(Owner) : \E page \in 1 .. MatchPage(Owner, Asked(1, size)).pages :
         row \in MatchPage(Owner, Asked(page, size)).items
    /\ \A row \in ledger : \E page \in 1 .. EntryPage(Asked(1, size)).pages :
         row \in EntryPage(Asked(page, size)).items
    /\ \A p, q \in Nat \ {0} : p < q =>
         /\ \A x \in MatchPage(Owner, Asked(p, size)).items :
            \A y \in MatchPage(Owner, Asked(q, size)).items :
              Before(MatchKey(x), MatchKey(y)) /\ x # y
         /\ \A x \in EntryPage(Asked(p, size)).items :
            \A y \in EntryPage(Asked(q, size)).items :
              Before(EntryKey(x), EntryKey(y)) /\ x # y

\* Of two rows the one with the lower place comes first.
LEMMA LowerPlaceFirst ==
  ASSUME NEW S, IsFiniteSet(S), NEW key,
         \A x, y, z \in S : Before(key[x], key[y]) /\ Before(key[y], key[z])
                              => Before(key[x], key[z]),
         \A x, y \in S : x # y => Before(key[x], key[y]) \/ Before(key[y], key[x]),
         NEW a \in S, NEW b \in S, PlaceOf(S, key, a) < PlaceOf(S, key, b)
  PROVE  Before(key[a], key[b]) /\ a # b
<1> DEFINE Ahead(x) == {other \in S : Before(key[other], key[x])}
           Count(x) == Cardinality(Ahead(x))
<1>1. ASSUME NEW x \in S
      PROVE  IsFiniteSet(Ahead(x)) /\ Count(x) \in Nat
  <2>1. Ahead(x) \in SUBSET S
    OBVIOUS
  <2>  HIDE DEF Ahead
  <2>2. QED
    BY <2>1, FS_Subset, FS_CardinalityType
<1>2. Count(a) < Count(b)
  BY Zenon DEF PlaceOf
<1>3. a # b
  <2> DEFINE c == Count(a)
             d == Count(b)
  <2>1. c \in Nat /\ d \in Nat /\ c < d
    BY <1>1, <1>2
  <2>2. a = b => c = d
    OBVIOUS
  <2>  HIDE DEF c, d
  <2>3. QED
    BY <2>1, <2>2
<1>4. ASSUME Before(key[b], key[a])
      PROVE  FALSE
  <2>1. Ahead(b) \in SUBSET Ahead(a)
    BY <1>4
  <2>2. IsFiniteSet(Ahead(a))
    BY <1>1
  <2>3. Count(a) \in Nat /\ Count(b) \in Nat
    BY <1>1
  <2>  HIDE DEF Ahead
  <2>4. Count(b) <= Count(a)
    BY <2>1, <2>2, FS_Subset
  <2>  HIDE DEF Count
  <2>5. QED
    BY <1>2, <2>3, <2>4
<1>5. QED
  BY <1>3, <1>4

\* The page a place is on.
LEMMA PageOfPlace ==
  ASSUME NEW c \in Nat, NEW s \in Nat \ {0}
  PROVE  \E p \in Nat \ {0} : c \in (p - 1) * s .. (p - 1) * s + s - 1
<1> DEFINE d == c \div s
<1>1. d \in Nat /\ d * s <= c /\ c < d * s + s /\ d * s \in Int
  OBVIOUS
<1>  HIDE DEF d
<1>2. d + 1 \in Nat \ {0} /\ (d + 1) - 1 = d
  BY <1>1
<1>3. c \in d * s .. d * s + s - 1
  BY <1>1
<1>4. QED
  BY <1>2, <1>3

\* A later page begins where an earlier one has ended.
LEMMA LaterPage ==
  ASSUME NEW p \in Nat \ {0}, NEW q \in Nat \ {0}, p < q, NEW s \in Nat \ {0}
  PROVE  /\ (p - 1) * s \in Nat /\ (q - 1) * s \in Nat
         /\ (p - 1) * s + s <= (q - 1) * s
<1> DEFINE u == p - 1
           v == q - 1
<1>1. u \in Nat /\ v \in Nat /\ u + 1 <= v
  OBVIOUS
<1>  HIDE DEF u, v
<1>2. u * s \in Nat /\ v * s \in Nat
  BY <1>1
<1>3. v - (u + 1) \in Nat
  BY <1>1
<1>4. (v - (u + 1)) * s \in Nat
  BY <1>3
<1>5. (v - (u + 1)) * s = v * s - u * s - s
  BY <1>1
<1>6. QED
  BY <1>2, <1>4, <1>5 DEF u, v

\* The pages of a list that has an order.
LEMMA PagesWalkTheList ==
  ASSUME NEW S, IsFiniteSet(S), NEW key, NEW size \in 1..100,
         \A x \in S : ~Before(key[x], key[x]),
         \A x, y, z \in S : Before(key[x], key[y]) /\ Before(key[y], key[z])
                              => Before(key[x], key[z]),
         \A x, y \in S : x # y => Before(key[x], key[y]) \/ Before(key[y], key[x])
  PROVE  /\ \A row \in S : \E page \in 1 .. TotalPages(Cardinality(S), Asked(1, size)) :
              row \in PageOf(S, key, Asked(page, size))
         /\ \A p, q \in Nat \ {0} : p < q =>
              \A x \in PageOf(S, key, Asked(p, size)) :
              \A y \in PageOf(S, key, Asked(q, size)) :
                Before(key[x], key[y]) /\ x # y
<1> DEFINE n == Cardinality(S)
           last == TotalPages(n, Asked(1, size))
<1>1. n \in Nat /\ size \in Nat \ {0}
  BY FS_CardinalityType
<1>2. ASSUME NEW page
      PROVE  PageOf(S, key, Asked(page, size)) =
               {row \in S : PlaceOf(S, key, row)
                              \in (page - 1) * size .. (page - 1) * size + size - 1}
  BY DEF PageOf, Asked, Offset, Limit, PlaceOf
<1>3. ASSUME NEW row \in S
      PROVE  PlaceOf(S, key, row) \in 0 .. n - 1
  <2> DEFINE Ahead == {other \in S : Before(key[other], key[row])}
  <2>1. Ahead \in SUBSET S /\ Ahead # S
    OBVIOUS
  <2>2. PlaceOf(S, key, row) = Cardinality(Ahead)
    BY DEF PlaceOf
  <2>  HIDE DEF Ahead
  <2>3. IsFiniteSet(Ahead) /\ Cardinality(Ahead) <= n /\ Cardinality(Ahead) # n
    BY <2>1, FS_Subset
  <2>4. Cardinality(Ahead) \in Nat
    BY <2>3, FS_CardinalityType
  <2>5. QED
    BY <1>1, <2>2, <2>3, <2>4
<1>4. last = (n + size - 1) \div size /\ last \in Int
  BY <1>1 DEF TotalPages, Asked
<1>5. ASSUME NEW row \in S
      PROVE  \E page \in 1..last : row \in PageOf(S, key, Asked(page, size))
  <2> DEFINE c == PlaceOf(S, key, row)
  <2>1. c \in 0 .. n - 1
    BY <1>3
  <2>  HIDE DEF c, n, last
  <2>2. PICK p \in Nat \ {0} : c \in (p - 1) * size .. (p - 1) * size + size - 1
    <3>1. c \in Nat
      BY <2>1
    <3>2. QED
      BY <1>1, <3>1, PageOfPlace
  <2>3. (p - 1) * size \in Int
    <3>1. p - 1 \in Int
      OBVIOUS
    <3>2. QED
      BY <1>1, <3>1
  <2>4. ~(n <= (p - 1) * size)
    BY <1>1, <2>1, <2>2, <2>3
  <2>5. ~(p > last)
    BY <1>1, <1>4, <2>4, PagesRoundUp
  <2>6. p \in 1..last
    BY <1>4, <2>5
  <2>7. row \in PageOf(S, key, Asked(p, size))
    BY <1>2, <2>2 DEF c
  <2>8. QED
    BY <2>6, <2>7
<1>6. ASSUME NEW p \in Nat \ {0}, NEW q \in Nat \ {0}, p < q,
             NEW x \in PageOf(S, key, Asked(p, size)),
             NEW y \in PageOf(S, key, Asked(q, size))
      PROVE  Before(key[x], key[y]) /\ x # y
  <2> DEFINE a == PlaceOf(S, key, x)
             b == PlaceOf(S, key, y)
             u == (p - 1) * size
             v == (q - 1) * size
  <2>1. /\ x \in S /\ a \in u .. u + size - 1
        /\ y \in S /\ b \in v .. v + size - 1
    BY <1>2, <1>6
  <2>2. a \in 0 .. n - 1 /\ b \in 0 .. n - 1
    BY <1>3, <2>1
  <2>3. u \in Nat /\ v \in Nat /\ u + size <= v
    BY <1>1, <1>6, LaterPage
  <2>  HIDE DEF a, b, u, v, n
  <2>4. a < b
    BY <1>1, <2>1, <2>2, <2>3
  <2>5. QED
    BY <2>1, <2>4, LowerPlaceFirst DEF a, b
<1>7. QED
  BY <1>5, <1>6

\* Walking the pages of a player's match log or of the own cycles, while nobody writes,
\* shows every row one time (match_storage.rs, points_storage.rs, pagination.rs): for
\* every length of the list and every size of a page.  Both orders are total, though a
\* tournament's matches are of one day and its payments of one moment.
THEOREM PagesAreComplete == Spec => []PagesShowAll
<1> DEFINE I == Boards /\ Entries
<1>1. Init => I
  BY InitSound, EntriesInit
<1>2. Boards /\ Paid /\ Planned /\ I /\ [Next]_vars => I'
  BY SoundStep, EntriesStep
<1>3. ASSUME Boards, Entries
      PROVE  PagesShowAll
  <2> DEFINE L    == LogOf(Owner)
             log  == [row \in L |-> MatchKey(row)]
             hist == [row \in ledger |-> EntryKey(row)]
  <2>1. IsFiniteSet(L) /\ IsFiniteSet(ledger)
    BY <1>3, LogIsFinite DEF Entries
  <2>2. /\ \A x \in L : ~Before(log[x], log[x])
        /\ \A x, y, z \in L : Before(log[x], log[y]) /\ Before(log[y], log[z])
                                => Before(log[x], log[z])
        /\ \A x, y \in L : x # y => Before(log[x], log[y]) \/ Before(log[y], log[x])
    BY <1>3, LogOrder
  <2>3. /\ \A x \in ledger : ~Before(hist[x], hist[x])
        /\ \A x, y, z \in ledger : Before(hist[x], hist[y]) /\ Before(hist[y], hist[z])
                                     => Before(hist[x], hist[z])
        /\ \A x, y \in ledger : x # y => Before(hist[x], hist[y]) \/ Before(hist[y], hist[x])
    BY <1>3, EntryOrder
  <2>4. \A query : /\ MatchPage(Owner, query).items = PageOf(L, log, query)
                   /\ MatchPage(Owner, query).pages = TotalPages(Cardinality(L), query)
                   /\ EntryPage(query).items = PageOf(ledger, hist, query)
                   /\ EntryPage(query).pages = TotalPages(Cardinality(ledger), query)
    BY DEF MatchPage, EntryPage, LogRows, Paginated
  <2>5. \A query : PageOf(L, log, query) \subseteq L /\ PageOf(ledger, hist, query) \subseteq ledger
    BY DEF PageOf
  <2>6. /\ \A x \in L : log[x] = MatchKey(x)
        /\ \A x \in ledger : hist[x] = EntryKey(x)
    OBVIOUS
  <2>  HIDE DEF L, log, hist
  <2>7. ASSUME NEW size \in 1..100
        PROVE  /\ \A row \in L : \E page \in 1 .. TotalPages(Cardinality(L), Asked(1, size)) :
                    row \in PageOf(L, log, Asked(page, size))
               /\ \A p, q \in Nat \ {0} : p < q =>
                    \A x \in PageOf(L, log, Asked(p, size)) :
                    \A y \in PageOf(L, log, Asked(q, size)) :
                      Before(log[x], log[y]) /\ x # y
    BY <2>1, <2>2, PagesWalkTheList
  <2>8. ASSUME NEW size \in 1..100
        PROVE  /\ \A row \in ledger :
                    \E page \in 1 .. TotalPages(Cardinality(ledger), Asked(1, size)) :
                      row \in PageOf(ledger, hist, Asked(page, size))
               /\ \A p, q \in Nat \ {0} : p < q =>
                    \A x \in PageOf(ledger, hist, Asked(p, size)) :
                    \A y \in PageOf(ledger, hist, Asked(q, size)) :
                      Before(hist[x], hist[y]) /\ x # y
    BY <2>1, <2>3, PagesWalkTheList
  <2>9. ASSUME NEW size \in 1..100
        PROVE  /\ \A row \in L : \E page \in 1 .. MatchPage(Owner, Asked(1, size)).pages :
                    row \in MatchPage(Owner, Asked(page, size)).items
               /\ \A row \in ledger : \E page \in 1 .. EntryPage(Asked(1, size)).pages :
                    row \in EntryPage(Asked(page, size)).items
    <3> DEFINE k == TotalPages(Cardinality(L), Asked(1, size))
               l == TotalPages(Cardinality(ledger), Asked(1, size))
    <3>1. /\ MatchPage(Owner, Asked(1, size)).pages = k
          /\ EntryPage(Asked(1, size)).pages = l
      BY <2>4
    <3>2. /\ \A row \in L : \E page \in 1..k : row \in PageOf(L, log, Asked(page, size))
          /\ \A row \in ledger : \E page \in 1..l :
               row \in PageOf(ledger, hist, Asked(page, size))
      BY <2>7, <2>8
    <3>  HIDE DEF k, l
    <3>3. QED
      BY <2>4, <3>1, <3>2
  <2>10. ASSUME NEW size \in 1..100, NEW p \in Nat \ {0}, NEW q \in Nat \ {0}, p < q
         PROVE  /\ \A x \in MatchPage(Owner, Asked(p, size)).items :
                   \A y \in MatchPage(Owner, Asked(q, size)).items :
                     Before(MatchKey(x), MatchKey(y)) /\ x # y
                /\ \A x \in EntryPage(Asked(p, size)).items :
                   \A y \in EntryPage(Asked(q, size)).items :
                     Before(EntryKey(x), EntryKey(y)) /\ x # y
    <3>1. \A x \in PageOf(L, log, Asked(p, size)) :
          \A y \in PageOf(L, log, Asked(q, size)) :
            Before(MatchKey(x), MatchKey(y)) /\ x # y
      <4>1. \A x \in PageOf(L, log, Asked(p, size)) :
            \A y \in PageOf(L, log, Asked(q, size)) :
              Before(log[x], log[y]) /\ x # y
        BY <2>7, <2>10
      <4>2. QED
        BY <2>5, <2>6, <4>1
    <3>2. \A x \in PageOf(ledger, hist, Asked(p, size)) :
          \A y \in PageOf(ledger, hist, Asked(q, size)) :
            Before(EntryKey(x), EntryKey(y)) /\ x # y
      <4>1. \A x \in PageOf(ledger, hist, Asked(p, size)) :
            \A y \in PageOf(ledger, hist, Asked(q, size)) :
              Before(hist[x], hist[y]) /\ x # y
        BY <2>8, <2>10
      <4>2. QED
        BY <2>5, <2>6, <4>1
    <3>3. QED
      BY <2>4, <3>1, <3>2
  <2>11. QED
    BY <2>9, <2>10 DEF PagesShowAll, L
<1>  HIDE DEF I
<1>4. I => PagesShowAll
  BY <1>3 DEF I
<1>5. QED
  BY <1>1, <1>2, <1>4, SoundInvariant, PTL DEF Spec
================================================================================
