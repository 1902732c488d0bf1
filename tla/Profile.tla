------------------------------- MODULE Profile -------------------------------
(***************************************************************************)
(* The profile of one player: the match log with its record and its        *)
(* nemesis (match_service.rs, match_storage.rs, the view player_matches),  *)
(* and the cycles history with its totals (points_service.rs,              *)
(* point_storage.rs).  Every part of an answer is a read of its own, and   *)
(* the backoffice writes in between: results, conclusions, moved dates,    *)
(* deleted tournaments and accounts, a check-in that is taken away.        *)
(*                                                                         *)
(* A conclusion reads what it pays for and commits later.  The other       *)
(* writes happen in one piece, as BracketPlay has them; Tournament is      *)
(* where they are split at their awaits.  An entrant is named by its       *)
(* player.                                                                 *)
(***************************************************************************)
EXTENDS CyclesRules, Lists, FiniteSetsExt

CONSTANTS
  Owner,       \* the player whose profile is read
  Rival,       \* the other players
  HandleOrder, \* where a handle sorts, case aside
  Tour,        \* the tournaments
  Past,        \* those that are concluded from the start
  SeedOrder,   \* the seed order of every draw
  CreatedAt,   \* tournaments.created_at
  Day,         \* tournaments.date at the start
  NewDays,     \* the days a date may move to
  DoomedTour,    \* bound: the tournaments that may be deleted
  DoomedAccount, \* bound: the accounts that may be deleted
  Queries,     \* the pages asked for
  MaxWrites    \* bound: writes while one request is read

Players == {Owner} \cup Rival

ASSUME PlayersAssumption ==
  /\ IsFiniteSet(Players) /\ IsFiniteSet(Tour) /\ Past \subseteq Tour
  /\ NoEntrant \notin Players /\ NoPlayer \notin Players
\* A draw has two to MaxEntrants different players, a past one was a final alone.
ASSUME OrdersAreOfPlayers ==
  /\ \A t \in Tour :
       /\ SeedOrder[t] \in Seq(Players) /\ Len(SeedOrder[t]) \in 2..MaxEntrants
       /\ \A i, j \in 1..Len(SeedOrder[t]) : SeedOrder[t][i] = SeedOrder[t][j] => i = j
  /\ \A t \in Past : Len(SeedOrder[t]) = 2
\* PageQuery: pages count from one, and PAGE_SIZE_MAX rows are the longest.
ASSUME QueriesAssumption == Queries \subseteq [page : Nat \ {0}, size : 1..100]
\* Two tournaments are not created in one microsecond, nor two handles the same.
ASSUME DistinctKeys ==
  /\ Day \in [Tour -> Int] /\ NewDays \subseteq Int
  /\ CreatedAt \in [Tour -> Int] /\ HandleOrder \in [Players -> Int]
  /\ \A t, u \in Tour : CreatedAt[t] = CreatedAt[u] => t = u
  /\ \A p, q \in Players : HandleOrder[p] = HandleOrder[q] => p = q

VARIABLES
  status, day, board,  \* of the tournaments that are there
  account,             \* the accounts that are there
  came,                \* the owner has a check-in
  ledger,              \* the owner's rows of point_entries
  now,                 \* the moment of the last payment
  closing,             \* the conclusion that is under way, if there is one
  raced,               \* history: concluded on a bracket that was no longer the last
  req                  \* the request that reads the profile

tables == <<status, day, board, account, came, ledger, now>>
stored == <<tables, closing, raced>>
vars   == <<stored, req>>

There == DOMAIN status
Drawn(t) == {SeedOrder[t][i] : i \in DOMAIN SeedOrder[t]}
Drop(f, t) == [u \in DOMAIN f \ {t} |-> f[u]]

--------------------------------------------------------------------------------
(* The ledger. *)

\* PointKind::ALL; nothing here writes an adjustment.
Kinds == <<"checkin", "entry", "match_win", "semifinalist", "finalist",
           "champion", "adjustment">>

\* A row's id is random; what matters is that no two are the same.
IdOf(t, award) ==
  LET kind == CHOOSE i \in DOMAIN Kinds : Kinds[i] = award.kind
  IN  100 * CreatedAt[t] + 10 * kind + award.source[2]

CheckinRow ==
  [tour |-> 0, kind |-> "checkin", source |-> TournamentRef,
   amount |-> PaidFor("checkin", "small"), at |-> 0, id |-> 0]

\* The rows a conclusion of t writes for the owner, all at one moment, when it has read
\* these accounts of the entrants and this bracket.
AwardRows(t, B, accounts, at) ==
  LET field  == [e \in Drawn(t) |-> IF e \in accounts THEN e ELSE NoPlayer]
      tier   == TierFor(Len(SeedOrder[t]))
      awards == {a \in TournamentAwards(field, B, t, NoEntrant) : a.player = Owner}
  IN  {[tour |-> t, kind |-> a.kind, source |-> a.source,
        amount |-> PaidFor(a.kind, tier), at |-> at, id |-> IdOf(t, a)] : a \in awards}

SumOf(rows) == MapThenSumSet(LAMBDA row : row.amount, rows)

--------------------------------------------------------------------------------
(* The view player_matches: every played match of a public tournament, one *)
(* row for each side, from that side's view.                               *)

PlayerOf(e) == IF e \in account THEN e ELSE NoPlayer

\* A bug: a bye counts as a match.
Decided(t, p) == status[t] \in {"live", "concluded"} /\ board[t][p].winner # NoEntrant

InLog(t, p) == status[t] \in {"live", "concluded"} /\ IsPlayed(board[t][p])

SideRow(t, p, me, other) ==
  [tour |-> t, round |-> p[1], slot |-> p[2], player |-> PlayerOf(me),
   opponent |-> PlayerOf(other), won |-> board[t][p].winner = me]

PlayerMatches ==
  LET Played == UNION {{t} \X {p \in DOMAIN board[t] : InLog(t, p)} : t \in There}
  IN  UNION {LET m == board[x[1]][x[2]]
             IN  {SideRow(x[1], x[2], m.a, m.b), SideRow(x[1], x[2], m.b, m.a)}
               : x \in Played}

LogOf(p)     == {row \in PlayerMatches : row.player = p}
WonBy(rows)  == {row \in rows : row.won}
LostBy(rows) == {row \in rows : ~row.won}

\* Newest first: the day, the tournament, the round, the slot.
MatchKey(row) == <<-day[row.tour], -CreatedAt[row.tour], -row.round, row.slot>>

\* A bug: the rows of one payment have no order of their own.
EntryKeyByMoment(row) == <<-row.at>>
EntryKey(row) == <<-row.at, row.id>>

--------------------------------------------------------------------------------
(* The reads. *)

NoRivalry == [opponent |-> NoPlayer, wins |-> 0, losses |-> 0]
NemesisMinLosses == 2

RecordOf(p) ==
  [wins |-> Cardinality(WonBy(LogOf(p))), losses |-> Cardinality(LostBy(LogOf(p)))]

Against(p, o) == {row \in LogOf(p) : row.opponent = o}

\* A bug: the latest day and the latest tournament, each of any loss.
LatestByColumn(losses) ==
  <<-Max({day[row.tour] : row \in losses}), -Max({CreatedAt[row.tour] : row \in losses})>>

\* The day and the tournament of the last loss, as one key.
Latest(losses) ==
  LET last == CHOOSE row \in losses : \A other \in losses :
                other # row => Before(MatchKey(row), MatchKey(other))
  IN  <<-day[last.tour], -CreatedAt[last.tour]>>

NemesisKey(p, o) ==
  LET losses == LostBy(Against(p, o))
  IN  <<-Cardinality(losses)>> \o Latest(losses) \o <<HandleOrder[o]>>

NemesisOf(p) ==
  LET rivals == {o \in account \ {p} :
                   Cardinality(LostBy(Against(p, o))) >= NemesisMinLosses}
      first  == CHOOSE o \in rivals : \A q \in rivals \ {o} :
                  Before(NemesisKey(p, o), NemesisKey(p, q))
  IN  IF rivals = {} THEN NoRivalry
      ELSE [opponent |-> first, wins |-> Cardinality(WonBy(Against(p, first))),
            losses |-> Cardinality(LostBy(Against(p, first)))]

\* A bug: the page of the log has no row for an opponent who left.
JoinedWithOpponent(p) == {row \in LogOf(p) : row.opponent # NoPlayer}

LogRows(p) == LogOf(p)

MatchPage(p, query) ==
  Paginated(Cardinality(LogOf(p)), LogRows(p),
            [row \in LogRows(p) |-> MatchKey(row)], query)
EntryPage(query) ==
  Paginated(Cardinality(ledger), ledger, [row \in ledger |-> EntryKey(row)], query)

\* The kinds the owner has a row of, each with its sum.
Totals ==
  [kind \in {row.kind : row \in ledger} |-> SumOf({row \in ledger : row.kind = kind})]

--------------------------------------------------------------------------------
(* The requests.  lookup finds the player of a public page, which only an  *)
(* active one has; the owner's own pages begin with a login and the first  *)
(* read.                                                                   *)

NoReq == [step |-> "idle", op |-> "matches", query |-> [page |-> 1, size |-> 1],
          writes |-> 0, record |-> [wins |-> 0, losses |-> 0],
          nemesis |-> NoRivalry, page |-> {}, totals |-> {}]

FirstRead == [matches |-> "record", cycles |-> "entries"]

Begin(op, public, query) ==
  /\ req.step = "idle"
  /\ public \/ Owner \in account
  /\ req' = [NoReq EXCEPT !.step = IF public THEN "lookup" ELSE FirstRead[op],
                          !.op = op, !.query = query]
  /\ UNCHANGED stored

Lookup ==
  /\ req.step = "lookup"
  /\ req' = IF Owner \in account /\ came THEN [req EXCEPT !.step = FirstRead[req.op]]
                                         ELSE NoReq
  /\ UNCHANGED stored

ReadRecord ==
  /\ req.step = "record"
  /\ req' = [req EXCEPT !.step = "nemesis", !.record = RecordOf(Owner)]
  /\ UNCHANGED stored

ReadNemesis ==
  /\ req.step = "nemesis"
  /\ req' = [req EXCEPT !.step = "log", !.nemesis = NemesisOf(Owner)]
  /\ UNCHANGED stored

ReadLog ==
  /\ req.step = "log"
  /\ req' = [req EXCEPT !.step = "answered", !.page = {MatchPage(Owner, req.query)}]
  /\ UNCHANGED stored

ReadEntries ==
  /\ req.step = "entries"
  /\ req' = [req EXCEPT !.step = "totals", !.page = {EntryPage(req.query)}]
  /\ UNCHANGED stored

ReadTotals ==
  /\ req.step = "totals"
  /\ req' = [req EXCEPT !.step = "answered", !.totals = {Totals}]
  /\ UNCHANGED stored

\* The answer leaves, or the request is cut off before it.
End == req.step # "idle" /\ req' = NoReq /\ UNCHANGED stored

--------------------------------------------------------------------------------
(* The backoffice. *)

Writes ==
  \/ req.step = "idle" /\ UNCHANGED req
  \/ /\ req.step # "idle" /\ req.writes < MaxWrites
     /\ req' = [req EXCEPT !.writes = @ + 1]

GoLive(t) ==
  /\ status[t] = "open" /\ Writes
  /\ status' = [status EXCEPT ![t] = "live"]
  /\ UNCHANGED <<day, board, account, came, ledger, now, closing, raced>>

WritesBoard(t, B) ==
  /\ Writes
  /\ board' = [board EXCEPT ![t] = B]
  /\ closing' = {[c EXCEPT !.late = @ \/ c.tour = t] : c \in closing}
  /\ UNCHANGED <<status, day, account, came, ledger, now, raced>>

Draw(t) ==
  /\ status[t] = "live" /\ ~HasResults(board[t])
  /\ WritesBoard(t, Generate(SeedOrder[t]))

Report(t, p, w) ==
  /\ status[t] # "concluded" /\ CanReport(board[t], p, w)
  /\ WritesBoard(t, Reported(board[t], p, w))

Clear(t, p) ==
  /\ status[t] # "concluded" /\ CanClear(board[t], p)
  /\ WritesBoard(t, Cleared(board[t], p))

\* change_status reads the tournament, the entrants and the bracket, here of one that is
\* played to its end; Tournament has those without, and the reads one by one.  Bound: one
\* conclusion at a time.
ConclusionReads(t) ==
  /\ closing = {}
  /\ status[t] # "concluded" /\ board[t] # NoMatches /\ Champion(board[t]) # NoEntrant
  /\ closing' = {[tour |-> t, status |-> status[t], board |-> board[t],
                  accounts |-> account \cap Drawn(t), late |-> FALSE]}
  /\ UNCHANGED <<tables, raced, req>>

\* set_status looks at the status again, and a payment needs its account: the awards are
\* those of the bracket that was read.
ConclusionCommits(c) ==
  /\ c.tour \in There /\ status[c.tour] = c.status /\ c.accounts \subseteq account
  /\ Writes
  /\ status' = [status EXCEPT ![c.tour] = "concluded"]
  /\ now' = now + 1
  /\ ledger' = ledger \cup AwardRows(c.tour, c.board, c.accounts, now + 1)
  /\ closing' = {}
  /\ raced' = IF c.late THEN raced \cup {c.tour} ELSE raced
  /\ UNCHANGED <<day, board, account, came>>

\* It is refused, or its request is dropped.
ConclusionEnds ==
  /\ closing # {} /\ closing' = {}
  /\ UNCHANGED <<tables, raced, req>>

MoveDate(t, d) ==
  /\ status[t] # "concluded" /\ d # day[t] /\ Writes
  /\ day' = [day EXCEPT ![t] = d]
  /\ UNCHANGED <<status, board, account, came, ledger, now, closing, raced>>

\* The entrants, the matches and the payments go with the tournament.
DeleteTournament(t) ==
  /\ t \in DoomedTour /\ Writes
  /\ status' = Drop(status, t) /\ day' = Drop(day, t) /\ board' = Drop(board, t)
  /\ ledger' = {row \in ledger : row.tour # t}
  /\ UNCHANGED <<account, came, now, closing, raced>>

\* Check-ins and payments go with the account; its entries stay, without it.
DeleteAccount(p) ==
  /\ p \in DoomedAccount \cap account /\ Writes
  /\ account' = account \ {p}
  /\ came' = (came /\ p # Owner)
  /\ ledger' = IF p = Owner THEN {} ELSE ledger
  /\ UNCHANGED <<status, day, board, now, closing, raced>>

RemoveCheckin ==
  /\ came /\ Writes
  /\ came' = FALSE
  /\ ledger' = ledger \ {CheckinRow}
  /\ UNCHANGED <<status, day, board, account, now, closing, raced>>

Backoffice ==
  \/ \E t \in There :
       \/ GoLive(t) \/ Draw(t) \/ DeleteTournament(t)
       \/ \E d \in NewDays : MoveDate(t, d)
       \/ \E p \in DOMAIN board[t] :
            \/ \E w \in {board[t][p].a, board[t][p].b} : Report(t, p, w)
            \/ Clear(t, p)
  \/ \E c \in closing : ConclusionCommits(c)
  \/ \E p \in Players : DeleteAccount(p)
  \/ RemoveCheckin

Reader ==
  \/ \E op \in {"matches", "cycles"}, public \in BOOLEAN, query \in Queries :
       Begin(op, public, query)
  \/ Lookup \/ ReadRecord \/ ReadNemesis \/ ReadLog \/ ReadEntries \/ ReadTotals
  \/ End

\* Past tournaments of two, concluded one after the other in the order of their
\* creation, with any winner; the others are open and have no bracket.
Init ==
  /\ status = [t \in Tour |-> IF t \in Past THEN "concluded" ELSE "open"]
  /\ day = Day
  /\ board \in {B \in [Tour -> {NoMatches} \cup
                        {Reported(Generate(SeedOrder[t]), <<1, 0>>, w) :
                           t \in Past, w \in Players}] :
                  \A t \in Tour :
                    IF t \in Past
                    THEN \E w \in {SeedOrder[t][1], SeedOrder[t][2]} :
                           B[t] = Reported(Generate(SeedOrder[t]), <<1, 0>>, w)
                    ELSE B[t] = NoMatches}
  /\ account = Players
  /\ came = TRUE
  /\ ledger = {CheckinRow} \cup UNION {AwardRows(t, board[t], Players,
       Cardinality({u \in Past : CreatedAt[u] <= CreatedAt[t]})) : t \in Past}
  /\ now = Cardinality(Past)
  /\ closing = {} /\ raced = {}
  /\ req = NoReq

Next == \/ Backoffice \/ Reader
        \/ \E t \in There : ConclusionReads(t)
        \/ ConclusionEnds
Spec == Init /\ [][Next]_vars

--------------------------------------------------------------------------------
\* The match log and the ledger are two accounts of one thing (the view
\* player_matches and tournament_awards): the wins a player was paid for are the
\* wins the log shows in concluded tournaments, whatever was corrected before the
\* conclusion read the bracket, whoever left at any moment, and however many
\* conclusions were refused or dropped.  A tournament whose bracket was written between
\* that read and set_status, which looks at the status alone, does not count: it is paid
\* for the bracket of before, which is what the run final_race shows.
WinsArePaid ==
  {MatchRef(row.tour, <<row.round, row.slot>>) :
      row \in {won \in WonBy(LogOf(Owner)) :
                 status[won.tour] = "concluded" /\ won.tour \notin raced}}
    = {row.source :
         row \in {paid \in ledger : paid.kind = "match_win" /\ paid.tour \notin raced}}

\* Nobody has a better claim to the title than the nemesis (nemesis): an opponent
\* who is still there and beat the owner as often did so longer ago, in the order
\* of the log; and the title is vacant only when nobody won twice.
NemesisStandsOut ==
  LET n == NemesisOf(Owner).opponent
      LossesTo(o) == LostBy(Against(Owner, o))
  IN  \A o \in account \ {Owner, n} :
        IF n = NoPlayer THEN Cardinality(LossesTo(o)) < NemesisMinLosses
        ELSE \/ Cardinality(LossesTo(o)) < Cardinality(LossesTo(n))
             \/ /\ Cardinality(LossesTo(o)) = Cardinality(LossesTo(n))
                /\ \E last \in LossesTo(n) : \A loss \in LossesTo(o) :
                     Before(MatchKey(last), MatchKey(loss))

\* An answer is several reads (log_of, history_of).  When nothing was written
\* while they ran, they agree: the record counts the log, the totals are the
\* standing, the nemesis is in the log as often as it says, and a page is full
\* unless it is the last.  A write in between may tear them apart.
AnswerAddsUp ==
  req.step = "answered" /\ req.writes = 0 =>
    \A page \in req.page :
      LET left  == page.total - Offset(req.query)
          whole == page.total = Cardinality(page.items)
          With(rows) == Cardinality({row \in rows : row.opponent = req.nemesis.opponent})
      IN  /\ Cardinality(page.items) =
               IF left < 0 THEN 0 ELSE IF left < Limit(req.query) THEN left
                                                               ELSE Limit(req.query)
          /\ page.items = {} <=> req.query.page > page.pages
          /\ req.op = "matches" =>
               /\ req.record.wins + req.record.losses = page.total
               /\ whole /\ req.nemesis # NoRivalry =>
                    /\ With(WonBy(page.items)) = req.nemesis.wins
                    /\ With(LostBy(page.items)) = req.nemesis.losses
          /\ \A totals \in req.totals :
               /\ MapThenSumSet(LAMBDA kind : totals[kind], DOMAIN totals) = SumOf(ledger)
               /\ whole => SumOf(page.items) = SumOf(ledger)
================================================================================
