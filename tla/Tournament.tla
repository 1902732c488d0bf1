------------------------------ MODULE Tournament ------------------------------
(***************************************************************************)
(* One tournament and the requests on it: TournamentService of             *)
(* crates/bunker-api/src/services/tournament_service.rs over               *)
(* crates/bunker-api/src/storage/tournament_storage.rs.                    *)
(*                                                                         *)
(* A request is a handler that awaits the database at every step, so the   *)
(* steps of two requests interleave.  One action is one awaited storage    *)
(* call with the computation up to the next one; a write transaction is    *)
(* one action, because BEGIN IMMEDIATE admits one writer and readers see   *)
(* committed rows only.  What a request read it keeps in seen and plan,    *)
(* and the guards of its write compare that with the rows as they are.     *)
(*                                                                         *)
(* Answers, and the reads that serve an answer alone, are left to Replies: *)
(* they change no row.                                                     *)
(***************************************************************************)
EXTENDS CyclesRules

CONSTANTS
  Player,      \* the accounts that exist at the start
  Request,     \* the requests in flight at once
  Level,       \* the skill levels a request may give
  NoLevel,     \* an entrant without a level
  Ops,         \* the operations clients ask for
  MaxEntries,  \* bound: entrant rows ever inserted
  MaxDraws,    \* bound: brackets ever written
  MaxTime      \* bound: the clock

AllOps == {"update", "delete", "status", "register", "retire", "add", "remove",
           "generate", "reorder", "delete_bracket", "report", "clear",
           "delete_player"}

ASSUME OpsAssumption      == Ops \subseteq AllOps
ASSUME PlayerAssumption   == NoPlayer \notin Player
ASSUME LevelAssumption    == Level \subseteq 1..5 /\ NoLevel \notin 1..5
ASSUME BoundsAssumption   == MaxEntries \in Nat /\ MaxDraws \in Nat /\ MaxTime \in Nat
ASSUME EntrantIdAssumption == NoEntrant \notin 1..MaxEntries

EntrantId == 1..MaxEntries
Status    == {"draft", "open", "live", "concluded", "gone"}
Time      == 0..MaxTime
NoTime    == -1
NoSeed    == 0
Unrated   == 3

VARIABLES
  status,    \* tournaments.status, "gone" once the row is deleted
  deadline,  \* tournaments.registration_closes_at
  winner,    \* tournaments.winner_entrant_id
  entrants,  \* tournament_entrants: id -> player, level, seed
  entered,   \* entrant ids handed out so far
  matches,   \* matches: position -> sides and winner
  draw,      \* the draw the matches belong to: with a position, the match id
  ledger,    \* the point_entries rows of this tournament
  players,   \* the accounts that still exist
  now,       \* the clock
  step,      \* the storage call a request awaits next
  call,      \* what the client asked for
  seen,      \* the guard: the status it read, the instant it arrived
  plan       \* what it computed from its reads and is about to write

rows    == <<status, deadline, winner, entrants, entered, matches, draw, ledger>>
request == <<step, call, seen, plan>>
vars    == <<rows, players, now, request>>

EntrantRow == [player : Player \cup {NoPlayer}, level : Level \cup {NoLevel},
               seed : Nat]
Kind       == {"entry", "match_win", "champion", "finalist", "semifinalist"}
Source     == Nat \X Nat \X Nat
Award      == [player : Player, kind : Kind, source : Source]
Step       == {"idle", "arrived", "player", "enrol", "level", "retire", "remove",
               "update", "conclude_entrants", "conclude_bracket", "status",
               "editable", "seeding", "replace", "delete_bracket", "board",
               "results"}

NoCall  == [op |-> "none", player |-> NoPlayer, level |-> NoLevel,
            entrant |-> NoEntrant, to |-> "draft"]
NoGuard == [status |-> "draft", open_at |-> NoTime]
NoPlan  == [order |-> <<>>, winner |-> NoEntrant, awards |-> {}, field |-> <<>>,
            draw |-> 0, before |-> <<>>, after |-> <<>>]

Init ==
  /\ status = "draft" /\ deadline \in Time /\ winner = NoEntrant
  /\ entrants = <<>> /\ entered = 0
  /\ matches = NoMatches /\ draw = 0
  /\ ledger = {} /\ players = Player /\ now = 0
  /\ step = [r \in Request |-> "idle"] /\ call = [r \in Request |-> NoCall]
  /\ seen = [r \in Request |-> NoGuard] /\ plan = [r \in Request |-> NoPlan]

--------------------------------------------------------------------------------
(* The life of a request. *)

Begin(r, c, g, s) ==
  /\ step[r] = "idle" /\ c.op \in Ops
  /\ call' = [call EXCEPT ![r] = c]
  /\ seen' = [seen EXCEPT ![r] = g]
  /\ step' = [step EXCEPT ![r] = s]
  /\ UNCHANGED plan

Goto(r, s) ==
  /\ step' = [step EXCEPT ![r] = s]
  /\ UNCHANGED <<call, seen, plan>>

Plan(r, p, s) ==
  /\ step' = [step EXCEPT ![r] = s]
  /\ plan' = [plan EXCEPT ![r] = p]
  /\ UNCHANGED <<call, seen>>

Finish(r) ==
  /\ step' = [step EXCEPT ![r] = "idle"]
  /\ call' = [call EXCEPT ![r] = NoCall]
  /\ seen' = [seen EXCEPT ![r] = NoGuard]
  /\ plan' = [plan EXCEPT ![r] = NoPlan]

\* The request ends and its open transaction is rolled back: the 30 second
\* timeout, a client that hangs up, a restart of the service, or a refusal that
\* a read leads to.
Abandon(r) ==
  /\ step[r] # "idle"
  /\ Finish(r)
  /\ UNCHANGED <<rows, players, now>>

Admin(op) == [NoCall EXCEPT !.op = op]
Read      == [NoGuard EXCEPT !.status = status]
HasBracket == matches # NoMatches

--------------------------------------------------------------------------------
(* The row itself: update, delete. *)

UpdateLoad(r) ==
  /\ status \notin {"gone", "concluded"}
  /\ Begin(r, Admin("update"), Read, "update")
  /\ UNCHANGED <<rows, players, now>>

UpdateWrite(r) ==
  /\ step[r] = "update"
  /\ \/ /\ status = seen[r].status
        /\ deadline' \in Time
     \/ /\ status # seen[r].status
        /\ UNCHANGED deadline
  /\ Finish(r)
  /\ UNCHANGED <<status, winner, entrants, entered, matches, draw, ledger, players, now>>

\* Entrants, matches and ledger rows cascade.
Delete ==
  /\ "delete" \in Ops /\ status # "gone"
  /\ status' = "gone" /\ winner' = NoEntrant
  /\ entrants' = <<>> /\ matches' = NoMatches /\ ledger' = {}
  /\ UNCHANGED <<deadline, entered, draw, players, now, request>>

--------------------------------------------------------------------------------
(* Entrants: register, retire, add_entrant, remove_entrant. *)

OpenAt(at) == status = "open" /\ at < deadline

\* Bugs of the guard: the status, or the bracket, is trusted from the read.
GuardAnyStatus(g)  == (g.open_at = NoTime \/ deadline > g.open_at) /\ ~HasBracket
GuardAnyBracket(g) == status = g.status /\ (g.open_at = NoTime \/ deadline > g.open_at)

\* The part of every entrant write that the statement checks itself.
GuardHolds(g) ==
  /\ status = g.status
  /\ g.open_at = NoTime \/ deadline > g.open_at
  /\ ~HasBracket

EntriesOf(pl) == {e \in DOMAIN entrants : entrants[e].player = pl}

\* register and retire take the clock before they load the tournament.
Arrive(r) ==
  /\ \E op \in {"register", "retire"}, pl \in players, lv \in Level :
       Begin(r, [NoCall EXCEPT !.op = op, !.player = pl, !.level = lv],
             [status |-> "open", open_at |-> now], "arrived")
  /\ UNCHANGED <<rows, players, now>>

RegistrationLoad(r) ==
  /\ step[r] = "arrived"
  /\ OpenAt(seen[r].open_at)
  /\ Goto(r, IF call[r].op = "register" THEN "enrol" ELSE "retire")
  /\ UNCHANGED <<rows, players, now>>

AddLoad(r) ==
  /\ status \notin {"gone", "concluded"} /\ ~HasBracket
  /\ \E pl \in Player, lv \in Level \cup {NoLevel} :
       Begin(r, [Admin("add") EXCEPT !.player = pl, !.level = lv], Read, "player")
  /\ UNCHANGED <<rows, players, now>>

AddPlayerExists(r) ==
  /\ step[r] = "player"
  /\ call[r].player \in players
  /\ Goto(r, "enrol")
  /\ UNCHANGED <<rows, players, now>>

\* A bug: the free place is counted one too far.
InsertsOneMore(r) ==
  /\ GuardHolds(seen[r])
  /\ EntriesOf(call[r].player) = {}
  /\ Cardinality(DOMAIN entrants) <= MaxEntrants
  /\ call[r].player \in players

\* One INSERT decides everything: the guard, the free place, the unique index
\* and the foreign key of the player.
Inserts(r) ==
  /\ GuardHolds(seen[r])
  /\ EntriesOf(call[r].player) = {}
  /\ Cardinality(DOMAIN entrants) < MaxEntrants
  /\ call[r].player \in players

EnrolInsert(r) ==
  /\ step[r] = "enrol"
  /\ Inserts(r)
  /\ entered < MaxEntries
  /\ entered' = entered + 1
  /\ entrants' = [e \in DOMAIN entrants \cup {entered + 1} |->
                    IF e \in DOMAIN entrants THEN entrants[e]
                    ELSE [player |-> call[r].player, level |-> call[r].level,
                          seed |-> NoSeed]]
  /\ Finish(r)
  /\ UNCHANGED <<status, deadline, winner, matches, draw, ledger, players, now>>

\* A player who is in keeps the entry; a level that was given is set next.
EnrolAlready(r) ==
  /\ step[r] = "enrol"
  /\ GuardHolds(seen[r]) /\ EntriesOf(call[r].player) # {}
  /\ IF call[r].level = NoLevel THEN Finish(r) ELSE Goto(r, "level")
  /\ UNCHANGED <<rows, players, now>>

SetSkill(r) ==
  /\ step[r] = "level"
  /\ entrants' = [e \in DOMAIN entrants |->
                    IF GuardHolds(seen[r]) /\ entrants[e].player = call[r].player
                    THEN [entrants[e] EXCEPT !.level = call[r].level]
                    ELSE entrants[e]]
  /\ Finish(r)
  /\ UNCHANGED <<status, deadline, winner, entered, matches, draw, ledger, players, now>>

RemoveRows(gone) ==
  entrants' = [e \in DOMAIN entrants \ gone |-> entrants[e]]

RemoveEntrantOf(r) ==
  /\ step[r] = "retire"
  /\ RemoveRows(IF GuardHolds(seen[r]) THEN EntriesOf(call[r].player) ELSE {})
  /\ Finish(r)
  /\ UNCHANGED <<status, deadline, winner, entered, matches, draw, ledger, players, now>>

RemoveLoad(r) ==
  /\ status \notin {"gone", "concluded"} /\ ~HasBracket
  /\ \E e \in DOMAIN entrants :
       Begin(r, [Admin("remove") EXCEPT !.entrant = e], Read, "remove")
  /\ UNCHANGED <<rows, players, now>>

RemoveEntrant(r) ==
  /\ step[r] = "remove"
  /\ RemoveRows(IF GuardHolds(seen[r]) THEN {call[r].entrant} ELSE {})
  /\ Finish(r)
  /\ UNCHANGED <<status, deadline, winner, entered, matches, draw, ledger, players, now>>

--------------------------------------------------------------------------------
(* The status machine: change_status, plan_transition, conclusion. *)

Transition(from, to) ==
  \/ from = "draft" /\ to \in {"open", "live"}
  \/ from = "open" /\ to = "live"
  \/ from = "live" /\ to = "open" /\ ~HasBracket

\* A move that names no winner and pays nothing.
StatusLoad(r) ==
  /\ \E to \in Status \ {"gone", "concluded"} :
       /\ Transition(status, to)
       /\ Begin(r, [Admin("status") EXCEPT !.to = to], Read, "status")
  /\ UNCHANGED <<rows, players, now>>

ConcludeLoad(r) ==
  /\ status \in {"draft", "open", "live"}
  /\ \E named \in EntrantId \cup {NoEntrant} :
       Begin(r, [Admin("status") EXCEPT !.to = "concluded", !.entrant = named],
             Read, "conclude_entrants")
  /\ UNCHANGED <<rows, players, now>>

ConcludeEntrants(r) ==
  /\ step[r] = "conclude_entrants"
  /\ Plan(r, [NoPlan EXCEPT !.field =
                [e \in DOMAIN entrants |-> entrants[e].player]],
          "conclude_bracket")
  /\ UNCHANGED <<rows, players, now>>

ConcludeBracket(r) ==
  LET named == call[r].entrant
      field == plan[r].field
      Pays(w) == Plan(r, [NoPlan EXCEPT !.winner = w,
                            !.awards = TournamentAwards(field, matches, draw, w)],
                      "status")
  IN  /\ step[r] = "conclude_bracket"
      /\ \/ /\ HasBracket
            /\ named = NoEntrant /\ Champion(matches) # NoEntrant
            /\ Pays(Champion(matches))
         \/ /\ ~HasBracket
            /\ named \in DOMAIN field \cup {NoEntrant}
            /\ Pays(named)
      /\ UNCHANGED <<rows, players, now>>

\* A bug: no foreign keys.
MoveWithoutKeys(r) == status = seen[r].status

\* The status guard of the UPDATE, the foreign keys of the winner and of every
\* award, and the unique index of the ledger: one failure drops the whole move.
MoveCommits(r) ==
  /\ status = seen[r].status
  /\ plan[r].winner \in DOMAIN entrants \cup {NoEntrant}
  /\ \A a \in plan[r].awards : a.player \in players /\ a \notin ledger

\* A bug: no transaction, so the status moves although an award fails.
SetStatusHalf(r) ==
  /\ step[r] = "status"
  /\ IF status = seen[r].status
     THEN status' = call[r].to /\ winner' = NoEntrant
     ELSE UNCHANGED <<status, winner>>
  /\ ledger' = IF MoveCommits(r) THEN ledger \cup plan[r].awards ELSE ledger
  /\ Finish(r)
  /\ UNCHANGED <<deadline, entrants, entered, matches, draw, players, now>>

\* A bug: the awards have a transaction of their own, which may fail alone.
SetStatusUnpaid(r) ==
  /\ step[r] = "status"
  /\ IF MoveCommits(r)
     THEN /\ status' = call[r].to /\ winner' = plan[r].winner
          /\ ledger' \in {ledger, ledger \cup plan[r].awards}
     ELSE UNCHANGED <<status, winner, ledger>>
  /\ Finish(r)
  /\ UNCHANGED <<deadline, entrants, entered, matches, draw, players, now>>

SetStatus(r) ==
  /\ step[r] = "status"
  /\ \/ /\ MoveCommits(r)
        /\ status' = call[r].to
        /\ winner' = plan[r].winner
        /\ ledger' = ledger \cup plan[r].awards
     \/ /\ ~MoveCommits(r)
        /\ UNCHANGED <<status, winner, ledger>>
  /\ Finish(r)
  /\ UNCHANGED <<deadline, entrants, entered, matches, draw, players, now>>

--------------------------------------------------------------------------------
(* The bracket: generate_bracket, reorder_seeds, delete_bracket. *)

DrawLoad(r) ==
  /\ status = "live"
  /\ \/ Begin(r, Admin("generate"), Read, "editable")
     \/ HasBracket /\ Begin(r, Admin("reorder"), Read, "editable")
  /\ UNCHANGED <<rows, players, now>>

DrawEditable(r) ==
  /\ step[r] = "editable"
  /\ ~HasResults(matches)
  /\ Goto(r, "seeding")
  /\ UNCHANGED <<rows, players, now>>

SeedingLevel(e) == IF entrants[e].level = NoLevel THEN Unrated ELSE entrants[e].level

\* Every entrant, one time.  generate shuffles, then sorts by level; reorder
\* takes any permutation, the one the client gave.
SeedOrders(op) ==
  {o \in [1..Cardinality(DOMAIN entrants) -> DOMAIN entrants] :
     \A i, j \in DOMAIN o : i < j =>
       /\ o[i] # o[j]
       /\ op = "generate" => SeedingLevel(o[i]) >= SeedingLevel(o[j])}

DrawOrder(r) ==
  /\ step[r] = "seeding"
  /\ Cardinality(DOMAIN entrants) \in 2..MaxEntrants
  /\ \E o \in SeedOrders(call[r].op) :
       Plan(r, [NoPlan EXCEPT !.order = o], "replace")
  /\ UNCHANGED <<rows, players, now>>

\* A bug: a rebuild that does not look for results.
RebuildableAnyway(r) == status = seen[r].status

\* bracket_blocked
Rebuildable(r) == status = seen[r].status /\ ~HasResults(matches)

SeedOf(order, e) ==
  IF \E i \in DOMAIN order : order[i] = e
  THEN CHOOSE i \in DOMAIN order : order[i] = e
  ELSE NoSeed

Reseed(order) ==
  entrants' = [e \in DOMAIN entrants |-> [entrants[e] EXCEPT !.seed = SeedOf(order, e)]]

ReplaceCommits(r) ==
  /\ Rebuildable(r)
  /\ \A i \in DOMAIN plan[r].order : plan[r].order[i] \in DOMAIN entrants

ReplaceBracket(r) ==
  /\ step[r] = "replace"
  /\ \/ /\ ReplaceCommits(r) /\ draw < MaxDraws
        /\ Reseed(plan[r].order)
        /\ matches' = Generate(plan[r].order)
        /\ draw' = draw + 1
     \/ /\ ~ReplaceCommits(r)
        /\ UNCHANGED <<entrants, matches, draw>>
  /\ Finish(r)
  /\ UNCHANGED <<status, deadline, winner, entered, ledger, players, now>>

DeleteBracketLoad(r) ==
  /\ status \notin {"gone", "concluded"}
  /\ Begin(r, Admin("delete_bracket"), Read, "delete_bracket")
  /\ UNCHANGED <<rows, players, now>>

DeleteBracket(r) ==
  /\ step[r] = "delete_bracket"
  /\ \/ /\ Rebuildable(r)
        /\ Reseed(<<>>)
        /\ matches' = NoMatches
     \/ /\ ~Rebuildable(r)
        /\ UNCHANGED <<entrants, matches>>
  /\ Finish(r)
  /\ UNCHANGED <<status, deadline, winner, entered, draw, ledger, players, now>>

--------------------------------------------------------------------------------
(* Results: report_result, clear_result. *)

ResultLoad(r) ==
  /\ status \notin {"gone", "concluded"}
  /\ \E op \in {"report", "clear"} : Begin(r, Admin(op), Read, "board")
  /\ UNCHANGED <<rows, players, now>>

\* The rows the result changes, as read and as they must become.
ResultPlan(B, p) ==
  [NoPlan EXCEPT !.draw   = draw,
                 !.before = [q \in Changed(B, p) |-> matches[q]],
                 !.after  = [q \in Changed(B, p) |-> B[q]]]

ResultBoard(r) ==
  /\ step[r] = "board"
  /\ \E p \in DOMAIN matches :
       \/ /\ call[r].op = "report"
          /\ \E w \in {matches[p].a, matches[p].b} :
               /\ CanReport(matches, p, w)
               /\ Plan(r, ResultPlan(Reported(matches, p, w), p), "results")
       \/ /\ call[r].op = "clear"
          /\ CanClear(matches, p)
          /\ Plan(r, ResultPlan(Cleared(matches, p), p), "results")
       \/ /\ call[r].op = "clear"
          /\ IsReady(matches[p]) /\ ~IsPlayed(matches[p])
          /\ Plan(r, NoPlan, "results")
  /\ UNCHANGED <<rows, players, now>>

\* A bug: the rows are written without a look at what stands there.
ResultCommitsBlind(r) ==
  /\ status = seen[r].status
  /\ \A q \in DOMAIN plan[r].before : plan[r].draw = draw

\* A clear of what was not decided changes no row, and its write looks at the status
\* alone.
ResultCommits(r) ==
  /\ status = seen[r].status
  /\ \A q \in DOMAIN plan[r].before :
       plan[r].draw = draw /\ q \in DOMAIN matches /\ matches[q] = plan[r].before[q]

UpdateMatches(r) ==
  /\ step[r] = "results"
  /\ matches' = IF ResultCommits(r)
                THEN [q \in DOMAIN matches |->
                        IF q \in DOMAIN plan[r].after THEN plan[r].after[q] ELSE matches[q]]
                ELSE matches
  /\ Finish(r)
  /\ UNCHANGED <<status, deadline, winner, entrants, entered, draw, ledger, players, now>>

--------------------------------------------------------------------------------
(* The world around: an account is deleted, time passes. *)

\* The entry stays and loses its player; the ledger rows of the player go.
PlayerDeleted(pl) ==
  /\ "delete_player" \in Ops /\ pl \in players
  /\ players' = players \ {pl}
  /\ entrants' = [e \in DOMAIN entrants |->
                    IF entrants[e].player = pl
                    THEN [entrants[e] EXCEPT !.player = NoPlayer]
                    ELSE entrants[e]]
  /\ ledger' = {a \in ledger : a.player # pl}
  /\ UNCHANGED <<status, deadline, winner, entered, matches, draw, now, request>>

Tick ==
  /\ now < MaxTime
  /\ now' = now + 1
  /\ UNCHANGED <<rows, players, request>>

RequestNext(r) ==
  \/ UpdateLoad(r) \/ UpdateWrite(r)
  \/ Arrive(r) \/ RegistrationLoad(r) \/ AddLoad(r) \/ AddPlayerExists(r)
  \/ EnrolInsert(r) \/ EnrolAlready(r) \/ SetSkill(r)
  \/ RemoveEntrantOf(r) \/ RemoveLoad(r) \/ RemoveEntrant(r)
  \/ StatusLoad(r) \/ ConcludeLoad(r) \/ ConcludeEntrants(r)
  \/ ConcludeBracket(r) \/ SetStatus(r)
  \/ DrawLoad(r) \/ DrawEditable(r) \/ DrawOrder(r) \/ ReplaceBracket(r)
  \/ DeleteBracketLoad(r) \/ DeleteBracket(r)
  \/ ResultLoad(r) \/ ResultBoard(r) \/ UpdateMatches(r)
  \/ Abandon(r)

Next ==
  \/ \E r \in Request : RequestNext(r)
  \/ Delete
  \/ \E pl \in players : PlayerDeleted(pl)
  \/ Tick

Spec == Init /\ [][Next]_vars

--------------------------------------------------------------------------------
(* Properties.                                                             *)

\* Type invariant.
TypeOK ==
  /\ status \in Status /\ deadline \in Time /\ now \in Time
  /\ winner \in EntrantId \cup {NoEntrant}
  /\ DOMAIN entrants \subseteq EntrantId /\ entered \in 0..MaxEntries
  /\ entrants \in [DOMAIN entrants -> EntrantRow]
  /\ DOMAIN matches \subseteq Position /\ draw \in Nat
  /\ matches \in [DOMAIN matches -> Match(EntrantId)]
  /\ ledger \subseteq Award /\ players \subseteq Player
  /\ step \in [Request -> Step]
  /\ call \in [Request -> [op : AllOps \cup {"none"}, player : Player \cup {NoPlayer},
                           level : Level \cup {NoLevel},
                           entrant : EntrantId \cup {NoEntrant}, to : Status]]
  /\ seen \in [Request -> [status : Status, open_at : Time \cup {NoTime}]]
  /\ DOMAIN plan = Request
  /\ \A r \in Request :
       /\ plan[r].order \in Seq(EntrantId)
       /\ plan[r].winner \in EntrantId \cup {NoEntrant}
       /\ plan[r].awards \subseteq Award
       /\ plan[r].field \in [DOMAIN plan[r].field -> Player \cup {NoPlayer}]
       /\ plan[r].after \in [DOMAIN plan[r].after -> Match(EntrantId)]

\* A concluded tournament is final (require_not_concluded, and the status guard
\* of every write): no request, however long ago it read the tournament, moves
\* the status, the winner, the field, the bracket or the deadline after the
\* conclusion, and no cycles are paid any more.  Only the deletion of the
\* tournament or of an account takes something away.
ConcludedIsFinal ==
  [][status = "concluded" /\ status' # "gone" =>
       /\ UNCHANGED <<status, winner, matches, deadline>>
       /\ DOMAIN entrants' = DOMAIN entrants
       /\ \A e \in DOMAIN entrants :
            /\ entrants'[e].seed = entrants[e].seed
            /\ entrants'[e].level = entrants[e].level
       /\ ledger' \subseteq ledger]_vars

\* Cycles are paid by the conclusion alone: a tournament that is not concluded has
\* paid nothing, so a refused conclusion leaves nothing behind (set_status).
PaidOnlyWhenConcluded == ledger # {} => status = "concluded"

\* The champion's cycles and the winner shown on the tournament are about the
\* same player, whatever left between the reads and the write of a conclusion.
ChampionIsWinner ==
  \A a \in ledger :
    a.kind = "champion" =>
      /\ winner \in DOMAIN entrants
      /\ entrants[winner].player = a.player

\* A bracket fixes the field (require_entrants_editable): while one stands, no
\* entrant comes, goes or changes level, whatever an entrant request read.
BracketFixesField ==
  [][HasBracket /\ matches' # NoMatches =>
       /\ DOMAIN entrants' = DOMAIN entrants
       /\ \A e \in DOMAIN entrants : entrants'[e].level = entrants[e].level]_vars

\* The field keeps its size and its one entry per player when registrations and
\* admin entries race for the last place (add_entrant).
FieldWithinBounds ==
  /\ Cardinality(DOMAIN entrants) <= MaxEntrants
  /\ \A e, f \in DOMAIN entrants :
       e # f /\ entrants[e].player # NoPlayer => entrants[e].player # entrants[f].player

\* The seed order the entrant rows hold.
SeedOrder ==
  LET seeded == {e \in DOMAIN entrants : entrants[e].seed # NoSeed}
  IN  [i \in 1..Cardinality(seeded) |-> CHOOSE e \in seeded : entrants[e].seed = i]

Play == INSTANCE BracketPlay
          WITH seeds <- SeedOrder, Entrant <- EntrantId,
               Orders <- {o \in UNION {[1..n -> EntrantId] : n \in 2..MaxEntrants} :
                            \A i, j \in DOMAIN o : o[i] = o[j] => i = j}

\* The bracket behaves as if every operation on it ran in one piece
\* (update_matches, replace_bracket, delete_bracket): a result computed from an
\* old read is refused or is right, and the seeds on the entrant rows are those
\* of the draw the matches belong to.
ActsOnBracketAtomically == Play!Spec

\* What a bracket promises, seen through the requests that race on it.
StoredBracketSound == Play!FeedsAgree /\ Play!WinnersSit /\ Play!OncePerRound

\* "With a bracket the final names the winner" (conclusion).
FinalNamesWinner ==
  status = "concluded" /\ HasBracket => winner = Champion(matches)

\* "the bracket must be generated after the tournament goes live" (NotLive): a
\* bracket belongs to a tournament that is live or was.
BracketOnlyOnceLive == HasBracket => status \in {"live", "concluded"}

\* "Every entrant, one time" (reorder_seeds), "The status or the entrants changed
\* since the service read them" (BracketWrite::Changed): a bracket seats the
\* whole field.
BracketSeatsField ==
  HasBracket => \A e \in DOMAIN entrants : entrants[e].seed # NoSeed

\* "Every entrant of a concluded tournament gets this for being there"
\* (ENTRY_CYCLES).
EveryEntrantPaid ==
  status = "concluded" =>
    \A e \in DOMAIN entrants :
      entrants[e].player # NoPlayer =>
        [player |-> entrants[e].player, kind |-> "entry", source |-> TournamentRef]
          \in ledger
================================================================================
