# Lanbunker: TLA+ models, checks and proofs

The verification project of the lanbunker monorepo: an API in Rust
(`crates/bunker-api`, `crates/bunker-models`) over one SQLite file, a site that
renders on the server (`web/`), and the scripts that deploy and back up the box
(`deploy/`). People sign up, come to event nights and pay in at the door, enter
tournaments, play brackets, and collect *cycles*, the points of the board.

The code is small and its hard part is one thing: **many requests at once over a
database that only promises transactions**. Every handler reads, thinks, and
writes in another statement. `README.md:65-67` of the repository states the rule
the code follows: "A write carries the state that its request read, and storage
checks that state in the same statement. A lost race answers 409." The models
split every handler at its awaits, let the pieces of all handlers interleave, and
ask what that rule buys and where it is not followed. Around them stand the process
that runs the handlers and the script that replaces it.

## 1. Inventory

| Component | Source | State | Operations | What is hard | Model |
| --- | --- | --- | --- | --- | --- |
| Bracket | `bunker-models/src/bracket.rs` | none: pure data and rules | generate, report, clear, from_matches, champion | byes, propagation, corrections in any order | `Bracket`, `BracketPlay` |
| Tournaments | `services/tournament_service.rs`, `storage/tournament_storage.rs` | tournaments, tournament_entrants, matches, point_entries | update, delete, status, register, retire, add, remove, skill, generate, reorder, delete bracket, report, clear | every read is stale when it is written from; conclusions pay; refusals are explained from later reads | `Tournament`, `Replies` |
| Awards | `bunker-models/src/points.rs` | none | tournament_awards, checkin_award, tiers, ranks | who is paid when accounts go; byes win nothing | `CyclesRules`, `Payout` |
| Events and check-ins | `services/event_service.rs`, `storage/event_storage.rs`, `bunker-models/src/event.rs` | events, event_checkins, point_entries | create, update, set_status, delete, check_in, add_checkin, remove_checkin | two doors, one player; a check-in and its cycles are two tables | `Doors` |
| Ledger and board | `services/points_service.rs`, `storage/point_storage.rs`, view `player_standings` | point_entries | adjust; history, totals, standings | foreign keys that go; inactive players; an answer of two reads | `Doors`, `Profile` |
| Players | `services/player_service.rs`, `storage/player_storage.rs` | players | signup, set_role, rename, delete | last admin, one handle in two cases | `Accounts` |
| Login and tokens | `services/auth_service.rs`, `services/token.rs`, `internal/http/auth.rs` | players.password_hash, must_change_password, credentials_changed_at | login, change_password, reset_password, authenticate | hashes take time between the read and the write; whole seconds | `Accounts` |
| Password hashing | `services/password.rs` | a semaphore of four | hash, verify | futures that are dropped, waiting in line | `Hasher`, `Server` |
| Match log, nemesis | `services/match_service.rs`, `storage/match_storage.rs`, view `player_matches` | none: reads brackets | record, nemesis, history | three reads that should agree; ties | `Profile`, `Lists` |
| Transactions, pool | `storage/db.rs` | WAL, one write lock, eight connections | begin_write, acquire, close | waits of five seconds that can meet | `Server`; one action per transaction elsewhere |
| HTTP layer | `server.rs`, `internal/http/*`, `services/error.rs` | none | timeout, drain, readiness, failures to statuses | a request may end at any await; the stop has three clocks | `Server`, `Answers`, `Abandon` of each module |
| API process | `main.rs`, `config/*` | the environment | start, migrate, drain, stop | the pool must close before the kill | `Config`, `Server`, `Deploy` |
| Deploy | `deploy/bunker-deploy.sh` | binary, database file, key, snapshot | deploy, roll back | power that fails between two commands or in a copy | `Deploy` |
| Backup, replication | `deploy/litestream.yml`, `deploy/bunker-backup.sh` | copies elsewhere | copy | external programs | not modelled |
| Site | `web/src` | a session cookie | forms over the API | a form sent again | not modelled |

How they interact. Routers call services; services call storages; storages share
one pool. A conclusion and a check-in write the ledger inside their own
transaction. Deleting a player, an event or a tournament reaches the others
through foreign keys: entries lose their player, check-ins and ledger rows
cascade. `Tournament` and `Doors` therefore contain the deletion of an account as
an action of their environment; `Accounts` says how it comes about. Nothing
but the database is shared, save the permits of the hasher and the connections
of the pool, which `Server` puts under one request. No component calls another
back.

`PROJECT.json` lists every component with its state of modelling, and every
hazard at the line where it bites.

## 2. The modules

A module is a set of variables that mirror columns, and for each request a
program counter (`step`), what the client asked (`call`), and what the request
read and carries to its write (`seen`, `plan`, `receipt`). One action is one
awaited storage call together with the computation up to the next one. A write
transaction is one action: it begins with `BEGIN IMMEDIATE`
(`storage/db.rs:56-65`), so SQLite admits one writer, and readers see committed
rows only. Refusals that change nothing, the 30 second timeout, a client that
hangs up, a failed transaction and a restart of the process all do the same to a
request: it ends where it stands and its open transaction is rolled back. That is
`Abandon`, enabled at every step of every request.

* **`Bracket`** holds the operators of `bracket.rs`: a bracket is a function from
  `<<round, slot>>` to matches. `Generate`, `Reported`, `Cleared` and their guards
  `CanReport`, `CanClear`, `NextUndecided` are the methods of the same names.
* **`BracketPlay`** is the abstract specification: what a bracket promises when
  every operation on it happens in one piece. It states the bracket's properties.
* **`Tournament`** is one tournament with all requests on it: 27 steps of 13
  operations. `rows` are the tables; `GuardHolds` is the `where` clause that
  `EntrantGuard::predicate` puts into entrant writes; `MoveCommits`,
  `Rebuildable` and `ResultCommits` are what `set_status`, `replace_bracket` /
  `delete_bracket` and `update_matches` check in their transactions. `draw`
  numbers the brackets, since a new one has new match ids. `Play`, an instance of
  `BracketPlay` with the seed order read off the entrant rows, is the refinement
  mapping of `ActsOnBracketAtomically`. A clear of a match without a winner changes
  no row, and its empty list goes through `update_matches` and its guards as any other
  (`ResultBoard` plans `NoPlan`).
* **`Doors`** is the nights: events, check-ins, the ledger rows they and the
  admins write, and the board (`Active`, `Cycles`, `Place`: the view
  `player_standings`). An event's window is `open`, and `Clock` enters or
  leaves it. `CheckInNew` is the whole transaction of storage `check_in`: the
  activity before, the row, the cycles.
* **`Accounts`** is the players table, its login and its backoffice. A hash or a
  verification is the time between two actions. The clock ticks in seconds, the
  unit of a token and of `credentials_changed_at`. Passwords are model values,
  handles a name and a letter case.
* **`CyclesRules`** is `points.rs`: what pays, how much in a field of which tier,
  and the ladder. `Tournament` and `Profile` pay by its `TournamentAwards`.
  **`Payout`** lays the amounts over every bracket `BracketPlay` reaches.
* **`Replies`** extends `Tournament` by what a request is answered: the load after
  a write, `explain_refusal`, `stale`, `entrant_of`, each a read that comes later
  than what it explains. `tail` is the read that is left, `since` what others
  committed since the request's first read. **`Answers`** is the way of a failure
  to a status (`services/error.rs`, `storage/error.rs`, `server.rs`) and the
  statuses the routers document.
* **`Profile`** is the page of one player: match log, record, nemesis, cycles and
  totals, each a read of its own, while the backoffice plays, corrects, moves and
  deletes. A conclusion is two steps: `ConclusionReads` takes the status, the accounts
  of the field and the bracket, and `ConclusionCommits` pays for those, judged by the
  status and the foreign keys alone. `raced` remembers the tournaments whose bracket
  was written in between. **`Lists`** is the window of a page.
* **`Hasher`** is the semaphore, its queue, the futures and the tasks of the
  blocking pool. A future that is dropped leaves its task running, an `orphan`.
  The semaphore itself is tokio's (first come, first served, a returned permit
  goes to the head of the queue) and is marked external.
* **`Server`** extends `Hasher` by the process around it. A handler is the
  sequence of what it awaits (`Handler`): a read, a hash, a write. A read holds a
  connection of the pool; a write holds one and waits for the write lock with it.
  `line` is the queue for a connection. SIGTERM starts a drain, its deadline or
  its end closes the pool, and `systemd` kills later. Time counts from SIGTERM.
* **`Config`** is what `env.rs` takes from an environment. **`Deploy`** is
  `bunker-deploy.sh`, command by command, over the files of the box, beside the
  API that systemd keeps alive. `install` writes in place and is two steps with a
  torn file in between, also when it copies `api.env`; `mv` is one. `db` is what SQLite
  reads, `wal` what it was before each commit that no checkpoint has taken out of the
  WAL: a power failure may undo those, from one of them on (`UndoesCommits`, after
  `db.rs:28-30`), at any command. `found` is history: the environment when the script
  began, the binary and the database when it had stopped the API, and whether a power
  failure cut a rollback off.
* **`MC*`** instantiate them for TLC; **`*_proofs`** hold the theorems, and
  **`FiniteSums`** what they need of sums.

Operators introduced by a comment "A bug: ..." are variants of the operator
after them. No specification uses them; they are there to put in its place and
see which property notices.

## 3. What TLC checks

| Run | Instance | States | What it shows |
| --- | --- | --- | --- |
| `bracket` | all fields of 2 to 9 entrants | 208,290 | `BracketPlay` and `Payout`: sides agree with the matches that feed them, nobody plays twice in a round, a settled path stays, every bracket can be played to its end, reads back, seats its seeds with the byes on top, and pays a better place more |
| `results` | 3 entrants, 2 requests, 2 draws, live | 557,642 | draws, reorders, removals, reports and clears that race keep a sound bracket, and the tables behave as `BracketPlay` |
| `conclude` | 2 players, 2 requests, 1 draw, clock 0..1, from the creation | 3,696,966 | a conclusion pays one time, is final, and pays the champion it names, also when accounts are deleted under it |
| `replies` | 3 players for 2 places, any 2 requests, clock 0..1, started anywhere on a tournament's way | 1,298,582 | every answer is one the route documents, "changed in the meantime" is said only when it is true, a refusal wrote nothing, a conclusion nobody crossed stores the right winner and pays the whole field, and the field keeps its size |
| `doors` | 2 players, 2 events, 2 requests, 1 adjustment | 781,026 | nobody is half paid; the receipt tells what its write did; who never came moves nobody on the board |
| `accounts` | 3 players, 3 handles, 2 requests, clock 0..1 | 581,572 | an admin remains, one handle is one account, a fresh token works |
| `server` | 3 requests of 5 kinds, 2 connections, 1 permit, clock 0..3 | 323,375 | no permit is lost, nobody waits beside a free one, every request ends, the pool closes before the kill, and nothing holds a connection after it |
| `deploy` | 3 binaries, 3 deploys, 2 power failures, 2 writes | 8,243,284 | a rollback that ends restores what the deploy found, the API can always start from its environment, and what the old binary wrote stays in the database or in the snapshot until the next deploy copies |
| `profile` | 3 players, 4 tournaments of which 3 are over, 1 conclusion under way, 2 pages, 1 write during a read | 1,000,636 | the paid wins are the wins of the log but for a bracket written under a conclusion, the nemesis has the best claim, an answer that no write disturbed adds up |

Why the bounds are enough. Nine entrants give brackets of one to four rounds with
zero to seven byes, and every way a bye, a first match and a later match can meet
(a bracket of the next size repeats them; the theorems cover 256). Two requests
are what a race of the code takes: each write is one transaction that is judged
against the reads of its own request, so the other request is whatever happened in
between, and it may run many times. In `replies` only two begin (`MaxBegun`), and
the tournament starts anywhere on its way instead. Two draws let a result meet a
bracket that was drawn again in the same slots; `conclude` takes one, and lets the
clock pass only before it (`ClockBeforeTheDraw`), since a clock and a second draw
each have a run of their own. Three players for two places fill
a field and leave one outside. Clock 0..1 has a before and an after of a deadline,
of a change of password, and the same second. Three accounts, of which up to three
are admins, demote one another in a cycle; `dave` and `Dave` collide and `eve`
does not. Three requests over two connections and one permit hold, wait and wait
behind a waiter, for a connection, for the lock and for the permit. The clock of
`server` has room for the timeout before and after the drain deadline, and for the
kill. Three binaries are one that is older, one that brings a migration and one
that never gets ready; three deploys make a deploy after a rollback after a deploy.
Four tournaments are the least in which two opponents can beat one player twice
each, and one of them is enough to be played while the others are over; their days and
moments of creation disagree on purpose. One write during a read is enough where the
property is about none.

The bounds are constants: `MaxEntries`, `MaxDraws`, `MaxTime`, `MaxAdjustments`,
`MaxOrphans`, `MaxBegun`, `MaxUploads`, `MaxDeploys`, `MaxCrashes`, `MaxWrites`,
`DoomedTour`, `DoomedAccount`. They cap counters, or name the rows that may go, in
the guards of the actions. `ClockBeforeTheDraw` is the one state constraint.
Deadlock is not checked where the system may rest (a
service without requests, a bound that is used up, a box whose API stays stopped);
`Server` and `BracketPlay` check it.

Symmetry is used over players, requests and events in runs of invariants and
action properties; none of those modules picks one of them by `CHOOSE`. The run
with liveness uses none.

Fairness. Only `Server` states any (`ServerFairness`): a step of a request that can
be taken is taken, a request that waits for a connection of a closed pool is told
so, and a process whose pool is closed exits. The runtime polls what is ready;
statements and hashes end; a writer that waits for the lock is answered, by the
lock or by its timeout of five seconds. Nothing is assumed of clients or of timers:
clients may come, stay away or hang up, the timeout and SIGTERM may never fire, and
`EveryRequestEnds` holds without them. Tournaments, doors and accounts promise
nothing that must happen: a request may always be cut off.

### Where the code and its docs disagree

Three runs look for a violation and find one. Each states a sentence of the
repository.

* `final_race` – *"With a bracket the final names the winner"*
  (`tournament_service.rs:361`). The conclusion reads the bracket, and
  `set_status` checks the status alone. A correction of the final that commits in
  between leaves the old winner, with the cycles. It takes such a commit:
  `QuietConclusionIsRight` holds, and is proved.
* `hash_bound` – *"at most four hashes at once"* (`README.md:68`). The permit
  is held by the future; a request that times out gives it back while its task,
  which nobody can stop, still holds its memory. Only those tasks are too many:
  `Server_proofs` proves that the hashes somebody waits for keep within the permits.
* `reset_race` – after a reset *"the next login must change it"*
  (`auth_service.rs:118-119`). A password change verified before the reset writes
  after it on the id alone, and the reset is gone with its mark.

Five more properties are written down and fail. Each is shown by naming it as the
`INVARIANT` (or `PROPERTY`) of the configuration beside it. The first four fail for the
same reason as `final_race`.

* `BracketOnlyOnceLive`: a reopening that read no bracket commits after a draw
  (`MCTournament_results.cfg`).
* `BracketSeatsField`: an entry commits between a draw's read of the field and its
  write (`MCTournament_conclude.cfg` with three players and three entries).
* `EveryEntrantPaid`: an entry commits between the conclusion's read of the field
  and its write (`MCTournament_conclude.cfg`).
* `DraftClosesTheDoor`: *"A draft hides the event and closes its door"*
  (`event_service.rs:77-78`), and a scan that read it published still lands
  (`MCDoors.cfg`).
* `OldWritesServed`: *"The API stops before the snapshot, so a rollback loses no write of
  the old binary"* (`bunker-deploy.sh:86-87`). `roll_back` removes the WAL and installs
  the snapshot over the live database in place. Power that fails in between leaves a
  file of no length, or one without what was only in the WAL; the unit starts with the
  box, and the binary takes the file for a database, migrates it and serves it. The rows
  are in the snapshot alone, and the next deploy copies over that. `OldWritesKept` says
  how far the promise does hold, and is proved (`MCDeploy.cfg`).

What else was met while modelling:

* A second click on a status that names a winner is refused:
  `change_status` answers it only when `winner` is absent, and
  `tournament_service.rs:111-113` says of any second click that it fails nothing.
  `Replies` counts only the clicks without a winner as the same.
* `retire` and `remove` may answer 204 although an entry is there: it was taken
  away and made again in between.
* `points.rs:86-87` says only an adjustment takes cycles away; a removed check-in
  and a deleted tournament do too (`Doors`, `Profile`).
* The page of a tournament is three reads (`tournament_service.rs:72-77`): a draw
  in between shows a bracket over entrants without seeds.
* A `.backup` that fails ends the script after the API was stopped, and nothing
  starts it.

## 4. What is proved

The proofs hold for every value of the constants: any number of players, requests,
entrants and draws, any clock, any set of binaries and keys. Some 11,700 obligations,
in eight modules. The first part of `BracketPlay_proofs` is about the operators of
`bracket.rs` alone; the proofs of `Tournament` and `Profile` take it by `INSTANCE`.
Its last part is about `Payout`. `FiniteSums` has the lemmas on sums, and
`Replies_proofs` holds the proofs of `Tournament` and of `Replies`, which extends it.

| Theorem | Says |
| --- | --- |
| `BracketPlay_proofs!BracketSound`, `TypeCorrect`, `NobodyMeetsTwice` | `TypeOK`, `FeedsAgree`, `WinnersSit`, `OncePerRound` for every field up to 256 |
| `BracketPlay_proofs!DecidedPathsStay` | `DecidedPathSettled` |
| `BracketPlay_proofs!EveryBracketReadsBack` | `ReadsBack`: what is written, `from_matches` accepts |
| `BracketPlay_proofs!PlayNeverStops` | `NeverStuck`: without a champion there is a match to report |
| `BracketPlay_proofs!SeedsKeepTheirSeats` | `SeedsSeated` |
| `BracketPlay_proofs!BetterPlacesEarnMore` | `PlacesPayInOrder`, for every field up to 256 and every tier |
| `Replies_proofs!RequestsActAtomically` | `ActsOnBracketAtomically`: `Tournament` implements `BracketPlay` |
| `Replies_proofs!StoredBracketIsSound` | `StoredBracketSound`, from the theorem above and `BracketSound` |
| `Replies_proofs!TypeCorrect`, `PaidOnlyOnce`, `ConclusionIsFinal`, `FieldIsFixed`, `ChampionIsTheWinner`, `FieldStaysWithinBounds` | `TypeOK`, `PaidOnlyWhenConcluded` (no run lists it), `ConcludedIsFinal`, `BracketFixesField`, `ChampionIsWinner`, `FieldWithinBounds` |
| `Replies_proofs!BracketSeatsEntrants` | who sits in the bracket is an entrant, whose account is there or was deleted |
| `Replies_proofs!AnswersChangeNoRow` | a step of `Replies` is a step of `Tournament` or none, so all of the above holds there |
| `Replies_proofs!RefusalsWroteNothing`, `EveryAnswerIsDocumented`, `ChangedIsTheTruth` | `RefusalWroteNothing`, `AnswersAsDocumented`, `ChangedMeansOthers` |
| `Replies_proofs!QuietConclusionsAreRight` | `QuietConclusionIsRight`: without a commit of another in between, the stored winner is the one of the final and the payments are those of the field |
| `Doors_proofs!TypeCorrect`, `NobodyIsHalfPaid`, `ReceiptsAreTrue`, `InactiveOnesMoveNobody` | `TypeOK`, `PaidPerCheckin`, `ReceiptTellsTheWrite`, `InactiveMovesNobody` |
| `Accounts_proofs!TypeCorrect`, `TheCrewKeepsAnAdmin`, `OneAccountPerHandle`, `FreshTokensWork` | `TypeOK`, `AnAdminRemains`, `HandlesUnique`, `FreshTokenWorks` |
| `Server_proofs!NothingWritesAfterTheClose`, `PoolClosesBeforeTheKill` | `ClosedIsQuiet`, `ClosedBeforeTheKill` |
| `Server_proofs!TypeCorrect`, `NoPermitIsLost`, `NobodyIsForgotten` | `ServerTypeOK`, `PermitsConserved`, `NobodyWaitsForNothing` |
| `Server_proofs!NoCircleOfWaits` | who holds a connection or a permit holds not the other and goes on; who waits is held up by such a one, or stands behind one who goes on |
| `Server_proofs!NobodyIsOvertaken` | the line and the queue keep their order, and nobody gets a connection or a permit that comes back ahead of one who waited longer |
| `Server_proofs!ServerHashes` | a step of `Server` is a step of `Hasher` or none, but for the exit of the process |
| `Server_proofs!OnlyOrphansPassTheBound` | the hashes with a caller and the free permits together are within `ConcurrentHashes`, so `HashBound` fails only by orphans |
| `Profile_proofs!PaidForTheLog`, `NemesisIsTheWorst`, `AnswersAddUp` | `WinsArePaid`, which leaves out the tournaments whose bracket was written between a conclusion's read and its commit, `NemesisStandsOut`, `AnswerAddsUp` |
| `Profile_proofs!PagesAreComplete` | the pages of the log and of the history, walked while nobody writes, show every row once and in order, for every size of a page |
| `Deploy_proofs!TypeCorrect`, `RollbackGivesBack`, `EnvStartsTheApi`, `NoWriteIsLost` | `TypeOK`, `RollbackRestores`, `EnvAlwaysStarts`, `OldWritesKept`; the last leaves out commits a power loss undid, and what the database holds after a power failure in the last steps of a rollback |

Assumptions: those the modules name. A field has 2 to 256 entrants. The empty
values are outside their sets; a file that is absent or torn is no binary, no
database and no environment; a variable that is absent, empty or not text is not a
long plain key. Pages count from one and hold one to a hundred rows. Bounds are natural numbers. Requests are finitely many where permits are
counted, and each is of a kind that has a handler. The box was set up with a key
`is_api_key` takes. The request timeout and the drain deadline are both below the
kill, as 30 s, 10 s and 90 s are. TLC evaluates all of them in the runs. One theorem
has a hypothesis of its own: in `BetterPlacesEarnMore` the mark of a missing account,
`NoPlayer`, is no entrant, as 0 is none of 1 to 16 in the run.

The arguments.

* *Bracket.* The lemmas have the arithmetic: the positions of a bracket, that
  a match has one successor and a side of it to itself, that the first round of a
  draw takes each seed once. `Sound` adds to the properties that the positions are
  those of some round count (`Shape`), which report and clear need to know that
  what they feed is a match of the next round and of no other feeder. `Shape` alone
  makes a bracket read back. `Seated` says that the sides of round one are
  those of the draw and that a match with an empty side there has its winner. So in
  the first round that has an undecided match both sides of it are there and it can
  be reported, which is `NeverStuck`; and the seeds that sit are counted slot by
  slot.
* *Sums.* `Total` is a sum over a finite set of the weights a function gives.
  Taking one element after another, in the order `CHOOSE` fixes, makes such a
  function (`SumsExist`) and only one (`SumsAgree`). That a sum does not depend on
  which element is taken first (`TotalRemove`) is proved at a smallest set where it
  would fail, the strict subsets of a finite set being well founded. The sums of the
  modules are written with `MapThenSumSet`, which is the same recursion.
* *Payout.* Whoever sits in a match won one of every earlier round, and nobody wins
  two of one round; a bye is a win of round one that is not paid. So with k rounds
  the champion is paid k-1 wins or k, the finalist k-2 or k-1, who lost a semifinal
  k-3 or k-2, and all others at most k-3 or none: a better place never has fewer than
  a worse one may have, and its placement is more. The final itself is played, for a
  field of two has no bye.
* *Tournament.* `Typed` carries the types of the rows and of what every request
  holds, with the statuses a guard may have read: never "concluded", because every
  load refuses it. That is why no stale write passes a guard after a conclusion,
  and finality follows action by action. `ChampionIsWinner` needs `Conclusive`:
  what a concluding request remembers of an entry is still true when it writes, or
  the account is gone and the foreign key refuses the payment. Entry ids are never
  handed out again, which makes a memory of them last. The field is counted as a
  finite set that loses an entry or gains one under the guard of the insert.
* *Tournament implements BracketPlay.* The seed order is read off the entrant rows,
  so `NoLooseSeeds` has to say that no seed outlives its bracket: else the abstract
  order would be there without a bracket. The step that matters is a result. It was
  planned on rows that another request may have changed, and `update_matches`
  compares only the two rows it writes. `ResultFits` says that what a request plans
  is a report or a clear *of the rows it read*, and `ResultIsLocal` that a result
  looks at those two rows and no others. So when they still stand, the planned rows
  are those of the same result on the bracket as it is now, and when they do not,
  nothing is written. A draw in between is caught by its new match ids (`draw`).
  `StoredBracketSound` then is the abstract theorem, instantiated (`Bracketed`).
* *Replies.* Three layers. `Tails`: a request owes a read only when it stands
  nowhere else, and one that wrote owes no read that explains a refusal. `Asks`:
  at each step and each read only some operations can be, and with the table of
  errors this gives every answer a documented status. `HearsRight`: while nobody
  else has written since the first read of a request, each thing it has read is
  still so (`Sees`), hence its write is not refused for a change, and a read that
  explains finds the reason. It leans on `LivingField`, since a foreign key refuses
  a payment to an account that went. `Quiet` adds what a conclusion has computed by
  then: its field is still the field (`Sees`), it reads the bracket in the step that
  computes, and until others write both stay (`QuietStays`).
* *Doors.* `Sound` relates the two tables both ways: every check-in has *the* row
  of its pair, and every check-in row is that row and has its check-in. With
  "one row per pair" derived instead of assumed, the cascades need nothing more.
  Adjustments are told apart by a counter that has passed their sources. An account
  that is active neither before nor after a step is above nobody (`SameAbove`), so a
  place depends on the others alone. A check-in that is new pays by a row that was not
  there, since its pair was no check-in, so the player's sum grows by that row; the
  ledger is finite because every step adds one row at most.
* *Accounts.* `Past` says no recorded moment is ahead of the clock, hence a token
  of now is not older than any change. `Carried` says what a request holds at each
  step, so that a write never stores an absent password or handle. That an admin
  remains is an argument on the cardinality of a finite-or-not set of admins with
  more than one member.
* *Server.* `Stopped` bounds the age of the stop stage by stage: a drain is no
  older than its deadline, and a close waits only for requests that are older than
  SIGTERM, whose timer has fired when the stop is as old as `RequestTimeout`.
  `ClosedIsQuiet` is part of it: `Closes` needs an idle pool, and a closed one
  hands nothing out. `HasherInv` is about the permits: the queue lists the waiting
  futures, each once, and free permits and holders are `ConcurrentHashes`
  together. A future may leave the queue from its middle, so the lemmas are on
  sequences without repetition from which one place is taken. `ServerInv` adds that
  a future exists only while its handler is at the hash. From it a wait is one step
  long: who holds a permit waits for nothing, who holds a connection waits for the
  write lock at most, which answers or refuses, and something is held where somebody
  waits (`PermitsAreHeld`, `ConnectionsAreHeld`). `GoesOn` says of a state what ENABLED
  would say of `Steps`; it is read off their guards. Nobody is overtaken because a queue
  without repetition keeps its order when one joins behind, when the first leaves and
  when one leaves from the middle (`JoinsBehind`, `ServedInOrder`, `LeavesInOrder`).
* *Profile.* `Boards` says that what is there is there in all three tables, and that
  each bracket is sound and of those who were drawn. `Paid` fixes the owner's
  `match_win` rows of a concluded tournament to the matches its bracket says the
  owner won, or to none once the account is gone. It needs `Boards`: a winner sits
  in its match, which is what gives the log a row for it. `Planned` carries it over the
  gap in a conclusion: what was read is a sound bracket, and unless `late` says that it
  was written since, it is the one that stands; an account that went since makes the
  foreign key refuse. So the tournaments in `raced` are the only ones it says nothing
  of, and it can say nothing there: `final_race` is such a one. For the nemesis, whoever
  lost a match of a sound bracket sits in no other that is decided the same way
  (`LosesOnce`), so losses differ in their tournament, whose moment of creation
  orders them; a finite set has a first element in such an order (`FirstOfFinite`,
  from the strict subsets of a finite set being well founded), and the handle makes
  the order of the rivals total too.
* *The answers of a profile.* The rows of the log differ in tournament, round or
  slot (`OneRowEach`), those of the ledger in their id (`Entries`: a conclusion pays a
  win once a round and a placement once). So both orders are total, the places of the
  rows are exactly the numbers below their count (`PlacesInOrder`), and a page is a
  window of them: a row's page is its place over the size (`PageOfPlace`), and a later
  page begins where the earlier has ended (`LaterPage`). The totals are one sum taken kind by kind (`TotalOfParts`). `Reading`
  says that what a request has read is what the tables still say, as long as no write
  was counted; reads leave the tables alone, so the next one finds the same
  (`SameReads`).
* *Deploy.* `IInv` follows the script: for each command it names the file that
  holds what the deploy found when the API had stopped. The database is in
  its place until it is in the snapshot, the binary until it is in `prev`, the
  environment beside the new one until the verdict. A command moves one of them
  at a time, so a power failure finds the others. The API is off in all of these
  commands, so nothing is committed after the copy, but what is in the WAL may still be
  undone. `found.db` follows a power loss down to what the disk kept; the snapshot can
  only hold more than that. A power failure while a rollback writes the database is
  marked (`cut`), and from there to the next deploy the snapshot holds the rows.

Only model-checked is `EveryRequestEnds`: liveness under fairness is out of the
prover's reach. The part of it that is true of every state is `NoCircleOfWaits`. That
one, `NobodyIsOvertaken`, `OnlyOrphansPassTheBound`, `PagesAreComplete`, `PaidOnlyOnce`,
`BracketSeatsEntrants` and the two step-by-step maps, `ServerHashes` and
`AnswersChangeNoRow`, state what no run lists; every other row of the table names the
properties of the runs it is about.

## 5. What is not modelled, and why

* Text and formats: handles, notes, names and levels are members of small sets.
  The lists of tournaments, events and players only read; `Lists` has their
  window, and their orders end in an id as that of the ledger does.
* The answers of events, accounts and players, save the receipt of a check-in and
  the token of a login: they are written from the same transaction or from one
  read. Those of a tournament are `Replies`.
* `Profile` splits a conclusion between its reads and its commit, one at a time; the
  other writes happen in one piece, since each is judged by the rows it writes. That
  those overlap is `Tournament`.
* What a client hears of a request that was cut off: the 503 of the timeout may come
  after the write has committed. `Abandon` ends the request and says nothing.
* An answer that a write fell into: the profile may show parts that disagree, and no
  property is about it.
* Signatures and the thirty days of a token; the API key's check, which keeps no
  state; security headers and tracing.
* SQLite itself: transactions are atomic and serialised, foreign keys and unique
  indexes hold. That `synchronous = NORMAL` may lose the last commits at a power
  loss (`db.rs:28-30`) is in `Deploy` alone; the other modules let no commit go. `Deploy`
  assumes that a file a command of the script has written to its end outlives the power,
  and that a checkpoint has synced what it takes out of the WAL.
* Litestream and the nightly backup: external programs that copy a committed
  state. `Deploy` leaves out the replica and what it does with a replaced file.
* The site, its images, themes and tests: it renders on the server and keeps a
  cookie. A form that is sent again is one more request of `Tournament`, `Doors`
  or `Accounts`. `bunker-cabd`, a stub; CI and the seed script.

## 6. Plan

Done so far: the modules of section 2. What may come next, in this order.

1. `Profile` over `Tournament`, to let every write of the backoffice be split, and not
   the conclusion alone.
2. The lists of the leaderboard and the roster, and the detail page of a
   tournament, with their torn reads.
3. `Site`: a client with an abort of eight seconds that sends its form again.

## 7. Running it

    tlc -workers 2 -config MCTournament_results.cfg MCTournament.tla
    tlc -workers 2 -config MCServer.cfg Server.tla
    tlc -workers 2 -config MCProfile.cfg MCProfile.tla
    tlc -workers 2 -config MCDeploy.cfg MCDeploy.tla
    tlapm Replies_proofs.tla

`PROJECT.json` lists each run with its module, configuration and properties, the
mutant that shows each property can fail, and for each definition the lines it
models.
