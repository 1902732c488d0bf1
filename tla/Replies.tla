------------------------------- MODULE Replies -------------------------------
(***************************************************************************)
(* What the requests of Tournament are answered: every refusal of          *)
(* tournament_service.rs, and the reads that follow a write and serve the  *)
(* answer alone (the load after a write, explain_refusal, stale,           *)
(* entrant_of).  Those reads come later than the write they explain, so    *)
(* other requests run in between.                                          *)
(*                                                                         *)
(* A step of Tournament that ends the work on the rows may leave a read:   *)
(* tail is that read, with what the request still knows.  Answers(r) is    *)
(* what the next step of a request may answer.                             *)
(***************************************************************************)
EXTENDS Tournament, Answers

VARIABLES
  tail,     \* the read that is left, none while Tournament has the request
  since     \* history: what others committed since the request's first read

all == <<vars, tail, since>>

NoTail == [read |-> "none", call |-> NoCall, guard |-> NoGuard, wrote |-> FALSE]

RInit ==
  /\ Init
  /\ tail = [r \in Request |-> NoTail]
  /\ since = [r \in Request |-> "none"]

Running(r) == step[r] # "idle" \/ tail[r].read # "none"

--------------------------------------------------------------------------------
(* What others did meanwhile.                                              *)

\* The step of r is a move of the status, to the status s asks for; s names no
\* winner (a second click that names one is refused, see the README).
SameClick(r, s) ==
  LET c == IF tail[s].read = "none" THEN call[s] ELSE tail[s].call
  IN  /\ step[r] = "status" /\ c.op = "status"
      /\ c.to = call[r].to /\ c.entrant = NoEntrant

Heard(s, click) ==
  IF ~Running(s) \/ (rows' = rows /\ players' = players) THEN since[s]
  ELSE IF click /\ since[s] # "other" THEN "click" ELSE "other"

\* A step of r: the others hear of it, and r forgets when it is done.
Note(r) ==
  since' = [s \in Request |->
              IF s # r THEN Heard(s, SameClick(r, s))
              ELSE IF step'[r] = "idle" /\ tail'[r].read = "none" THEN "none"
              ELSE since[r]]

\* The step leaves no read, or leaves one.
Ends(r) == UNCHANGED tail /\ Note(r)

Owes(r, read) ==
  /\ tail' = [tail EXCEPT ![r] = [read |-> read, call |-> call[r],
                                  guard |-> seen[r], wrote |-> rows' # rows]]
  /\ Note(r)

--------------------------------------------------------------------------------
(* The steps of Tournament, with the read each one leaves.                 *)

Proceed(r) ==
  /\ \/ UpdateLoad(r) \/ Arrive(r) \/ RegistrationLoad(r) \/ AddLoad(r)
     \/ AddPlayerExists(r) \/ RemoveLoad(r) \/ StatusLoad(r) \/ ConcludeLoad(r)
     \/ ConcludeEntrants(r) \/ ConcludeBracket(r) \/ DrawLoad(r)
     \/ DrawEditable(r) \/ DrawOrder(r) \/ ReplaceBracket(r)
     \/ DeleteBracketLoad(r) \/ DeleteBracket(r) \/ ResultLoad(r)
     \/ ResultBoard(r) \/ UpdateMatches(r) \/ Abandon(r)
  /\ Ends(r)

Update(r) ==
  /\ UpdateWrite(r)
  /\ Owes(r, IF status = seen[r].status THEN "reload" ELSE "stale")

Enrolled(r) == EnrolInsert(r) /\ Owes(r, "created")

Already(r) ==
  /\ EnrolAlready(r)
  /\ IF call[r].level = NoLevel THEN Owes(r, "existing") ELSE Ends(r)

\* No row was inserted and no constraint failed.
Refused(r) ==
  \/ ~GuardHolds(seen[r])
  \/ EntriesOf(call[r].player) = {} /\ Cardinality(DOMAIN entrants) >= MaxEntrants

EnrolRefused(r) ==
  /\ step[r] = "enrol" /\ Refused(r)
  /\ Abandon(r)
  /\ Owes(r, "explain_full")

Levelled(r) ==
  /\ SetSkill(r)
  /\ Owes(r, IF GuardHolds(seen[r]) /\ EntriesOf(call[r].player) # {}
             THEN "existing" ELSE "explain_level")

Retired(r) ==
  /\ RemoveEntrantOf(r)
  /\ IF GuardHolds(seen[r]) /\ EntriesOf(call[r].player) # {}
     THEN Ends(r) ELSE Owes(r, "explain")

Removed(r) ==
  /\ RemoveEntrant(r)
  /\ IF GuardHolds(seen[r]) /\ call[r].entrant \in DOMAIN entrants
     THEN Ends(r) ELSE Owes(r, "explain")

\* How a move fails: the status moved first, a retry meets the unique index of
\* the ledger, or an entrant or an account is gone.
MoveFailure(r) ==
  IF status # seen[r].status THEN "stale"
  ELSE IF \E a \in plan[r].awards : a \in ledger THEN FromQuery("unique")
  ELSE FromQuery("foreign_key")

\* A bug: the foreign key of an entrant that left is passed on.
OnlyStale == {"stale"}

\* The failures change_status reads the tournament again for.
LooksAgain == {"stale", "ForeignKeyViolation"}

Moved(r) ==
  /\ SetStatus(r)
  /\ IF MoveCommits(r) THEN Owes(r, "reload")
     ELSE IF MoveFailure(r) \in LooksAgain THEN Owes(r, "click") ELSE Ends(r)

\* The read that is left: it answers, or leads to the read of the entrant.
Explained(guard) ==
  IF status = "gone" THEN "TournamentNotFound"
  ELSE IF status = "concluded" THEN "TournamentConcluded"
  ELSE IF HasBracket THEN "BracketExists"
  ELSE IF guard.open_at # NoTime
       THEN IF OpenAt(guard.open_at) THEN "Ok" ELSE "RegistrationClosed"
  ELSE IF status # guard.status THEN "TournamentChanged" ELSE "Ok"

Reread(r) ==
  /\ tail[r].read # "none"
  /\ tail' = [tail EXCEPT ![r] =
       IF tail[r].read = "explain_level" /\ Explained(tail[r].guard) = "Ok"
       THEN [tail[r] EXCEPT !.read = "existing"] ELSE NoTail]
  /\ UNCHANGED vars
  /\ Note(r)

World ==
  /\ Delete \/ Tick \/ \E pl \in players : PlayerDeleted(pl)
  /\ UNCHANGED tail
  /\ since' = [s \in Request |-> Heard(s, FALSE)]

RNext ==
  \/ \E r \in Request :
       \/ /\ tail[r].read = "none"
          /\ \/ Proceed(r) \/ Update(r) \/ Enrolled(r) \/ Already(r)
             \/ EnrolRefused(r) \/ Levelled(r) \/ Retired(r) \/ Removed(r)
             \/ Moved(r)
       \/ Reread(r)
  \/ World

RSpec == RInit /\ [][RNext]_all

--------------------------------------------------------------------------------
(* The answers.                                                            *)

\* The first read of a request refuses it: require_not_concluded,
\* require_entrants_editable, load_bracket_editable, load_public and
\* plan_transition.  A move to the status the tournament has answers it as it is.
LoadAnswers(op) ==
  IF status = "gone" THEN {"TournamentNotFound"}
  ELSE CASE op = "status" -> {"InvalidTransition", "UnexpectedWinner", "Ok"}
         [] op \in {"register", "retire"} -> {}
         [] op \in {"generate", "reorder"} ->
              IF status \in {"draft", "open"} THEN {"NotLive"}
              ELSE IF status = "concluded" THEN {"TournamentConcluded"}
              ELSE IF op = "reorder" /\ ~HasBracket THEN {"BracketMissing"} ELSE {}
         [] OTHER ->
              IF status = "concluded" THEN {"TournamentConcluded"}
              ELSE IF op \in {"add", "remove"} /\ HasBracket THEN {"BracketExists"} ELSE {}

\* Bracket::report and Bracket::clear on a match of the bracket, or on another; there
\* is nothing to refuse about the clear of a match that is not decided.
ResultErrors(op) ==
  LET Errors(p) ==
        IF ~IsReady(matches[p]) THEN {"NotReady"}
        ELSE {e \in {"NotAParticipant", "NextDecided"} :
                IF e = "NotAParticipant" THEN op = "report"
                ELSE /\ op = "report" \/ IsPlayed(matches[p])
                     /\ ~NextUndecided(matches, p)}
  IN  {"UnknownMatch"} \cup UNION {Errors(p) : p \in DOMAIN matches}

\* A later read refuses the request.
ReadAnswers(r) ==
  LET c == call[r]
      n == Cardinality(DOMAIN entrants)
  IN  CASE step[r] = "arrived" ->
             IF status \in {"draft", "gone"} THEN {"TournamentNotFound"}
             ELSE IF OpenAt(seen[r].open_at) THEN {} ELSE {"RegistrationClosed"}
        [] step[r] = "player" /\ c.player \notin players -> {"PlayerIdNotFound"}
        [] step[r] = "conclude_bracket" ->
             IF HasBracket
             THEN IF c.entrant # NoEntrant THEN {"UnexpectedWinner"}
                  ELSE IF Champion(matches) = NoEntrant THEN {"BracketIncomplete"} ELSE {}
             ELSE IF c.entrant \in DOMAIN plan[r].field \cup {NoEntrant} THEN {}
                  ELSE {"NotAnEntrant"}
        [] step[r] = "editable" /\ HasResults(matches) -> {"BracketLocked"}
        [] step[r] = "seeding" ->
             (IF c.op = "reorder" THEN {"SeedOrderMismatch"} ELSE {}) \cup
             (IF n < 2 THEN {FromBracket("TooFewEntrants")}
              ELSE IF n > MaxEntrants THEN {FromBracket("TooManyEntrants")} ELSE {})
        [] step[r] = "board" ->
             IF HasBracket THEN {FromBracket(e) : e \in ResultErrors(c.op)}
             ELSE {"MatchNotFound"}
        [] OTHER -> {}

\* bracket_written, after the checks of bracket_blocked and of the seeds.
BracketWritten(r, commits) ==
  IF status # seen[r].status THEN "TournamentChanged"
  ELSE IF HasResults(matches) THEN "BracketLocked"
  ELSE IF commits THEN "Ok" ELSE "TournamentChanged"

WriteAnswers(r) ==
  CASE step[r] = "enrol" /\ ~Refused(r) /\ EntriesOf(call[r].player) = {}
         /\ call[r].player \notin players -> {"PlayerIdNotFound"}
    [] step[r] = "status" /\ ~MoveCommits(r) /\ MoveFailure(r) \notin LooksAgain ->
         {FromStorage(MoveFailure(r))}
    [] step[r] = "replace"        -> {BracketWritten(r, ReplaceCommits(r))}
    [] step[r] = "delete_bracket" -> {BracketWritten(r, Rebuildable(r))}
    [] step[r] = "results" -> {IF ResultCommits(r) THEN "Ok" ELSE "TournamentChanged"}
    [] OTHER -> {}

\* A bug: the second of two clicks is refused.
ClickRefused(c) == "TournamentChanged"

\* Two clicks on one button: the second finds the status where it wants it.
ClickAnswer(c) ==
  IF status = c.to /\ c.entrant = NoEntrant THEN "Ok" ELSE "TournamentChanged"

TailAnswers(r) ==
  LET t == tail[r]
      e == Explained(t.guard)
      Found(answer) == {IF status = "gone" THEN "TournamentNotFound" ELSE answer}
  IN  CASE t.read = "reload" -> Found("Ok")
        [] t.read = "click"  -> Found(ClickAnswer(t.call))
        [] t.read = "stale"  -> Found(IF status = "concluded" THEN "TournamentConcluded"
                                      ELSE "TournamentChanged")
        [] t.read = "explain"       -> {e}
        [] t.read = "explain_full"  -> {IF e = "Ok" THEN "TournamentFull" ELSE e}
        [] t.read = "explain_level" -> {e} \ {"Ok"}
        [] t.read \in {"created", "existing"} ->
             {IF EntriesOf(t.call.player) = {} THEN "PlayerIdNotFound"
              ELSE IF t.read = "created" THEN "Created" ELSE "Ok"}
        [] OTHER -> {}

AnswersNow(r) ==
  IF tail[r].read = "none" THEN ReadAnswers(r) \cup WriteAnswers(r) ELSE TailAnswers(r)

OpOf(r) == IF tail[r].read = "none" THEN call[r].op ELSE tail[r].call.op

--------------------------------------------------------------------------------
(* Properties.                                                             *)

\* Whatever requests, deletions and deadlines cross, a route answers with a
\* status it documents (the responses of the routers), and so never with an
\* internal error: "A service that writes a row a concurrent delete can orphan
\* maps it to the not found error first" (From<StorageError>).
AnswersAsDocumented ==
  /\ \A op \in Ops \ {"delete", "delete_player"} :
       \A a \in LoadAnswers(op) : Answered(op, a) \in Documented(op)
  /\ \A r \in Request : \A a \in AnswersNow(r) :
       Answered(OpOf(r), a) \in Documented(OpOf(r))

\* "The tournament changed in the meantime" is the truth (TournamentChanged): it
\* is answered only after somebody else changed a row since the request's first
\* read.  A second click on the same button does not count: "that holds for two
\* clicks at once too" (change_status).
ChangedMeansOthers ==
  \A r \in Request : "TournamentChanged" \in AnswersNow(r) => since[r] = "other"

\* A refusal refuses (set_status, add_entrant, update): a request whose write
\* committed is answered with an error only when what it wrote is gone by then.
RefusalWroteNothing ==
  \A r \in Request :
    tail[r].wrote =>
      AnswersNow(r) \subseteq {"Ok", "Created", "TournamentNotFound", "PlayerIdNotFound"}

\* A conclusion that nobody crosses is right (conclusion, set_status): when no row
\* changed between a request's first read and its write, the winner is the one the
\* final names, or the one the client named where there is no bracket, and the
\* ledger holds the awards of the field and of the results as they stand.
QuietConclusionIsRight ==
  [][\A r \in Request :
       since[r] = "none" /\ Moved(r) /\ status' = "concluded" =>
         /\ winner' = IF HasBracket THEN Champion(matches) ELSE call[r].entrant
         /\ ledger' = TournamentAwards([e \in DOMAIN entrants |-> entrants[e].player],
                                       matches, draw, winner')]_all
================================================================================
