---------------------------- MODULE Replies_proofs ----------------------------
(***************************************************************************)
(* What no interleaving of requests can break, and what each request is    *)
(* told, for every number of accounts, requests, entrants and draws.       *)
(*                                                                         *)
(* The rows (Tournament): a request never guards with a final status, so   *)
(* after the conclusion every guarded write refuses; awards are in the     *)
(* hands of a request only between its last read and the write that        *)
(* concludes; and a result that was planned on old rows is written only    *)
(* while the rows it is about still stand, so that the stored bracket      *)
(* takes the steps of BracketPlay and inherits what is proved there.       *)
(*                                                                         *)
(* The answers (Replies): a request with its answers takes the steps of    *)
(* Tournament, so what is proved there holds here.  The rest is            *)
(* bookkeeping of the interleaving: what a request asks for fits the step  *)
(* it stands at (Asks), a write that committed leaves only a read that     *)
(* explains no refusal (Tails), and while nobody else has changed a row,   *)
(* every row a request has read is still as it read it (HearsRight).       *)
(***************************************************************************)
EXTENDS Replies, FiniteSetTheorems, TLAPS

--------------------------------------------------------------------------------
(* The facts of BracketPlay_proofs, about the seed order on the rows and   *)
(* the orders a draw can use.                                              *)

Bracketed == INSTANCE BracketPlay_proofs
               WITH seeds <- SeedOrder, Entrant <- EntrantId,
                    Orders <- {o \in UNION {[1..n -> EntrantId] : n \in 2..MaxEntrants} :
                                 \A i, j \in DOMAIN o : o[i] = o[j] => i = j}

LEMMA OrdersAreOrders ==
  \A o \in {o \in UNION {[1..n -> EntrantId] : n \in 2..MaxEntrants} :
              \A i, j \in DOMAIN o : o[i] = o[j] => i = j} :
    /\ o \in Seq(EntrantId) /\ Len(o) \in 2..MaxEntrants
    /\ \A i, j \in 1..Len(o) : o[i] = o[j] => i = j
<1>  SUFFICES ASSUME NEW n \in 2..MaxEntrants, NEW o \in [1..n -> EntrantId],
                     \A i, j \in DOMAIN o : o[i] = o[j] => i = j
              PROVE  /\ o \in Seq(EntrantId) /\ Len(o) \in 2..MaxEntrants
                     /\ \A i, j \in 1..Len(o) : o[i] = o[j] => i = j
  OBVIOUS
<1>1. n \in Nat
  BY MaxEntrantsAssumption
<1>2. o \in Seq(EntrantId) /\ Len(o) = n
  BY <1>1
<1>3. QED
  BY <1>2

\* A seed order: two to 256 different entrants.
OrderOf(order, E) ==
  /\ NoEntrant \notin E
  /\ order \in Seq(E) /\ Len(order) \in 2..256
  /\ \A i, j \in 1..Len(order) : order[i] = order[j] => i = j

\* The operators of a bracket are the same text there.
LEMMA SameBracket ==
  /\ \A o : Bracketed!Generate(o) = Generate(o)
  /\ \A B, p, e : Bracketed!Feed(B, p, e) = Feed(B, p, e)
  /\ \A B : Bracketed!FinalOf(B) = FinalOf(B)
  /\ \A k : Bracketed!Positions(k) = Positions(k)
  /\ Bracketed!Position = Position
  /\ \A E : Bracketed!Match(E) = Match(E)
  /\ \A o, E : Bracketed!OrderOf(o, E) <=> OrderOf(o, E)
<1>1. \A k : Bracketed!Positions(k) = Positions(k)
  BY DEF Bracketed!Positions, Positions, Bracketed!Pow2, Pow2
<1>2. \A o : Bracketed!Generate(o) = Generate(o)
  BY DEF Bracketed!Generate, Generate, Bracketed!RoundCount, RoundCount, Bracketed!Pow2,
         Pow2, Bracketed!Positions, Positions, Bracketed!FirstRoundMatch,
         FirstRoundMatch, Bracketed!SecondRoundMatch, SecondRoundMatch,
         Bracketed!EmptyMatch, EmptyMatch
<1>3. \A B, p, e : Bracketed!Feed(B, p, e) = Feed(B, p, e)
  BY DEF Bracketed!Feed, Feed, Bracketed!NextMatch, NextMatch, Bracketed!FeedsSideA,
         FeedsSideA
<1>4. \A B : Bracketed!FinalOf(B) = FinalOf(B)
  BY DEF Bracketed!FinalOf, FinalOf, Bracketed!NextMatch, NextMatch
<1>5. \A o, E : Bracketed!OrderOf(o, E) <=> OrderOf(o, E)
  BY DEF Bracketed!OrderOf, OrderOf
<1>6. QED
  BY <1>1, <1>2, <1>3, <1>4, <1>5
     DEF Bracketed!Position, Position, Bracketed!Match, Match

\* What BracketPlay assumes of its constants.
LEMMA AsAssumed ==
  /\ MaxEntrants \in 2..256
  /\ NoEntrant \notin EntrantId
BY MaxEntrantsAssumption, EntrantIdAssumption DEF EntrantId

\* A draw gives every match of it sides and winners among the entrants.
LEMMA GenerateType ==
  ASSUME NEW E, NEW order, OrderOf(order, E)
  PROVE  /\ DOMAIN Generate(order) \subseteq Position
         /\ \E k \in 1..8 : DOMAIN Generate(order) = Positions(k)
         /\ Generate(order) \in [DOMAIN Generate(order) -> Match(E)]
<1>1. Bracketed!SoundBracket(Generate(order), E)
  BY AsAssumed, OrdersAreOrders, SameBracket, Bracketed!GenerateSound
<1>2. DOMAIN Generate(order) \subseteq Position
  BY <1>1, AsAssumed, OrdersAreOrders, SameBracket, Bracketed!SoundPositions
<1>3. QED
  BY <1>1, <1>2, SameBracket DEF Bracketed!SoundBracket

\* A whole bracket has a final.
LEMMA FinalExists ==
  ASSUME NEW k \in 1..8, NEW B, DOMAIN B = Positions(k)
  PROVE  FinalOf(B) \in DOMAIN B
BY AsAssumed, OrdersAreOrders, SameBracket, Bracketed!FinalExists

\* The write of a result keeps the matches of the bracket and their type.
LEMMA FeedType ==
  ASSUME NEW E, NEW D, D \subseteq Position, NEW B \in [D -> Match(E)],
         NEW p \in D, NEW e \in E \cup {NoEntrant}
  PROVE  Feed([B EXCEPT ![p].winner = e], p, e) \in [D -> Match(E)]
BY AsAssumed, OrdersAreOrders, SameBracket, Bracketed!FeedType

--------------------------------------------------------------------------------
(* The types.                                                              *)

Whole == matches = NoMatches \/ \E k \in 1..8 : DOMAIN matches = Positions(k)

\* The rows, as TypeOK types them, and a bracket with all its positions.
RowsTyped ==
  /\ status \in Status /\ deadline \in Time /\ now \in Time
  /\ winner \in EntrantId \cup {NoEntrant}
  /\ DOMAIN entrants \subseteq EntrantId /\ entered \in 0..MaxEntries
  /\ entrants \in [DOMAIN entrants -> EntrantRow]
  /\ DOMAIN matches \subseteq Position /\ draw \in Nat
  /\ matches \in [DOMAIN matches -> Match(EntrantId)]
  /\ ledger \subseteq Award /\ players \subseteq Player
  /\ Whole

CallType == [op : AllOps \cup {"none"}, player : Player \cup {NoPlayer},
             level : Level \cup {NoLevel},
             entrant : EntrantId \cup {NoEntrant}, to : Status]
GuardType == [status : {"draft", "open", "live"}, open_at : Time \cup {NoTime}]

PlanTyped(p) ==
  /\ p.order \in Seq(EntrantId)
  /\ p.winner \in EntrantId \cup {NoEntrant}
  /\ p.awards \subseteq Award
  /\ p.field \in [DOMAIN p.field -> Player \cup {NoPlayer}]
  /\ p.after \in [DOMAIN p.after -> Match(EntrantId)]

\* What a request holds fits the step it stands at.
Fits(s, c, p) ==
  /\ s \in {"conclude_entrants", "conclude_bracket"} => c.to = "concluded"
  /\ p.awards # {} => s = "status" /\ c.to = "concluded"
  /\ s = "replace" => OrderOf(p.order, EntrantId) /\ Len(p.order) <= MaxEntrants

RequestsTyped ==
  /\ step \in [Request -> Step]
  /\ call \in [Request -> CallType]
  /\ seen \in [Request -> GuardType]
  /\ DOMAIN plan = Request
  /\ \A r \in Request : PlanTyped(plan[r]) /\ Fits(step[r], call[r], plan[r])

Typed == RowsTyped /\ RequestsTyped /\ PaidOnlyWhenConcluded

LEMMA TypedIsTypeOK == Typed => TypeOK
<1>  SUFFICES ASSUME Typed
              PROVE  TypeOK
  OBVIOUS
<1>1. seen \in [Request -> [status : Status, open_at : Time \cup {NoTime}]]
  BY DEF Typed, RequestsTyped, GuardType, Status
<1>2. QED
  BY <1>1 DEF Typed, RowsTyped, RequestsTyped, PlanTyped, CallType, TypeOK

LEMMA NoPlanTyped == PlanTyped(NoPlan)
<1>1. NoPlan.field \in [DOMAIN NoPlan.field -> Player \cup {NoPlayer}]
  BY DEF NoPlan
<1>2. NoPlan.after \in [DOMAIN NoPlan.after -> Match(EntrantId)]
  BY DEF NoPlan
<1>3. QED
  BY <1>1, <1>2 DEF NoPlan, PlanTyped

(* The four ways a step changes what a request holds. *)

LEMMA BeginTyped ==
  ASSUME RequestsTyped, NEW r \in Request, NEW c \in CallType, NEW g \in GuardType,
         NEW s \in Step, Begin(r, c, g, s), s # "replace",
         s \in {"conclude_entrants", "conclude_bracket"} => c.to = "concluded"
  PROVE  RequestsTyped'
<1>1. /\ step' = [step EXCEPT ![r] = s] /\ call' = [call EXCEPT ![r] = c]
      /\ seen' = [seen EXCEPT ![r] = g] /\ plan' = plan
  BY DEF Begin
<1>  step[r] = "idle"
  BY DEF Begin
<1>2. ASSUME NEW x \in Request
      PROVE  PlanTyped(plan'[x]) /\ Fits(step'[x], call'[x], plan'[x])
  <2>1. CASE x = r
    BY <1>1, <2>1 DEF RequestsTyped, Fits
  <2>2. CASE x # r
    BY <1>1, <2>2 DEF RequestsTyped
  <2>3. QED
    BY <2>1, <2>2
<1>3. QED
  BY <1>1, <1>2 DEF RequestsTyped

LEMMA GotoTyped ==
  ASSUME RequestsTyped, NEW r \in Request, NEW s \in Step, Goto(r, s),
         s \notin {"replace", "conclude_entrants", "conclude_bracket"},
         step[r] # "status"
  PROVE  RequestsTyped'
<1>1. /\ step' = [step EXCEPT ![r] = s] /\ call' = call /\ seen' = seen /\ plan' = plan
  BY DEF Goto
<1>2. ASSUME NEW x \in Request
      PROVE  PlanTyped(plan'[x]) /\ Fits(step'[x], call'[x], plan'[x])
  <2>1. CASE x = r
    BY <1>1, <2>1 DEF RequestsTyped, Fits
  <2>2. CASE x # r
    BY <1>1, <2>2 DEF RequestsTyped
  <2>3. QED
    BY <2>1, <2>2
<1>3. QED
  BY <1>1, <1>2 DEF RequestsTyped

LEMMA PlanStepTyped ==
  ASSUME RequestsTyped, NEW r \in Request, NEW s \in Step, NEW p, Plan(r, p, s),
         PlanTyped(p), Fits(s, call[r], p)
  PROVE  RequestsTyped'
<1>1. /\ step' = [step EXCEPT ![r] = s] /\ call' = call /\ seen' = seen
      /\ plan' = [plan EXCEPT ![r] = p]
  BY DEF Plan
<1>2. ASSUME NEW x \in Request
      PROVE  PlanTyped(plan'[x]) /\ Fits(step'[x], call'[x], plan'[x])
  <2>1. CASE x = r
    BY <1>1, <2>1 DEF RequestsTyped
  <2>2. CASE x # r
    BY <1>1, <2>2 DEF RequestsTyped
  <2>3. QED
    BY <2>1, <2>2
<1>3. QED
  BY <1>1, <1>2 DEF RequestsTyped

LEMMA FinishTyped ==
  ASSUME RequestsTyped, NEW r \in Request, Finish(r)
  PROVE  RequestsTyped'
<1>1. /\ step' = [step EXCEPT ![r] = "idle"] /\ call' = [call EXCEPT ![r] = NoCall]
      /\ seen' = [seen EXCEPT ![r] = NoGuard] /\ plan' = [plan EXCEPT ![r] = NoPlan]
  BY DEF Finish
<1>2. NoCall \in CallType /\ NoGuard \in GuardType /\ "idle" \in Step
  BY DEF NoCall, NoGuard, CallType, GuardType, Status, Step
<1>3. Fits("idle", NoCall, NoPlan)
  BY DEF Fits, NoPlan
<1>4. ASSUME NEW x \in Request
      PROVE  PlanTyped(plan'[x]) /\ Fits(step'[x], call'[x], plan'[x])
  <2>1. CASE x = r
    BY <1>1, <1>3, <2>1, NoPlanTyped DEF RequestsTyped
  <2>2. CASE x # r
    BY <1>1, <2>2 DEF RequestsTyped
  <2>3. QED
    BY <2>1, <2>2
<1>5. QED
  BY <1>1, <1>2, <1>4 DEF RequestsTyped

(* The ways a step changes the rows. *)

LEMMA NoMatchesTyped ==
  /\ DOMAIN NoMatches \subseteq Position
  /\ NoMatches \in [DOMAIN NoMatches -> Match(EntrantId)]
<1>1. DOMAIN NoMatches = {}
  BY DEF NoMatches
<1>2. NoMatches = [p \in DOMAIN NoMatches |-> NoMatches[p]]
  BY DEF NoMatches
<1>3. QED
  BY <1>1, <1>2

LEMMA RowsStay ==
  ASSUME RowsTyped, PaidOnlyWhenConcluded, UNCHANGED <<rows, players, now>>
  PROVE  RowsTyped' /\ PaidOnlyWhenConcluded'
BY DEF RowsTyped, PaidOnlyWhenConcluded, rows, Whole

\* A write of the entrants alone.
LEMMA EntrantsTyped ==
  ASSUME RowsTyped, PaidOnlyWhenConcluded,
         UNCHANGED <<status, deadline, winner, matches, draw, ledger, players, now>>,
         entered' \in 0..MaxEntries,
         DOMAIN entrants' \subseteq EntrantId,
         entrants' \in [DOMAIN entrants' -> EntrantRow]
  PROVE  RowsTyped' /\ PaidOnlyWhenConcluded'
BY DEF RowsTyped, PaidOnlyWhenConcluded, Whole

LEMMA RemoveTyped ==
  ASSUME RowsTyped, PaidOnlyWhenConcluded, NEW gone, RemoveRows(gone),
         UNCHANGED <<status, deadline, winner, entered, matches, draw, ledger, players, now>>
  PROVE  RowsTyped' /\ PaidOnlyWhenConcluded'
<1>1. entrants' = [e \in DOMAIN entrants \ gone |-> entrants[e]]
  BY DEF RemoveRows
<1>2. /\ DOMAIN entrants' \subseteq EntrantId
      /\ entrants' \in [DOMAIN entrants' -> EntrantRow]
  BY <1>1 DEF RowsTyped
<1>3. entered' \in 0..MaxEntries
  BY DEF RowsTyped
<1>4. QED
  BY <1>2, <1>3, EntrantsTyped

\* The seeds of an order are numbers, and a rewrite of them types the rows.
LEMMA ReseedTyped ==
  ASSUME RowsTyped, NEW order \in Seq(EntrantId), Reseed(order)
  PROVE  /\ DOMAIN entrants' \subseteq EntrantId
         /\ entrants' \in [DOMAIN entrants' -> EntrantRow]
<1>1. \A e : SeedOf(order, e) \in Nat
  BY DEF SeedOf, NoSeed
<1>2. entrants' = [e \in DOMAIN entrants |->
                     [entrants[e] EXCEPT !.seed = SeedOf(order, e)]]
  BY DEF Reseed
<1>3. ASSUME NEW e \in DOMAIN entrants
      PROVE  [entrants[e] EXCEPT !.seed = SeedOf(order, e)] \in EntrantRow
  BY <1>1 DEF RowsTyped, EntrantRow
<1>4. QED
  BY <1>2, <1>3 DEF RowsTyped

\* The award a pays the entrant x of the field for the result of that kind: a
\* champion's award, the one who won the final, or the one named when there is
\* no bracket.
IsAwardOf(a, field, B, named, x, kind, source) ==
  /\ field[x] # NoPlayer
  /\ a = [player |-> field[x], kind |-> kind, source |-> source]
  /\ kind = "champion" => x = IF B = NoMatches THEN named ELSE Champion(B)

\* What an award of a conclusion looks like.
LEMMA AwardCases ==
  ASSUME NEW field, NEW B, DOMAIN B \subseteq Position, NEW d \in Nat, NEW named,
         NEW a \in TournamentAwards(field, B, d, named)
  PROVE  \E x \in DOMAIN field, kind \in Kind, source \in Source :
           IsAwardOf(a, field, B, named, x, kind, source)
<1> DEFINE Played == {p \in DOMAIN B : IsPlayed(B[p])}
           OK(x, kind, source) == IsAwardOf(a, field, B, named, x, kind, source)
           Goal == \E x \in DOMAIN field, kind \in Kind, source \in Source : OK(x, kind, source)
<1>1. ASSUME NEW kind \in Kind, NEW e, NEW source \in Source,
             a \in Pay(field, kind, e, source),
             kind = "champion" => e = IF B = NoMatches THEN named ELSE Champion(B)
      PROVE  Goal
  <2>1. PICK x \in DOMAIN field :
          /\ x = e /\ field[x] # NoPlayer
          /\ a = [player |-> field[x], kind |-> kind, source |-> source]
    BY <1>1 DEF Pay
  <2>2. OK(x, kind, source)
    BY <1>1, <2>1 DEF IsAwardOf
  <2>  HIDE DEF OK
  <2>3. QED
    BY <2>2
<1>2. TournamentRef \in Source
  BY DEF TournamentRef, Source
<1>3. ASSUME NEW p \in Played
      PROVE  MatchRef(d, p) \in Source
  BY DEF MatchRef, Source, Position
<1>4. /\ "entry" \in Kind /\ "match_win" \in Kind /\ "champion" \in Kind
      /\ "finalist" \in Kind /\ "semifinalist" \in Kind
  BY DEF Kind
<1>5. \/ \E e : a \in Pay(field, "entry", e, TournamentRef)
      \/ \E p \in Played : a \in Pay(field, "match_win", B[p].winner, MatchRef(d, p))
      \/ \E e : a \in Pay(field, "semifinalist", e, TournamentRef)
      \/ \E e : a \in Pay(field, "finalist", e, TournamentRef)
      \/ a \in Pay(field, "champion",
                   IF B = NoMatches THEN named ELSE Champion(B), TournamentRef)
  BY DEF TournamentAwards, Played
<1>6. QED
  <2>  HIDE DEF Goal, OK, Played
  <2>1. Goal
    BY <1>1, <1>2, <1>3, <1>4, <1>5
  <2>2. QED
    BY <2>1 DEF Goal, OK

\* Awards pay accounts.
LEMMA AwardsTyped ==
  ASSUME NEW field, field \in [DOMAIN field -> Player \cup {NoPlayer}],
         NEW B, DOMAIN B \subseteq Position, NEW d \in Nat, NEW named
  PROVE  TournamentAwards(field, B, d, named) \subseteq Award
<1>  SUFFICES ASSUME NEW a \in TournamentAwards(field, B, d, named)
              PROVE  a \in Award
  OBVIOUS
<1>1. PICK x \in DOMAIN field, kind \in Kind, source \in Source :
        field[x] # NoPlayer
        /\ a = [player |-> field[x], kind |-> kind, source |-> source]
  BY AwardCases DEF IsAwardOf
<1>2. QED
  BY <1>1 DEF Award

\* The winner of a bracket with a final is an entrant or nobody.
LEMMA ChampionTyped ==
  ASSUME RowsTyped, HasBracket
  PROVE  Champion(matches) \in EntrantId \cup {NoEntrant}
<1>1. PICK k \in 1..8 : DOMAIN matches = Positions(k)
  BY DEF RowsTyped, Whole, HasBracket
<1>2. FinalOf(matches) \in DOMAIN matches
  BY <1>1, FinalExists
<1>3. matches[FinalOf(matches)] \in Match(EntrantId)
  BY <1>2 DEF RowsTyped
<1>4. QED
  BY <1>3 DEF Champion, Match

LEMMA CallsTyped ==
  /\ NoCall \in CallType
  /\ \A op \in AllOps : Admin(op) \in CallType
BY DEF NoCall, Admin, CallType, Status

LEMMA ReadTyped ==
  ASSUME status \in {"draft", "open", "live"}
  PROVE  Read \in GuardType
BY DEF Read, NoGuard, GuardType

\* A step that only reads: it moves the request and no row.
LEMMA ReadersTyped ==
  ASSUME Typed, NEW r \in Request,
         \/ UpdateLoad(r) \/ Arrive(r) \/ RegistrationLoad(r) \/ AddLoad(r)
         \/ AddPlayerExists(r) \/ EnrolAlready(r) \/ RemoveLoad(r) \/ StatusLoad(r)
         \/ ConcludeLoad(r) \/ ConcludeEntrants(r) \/ ConcludeBracket(r)
         \/ DrawLoad(r) \/ DrawEditable(r) \/ DrawOrder(r) \/ DeleteBracketLoad(r)
         \/ ResultLoad(r) \/ ResultBoard(r) \/ Abandon(r)
  PROVE  Typed'
<1>1. RowsTyped' /\ PaidOnlyWhenConcluded'
  <2>1. UNCHANGED <<rows, players, now>>
    BY DEF UpdateLoad, Arrive, RegistrationLoad, AddLoad, AddPlayerExists, EnrolAlready,
           RemoveLoad, StatusLoad, ConcludeLoad, ConcludeEntrants, ConcludeBracket,
           DrawLoad, DrawEditable, DrawOrder, DeleteBracketLoad, ResultLoad, ResultBoard,
           Abandon
  <2>2. QED
    BY <2>1, RowsStay DEF Typed
<1>  RowsTyped /\ RequestsTyped
  BY DEF Typed
<1>2. status \notin {"gone", "concluded"} => status \in {"draft", "open", "live"}
  BY DEF RowsTyped, Status
<1>3. CASE UpdateLoad(r)
  <2>1. Begin(r, Admin("update"), Read, "update") /\ Read \in GuardType
    BY <1>2, <1>3, ReadTyped DEF UpdateLoad
  <2>2. Admin("update") \in CallType /\ "update" \in Step
    BY CallsTyped DEF AllOps, Step
  <2>3. QED
    BY <1>1, <2>1, <2>2, BeginTyped DEF Typed
<1>4. CASE Arrive(r)
  <2>1. PICK op \in {"register", "retire"}, pl \in players, lv \in Level :
          Begin(r, [NoCall EXCEPT !.op = op, !.player = pl, !.level = lv],
                [status |-> "open", open_at |-> now], "arrived")
    BY <1>4 DEF Arrive
  <2>2. /\ [NoCall EXCEPT !.op = op, !.player = pl, !.level = lv] \in CallType
        /\ [status |-> "open", open_at |-> now] \in GuardType
        /\ "arrived" \in Step
    BY CallsTyped DEF CallType, AllOps, GuardType, RowsTyped, Step
  <2>3. QED
    BY <1>1, <2>1, <2>2, BeginTyped DEF Typed
<1>5. CASE RegistrationLoad(r)
  <2>1. \E s \in {"enrol", "retire"} : Goto(r, s)
    BY <1>5 DEF RegistrationLoad
  <2>2. step[r] # "status" /\ "enrol" \in Step /\ "retire" \in Step
    BY <1>5 DEF RegistrationLoad, Step
  <2>3. QED
    BY <1>1, <2>1, <2>2, GotoTyped DEF Typed
<1>6. CASE AddLoad(r)
  <2>1. PICK pl \in Player, lv \in Level \cup {NoLevel} :
          Begin(r, [Admin("add") EXCEPT !.player = pl, !.level = lv], Read, "player")
    BY <1>6 DEF AddLoad
  <2>2. /\ [Admin("add") EXCEPT !.player = pl, !.level = lv] \in CallType
        /\ Read \in GuardType /\ "player" \in Step
    <3>1. Admin("add") \in CallType
      BY CallsTyped DEF AllOps
    <3>2. Read \in GuardType
      BY <1>2, <1>6, ReadTyped DEF AddLoad
    <3>3. QED
      BY <3>1, <3>2 DEF CallType, Step
  <2>3. QED
    BY <1>1, <2>1, <2>2, BeginTyped DEF Typed
<1>7. CASE AddPlayerExists(r)
  <2>1. Goto(r, "enrol") /\ step[r] # "status" /\ "enrol" \in Step
    BY <1>7 DEF AddPlayerExists, Step
  <2>2. QED
    BY <1>1, <2>1, GotoTyped DEF Typed
<1>8. CASE EnrolAlready(r)
  <2>1. Finish(r) \/ Goto(r, "level")
    BY <1>8 DEF EnrolAlready
  <2>2. step[r] # "status" /\ "level" \in Step
    BY <1>8 DEF EnrolAlready, Step
  <2>3. QED
    BY <1>1, <2>1, <2>2, GotoTyped, FinishTyped DEF Typed
<1>9. CASE RemoveLoad(r)
  <2>1. PICK e \in DOMAIN entrants :
          Begin(r, [Admin("remove") EXCEPT !.entrant = e], Read, "remove")
    BY <1>9 DEF RemoveLoad
  <2>2. /\ [Admin("remove") EXCEPT !.entrant = e] \in CallType
        /\ Read \in GuardType /\ "remove" \in Step
    <3>1. Admin("remove") \in CallType
      BY CallsTyped DEF AllOps
    <3>2. Read \in GuardType
      BY <1>2, <1>9, ReadTyped DEF RemoveLoad
    <3>3. QED
      BY <3>1, <3>2 DEF CallType, Step, RowsTyped
  <2>3. QED
    BY <1>1, <2>1, <2>2, BeginTyped DEF Typed
<1>10. CASE StatusLoad(r)
  <2>1. PICK to \in Status \ {"gone", "concluded"} :
          /\ Transition(status, to)
          /\ Begin(r, [Admin("status") EXCEPT !.to = to], Read, "status")
    BY <1>10 DEF StatusLoad
  <2>2. /\ [Admin("status") EXCEPT !.to = to] \in CallType
        /\ Read \in GuardType /\ "status" \in Step
    <3>1. Admin("status") \in CallType
      BY CallsTyped DEF AllOps
    <3>2. Read \in GuardType
      BY <2>1, ReadTyped DEF Transition
    <3>3. QED
      BY <3>1, <3>2 DEF CallType, Step
  <2>3. QED
    BY <1>1, <2>1, <2>2, BeginTyped DEF Typed
<1>11. CASE ConcludeLoad(r)
  <2>1. PICK named \in EntrantId \cup {NoEntrant} :
          Begin(r, [Admin("status") EXCEPT !.to = "concluded", !.entrant = named],
                Read, "conclude_entrants")
    BY <1>11 DEF ConcludeLoad
  <2>  DEFINE c == [Admin("status") EXCEPT !.to = "concluded", !.entrant = named]
  <2>2. /\ c \in CallType /\ c.to = "concluded"
        /\ Read \in GuardType /\ "conclude_entrants" \in Step
    <3>1. Admin("status") \in CallType
      BY CallsTyped DEF AllOps
    <3>2. Read \in GuardType
      BY <1>11, ReadTyped DEF ConcludeLoad
    <3>3. QED
      BY <3>1, <3>2 DEF CallType, Step, Status
  <2>  HIDE DEF c
  <2>3. Begin(r, c, Read, "conclude_entrants")
    BY <2>1 DEF c
  <2>4. QED
    BY <1>1, <2>2, <2>3, BeginTyped DEF Typed
<1>12. CASE ConcludeEntrants(r)
  <2>  DEFINE f == [e \in DOMAIN entrants |-> entrants[e].player]
              p == [NoPlan EXCEPT !.field = f]
  <2>1. f \in [DOMAIN f -> Player \cup {NoPlayer}]
    BY DEF RowsTyped, EntrantRow
  <2>2. Plan(r, p, "conclude_bracket") /\ step[r] = "conclude_entrants"
    BY <1>12 DEF ConcludeEntrants
  <2>  HIDE DEF f
  <2>3. PlanTyped(p) /\ p.awards = {}
    BY <2>1, NoPlanTyped DEF PlanTyped, NoPlan
  <2>4. Fits("conclude_bracket", call[r], p)
    BY <2>2, <2>3 DEF RequestsTyped, Fits
  <2>5. "conclude_bracket" \in Step
    BY DEF Step
  <2>  HIDE DEF p
  <2>6. QED
    BY <1>1, <2>2, <2>3, <2>4, <2>5, PlanStepTyped DEF Typed
<1>13. CASE ConcludeBracket(r)
  <2>  DEFINE A(w) == TournamentAwards(plan[r].field, matches, draw, w)
              P(w) == [NoPlan EXCEPT !.winner = w, !.awards = A(w)]
  <2>1. PICK w \in EntrantId \cup {NoEntrant} : Plan(r, P(w), "status")
    <3>1. CASE HasBracket /\ Plan(r, P(Champion(matches)), "status")
      BY <3>1, ChampionTyped
    <3>2. CASE Plan(r, P(call[r].entrant), "status")
      BY <3>2 DEF RequestsTyped, CallType
    <3>3. QED
      BY <1>13, <3>1, <3>2 DEF ConcludeBracket
  <2>2. A(w) \subseteq Award
    BY AwardsTyped DEF RowsTyped, RequestsTyped, PlanTyped
  <2>3. call[r].to = "concluded" /\ "status" \in Step
    BY <1>13 DEF ConcludeBracket, RequestsTyped, Fits, Step
  <2>  HIDE DEF A
  <2>4. PlanTyped(P(w))
    BY <2>2, NoPlanTyped DEF PlanTyped, NoPlan
  <2>5. Fits("status", call[r], P(w))
    BY <2>3 DEF Fits
  <2>  HIDE DEF P
  <2>6. QED
    BY <1>1, <2>1, <2>3, <2>4, <2>5, PlanStepTyped DEF Typed
<1>14. CASE DrawLoad(r)
  <2>1. PICK op \in {"generate", "reorder"} : Begin(r, Admin(op), Read, "editable")
    BY <1>14 DEF DrawLoad
  <2>2. Admin(op) \in CallType /\ Read \in GuardType /\ "editable" \in Step
    BY <1>14, ReadTyped, CallsTyped DEF DrawLoad, AllOps, Step
  <2>3. QED
    BY <1>1, <2>1, <2>2, BeginTyped DEF Typed
<1>15. CASE DrawEditable(r)
  <2>1. Goto(r, "seeding") /\ step[r] # "status" /\ "seeding" \in Step
    BY <1>15 DEF DrawEditable, Step
  <2>2. QED
    BY <1>1, <2>1, GotoTyped DEF Typed
<1>16. CASE DrawOrder(r)
  <2>  DEFINE n == Cardinality(DOMAIN entrants)
              P(o) == [NoPlan EXCEPT !.order = o]
  <2>1. n \in 2..MaxEntrants
    BY <1>16 DEF DrawOrder
  <2>  HIDE DEF n
  <2>2. PICK o \in [1..n -> DOMAIN entrants] :
          /\ \A i, j \in 1..n : i < j => o[i] # o[j]
          /\ Plan(r, P(o), "replace")
    BY <1>16 DEF DrawOrder, SeedOrders, n
  <2>3. n \in 2..256
    BY <2>1, MaxEntrantsAssumption
  <2>4. o \in Seq(EntrantId) /\ Len(o) = n /\ DOMAIN o = 1..n
    <3>  HIDE DEF EntrantId
    <3>1. n \in Nat /\ o \in [1..n -> EntrantId]
      <4>1. n \in Nat
        BY <2>3
      <4>2. DOMAIN entrants \subseteq EntrantId
        BY DEF RowsTyped
      <4>3. o \in [1..n -> DOMAIN entrants]
        OBVIOUS
      <4>  HIDE DEF P
      <4>4. QED
        BY <4>1, <4>2, <4>3
    <3>2. o \in Seq(EntrantId)
      BY <3>1
    <3>3. QED
      BY <3>1, <3>2
  <2>5. \A i, j \in 1..n : o[i] = o[j] => i = j
    BY <2>2, <2>3
  <2>6. OrderOf(o, EntrantId)
    BY <2>3, <2>4, <2>5, EntrantIdAssumption DEF OrderOf, EntrantId
  <2>7. PlanTyped(P(o))
    BY <2>4, NoPlanTyped DEF PlanTyped, NoPlan
  <2>8. Fits("replace", call[r], P(o)) /\ "replace" \in Step
    <3>1. Len(o) <= MaxEntrants
      BY <2>1, <2>4, MaxEntrantsAssumption
    <3>2. QED
      BY <2>6, <3>1 DEF Fits, NoPlan, Step
  <2>  HIDE DEF P
  <2>9. QED
    BY <1>1, <2>2, <2>7, <2>8, PlanStepTyped DEF Typed
<1>17. CASE DeleteBracketLoad(r)
  <2>1. Begin(r, Admin("delete_bracket"), Read, "delete_bracket") /\ Read \in GuardType
    BY <1>2, <1>17, ReadTyped DEF DeleteBracketLoad
  <2>2. Admin("delete_bracket") \in CallType /\ "delete_bracket" \in Step
    BY CallsTyped DEF AllOps, Step
  <2>3. QED
    BY <1>1, <2>1, <2>2, BeginTyped DEF Typed
<1>18. CASE ResultLoad(r)
  <2>1. PICK op \in {"report", "clear"} : Begin(r, Admin(op), Read, "board")
    BY <1>18 DEF ResultLoad
  <2>2. Admin(op) \in CallType /\ Read \in GuardType /\ "board" \in Step
    BY <1>2, <1>18, ReadTyped, CallsTyped DEF ResultLoad, AllOps, Step
  <2>3. QED
    BY <1>1, <2>1, <2>2, BeginTyped DEF Typed
<1>19. CASE ResultBoard(r) /\ ~Plan(r, NoPlan, "results")
  <2>0. PICK p \in DOMAIN matches : \E e \in {matches[p].a, matches[p].b, NoEntrant} :
          Plan(r, ResultPlan(Feed([matches EXCEPT ![p].winner = e], p, e), p), "results")
    BY <1>19 DEF ResultBoard, Reported, Cleared
  <2>1. PICK e \in {matches[p].a, matches[p].b, NoEntrant} :
          Plan(r, ResultPlan(Feed([matches EXCEPT ![p].winner = e], p, e), p), "results")
    BY <2>0
  <2>  DEFINE D == DOMAIN matches
              B == Feed([matches EXCEPT ![p].winner = e], p, e)
              after == [q \in Changed(B, p) |-> B[q]]
  <2>2. e \in EntrantId \cup {NoEntrant}
    BY DEF RowsTyped, Match
  <2>3. B \in [D -> Match(EntrantId)]
    BY <2>2, FeedType DEF RowsTyped
  <2>  HIDE DEF B
  <2>4. after \in [DOMAIN after -> Match(EntrantId)]
    BY <2>3 DEF Changed
  <2>  HIDE DEF after
  <2>5. PlanTyped(ResultPlan(B, p)) /\ ResultPlan(B, p).awards = {}
    BY <2>4, NoPlanTyped DEF ResultPlan, PlanTyped, NoPlan, after
  <2>6. Fits("results", call[r], ResultPlan(B, p)) /\ "results" \in Step
    BY <2>5 DEF Fits, Step
  <2>7. QED
    BY <1>1, <2>1, <2>5, <2>6, PlanStepTyped DEF Typed, B
<1>20. CASE ResultBoard(r) /\ Plan(r, NoPlan, "results")
  <2>1. Fits("results", call[r], NoPlan) /\ "results" \in Step /\ NoPlan.awards = {}
    BY DEF Fits, Step, NoPlan
  <2>2. QED
    BY <1>1, <1>20, <2>1, NoPlanTyped, PlanStepTyped DEF Typed
<1>21. CASE Abandon(r)
  BY <1>1, <1>21, FinishTyped DEF Abandon, Typed
<1>22. QED
  BY <1>3, <1>4, <1>5, <1>6, <1>7, <1>8, <1>9, <1>10, <1>11, <1>12, <1>13, <1>14,
     <1>15, <1>16, <1>17, <1>18, <1>19, <1>20, <1>21

\* A step that writes rows: the request ends with it.
LEMMA WritersTyped ==
  ASSUME Typed, NEW r \in Request,
         \/ UpdateWrite(r) \/ EnrolInsert(r) \/ SetSkill(r) \/ RemoveEntrantOf(r)
         \/ RemoveEntrant(r) \/ SetStatus(r) \/ ReplaceBracket(r) \/ DeleteBracket(r)
         \/ UpdateMatches(r)
  PROVE  Typed'
<1>1. RequestsTyped'
  <2>1. Finish(r)
    BY DEF UpdateWrite, EnrolInsert, SetSkill, RemoveEntrantOf, RemoveEntrant, SetStatus,
           ReplaceBracket, DeleteBracket, UpdateMatches
  <2>2. QED
    BY <2>1, FinishTyped DEF Typed
<1>  RowsTyped /\ RequestsTyped /\ PaidOnlyWhenConcluded
  BY DEF Typed
<1>2. /\ call[r].player \in Player \cup {NoPlayer}
      /\ call[r].level \in Level \cup {NoLevel} /\ call[r].to \in Status
  BY DEF RequestsTyped, CallType
<1>3. PlanTyped(plan[r]) /\ Fits(step[r], call[r], plan[r])
  BY DEF RequestsTyped
<1>4. CASE UpdateWrite(r)
  <2>1. deadline' \in Time
    BY <1>4 DEF UpdateWrite, RowsTyped
  <2>2. RowsTyped' /\ PaidOnlyWhenConcluded'
    BY <1>4, <2>1 DEF UpdateWrite, RowsTyped, PaidOnlyWhenConcluded, Whole
  <2>3. QED
    BY <1>1, <2>2 DEF Typed
<1>5. CASE EnrolInsert(r)
  <2>  DEFINE row == [player |-> call[r].player, level |-> call[r].level, seed |-> NoSeed]
  <2>1. row \in EntrantRow
    BY <1>2 DEF EntrantRow, NoSeed
  <2>  HIDE DEF row
  <2>2. entrants' = [e \in DOMAIN entrants \cup {entered + 1} |->
                       IF e \in DOMAIN entrants THEN entrants[e] ELSE row]
    BY <1>5 DEF EnrolInsert, row
  <2>3. entered' \in 0..MaxEntries /\ entered + 1 \in EntrantId
    BY <1>5, BoundsAssumption DEF EnrolInsert, RowsTyped, EntrantId
  <2>4. /\ DOMAIN entrants' \subseteq EntrantId
        /\ entrants' \in [DOMAIN entrants' -> EntrantRow]
    BY <2>1, <2>2, <2>3 DEF RowsTyped
  <2>5. QED
    BY <1>1, <1>5, <2>3, <2>4, EntrantsTyped DEF EnrolInsert, Typed
<1>6. CASE SetSkill(r)
  <2>1. ASSUME NEW e \in DOMAIN entrants
        PROVE  [entrants[e] EXCEPT !.level = call[r].level] \in EntrantRow
    BY <1>2 DEF RowsTyped, EntrantRow
  <2>2. /\ DOMAIN entrants' \subseteq EntrantId
        /\ entrants' \in [DOMAIN entrants' -> EntrantRow]
    BY <1>6, <2>1 DEF SetSkill, RowsTyped
  <2>3. entered' \in 0..MaxEntries
    BY <1>6 DEF SetSkill, RowsTyped
  <2>4. QED
    BY <1>1, <1>6, <2>2, <2>3, EntrantsTyped DEF SetSkill, Typed
<1>7. CASE RemoveEntrantOf(r)
  BY <1>1, <1>7, RemoveTyped DEF RemoveEntrantOf, Typed
<1>8. CASE RemoveEntrant(r)
  BY <1>1, <1>8, RemoveTyped DEF RemoveEntrant, Typed
<1>9. CASE SetStatus(r)
  <2>1. /\ status' \in Status /\ winner' \in EntrantId \cup {NoEntrant}
        /\ ledger' \subseteq Award
    BY <1>2, <1>3, <1>9 DEF SetStatus, RowsTyped, PlanTyped
  <2>2. RowsTyped'
    BY <1>9, <2>1 DEF SetStatus, RowsTyped, Whole
  <2>3. PaidOnlyWhenConcluded'
    <3>1. seen[r].status # "concluded"
      BY DEF RequestsTyped, GuardType
    <3>2. QED
      BY <1>3, <1>9, <3>1 DEF SetStatus, MoveCommits, PaidOnlyWhenConcluded, Fits
  <2>4. QED
    BY <1>1, <2>2, <2>3 DEF Typed
<1>10. CASE ReplaceBracket(r)
  <2>  DEFINE o == plan[r].order
  <2>1. OrderOf(o, EntrantId)
    BY <1>3, <1>10 DEF ReplaceBracket, Fits
  <2>2. o \in Seq(EntrantId)
    BY <2>1 DEF OrderOf
  <2>3. CASE /\ Reseed(o) /\ matches' = Generate(o) /\ draw' = draw + 1
    <3>1. /\ DOMAIN entrants' \subseteq EntrantId
          /\ entrants' \in [DOMAIN entrants' -> EntrantRow]
      BY <2>2, <2>3, ReseedTyped
    <3>2. /\ DOMAIN matches' \subseteq Position
          /\ matches' \in [DOMAIN matches' -> Match(EntrantId)]
          /\ Whole'
      BY <2>1, <2>3, GenerateType DEF Whole
    <3>3. draw' \in Nat
      BY <2>3 DEF RowsTyped
    <3>4. RowsTyped'
      BY <1>10, <3>1, <3>2, <3>3 DEF ReplaceBracket, RowsTyped
    <3>5. QED
      BY <1>1, <1>10, <3>4 DEF ReplaceBracket, PaidOnlyWhenConcluded, Typed
  <2>4. CASE UNCHANGED <<entrants, matches, draw>>
    <3>1. UNCHANGED <<rows, players, now>>
      BY <1>10, <2>4 DEF ReplaceBracket, rows
    <3>2. QED
      BY <1>1, <3>1, RowsStay DEF Typed
  <2>5. QED
    BY <1>10, <2>3, <2>4 DEF ReplaceBracket
<1>11. CASE DeleteBracket(r)
  <2>1. CASE Reseed(<<>>) /\ matches' = NoMatches
    <3>1. <<>> \in Seq(EntrantId)
      OBVIOUS
    <3>2. /\ DOMAIN entrants' \subseteq EntrantId
          /\ entrants' \in [DOMAIN entrants' -> EntrantRow]
      BY <2>1, <3>1, ReseedTyped
    <3>3. /\ DOMAIN matches' \subseteq Position
          /\ matches' \in [DOMAIN matches' -> Match(EntrantId)]
          /\ Whole'
      BY <2>1, NoMatchesTyped DEF Whole
    <3>4. RowsTyped'
      BY <1>11, <3>2, <3>3 DEF DeleteBracket, RowsTyped
    <3>5. QED
      BY <1>1, <1>11, <3>4 DEF DeleteBracket, PaidOnlyWhenConcluded, Typed
  <2>2. CASE UNCHANGED <<entrants, matches>>
    <3>1. UNCHANGED <<rows, players, now>>
      BY <1>11, <2>2 DEF DeleteBracket, rows
    <3>2. QED
      BY <1>1, <3>1, RowsStay DEF Typed
  <2>3. QED
    BY <1>11, <2>1, <2>2 DEF DeleteBracket
<1>12. CASE UpdateMatches(r)
  <2>1. DOMAIN matches' = DOMAIN matches
    BY <1>12 DEF UpdateMatches
  <2>2. matches' \in [DOMAIN matches' -> Match(EntrantId)]
    BY <1>3, <1>12 DEF UpdateMatches, RowsTyped, PlanTyped
  <2>3. Whole'
    <3>1. matches = NoMatches => matches' = NoMatches
      BY <1>12, <2>1 DEF UpdateMatches, NoMatches
    <3>2. QED
      BY <2>1, <3>1 DEF RowsTyped, Whole
  <2>4. RowsTyped'
    BY <1>12, <2>1, <2>2, <2>3 DEF UpdateMatches, RowsTyped
  <2>5. QED
    BY <1>1, <1>12, <2>4 DEF UpdateMatches, PaidOnlyWhenConcluded, Typed
<1>13. QED
  BY <1>4, <1>5, <1>6, <1>7, <1>8, <1>9, <1>10, <1>11, <1>12

LEMMA TypedStep == Typed /\ [Next]_vars => Typed'
<1>  SUFFICES ASSUME Typed, [Next]_vars
              PROVE  Typed'
  OBVIOUS
<1>  RowsTyped /\ RequestsTyped /\ PaidOnlyWhenConcluded
  BY DEF Typed
<1>1. ASSUME NEW r \in Request, RequestNext(r)
      PROVE  Typed'
  BY <1>1, ReadersTyped, WritersTyped DEF RequestNext
<1>2. ASSUME UNCHANGED request
      PROVE  RequestsTyped'
  BY <1>2 DEF request, RequestsTyped
<1>3. CASE Delete
  <2>1. /\ DOMAIN matches' \subseteq Position
        /\ matches' \in [DOMAIN matches' -> Match(EntrantId)]
        /\ Whole'
    BY <1>3, NoMatchesTyped DEF Delete, Whole
  <2>2. DOMAIN entrants' = {} /\ entrants' \in [DOMAIN entrants' -> EntrantRow]
    BY <1>3 DEF Delete
  <2>3. RowsTyped' /\ PaidOnlyWhenConcluded'
    BY <1>3, <2>1, <2>2 DEF Delete, RowsTyped, PaidOnlyWhenConcluded, Status
  <2>4. QED
    BY <1>2, <1>3, <2>3 DEF Delete, Typed
<1>4. ASSUME NEW pl \in players, PlayerDeleted(pl)
      PROVE  Typed'
  <2>1. ASSUME NEW e \in DOMAIN entrants
        PROVE  [entrants[e] EXCEPT !.player = NoPlayer] \in EntrantRow
    BY DEF RowsTyped, EntrantRow
  <2>2. DOMAIN entrants' \subseteq EntrantId /\ entrants' \in [DOMAIN entrants' -> EntrantRow]
    BY <1>4, <2>1 DEF PlayerDeleted, RowsTyped
  <2>3. RowsTyped' /\ PaidOnlyWhenConcluded'
    BY <1>4, <2>2 DEF PlayerDeleted, RowsTyped, PaidOnlyWhenConcluded, Whole
  <2>4. QED
    BY <1>2, <1>4, <2>3 DEF PlayerDeleted, Typed
<1>5. CASE Tick
  <2>1. now' \in Time
    BY <1>5, BoundsAssumption DEF Tick, RowsTyped, Time
  <2>2. RowsTyped' /\ PaidOnlyWhenConcluded'
    BY <1>5, <2>1 DEF Tick, RowsTyped, PaidOnlyWhenConcluded, rows, Whole
  <2>3. QED
    BY <1>2, <1>5, <2>2 DEF Tick, Typed
<1>6. CASE UNCHANGED vars
  BY <1>2, <1>6, RowsStay DEF vars, Typed
<1>7. QED
  BY <1>1, <1>3, <1>4, <1>5, <1>6 DEF Next

LEMMA TypedInit == Init => Typed
<1>  SUFFICES ASSUME Init
              PROVE  Typed
  OBVIOUS
<1>1. RowsTyped
  <2>1. DOMAIN entrants = {} /\ entrants \in [DOMAIN entrants -> EntrantRow]
    BY DEF Init
  <2>2. /\ DOMAIN matches \subseteq Position
        /\ matches \in [DOMAIN matches -> Match(EntrantId)]
    BY NoMatchesTyped DEF Init
  <2>3. QED
    BY <2>1, <2>2, BoundsAssumption DEF Init, RowsTyped, Whole, Status, Time
<1>2. NoCall \in CallType /\ NoGuard \in GuardType /\ "idle" \in Step
  BY DEF NoCall, NoGuard, CallType, GuardType, Status, Step
<1>3. RequestsTyped
  BY <1>2, NoPlanTyped DEF Init, RequestsTyped, Fits, NoPlan
<1>4. QED
  BY <1>1, <1>3 DEF Typed, Init, PaidOnlyWhenConcluded

LEMMA TypedInvariant == Spec => []Typed
BY TypedInit, TypedStep, PTL DEF Spec

\* Every row and everything a request holds has its type, for any number of
\* requests in flight.
THEOREM TypeCorrect == Spec => []TypeOK
BY TypedInvariant, TypedIsTypeOK, PTL

\* set_status: the cycles of a tournament come with its conclusion, whole, and
\* no request brings them before.
THEOREM PaidOnlyOnce == Spec => []PaidOnlyWhenConcluded
<1>1. Typed => PaidOnlyWhenConcluded
  BY DEF Typed
<1>2. QED
  BY <1>1, TypedInvariant, PTL

\* No request guards with the final status, so no write of a request gets through
\* once the tournament is concluded.
LEMMA FinalStep ==
  ASSUME Typed, status = "concluded", NEW r \in Request, RequestNext(r)
  PROVE  UNCHANGED <<status, deadline, winner, entrants, matches, ledger>>
<1>1. seen[r].status # status
  BY DEF Typed, RequestsTyped, GuardType
<1>2. ~GuardHolds(seen[r]) /\ ~MoveCommits(r) /\ ~Rebuildable(r) /\ ~ResultCommits(r)
  BY <1>1 DEF GuardHolds, MoveCommits, Rebuildable, ResultCommits
<1>3. entrants = [e \in DOMAIN entrants |-> entrants[e]]
  BY DEF Typed, RowsTyped
<1>4. CASE UpdateWrite(r)
  BY <1>1, <1>4 DEF UpdateWrite
<1>5. CASE EnrolInsert(r)
  BY <1>2, <1>5 DEF EnrolInsert, Inserts
<1>6. CASE SetSkill(r)
  BY <1>2, <1>3, <1>6 DEF SetSkill
<1>7. CASE RemoveEntrantOf(r) \/ RemoveEntrant(r)
  <2>1. entrants' = [e \in DOMAIN entrants |-> entrants[e]]
    BY <1>2, <1>7 DEF RemoveEntrantOf, RemoveEntrant, RemoveRows
  <2>2. QED
    BY <2>1, <1>3, <1>7 DEF RemoveEntrantOf, RemoveEntrant
<1>8. CASE SetStatus(r)
  BY <1>2, <1>8 DEF SetStatus
<1>9. CASE ReplaceBracket(r) \/ DeleteBracket(r)
  BY <1>2, <1>9 DEF ReplaceBracket, ReplaceCommits, DeleteBracket
<1>10. CASE UpdateMatches(r)
  BY <1>2, <1>10 DEF UpdateMatches
<1>11. QED
  BY <1>4, <1>5, <1>6, <1>7, <1>8, <1>9, <1>10
     DEF RequestNext, UpdateLoad, Arrive, RegistrationLoad, AddLoad, AddPlayerExists,
         EnrolAlready, RemoveLoad, StatusLoad, ConcludeLoad, ConcludeEntrants,
         ConcludeBracket, DrawLoad, DrawEditable, DrawOrder, DeleteBracketLoad,
         ResultLoad, ResultBoard, Abandon, rows

\* A concluded tournament is final (require_not_concluded, EntrantGuard,
\* bracket_blocked and the guards of update, set_status and update_matches): what
\* is left are the deletions of the tournament and of accounts.
THEOREM ConclusionIsFinal == Spec => ConcludedIsFinal
<1> DEFINE Kept ==
             /\ UNCHANGED <<status, winner, matches, deadline>>
             /\ DOMAIN entrants' = DOMAIN entrants
             /\ \A e \in DOMAIN entrants :
                  /\ entrants'[e].seed = entrants[e].seed
                  /\ entrants'[e].level = entrants[e].level
             /\ ledger' \subseteq ledger
<1>1. Typed /\ [Next]_vars => [status = "concluded" /\ status' # "gone" => Kept]_vars
  <2>  SUFFICES ASSUME Typed, Next, status = "concluded", status' # "gone"
                PROVE  Kept
    OBVIOUS
  <2>1. ASSUME NEW r \in Request, RequestNext(r)
        PROVE  Kept
    BY <2>1, FinalStep
  <2>2. CASE Delete
    BY <2>2 DEF Delete
  <2>3. ASSUME NEW pl \in players, PlayerDeleted(pl)
        PROVE  Kept
    BY <2>3 DEF PlayerDeleted, Typed, RowsTyped, EntrantRow
  <2>4. CASE Tick
    BY <2>4 DEF Tick, rows
  <2>5. QED
    BY <2>1, <2>2, <2>3, <2>4 DEF Next
<1>2. QED
  BY <1>1, TypedInvariant, PTL DEF Spec, ConcludedIsFinal

\* A bracket fixes the field: every entrant write asks for the absence of a
\* bracket in its own statement (EntrantGuard::predicate).
THEOREM FieldIsFixed == Spec => BracketFixesField
<1> DEFINE Kept == /\ DOMAIN entrants' = DOMAIN entrants
                   /\ \A e \in DOMAIN entrants : entrants'[e].level = entrants[e].level
<1>1. Typed /\ [Next]_vars => [HasBracket /\ matches' # NoMatches => Kept]_vars
  <2>  SUFFICES ASSUME Typed, Next, HasBracket, matches' # NoMatches
                PROVE  Kept
    OBVIOUS
  <2>1. entrants' = entrants => Kept
    OBVIOUS
  <2>2. ASSUME NEW order, Reseed(order)
        PROVE  Kept
    BY <2>2 DEF Reseed, Typed, RowsTyped, EntrantRow
  <2>3. ASSUME NEW r \in Request, RequestNext(r)
        PROVE  Kept
    <3>1. ~GuardHolds(seen[r])
      BY DEF GuardHolds
    <3>2. CASE EnrolInsert(r)
      BY <3>1, <3>2 DEF EnrolInsert, Inserts
    <3>3. CASE SetSkill(r) \/ RemoveEntrantOf(r) \/ RemoveEntrant(r)
      <4>1. entrants' = [e \in DOMAIN entrants |-> entrants[e]]
        BY <3>1, <3>3 DEF SetSkill, RemoveEntrantOf, RemoveEntrant, RemoveRows
      <4>2. QED
        BY <4>1
    <3>4. CASE ReplaceBracket(r) \/ DeleteBracket(r)
      BY <2>1, <2>2, <3>4 DEF ReplaceBracket, DeleteBracket
    <3>5. CASE UpdateWrite(r) \/ SetStatus(r) \/ UpdateMatches(r)
      BY <2>1, <3>5 DEF UpdateWrite, SetStatus, UpdateMatches
    <3>6. UNCHANGED rows => Kept
      BY <2>1 DEF rows
    <3>7. QED
      BY <2>3, <3>2, <3>3, <3>4, <3>5, <3>6
         DEF RequestNext, UpdateLoad, Arrive, RegistrationLoad, AddLoad, AddPlayerExists,
             EnrolAlready, RemoveLoad, StatusLoad, ConcludeLoad, ConcludeEntrants,
             ConcludeBracket, DrawLoad, DrawEditable, DrawOrder, DeleteBracketLoad,
             ResultLoad, ResultBoard, Abandon
  <2>4. CASE Delete
    BY <2>4 DEF Delete
  <2>5. ASSUME NEW pl \in players, PlayerDeleted(pl)
        PROVE  Kept
    BY <2>5 DEF PlayerDeleted, Typed, RowsTyped, EntrantRow
  <2>6. CASE Tick
    BY <2>1, <2>6 DEF Tick, rows
  <2>7. QED
    BY <2>3, <2>4, <2>5, <2>6 DEF Next
<1>2. QED
  BY <1>1, TypedInvariant, PTL DEF Spec, BracketFixesField

--------------------------------------------------------------------------------
(* The champion who is paid is the winner who is shown.  Entry ids are     *)
(* handed out once and an account never comes back, so what a conclusion    *)
(* read of an entry stays true of it, or its account is gone.              *)

\* Entry e was that of account pl, and if it is still there so it is now, unless
\* the account is gone.
Known(e, pl) ==
  /\ e \in 1..entered
  /\ e \in DOMAIN entrants => entrants[e].player = pl \/ pl \notin players

Remembered(r) ==
  /\ step[r] = "conclude_bracket" =>
       \A e \in DOMAIN plan[r].field : Known(e, plan[r].field[e])
  /\ \A a \in plan[r].awards : a.kind = "champion" => Known(plan[r].winner, a.player)

Conclusive ==
  /\ Typed
  /\ DOMAIN entrants \subseteq 1..entered
  /\ \A r \in Request : Remembered(r)
  /\ ChampionIsWinner

\* What a step may do to an entry that was handed out.
EntriesPersist ==
  /\ entered' >= entered /\ entered' \in Nat /\ players' \subseteq players
  /\ DOMAIN entrants' \subseteq 1..entered'
  /\ \A e \in 1..entered :
       e \in DOMAIN entrants' =>
         /\ e \in DOMAIN entrants
         /\ entrants'[e].player = entrants[e].player \/ entrants[e].player \notin players'

LEMMA Persist ==
  ASSUME Typed, DOMAIN entrants \subseteq 1..entered, [Next]_vars
  PROVE  EntriesPersist
<1>1. entered \in Nat
  BY BoundsAssumption DEF Typed, RowsTyped
<1>2. UNCHANGED <<entered, players, entrants>> => EntriesPersist
  BY <1>1 DEF EntriesPersist
<1>3. ASSUME UNCHANGED <<entered, players>>,
             DOMAIN entrants' \subseteq DOMAIN entrants,
             \A e \in DOMAIN entrants' : entrants'[e].player = entrants[e].player
      PROVE  EntriesPersist
  BY <1>1, <1>3 DEF EntriesPersist
<1>4. ASSUME NEW order, Reseed(order), UNCHANGED <<entered, players>>
      PROVE  EntriesPersist
  <2>1. /\ DOMAIN entrants' = DOMAIN entrants
        /\ \A e \in DOMAIN entrants : entrants'[e].player = entrants[e].player
    BY <1>4 DEF Reseed, Typed, RowsTyped, EntrantRow
  <2>2. QED
    BY <2>1, <1>3, <1>4
<1>5. ASSUME NEW r \in Request, RequestNext(r)
      PROVE  EntriesPersist
  <2>1. CASE EnrolInsert(r)
    <3>1. /\ entered' = entered + 1 /\ players' = players
          /\ DOMAIN entrants' = DOMAIN entrants \cup {entered + 1}
          /\ \A e \in DOMAIN entrants : entrants'[e] = entrants[e]
      BY <2>1 DEF EnrolInsert
    <3>2. entered + 1 \notin 1..entered /\ DOMAIN entrants' \subseteq 1..(entered + 1)
      BY <1>1, <3>1
    <3>3. QED
      BY <1>1, <3>1, <3>2 DEF EntriesPersist
  <2>2. CASE SetSkill(r)
    <3>1. /\ DOMAIN entrants' = DOMAIN entrants /\ UNCHANGED <<entered, players>>
          /\ \A e \in DOMAIN entrants : entrants'[e].player = entrants[e].player
      BY <2>2 DEF SetSkill, Typed, RowsTyped, EntrantRow
    <3>2. QED
      BY <1>3, <3>1
  <2>3. CASE RemoveEntrantOf(r) \/ RemoveEntrant(r)
    <3>1. /\ DOMAIN entrants' \subseteq DOMAIN entrants /\ UNCHANGED <<entered, players>>
          /\ \A e \in DOMAIN entrants' : entrants'[e].player = entrants[e].player
      BY <2>3 DEF RemoveEntrantOf, RemoveEntrant, RemoveRows
    <3>2. QED
      BY <1>3, <3>1
  <2>4. CASE ReplaceBracket(r) \/ DeleteBracket(r)
    BY <1>2, <1>4, <2>4 DEF ReplaceBracket, DeleteBracket
  <2>5. CASE UpdateWrite(r) \/ SetStatus(r) \/ UpdateMatches(r)
    BY <1>2, <2>5 DEF UpdateWrite, SetStatus, UpdateMatches
  <2>6. CASE UNCHANGED <<rows, players, now>>
    BY <1>2, <2>6 DEF rows
  <2>7. QED
    BY <1>5, <2>1, <2>2, <2>3, <2>4, <2>5, <2>6
       DEF RequestNext, UpdateLoad, Arrive, RegistrationLoad, AddLoad, AddPlayerExists,
           EnrolAlready, RemoveLoad, StatusLoad, ConcludeLoad, ConcludeEntrants,
           ConcludeBracket, DrawLoad, DrawEditable, DrawOrder, DeleteBracketLoad,
           ResultLoad, ResultBoard, Abandon
<1>6. CASE Delete
  BY <1>1, <1>6 DEF Delete, EntriesPersist
<1>7. ASSUME NEW pl \in players, PlayerDeleted(pl)
      PROVE  EntriesPersist
  <2>1. /\ entered' = entered /\ players' = players \ {pl}
        /\ DOMAIN entrants' = DOMAIN entrants
        /\ \A e \in DOMAIN entrants :
             entrants[e].player # pl => entrants'[e].player = entrants[e].player
    BY <1>7 DEF PlayerDeleted
  <2>2. QED
    BY <1>1, <2>1 DEF EntriesPersist
<1>8. CASE Tick
  BY <1>2, <1>8 DEF Tick, rows
<1>9. CASE UNCHANGED vars
  BY <1>2, <1>9 DEF vars, rows
<1>10. QED
  BY <1>5, <1>6, <1>7, <1>8, <1>9 DEF Next

LEMMA KnownStays ==
  ASSUME EntriesPersist, entered \in Nat, NEW e, NEW pl, Known(e, pl)
  PROVE  Known(e, pl)'
BY DEF EntriesPersist, Known

\* Where a request gets what it remembers: from its own reads, or it had it.
LEMMA PlanSources ==
  ASSUME Typed, NEW r \in Request, RequestNext(r), NEW x \in Request
  PROVE  /\ \/ plan'[x].awards = {}
            \/ plan'[x].awards = plan[x].awards /\ plan'[x].winner = plan[x].winner
            \/ x = r /\ ConcludeBracket(r)
         /\ \/ step'[x] # "conclude_bracket"
            \/ step'[x] = step[x] /\ plan'[x] = plan[x]
            \/ x = r /\ ConcludeEntrants(r)
<1>1. DOMAIN step = Request /\ DOMAIN plan = Request
  BY DEF Typed, RequestsTyped
<1>2. NoPlan.awards = {}
  BY DEF NoPlan
<1>3. ASSUME NEW c, NEW g, NEW s, Begin(r, c, g, s), s # "conclude_bracket"
      PROVE  plan'[x] = plan[x] /\ (step'[x] # "conclude_bracket" \/ step'[x] = step[x])
  BY <1>1, <1>3 DEF Begin
<1>4. ASSUME NEW s, Goto(r, s), s # "conclude_bracket"
      PROVE  plan'[x] = plan[x] /\ (step'[x] # "conclude_bracket" \/ step'[x] = step[x])
  BY <1>1, <1>4 DEF Goto
<1>5. ASSUME NEW s, NEW p, Plan(r, p, s), s # "conclude_bracket", p.awards = {}
      PROVE  /\ plan'[x].awards = {} \/ plan'[x] = plan[x]
             /\ \/ step'[x] # "conclude_bracket"
                \/ step'[x] = step[x] /\ plan'[x] = plan[x]
  BY <1>1, <1>5 DEF Plan
<1>6. ASSUME Finish(r)
      PROVE  /\ plan'[x].awards = {} \/ plan'[x] = plan[x]
             /\ \/ step'[x] # "conclude_bracket"
                \/ step'[x] = step[x] /\ plan'[x] = plan[x]
  BY <1>1, <1>2, <1>6 DEF Finish
<1>7. CASE \/ UpdateLoad(r) \/ Arrive(r) \/ AddLoad(r) \/ RemoveLoad(r) \/ StatusLoad(r)
           \/ ConcludeLoad(r) \/ DrawLoad(r) \/ DeleteBracketLoad(r) \/ ResultLoad(r)
  BY <1>3, <1>7 DEF UpdateLoad, Arrive, AddLoad, RemoveLoad, StatusLoad, ConcludeLoad,
                    DrawLoad, DeleteBracketLoad, ResultLoad
<1>8. CASE RegistrationLoad(r) \/ AddPlayerExists(r) \/ EnrolAlready(r) \/ DrawEditable(r)
  BY <1>4, <1>6, <1>8 DEF RegistrationLoad, AddPlayerExists, EnrolAlready, DrawEditable
<1>9. CASE \/ UpdateWrite(r) \/ EnrolInsert(r) \/ SetSkill(r) \/ RemoveEntrantOf(r)
           \/ RemoveEntrant(r) \/ SetStatus(r) \/ ReplaceBracket(r) \/ DeleteBracket(r)
           \/ UpdateMatches(r) \/ Abandon(r)
  BY <1>6, <1>9 DEF UpdateWrite, EnrolInsert, SetSkill, RemoveEntrantOf, RemoveEntrant,
                    SetStatus, ReplaceBracket, DeleteBracket, UpdateMatches, Abandon
<1>10. CASE DrawOrder(r)
  <2>1. PICK o : Plan(r, [NoPlan EXCEPT !.order = o], "replace")
    BY <1>10 DEF DrawOrder
  <2>2. [NoPlan EXCEPT !.order = o].awards = {}
    BY DEF NoPlan
  <2>3. QED
    BY <2>1, <2>2, <1>5
<1>11. CASE ResultBoard(r)
  <2>1. Plan(r, NoPlan, "results") \/ \E B, p : Plan(r, ResultPlan(B, p), "results")
    BY <1>11 DEF ResultBoard
  <2>2. NoPlan.awards = {} /\ \A B, p : ResultPlan(B, p).awards = {}
    BY DEF ResultPlan, NoPlan
  <2>3. QED
    BY <2>1, <2>2, <1>5
<1>12. CASE ConcludeEntrants(r)
  <2>1. PICK f : Plan(r, [NoPlan EXCEPT !.field = f], "conclude_bracket")
    BY <1>12 DEF ConcludeEntrants
  <2>2. [NoPlan EXCEPT !.field = f].awards = {}
    BY DEF NoPlan
  <2>3. QED
    BY <1>1, <1>12, <2>1, <2>2 DEF Plan
<1>13. CASE ConcludeBracket(r)
  <2>1. PICK p : Plan(r, p, "status")
    BY <1>13 DEF ConcludeBracket
  <2>2. QED
    BY <1>1, <1>13, <2>1 DEF Plan
<1>14. QED
  BY <1>7, <1>8, <1>9, <1>10, <1>11, <1>12, <1>13 DEF RequestNext

LEMMA RememberedStep ==
  ASSUME Conclusive, [Next]_vars, NEW x \in Request
  PROVE  Remembered(x)'
<1>1. EntriesPersist /\ entered \in Nat
  BY Persist, BoundsAssumption DEF Conclusive, Typed, RowsTyped
<1>2. Remembered(x)
  BY DEF Conclusive
<1>3. ASSUME NEW e, NEW pl, step'[x] = "conclude_bracket",
             e \in DOMAIN plan'[x].field, pl = plan'[x].field[e]
      PROVE  Known(e, pl)'
  <2>1. CASE step'[x] = step[x] /\ plan'[x] = plan[x]
    <3>1. Known(e, pl)
      BY <1>2, <1>3, <2>1 DEF Remembered
    <3>2. QED
      BY <1>1, <3>1, KnownStays
  <2>2. ASSUME NEW r \in Request, x = r, ConcludeEntrants(r)
        PROVE  Known(e, pl)'
    <3>1. /\ plan'[x].field = [y \in DOMAIN entrants |-> entrants[y].player]
          /\ UNCHANGED <<entrants, entered, players>>
      BY <2>2 DEF ConcludeEntrants, Plan, NoPlan, rows, Typed, RequestsTyped, Conclusive
    <3>2. Known(e, pl)
      BY <1>3, <3>1 DEF Known, Conclusive
    <3>3. QED
      BY <1>1, <3>2, KnownStays
  <2>3. QED
    BY <1>3, <2>1, <2>2, PlanSources DEF Conclusive, Next, Delete, PlayerDeleted, Tick,
                                         vars, request
<1>4. ASSUME NEW a \in plan'[x].awards, a.kind = "champion", NEW w, w = plan'[x].winner,
             NEW pl, pl = a.player
      PROVE  Known(w, pl)'
  <2>1. CASE plan'[x].awards = plan[x].awards /\ plan'[x].winner = plan[x].winner
    <3>1. Known(w, pl)
      BY <1>2, <1>4, <2>1 DEF Remembered
    <3>2. QED
      BY <1>1, <3>1, KnownStays
  <2>2. ASSUME NEW r \in Request, x = r, ConcludeBracket(r)
        PROVE  Known(w, pl)'
    <3>  DEFINE f == plan[r].field
                A == TournamentAwards(f, matches, draw, w)
    <3>1. /\ w = IF matches = NoMatches THEN call[r].entrant ELSE Champion(matches)
          /\ plan'[x].awards = A
      <4>1. PICK v : /\ v = IF matches = NoMatches THEN call[r].entrant ELSE Champion(matches)
                     /\ Plan(r, [NoPlan EXCEPT !.winner = v,
                                   !.awards = TournamentAwards(f, matches, draw, v)], "status")
        BY <2>2 DEF ConcludeBracket, HasBracket
      <4>2. plan'[x] = [NoPlan EXCEPT !.winner = v,
                          !.awards = TournamentAwards(f, matches, draw, v)]
        BY <2>2, <4>1 DEF Plan, Typed, RequestsTyped, Conclusive
      <4>3. w = v
        BY <1>4, <4>2 DEF NoPlan
      <4>4. plan'[x].awards = TournamentAwards(f, matches, draw, v)
        BY <4>2 DEF NoPlan
      <4>5. QED
        BY <4>1, <4>3, <4>4
    <3>2. a \in A
      BY <1>4, <3>1
    <3>3. DOMAIN matches \subseteq Position /\ draw \in Nat
      BY DEF Conclusive, Typed, RowsTyped
    <3>  HIDE DEF f
    <3>4. PICK y \in DOMAIN f, kind \in Kind, source \in Source :
            /\ a = [player |-> f[y], kind |-> kind, source |-> source]
            /\ kind = "champion" => y = IF matches = NoMatches THEN w ELSE Champion(matches)
      <4>1. PICK y \in DOMAIN f, kind \in Kind, source \in Source :
              IsAwardOf(a, f, matches, w, y, kind, source)
        BY <3>2, <3>3, AwardCases
      <4>2. QED
        BY <4>1 DEF IsAwardOf
    <3>5. y = w /\ pl = f[y]
      BY <1>4, <3>1, <3>4
    <3>6. Known(w, pl)
      BY <1>2, <2>2, <3>5 DEF Remembered, ConcludeBracket, f
    <3>7. QED
      BY <1>1, <3>6, KnownStays
  <2>3. CASE plan'[x].awards = {}
    BY <1>4, <2>3
  <2>4. QED
    BY <2>1, <2>2, <2>3, PlanSources DEF Conclusive, Next, Delete, PlayerDeleted, Tick,
                                         vars, request
<1>5. QED
  BY <1>3, <1>4 DEF Remembered, Known

LEMMA ChampionStep == Conclusive /\ [Next]_vars => ChampionIsWinner'
<1>  SUFFICES ASSUME Conclusive, [Next]_vars
              PROVE  ChampionIsWinner'
  OBVIOUS
<1>  Typed
  BY DEF Conclusive
<1>1. UNCHANGED <<ledger, winner, entrants>> => ChampionIsWinner'
  BY DEF Conclusive, ChampionIsWinner
<1>2. ledger' = {} => ChampionIsWinner'
  BY DEF ChampionIsWinner
<1>3. ASSUME NEW r \in Request, RequestNext(r)
      PROVE  ChampionIsWinner'
  <2>1. CASE status = "concluded"
    BY <1>1, <1>3, <2>1, FinalStep
  <2>2. CASE status # "concluded"
    <3>1. ledger = {}
      BY <2>2 DEF Typed, PaidOnlyWhenConcluded
    <3>2. CASE SetStatus(r) /\ MoveCommits(r)
      <4>1. /\ ledger' = plan[r].awards /\ winner' = plan[r].winner /\ entrants' = entrants
            /\ plan[r].winner \in DOMAIN entrants \cup {NoEntrant}
            /\ \A a \in plan[r].awards : a.player \in players
        BY <3>1, <3>2 DEF SetStatus, MoveCommits
      <4>2. ASSUME NEW a \in ledger', a.kind = "champion"
            PROVE  winner' \in DOMAIN entrants' /\ entrants'[winner'].player = a.player
        <5>1. Known(plan[r].winner, a.player)
          BY <4>1, <4>2 DEF Conclusive, Remembered
        <5>2. plan[r].winner # NoEntrant
          BY <5>1, EntrantIdAssumption, BoundsAssumption DEF Known, Typed, RowsTyped
        <5>3. QED
          BY <4>1, <4>2, <5>1, <5>2 DEF Known
      <4>3. QED
        BY <4>2 DEF ChampionIsWinner
    <3>3. CASE SetStatus(r) /\ ~MoveCommits(r)
      BY <3>1, <3>3, <1>2 DEF SetStatus
    <3>4. CASE ~SetStatus(r)
      <4>1. ledger' = ledger
        BY <1>3, <3>4
           DEF RequestNext, UpdateLoad, UpdateWrite, Arrive, RegistrationLoad, AddLoad,
               AddPlayerExists, EnrolInsert, EnrolAlready, SetSkill, RemoveEntrantOf,
               RemoveLoad, RemoveEntrant, StatusLoad, ConcludeLoad, ConcludeEntrants,
               ConcludeBracket, DrawLoad, DrawEditable, DrawOrder, ReplaceBracket,
               DeleteBracketLoad, DeleteBracket, ResultLoad, ResultBoard, UpdateMatches,
               Abandon, rows
      <4>2. QED
        BY <3>1, <4>1, <1>2
    <3>5. QED
      BY <3>2, <3>3, <3>4
  <2>3. QED
    BY <2>1, <2>2
<1>4. CASE Delete
  BY <1>2, <1>4 DEF Delete
<1>5. ASSUME NEW pl \in players, PlayerDeleted(pl)
      PROVE  ChampionIsWinner'
  BY <1>5 DEF PlayerDeleted, Conclusive, ChampionIsWinner
<1>6. CASE Tick \/ UNCHANGED vars
  BY <1>1, <1>6 DEF Tick, vars, rows
<1>7. QED
  BY <1>3, <1>4, <1>5, <1>6 DEF Next

\* The champion's cycles go to the account shown as the winner, whatever leaves
\* and whoever deletes an account between the reads of a conclusion and its write
\* (conclusion, set_status, insert_awards and the foreign keys they rely on).
THEOREM ChampionIsTheWinner == Spec => []ChampionIsWinner
<1>1. Init => Conclusive
  <2>  SUFFICES ASSUME Init
                PROVE  Conclusive
    OBVIOUS
  <2>1. Typed
    BY TypedInit
  <2>2. DOMAIN entrants = {} /\ ledger = {}
    BY DEF Init
  <2>3. \A r \in Request : plan[r].awards = {} /\ step[r] = "idle"
    BY DEF Init, NoPlan
  <2>4. QED
    BY <2>1, <2>2, <2>3 DEF Conclusive, Remembered, ChampionIsWinner
<1>2. Conclusive /\ [Next]_vars => Conclusive'
  BY TypedStep, Persist, RememberedStep, ChampionStep DEF Conclusive, EntriesPersist
<1>3. Conclusive => ChampionIsWinner
  BY DEF Conclusive
<1>4. QED
  BY <1>1, <1>2, <1>3, PTL DEF Spec

--------------------------------------------------------------------------------
(* The field: its size, and one entry per account.                         *)

OneEntryEach ==
  \A e, f \in DOMAIN entrants :
    e # f /\ entrants[e].player # NoPlayer => entrants[e].player # entrants[f].player

Field == Typed /\ FieldWithinBounds

LEMMA EntrantsAreFinite == Typed => IsFiniteSet(DOMAIN entrants)
<1>1. IsFiniteSet(EntrantId)
  BY BoundsAssumption, FS_Interval DEF EntrantId
<1>2. QED
  BY <1>1, FS_Subset DEF Typed, RowsTyped

\* No entry comes, and what is left of the field keeps its players.
LEMMA FieldShrinks ==
  ASSUME Field, DOMAIN entrants' \subseteq DOMAIN entrants,
         \A e \in DOMAIN entrants' :
           \/ entrants'[e].player = entrants[e].player
           \/ entrants'[e].player = NoPlayer
  PROVE  FieldWithinBounds'
<1>1. Cardinality(DOMAIN entrants') <= MaxEntrants
  <2>1. IsFiniteSet(DOMAIN entrants) /\ DOMAIN entrants' \in SUBSET DOMAIN entrants
    BY EntrantsAreFinite DEF Field
  <2>2. /\ Cardinality(DOMAIN entrants') <= Cardinality(DOMAIN entrants)
        /\ Cardinality(DOMAIN entrants') \in Nat /\ Cardinality(DOMAIN entrants) \in Nat
    BY <2>1, FS_Subset, FS_CardinalityType
  <2>3. QED
    BY <2>2, MaxEntrantsAssumption DEF Field, FieldWithinBounds
<1>2. OneEntryEach'
  BY DEF Field, FieldWithinBounds, OneEntryEach
<1>3. QED
  BY <1>1, <1>2 DEF FieldWithinBounds, OneEntryEach

\* The INSERT takes the last free place and no other, and refuses a second entry
\* of an account, whatever was read before it.
LEMMA EnrolKeepsTheField ==
  ASSUME Field, NEW r \in Request, EnrolInsert(r)
  PROVE  FieldWithinBounds'
<1>1. /\ EntriesOf(call[r].player) = {} /\ call[r].player \in players
      /\ Cardinality(DOMAIN entrants) < MaxEntrants
      /\ DOMAIN entrants' = DOMAIN entrants \cup {entered + 1}
      /\ \A e \in DOMAIN entrants : entrants'[e] = entrants[e]
      /\ entered + 1 \notin DOMAIN entrants => entrants'[entered + 1].player = call[r].player
  BY DEF EnrolInsert, Inserts
<1>2. Cardinality(DOMAIN entrants') <= MaxEntrants
  <2>1. IsFiniteSet(DOMAIN entrants) /\ Cardinality(DOMAIN entrants) \in Nat
    BY EntrantsAreFinite, FS_CardinalityType DEF Field
  <2>2. Cardinality(DOMAIN entrants') <= Cardinality(DOMAIN entrants) + 1
        /\ Cardinality(DOMAIN entrants') \in Nat
    <3>1. Cardinality(DOMAIN entrants') \in {Cardinality(DOMAIN entrants), Cardinality(DOMAIN entrants) + 1}
      BY <1>1, <2>1, FS_AddElement
    <3>2. QED
      BY <2>1, <3>1
  <2>3. QED
    BY <1>1, <2>1, <2>2, MaxEntrantsAssumption
<1>3. \A e \in DOMAIN entrants : entrants[e].player # call[r].player
  BY <1>1 DEF EntriesOf
<1>4. call[r].player # NoPlayer
  BY <1>1, PlayerAssumption DEF Field, Typed, RowsTyped
<1>5. ASSUME NEW e \in DOMAIN entrants', NEW f \in DOMAIN entrants', e # f,
             entrants'[e].player # NoPlayer
      PROVE  entrants'[e].player # entrants'[f].player
  <2>1. CASE e \in DOMAIN entrants /\ f \in DOMAIN entrants
    BY <1>1, <1>5, <2>1 DEF Field, FieldWithinBounds
  <2>2. CASE e \notin DOMAIN entrants
    BY <1>1, <1>3, <1>5, <2>2
  <2>3. CASE f \notin DOMAIN entrants
    BY <1>1, <1>3, <1>5, <2>3
  <2>4. QED
    BY <2>1, <2>2, <2>3
<1>6. QED
  BY <1>2, <1>5 DEF FieldWithinBounds

LEMMA FieldStep == Field /\ [Next]_vars => FieldWithinBounds'
<1>  SUFFICES ASSUME Field, [Next]_vars
              PROVE  FieldWithinBounds'
  OBVIOUS
<1>  Typed
  BY DEF Field
<1>1. UNCHANGED entrants => FieldWithinBounds'
  BY FieldShrinks
<1>2. ASSUME NEW order, Reseed(order)
      PROVE  FieldWithinBounds'
  <2>1. /\ DOMAIN entrants' = DOMAIN entrants
        /\ \A e \in DOMAIN entrants : entrants'[e].player = entrants[e].player
    BY <1>2 DEF Reseed, Typed, RowsTyped, EntrantRow
  <2>2. QED
    BY <2>1, FieldShrinks
<1>3. ASSUME NEW r \in Request, RequestNext(r)
      PROVE  FieldWithinBounds'
  <2>1. CASE EnrolInsert(r)
    BY <2>1, EnrolKeepsTheField
  <2>2. CASE SetSkill(r)
    <3>1. /\ DOMAIN entrants' = DOMAIN entrants
          /\ \A e \in DOMAIN entrants : entrants'[e].player = entrants[e].player
      BY <2>2 DEF SetSkill, Typed, RowsTyped, EntrantRow
    <3>2. QED
      BY <3>1, FieldShrinks
  <2>3. CASE RemoveEntrantOf(r) \/ RemoveEntrant(r)
    <3>1. /\ DOMAIN entrants' \subseteq DOMAIN entrants
          /\ \A e \in DOMAIN entrants' : entrants'[e].player = entrants[e].player
      BY <2>3 DEF RemoveEntrantOf, RemoveEntrant, RemoveRows
    <3>2. QED
      BY <3>1, FieldShrinks
  <2>4. CASE ReplaceBracket(r) \/ DeleteBracket(r)
    BY <1>1, <1>2, <2>4 DEF ReplaceBracket, DeleteBracket
  <2>5. CASE UpdateWrite(r) \/ SetStatus(r) \/ UpdateMatches(r)
    BY <1>1, <2>5 DEF UpdateWrite, SetStatus, UpdateMatches
  <2>6. CASE UNCHANGED <<rows, players, now>>
    BY <1>1, <2>6 DEF rows
  <2>7. QED
    BY <1>3, <2>1, <2>2, <2>3, <2>4, <2>5, <2>6
       DEF RequestNext, UpdateLoad, Arrive, RegistrationLoad, AddLoad, AddPlayerExists,
           EnrolAlready, RemoveLoad, StatusLoad, ConcludeLoad, ConcludeEntrants,
           ConcludeBracket, DrawLoad, DrawEditable, DrawOrder, DeleteBracketLoad,
           ResultLoad, ResultBoard, Abandon
<1>4. CASE Delete
  <2>1. DOMAIN entrants' = {}
    BY <1>4 DEF Delete
  <2>2. QED
    BY <2>1, FieldShrinks
<1>5. ASSUME NEW pl \in players, PlayerDeleted(pl)
      PROVE  FieldWithinBounds'
  <2>1. /\ DOMAIN entrants' = DOMAIN entrants
        /\ \A e \in DOMAIN entrants :
             entrants'[e].player = entrants[e].player \/ entrants'[e].player = NoPlayer
    BY <1>5 DEF PlayerDeleted, Typed, RowsTyped, EntrantRow
  <2>2. QED
    BY <2>1, FieldShrinks
<1>6. CASE Tick \/ UNCHANGED vars
  BY <1>1, <1>6 DEF Tick, vars, rows
<1>7. QED
  BY <1>3, <1>4, <1>5, <1>6 DEF Next

\* No interleaving of registrations, admin entries, withdrawals and deletions of
\* accounts makes the field larger than MAX_ENTRANTS or seats an account twice
\* (add_entrant: the count, the unique index and the guard are in one INSERT).
THEOREM FieldStaysWithinBounds == Spec => []FieldWithinBounds
<1>1. Init => FieldWithinBounds
  <2>1. Init => DOMAIN entrants = {}
    BY DEF Init
  <2>2. QED
    BY <2>1, FS_EmptySet, MaxEntrantsAssumption DEF FieldWithinBounds
<1>2. QED
  BY <1>1, FieldStep, TypedInvariant, PTL DEF Spec, Field

--------------------------------------------------------------------------------
(* The requests that race on a bracket do what BracketPlay does in one     *)
(* piece.  Between the read and the write of a result, the rows the write  *)
(* is about either stand as they were read or the write is refused; and a  *)
(* seed is on an entrant row only while the bracket stands it belongs to.  *)

NoLooseSeeds == ~HasBracket => \A e \in DOMAIN entrants : entrants[e].seed = NoSeed

\* What the plan of a result says about the matches p and the one after p: it is
\* the result of a report or of a clear on the rows as they were read.  A clear of
\* what was not decided plans nothing.
ResultOf(p, before, after) ==
  \/ \E w \in {before[p].a, before[p].b} :
       CanReport(before, p, w) /\ after = Reported(before, p, w)
  \/ CanClear(before, p) /\ after = Cleared(before, p)

ResultFits(r) ==
  step[r] = "results" /\ plan[r] # NoPlan =>
    /\ plan[r].draw \in 0..draw
    /\ DOMAIN plan[r].before # {}
    /\ plan[r].draw = draw /\ HasBracket =>
         \E p \in DOMAIN matches :
           /\ DOMAIN plan[r].before = Changed(matches, p)
           /\ ResultOf(p, plan[r].before, plan[r].after)

Drawn == Typed /\ NoLooseSeeds /\ \A r \in Request : ResultFits(r)

\* The match p of the bracket B is decided, and w goes to the side it feeds.
Decided(B, p, w, e) == Feed([B EXCEPT ![p].winner = w], p, e)

LEMMA ResultsDecide ==
  ASSUME NEW B, NEW p, NEW w
  PROVE  Reported(B, p, w) = Decided(B, p, w, w) /\ Cleared(B, p) = Decided(B, p, NoEntrant, NoEntrant)
BY DEF Reported, Cleared, Decided

\* The rows b of the bracket B are decided as the bracket is.
DecidedAlike(B, b, p, w, e) ==
  /\ DOMAIN Decided(b, p, w, e) = DOMAIN b
  /\ \A q \in DOMAIN b : Decided(b, p, w, e)[q] = Decided(B, p, w, e)[q]
  /\ \A q \in DOMAIN B \ DOMAIN b : Decided(B, p, w, e)[q] = B[q]

\* A result looks at its match and at the next one and nowhere else, so it is the
\* same on those two rows as on the whole bracket.
LEMMA ResultIsLocal ==
  ASSUME NEW B, NEW p \in DOMAIN B, NEW b, DOMAIN b = Changed(B, p),
         \A q \in DOMAIN b : b[q] = B[q]
  PROVE  /\ p \in DOMAIN b
         /\ \A w : CanReport(b, p, w) <=> CanReport(B, p, w)
         /\ CanClear(b, p) <=> CanClear(B, p)
         /\ \A w, e : DecidedAlike(B, b, p, w, e)
<1>1. /\ p \in DOMAIN b /\ DOMAIN b \subseteq DOMAIN B
      /\ NextMatch(p) \in DOMAIN b <=> NextMatch(p) \in DOMAIN B
  BY DEF Changed
<1>2. NextUndecided(b, p) <=> NextUndecided(B, p)
  BY <1>1 DEF NextUndecided
<1>3. \A w : CanReport(b, p, w) <=> CanReport(B, p, w)
  BY <1>1, <1>2 DEF CanReport
<1>4. CanClear(b, p) <=> CanClear(B, p)
  BY <1>1, <1>2 DEF CanClear
<1>5. ASSUME NEW w, NEW e
      PROVE  DecidedAlike(B, b, p, w, e)
  <2>  DEFINE c == [b EXCEPT ![p].winner = w]
              C == [B EXCEPT ![p].winner = w]
  <2>1. /\ DOMAIN c = DOMAIN b /\ DOMAIN C = DOMAIN B
        /\ \A q \in DOMAIN b : c[q] = C[q]
        /\ \A q \in DOMAIN B \ {p} : C[q] = B[q]
    BY <1>1
  <2>2. Decided(b, p, w, e) = Feed(c, p, e) /\ Decided(B, p, w, e) = Feed(C, p, e)
    BY DEF Decided
  <2>  HIDE DEF c, C
  <2>3. /\ DOMAIN Feed(c, p, e) = DOMAIN b
        /\ \A q \in DOMAIN b : Feed(c, p, e)[q] = Feed(C, p, e)[q]
    BY <1>1, <2>1 DEF Feed
  <2>4. \A q \in DOMAIN B \ DOMAIN b : Feed(C, p, e)[q] = B[q]
    <3>1. \A q \in DOMAIN B \ DOMAIN b : q # p /\ q # NextMatch(p)
      BY <1>1
    <3>2. QED
      BY <2>1, <3>1 DEF Feed
  <2>5. QED
    BY <2>2, <2>3, <2>4 DEF DecidedAlike
<1>6. QED
  BY <1>1, <1>3, <1>4, <1>5

\* What a request plans is a result on the two rows it read.
LEMMA ReadRowsFit ==
  ASSUME NEW p \in DOMAIN matches, NEW B, DOMAIN B = DOMAIN matches,
         \/ \E w \in {matches[p].a, matches[p].b} :
              CanReport(matches, p, w) /\ B = Reported(matches, p, w)
         \/ CanClear(matches, p) /\ B = Cleared(matches, p)
  PROVE  LET pl == ResultPlan(B, p)
         IN  /\ pl.draw = draw
             /\ DOMAIN pl.before = Changed(matches, p)
             /\ p \in DOMAIN pl.before
             /\ ResultOf(p, pl.before, pl.after)
<1>  DEFINE pl == ResultPlan(B, p)
            b == [q \in Changed(B, p) |-> matches[q]]
            after == [q \in Changed(B, p) |-> B[q]]
<1>1. pl.draw = draw /\ pl.before = b /\ pl.after = after
  BY DEF ResultPlan, NoPlan
<1>2. Changed(B, p) = Changed(matches, p)
  BY DEF Changed
<1>3. DOMAIN b = Changed(matches, p) /\ \A q \in DOMAIN b : b[q] = matches[q]
  BY <1>2
<1>4. DOMAIN after = DOMAIN b /\ \A q \in DOMAIN b : after[q] = B[q]
  BY <1>2
<1>5. after = [q \in DOMAIN after |-> after[q]]
  OBVIOUS
<1>  HIDE DEF pl, b, after
<1>6. /\ p \in DOMAIN b
      /\ \A w : CanReport(b, p, w) <=> CanReport(matches, p, w)
      /\ CanClear(b, p) <=> CanClear(matches, p)
      /\ \A w, e : DecidedAlike(matches, b, p, w, e)
  BY <1>3, ResultIsLocal
<1>7. ASSUME NEW w, NEW e, B = Decided(matches, p, w, e)
      PROVE  after = Decided(b, p, w, e)
  <2>1. /\ DOMAIN Decided(b, p, w, e) = DOMAIN b
        /\ \A q \in DOMAIN b : Decided(b, p, w, e)[q] = B[q]
    BY <1>6, <1>7 DEF DecidedAlike
  <2>2. Decided(b, p, w, e) = [q \in DOMAIN Decided(b, p, w, e) |-> Decided(b, p, w, e)[q]]
    BY DEF Decided, Feed
  <2>  HIDE DEF Decided
  <2>3. QED
    BY <1>4, <1>5, <2>1, <2>2
<1>8. ASSUME NEW w \in {matches[p].a, matches[p].b},
             CanReport(matches, p, w), B = Reported(matches, p, w)
      PROVE  ResultOf(p, b, after)
  <2>1. after = Reported(b, p, w)
    BY <1>7, <1>8, ResultsDecide
  <2>2. w \in {b[p].a, b[p].b} /\ CanReport(b, p, w)
    BY <1>3, <1>6, <1>8
  <2>3. QED
    BY <2>1, <2>2 DEF ResultOf
<1>9. ASSUME CanClear(matches, p), B = Cleared(matches, p)
      PROVE  ResultOf(p, b, after)
  <2>1. after = Cleared(b, p)
    BY <1>7, <1>9, ResultsDecide
  <2>2. QED
    BY <1>6, <1>9, <2>1 DEF ResultOf
<1>10. ResultOf(p, b, after)
  BY <1>8, <1>9
<1>11. QED
  BY <1>1, <1>3, <1>6, <1>10 DEF pl

\* There is a bracket when there are matches, and a draw is one.
LEMMA BracketHasMatches ==
  ASSUME Typed
  PROVE  HasBracket <=> DOMAIN matches # {}
<1>1. matches = [p \in DOMAIN matches |-> matches[p]]
  BY DEF Typed, RowsTyped
<1>2. QED
  BY <1>1 DEF HasBracket, NoMatches

LEMMA DrawIsABracket ==
  ASSUME NEW E, NEW order, OrderOf(order, E)
  PROVE  Generate(order) # NoMatches
<1>1. PICK k \in 1..8 : DOMAIN Generate(order) = Positions(k)
  BY GenerateType
<1>2. FinalOf(Generate(order)) \in DOMAIN Generate(order)
  BY <1>1, FinalExists
<1>3. QED
  BY <1>2 DEF NoMatches

\* A write of the entrants leaves the matches, and gives nobody a seed.
LEMMA NoSeedGiven ==
  ASSUME NoLooseSeeds, matches' = matches,
         \A e \in DOMAIN entrants' :
           \/ e \in DOMAIN entrants /\ entrants'[e].seed = entrants[e].seed
           \/ entrants'[e].seed = NoSeed
  PROVE  NoLooseSeeds'
BY DEF NoLooseSeeds, HasBracket

LEMMA LooseSeedsStep == Drawn /\ [Next]_vars => NoLooseSeeds'
<1>  SUFFICES ASSUME Drawn, [Next]_vars
              PROVE  NoLooseSeeds'
  OBVIOUS
<1>  Typed /\ NoLooseSeeds
  BY DEF Drawn
<1>1. UNCHANGED <<entrants, matches>> => NoLooseSeeds'
  BY NoSeedGiven
<1>2. ASSUME NEW r \in Request, RequestNext(r)
      PROVE  NoLooseSeeds'
  <2>1. CASE EnrolInsert(r)
    <3>1. /\ matches' = matches /\ DOMAIN entrants' = DOMAIN entrants \cup {entered + 1}
          /\ \A e \in DOMAIN entrants : entrants'[e] = entrants[e]
          /\ entered + 1 \notin DOMAIN entrants => entrants'[entered + 1].seed = NoSeed
      BY <2>1 DEF EnrolInsert
    <3>2. QED
      BY <3>1, NoSeedGiven
  <2>2. CASE SetSkill(r)
    <3>1. /\ matches' = matches /\ DOMAIN entrants' = DOMAIN entrants
          /\ \A e \in DOMAIN entrants : entrants'[e].seed = entrants[e].seed
      BY <2>2 DEF SetSkill, Typed, RowsTyped, EntrantRow
    <3>2. QED
      BY <3>1, NoSeedGiven
  <2>3. CASE RemoveEntrantOf(r) \/ RemoveEntrant(r)
    <3>1. /\ matches' = matches /\ DOMAIN entrants' \subseteq DOMAIN entrants
          /\ \A e \in DOMAIN entrants' : entrants'[e].seed = entrants[e].seed
      BY <2>3 DEF RemoveEntrantOf, RemoveEntrant, RemoveRows
    <3>2. QED
      BY <3>1, NoSeedGiven
  <2>4. CASE ReplaceBracket(r)
    <3>1. OrderOf(plan[r].order, EntrantId)
      BY <2>4 DEF ReplaceBracket, Typed, RequestsTyped, Fits
    <3>2. matches' = Generate(plan[r].order) => HasBracket'
      BY <3>1, DrawIsABracket DEF HasBracket
    <3>3. QED
      BY <1>1, <2>4, <3>2 DEF ReplaceBracket, NoLooseSeeds
  <2>5. CASE DeleteBracket(r)
    <3>1. \A e : SeedOf(<<>>, e) = NoSeed
      BY DEF SeedOf
    <3>2. ASSUME Reseed(<<>>)
          PROVE  NoLooseSeeds'
      <4>1. \A e \in DOMAIN entrants' : entrants'[e].seed = NoSeed
        BY <3>1, <3>2 DEF Reseed, Typed, RowsTyped, EntrantRow
      <4>2. QED
        BY <4>1 DEF NoLooseSeeds
    <3>3. QED
      BY <1>1, <2>5, <3>2 DEF DeleteBracket
  <2>6. CASE UpdateMatches(r)
    <3>1. DOMAIN matches' = DOMAIN matches /\ entrants' = entrants
      BY <2>6 DEF UpdateMatches
    <3>2. HasBracket => HasBracket'
      BY <3>1, BracketHasMatches DEF HasBracket, NoMatches
    <3>3. QED
      BY <3>1, <3>2 DEF NoLooseSeeds
  <2>7. CASE UpdateWrite(r) \/ SetStatus(r)
    BY <1>1, <2>7 DEF UpdateWrite, SetStatus
  <2>8. CASE UNCHANGED <<rows, players, now>>
    BY <1>1, <2>8 DEF rows
  <2>9. QED
    BY <1>2, <2>1, <2>2, <2>3, <2>4, <2>5, <2>6, <2>7, <2>8
       DEF RequestNext, UpdateLoad, Arrive, RegistrationLoad, AddLoad, AddPlayerExists,
           EnrolAlready, RemoveLoad, StatusLoad, ConcludeLoad, ConcludeEntrants,
           ConcludeBracket, DrawLoad, DrawEditable, DrawOrder, DeleteBracketLoad,
           ResultLoad, ResultBoard, Abandon
<1>3. CASE Delete
  BY <1>3 DEF Delete, NoLooseSeeds
<1>4. ASSUME NEW pl \in players, PlayerDeleted(pl)
      PROVE  NoLooseSeeds'
  <2>1. /\ matches' = matches /\ DOMAIN entrants' = DOMAIN entrants
        /\ \A e \in DOMAIN entrants : entrants'[e].seed = entrants[e].seed
    BY <1>4 DEF PlayerDeleted, Typed, RowsTyped, EntrantRow
  <2>2. QED
    BY <2>1, NoSeedGiven
<1>5. CASE Tick \/ UNCHANGED vars
  BY <1>1, <1>5 DEF Tick, vars, rows
<1>6. QED
  BY <1>2, <1>3, <1>4, <1>5 DEF Next

\* How a step moves the board a planned result is about: it keeps its positions,
\* it goes away, or another draw takes its place.
BoardMoves ==
  \/ draw' = draw /\ DOMAIN matches' = DOMAIN matches
  \/ draw' = draw /\ ~HasBracket'
  \/ draw' = draw + 1

\* A plan that nobody touches stays about the draw it was read from.
LEMMA PlanStays ==
  ASSUME Typed, Typed', NEW x \in Request, ResultFits(x), BoardMoves,
         step'[x] = step[x], plan'[x] = plan[x]
  PROVE  ResultFits(x)'
<1>  SUFFICES ASSUME step'[x] = "results", plan'[x] # NoPlan
              PROVE  /\ plan'[x].draw \in 0..draw'
                     /\ DOMAIN plan'[x].before # {}
                     /\ plan'[x].draw = draw' /\ HasBracket' =>
                          \E p \in DOMAIN matches' :
                            /\ DOMAIN plan'[x].before = Changed(matches', p)
                            /\ ResultOf(p, plan'[x].before, plan'[x].after)
  BY DEF ResultFits
<1>1. /\ plan[x].draw \in 0..draw /\ DOMAIN plan[x].before # {}
      /\ plan[x].draw = draw /\ HasBracket =>
           \E p \in DOMAIN matches :
             /\ DOMAIN plan[x].before = Changed(matches, p)
             /\ ResultOf(p, plan[x].before, plan[x].after)
  BY DEF ResultFits
<1>2. draw \in Nat /\ draw' \in {draw, draw + 1}
  BY DEF BoardMoves, Typed, RowsTyped
<1>3. CASE draw' = draw + 1
  BY <1>1, <1>2, <1>3
<1>4. CASE draw' = draw /\ ~HasBracket'
  BY <1>1, <1>4
<1>5. CASE draw' = draw /\ DOMAIN matches' = DOMAIN matches
  <2>1. HasBracket' => HasBracket
    <3>1. HasBracket' => DOMAIN matches' # {}
      <4>1. matches' = [q \in DOMAIN matches' |-> matches'[q]]
        BY DEF Typed, RowsTyped
      <4>2. QED
        BY <4>1 DEF HasBracket, NoMatches
    <3>2. QED
      BY <1>5, <3>1, BracketHasMatches
  <2>2. \A p : Changed(matches', p) = Changed(matches, p)
    BY <1>5 DEF Changed
  <2>3. QED
    BY <1>1, <1>5, <2>1, <2>2
<1>6. QED
  BY <1>3, <1>4, <1>5 DEF BoardMoves

\* A request touches its own plan, and only the read of the board makes one that
\* is about a result.
LEMMA OwnPlanOnly ==
  ASSUME Typed, NEW r \in Request, RequestNext(r)
  PROVE  /\ \A x \in Request \ {r} : step'[x] = step[x] /\ plan'[x] = plan[x]
         /\ ~ResultBoard(r) => step'[r] # "results"
<1>  DEFINE Own(s) == /\ step' = [step EXCEPT ![r] = s]
                      /\ \A x \in Request \ {r} : plan'[x] = plan[x]
<1>1. step \in [Request -> Step] /\ DOMAIN plan = Request
  BY DEF Typed, RequestsTyped
<1>2. ASSUME NEW s, Own(s)
      PROVE  /\ \A x \in Request \ {r} : step'[x] = step[x] /\ plan'[x] = plan[x]
             /\ step'[r] = s
  BY <1>1, <1>2
<1>3. \A c, g, s : Begin(r, c, g, s) => Own(s)
  BY DEF Begin
<1>4. \A s : Goto(r, s) => Own(s)
  BY DEF Goto
<1>5. \A p, s : Plan(r, p, s) => Own(s)
  BY <1>1 DEF Plan
<1>6. Finish(r) => Own("idle")
  BY <1>1 DEF Finish
<1>7. /\ \A c, g, s : Begin(r, c, g, s) => Own(s)
      /\ \A s : Goto(r, s) => Own(s)
      /\ \A p, s : Plan(r, p, s) => Own(s)
      /\ Finish(r) => Own("idle")
  BY <1>3, <1>4, <1>5, <1>6, Zenon
<1>  HIDE DEF Own
<1>8. CASE ResultBoard(r)
  <2>1. Own("results")
    BY <1>7, <1>8 DEF ResultBoard
  <2>2. QED
    BY <1>2, <1>8, <2>1
<1>9. CASE ~ResultBoard(r)
  <2>1. \E s \in Step \ {"results"} : Own(s)
    <3>1. CASE \/ UpdateLoad(r) \/ Arrive(r) \/ RegistrationLoad(r) \/ AddLoad(r)
               \/ AddPlayerExists(r) \/ EnrolAlready(r) \/ RemoveLoad(r)
      BY <1>7, <3>1
         DEF UpdateLoad, Arrive, RegistrationLoad, AddLoad, AddPlayerExists, EnrolAlready,
             RemoveLoad, Step
    <3>2. CASE \/ StatusLoad(r) \/ ConcludeLoad(r) \/ ConcludeEntrants(r)
               \/ ConcludeBracket(r)
      BY <1>7, <3>2
         DEF StatusLoad, ConcludeLoad, ConcludeEntrants, ConcludeBracket, Step
    <3>3. CASE \/ DrawLoad(r) \/ DrawEditable(r) \/ DrawOrder(r)
               \/ DeleteBracketLoad(r) \/ ResultLoad(r)
      BY <1>7, <3>3
         DEF DrawLoad, DrawEditable, DrawOrder, DeleteBracketLoad, ResultLoad, Step
    <3>4. CASE \/ UpdateWrite(r) \/ EnrolInsert(r) \/ SetSkill(r) \/ RemoveEntrantOf(r)
               \/ RemoveEntrant(r) \/ SetStatus(r) \/ ReplaceBracket(r)
               \/ DeleteBracket(r) \/ UpdateMatches(r) \/ Abandon(r)
      BY <1>7, <3>4
         DEF UpdateWrite, EnrolInsert, SetSkill, RemoveEntrantOf, RemoveEntrant,
             SetStatus, ReplaceBracket, DeleteBracket, UpdateMatches, Abandon, Step
    <3>5. QED
      BY <1>9, <3>1, <3>2, <3>3, <3>4 DEF RequestNext
  <2>2. QED
    BY <1>2, <1>9, <2>1
<1>10. QED
  BY <1>8, <1>9

\* The read of the board plans a result of a match that stands there.
LEMMA BoardIsRead ==
  ASSUME Typed, NEW r \in Request, ResultBoard(r)
  PROVE  ResultFits(r)'
<1>1. UNCHANGED <<rows, players, now>> /\ DOMAIN plan = Request /\ draw \in Nat
  BY DEF ResultBoard, Typed, RowsTyped, RequestsTyped
<1>2. matches' = matches /\ draw' = draw
  BY <1>1 DEF rows
<1>  SUFFICES ASSUME ~Plan(r, NoPlan, "results")
              PROVE  ResultFits(r)'
  BY <1>1 DEF ResultFits, Plan
<1>3. PICK p, B :
        /\ p \in DOMAIN matches
        /\ \/ \E w \in {matches[p].a, matches[p].b} :
                CanReport(matches, p, w) /\ B = Reported(matches, p, w)
           \/ CanClear(matches, p) /\ B = Cleared(matches, p)
        /\ Plan(r, ResultPlan(B, p), "results")
  BY DEF ResultBoard
<1>4. DOMAIN B = DOMAIN matches
  BY <1>3 DEF Reported, Cleared, Feed
<1>  DEFINE pl == ResultPlan(B, p)
<1>5. /\ pl.draw = draw /\ DOMAIN pl.before = Changed(matches, p)
      /\ p \in DOMAIN pl.before /\ ResultOf(p, pl.before, pl.after)
  BY <1>3, <1>4, ReadRowsFit
<1>6. plan'[r] = pl
  BY <1>1, <1>3 DEF Plan
<1>  HIDE DEF pl
<1>7. QED
  BY <1>1, <1>2, <1>3, <1>5, <1>6 DEF ResultFits

LEMMA BoardStep ==
  ASSUME Typed, Typed', [Next]_vars
  PROVE  BoardMoves
<1>1. UNCHANGED <<draw, matches>> => BoardMoves
  BY DEF BoardMoves
<1>2. ASSUME NEW r \in Request, RequestNext(r)
      PROVE  BoardMoves
  <2>1. CASE ReplaceBracket(r)
    BY <1>1, <2>1 DEF ReplaceBracket, BoardMoves
  <2>2. CASE DeleteBracket(r)
    BY <1>1, <2>2 DEF DeleteBracket, BoardMoves, HasBracket
  <2>3. CASE UpdateMatches(r)
    BY <2>3 DEF UpdateMatches, BoardMoves
  <2>4. CASE ~(ReplaceBracket(r) \/ DeleteBracket(r) \/ UpdateMatches(r))
    BY <1>1, <1>2, <2>4
       DEF RequestNext, UpdateLoad, UpdateWrite, Arrive, RegistrationLoad, AddLoad,
           AddPlayerExists, EnrolInsert, EnrolAlready, SetSkill, RemoveEntrantOf,
           RemoveLoad, RemoveEntrant, StatusLoad, ConcludeLoad, ConcludeEntrants,
           ConcludeBracket, SetStatus, DrawLoad, DrawEditable, DrawOrder,
           DeleteBracketLoad, ResultLoad, ResultBoard, Abandon, rows
  <2>5. QED
    BY <2>1, <2>2, <2>3, <2>4
<1>3. CASE Delete
  BY <1>3 DEF Delete, BoardMoves, HasBracket
<1>4. ASSUME NEW pl \in players, PlayerDeleted(pl)
      PROVE  BoardMoves
  BY <1>1, <1>4 DEF PlayerDeleted
<1>5. CASE Tick \/ UNCHANGED vars
  BY <1>1, <1>5 DEF Tick, vars, rows
<1>6. QED
  BY <1>2, <1>3, <1>4, <1>5 DEF Next

LEMMA DrawnStep == Drawn /\ [Next]_vars => Drawn'
<1>  SUFFICES ASSUME Drawn, [Next]_vars
              PROVE  Drawn'
  OBVIOUS
<1>1. Typed /\ Typed' /\ NoLooseSeeds' /\ \A x \in Request : ResultFits(x)
  BY TypedStep, LooseSeedsStep DEF Drawn
<1>2. BoardMoves
  BY <1>1, BoardStep
<1>3. ASSUME NEW x \in Request
      PROVE  ResultFits(x)'
  <2>1. step'[x] = step[x] /\ plan'[x] = plan[x] => ResultFits(x)'
    BY <1>1, <1>2, PlanStays
  <2>2. ASSUME NEW r \in Request, RequestNext(r)
        PROVE  ResultFits(x)'
    <3>1. /\ x # r => step'[x] = step[x] /\ plan'[x] = plan[x]
          /\ ~ResultBoard(r) => step'[r] # "results"
      BY <1>1, <2>2, OwnPlanOnly
    <3>2. CASE x # r
      BY <2>1, <3>1, <3>2
    <3>3. CASE x = r /\ ResultBoard(r)
      BY <1>1, <3>3, BoardIsRead
    <3>4. CASE x = r /\ ~ResultBoard(r)
      BY <3>1, <3>4 DEF ResultFits
    <3>5. QED
      BY <3>2, <3>3, <3>4
  <2>3. CASE UNCHANGED request
    BY <2>1, <2>3 DEF request
  <2>4. QED
    BY <2>2, <2>3 DEF Next, Delete, PlayerDeleted, Tick, vars
<1>4. QED
  BY <1>1, <1>3 DEF Drawn

LEMMA DrawnInvariant == Spec => []Drawn
<1>1. Init => Drawn
  <2>  SUFFICES ASSUME Init
                PROVE  Drawn
    OBVIOUS
  <2>1. Typed
    BY TypedInit
  <2>2. NoLooseSeeds
    BY DEF Init, NoLooseSeeds
  <2>3. \A r \in Request : ResultFits(r)
    BY DEF Init, ResultFits
  <2>4. QED
    BY <2>1, <2>2, <2>3 DEF Drawn
<1>2. QED
  BY <1>1, DrawnStep, PTL DEF Spec
\* The rules of a bracket are the same text in both specifications.
LEMMA SameRules ==
  /\ \A o : Play!Generate(o) = Generate(o)
  /\ \A B : Play!HasResults(B) <=> HasResults(B)
  /\ \A B, p, w : Play!CanReport(B, p, w) <=> CanReport(B, p, w)
  /\ \A B, p, w : Play!Reported(B, p, w) = Reported(B, p, w)
  /\ \A B, p : Play!CanClear(B, p) <=> CanClear(B, p)
  /\ \A B, p : Play!Cleared(B, p) = Cleared(B, p)
  /\ Play!NoMatches = NoMatches
<1>1. \A o : Play!Generate(o) = Generate(o)
  BY DEF Play!Generate, Generate, Play!RoundCount, RoundCount, Play!Pow2, Pow2,
         Play!Positions, Positions, Play!FirstRoundMatch, FirstRoundMatch,
         Play!SecondRoundMatch, SecondRoundMatch, Play!EmptyMatch, EmptyMatch
<1>2. \A B : Play!HasResults(B) <=> HasResults(B)
  BY DEF Play!HasResults, HasResults, Play!IsPlayed, IsPlayed, Play!IsReady, IsReady
<1>3. \A B, p, w : Play!CanReport(B, p, w) <=> CanReport(B, p, w)
  BY DEF Play!CanReport, CanReport, Play!IsReady, IsReady,
         Play!NextUndecided, NextUndecided, Play!NextMatch, NextMatch
<1>4. \A B, p, w : Play!Reported(B, p, w) = Reported(B, p, w)
  BY DEF Play!Reported, Reported, Play!Feed, Feed, Play!NextMatch, NextMatch,
         Play!FeedsSideA, FeedsSideA
<1>5. \A B, p : Play!CanClear(B, p) <=> CanClear(B, p)
  BY DEF Play!CanClear, CanClear, Play!IsPlayed, IsPlayed, Play!IsReady, IsReady,
         Play!NextUndecided, NextUndecided, Play!NextMatch, NextMatch
<1>6. \A B, p : Play!Cleared(B, p) = Cleared(B, p)
  BY DEF Play!Cleared, Cleared, Play!Feed, Feed, Play!NextMatch, NextMatch,
         Play!FeedsSideA, FeedsSideA
<1>7. Play!NoMatches = NoMatches
  BY DEF Play!NoMatches, NoMatches, Play!EmptyMatch, EmptyMatch
<1>8. QED
  BY <1>1, <1>2, <1>3, <1>4, <1>5, <1>6, <1>7

\* The order the rows hold depends on the seeds alone.
LEMMA SameSeeds ==
  ASSUME DOMAIN entrants' = DOMAIN entrants,
         \A e \in DOMAIN entrants : entrants'[e].seed = entrants[e].seed
  PROVE  SeedOrder' = SeedOrder
<1>  DEFINE S == {e \in DOMAIN entrants : entrants[e].seed # NoSeed}
            T == {e \in DOMAIN entrants' : entrants'[e].seed # NoSeed}
            old(i) == CHOOSE e \in S : entrants[e].seed = i
            new(i) == CHOOSE e \in T : entrants'[e].seed = i
<1>1. T = S
  OBVIOUS
<1>2. \A i : new(i) = old(i)
  <2>1. TAKE i
  <2>2. \A e : e \in T /\ entrants'[e].seed = i <=> e \in S /\ entrants[e].seed = i
    BY <1>1
  <2>  HIDE DEF S, T
  <2>3. QED
    BY <2>2, Zenon
<1>3. /\ SeedOrder = [i \in 1..Cardinality(S) |-> old(i)]
      /\ SeedOrder' = [i \in 1..Cardinality(T) |-> new(i)]
  BY DEF SeedOrder
<1>  HIDE DEF S, T, old, new
<1>4. QED
  BY <1>1, <1>2, <1>3

\* Without a bracket the rows hold no order.
LEMMA NoOrder == NoLooseSeeds /\ ~HasBracket => SeedOrder = <<>>
<1>  SUFFICES ASSUME NoLooseSeeds, ~HasBracket
              PROVE  SeedOrder = <<>>
  OBVIOUS
<1>  DEFINE S == {e \in DOMAIN entrants : entrants[e].seed # NoSeed}
<1>1. S = {}
  BY DEF NoLooseSeeds
<1>2. Cardinality(S) = 0
  BY <1>1, FS_EmptySet
<1>3. SeedOrder = [i \in 1..0 |-> CHOOSE e \in S : entrants[e].seed = i]
  BY <1>2 DEF SeedOrder
<1>4. QED
  BY <1>3

LEMMA NoOrderNext == (NoLooseSeeds /\ ~HasBracket => SeedOrder = <<>>)'
BY NoOrder, PTL

\* A rewrite of the seeds stores the order it was given: the i-th entrant of it,
\* and nobody else, gets the seed i.
LEMMA ReseedOrders ==
  ASSUME NEW order, OrderOf(order, EntrantId), Reseed(order),
         \A i \in DOMAIN order : order[i] \in DOMAIN entrants,
         \A e \in DOMAIN entrants : DOMAIN entrants[e] = {"player", "level", "seed"}
  PROVE  SeedOrder' = order
<1>  DEFINE n == Len(order)
            T == {e \in DOMAIN entrants' : entrants'[e].seed # NoSeed}
            new(i) == CHOOSE e \in T : entrants'[e].seed = i
<1>1. /\ n \in Nat /\ DOMAIN order = 1..n
      /\ \A i, j \in 1..n : order[i] = order[j] => i = j
      /\ order = [i \in 1..n |-> order[i]]
  BY DEF OrderOf
<1>2. \A i \in 1..n : SeedOf(order, order[i]) = i
  BY <1>1 DEF SeedOf
<1>3. \A e : SeedOf(order, e) # NoSeed => \E i \in 1..n : e = order[i]
  BY <1>1 DEF SeedOf
<1>4. /\ DOMAIN entrants' = DOMAIN entrants
      /\ \A e \in DOMAIN entrants : entrants'[e].seed = SeedOf(order, e)
  BY DEF Reseed
<1>5. /\ \A i \in 1..n : order[i] \in T /\ entrants'[order[i]].seed = i
      /\ \A e \in T : \E i \in 1..n : e = order[i]
  BY <1>1, <1>2, <1>3, <1>4 DEF NoSeed
<1>6. SeedOrder' = [i \in 1..Cardinality(T) |-> new(i)]
  BY DEF SeedOrder
<1>  HIDE DEF T, n
<1>7. Cardinality(T) = n
  <2>1. IsFiniteSet(1..n) /\ Cardinality(1..n) = n
    BY <1>1, FS_Interval
  <2>2. order \in Bijection(1..n, T)
    BY <1>1, <1>5, Zenon DEF Bijection, Injection, Surjection, IsInjective
  <2>3. ExistsBijection(1..n, T)
    BY <2>2, Zenon DEF ExistsBijection
  <2>4. QED
    BY <2>1, <2>3, FS_Bijection
<1>8. \A i \in 1..n : new(i) = order[i]
  BY <1>5
<1>  HIDE DEF new
<1>9. QED
  BY <1>1, <1>6, <1>7, <1>8


\* The steps that leave the bracket, and the order on the rows, as they were.
PlayStutters == SeedOrder' = SeedOrder /\ matches' = matches

LEMMA RowsStutter == UNCHANGED <<entrants, matches>> => PlayStutters
BY SameSeeds DEF PlayStutters

LEMMA LooseStutter ==
  ASSUME NoLooseSeeds, NoLooseSeeds', ~HasBracket, matches' = matches
  PROVE  PlayStutters
<1>1. SeedOrder = <<>>
  BY NoOrder
<1>2. SeedOrder' = <<>>
  BY NoOrderNext DEF HasBracket
<1>3. QED
  BY <1>1, <1>2 DEF PlayStutters

\* A draw that commits is the draw of the abstract bracket.
LEMMA ReplaceDraws ==
  ASSUME Drawn, NEW r \in Request, ReplaceBracket(r)
  PROVE  Play!Next \/ PlayStutters
<1>  DEFINE order == plan[r].order
<1>1. OrderOf(order, EntrantId) /\ Len(order) <= MaxEntrants
  BY DEF ReplaceBracket, Drawn, Typed, RequestsTyped, Fits
<1>2. \A e \in DOMAIN entrants : DOMAIN entrants[e] = {"player", "level", "seed"}
  BY DEF Drawn, Typed, RowsTyped, EntrantRow
<1>3. CASE UNCHANGED <<entrants, matches>>
  BY <1>3, RowsStutter
<1>4. CASE ReplaceCommits(r) /\ Reseed(order) /\ matches' = Generate(order)
  <2>1. \A i \in DOMAIN order : order[i] \in DOMAIN entrants
    BY <1>4 DEF ReplaceCommits
  <2>2. SeedOrder' = order
    BY <1>1, <1>2, <1>4, <2>1, ReseedOrders
  <2>3. ~Play!HasResults(matches)
    BY <1>4, SameRules DEF ReplaceCommits, Rebuildable
  <2>4. matches' = Play!Generate(order)
    BY <1>4, SameRules
  <2>5. Play!Draw(order)
    BY <2>2, <2>3, <2>4 DEF Play!Draw
  <2>6. order \in {o \in UNION {[1..n -> EntrantId] : n \in 2..MaxEntrants} :
                     \A i, j \in DOMAIN o : o[i] = o[j] => i = j}
    <3>1. order \in [1..Len(order) -> EntrantId] /\ Len(order) \in 2..MaxEntrants
      <4>1. order \in Seq(EntrantId) /\ Len(order) \in 2..256
        BY <1>1 DEF OrderOf
      <4>  HIDE DEF order
      <4>2. order \in [1..Len(order) -> EntrantId]
        BY <4>1
      <4>3. Len(order) \in 2..MaxEntrants
        <5> DEFINE n == Len(order)
        <5>1. n \in 2..256 /\ n <= MaxEntrants
          BY <1>1, <4>1
        <5>  HIDE DEF n
        <5>2. n \in 2..MaxEntrants
          BY <5>1, MaxEntrantsAssumption
        <5>3. QED
          BY <5>2 DEF n
      <4>4. QED
        BY <4>2, <4>3
    <3>2. DOMAIN order = 1..Len(order)
      BY <1>1 DEF OrderOf
    <3>3. \A i, j \in DOMAIN order : order[i] = order[j] => i = j
      BY <1>1, <3>2 DEF OrderOf
    <3>  HIDE DEF order
    <3>4. QED
      BY <3>1, <3>3
  <2>7. QED
    BY <2>5, <2>6 DEF Play!Next
<1>5. QED
  BY <1>3, <1>4 DEF ReplaceBracket

LEMMA DeletionDeletes ==
  ASSUME Drawn, NEW r \in Request, DeleteBracket(r)
  PROVE  Play!Next \/ PlayStutters
<1>1. CASE UNCHANGED <<entrants, matches>>
  BY <1>1, RowsStutter
<1>2. CASE Rebuildable(r) /\ Reseed(<<>>) /\ matches' = NoMatches
  <2>1. NoLooseSeeds' /\ ~HasBracket'
    BY <1>2, DrawnStep DEF HasBracket, Next, RequestNext, Drawn
  <2>2. SeedOrder' = <<>>
    BY <2>1, NoOrderNext
  <2>3. QED
    BY <1>2, <2>2, SameRules DEF Rebuildable, Play!Next, Play!DeleteBracket
<1>3. QED
  BY <1>1, <1>2 DEF DeleteBracket
\* What plans nothing writes nothing.
LEMMA NothingToClear ==
  ASSUME Typed, NEW r \in Request, UpdateMatches(r), plan[r] = NoPlan
  PROVE  matches' = matches
<1>1. DOMAIN plan[r].after = {} /\ matches = [q \in DOMAIN matches |-> matches[q]]
  BY DEF NoPlan, Typed, RowsTyped
<1>2. QED
  BY <1>1 DEF UpdateMatches

\* A result that commits is a report or a clear on the bracket as it is: the two
\* rows stand as they were read, and the rest of the bracket does not matter.
LEMMA CommittedResult ==
  ASSUME Drawn, NEW r \in Request, UpdateMatches(r), ResultCommits(r),
         plan[r] # NoPlan
  PROVE  \E p \in DOMAIN matches :
           \/ \E w \in {matches[p].a, matches[p].b} :
                CanReport(matches, p, w) /\ matches' = Reported(matches, p, w)
           \/ CanClear(matches, p) /\ matches' = Cleared(matches, p)
<1>  DEFINE before == plan[r].before
            after  == plan[r].after
            Both(x) == [q \in DOMAIN matches |->
                          IF q \in DOMAIN x THEN x[q] ELSE matches[q]]
<1>1. /\ matches' = Both(after)
      /\ \A q \in DOMAIN before :
           plan[r].draw = draw /\ q \in DOMAIN matches /\ matches[q] = before[q]
      /\ step[r] = "results"
  BY DEF UpdateMatches, ResultCommits
<1>2. DOMAIN before # {} /\ (HasBracket => \E p \in DOMAIN matches :
        DOMAIN before = Changed(matches, p) /\ ResultOf(p, before, after))
  BY <1>1 DEF Drawn, ResultFits
<1>3. HasBracket
  BY <1>1, <1>2, BracketHasMatches DEF Drawn
<1>4. PICK p \in DOMAIN matches :
        DOMAIN before = Changed(matches, p) /\ ResultOf(p, before, after)
  BY <1>2, <1>3
<1>  HIDE DEF before, after
<1>5. /\ p \in DOMAIN before /\ matches[p] = before[p]
      /\ \A w : CanReport(before, p, w) <=> CanReport(matches, p, w)
      /\ CanClear(before, p) <=> CanClear(matches, p)
      /\ \A w, e : DecidedAlike(matches, before, p, w, e)
  BY <1>1, <1>4, ResultIsLocal
<1>6. ASSUME NEW w, NEW e, after = Decided(before, p, w, e)
      PROVE  Both(after) = Decided(matches, p, w, e)
  <2>1. /\ DOMAIN after = DOMAIN before
        /\ \A q \in DOMAIN before : after[q] = Decided(matches, p, w, e)[q]
        /\ \A q \in DOMAIN matches \ DOMAIN before :
             Decided(matches, p, w, e)[q] = matches[q]
    BY <1>5, <1>6 DEF DecidedAlike
  <2>2. /\ DOMAIN Decided(matches, p, w, e) = DOMAIN matches
        /\ Decided(matches, p, w, e) =
             [q \in DOMAIN Decided(matches, p, w, e) |-> Decided(matches, p, w, e)[q]]
    BY DEF Decided, Feed
  <2>3. QED
    BY <2>1, <2>2
<1>  HIDE DEF Both
<1>7. ASSUME NEW w \in {before[p].a, before[p].b},
             CanReport(before, p, w), after = Reported(before, p, w)
      PROVE  \E x \in {matches[p].a, matches[p].b} :
               CanReport(matches, p, x) /\ matches' = Reported(matches, p, x)
  <2>1. matches' = Reported(matches, p, w)
    BY <1>1, <1>6, <1>7, ResultsDecide
  <2>2. CanReport(matches, p, w) /\ w \in {matches[p].a, matches[p].b}
    BY <1>5, <1>7
  <2>3. QED
    BY <2>1, <2>2
<1>8. ASSUME CanClear(before, p), after = Cleared(before, p)
      PROVE  CanClear(matches, p) /\ matches' = Cleared(matches, p)
  BY <1>1, <1>5, <1>6, <1>8, ResultsDecide
<1>9. QED
  BY <1>4, <1>7, <1>8 DEF ResultOf

LEMMA ResultWrites ==
  ASSUME Drawn, NEW r \in Request, UpdateMatches(r)
  PROVE  Play!Next \/ PlayStutters
<1>1. CASE ~ResultCommits(r) \/ plan[r] = NoPlan
  BY <1>1, NothingToClear, RowsStutter DEF UpdateMatches, Drawn
<1>2. CASE ResultCommits(r) /\ plan[r] # NoPlan
  <2>1. SeedOrder' = SeedOrder
    BY SameSeeds DEF UpdateMatches
  <2>2. PICK p \in DOMAIN matches :
          \/ \E w \in {matches[p].a, matches[p].b} :
               CanReport(matches, p, w) /\ matches' = Reported(matches, p, w)
          \/ CanClear(matches, p) /\ matches' = Cleared(matches, p)
    BY <1>2, CommittedResult
  <2>3. ASSUME NEW w \in {matches[p].a, matches[p].b},
               CanReport(matches, p, w), matches' = Reported(matches, p, w)
        PROVE  Play!Next
    <3>1. Play!ReportResult(p, w)
      BY <2>1, <2>3, SameRules DEF Play!ReportResult
    <3>2. QED
      BY <3>1 DEF Play!Next
  <2>4. ASSUME CanClear(matches, p), matches' = Cleared(matches, p)
        PROVE  Play!Next
    <3>1. Play!ClearResult(p)
      BY <2>1, <2>4, SameRules DEF Play!ClearResult
    <3>2. QED
      BY <3>1 DEF Play!Next
  <2>5. QED
    BY <2>2, <2>3, <2>4
<1>3. QED
  BY <1>1, <1>2

\* Every other write is a stutter: a row that changes while a bracket stands keeps
\* its seed, and without one there is no seed to change.
LEMMA OthersStutter ==
  ASSUME Drawn, NEW r \in Request, RequestNext(r),
         ~ReplaceBracket(r), ~DeleteBracket(r), ~UpdateMatches(r)
  PROVE  PlayStutters
<1>1. Typed /\ NoLooseSeeds /\ NoLooseSeeds'
  BY DrawnStep DEF Drawn, Next
<1>2. CASE EnrolInsert(r)
  BY <1>1, <1>2, LooseStutter DEF EnrolInsert, Inserts, GuardHolds
<1>3. CASE SetSkill(r)
  <2>1. /\ DOMAIN entrants' = DOMAIN entrants /\ matches' = matches
        /\ \A e \in DOMAIN entrants : entrants'[e].seed = entrants[e].seed
    BY <1>1, <1>3 DEF SetSkill, Typed, RowsTyped, EntrantRow
  <2>2. QED
    BY <2>1, SameSeeds DEF PlayStutters
<1>4. CASE RemoveEntrantOf(r) \/ RemoveEntrant(r)
  <2>1. matches' = matches
    BY <1>4 DEF RemoveEntrantOf, RemoveEntrant
  <2>2. CASE GuardHolds(seen[r])
    BY <1>1, <2>1, <2>2, LooseStutter DEF GuardHolds
  <2>3. CASE ~GuardHolds(seen[r])
    <3>1. RemoveRows({})
      BY <1>4, <2>3 DEF RemoveEntrantOf, RemoveEntrant
    <3>2. /\ DOMAIN entrants' = DOMAIN entrants
          /\ \A e \in DOMAIN entrants : entrants'[e].seed = entrants[e].seed
      BY <3>1 DEF RemoveRows
    <3>3. QED
      BY <2>1, <3>2, SameSeeds DEF PlayStutters
  <2>4. QED
    BY <2>2, <2>3
<1>5. CASE UNCHANGED <<entrants, matches>>
  BY <1>5, RowsStutter
<1>6. QED
  BY <1>2, <1>3, <1>4, <1>5
     DEF RequestNext, UpdateLoad, UpdateWrite, Arrive, RegistrationLoad, AddLoad,
         AddPlayerExists, EnrolAlready, RemoveLoad, StatusLoad, ConcludeLoad,
         ConcludeEntrants, ConcludeBracket, SetStatus, DrawLoad, DrawEditable, DrawOrder,
         DeleteBracketLoad, ResultLoad, ResultBoard, Abandon, rows

LEMMA StepRefines == Drawn /\ [Next]_vars => [Play!Next]_(Play!vars)
<1>  SUFFICES ASSUME Drawn, [Next]_vars
              PROVE  Play!Next \/ PlayStutters
  BY DEF PlayStutters, Play!vars
<1>1. ASSUME NEW r \in Request, RequestNext(r)
      PROVE  Play!Next \/ PlayStutters
  BY <1>1, ReplaceDraws, DeletionDeletes, ResultWrites, OthersStutter
<1>2. CASE Delete
  <2>1. NoLooseSeeds' /\ ~HasBracket'
    BY <1>2 DEF Delete, NoLooseSeeds, HasBracket
  <2>2. SeedOrder' = <<>>
    BY <2>1, NoOrderNext
  <2>3. QED
    BY <1>2, <2>2, SameRules DEF Delete, Play!Next, Play!Delete
<1>3. ASSUME NEW pl \in players, PlayerDeleted(pl)
      PROVE  Play!Next \/ PlayStutters
  <2>1. /\ matches' = matches /\ DOMAIN entrants' = DOMAIN entrants
        /\ \A e \in DOMAIN entrants : entrants'[e].seed = entrants[e].seed
    BY <1>3 DEF PlayerDeleted, Drawn, Typed, RowsTyped, EntrantRow
  <2>2. QED
    BY <2>1, SameSeeds DEF PlayStutters
<1>4. CASE Tick \/ UNCHANGED vars
  BY <1>4, RowsStutter DEF Tick, vars, rows
<1>5. QED
  BY <1>1, <1>2, <1>3, <1>4 DEF Next

\* The requests on a tournament, for every number of them and however their
\* awaits interleave, act on its bracket as if each operation ran in one piece
\* (update_matches, replace_bracket, delete_bracket and the guards they carry).
THEOREM RequestsActAtomically == Spec => ActsOnBracketAtomically
<1>1. Init => Play!Init
  <2>  SUFFICES ASSUME Init
                PROVE  Play!Init
    OBVIOUS
  <2>1. NoLooseSeeds /\ ~HasBracket
    BY DEF Init, NoLooseSeeds, HasBracket
  <2>2. QED
    BY <2>1, NoOrder, SameRules DEF HasBracket, Play!Init
<1>2. QED
  BY <1>1, StepRefines, DrawnInvariant, PTL DEF Spec, ActsOnBracketAtomically, Play!Spec
--------------------------------------------------------------------------------
(* What is proved of the abstract bracket holds of the stored one.         *)

LEMMA SameSteps ==
  /\ Play!Init => Bracketed!Init
  /\ [Play!Next]_(Play!vars) => [Bracketed!Next]_(Bracketed!vars)
<1>1. /\ \A o : Bracketed!Generate(o) = Generate(o)
      /\ \A B : Bracketed!HasResults(B) <=> HasResults(B)
      /\ \A B, p, w : Bracketed!CanReport(B, p, w) <=> CanReport(B, p, w)
      /\ \A B, p, w : Bracketed!Reported(B, p, w) = Reported(B, p, w)
      /\ \A B, p : Bracketed!CanClear(B, p) <=> CanClear(B, p)
      /\ \A B, p : Bracketed!Cleared(B, p) = Cleared(B, p)
      /\ Bracketed!NoMatches = NoMatches
  BY DEF Bracketed!Generate, Generate, Bracketed!RoundCount, RoundCount, Bracketed!Pow2,
         Pow2, Bracketed!Positions, Positions, Bracketed!FirstRoundMatch,
         FirstRoundMatch, Bracketed!SecondRoundMatch, SecondRoundMatch,
         Bracketed!EmptyMatch, EmptyMatch, Bracketed!HasResults, HasResults,
         Bracketed!IsPlayed, IsPlayed, Bracketed!IsReady, IsReady, Bracketed!CanReport,
         CanReport, Bracketed!NextUndecided, NextUndecided, Bracketed!NextMatch,
         NextMatch, Bracketed!Reported, Reported, Bracketed!Feed, Feed,
         Bracketed!FeedsSideA, FeedsSideA, Bracketed!CanClear, CanClear,
         Bracketed!Cleared, Cleared, Bracketed!NoMatches, NoMatches
<1>2. QED
  BY <1>1, SameRules
     DEF Play!Init, Bracketed!Init, Play!Next, Bracketed!Next, Play!vars, Bracketed!vars,
         Play!Draw, Bracketed!Draw, Play!DeleteBracket, Bracketed!DeleteBracket,
         Play!ReportResult, Bracketed!ReportResult, Play!ClearResult,
         Bracketed!ClearResult, Play!Delete, Bracketed!Delete

\* No interleaving of draws, results, corrections and deletions leaves a stored
\* bracket whose rounds disagree, whose winner does not sit in the match, or that
\* seats somebody twice in a round.
THEOREM StoredBracketIsSound == Spec => []StoredBracketSound
<1>1. NoEntrant \notin EntrantId
  BY EntrantIdAssumption DEF EntrantId
<1>2. Bracketed!Spec =>
        [](Bracketed!TypeOK /\ Bracketed!FeedsAgree /\ Bracketed!WinnersSit
             /\ Bracketed!OncePerRound)
  BY <1>1, OrdersAreOrders, MaxEntrantsAssumption, Bracketed!BracketSound
<1>3. Play!Spec => Bracketed!Spec
  BY SameSteps, PTL DEF Play!Spec, Bracketed!Spec
<1>4. Bracketed!FeedsAgree /\ Bracketed!WinnersSit /\ Bracketed!OncePerRound
        => StoredBracketSound
  BY DEF StoredBracketSound, Play!FeedsAgree, Bracketed!FeedsAgree, Play!WinnersSit,
         Bracketed!WinnersSit, Play!OncePerRound, Bracketed!OncePerRound,
         Play!NextMatch, Bracketed!NextMatch, Play!FeedsSideA, Bracketed!FeedsSideA,
         Play!IsReady, Bracketed!IsReady
<1>5. QED
  BY <1>2, <1>3, <1>4, RequestsActAtomically, PTL DEF ActsOnBracketAtomically
--------------------------------------------------------------------------------
(* Who is on the rows: the sides of a match are entries of the tournament,  *)
(* and the account of an entry exists or the entry has none.                *)

OnlyEntrantsSit == matches \in [DOMAIN matches -> Match(DOMAIN entrants)]
AccountsExist   == \A e \in DOMAIN entrants : entrants[e].player \in players \cup {NoPlayer}

LivingField == OnlyEntrantsSit /\ AccountsExist

LEMMA SitStep ==
  ASSUME Drawn, OnlyEntrantsSit, [Next]_vars
  PROVE  OnlyEntrantsSit'
<1>1. Typed /\ RowsTyped
  BY DEF Drawn, Typed
<1>2. matches' = NoMatches => OnlyEntrantsSit'
  <2>1. NoMatches = [p \in DOMAIN NoMatches |-> NoMatches[p]] /\ DOMAIN NoMatches = {}
    BY DEF NoMatches
  <2>2. QED
    BY <2>1 DEF OnlyEntrantsSit
<1>3. matches' = matches /\ DOMAIN entrants' = DOMAIN entrants => OnlyEntrantsSit'
  BY DEF OnlyEntrantsSit
<1>4. matches' = matches /\ ~HasBracket => OnlyEntrantsSit'
  BY <1>2 DEF HasBracket
<1>5. \A order : Reseed(order) => DOMAIN entrants' = DOMAIN entrants
  BY DEF Reseed
<1>6. ASSUME NEW r \in Request, RequestNext(r)
      PROVE  OnlyEntrantsSit'
  <2>1. CASE EnrolInsert(r)
    BY <1>4, <2>1 DEF EnrolInsert, Inserts, GuardHolds
  <2>2. CASE SetSkill(r)
    BY <1>3, <2>2 DEF SetSkill
  <2>3. CASE RemoveEntrantOf(r) \/ RemoveEntrant(r)
    <3>1. \E gone : RemoveRows(gone) /\ (gone = {} \/ ~HasBracket)
      BY <2>3 DEF RemoveEntrantOf, RemoveEntrant, GuardHolds
    <3>2. ~HasBracket \/ DOMAIN entrants' = DOMAIN entrants
      BY <3>1 DEF RemoveRows
    <3>3. matches' = matches
      BY <2>3 DEF RemoveEntrantOf, RemoveEntrant
    <3>4. QED
      BY <1>3, <1>4, <3>2, <3>3
  <2>4. CASE ReplaceBracket(r) /\ ReplaceCommits(r)
    <3>  DEFINE order == plan[r].order
    <3>1. OrderOf(order, EntrantId)
      BY <1>1, <2>4 DEF ReplaceBracket, Typed, RequestsTyped, Fits
    <3>2. \A i \in DOMAIN order : order[i] \in DOMAIN entrants
      BY <2>4 DEF ReplaceCommits
    <3>3. matches' = Generate(order) /\ DOMAIN entrants' = DOMAIN entrants
      BY <1>5, <2>4 DEF ReplaceBracket
    <3>  HIDE DEF order
    <3>4. order \in Seq(DOMAIN entrants)
      <4>1. order \in Seq(EntrantId)
        BY <3>1 DEF OrderOf
      <4>2. QED
        BY <3>2, <4>1
    <3>5. OrderOf(order, DOMAIN entrants)
      BY <1>1, <3>1, <3>4 DEF OrderOf, RowsTyped
    <3>6. Generate(order) \in [DOMAIN Generate(order) -> Match(DOMAIN entrants)]
      BY <3>5, GenerateType
    <3>7. QED
      BY <3>3, <3>6 DEF OnlyEntrantsSit
  <2>5. CASE ReplaceBracket(r) /\ ~ReplaceCommits(r)
    BY <1>3, <2>5 DEF ReplaceBracket
  <2>6. CASE DeleteBracket(r)
    BY <1>2, <1>3, <2>6 DEF DeleteBracket
  <2>7. CASE UpdateMatches(r) /\ ResultCommits(r) /\ plan[r] # NoPlan
    <3>1. PICK p \in DOMAIN matches :
            \/ \E w \in {matches[p].a, matches[p].b} :
                 CanReport(matches, p, w) /\ matches' = Reported(matches, p, w)
            \/ CanClear(matches, p) /\ matches' = Cleared(matches, p)
      BY <2>7, CommittedResult
    <3>2. matches[p] \in Match(DOMAIN entrants)
      BY DEF OnlyEntrantsSit
    <3>3. PICK e \in DOMAIN entrants \cup {NoEntrant} :
            matches' = Feed([matches EXCEPT ![p].winner = e], p, e)
      BY <3>1, <3>2 DEF Reported, Cleared, Match
    <3>4. matches' \in [DOMAIN matches -> Match(DOMAIN entrants)]
      <4>  DEFINE E == DOMAIN entrants
                  D == DOMAIN matches
      <4>1. D \subseteq Position /\ matches \in [D -> Match(E)] /\ p \in D
        BY <1>1, <3>1 DEF OnlyEntrantsSit, RowsTyped
      <4>  HIDE DEF E, D
      <4>2. e \in E \cup {NoEntrant}
        BY <3>3 DEF E
      <4>3. Feed([matches EXCEPT ![p].winner = e], p, e) \in [D -> Match(E)]
        BY <4>1, <4>2, FeedType
      <4>4. QED
        BY <3>3, <4>3 DEF D, E
    <3>5. entrants' = entrants
      BY <2>7 DEF UpdateMatches
    <3>6. QED
      BY <3>4, <3>5 DEF OnlyEntrantsSit
  <2>8. CASE UpdateMatches(r) /\ (~ResultCommits(r) \/ plan[r] = NoPlan)
    BY <1>1, <1>3, <2>8, NothingToClear DEF UpdateMatches
  <2>9. CASE UpdateWrite(r) \/ SetStatus(r)
    BY <1>3, <2>9 DEF UpdateWrite, SetStatus
  <2>10. CASE UNCHANGED <<rows, players, now>>
    BY <1>3, <2>10 DEF rows
  <2>11. QED
    BY <1>6, <2>1, <2>2, <2>3, <2>4, <2>5, <2>6, <2>7, <2>8, <2>9, <2>10
       DEF RequestNext, UpdateLoad, Arrive, RegistrationLoad, AddLoad, AddPlayerExists,
           EnrolAlready, RemoveLoad, StatusLoad, ConcludeLoad, ConcludeEntrants,
           ConcludeBracket, DrawLoad, DrawEditable, DrawOrder, DeleteBracketLoad,
           ResultLoad, ResultBoard, Abandon
<1>7. CASE Delete
  BY <1>2, <1>7 DEF Delete
<1>8. ASSUME NEW pl \in players, PlayerDeleted(pl)
      PROVE  OnlyEntrantsSit'
  BY <1>3, <1>8 DEF PlayerDeleted
<1>9. CASE Tick \/ UNCHANGED vars
  BY <1>3, <1>9 DEF Tick, vars, rows
<1>10. QED
  BY <1>6, <1>7, <1>8, <1>9 DEF Next

LEMMA AccountsStep ==
  ASSUME Typed, AccountsExist, [Next]_vars
  PROVE  AccountsExist'
<1>1. ASSUME players' = players,
             \A e \in DOMAIN entrants' :
               \/ e \in DOMAIN entrants /\ entrants'[e].player = entrants[e].player
               \/ entrants'[e].player \in players
      PROVE  AccountsExist'
  BY <1>1 DEF AccountsExist
<1>2. UNCHANGED <<entrants, players>> => AccountsExist'
  BY DEF AccountsExist
<1>3. ASSUME NEW order, Reseed(order), players' = players
      PROVE  AccountsExist'
  <2>1. /\ DOMAIN entrants' = DOMAIN entrants
        /\ \A e \in DOMAIN entrants : entrants'[e].player = entrants[e].player
    BY <1>3 DEF Reseed, Typed, RowsTyped, EntrantRow
  <2>2. QED
    BY <1>1, <1>3, <2>1
<1>4. ASSUME NEW r \in Request, RequestNext(r)
      PROVE  AccountsExist'
  <2>1. CASE EnrolInsert(r)
    <3>1. call[r].player \in players
      BY <2>1 DEF EnrolInsert, Inserts
    <3>2. \A e \in DOMAIN entrants' :
            \/ e \in DOMAIN entrants /\ entrants'[e].player = entrants[e].player
            \/ entrants'[e].player = call[r].player
      BY <2>1 DEF EnrolInsert
    <3>3. players' = players
      BY <2>1 DEF EnrolInsert
    <3>4. QED
      BY <1>1, <3>1, <3>2, <3>3
  <2>2. CASE SetSkill(r)
    <3>1. /\ DOMAIN entrants' = DOMAIN entrants /\ players' = players
          /\ \A e \in DOMAIN entrants : entrants'[e].player = entrants[e].player
      BY <2>2 DEF SetSkill, Typed, RowsTyped, EntrantRow
    <3>2. QED
      BY <1>1, <3>1
  <2>3. CASE RemoveEntrantOf(r) \/ RemoveEntrant(r)
    <3>1. /\ DOMAIN entrants' \subseteq DOMAIN entrants /\ players' = players
          /\ \A e \in DOMAIN entrants' : entrants'[e].player = entrants[e].player
      BY <2>3 DEF RemoveEntrantOf, RemoveEntrant, RemoveRows
    <3>2. QED
      BY <1>1, <3>1
  <2>4. CASE ReplaceBracket(r) \/ DeleteBracket(r)
    BY <1>2, <1>3, <2>4 DEF ReplaceBracket, DeleteBracket
  <2>5. CASE UpdateWrite(r) \/ SetStatus(r) \/ UpdateMatches(r)
    BY <1>2, <2>5 DEF UpdateWrite, SetStatus, UpdateMatches
  <2>6. CASE UNCHANGED <<rows, players, now>>
    BY <1>2, <2>6 DEF rows
  <2>7. QED
    BY <1>4, <2>1, <2>2, <2>3, <2>4, <2>5, <2>6
       DEF RequestNext, UpdateLoad, Arrive, RegistrationLoad, AddLoad, AddPlayerExists,
           EnrolAlready, RemoveLoad, StatusLoad, ConcludeLoad, ConcludeEntrants,
           ConcludeBracket, DrawLoad, DrawEditable, DrawOrder, DeleteBracketLoad,
           ResultLoad, ResultBoard, Abandon
<1>5. CASE Delete
  BY <1>5 DEF Delete, AccountsExist
<1>6. ASSUME NEW pl \in players, PlayerDeleted(pl)
      PROVE  AccountsExist'
  <2>1. /\ players' = players \ {pl}
        /\ DOMAIN entrants' = DOMAIN entrants
        /\ \A e \in DOMAIN entrants :
             entrants[e].player # pl => entrants'[e].player = entrants[e].player
    BY <1>6 DEF PlayerDeleted
  <2>2. ASSUME NEW e \in DOMAIN entrants, entrants[e].player = pl
        PROVE  entrants'[e].player = NoPlayer
    BY <1>6, <2>2 DEF PlayerDeleted, Typed, RowsTyped, EntrantRow
  <2>3. QED
    BY <2>1, <2>2 DEF AccountsExist
<1>7. CASE Tick \/ UNCHANGED vars
  BY <1>2, <1>7 DEF Tick, vars, rows
<1>8. QED
  BY <1>4, <1>5, <1>6, <1>7 DEF Next

\* Whatever entries leave and accounts are deleted while draws, results and
\* corrections run, the sides of every stored match are entries of the tournament,
\* and no entry keeps the account of somebody who is gone (the guards of the entrant
\* writes, replace_bracket's seed updates and the foreign keys of the schema).
THEOREM BracketSeatsEntrants == Spec => []LivingField
<1>1. Init => LivingField
  <2>1. NoMatches = [p \in DOMAIN NoMatches |-> NoMatches[p]] /\ DOMAIN NoMatches = {}
    BY DEF NoMatches
  <2>2. Init => matches = NoMatches /\ DOMAIN entrants = {}
    BY DEF Init
  <2>3. QED
    BY <2>1, <2>2 DEF LivingField, OnlyEntrantsSit, AccountsExist
<1>2. Drawn /\ LivingField /\ [Next]_vars => LivingField'
  BY SitStep, AccountsStep DEF LivingField, Drawn
<1>3. QED
  BY <1>1, <1>2, DrawnInvariant, PTL DEF Spec

--------------------------------------------------------------------------------
(* A step with its answer is a step of the tournament, or none.            *)

LEMMA StepOfTournament == [RNext]_all => [Next]_vars
<1>  SUFFICES ASSUME [RNext]_all
              PROVE  [Next]_vars
  OBVIOUS
<1>1. ASSUME NEW r \in Request,
             \/ Proceed(r) \/ Update(r) \/ Enrolled(r) \/ Already(r)
             \/ EnrolRefused(r) \/ Levelled(r) \/ Retired(r) \/ Removed(r) \/ Moved(r)
      PROVE  RequestNext(r)
  BY <1>1 DEF Proceed, Update, Enrolled, Already, EnrolRefused, Levelled, Retired,
              Removed, Moved, RequestNext
<1>2. ASSUME NEW r \in Request, Reread(r)
      PROVE  UNCHANGED vars
  BY <1>2 DEF Reread
<1>3. CASE World
  BY <1>3 DEF World, Next
<1>4. CASE UNCHANGED all
  BY <1>4 DEF all
<1>5. QED
  BY <1>1, <1>2, <1>3, <1>4 DEF RNext, Next

\* Answers and the reads that serve them add nothing to what the requests do to the
\* rows: every behaviour with answers is one of Tournament.
THEOREM AnswersChangeNoRow == RSpec => Spec
<1>1. RInit => Init
  BY DEF RInit
<1>2. QED
  BY <1>1, StepOfTournament, PTL DEF RSpec, Spec

--------------------------------------------------------------------------------
(* The reads that are left.                                                *)

Reads == {"reload", "stale", "click", "created", "existing", "explain",
          "explain_full", "explain_level"}

TailType == [read : Reads \cup {"none"}, call : CallType, guard : GuardType,
             wrote : BOOLEAN]

\* A request that owes a read has done its work on the rows; one that wrote owes no
\* read that explains a refusal.
TailFits(t, s) ==
  /\ t.read # "none" => s = "idle"
  /\ t.wrote => t.read \in {"reload", "created", "existing"}

Tails ==
  /\ tail \in [Request -> TailType]
  /\ \A r \in Request : TailFits(tail[r], step[r])

Owed == Typed /\ Tails

\* A statement that refuses writes nothing.
LEMMA RefusedWritesNothing ==
  ASSUME Typed, NEW r \in Request
  PROVE  /\ UpdateWrite(r) /\ status # seen[r].status => rows' = rows
         /\ /\ SetSkill(r)
            /\ ~(GuardHolds(seen[r]) /\ EntriesOf(call[r].player) # {})
            => rows' = rows
         /\ /\ RemoveEntrantOf(r)
            /\ ~(GuardHolds(seen[r]) /\ EntriesOf(call[r].player) # {})
            => rows' = rows
         /\ /\ RemoveEntrant(r)
            /\ ~(GuardHolds(seen[r]) /\ call[r].entrant \in DOMAIN entrants)
            => rows' = rows
         /\ SetStatus(r) /\ ~MoveCommits(r) => rows' = rows
<1>1. entrants = [e \in DOMAIN entrants |-> entrants[e]]
  BY DEF Typed, RowsTyped
<1>2. UpdateWrite(r) /\ status # seen[r].status => rows' = rows
  BY DEF UpdateWrite, rows
<1>3. ASSUME SetSkill(r), ~(GuardHolds(seen[r]) /\ EntriesOf(call[r].player) # {})
      PROVE  rows' = rows
  <2>1. entrants' = [e \in DOMAIN entrants |-> entrants[e]]
    BY <1>3 DEF SetSkill, EntriesOf
  <2>2. QED
    BY <1>1, <1>3, <2>1 DEF SetSkill, rows
<1>4. ASSUME NEW gone, RemoveRows(gone), gone \cap DOMAIN entrants = {}
      PROVE  entrants' = entrants
  <2>1. DOMAIN entrants \ gone = DOMAIN entrants
    BY <1>4
  <2>2. QED
    BY <1>1, <1>4, <2>1 DEF RemoveRows
<1>5. ASSUME RemoveEntrantOf(r),
             ~(GuardHolds(seen[r]) /\ EntriesOf(call[r].player) # {})
      PROVE  rows' = rows
  <2>1. RemoveRows({})
    BY <1>5 DEF RemoveEntrantOf
  <2>2. entrants' = entrants
    BY <1>4, <2>1
  <2>3. QED
    BY <1>5, <2>2 DEF RemoveEntrantOf, rows
<1>6. ASSUME RemoveEntrant(r),
             ~(GuardHolds(seen[r]) /\ call[r].entrant \in DOMAIN entrants)
      PROVE  rows' = rows
  <2>1. PICK gone : RemoveRows(gone) /\ gone \cap DOMAIN entrants = {}
    <3>1. CASE GuardHolds(seen[r])
      <4>1. RemoveRows({call[r].entrant}) /\ {call[r].entrant} \cap DOMAIN entrants = {}
        BY <1>6, <3>1 DEF RemoveEntrant
      <4>2. QED
        BY <4>1
    <3>2. CASE ~GuardHolds(seen[r])
      <4>1. RemoveRows({})
        BY <1>6, <3>2 DEF RemoveEntrant
      <4>2. QED
        BY <4>1
    <3>3. QED
      BY <3>1, <3>2
  <2>2. entrants' = entrants
    BY <1>4, <2>1
  <2>3. QED
    BY <1>6, <2>2 DEF RemoveEntrant, rows
<1>7. SetStatus(r) /\ ~MoveCommits(r) => rows' = rows
  BY DEF SetStatus, rows
<1>8. QED
  BY <1>2, <1>3, <1>5, <1>6, <1>7
(* How a step leaves a read, or none. *)

LEMMA OwesFits ==
  ASSUME Typed, Tails, NEW r \in Request, NEW read \in Reads, Owes(r, read),
         step' = [step EXCEPT ![r] = "idle"],
         rows' = rows \/ read \in {"reload", "created", "existing"}
  PROVE  Tails'
<1>  DEFINE t == [read |-> read, call |-> call[r], guard |-> seen[r], wrote |-> rows' # rows]
<1>1. tail' = [tail EXCEPT ![r] = t]
  BY DEF Owes
<1>2. t \in TailType /\ TailFits(t, "idle")
  BY DEF TailType, TailFits, Typed, RequestsTyped
<1>3. step \in [Request -> Step]
  BY DEF Typed, RequestsTyped
<1>  HIDE DEF t
<1>4. ASSUME NEW x \in Request
      PROVE  TailFits(tail'[x], step'[x])
  <2>1. CASE x = r
    BY <1>1, <1>2, <1>3, <2>1 DEF Tails
  <2>2. CASE x # r
    BY <1>1, <1>3, <2>2 DEF Tails
  <2>3. QED
    BY <2>1, <2>2
<1>5. QED
  BY <1>1, <1>2, <1>4 DEF Tails

LEMMA EndsFits ==
  ASSUME Typed, Tails, NEW r \in Request, tail[r].read = "none", Ends(r),
         \A x \in Request \ {r} : step'[x] = step[x]
  PROVE  Tails'
<1>1. tail' = tail
  BY DEF Ends
<1>2. ASSUME NEW x \in Request
      PROVE  TailFits(tail'[x], step'[x])
  <2>1. CASE x = r
    BY <1>1, <2>1 DEF Tails, TailFits
  <2>2. CASE x # r
    BY <1>1, <2>2 DEF Tails
  <2>3. QED
    BY <2>1, <2>2
<1>3. QED
  BY <1>1, <1>2 DEF Tails

\* The next answer: a request ends its work on the rows and owes a read, goes on, or
\* is done.
LEMMA WriteLeaves ==
  ASSUME Typed, NEW r \in Request,
         \/ Update(r) \/ Enrolled(r) \/ Already(r) \/ EnrolRefused(r) \/ Levelled(r)
         \/ Retired(r) \/ Removed(r) \/ Moved(r)
  PROVE  \/ Ends(r)
         \/ \E read \in Reads :
              /\ Owes(r, read)
              /\ step' = [step EXCEPT ![r] = "idle"]
              /\ rows' = rows \/ read \in {"reload", "created", "existing"}
<1>  DEFINE Leaves(read) ==
              /\ Owes(r, read)
              /\ step' = [step EXCEPT ![r] = "idle"]
              /\ rows' = rows \/ read \in {"reload", "created", "existing"}
<1>1. ASSUME NEW read \in Reads, Leaves(read)
      PROVE  \E x \in Reads : Leaves(x)
  BY <1>1
<1>2. /\ "reload" \in Reads /\ "stale" \in Reads /\ "click" \in Reads
      /\ "created" \in Reads /\ "existing" \in Reads /\ "explain" \in Reads
      /\ "explain_full" \in Reads /\ "explain_level" \in Reads
  BY DEF Reads
<1>3. ASSUME Finish(r)
      PROVE  step' = [step EXCEPT ![r] = "idle"]
  BY <1>3 DEF Finish
<1>4. CASE Update(r)
  <2>1. UpdateWrite(r) /\ Finish(r)
    BY <1>4 DEF Update, UpdateWrite
  <2>2. CASE status = seen[r].status
    BY <1>2, <1>3, <1>4, <2>1, <2>2 DEF Update
  <2>3. CASE status # seen[r].status
    BY <1>2, <1>3, <1>4, <2>1, <2>3, RefusedWritesNothing DEF Update
  <2>4. QED
    BY <2>2, <2>3
<1>5. CASE Enrolled(r)
  BY <1>2, <1>3, <1>5 DEF Enrolled, EnrolInsert
<1>6. CASE Already(r)
  BY <1>2, <1>3, <1>6 DEF Already, EnrolAlready
<1>7. CASE EnrolRefused(r)
  <2>1. Abandon(r) /\ Finish(r) /\ rows' = rows
    BY <1>7 DEF EnrolRefused, Abandon
  <2>2. QED
    BY <1>2, <1>3, <1>7, <2>1 DEF EnrolRefused
<1>8. CASE Levelled(r)
  <2>1. SetSkill(r) /\ Finish(r)
    BY <1>8 DEF Levelled, SetSkill
  <2>2. QED
    BY <1>2, <1>3, <1>8, <2>1, RefusedWritesNothing DEF Levelled
<1>9. CASE Retired(r)
  <2>1. RemoveEntrantOf(r) /\ Finish(r)
    BY <1>9 DEF Retired, RemoveEntrantOf
  <2>2. QED
    BY <1>2, <1>3, <1>9, <2>1, RefusedWritesNothing DEF Retired
<1>10. CASE Removed(r)
  <2>1. RemoveEntrant(r) /\ Finish(r)
    BY <1>10 DEF Removed, RemoveEntrant
  <2>2. QED
    BY <1>2, <1>3, <1>10, <2>1, RefusedWritesNothing DEF Removed
<1>11. CASE Moved(r)
  <2>1. SetStatus(r) /\ Finish(r)
    BY <1>11 DEF Moved, SetStatus
  <2>2. CASE MoveCommits(r)
    BY <1>2, <1>3, <1>11, <2>1, <2>2 DEF Moved
  <2>3. CASE ~MoveCommits(r)
    BY <1>2, <1>3, <1>11, <2>1, <2>3, RefusedWritesNothing DEF Moved
  <2>4. QED
    BY <2>2, <2>3
<1>12. QED
  BY <1>4, <1>5, <1>6, <1>7, <1>8, <1>9, <1>10, <1>11

LEMMA TailsStep == Owed /\ [RNext]_all => Tails'
<1>  SUFFICES ASSUME Owed, [RNext]_all
              PROVE  Tails'
  OBVIOUS
<1>  Typed /\ Tails
  BY DEF Owed
<1>1. ASSUME NEW r \in Request, tail[r].read = "none",
             \/ Proceed(r) \/ Update(r) \/ Enrolled(r) \/ Already(r)
             \/ EnrolRefused(r) \/ Levelled(r) \/ Retired(r) \/ Removed(r) \/ Moved(r)
      PROVE  Tails'
  <2>1. RequestNext(r)
    BY <1>1 DEF Proceed, Update, Enrolled, Already, EnrolRefused, Levelled, Retired,
                Removed, Moved, RequestNext
  <2>2. \A x \in Request \ {r} : step'[x] = step[x]
    BY <2>1, OwnPlanOnly
  <2>3. CASE Ends(r)
    BY <1>1, <2>2, <2>3, EndsFits
  <2>4. CASE ~Ends(r)
    <3>1. \E read \in Reads :
            /\ Owes(r, read)
            /\ step' = [step EXCEPT ![r] = "idle"]
            /\ rows' = rows \/ read \in {"reload", "created", "existing"}
      BY <1>1, <2>4, WriteLeaves DEF Proceed
    <3>2. QED
      BY <3>1, OwesFits
  <2>5. QED
    BY <2>3, <2>4
<1>2. ASSUME NEW r \in Request, Reread(r)
      PROVE  Tails'
  <2>1. step' = step
    BY <1>2 DEF Reread, vars, request
  <2>2. PICK t \in TailType :
          /\ tail' = [tail EXCEPT ![r] = t] /\ TailFits(t, step[r])
    <3>1. NoTail \in TailType /\ TailFits(NoTail, step[r])
      BY CallsTyped DEF NoTail, TailType, TailFits, NoGuard, GuardType
    <3>2. tail[r].read = "explain_level" =>
            /\ [tail[r] EXCEPT !.read = "existing"] \in TailType
            /\ TailFits([tail[r] EXCEPT !.read = "existing"], step[r])
      BY DEF Tails, TailType, TailFits, Reads
    <3>3. QED
      BY <1>2, <3>1, <3>2 DEF Reread
  <2>3. ASSUME NEW x \in Request
        PROVE  TailFits(tail'[x], step'[x])
    <3>1. CASE x = r
      BY <2>1, <2>2, <3>1 DEF Tails
    <3>2. CASE x # r
      BY <2>1, <2>2, <3>2 DEF Tails
    <3>3. QED
      BY <3>1, <3>2
  <2>4. QED
    BY <2>2, <2>3 DEF Tails
<1>3. CASE World \/ UNCHANGED all
  BY <1>3 DEF World, Delete, Tick, PlayerDeleted, all, vars, request, Tails
<1>4. QED
  BY <1>1, <1>2, <1>3 DEF RNext

LEMMA OwedInvariant == RSpec => []Owed
<1>1. RInit => Tails
  <2>1. NoTail \in TailType /\ TailFits(NoTail, "idle")
    BY CallsTyped DEF NoTail, TailType, TailFits, NoGuard, GuardType
  <2>2. QED
    BY <2>1 DEF RInit, Tails, Init
<1>2. RInit => Owed
  BY <1>1, TypedInit DEF RInit, Owed
<1>3. Owed /\ [RNext]_all => Owed'
  BY TailsStep, TypedStep, StepOfTournament DEF Owed
<1>4. QED
  BY <1>2, <1>3, PTL DEF RSpec

\* A request that committed a write is refused only when what it wrote is gone by the
\* time it reads it for the answer, however many others act in between (change_status,
\* update, enrol and the reads after them).
THEOREM RefusalsWroteNothing == RSpec => []RefusalWroteNothing
<1>1. Owed => RefusalWroteNothing
  <2>  SUFFICES ASSUME Owed, NEW r \in Request, tail[r].wrote
                PROVE  AnswersNow(r) \subseteq
                         {"Ok", "Created", "TournamentNotFound", "PlayerIdNotFound"}
    BY DEF RefusalWroteNothing
  <2>1. tail[r].read \in {"reload", "created", "existing"}
    BY DEF Owed, Tails, TailFits
  <2>2. QED
    BY <2>1 DEF AnswersNow, TailAnswers
<1>2. QED
  BY <1>1, OwedInvariant, PTL
--------------------------------------------------------------------------------
(* What a request asks for fits the step it stands at.                     *)

Entering == {"register", "add"}

\* The operations that come to a step, and the ones that owe a read.
StepOps(s) ==
  CASE s = "idle"           -> AllOps \cup {"none"}
    [] s = "arrived"        -> {"register", "retire"}
    [] s = "player"         -> {"add"}
    [] s \in {"enrol", "level"} -> Entering
    [] s \in {"retire", "remove", "update", "delete_bracket"} -> {s}
    [] s \in {"conclude_entrants", "conclude_bracket", "status"} -> {"status"}
    [] s \in {"editable", "seeding", "replace"} -> {"generate", "reorder"}
    [] s \in {"board", "results"} -> {"report", "clear"}

ReadOps(read) ==
  CASE read = "reload"  -> {"update", "status"}
    [] read = "stale"   -> {"update"}
    [] read = "click"   -> {"status"}
    [] read = "explain" -> {"retire", "remove"}
    [] read \in {"created", "existing", "explain_full", "explain_level"} -> Entering
    [] read = "none"    -> AllOps \cup {"none"}

AsksStep(r) == call[r].op \in StepOps(step[r])
AsksTail(r) == tail[r].call.op \in ReadOps(tail[r].read)
Asks == \A r \in Request : AsksStep(r) /\ AsksTail(r)

Asked == Owed /\ Asks

LEMMA SomeOp == \A s \in Step : StepOps(s) \subseteq AllOps \cup {"none"}
BY DEF Step, StepOps, AllOps, Entering

\* A request goes from one step to another on the same operation.
LEMMA AsksStepMoves ==
  ASSUME Owed, Asks, NEW r \in Request, RequestNext(r)
  PROVE  /\ AsksStep(r)'
         /\ \A x \in Request \ {r} : AsksStep(x)'
<1>1. /\ step \in [Request -> Step] /\ call \in [Request -> CallType]
      /\ call[r].op \in StepOps(step[r])
  BY DEF Owed, Typed, RequestsTyped, Asks, AsksStep
<1>  DEFINE To(c, s) == /\ call' = [call EXCEPT ![r] = c]
                        /\ step' = [step EXCEPT ![r] = s]
                        /\ c.op \in StepOps(s)
<1>2. ASSUME NEW c, NEW s, To(c, s)
      PROVE  /\ AsksStep(r)'
             /\ \A x \in Request \ {r} : AsksStep(x)'
  <2>1. call'[r] = c /\ step'[r] = s
    BY <1>1, <1>2
  <2>2. \A x \in Request \ {r} : call'[x] = call[x] /\ step'[x] = step[x]
    BY <1>1, <1>2
  <2>3. QED
    BY <1>2, <2>1, <2>2 DEF Asks, AsksStep
<1>3. \A c, g, s : Begin(r, c, g, s) /\ c.op \in StepOps(s) => To(c, s)
  BY DEF Begin
<1>4. \A s : Goto(r, s) /\ call[r].op \in StepOps(s) => To(call[r], s)
  BY <1>1 DEF Goto
<1>5. \A p, s : Plan(r, p, s) /\ call[r].op \in StepOps(s) => To(call[r], s)
  BY <1>1 DEF Plan
<1>6. Finish(r) => To(NoCall, "idle")
  BY DEF Finish, NoCall, StepOps
<1>7. /\ \A c, g, s : Begin(r, c, g, s) /\ c.op \in StepOps(s) => \E d, t : To(d, t)
      /\ \A s : Goto(r, s) /\ call[r].op \in StepOps(s) => \E d, t : To(d, t)
      /\ \A p, s : Plan(r, p, s) /\ call[r].op \in StepOps(s) => \E d, t : To(d, t)
      /\ Finish(r) => \E d, t : To(d, t)
  <2>  HIDE DEF To
  <2>1. QED
    BY <1>3, <1>4, <1>5, <1>6
<1>  HIDE DEF To
<1>8. \A op : Admin(op).op = op
  BY DEF Admin, NoCall
<1>9. \E d, t : To(d, t)
  <2>1. CASE UpdateLoad(r) \/ StatusLoad(r) \/ ConcludeLoad(r) \/ DeleteBracketLoad(r)
    <3>1. \E c, g, s : Begin(r, c, g, s) /\ c.op \in StepOps(s)
      <4>1. CASE UpdateLoad(r)
        BY <1>8, <4>1 DEF UpdateLoad, StepOps
      <4>2. CASE StatusLoad(r)
        <5>1. PICK to \in Status \ {"gone", "concluded"} :
                Begin(r, [Admin("status") EXCEPT !.to = to], Read, "status")
          BY <4>2 DEF StatusLoad
        <5>2. [Admin("status") EXCEPT !.to = to].op = "status"
          BY DEF Admin, NoCall
        <5>3. "status" \in StepOps("status")
          BY DEF StepOps
        <5>4. QED
          BY <5>1, <5>2, <5>3
      <4>5. CASE ConcludeLoad(r)
        <5>1. PICK e \in EntrantId \cup {NoEntrant} :
                Begin(r, [Admin("status") EXCEPT !.to = "concluded", !.entrant = e],
                      Read, "conclude_entrants")
          BY <4>5 DEF ConcludeLoad
        <5>2. [Admin("status") EXCEPT !.to = "concluded", !.entrant = e].op = "status"
          BY DEF Admin, NoCall
        <5>3. "status" \in StepOps("conclude_entrants")
          BY DEF StepOps
        <5>4. QED
          BY <5>1, <5>2, <5>3
      <4>3. CASE DeleteBracketLoad(r)
        BY <1>8, <4>3 DEF DeleteBracketLoad, StepOps
      <4>6. QED
        BY <2>1, <4>1, <4>2, <4>3, <4>5
    <3>2. QED
      BY <1>7, <3>1
  <2>2. CASE Arrive(r) \/ AddLoad(r) \/ RemoveLoad(r) \/ DrawLoad(r) \/ ResultLoad(r)
    <3>1. \E c, g, s : Begin(r, c, g, s) /\ c.op \in StepOps(s)
      <4>1. CASE Arrive(r)
        <5>1. PICK op \in {"register", "retire"}, pl \in players, lv \in Level :
                Begin(r, [NoCall EXCEPT !.op = op, !.player = pl, !.level = lv],
                      [status |-> "open", open_at |-> now], "arrived")
          BY <4>1 DEF Arrive
        <5>2. [NoCall EXCEPT !.op = op, !.player = pl, !.level = lv].op = op
          BY DEF NoCall
        <5>3. op \in StepOps("arrived")
          BY DEF StepOps
        <5>4. QED
          BY <5>1, <5>2, <5>3
      <4>2. CASE AddLoad(r)
        <5>1. PICK pl \in Player, lv \in Level \cup {NoLevel} :
                Begin(r, [Admin("add") EXCEPT !.player = pl, !.level = lv], Read, "player")
          BY <4>2 DEF AddLoad
        <5>2. [Admin("add") EXCEPT !.player = pl, !.level = lv].op = "add"
          BY DEF Admin, NoCall
        <5>3. "add" \in StepOps("player")
          BY DEF StepOps
        <5>4. QED
          BY <5>1, <5>2, <5>3
      <4>3. CASE RemoveLoad(r)
        <5>1. PICK e \in DOMAIN entrants :
                Begin(r, [Admin("remove") EXCEPT !.entrant = e], Read, "remove")
          BY <4>3 DEF RemoveLoad
        <5>2. [Admin("remove") EXCEPT !.entrant = e].op = "remove"
          BY DEF Admin, NoCall
        <5>3. "remove" \in StepOps("remove")
          BY DEF StepOps
        <5>4. QED
          BY <5>1, <5>2, <5>3
      <4>4. CASE DrawLoad(r)
        BY <1>8, <4>4 DEF DrawLoad, StepOps
      <4>5. CASE ResultLoad(r)
        <5>1. PICK op \in {"report", "clear"} : Begin(r, Admin(op), Read, "board")
          BY <4>5 DEF ResultLoad
        <5>2. op \in StepOps("board")
          BY DEF StepOps
        <5>3. QED
          BY <1>8, <5>1, <5>2
      <4>6. QED
        BY <2>2, <4>1, <4>2, <4>3, <4>4, <4>5
    <3>2. QED
      BY <1>7, <3>1
  <2>3. CASE RegistrationLoad(r)
    <3>1. call[r].op \in {"register", "retire"}
      BY <1>1, <2>3 DEF RegistrationLoad, StepOps
    <3>2. CASE call[r].op = "register"
      <4>1. Goto(r, "enrol") /\ call[r].op \in StepOps("enrol")
        BY <2>3, <3>2 DEF RegistrationLoad, StepOps, Entering
      <4>2. QED
        BY <1>7, <4>1
    <3>3. CASE call[r].op = "retire"
      <4>1. Goto(r, "retire") /\ call[r].op \in StepOps("retire")
        BY <2>3, <3>3 DEF RegistrationLoad, StepOps
      <4>2. QED
        BY <1>7, <4>1
    <3>4. QED
      BY <3>1, <3>2, <3>3
  <2>4. CASE AddPlayerExists(r)
    <3>1. Goto(r, "enrol") /\ call[r].op \in StepOps("enrol")
      BY <1>1, <2>4 DEF AddPlayerExists, StepOps, Entering
    <3>2. QED
      BY <1>7, <3>1
  <2>5. CASE EnrolAlready(r)
    <3>1. Finish(r) \/ (Goto(r, "level") /\ call[r].op \in StepOps("level"))
      BY <1>1, <2>5 DEF EnrolAlready, StepOps
    <3>2. QED
      BY <1>7, <3>1
  <2>6. CASE ConcludeEntrants(r) \/ ConcludeBracket(r)
    <3>1. \E p, s : Plan(r, p, s) /\ s \in {"conclude_bracket", "status"}
      BY <2>6 DEF ConcludeEntrants, ConcludeBracket
    <3>2. call[r].op = "status"
      BY <1>1, <2>6 DEF ConcludeEntrants, ConcludeBracket, StepOps
    <3>3. \A s \in {"conclude_bracket", "status"} : call[r].op \in StepOps(s)
      BY <3>2 DEF StepOps
    <3>4. QED
      BY <1>7, <3>1, <3>3
  <2>7. CASE DrawEditable(r) \/ DrawOrder(r)
    <3>1. \/ Goto(r, "seeding")
          \/ \E p : Plan(r, p, "replace")
      BY <2>7 DEF DrawEditable, DrawOrder
    <3>2. call[r].op \in StepOps("seeding") /\ call[r].op \in StepOps("replace")
      BY <1>1, <2>7 DEF DrawEditable, DrawOrder, StepOps
    <3>3. QED
      BY <1>7, <3>1, <3>2
  <2>8. CASE ResultBoard(r)
    <3>1. \E p : Plan(r, p, "results")
      BY <2>8 DEF ResultBoard
    <3>2. call[r].op \in StepOps("results")
      BY <1>1, <2>8 DEF ResultBoard, StepOps
    <3>3. QED
      BY <1>7, <3>1, <3>2
  <2>9. CASE \/ UpdateWrite(r) \/ EnrolInsert(r) \/ SetSkill(r) \/ RemoveEntrantOf(r)
             \/ RemoveEntrant(r) \/ SetStatus(r) \/ ReplaceBracket(r)
             \/ DeleteBracket(r) \/ UpdateMatches(r) \/ Abandon(r)
    <3>1. Finish(r)
      BY <2>9 DEF UpdateWrite, EnrolInsert, SetSkill, RemoveEntrantOf, RemoveEntrant,
                  SetStatus, ReplaceBracket, DeleteBracket, UpdateMatches, Abandon
    <3>2. QED
      BY <1>7, <3>1
  <2>10. QED
    BY <2>1, <2>2, <2>3, <2>4, <2>5, <2>6, <2>7, <2>8, <2>9 DEF RequestNext
<1>10. QED
  BY <1>2, <1>9
\* A read is owed for the operation of the step that leaves it.
LEMMA AsksTailMoves ==
  ASSUME Owed, Asks, [RNext]_all
  PROVE  \A x \in Request : AsksTail(x)'
<1>  Typed /\ Tails
  BY DEF Owed
<1>1. tail' = tail => \A x \in Request : AsksTail(x)'
  BY DEF Asks, AsksTail
<1>2. ASSUME NEW r \in Request, NEW read, Owes(r, read), call[r].op \in ReadOps(read)
      PROVE  \A x \in Request : AsksTail(x)'
  <2>1. /\ tail'[r].read = read /\ tail'[r].call = call[r]
        /\ \A x \in Request \ {r} : tail'[x] = tail[x]
    BY <1>2 DEF Owes, Tails
  <2>2. QED
    BY <1>2, <2>1 DEF Asks, AsksTail
<1>3. ASSUME NEW r \in Request,
             \/ Proceed(r) \/ Update(r) \/ Enrolled(r) \/ Already(r)
             \/ EnrolRefused(r) \/ Levelled(r) \/ Retired(r) \/ Removed(r) \/ Moved(r)
      PROVE  \A x \in Request : AsksTail(x)'
  <2>1. call[r].op \in StepOps(step[r])
    BY DEF Asks, AsksStep
  <2>2. Ends(r) => \A x \in Request : AsksTail(x)'
    BY <1>1 DEF Ends
  <2>3. CASE Proceed(r)
    BY <2>2, <2>3 DEF Proceed
  <2>4. CASE Update(r)
    <3>1. call[r].op = "update"
      BY <2>1, <2>4 DEF Update, UpdateWrite, StepOps
    <3>2. call[r].op \in ReadOps("reload") /\ call[r].op \in ReadOps("stale")
      BY <3>1 DEF ReadOps
    <3>3. Owes(r, "reload") \/ Owes(r, "stale")
      BY <2>4 DEF Update
    <3>4. QED
      BY <1>2, <3>2, <3>3
  <2>5. CASE Enrolled(r) \/ Already(r) \/ EnrolRefused(r) \/ Levelled(r)
    <3>1. call[r].op \in Entering
      BY <2>1, <2>5 DEF Enrolled, EnrolInsert, Already, EnrolAlready, EnrolRefused,
                        Levelled, SetSkill, StepOps
    <3>2. \A read \in {"created", "existing", "explain_full", "explain_level"} :
            call[r].op \in ReadOps(read)
      BY <3>1 DEF ReadOps
    <3>3. \/ Ends(r)
          \/ \E read \in {"created", "existing", "explain_full", "explain_level"} :
               Owes(r, read)
      BY <2>5 DEF Enrolled, Already, EnrolRefused, Levelled
    <3>4. QED
      BY <1>2, <2>2, <3>2, <3>3
  <2>6. CASE Retired(r) \/ Removed(r)
    <3>1. call[r].op \in {"retire", "remove"}
      BY <2>1, <2>6 DEF Retired, RemoveEntrantOf, Removed, RemoveEntrant, StepOps
    <3>2. call[r].op \in ReadOps("explain")
      BY <3>1 DEF ReadOps
    <3>3. Ends(r) \/ Owes(r, "explain")
      BY <2>6 DEF Retired, Removed
    <3>4. QED
      BY <1>2, <2>2, <3>2, <3>3
  <2>7. CASE Moved(r)
    <3>1. call[r].op = "status"
      BY <2>1, <2>7 DEF Moved, SetStatus, StepOps
    <3>2. call[r].op \in ReadOps("reload") /\ call[r].op \in ReadOps("click")
      BY <3>1 DEF ReadOps
    <3>3. Ends(r) \/ Owes(r, "reload") \/ Owes(r, "click")
      BY <2>7 DEF Moved
    <3>4. QED
      BY <1>2, <2>2, <3>2, <3>3
  <2>8. QED
    BY <1>3, <2>3, <2>4, <2>5, <2>6, <2>7
<1>4. ASSUME NEW r \in Request, Reread(r)
      PROVE  \A x \in Request : AsksTail(x)'
  <2>1. \/ tail' = [tail EXCEPT ![r] = NoTail]
        \/ /\ tail[r].read = "explain_level"
           /\ tail' = [tail EXCEPT ![r] = [tail[r] EXCEPT !.read = "existing"]]
    BY <1>4 DEF Reread
  <2>2. \A x \in Request \ {r} : tail'[x] = tail[x]
    BY <2>1 DEF Tails
  <2>3. AsksTail(r)'
    <3>1. CASE tail' = [tail EXCEPT ![r] = NoTail]
      <4>1. tail'[r] = NoTail
        BY <3>1 DEF Tails
      <4>2. NoTail.call.op \in ReadOps(NoTail.read)
        BY DEF NoTail, NoCall, ReadOps
      <4>3. QED
        BY <4>1, <4>2 DEF AsksTail
    <3>2. CASE /\ tail[r].read = "explain_level"
               /\ tail' = [tail EXCEPT ![r] = [tail[r] EXCEPT !.read = "existing"]]
      <4>1. tail'[r].read = "existing" /\ tail'[r].call = tail[r].call
        BY <3>2 DEF Tails, TailType
      <4>2. tail[r].call.op \in Entering
        BY <3>2 DEF Asks, AsksTail, ReadOps
      <4>3. QED
        BY <4>1, <4>2 DEF AsksTail, ReadOps
    <3>3. QED
      BY <2>1, <3>1, <3>2
  <2>4. QED
    BY <2>2, <2>3 DEF Asks, AsksTail
<1>5. CASE World \/ UNCHANGED all
  BY <1>1, <1>5 DEF World, all
<1>6. QED
  BY <1>3, <1>4, <1>5 DEF RNext

LEMMA AskedInvariant == RSpec => []Asked
<1>1. RInit => Asks
  <2>  SUFFICES ASSUME RInit, NEW r \in Request
                PROVE  AsksStep(r) /\ AsksTail(r)
    BY DEF Asks
  <2>1. step[r] = "idle" /\ call[r] = NoCall /\ tail[r] = NoTail
    BY DEF RInit, Init
  <2>2. NoCall.op \in StepOps("idle") /\ NoTail.call.op \in ReadOps(NoTail.read)
    BY DEF NoCall, NoTail, StepOps, ReadOps
  <2>3. QED
    BY <2>1, <2>2 DEF AsksStep, AsksTail
<1>2. Owed /\ Asks /\ [RNext]_all => Asks'
  <2>  SUFFICES ASSUME Owed, Asks, [RNext]_all
                PROVE  Asks'
    OBVIOUS
  <2>1. \A x \in Request : AsksStep(x)'
    <3>1. CASE \E r \in Request : RequestNext(r)
      BY <3>1, AsksStepMoves
    <3>2. CASE step' = step /\ call' = call
      BY <3>2 DEF Asks, AsksStep
    <3>3. (\E r \in Request : RequestNext(r)) \/ (step' = step /\ call' = call)
      BY StepOfTournament DEF Next, Delete, PlayerDeleted, Tick, vars, request
    <3>4. QED
      BY <3>1, <3>2, <3>3
  <2>2. QED
    BY <2>1, AsksTailMoves DEF Asks
<1>3. QED
  BY <1>1, <1>2, OwedInvariant, PTL DEF RSpec, Asked
--------------------------------------------------------------------------------
(* Every answer has a status its route documents.                          *)

Missing  == {"PlayerIdNotFound", "TournamentNotFound", "MatchNotFound"}
Conflict == {"RegistrationClosed", "InvalidTransition", "TournamentChanged",
             "TournamentConcluded", "TournamentFull", "NotLive", "BracketExists",
             "BracketMissing", "BracketLocked", "BracketIncomplete", "TooFewEntrants",
             "MatchNotReady", "NextMatchDecided", "UnexpectedWinner"}

\* What a route may answer: a success, a row that is gone, a state that does not allow
\* it, and the refusals of two kinds that only some of the routes document.
Allowed(op) ==
  {"Ok"} \cup Missing \cup Conflict
    \cup {a \in {"Created"} : op \in Entering}
    \cup {a \in {"NotAnEntrant"} : op \in {"status", "report"}}
    \cup {a \in {"SeedOrderMismatch"} : op = "reorder"}

Answering == AllOps \ {"delete", "delete_player"}

LEMMA MissingIs404 == \A a \in Missing : StatusFor(a) = 404
<1>1. \A a \in Missing : Public(a) = "ItemNotFound"
  BY DEF Missing, Public
<1>2. StatusOf("ItemNotFound") = 404
  BY DEF StatusOf
<1>3. QED
  BY <1>1, <1>2 DEF StatusFor

LEMMA ConflictIs409 == \A a \in Conflict : StatusFor(a) = 409
<1>1. \A a \in Conflict \ {"RegistrationClosed"} : Public(a) = "InvalidState"
  BY DEF Conflict, Public
<1>2. Public("RegistrationClosed") = "RegistrationClosed"
  BY DEF Public
<1>3. StatusOf("InvalidState") = 409 /\ StatusOf("RegistrationClosed") = 409
  BY DEF StatusOf
<1>4. QED
  BY <1>1, <1>2, <1>3 DEF StatusFor

LEMMA InvalidIs422 ==
  StatusFor("NotAnEntrant") = 422 /\ StatusFor("SeedOrderMismatch") = 422
<1>1. /\ Public("NotAnEntrant") = "NotAnEntrant"
      /\ Public("SeedOrderMismatch") = "UnprocessableRequest"
  BY DEF Public
<1>2. StatusOf("NotAnEntrant") = 422 /\ StatusOf("UnprocessableRequest") = 422
  BY DEF StatusOf
<1>3. QED
  BY <1>1, <1>2 DEF StatusFor

\* What each route documents.
LEMMA RoutesDocument ==
  /\ \A op \in Answering : {404, 409} \subseteq Documented(op)
  /\ \A op \in {"status", "report", "reorder"} : 422 \in Documented(op)
  /\ \A op \in Answering \ {"retire", "remove", "delete_bracket"} : 200 \in Documented(op)
  /\ \A op \in {"retire", "remove", "delete_bracket"} : 204 \in Documented(op)
  /\ 201 \in Documented("add")
<1>1. /\ Documented("update") = {200, 404, 409}
      /\ Documented("status") = {200, 404, 409, 422}
  BY DEF Documented, RowRoutes, FieldRoutes, BracketRoutes, ResultRoutes, EntryRoutes
<1>2. /\ Documented("add") = {200, 201, 404, 409}
      /\ Documented("remove") = {204, 404, 409}
  BY DEF Documented, RowRoutes, FieldRoutes, BracketRoutes, ResultRoutes, EntryRoutes
<1>3. /\ Documented("generate") = {200, 404, 409}
      /\ Documented("reorder") = {200, 404, 409, 422}
      /\ Documented("delete_bracket") = {204, 404, 409}
  BY DEF Documented, RowRoutes, FieldRoutes, BracketRoutes, ResultRoutes, EntryRoutes
<1>4. /\ Documented("report") = {200, 404, 409, 422}
      /\ Documented("clear") = {200, 404, 409}
  BY DEF Documented, RowRoutes, FieldRoutes, BracketRoutes, ResultRoutes, EntryRoutes
<1>5. /\ Documented("register") = {200, 404, 409, 422}
      /\ Documented("retire") = {204, 404, 409}
  BY DEF Documented, RowRoutes, FieldRoutes, BracketRoutes, ResultRoutes, EntryRoutes
<1>6. \A op \in Answering :
        op \in {"update", "status", "add", "remove", "generate", "reorder",
                "delete_bracket", "report", "clear", "register", "retire"}
  BY DEF Answering, AllOps
<1>7. QED
  BY <1>1, <1>2, <1>3, <1>4, <1>5, <1>6

LEMMA AllowedDocumented ==
  ASSUME NEW op \in Answering, NEW a \in Allowed(op)
  PROVE  Answered(op, a) \in Documented(op)
<1>1. CASE a \in {"Ok", "Created"}
  <2>1. Answered(op, a) = SuccessOf(op, a)
    BY <1>1 DEF Answered
  <2>2. CASE op \in {"retire", "remove", "delete_bracket"}
    <3>1. SuccessOf(op, a) = 204
      BY <2>2 DEF SuccessOf
    <3>2. QED
      BY <2>1, <2>2, <3>1, RoutesDocument
  <2>3. CASE op = "add" /\ a = "Created"
    <3>1. SuccessOf(op, a) = 201
      BY <2>3 DEF SuccessOf
    <3>2. QED
      BY <2>1, <2>3, <3>1, RoutesDocument
  <2>4. CASE op \notin {"retire", "remove", "delete_bracket"} /\ ~(op = "add" /\ a = "Created")
    <3>1. SuccessOf(op, a) = 200
      BY <2>4 DEF SuccessOf
    <3>2. QED
      BY <2>1, <2>4, <3>1, RoutesDocument
  <2>5. QED
    BY <2>2, <2>3, <2>4
<1>2. CASE a \notin {"Ok", "Created"}
  <2>1. Answered(op, a) = StatusFor(a)
    BY <1>2 DEF Answered
  <2>2. \/ a \in Missing \/ a \in Conflict
        \/ a = "NotAnEntrant" /\ op \in {"status", "report"}
        \/ a = "SeedOrderMismatch" /\ op = "reorder"
    BY <1>2 DEF Allowed
  <2>3. QED
    BY <2>1, <2>2, MissingIs404, ConflictIs409, InvalidIs422, RoutesDocument
<1>3. QED
  BY <1>1, <1>2

\* The answers of the bracket, by the name the service gives them.
LEMMA BracketAnswers ==
  /\ FromBracket("TooFewEntrants") = "TooFewEntrants"
  /\ FromBracket("TooManyEntrants") = "TournamentFull"
  /\ FromBracket("UnknownMatch") = "MatchNotFound"
  /\ FromBracket("NotReady") = "MatchNotReady"
  /\ FromBracket("NotAParticipant") = "NotAnEntrant"
  /\ FromBracket("NextDecided") = "NextMatchDecided"
BY DEF FromBracket

LEMMA LoadsAllowed ==
  \A op \in Answering : LoadAnswers(op) \subseteq Allowed(op)
BY DEF LoadAnswers, Allowed, Missing, Conflict, Answering, AllOps

LEMMA ReadsAllowed ==
  ASSUME Asked, NEW r \in Request
  PROVE  ReadAnswers(r) \subseteq Allowed(call[r].op)
<1>1. call[r].op \in StepOps(step[r])
  BY DEF Asked, Asks, AsksStep
<1>2. Missing \cup Conflict \subseteq Allowed(call[r].op)
  BY DEF Allowed
<1>3. CASE step[r] = "arrived" \/ step[r] = "player" \/ step[r] = "editable"
  BY <1>2, <1>3 DEF ReadAnswers, Missing, Conflict
<1>4. CASE step[r] = "conclude_bracket"
  <2>1. "NotAnEntrant" \in Allowed(call[r].op)
    BY <1>1, <1>4 DEF StepOps, Allowed
  <2>2. ReadAnswers(r) \subseteq {"UnexpectedWinner", "BracketIncomplete", "NotAnEntrant"}
    BY <1>4 DEF ReadAnswers
  <2>3. QED
    BY <1>2, <2>1, <2>2 DEF Conflict
<1>5. CASE step[r] = "seeding"
  <2>1. call[r].op = "reorder" => "SeedOrderMismatch" \in Allowed(call[r].op)
    BY DEF Allowed
  <2>2. ReadAnswers(r) \subseteq
          {a \in {"SeedOrderMismatch"} : call[r].op = "reorder"}
            \cup {"TooFewEntrants", "TournamentFull"}
    BY <1>5, BracketAnswers DEF ReadAnswers
  <2>3. QED
    BY <1>2, <2>1, <2>2 DEF Conflict
<1>6. CASE step[r] = "board"
  <2>1. call[r].op = "report" => "NotAnEntrant" \in Allowed(call[r].op)
    BY DEF Allowed
  <2>2. \A e \in ResultErrors(call[r].op) :
          \/ e \in {"UnknownMatch", "NotReady", "NextDecided"}
          \/ e = "NotAParticipant" /\ call[r].op = "report"
    BY DEF ResultErrors
  <2>3. \A e \in ResultErrors(call[r].op) : FromBracket(e) \in Allowed(call[r].op)
    BY <1>2, <2>1, <2>2, BracketAnswers DEF Missing, Conflict
  <2>4. "MatchNotFound" \in Allowed(call[r].op)
    BY <1>2 DEF Missing
  <2>5. ReadAnswers(r) \subseteq
          {FromBracket(e) : e \in ResultErrors(call[r].op)} \cup {"MatchNotFound"}
    BY <1>6 DEF ReadAnswers
  <2>6. QED
    BY <2>3, <2>4, <2>5
<1>7. CASE step[r] \notin {"arrived", "player", "conclude_bracket", "editable",
                           "seeding", "board"}
  BY <1>7 DEF ReadAnswers
<1>8. QED
  BY <1>3, <1>4, <1>5, <1>6, <1>7

\* A conclusion never pays what is paid: it holds awards only while the tournament it
\* read was not concluded, and then nothing is paid yet.  So a move that does not
\* commit looks again.
LEMMA MovesLookAgain ==
  ASSUME Typed, NEW r \in Request, step[r] = "status", ~MoveCommits(r)
  PROVE  MoveFailure(r) \in LooksAgain
<1>1. CASE status # seen[r].status
  BY <1>1 DEF MoveFailure, LooksAgain
<1>2. CASE status = seen[r].status
  <2>1. seen[r].status # "concluded"
    BY DEF Typed, RequestsTyped, GuardType
  <2>2. ledger = {}
    BY <1>2, <2>1 DEF Typed, PaidOnlyWhenConcluded
  <2>3. MoveFailure(r) = FromQuery("foreign_key")
    BY <1>2, <2>2 DEF MoveFailure
  <2>4. FromQuery("foreign_key") = "ForeignKeyViolation"
    BY DEF FromQuery
  <2>5. QED
    BY <2>3, <2>4 DEF LooksAgain
<1>3. QED
  BY <1>1, <1>2

LEMMA WritesAllowed ==
  ASSUME Asked, NEW r \in Request
  PROVE  WriteAnswers(r) \subseteq Allowed(call[r].op)
<1>1. {"Ok"} \cup Missing \cup Conflict \subseteq Allowed(call[r].op)
  BY DEF Allowed
<1>2. step[r] = "status" /\ ~MoveCommits(r) => MoveFailure(r) \in LooksAgain
  BY MovesLookAgain DEF Asked, Owed
<1>3. WriteAnswers(r) \subseteq
        {"PlayerIdNotFound", "Ok", "TournamentChanged", "BracketLocked"}
  BY <1>2 DEF WriteAnswers, BracketWritten
<1>4. QED
  BY <1>1, <1>3 DEF Missing, Conflict

LEMMA TailsAllowed ==
  ASSUME Asked, NEW r \in Request
  PROVE  TailAnswers(r) \subseteq Allowed(tail[r].call.op)
<1>1. tail[r].call.op \in ReadOps(tail[r].read)
  BY DEF Asked, Asks, AsksTail
<1>2. {"Ok"} \cup Missing \cup Conflict \subseteq Allowed(tail[r].call.op)
  BY DEF Allowed
<1>3. CASE tail[r].read = "created"
  <2>1. "Created" \in Allowed(tail[r].call.op)
    BY <1>1, <1>3 DEF ReadOps, Allowed
  <2>2. TailAnswers(r) \subseteq {"PlayerIdNotFound", "Created"}
    BY <1>3 DEF TailAnswers
  <2>3. QED
    BY <1>2, <2>1, <2>2 DEF Missing
<1>4. CASE tail[r].read # "created"
  <2>1. Explained(tail[r].guard) \in
          {"TournamentNotFound", "TournamentConcluded", "BracketExists", "Ok",
           "RegistrationClosed", "TournamentChanged"}
    BY DEF Explained
  <2>2. TailAnswers(r) \subseteq
          {Explained(tail[r].guard), "TournamentNotFound", "Ok", "TournamentChanged",
           "TournamentConcluded", "TournamentFull", "PlayerIdNotFound"}
    BY <1>4 DEF TailAnswers, ClickAnswer
  <2>3. QED
    BY <1>2, <2>1, <2>2 DEF Missing, Conflict
<1>5. QED
  BY <1>3, <1>4

\* No crossing of requests, deletions and deadlines makes a route of the tournaments
\* answer with a status it does not document, an internal error least of all (the
\* routers' responses, From<StorageError>).
THEOREM EveryAnswerIsDocumented == RSpec => []AnswersAsDocumented
<1>1. Asked => AnswersAsDocumented
  <2>  SUFFICES ASSUME Asked
                PROVE  AnswersAsDocumented
    OBVIOUS
  <2>1. ASSUME NEW op \in Ops \ {"delete", "delete_player"}, NEW a \in LoadAnswers(op)
        PROVE  Answered(op, a) \in Documented(op)
    <3>1. op \in Answering
      BY OpsAssumption DEF Answering
    <3>2. QED
      BY <3>1, LoadsAllowed, AllowedDocumented
  <2>2. ASSUME NEW r \in Request, NEW a \in AnswersNow(r)
        PROVE  Answered(OpOf(r), a) \in Documented(OpOf(r))
    <3>1. CASE tail[r].read = "none"
      <4>1. a \in ReadAnswers(r) \cup WriteAnswers(r) /\ OpOf(r) = call[r].op
        BY <2>2, <3>1 DEF AnswersNow, OpOf
      <4>2. a \in Allowed(call[r].op)
        BY <4>1, ReadsAllowed, WritesAllowed
      <4>3. step[r] # "idle"
        BY <4>1 DEF ReadAnswers, WriteAnswers
      <4>4. call[r].op \in StepOps(step[r]) /\ step[r] \in Step
        BY DEF Asked, Asks, AsksStep, Owed, Typed, RequestsTyped
      <4>5. call[r].op \in Answering
        BY <4>3, <4>4 DEF StepOps, Step, Entering, Answering, AllOps
      <4>6. QED
        BY <4>1, <4>2, <4>5, AllowedDocumented
    <3>2. CASE tail[r].read # "none"
      <4>1. a \in TailAnswers(r) /\ OpOf(r) = tail[r].call.op
        BY <2>2, <3>2 DEF AnswersNow, OpOf
      <4>2. a \in Allowed(tail[r].call.op)
        BY <4>1, TailsAllowed
      <4>3. tail[r].call.op \in ReadOps(tail[r].read) /\ tail[r].read \in Reads
        BY <3>2 DEF Asked, Asks, AsksTail, Owed, Tails, TailType
      <4>4. tail[r].call.op \in Answering
        BY <4>3 DEF ReadOps, Reads, Entering, Answering, AllOps
      <4>5. QED
        BY <4>1, <4>2, <4>4, AllowedDocumented
    <3>3. QED
      BY <3>1, <3>2
  <2>3. QED
    BY <2>1, <2>2 DEF AnswersAsDocumented
<1>2. QED
  BY <1>1, AskedInvariant, PTL
--------------------------------------------------------------------------------
(* What a request has heard.  Until somebody else changes a row, every row  *)
(* a request has read is as it read it, so its write is not refused.        *)

\* What the client asked for, while the request has the tournament and while it owes
\* a read.
CallOf(r) == IF tail[r].read = "none" THEN call[r] ELSE tail[r].call

\* The clock is in the guard of register and retire alone, and a request that has
\* not begun holds no plan.
Ready(r) ==
  /\ seen[r].open_at # NoTime => call[r].op \in {"register", "retire"}
  /\ step[r] = "idle" => plan[r] = NoPlan

\* What the request read is still true.
Sees(r) ==
  /\ seen[r].open_at = NoTime => status = seen[r].status
  /\ step[r] = "conclude_bracket" =>
       plan[r].field = [e \in DOMAIN entrants |-> entrants[e].player]
  /\ step[r] = "status" => MoveCommits(r)
  /\ step[r] = "replace" => \A i \in DOMAIN plan[r].order : plan[r].order[i] \in DOMAIN entrants
  /\ step[r] = "results" => ResultCommits(r)

Explains == {"explain", "explain_full", "explain_level"}

\* The refusal it has to explain is not one of the status.
SeesTail(r) ==
  /\ tail[r].read \notin {"stale", "click"}
  /\ tail[r].read \in Explains /\ tail[r].guard.open_at = NoTime =>
       status = tail[r].guard.status

\* Others did what it asks for itself.
Clicked(r) ==
  /\ CallOf(r).op = "status" /\ CallOf(r).to = status
  /\ CallOf(r).entrant = NoEntrant

HearsRight(r) ==
  /\ since[r] \in {"none", "click", "other"}
  /\ ~Running(r) => since[r] = "none"
  /\ since[r] = "none" /\ step[r] # "idle" => Sees(r)
  /\ since[r] = "none" /\ tail[r].read # "none" => SeesTail(r)
  /\ since[r] = "click" => Clicked(r)

Hearing ==
  /\ Asked /\ Drawn /\ LivingField
  /\ \A r \in Request : Ready(r) /\ HearsRight(r)

\* How a request moves.
Starts(r) ==
  \E c, g, s :
    /\ Begin(r, c, g, s)
    /\ \/ /\ s \in {"player", "remove", "update", "conclude_entrants", "status",
                    "editable", "delete_bracket", "board"}
          /\ g = Read
       \/ s = "arrived" /\ g.open_at # NoTime /\ c.op \in {"register", "retire"}

GoesOn(r) ==
  step[r] # "idle" /\ \E s \in {"enrol", "retire", "level", "seeding"} : Goto(r, s)

LEMMA Moves ==
  ASSUME Typed, NEW r \in Request, RequestNext(r)
  PROVE  \/ /\ \/ Starts(r) \/ GoesOn(r) \/ ConcludeEntrants(r) \/ ConcludeBracket(r)
               \/ DrawOrder(r) \/ ResultBoard(r)
            /\ UNCHANGED <<rows, players, now>>
         \/ Finish(r)
<1>1. CASE \/ UpdateLoad(r) \/ AddLoad(r) \/ RemoveLoad(r) \/ StatusLoad(r)
           \/ ConcludeLoad(r) \/ DrawLoad(r) \/ DeleteBracketLoad(r) \/ ResultLoad(r)
  <2>1. \E c, s :
          /\ Begin(r, c, Read, s)
          /\ s \in {"player", "remove", "update", "conclude_entrants", "status",
                    "editable", "delete_bracket", "board"}
    BY <1>1 DEF UpdateLoad, AddLoad, RemoveLoad, StatusLoad, ConcludeLoad, DrawLoad,
                DeleteBracketLoad, ResultLoad
  <2>2. Starts(r)
    BY <2>1 DEF Starts
  <2>3. UNCHANGED <<rows, players, now>>
    BY <1>1 DEF UpdateLoad, AddLoad, RemoveLoad, StatusLoad, ConcludeLoad, DrawLoad,
                DeleteBracketLoad, ResultLoad
  <2>4. QED
    BY <2>2, <2>3
<1>2. CASE Arrive(r)
  <2>1. PICK op \in {"register", "retire"}, pl \in players, lv \in Level :
          Begin(r, [NoCall EXCEPT !.op = op, !.player = pl, !.level = lv],
                [status |-> "open", open_at |-> now], "arrived")
    BY <1>2 DEF Arrive
  <2>2. [NoCall EXCEPT !.op = op, !.player = pl, !.level = lv].op = op
    BY DEF NoCall
  <2>3. [status |-> "open", open_at |-> now].open_at # NoTime
    BY BoundsAssumption DEF Typed, RowsTyped, Time, NoTime
  <2>  DEFINE c == [NoCall EXCEPT !.op = op, !.player = pl, !.level = lv]
              g == [status |-> "open", open_at |-> now]
  <2>4. Begin(r, c, g, "arrived") /\ c.op \in {"register", "retire"} /\ g.open_at # NoTime
    BY <2>1, <2>2, <2>3
  <2>  HIDE DEF c, g
  <2>5. Starts(r)
    BY <2>4 DEF Starts
  <2>6. UNCHANGED <<rows, players, now>>
    BY <1>2 DEF Arrive
  <2>7. QED
    BY <2>5, <2>6
<1>3. CASE RegistrationLoad(r) \/ AddPlayerExists(r) \/ EnrolAlready(r) \/ DrawEditable(r)
  <2>1. GoesOn(r) \/ Finish(r)
    <3>1. ASSUME NEW s \in {"enrol", "retire", "level", "seeding"},
                 Goto(r, s), step[r] # "idle"
          PROVE  GoesOn(r)
      BY <3>1 DEF GoesOn
    <3>2. \/ Finish(r)
          \/ step[r] # "idle" /\ \E s \in {"enrol", "retire", "level", "seeding"} : Goto(r, s)
      BY <1>3 DEF RegistrationLoad, AddPlayerExists, EnrolAlready, DrawEditable
    <3>3. QED
      BY <3>1, <3>2
  <2>2. UNCHANGED <<rows, players, now>>
    BY <1>3 DEF RegistrationLoad, AddPlayerExists, EnrolAlready, DrawEditable
  <2>3. QED
    BY <2>1, <2>2
<1>4. CASE ConcludeEntrants(r) \/ ConcludeBracket(r) \/ DrawOrder(r) \/ ResultBoard(r)
  BY <1>4 DEF ConcludeEntrants, ConcludeBracket, DrawOrder, ResultBoard
<1>5. CASE \/ UpdateWrite(r) \/ EnrolInsert(r) \/ SetSkill(r) \/ RemoveEntrantOf(r)
           \/ RemoveEntrant(r) \/ SetStatus(r) \/ ReplaceBracket(r)
           \/ DeleteBracket(r) \/ UpdateMatches(r) \/ Abandon(r)
  BY <1>5 DEF UpdateWrite, EnrolInsert, SetSkill, RemoveEntrantOf, RemoveEntrant,
              SetStatus, ReplaceBracket, DeleteBracket, UpdateMatches, Abandon
<1>6. QED
  BY <1>1, <1>2, <1>3, <1>4, <1>5 DEF RequestNext

\* What a step that plans holds then.
Plans(r) ==
  \E p, s : Plan(r, p, s) /\ s \in {"conclude_bracket", "status", "replace", "results"}

LEMMA PlannersPlan ==
  ASSUME NEW r \in Request,
         ConcludeEntrants(r) \/ ConcludeBracket(r) \/ DrawOrder(r) \/ ResultBoard(r)
  PROVE  Plans(r) /\ step[r] # "idle"
BY DEF ConcludeEntrants, ConcludeBracket, DrawOrder, ResultBoard, Plans

SameRequest(x) ==
  step'[x] = step[x] /\ call'[x] = call[x] /\ seen'[x] = seen[x] /\ plan'[x] = plan[x]

LEMMA OthersKeep ==
  ASSUME Typed, NEW r \in Request, RequestNext(r), NEW x \in Request \ {r}
  PROVE  SameRequest(x)
<1>1. /\ DOMAIN step = Request /\ DOMAIN call = Request
      /\ DOMAIN seen = Request /\ DOMAIN plan = Request
  BY DEF Typed, RequestsTyped
<1>2. \/ \E c, g, s : Begin(r, c, g, s)
      \/ \E s : Goto(r, s)
      \/ \E p, s : Plan(r, p, s)
      \/ Finish(r)
  BY Moves, PlannersPlan DEF Starts, GoesOn, Plans
<1>3. QED
  BY <1>1, <1>2 DEF Begin, Goto, Plan, Finish, SameRequest

LEMMA ReadyStep ==
  ASSUME Typed, \A x \in Request : Ready(x), [Next]_vars
  PROVE  \A x \in Request : Ready(x)'
<1>1. \A x \in Request : SameRequest(x) => Ready(x)'
  BY DEF SameRequest, Ready
<1>2. /\ DOMAIN step = Request /\ DOMAIN call = Request
      /\ DOMAIN seen = Request /\ DOMAIN plan = Request
  BY DEF Typed, RequestsTyped
<1>3. ASSUME NEW r \in Request, RequestNext(r)
      PROVE  \A x \in Request : Ready(x)'
  <2>1. Ready(r)'
    <3>1. CASE Starts(r)
      <4>1. PICK c, g, s :
              /\ Begin(r, c, g, s) /\ s # "idle"
              /\ g = Read \/ c.op \in {"register", "retire"}
        BY <3>1 DEF Starts
      <4>2. Read.open_at = NoTime
        BY DEF Read, NoGuard
      <4>3. call'[r] = c /\ seen'[r] = g /\ step'[r] = s
        BY <1>2, <4>1 DEF Begin
      <4>4. QED
        BY <4>1, <4>2, <4>3 DEF Ready
    <3>2. CASE GoesOn(r)
      <4>1. PICK s : Goto(r, s) /\ s # "idle"
        BY <3>2 DEF GoesOn
      <4>2. QED
        BY <1>2, <4>1 DEF Goto, Ready
    <3>3. CASE Plans(r)
      <4>1. PICK p, s : Plan(r, p, s) /\ s # "idle"
        BY <3>3 DEF Plans
      <4>2. QED
        BY <1>2, <4>1 DEF Plan, Ready
    <3>4. CASE Finish(r)
      <4>1. seen'[r] = NoGuard /\ plan'[r] = NoPlan
        BY <1>2, <3>4 DEF Finish
      <4>2. QED
        BY <4>1 DEF Ready, NoGuard
    <3>5. QED
      BY <1>3, <3>1, <3>2, <3>3, <3>4, Moves, PlannersPlan
  <2>2. QED
    BY <1>1, <1>3, <2>1, OthersKeep
<1>4. CASE UNCHANGED request
  BY <1>1, <1>4 DEF request, SameRequest
<1>5. QED
  BY <1>3, <1>4 DEF Next, Delete, PlayerDeleted, Tick, vars
\* The status moves by the move of a request to the status it asks for, and such a
\* move changes rows only when it commits.
LEMMA StatusMoves ==
  ASSUME NEW r \in Request, RequestNext(r)
  PROVE  /\ status' = status \/ (step[r] = "status" /\ status' = call[r].to)
         /\ step[r] = "status" =>
              status' = call[r].to \/ (rows' = rows /\ players' = players)
<1>1. CASE SetStatus(r)
  BY <1>1 DEF SetStatus, rows
<1>2. CASE ~SetStatus(r)
  <2>1. status' = status
    BY <1>2 DEF RequestNext, UpdateLoad, UpdateWrite, Arrive, RegistrationLoad, AddLoad,
           AddPlayerExists, EnrolInsert, EnrolAlready, SetSkill, RemoveEntrantOf,
           RemoveLoad, RemoveEntrant, StatusLoad, ConcludeLoad, ConcludeEntrants,
           ConcludeBracket, DrawLoad, DrawEditable, DrawOrder, ReplaceBracket,
           DeleteBracketLoad, DeleteBracket, ResultLoad, ResultBoard, UpdateMatches,
           Abandon, rows
  <2>2. ASSUME step[r] = "status"
        PROVE  rows' = rows /\ players' = players
    <3>1. /\ \A c, g, s : ~Begin(r, c, g, s)
      BY <2>2 DEF Begin
    <3>2. Abandon(r)
      BY <1>2, <2>2, <3>1
         DEF RequestNext, UpdateLoad, UpdateWrite, Arrive, RegistrationLoad, AddLoad,
             AddPlayerExists, EnrolInsert, EnrolAlready, SetSkill, RemoveEntrantOf,
             RemoveLoad, RemoveEntrant, StatusLoad, ConcludeLoad, ConcludeEntrants,
             ConcludeBracket, DrawLoad, DrawEditable, DrawOrder, ReplaceBracket,
             DeleteBracketLoad, DeleteBracket, ResultLoad, ResultBoard, UpdateMatches
    <3>3. QED
      BY <3>2 DEF Abandon
  <2>3. QED
    BY <2>1, <2>2
<1>3. QED
  BY <1>1, <1>2

\* While no row changes, what was read stays true.
LEMMA SeesStays ==
  ASSUME NEW x \in Request, SameRequest(x), rows' = rows, players' = players, Sees(x)
  PROVE  Sees(x)'
<1>1. /\ status' = status /\ entrants' = entrants /\ matches' = matches
      /\ draw' = draw /\ ledger' = ledger
  BY DEF rows
<1>2. /\ MoveCommits(x) => MoveCommits(x)'
      /\ ResultCommits(x) => ResultCommits(x)'
  BY <1>1 DEF MoveCommits, ResultCommits, SameRequest
<1>3. QED
  BY <1>1, <1>2 DEF Sees, SameRequest

\* A request hears what the others do.
LEMMA OthersHear ==
  ASSUME NEW x \in Request, HearsRight(x), SameRequest(x), tail'[x] = tail[x],
         NEW click \in BOOLEAN, since'[x] = Heard(x, click),
         click /\ ~(rows' = rows /\ players' = players) => Clicked(x)'
  PROVE  HearsRight(x)'
<1>  DEFINE quiet == rows' = rows /\ players' = players
<1>1. /\ Running(x)' <=> Running(x)
      /\ step'[x] # "idle" \/ tail'[x].read # "none" => Running(x)
  BY DEF Running, SameRequest
<1>2. CASE ~Running(x)
  <2>1. since'[x] = "none"
    BY <1>2 DEF Heard, HearsRight
  <2>2. QED
    BY <1>1, <1>2, <2>1 DEF HearsRight
<1>3. CASE Running(x) /\ quiet
  <2>1. since'[x] = since[x]
    BY <1>3 DEF Heard
  <2>2. Sees(x) => Sees(x)'
    BY <1>3, SeesStays
  <2>3. status' = status
    BY <1>3 DEF rows
  <2>4. (SeesTail(x) => SeesTail(x)') /\ (Clicked(x) => Clicked(x)')
    BY <2>3 DEF SeesTail, Clicked, CallOf, SameRequest
  <2>5. QED
    BY <1>1, <1>3, <2>1, <2>2, <2>4 DEF HearsRight, SameRequest
<1>4. CASE Running(x) /\ ~quiet
  <2>1. since'[x] = "other" \/ (since'[x] = "click" /\ click)
    BY <1>4 DEF Heard
  <2>2. QED
    BY <1>1, <1>4, <2>1 DEF HearsRight
<1>5. QED
  BY <1>2, <1>3, <1>4

LEMMA WorldHears ==
  ASSUME Hearing, World
  PROVE  \A x \in Request : HearsRight(x)'
<1>  SUFFICES ASSUME NEW x \in Request
              PROVE  HearsRight(x)'
  OBVIOUS
<1>1. HearsRight(x)
  BY DEF Hearing
<1>2. SameRequest(x)
  BY DEF World, Delete, Tick, PlayerDeleted, request, SameRequest
<1>3. tail'[x] = tail[x] /\ since'[x] = Heard(x, FALSE)
  BY DEF World
<1>4. QED
  BY <1>1, <1>2, <1>3, OthersHear

\* The second of two clicks hears of the first, which moved the status to where the
\* second wants it.
LEMMA OtherRequestsHear ==
  ASSUME Hearing, NEW r \in Request, RequestNext(r), Note(r),
         NEW x \in Request \ {r}, tail'[x] = tail[x]
  PROVE  HearsRight(x)'
<1>1. HearsRight(x)
  BY DEF Hearing
<1>2. SameRequest(x)
  BY OthersKeep DEF Hearing, Asked, Owed
<1>3. since'[x] = Heard(x, SameClick(r, x))
  BY DEF Note
<1>4. SameClick(r, x) \in BOOLEAN
  BY DEF SameClick
<1>5. ASSUME SameClick(r, x), ~(rows' = rows /\ players' = players)
      PROVE  Clicked(x)'
  <2>1. /\ step[r] = "status" /\ CallOf(x).op = "status"
        /\ CallOf(x).to = call[r].to /\ CallOf(x).entrant = NoEntrant
    BY <1>5 DEF SameClick, CallOf
  <2>2. status' = call[r].to
    BY <1>5, <2>1, StatusMoves
  <2>3. CallOf(x)' = CallOf(x)
    BY <1>2 DEF CallOf, SameRequest
  <2>4. QED
    BY <2>1, <2>2, <2>3 DEF Clicked
<1>6. QED
  BY <1>1, <1>2, <1>3, <1>4, <1>5, OthersHear
LEMMA ChampionSits ==
  ASSUME Typed, OnlyEntrantsSit, HasBracket
  PROVE  Champion(matches) \in DOMAIN entrants \cup {NoEntrant}
<1>1. PICK k \in 1..8 : DOMAIN matches = Positions(k)
  BY DEF Typed, RowsTyped, Whole, HasBracket
<1>2. FinalOf(matches) \in DOMAIN matches
  BY <1>1, FinalExists
<1>3. matches[FinalOf(matches)] \in Match(DOMAIN entrants)
  BY <1>2 DEF OnlyEntrantsSit
<1>4. QED
  BY <1>3 DEF Champion, Match

\* An administrator's request holds no clock, so it sees the status as it is.
LEMMA SeesStatus ==
  ASSUME Hearing, NEW r \in Request, Sees(r), call[r].op \notin {"register", "retire"}
  PROVE  status = seen[r].status
BY DEF Hearing, Ready, Sees

\* What a conclusion has computed from rows that still stand commits: its winner is
\* an entry, its awards are for accounts that exist and nobody was paid.
LEMMA ConclusionCommits ==
  ASSUME Hearing, NEW r \in Request, Sees(r), ConcludeBracket(r)
  PROVE  MoveCommits(r)'
<1>1. Typed /\ RowsTyped /\ LivingField
  BY DEF Hearing, Asked, Owed, Typed
<1>2. status = seen[r].status
  <2>1. call[r].op \in StepOps("conclude_bracket")
    BY DEF Hearing, Asked, Asks, AsksStep, ConcludeBracket
  <2>2. QED
    BY <2>1, SeesStatus DEF StepOps
<1>3. ledger = {}
  BY <1>1, <1>2 DEF Typed, PaidOnlyWhenConcluded, RequestsTyped, GuardType
<1>  DEFINE field == plan[r].field
<1>4. PICK w \in DOMAIN entrants \cup {NoEntrant} :
        Plan(r, [NoPlan EXCEPT !.winner = w,
                   !.awards = TournamentAwards(field, matches, draw, w)], "status")
  <2>1. DOMAIN field = DOMAIN entrants
    BY DEF Sees, ConcludeBracket
  <2>2. HasBracket => Champion(matches) \in DOMAIN entrants \cup {NoEntrant}
    BY <1>1, ChampionSits DEF LivingField
  <2>3. QED
    BY <2>1, <2>2 DEF ConcludeBracket
<1>  DEFINE awards == TournamentAwards(field, matches, draw, w)
<1>5. \A a \in awards : a.player \in players
  <2>  SUFFICES ASSUME NEW a \in awards
                PROVE  a.player \in players
    OBVIOUS
  <2>1. DOMAIN matches \subseteq Position /\ draw \in Nat
    BY <1>1 DEF RowsTyped
  <2>2. PICK x \in DOMAIN field, kind \in Kind, source \in Source :
          /\ field[x] # NoPlayer
          /\ a = [player |-> field[x], kind |-> kind, source |-> source]
    <3>1. a \in TournamentAwards(field, matches, draw, w)
      OBVIOUS
    <3>  HIDE DEF field, awards
    <3>2. \E x \in DOMAIN field, kind \in Kind, source \in Source :
            IsAwardOf(a, field, matches, w, x, kind, source)
      BY <2>1, <3>1, AwardCases
    <3>3. QED
      BY <3>2 DEF IsAwardOf
  <2>3. field = [e \in DOMAIN entrants |-> entrants[e].player]
    BY DEF Sees, ConcludeBracket
  <2>4. x \in DOMAIN entrants /\ field[x] = entrants[x].player
    BY <2>2, <2>3
  <2>5. QED
    BY <1>1, <2>2, <2>4 DEF LivingField, AccountsExist
<1>  HIDE DEF awards, field
<1>6. plan'[r].winner = w /\ plan'[r].awards = awards /\ seen'[r] = seen[r]
  <2>1. plan'[r] = [NoPlan EXCEPT !.winner = w, !.awards = awards]
    BY <1>1, <1>4 DEF Plan, Typed, RequestsTyped, awards
  <2>2. seen' = seen
    BY <1>4 DEF Plan
  <2>3. QED
    BY <2>1, <2>2 DEF NoPlan
<1>7. /\ status' = status /\ entrants' = entrants /\ players' = players
      /\ ledger' = ledger
  BY DEF ConcludeBracket, rows
<1>8. QED
  BY <1>2, <1>3, <1>4, <1>5, <1>6, <1>7 DEF MoveCommits

\* Rows that a result was computed from and that still stand let it commit.
LEMMA ResultIsFresh ==
  ASSUME Hearing, NEW r \in Request, Sees(r), ResultBoard(r)
  PROVE  ResultCommits(r)'
<1>1. status = seen[r].status
  <2>1. call[r].op \in StepOps("board")
    BY DEF Hearing, Asked, Asks, AsksStep, ResultBoard
  <2>2. QED
    BY <2>1, SeesStatus DEF StepOps
<1>2. CASE Plan(r, NoPlan, "results")
  <2>1. plan'[r] = NoPlan /\ seen' = seen /\ status' = status
    BY <1>2 DEF Plan, Hearing, Asked, Owed, Typed, RequestsTyped, ResultBoard, rows
  <2>2. DOMAIN plan'[r].before = {}
    BY <2>1 DEF NoPlan
  <2>3. QED
    BY <1>1, <2>1, <2>2 DEF ResultCommits
<1>  SUFFICES ASSUME ~Plan(r, NoPlan, "results")
              PROVE  ResultCommits(r)'
  BY <1>2
<1>3. PICK p, B :
        DOMAIN B = DOMAIN matches /\ Plan(r, ResultPlan(B, p), "results")
  <2>1. PICK p, B :
          /\ p \in DOMAIN matches
          /\ \/ \E w : B = Reported(matches, p, w)
             \/ B = Cleared(matches, p)
          /\ Plan(r, ResultPlan(B, p), "results")
    BY DEF ResultBoard
  <2>2. DOMAIN B = DOMAIN matches
    BY <2>1 DEF Reported, Cleared, Feed
  <2>3. QED
    BY <2>1, <2>2
<1>4. plan'[r] = ResultPlan(B, p) /\ seen' = seen
  BY <1>3 DEF Plan, Hearing, Asked, Owed, Typed, RequestsTyped
<1>5. /\ plan'[r].draw = draw
      /\ plan'[r].before = [q \in Changed(B, p) |-> matches[q]]
  BY <1>4 DEF ResultPlan, NoPlan
<1>6. Changed(B, p) \subseteq DOMAIN matches
  BY <1>3 DEF Changed
<1>7. status' = status /\ draw' = draw /\ matches' = matches
  BY DEF ResultBoard, rows
<1>8. QED
  BY <1>1, <1>4, <1>5, <1>6, <1>7 DEF ResultCommits

\* A request that goes on from what is still true holds what is still true.
LEMMA GoingOnSees ==
  ASSUME Hearing, NEW r \in Request, Sees(r), UNCHANGED <<rows, players, now>>,
         \/ GoesOn(r) \/ ConcludeEntrants(r) \/ ConcludeBracket(r)
         \/ DrawOrder(r) \/ ResultBoard(r)
  PROVE  Sees(r)'
<1>1. /\ DOMAIN step = Request /\ DOMAIN plan = Request
  BY DEF Hearing, Asked, Owed, Typed, RequestsTyped
<1>2. status' = status /\ entrants' = entrants
  BY DEF rows
<1>3. seen'[r] = seen[r]
  BY DEF GoesOn, ConcludeEntrants, ConcludeBracket, DrawOrder, ResultBoard, Goto, Plan
<1>4. CASE GoesOn(r)
  <2>1. step'[r] \in {"enrol", "retire", "level", "seeding"}
    BY <1>1, <1>4 DEF GoesOn, Goto
  <2>2. QED
    BY <1>2, <1>3, <2>1 DEF Sees
<1>5. CASE ConcludeEntrants(r)
  <2>  DEFINE field == [e \in DOMAIN entrants |-> entrants[e].player]
  <2>1. /\ step'[r] = "conclude_bracket"
        /\ plan'[r] = [NoPlan EXCEPT !.field = field]
    BY <1>1, <1>5 DEF ConcludeEntrants, Plan
  <2>  HIDE DEF field
  <2>2. plan'[r].field = field
    BY <2>1 DEF NoPlan
  <2>3. field = [e \in DOMAIN entrants' |-> entrants'[e].player]
    BY <1>2 DEF field
  <2>4. QED
    BY <1>2, <1>3, <2>1, <2>2, <2>3 DEF Sees
<1>6. CASE ConcludeBracket(r)
  <2>1. step'[r] = "status"
    BY <1>1, <1>6 DEF ConcludeBracket, Plan
  <2>2. MoveCommits(r)'
    BY <1>6, ConclusionCommits
  <2>3. QED
    BY <1>2, <1>3, <2>1, <2>2 DEF Sees
<1>7. CASE DrawOrder(r)
  <2>1. PICK o \in SeedOrders(call[r].op) :
          Plan(r, [NoPlan EXCEPT !.order = o], "replace")
    BY <1>7 DEF DrawOrder
  <2>2. \A i \in DOMAIN o : o[i] \in DOMAIN entrants
    BY <2>1 DEF SeedOrders
  <2>3. step'[r] = "replace" /\ plan'[r].order = o
    BY <1>1, <2>1 DEF Plan, NoPlan
  <2>4. QED
    BY <1>2, <1>3, <2>2, <2>3 DEF Sees
<1>8. CASE ResultBoard(r)
  <2>1. step'[r] = "results"
    BY <1>1, <1>8 DEF ResultBoard, Plan
  <2>2. ResultCommits(r)'
    BY <1>8, ResultIsFresh
  <2>3. QED
    BY <1>2, <1>3, <2>1, <2>2 DEF Sees
<1>9. QED
  BY <1>4, <1>5, <1>6, <1>7, <1>8

\* A request that begins has just read the row.
LEMMA StartingSees ==
  ASSUME Hearing, NEW r \in Request, Starts(r), UNCHANGED <<rows, players, now>>
  PROVE  Sees(r)'
<1>1. PICK c, g, s :
        /\ Begin(r, c, g, s)
        /\ s \notin {"conclude_bracket", "replace", "results"}
        /\ g = Read \/ (s # "status" /\ g.open_at # NoTime)
  BY DEF Starts
<1>2. step'[r] = s /\ seen'[r] = g /\ plan'[r] = NoPlan
  <2>1. plan[r] = NoPlan
    BY <1>1 DEF Begin, Hearing, Ready
  <2>2. QED
    BY <1>1, <2>1 DEF Begin, Hearing, Asked, Owed, Typed, RequestsTyped
<1>3. status' = status
  BY DEF rows
<1>4. Read.status = status
  BY DEF Read, NoGuard
<1>5. s = "status" => MoveCommits(r)'
  <2>1. NoPlan.winner = NoEntrant /\ NoPlan.awards = {}
    BY DEF NoPlan
  <2>2. QED
    BY <1>1, <1>2, <1>3, <1>4, <2>1 DEF MoveCommits
<1>6. QED
  BY <1>1, <1>2, <1>3, <1>4, <1>5 DEF Sees
\* A request that sees the rows as they are is not refused for what others did: it
\* leaves no read that would have to say so.
LEMMA SeenIsNotRefused ==
  ASSUME Hearing, NEW r \in Request, Sees(r), tail[r].read = "none",
         \/ Update(r) \/ Enrolled(r) \/ Already(r) \/ EnrolRefused(r) \/ Levelled(r)
         \/ Retired(r) \/ Removed(r) \/ Moved(r)
  PROVE  /\ tail'[r].read \notin {"stale", "click"}
         /\ tail'[r].read \in Explains => status' = status
<1>1. tail \in [Request -> TailType] /\ Typed
  BY DEF Hearing, Asked, Owed, Tails
<1>2. \A read : Owes(r, read) => tail'[r].read = read
  BY <1>1 DEF Owes
<1>3. Ends(r) => tail'[r].read = "none"
  BY DEF Ends
<1>4. CASE Update(r)
  <2>1. call[r].op \in StepOps("update")
    BY <1>4 DEF Update, UpdateWrite, Hearing, Asked, Asks, AsksStep
  <2>2. status = seen[r].status
    BY <2>1, SeesStatus DEF StepOps
  <2>3. Owes(r, "reload")
    BY <1>4, <2>2 DEF Update
  <2>4. QED
    BY <1>2, <2>3 DEF Explains
<1>5. CASE Moved(r)
  <2>1. MoveCommits(r)
    BY <1>5 DEF Moved, SetStatus, Sees
  <2>2. Owes(r, "reload")
    BY <1>5, <2>1 DEF Moved
  <2>3. QED
    BY <1>2, <2>2 DEF Explains
<1>6. CASE \/ Enrolled(r) \/ Already(r) \/ EnrolRefused(r) \/ Levelled(r)
           \/ Retired(r) \/ Removed(r)
  <2>1. status' = status
    BY <1>6 DEF Enrolled, EnrolInsert, Already, EnrolAlready, EnrolRefused, Abandon,
                Levelled, SetSkill, Retired, RemoveEntrantOf, Removed, RemoveEntrant, rows
  <2>2. \/ Ends(r)
        \/ \E read \in {"created", "existing", "explain", "explain_full", "explain_level"} :
             Owes(r, read)
    BY <1>6 DEF Enrolled, Already, EnrolRefused, Levelled, Retired, Removed
  <2>3. QED
    BY <1>2, <1>3, <2>1, <2>2
<1>7. QED
  BY <1>4, <1>5, <1>6

LEMMA EndsHears ==
  ASSUME Hearing, NEW r \in Request, RequestNext(r), tail[r].read = "none", Ends(r)
  PROVE  HearsRight(r)'
<1>1. /\ Typed /\ tail' = tail /\ HearsRight(r)
      /\ since'[r] = IF step'[r] = "idle" THEN "none" ELSE since[r]
  BY DEF Hearing, Asked, Owed, Ends, Note
<1>2. step'[r] = "idle" => HearsRight(r)'
  BY <1>1 DEF HearsRight, Running
<1>3. CASE Finish(r)
  <2>1. step'[r] = "idle"
    BY <1>1, <1>3 DEF Finish, Typed, RequestsTyped
  <2>2. QED
    BY <1>2, <2>1
<1>4. CASE Starts(r) /\ UNCHANGED <<rows, players, now>>
  <2>1. step[r] = "idle"
    BY <1>4 DEF Starts, Begin
  <2>2. since[r] = "none"
    BY <1>1, <2>1 DEF HearsRight, Running
  <2>3. Sees(r)'
    BY <1>4, StartingSees
  <2>4. QED
    BY <1>1, <2>2, <2>3 DEF HearsRight
<1>5. CASE /\ \/ GoesOn(r) \/ ConcludeEntrants(r) \/ ConcludeBracket(r)
              \/ DrawOrder(r) \/ ResultBoard(r)
           /\ UNCHANGED <<rows, players, now>>
  <2>1. step[r] # "idle"
    BY <1>5, PlannersPlan DEF GoesOn
  <2>2. since[r] = "none" => Sees(r)'
    BY <1>1, <1>5, <2>1, GoingOnSees DEF HearsRight
  <2>3. call' = call /\ status' = status
    BY <1>5 DEF GoesOn, Goto, ConcludeEntrants, ConcludeBracket, DrawOrder, ResultBoard,
                Plan, rows
  <2>4. Clicked(r) => Clicked(r)'
    BY <1>1, <2>3 DEF Clicked, CallOf
  <2>5. CASE step'[r] # "idle"
    <3>1. since'[r] = since[r] /\ Running(r)'
      BY <1>1, <2>5 DEF Running
    <3>2. QED
      BY <1>1, <2>2, <2>4, <3>1 DEF HearsRight
  <2>6. QED
    BY <1>2, <2>5
<1>6. QED
  BY <1>1, <1>3, <1>4, <1>5, Moves

LEMMA WritesHear ==
  ASSUME Hearing, NEW r \in Request, RequestNext(r), tail[r].read = "none",
         \/ Update(r) \/ Enrolled(r) \/ Already(r) \/ EnrolRefused(r) \/ Levelled(r)
         \/ Retired(r) \/ Removed(r) \/ Moved(r)
  PROVE  HearsRight(r)'
<1>1. Typed /\ tail \in [Request -> TailType] /\ HearsRight(r)
  BY DEF Hearing, Asked, Owed, Tails
<1>2. CASE Ends(r)
  BY <1>2, EndsHears
<1>3. ASSUME NEW read \in Reads, Owes(r, read), step' = [step EXCEPT ![r] = "idle"]
      PROVE  HearsRight(r)'
  <2>1. /\ tail'[r].read = read /\ read # "none"
        /\ tail'[r].call = call[r] /\ tail'[r].guard = seen[r]
    BY <1>1, <1>3 DEF Owes, Reads
  <2>2. since'[r] = since[r] /\ Running(r)' /\ step'[r] = "idle"
    BY <1>1, <1>3, <2>1 DEF Owes, Note, Running, Typed, RequestsTyped
  <2>3. step[r] # "idle"
    BY DEF Update, UpdateWrite, Enrolled, EnrolInsert, Already, EnrolAlready,
           EnrolRefused, Levelled, SetSkill, Retired, RemoveEntrantOf, Removed,
           RemoveEntrant, Moved, SetStatus
  <2>4. since[r] = "none" => SeesTail(r)'
    <3>1. SUFFICES ASSUME since[r] = "none"
                   PROVE  SeesTail(r)'
      OBVIOUS
    <3>2. Sees(r)
      BY <1>1, <2>3, <3>1 DEF HearsRight
    <3>3. /\ tail'[r].read \notin {"stale", "click"}
          /\ tail'[r].read \in Explains => status' = status
      BY <3>2, SeenIsNotRefused
    <3>4. QED
      BY <2>1, <3>2, <3>3 DEF Sees, SeesTail
  <2>5. Clicked(r) => Clicked(r)'
    <3>1. CallOf(r)' = CallOf(r) /\ CallOf(r) = call[r]
      BY <2>1 DEF CallOf
    <3>2. status' = status \/ status' = call[r].to
      BY StatusMoves
    <3>3. QED
      BY <3>1, <3>2 DEF Clicked
  <2>6. QED
    BY <1>1, <2>2, <2>4, <2>5 DEF HearsRight
<1>4. QED
  BY <1>1, <1>2, <1>3, WriteLeaves

LEMMA RereadHears ==
  ASSUME Hearing, NEW r \in Request, Reread(r)
  PROVE  \A x \in Request : HearsRight(x)'
<1>1. /\ \A x \in Request : HearsRight(x) /\ TailFits(tail[x], step[x])
      /\ tail \in [Request -> TailType]
  BY DEF Hearing, Asked, Owed, Tails
<1>2. \A x \in Request : SameRequest(x)
  BY DEF Reread, vars, request, SameRequest
<1>3. UNCHANGED <<rows, players, status>> /\ step' = step
  BY DEF Reread, vars, rows, request
<1>4. ASSUME NEW x \in Request \ {r}
      PROVE  HearsRight(x)'
  <2>1. tail'[x] = tail[x]
    BY <1>1 DEF Reread
  <2>2. since'[x] = Heard(x, SameClick(r, x)) /\ SameClick(r, x) \in BOOLEAN
    BY DEF Reread, Note, SameClick
  <2>3. QED
    BY <1>1, <1>2, <1>3, <2>1, <2>2, OthersHear
<1>5. HearsRight(r)'
  <2>1. step[r] = "idle" /\ tail[r].read # "none"
    BY <1>1 DEF Reread, TailFits
  <2>2. CASE tail'[r].read = "none"
    <3>1. since'[r] = "none"
      BY <1>3, <2>1, <2>2 DEF Reread, Note
    <3>2. QED
      BY <1>3, <2>1, <2>2, <3>1 DEF HearsRight, Running
  <2>3. CASE tail'[r].read # "none"
    <3>1. tail'[r] = [tail[r] EXCEPT !.read = "existing"]
      BY <1>1, <2>3 DEF Reread, NoTail
    <3>2. tail'[r].read = "existing" /\ tail'[r].call = tail[r].call
      BY <1>1, <3>1 DEF TailType
    <3>3. since'[r] = since[r] /\ Running(r)'
      BY <2>3 DEF Reread, Note, Running
    <3>4. SeesTail(r)'
      BY <3>2 DEF SeesTail, Explains
    <3>5. Clicked(r) => Clicked(r)'
      BY <1>3, <2>1, <2>3, <3>2 DEF Clicked, CallOf
    <3>6. QED
      BY <1>1, <1>3, <2>1, <3>3, <3>4, <3>5 DEF HearsRight
  <2>4. QED
    BY <2>2, <2>3
<1>6. QED
  BY <1>4, <1>5

LEMMA HearingStep ==
  ASSUME Hearing, [RNext]_all
  PROVE  \A x \in Request : HearsRight(x)'
<1>1. ASSUME NEW r \in Request, tail[r].read = "none",
             \/ Proceed(r) \/ Update(r) \/ Enrolled(r) \/ Already(r)
             \/ EnrolRefused(r) \/ Levelled(r) \/ Retired(r) \/ Removed(r) \/ Moved(r)
      PROVE  \A x \in Request : HearsRight(x)'
  <2>1. RequestNext(r)
    BY <1>1 DEF Proceed, Update, Enrolled, Already, EnrolRefused, Levelled, Retired,
                Removed, Moved, RequestNext
  <2>2. Ends(r) \/ \E read : Owes(r, read)
    BY <1>1 DEF Proceed, Update, Enrolled, Already, EnrolRefused, Levelled, Retired,
                Removed, Moved
  <2>3. Note(r) /\ \A x \in Request \ {r} : tail'[x] = tail[x]
    BY <2>2 DEF Ends, Owes, Hearing, Asked, Owed, Tails
  <2>4. HearsRight(r)'
    BY <1>1, <2>1, EndsHears, WritesHear DEF Proceed
  <2>5. QED
    BY <2>1, <2>3, <2>4, OtherRequestsHear
<1>2. CASE UNCHANGED all
  BY <1>2 DEF all, vars, rows, request, Hearing, HearsRight, Running, Sees, SeesTail,
              Clicked, CallOf, MoveCommits, ResultCommits
<1>3. QED
  BY <1>1, <1>2, RereadHears, WorldHears DEF RNext

LEMMA HearingInvariant == RSpec => []Hearing
<1>1. RInit => \A r \in Request : Ready(r) /\ HearsRight(r)
  BY DEF RInit, Init, Ready, NoGuard, HearsRight, Running, NoTail
<1>2. Hearing /\ [RNext]_all => \A r \in Request : Ready(r)' /\ HearsRight(r)'
  BY HearingStep, ReadyStep, StepOfTournament DEF Hearing, Asked, Owed
<1>  DEFINE Each == \A r \in Request : Ready(r) /\ HearsRight(r)
<1>3. RInit => Each
  BY <1>1
<1>4. Asked /\ Drawn /\ LivingField /\ Each /\ [RNext]_all => Each'
  BY <1>2 DEF Hearing
<1>5. Asked /\ Drawn /\ LivingField /\ Each => Hearing
  BY DEF Hearing
<1>  HIDE DEF Each
<1>6. QED
  BY <1>3, <1>4, <1>5, AskedInvariant, AnswersChangeNoRow, DrawnInvariant,
     BracketSeatsEntrants, PTL DEF RSpec

\* A client is told that the tournament changed in the meantime only when somebody
\* else did change it since the request first read it, and for a second click that
\* names no winner only when it was something else than the same click
\* (TournamentChanged, change_status, bracket_written, explain_refusal).
THEOREM ChangedIsTheTruth == RSpec => []ChangedMeansOthers
<1>1. Hearing => ChangedMeansOthers
  <2>  SUFFICES ASSUME Hearing, NEW r \in Request,
                       "TournamentChanged" \in AnswersNow(r), since[r] # "other"
                PROVE  FALSE
    BY DEF ChangedMeansOthers
  <2>1. HearsRight(r) /\ since[r] \in {"none", "click"}
    BY DEF Hearing, HearsRight
  <2>2. CASE tail[r].read = "none"
    <3>1. "TournamentChanged" \in ReadAnswers(r) \cup WriteAnswers(r)
      BY <2>2 DEF AnswersNow
    <3>2. step[r] \in {"replace", "delete_bracket", "results"}
      <4>1. "TournamentChanged" \notin ReadAnswers(r)
        BY BracketAnswers DEF ReadAnswers, ResultErrors
      <4>2. step[r] = "status" /\ ~MoveCommits(r) => MoveFailure(r) \in LooksAgain
        BY MovesLookAgain DEF Hearing, Asked, Owed
      <4>3. QED
        BY <3>1, <4>1, <4>2 DEF WriteAnswers
    <3>3. "TournamentChanged" \in WriteAnswers(r)
      BY <3>1, <3>2 DEF ReadAnswers
    <3>4. call[r].op \in {"generate", "reorder", "delete_bracket", "report", "clear"}
      BY <3>2 DEF Hearing, Asked, Asks, AsksStep, StepOps
    <3>5. since[r] = "none"
      BY <2>1, <2>2, <3>4 DEF HearsRight, Clicked, CallOf
    <3>6. Sees(r)
      BY <2>1, <3>2, <3>5 DEF HearsRight
    <3>7. status = seen[r].status
      BY <3>4, <3>6, SeesStatus
    <3>8. CASE step[r] = "replace"
      <4>1. HasResults(matches) \/ ReplaceCommits(r)
        BY <3>6, <3>7, <3>8 DEF Sees, ReplaceCommits, Rebuildable
      <4>2. QED
        BY <3>3, <3>7, <3>8, <4>1 DEF WriteAnswers, BracketWritten
    <3>9. CASE step[r] = "delete_bracket"
      <4>1. HasResults(matches) \/ Rebuildable(r)
        BY <3>7 DEF Rebuildable
      <4>2. QED
        BY <3>3, <3>7, <3>9, <4>1 DEF WriteAnswers, BracketWritten
    <3>10. CASE step[r] = "results"
      BY <3>3, <3>6, <3>10 DEF Sees, WriteAnswers
    <3>11. QED
      BY <3>2, <3>8, <3>9, <3>10
  <2>3. CASE tail[r].read # "none"
    <3>1. "TournamentChanged" \in TailAnswers(r)
      BY <2>3 DEF AnswersNow
    <3>2. CASE since[r] = "none"
      <4>1. SeesTail(r)
        BY <2>1, <2>3, <3>2 DEF HearsRight
      <4>2. tail[r].read \in Explains /\ Explained(tail[r].guard) = "TournamentChanged"
        BY <3>1, <4>1 DEF TailAnswers, SeesTail, Explains
      <4>3. QED
        BY <4>1, <4>2 DEF SeesTail, Explained
    <3>3. CASE since[r] = "click"
      <4>1. /\ tail[r].call.op = "status" /\ tail[r].call.to = status
            /\ tail[r].call.entrant = NoEntrant
        BY <2>1, <2>3, <3>3 DEF HearsRight, Clicked, CallOf
      <4>2. tail[r].read \in {"reload", "click"}
        BY <2>3, <4>1
           DEF Hearing, Asked, Asks, AsksTail, ReadOps, Entering, Owed, Tails, TailType, Reads
      <4>3. QED
        BY <3>1, <4>1, <4>2 DEF TailAnswers, ClickAnswer
    <3>4. QED
      BY <2>1, <3>2, <3>3
  <2>4. QED
    BY <2>2, <2>3
<1>2. QED
  BY <1>1, HearingInvariant, PTL
--------------------------------------------------------------------------------
(* A conclusion that nobody crosses.                                        *)

\* What the conclusion of r has computed is right of the rows as they stand.
Concludes(r) ==
  /\ plan[r].winner = IF HasBracket THEN Champion(matches) ELSE call[r].entrant
  /\ plan[r].awards = TournamentAwards([e \in DOMAIN entrants |-> entrants[e].player],
                                       matches, draw, plan[r].winner)

QuietIsRight(r) ==
  step[r] = "status" /\ call[r].to = "concluded" /\ since[r] = "none" => Concludes(r)

Quiet == \A r \in Request : QuietIsRight(r)

\* A request comes to the write of the status from the reads of a conclusion, or with
\* a move that is none.
LEMMA WhereStatusComesFrom ==
  ASSUME Typed, NEW r \in Request, RequestNext(r), step'[r] = "status"
  PROVE  ConcludeBracket(r) \/ call'[r].to # "concluded"
<1>1. /\ DOMAIN step = Request /\ DOMAIN call = Request
  BY DEF Typed, RequestsTyped
<1>2. ~Finish(r)
  BY <1>1 DEF Finish
<1>3. \A c, g, s : Begin(r, c, g, s) => s = "status" /\ call'[r] = c
  BY <1>1 DEF Begin
<1>4. (\A s : Goto(r, s) => s = "status") /\ (\A p, s : Plan(r, p, s) => s = "status")
  BY <1>1 DEF Goto, Plan
<1>5. CASE StatusLoad(r)
  <2>1. PICK to \in Status \ {"gone", "concluded"} :
          Begin(r, [Admin("status") EXCEPT !.to = to], Read, "status")
    BY <1>5 DEF StatusLoad
  <2>2. call'[r] = [Admin("status") EXCEPT !.to = to]
    BY <1>3, <2>1
  <2>3. call'[r].to = to
    BY <2>2 DEF Admin, NoCall
  <2>4. QED
    BY <2>1, <2>3
<1>6. CASE \/ UpdateLoad(r) \/ AddLoad(r) \/ RemoveLoad(r) \/ ConcludeLoad(r)
           \/ DrawLoad(r) \/ DeleteBracketLoad(r) \/ ResultLoad(r)
  <2>1. \E c, s :
          /\ Begin(r, c, Read, s)
          /\ s \in {"player", "remove", "update", "conclude_entrants", "editable",
                    "delete_bracket", "board"}
    BY <1>6 DEF UpdateLoad, AddLoad, RemoveLoad, ConcludeLoad, DrawLoad,
                DeleteBracketLoad, ResultLoad
  <2>2. QED
    BY <1>3, <2>1
<1>7. CASE Arrive(r)
  <2>1. \E c, g : Begin(r, c, g, "arrived")
    BY <1>7 DEF Arrive
  <2>2. QED
    BY <1>3, <2>1
<1>8. CASE \/ RegistrationLoad(r) \/ AddPlayerExists(r) \/ EnrolAlready(r)
           \/ DrawEditable(r) \/ ConcludeEntrants(r) \/ DrawOrder(r) \/ ResultBoard(r)
  BY <1>2, <1>4, <1>8 DEF RegistrationLoad, AddPlayerExists, EnrolAlready, DrawEditable,
                          ConcludeEntrants, DrawOrder, ResultBoard
<1>9. CASE \/ UpdateWrite(r) \/ EnrolInsert(r) \/ SetSkill(r) \/ RemoveEntrantOf(r)
           \/ RemoveEntrant(r) \/ SetStatus(r) \/ ReplaceBracket(r)
           \/ DeleteBracket(r) \/ UpdateMatches(r) \/ Abandon(r)
  BY <1>2, <1>9 DEF UpdateWrite, EnrolInsert, SetSkill, RemoveEntrantOf, RemoveEntrant,
                    SetStatus, ReplaceBracket, DeleteBracket, UpdateMatches, Abandon
<1>10. QED
  BY <1>5, <1>6, <1>7, <1>8, <1>9 DEF RequestNext

\* Rows that still stand when the bracket is read give the right winner and awards.
LEMMA ConclusionIsRight ==
  ASSUME Hearing, NEW r \in Request, Sees(r), ConcludeBracket(r)
  PROVE  Concludes(r)'
<1>  DEFINE field == plan[r].field
            now_in == [e \in DOMAIN entrants |-> entrants[e].player]
<1>1. field = now_in
  BY DEF Sees, ConcludeBracket
<1>2. PICK w :
        /\ w = IF HasBracket THEN Champion(matches) ELSE call[r].entrant
        /\ Plan(r, [NoPlan EXCEPT !.winner = w,
                      !.awards = TournamentAwards(field, matches, draw, w)], "status")
  BY DEF ConcludeBracket
<1>  HIDE DEF field
<1>  DEFINE paid == TournamentAwards(now_in, matches, draw, w)
<1>3. plan'[r] = [NoPlan EXCEPT !.winner = w, !.awards = paid] /\ call'[r] = call[r]
  BY <1>1, <1>2 DEF Plan, Hearing, Asked, Owed, Typed, RequestsTyped
<1>  HIDE DEF paid
<1>4. plan'[r].winner = w /\ plan'[r].awards = paid
  BY <1>3 DEF NoPlan
<1>5. matches' = matches /\ entrants' = entrants /\ draw' = draw
  BY DEF ConcludeBracket, rows
<1>6. plan'[r].winner = (IF HasBracket THEN Champion(matches) ELSE call[r].entrant)'
  BY <1>2, <1>3, <1>4, <1>5 DEF HasBracket
<1>7. plan'[r].awards = TournamentAwards([e \in DOMAIN entrants |-> entrants[e].player],
                                         matches, draw, plan[r].winner)'
  BY <1>4, <1>5 DEF paid
<1>8. QED
  BY <1>6, <1>7 DEF Concludes

\* What was right of the rows is right until one changes.
LEMMA QuietStays ==
  ASSUME NEW x \in Request, QuietIsRight(x), SameRequest(x), NEW click \in BOOLEAN,
         since'[x] = Heard(x, click)
  PROVE  QuietIsRight(x)'
<1>  SUFFICES ASSUME step'[x] = "status", call'[x].to = "concluded", since'[x] = "none"
              PROVE  Concludes(x)'
  BY DEF QuietIsRight
<1>1. step[x] = "status" /\ call[x].to = "concluded" /\ plan'[x] = plan[x]
  BY DEF SameRequest
<1>2. Running(x)
  BY <1>1 DEF Running
<1>3. rows' = rows /\ since[x] = "none"
  BY <1>2 DEF Heard
<1>4. Concludes(x)
  BY <1>1, <1>3 DEF QuietIsRight
<1>5. matches' = matches /\ entrants' = entrants /\ draw' = draw /\ call'[x] = call[x]
  BY <1>3 DEF rows, SameRequest
<1>6. QED
  BY <1>1, <1>4, <1>5 DEF Concludes, HasBracket

LEMMA QuietStep ==
  ASSUME Hearing, Quiet, [RNext]_all
  PROVE  Quiet'
<1>1. /\ Typed /\ tail \in [Request -> TailType]
      /\ \A x \in Request : HearsRight(x) /\ QuietIsRight(x) /\ TailFits(tail[x], step[x])
  BY DEF Hearing, Asked, Owed, Tails, Quiet
<1>2. ASSUME NEW r \in Request, RequestNext(r), Note(r)
      PROVE  Quiet'
  <2>1. ASSUME NEW x \in Request \ {r}
        PROVE  QuietIsRight(x)'
    <3>1. SameRequest(x)
      BY <1>1, <1>2, OthersKeep
    <3>2. since'[x] = Heard(x, SameClick(r, x)) /\ SameClick(r, x) \in BOOLEAN
      BY <1>2 DEF Note, SameClick
    <3>3. QED
      BY <1>1, <3>1, <3>2, QuietStays
  <2>2. QuietIsRight(r)'
    <3>  SUFFICES ASSUME step'[r] = "status", call'[r].to = "concluded", since'[r] = "none"
                  PROVE  Concludes(r)'
      BY DEF QuietIsRight
    <3>1. ConcludeBracket(r)
      BY <1>1, <1>2, WhereStatusComesFrom
    <3>2. since[r] = "none"
      BY <1>2 DEF Note
    <3>3. Sees(r)
      BY <1>1, <3>1, <3>2 DEF HearsRight, ConcludeBracket
    <3>4. QED
      BY <3>1, <3>3, ConclusionIsRight
  <2>3. QED
    BY <2>1, <2>2 DEF Quiet
<1>3. ASSUME NEW r \in Request, tail[r].read = "none",
             \/ Proceed(r) \/ Update(r) \/ Enrolled(r) \/ Already(r)
             \/ EnrolRefused(r) \/ Levelled(r) \/ Retired(r) \/ Removed(r) \/ Moved(r)
      PROVE  Quiet'
  <2>1. RequestNext(r)
    BY <1>3 DEF Proceed, Update, Enrolled, Already, EnrolRefused, Levelled, Retired,
                Removed, Moved, RequestNext
  <2>2. Ends(r) \/ \E read : Owes(r, read)
    BY <1>3 DEF Proceed, Update, Enrolled, Already, EnrolRefused, Levelled, Retired,
                Removed, Moved
  <2>3. Note(r)
    BY <2>2 DEF Ends, Owes
  <2>4. QED
    BY <1>2, <2>1, <2>3
<1>4. ASSUME NEW r \in Request, Reread(r)
      PROVE  Quiet'
  <2>1. ASSUME NEW x \in Request \ {r}
        PROVE  QuietIsRight(x)'
    <3>1. SameRequest(x)
      BY <1>4 DEF Reread, vars, request, SameRequest
    <3>2. since'[x] = Heard(x, SameClick(r, x)) /\ SameClick(r, x) \in BOOLEAN
      BY <1>4 DEF Reread, Note, SameClick
    <3>3. QED
      BY <1>1, <3>1, <3>2, QuietStays
  <2>2. step'[r] = "idle"
    BY <1>1, <1>4 DEF Reread, TailFits, vars, request
  <2>3. QED
    BY <2>1, <2>2 DEF Quiet, QuietIsRight
<1>5. CASE World
  <2>  SUFFICES ASSUME NEW x \in Request
                PROVE  QuietIsRight(x)'
    BY DEF Quiet
  <2>1. SameRequest(x)
    BY <1>5 DEF World, Delete, Tick, PlayerDeleted, request, SameRequest
  <2>2. since'[x] = Heard(x, FALSE)
    BY <1>5 DEF World
  <2>3. QED
    BY <1>1, <2>1, <2>2, QuietStays
<1>6. CASE UNCHANGED all
  BY <1>6 DEF all, vars, rows, request, Quiet, QuietIsRight, Concludes, HasBracket
<1>7. QED
  BY <1>3, <1>4, <1>5, <1>6 DEF RNext

\* Nobody is paid while the tournament runs, and the write of a conclusion whose
\* request heard nothing commits what it computed.
LEMMA QuietWrite ==
  ASSUME Hearing, Quiet, NEW r \in Request, since[r] = "none", Moved(r),
         status' = "concluded"
  PROVE  /\ winner' = IF HasBracket THEN Champion(matches) ELSE call[r].entrant
         /\ ledger' = TournamentAwards([e \in DOMAIN entrants |-> entrants[e].player],
                                       matches, draw, winner')
<1>1. SetStatus(r) /\ step[r] = "status"
  BY DEF Moved, SetStatus
<1>2. Sees(r)
  BY <1>1 DEF Hearing, HearsRight
<1>3. MoveCommits(r)
  BY <1>1, <1>2 DEF Sees
<1>4. /\ status' = call[r].to /\ winner' = plan[r].winner
      /\ ledger' = ledger \cup plan[r].awards
  BY <1>1, <1>3 DEF SetStatus
<1>5. Concludes(r)
  BY <1>1, <1>4 DEF Quiet, QuietIsRight
<1>6. ledger = {}
  BY <1>3 DEF MoveCommits, Hearing, Asked, Owed, Typed, PaidOnlyWhenConcluded,
              RequestsTyped, GuardType
<1>7. QED
  BY <1>4, <1>5, <1>6 DEF Concludes

\* A conclusion that nobody crosses is right (conclusion, set_status): the winner and
\* the awards are those of the rows as they stand.  So only what others commit between
\* the reads of a conclusion and its write can part the winner from the final.
THEOREM QuietConclusionsAreRight == RSpec => QuietConclusionIsRight
<1>1. RInit => Quiet
  BY DEF RInit, Init, Quiet, QuietIsRight
<1>2. Hearing /\ Quiet /\ [RNext]_all => Quiet'
  BY QuietStep
<1>  DEFINE Right ==
       \A r \in Request :
         since[r] = "none" /\ Moved(r) /\ status' = "concluded" =>
           /\ winner' = IF HasBracket THEN Champion(matches) ELSE call[r].entrant
           /\ ledger' = TournamentAwards([e \in DOMAIN entrants |-> entrants[e].player],
                                         matches, draw, winner')
<1>3. Hearing /\ Quiet => Right
  BY QuietWrite
<1>4. QED
  BY <1>1, <1>2, <1>3, HearingInvariant, PTL DEF RSpec, QuietConclusionIsRight
================================================================================
