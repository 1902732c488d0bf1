------------------------------ MODULE Doors_proofs -----------------------------
(***************************************************************************)
(* What holds of Doors for any number of events, accounts and requests.    *)
(*                                                                         *)
(* Sound is what the foreign keys, the unique index of the ledger and the  *)
(* transactions of check_in and remove_checkin keep together: a check-in   *)
(* is of a night and an account that are there, and has its row; a row of  *)
(* a check-in has its check-in; an adjustment is its own source.  The      *)
(* board needs no invariant: a place depends on those above it alone.      *)
(***************************************************************************)
EXTENDS Doors, FiniteSums, TLAPS

CallRow == [op : {"none", "scan", "add", "remove", "adjust"}, event : Event \cup {"none"},
            player : Player \cup {"none"}, admin : Player \cup {"none"}]

ReceiptRow == [kind : {"none", "new", "already"}, was_active : BOOLEAN]

RowsOK ==
  /\ account \in [Player -> AccountState]
  /\ event \in [Event -> [status : EventState, open : BOOLEAN]]
  /\ adjusted \in 0..MaxAdjustments

RequestOK ==
  /\ step \in [Request -> {"idle", "player", "record", "answer", "remove", "adjust"}]
  /\ call \in [Request -> CallRow]
  /\ receipt \in [Request -> ReceiptRow]

\* A request that is about to write names an event and a player.
Named ==
  \A r \in Request :
    /\ step[r] \in {"player", "record", "remove"} => call[r].event \in Event
    /\ step[r] \in {"player", "record", "remove", "adjust"} => call[r].player \in Player

CheckinsSound ==
  /\ checkins \subseteq Event \X Player
  /\ \A x \in checkins : x[1] \in Events /\ x[2] \in Players
  /\ \A e \in Event, p \in Player : <<e, p>> \in checkins => CheckinRow(e, p) \in ledger

RowSound(row) ==
  /\ row.player \in Players
  /\ \/ /\ row.kind = "checkin" /\ row.source \in Event
        /\ <<row.source, row.player>> \in checkins
        /\ row = CheckinRow(row.source, row.player)
     \/ row.kind = "adjustment" /\ row.source \in 1..adjusted /\ row.amount \in Amounts

LedgerSound ==
  /\ \A row \in ledger : RowSound(row)
  /\ \A x, y \in ledger :
       x.kind = "adjustment" /\ y.kind = "adjustment" /\ x.source = y.source => x = y

Sound == CheckinsSound /\ LedgerSound
Inv   == RowsOK /\ RequestOK /\ Named /\ Sound

LEMMA PlayersAre == Players \subseteq Player /\ Events \subseteq Event /\ Admins \subseteq Player
  BY DEF Players, Events, Admins

LEMMA RowFields ==
  ASSUME NEW e, NEW p
  PROVE  /\ CheckinRow(e, p).player = p /\ CheckinRow(e, p).kind = "checkin"
         /\ CheckinRow(e, p).source = e /\ CheckinRow(e, p).amount = CheckinCycles
  BY DEF CheckinRow

\* The types and the properties follow from the invariant.
LEMMA InvTypes == Inv => TypeOK
<1> SUFFICES ASSUME Inv PROVE TypeOK
  OBVIOUS
<1>1. ASSUME NEW row \in ledger
      PROVE  /\ row.player \in Players
             /\ \/ row.kind = "checkin" /\ row.source \in Event /\ row.amount = CheckinCycles
                \/ row.kind = "adjustment" /\ row.source \in 1..adjusted /\ row.amount \in Amounts
  <2>1. RowSound(row)
    BY DEF Inv, Sound, LedgerSound
  <2>2. CheckinRow(row.source, row.player).amount = CheckinCycles
    BY RowFields
  <2>3. QED
    BY <2>1, <2>2 DEF RowSound
<1>2. QED
  BY <1>1 DEF Inv, TypeOK, RowsOK, RequestOK, CallRow, ReceiptRow, Sound, CheckinsSound

LEMMA InvPaid == Inv => PaidPerCheckin
<1> SUFFICES ASSUME Inv PROVE PaidPerCheckin
  OBVIOUS
<1> DEFINE Pairs == {<<row.source, row.player>> : row \in {x \in ledger : x.kind = "checkin"}}
<1>1. Pairs \subseteq checkins
  <2>1. \A row \in ledger : row.kind = "checkin" => <<row.source, row.player>> \in checkins
    BY DEF Inv, Sound, LedgerSound, RowSound
  <2>2. QED
    BY <2>1
<1>2. checkins \subseteq Pairs
  <2> SUFFICES ASSUME NEW e \in Event, NEW p \in Player, <<e, p>> \in checkins
               PROVE  <<e, p>> \in Pairs
    BY DEF Inv, Sound, CheckinsSound
  <2>1. CheckinRow(e, p) \in ledger
    BY DEF Inv, Sound, CheckinsSound
  <2>2. QED
    BY <2>1, RowFields
<1>3. checkins \subseteq Events \X Players
  BY DEF Inv, Sound, CheckinsSound
<1>4. ASSUME NEW x \in ledger, NEW y \in ledger, x # y
      PROVE  <<x.kind, x.player, x.source>> # <<y.kind, y.player, y.source>>
  BY <1>4 DEF Inv, Sound, LedgerSound, RowSound
<1>5. QED
  BY <1>1, <1>2, <1>3, <1>4 DEF PaidPerCheckin

LEMMA InitInv == Init => Inv
  BY BoundAssumption
  DEF Init, Inv, RowsOK, RequestOK, Named, Sound, CheckinsSound, LedgerSound, AccountState,
      EventState, CallRow, ReceiptRow, NoCall, NoReceipt

\* The rows stay sound where nothing they name goes and they stay themselves.
LEMMA SoundStays ==
  ASSUME Sound, UNCHANGED <<checkins, ledger, adjusted>>,
         Events \subseteq Events', Players \subseteq Players'
  PROVE  Sound'
  BY DEF Sound, CheckinsSound, LedgerSound, RowSound, CheckinRow

\* The rows stay sound where some go, the check-ins with their cycles, and with them
\* all that names an event or an account that went.
LEMMA SoundShrinks ==
  ASSUME Sound, checkins' \subseteq checkins, ledger' \subseteq ledger, adjusted' = adjusted,
         \A x \in checkins' : x[1] \in Events' /\ x[2] \in Players',
         \A row \in ledger' : row.player \in Players',
         \A row \in ledger' : row.kind = "checkin" => <<row.source, row.player>> \in checkins',
         \A e \in Event, p \in Player : <<e, p>> \in checkins' => CheckinRow(e, p) \in ledger'
  PROVE  Sound'
<1>1. CheckinsSound'
  BY DEF Sound, CheckinsSound, CheckinRow
<1>2. \A row \in ledger' : RowSound(row)'
  BY DEF Sound, LedgerSound, RowSound, CheckinRow
<1>3. QED
  BY <1>1, <1>2 DEF Sound, LedgerSound

--------------------------------------------------------------------------------
(* One lemma for each group of actions.                                    *)

LEMMA EventKeeps ==
  ASSUME Inv, NEW e \in Event,
         \/ CreateEvent(e) \/ UpdateEvent(e) \/ SetEventStatus(e) \/ Clock(e)
  PROVE  Inv'
<1>1. RowsOK' /\ RequestOK' /\ Named'
  <2>1. event' \in [Event -> [status : EventState, open : BOOLEAN]]
    <3>1. event \in [Event -> [status : EventState, open : BOOLEAN]]
      BY DEF Inv, RowsOK
    <3>2. CASE CreateEvent(e)
      BY <3>1, <3>2 DEF CreateEvent, EventState
    <3>3. CASE UpdateEvent(e)
      BY <3>1, <3>3 DEF UpdateEvent
    <3>4. CASE SetEventStatus(e)
      BY <3>1, <3>4 DEF SetEventStatus, EventState
    <3>5. CASE Clock(e)
      <4>1. (~event[e].open) \in BOOLEAN
        OBVIOUS
      <4>2. event' = [event EXCEPT ![e].open = ~event[e].open]
        BY <3>5 DEF Clock
      <4>3. QED
        BY <3>1, <4>1, <4>2
    <3>6. QED
      BY <3>2, <3>3, <3>4, <3>5
  <2>2. UNCHANGED <<account, adjusted, step, call, receipt>>
    BY DEF CreateEvent, UpdateEvent, SetEventStatus, Clock, request
  <2>3. QED
    BY <2>1, <2>2 DEF Inv, RowsOK, RequestOK, Named
<1>2. /\ UNCHANGED <<checkins, ledger, adjusted, account>>
      /\ Events \subseteq Events' /\ Players' = Players
  BY DEF Inv, RowsOK, CreateEvent, UpdateEvent, SetEventStatus, Clock, Events, Players
<1>3. Sound'
  BY <1>2, SoundStays DEF Inv
<1>4. QED
  BY <1>1, <1>3 DEF Inv

LEMMA DeleteEventKeeps == ASSUME Inv, NEW e \in Event, DeleteEvent(e) PROVE Inv'
<1>1. RowsOK' /\ RequestOK' /\ Named'
  BY DEF Inv, DeleteEvent, RowsOK, RequestOK, Named, request, EventState
<1>2. /\ checkins' = {x \in checkins : x[1] # e}
      /\ ledger' = {row \in ledger : ~(row.kind = "checkin" /\ row.source = e)}
      /\ adjusted' = adjusted /\ Players' = Players /\ Events' = Events \ {e}
  <2>1. checkins' = {x \in checkins : x[1] # e}
    BY DEF DeleteEvent, DropCheckins
  <2>2. ledger' = {row \in ledger : ~(row.kind = "checkin" /\ row.source = e)}
    BY PlayersAre DEF DeleteEvent, CheckinRows, Inv, Sound, LedgerSound, RowSound
  <2>3. adjusted' = adjusted /\ Players' = Players /\ Events' = Events \ {e}
    BY DEF DeleteEvent, Players, Events, Inv, RowsOK
  <2>4. QED
    BY <2>1, <2>2, <2>3
<1>3. \A x \in checkins' : x[1] \in Events' /\ x[2] \in Players'
  BY <1>2 DEF Inv, Sound, CheckinsSound
<1>4. \A row \in ledger' : row.player \in Players'
  BY <1>2 DEF Inv, Sound, LedgerSound, RowSound
<1>5. \A row \in ledger' : row.kind = "checkin" => <<row.source, row.player>> \in checkins'
  BY <1>2 DEF Inv, Sound, LedgerSound, RowSound
<1>6. \A f \in Event, p \in Player : <<f, p>> \in checkins' => CheckinRow(f, p) \in ledger'
  BY <1>2, RowFields DEF Inv, Sound, CheckinsSound
<1>7. checkins' \subseteq checkins /\ ledger' \subseteq ledger /\ adjusted' = adjusted
  BY <1>2
<1>8. Sound'
  BY <1>3, <1>4, <1>5, <1>6, <1>7, SoundShrinks DEF Inv
<1>9. QED
  BY <1>1, <1>8 DEF Inv

LEMMA DeletePlayerKeeps == ASSUME Inv, NEW p \in Player, DeletePlayer(p) PROVE Inv'
<1>1. RowsOK' /\ RequestOK' /\ Named'
  BY DEF Inv, DeletePlayer, RowsOK, RequestOK, Named, request, AccountState
<1>2. /\ checkins' = {x \in checkins : x[2] # p}
      /\ ledger' = {row \in ledger : row.player # p}
      /\ adjusted' = adjusted /\ Players' = Players \ {p} /\ Events' = Events
  BY DEF DeletePlayer, DropCheckins, Players, Events, Inv, RowsOK
<1>3. \A x \in checkins' : x[1] \in Events' /\ x[2] \in Players'
  BY <1>2 DEF Inv, Sound, CheckinsSound
<1>4. \A row \in ledger' : row.player \in Players'
  BY <1>2 DEF Inv, Sound, LedgerSound, RowSound
<1>5. \A row \in ledger' : row.kind = "checkin" => <<row.source, row.player>> \in checkins'
  BY <1>2 DEF Inv, Sound, LedgerSound, RowSound
<1>6. \A e \in Event, q \in Player : <<e, q>> \in checkins' => CheckinRow(e, q) \in ledger'
  BY <1>2, RowFields DEF Inv, Sound, CheckinsSound
<1>7. checkins' \subseteq checkins /\ ledger' \subseteq ledger /\ adjusted' = adjusted
  BY <1>2
<1>8. Sound'
  BY <1>3, <1>4, <1>5, <1>6, <1>7, SoundShrinks DEF Inv
<1>9. QED
  BY <1>1, <1>8 DEF Inv

LEMMA AccountKeeps == ASSUME Inv, NEW p \in Player, Signup(p) \/ SetRole(p) PROVE Inv'
<1>1. RowsOK' /\ RequestOK' /\ Named'
  BY DEF Inv, Signup, SetRole, RowsOK, RequestOK, Named, request, AccountState
<1>2. /\ UNCHANGED <<checkins, ledger, adjusted>>
      /\ Players \subseteq Players' /\ Events' = Events
  BY DEF Inv, RowsOK, Signup, SetRole, Events, Players
<1>3. QED
  BY <1>1, <1>2, SoundStays DEF Inv

LEMMA NoCallTyped == NoCall \in CallRow
  BY DEF NoCall, CallRow

LEMMA BeginKeeps ==
  ASSUME RequestOK, Named, NEW r \in Request, NEW c \in CallRow,
         NEW s \in {"player", "record", "remove", "adjust"}, Begin(r, c, s),
         c.player \in Player, s # "adjust" => c.event \in Event
  PROVE  RequestOK' /\ Named'
  BY DEF RequestOK, Named, Begin

\* A request that begins, goes on or ends and writes no row.
LEMMA QuietKeeps ==
  ASSUME Inv, NEW r \in Request, UNCHANGED rows,
         \/ Scan(r) \/ AddLoad(r) \/ AddPlayerExists(r) \/ CheckInAlready(r) \/ CheckInRefused(r)
         \/ Answer(r) \/ RemoveLoad(r) \/ AdjustPlayerExists(r) \/ Abandon(r)
  PROVE  Inv'
<1>1. RowsOK' /\ Sound'
  BY DEF Inv, rows, RowsOK, Sound, CheckinsSound, LedgerSound, RowSound, Events, Players
<1>2. RequestOK' /\ Named'
  <2>1. CASE Scan(r)
    <3>1. PICK e \in Event, p \in Player :
            Begin(r, [NoCall EXCEPT !.op = "scan", !.event = e, !.player = p], "record")
      BY <2>1, PlayersAre DEF Scan
    <3> DEFINE c == [NoCall EXCEPT !.op = "scan", !.event = e, !.player = p]
    <3>2. c \in CallRow /\ c.event = e /\ c.player = p
      BY NoCallTyped DEF NoCall, CallRow
    <3>3. QED
      BY <3>1, <3>2, BeginKeeps DEF Inv
  <2>2. CASE AddLoad(r)
    <3>1. PICK e \in Event, p \in Player :
            Begin(r, [NoCall EXCEPT !.op = "add", !.event = e, !.player = p], "player")
      BY <2>2, PlayersAre DEF AddLoad
    <3> DEFINE c == [NoCall EXCEPT !.op = "add", !.event = e, !.player = p]
    <3>2. c \in CallRow /\ c.event = e /\ c.player = p
      BY NoCallTyped DEF NoCall, CallRow
    <3>3. QED
      BY <3>1, <3>2, BeginKeeps DEF Inv
  <2>3. CASE AddPlayerExists(r)
    BY <2>3 DEF Inv, RequestOK, Named, AddPlayerExists
  <2>4. CASE CheckInAlready(r)
    BY <2>4 DEF Inv, RequestOK, Named, CheckInAlready, Written, ReceiptRow
  <2>5. CASE CheckInRefused(r) \/ Answer(r) \/ Abandon(r)
    <3>1. Finish(r)
      BY <2>5 DEF CheckInRefused, Answer, Abandon
    <3>2. QED
      BY <3>1 DEF Inv, RequestOK, Named, Finish, CallRow, ReceiptRow, NoCall, NoReceipt
  <2>6. CASE RemoveLoad(r)
    <3>1. PICK e \in Event, p \in Player :
            Begin(r, [NoCall EXCEPT !.op = "remove", !.event = e, !.player = p], "remove")
      BY <2>6, PlayersAre DEF RemoveLoad
    <3> DEFINE c == [NoCall EXCEPT !.op = "remove", !.event = e, !.player = p]
    <3>2. c \in CallRow /\ c.event = e /\ c.player = p
      BY NoCallTyped DEF NoCall, CallRow
    <3>3. QED
      BY <3>1, <3>2, BeginKeeps DEF Inv
  <2>7. CASE AdjustPlayerExists(r)
    <3>1. PICK p \in Player, a \in Player :
            Begin(r, [NoCall EXCEPT !.op = "adjust", !.player = p, !.admin = a], "adjust")
      BY <2>7, PlayersAre DEF AdjustPlayerExists
    <3> DEFINE c == [NoCall EXCEPT !.op = "adjust", !.player = p, !.admin = a]
    <3>2. c \in CallRow /\ c.event = "none" /\ c.player = p
      BY NoCallTyped DEF NoCall, CallRow
    <3>3. QED
      BY <3>1, <3>2, BeginKeeps DEF Inv
  <2>8. QED
    BY <2>1, <2>2, <2>3, <2>4, <2>5, <2>6, <2>7
<1>3. QED
  BY <1>1, <1>2 DEF Inv

LEMMA CheckInKeeps == ASSUME Inv, NEW r \in Request, CheckInNew(r) PROVE Inv'
<1>1. PICK e \in Event, p \in Player :
        /\ e \in Events /\ p \in Players
        /\ checkins' = checkins \cup {<<e, p>>}
        /\ ledger' = ledger \cup {CheckinRow(e, p)}
        /\ UNCHANGED <<account, event, adjusted>>
  BY PlayersAre DEF CheckInNew
<1>2. Events' = Events /\ Players' = Players
  BY <1>1 DEF Events, Players
<1>3. RowsOK' /\ RequestOK' /\ Named'
  BY <1>1
  DEF Inv, RowsOK, RequestOK, Named, CheckInNew, Written, ReceiptRow, WasActive, Active, CheckedIn
<1>4. CheckinsSound'
  <2>1. \A f \in Event, q \in Player : <<f, q>> \in checkins' => CheckinRow(f, q) \in ledger'
    BY <1>1 DEF Inv, Sound, CheckinsSound
  <2>2. \A x \in checkins' : x[1] \in Events' /\ x[2] \in Players'
    BY <1>1, <1>2 DEF Inv, Sound, CheckinsSound
  <2>3. QED
    BY <1>1, <2>1, <2>2 DEF Inv, Sound, CheckinsSound, CheckinRow
<1>5. LedgerSound'
  <2>1. RowSound(CheckinRow(e, p))'
    BY <1>1, <1>2, RowFields DEF RowSound, CheckinRow
  <2>2. \A row \in ledger : RowSound(row)'
    BY <1>1, <1>2 DEF Inv, Sound, LedgerSound, RowSound, CheckinRow
  <2>3. CheckinRow(e, p).kind # "adjustment"
    BY RowFields
  <2>4. QED
    BY <1>1, <2>1, <2>2, <2>3 DEF Inv, Sound, LedgerSound
<1>6. QED
  BY <1>3, <1>4, <1>5 DEF Inv, Sound

LEMMA RemoveKeeps == ASSUME Inv, NEW r \in Request, RemoveCheckin(r) PROVE Inv'
<1>1. PICK e \in Event, p \in Player :
        /\ checkins' = checkins \ {<<e, p>>}
        /\ ledger' = ledger \ CheckinRows({e}, {p})
        /\ UNCHANGED <<account, event, adjusted>>
  BY DEF RemoveCheckin, DropCheckins, Inv, Named
<1>2. Events' = Events /\ Players' = Players
  BY <1>1 DEF Events, Players
<1>3. RowsOK' /\ RequestOK' /\ Named'
  BY <1>1 DEF Inv, RowsOK, RequestOK, Named, RemoveCheckin, Finish, CallRow, ReceiptRow,
              NoCall, NoReceipt
<1>4. \A row \in ledger' : row \in ledger
                          /\ ~(row.kind = "checkin" /\ row.source = e /\ row.player = p)
  BY <1>1 DEF CheckinRows
<1>5. \A row \in ledger' : row.player \in Players'
  BY <1>2, <1>4 DEF Inv, Sound, LedgerSound, RowSound
<1>6. \A row \in ledger' : row.kind = "checkin" => <<row.source, row.player>> \in checkins'
  BY <1>1, <1>4 DEF Inv, Sound, LedgerSound, RowSound
<1>7. \A f \in Event, q \in Player : <<f, q>> \in checkins' => CheckinRow(f, q) \in ledger'
  <2> SUFFICES ASSUME NEW f \in Event, NEW q \in Player, <<f, q>> \in checkins'
               PROVE  CheckinRow(f, q) \in ledger'
    OBVIOUS
  <2>1. CheckinRow(f, q) \in ledger /\ <<f, q>> # <<e, p>>
    BY <1>1 DEF Inv, Sound, CheckinsSound
  <2>2. CheckinRow(f, q) \notin CheckinRows({e}, {p})
    BY <2>1, RowFields DEF CheckinRows
  <2>3. QED
    BY <1>1, <2>1, <2>2
<1>8. \A x \in checkins' : x[1] \in Events' /\ x[2] \in Players'
  BY <1>1, <1>2 DEF Inv, Sound, CheckinsSound
<1>9. checkins' \subseteq checkins /\ ledger' \subseteq ledger /\ adjusted' = adjusted
  BY <1>1
<1>10. Sound'
  BY <1>5, <1>6, <1>7, <1>8, <1>9, SoundShrinks DEF Inv
<1>11. QED
  BY <1>3, <1>10 DEF Inv

LEMMA AdjustKeeps == ASSUME Inv, NEW r \in Request, Adjust(r) PROVE Inv'
<1>1. PICK p \in Players, a \in Amounts :
        ledger' = ledger \cup {[player |-> p, kind |-> "adjustment",
                                source |-> adjusted + 1, amount |-> a]}
  BY DEF Adjust
<1>2. adjusted' = adjusted + 1 /\ UNCHANGED <<account, event, checkins>>
  BY DEF Adjust
<1>3. adjusted \in Nat /\ adjusted < MaxAdjustments
  BY BoundAssumption DEF Inv, RowsOK, Adjust
<1>4. Events' = Events /\ Players' = Players
  BY <1>2 DEF Events, Players
<1>5. RowsOK'
  BY <1>2, <1>3, BoundAssumption DEF Inv, RowsOK
<1>6. RequestOK' /\ Named'
  BY DEF Inv, RequestOK, Named, Adjust, Finish, CallRow, ReceiptRow, NoCall, NoReceipt
<1>7. CheckinsSound'
  BY <1>1, <1>2, <1>4 DEF Inv, Sound, CheckinsSound, CheckinRow
<1>8. LedgerSound'
  <2>1. PICK new : /\ ledger' = ledger \cup {new}
                   /\ new.player \in Players /\ new.kind = "adjustment"
                   /\ new.source = adjusted + 1 /\ new.amount \in Amounts
    <3> DEFINE written == [player |-> p, kind |-> "adjustment", source |-> adjusted + 1,
                           amount |-> a]
    <3>1. /\ ledger' = ledger \cup {written}
          /\ written.player \in Players /\ written.kind = "adjustment"
          /\ written.source = adjusted + 1 /\ written.amount \in Amounts
      BY <1>1
    <3> HIDE DEF written
    <3>2. QED
      BY <3>1
  <2>2. ASSUME NEW row \in ledger PROVE RowSound(row)'
    <3>1. RowSound(row)
      BY DEF Inv, Sound, LedgerSound
    <3>2. row.source \in 1..adjusted => row.source \in 1..adjusted'
      BY <1>2, <1>3
    <3>3. CASE row.kind = "checkin" /\ row = CheckinRow(row.source, row.player)
      BY <1>2, <1>4, <3>1, <3>2, <3>3 DEF RowSound, CheckinRow
    <3>4. CASE row.kind = "adjustment"
      BY <1>4, <3>1, <3>2, <3>4 DEF RowSound
    <3>5. QED
      BY <3>1, <3>3, <3>4 DEF RowSound
  <2>3. new.source \in 1..adjusted'
    BY <1>2, <1>3, <2>1
  <2>4. RowSound(new)'
    BY <1>4, <2>1, <2>3 DEF RowSound
  <2>5. ASSUME NEW row \in ledger, row.kind = "adjustment" PROVE row.source # adjusted + 1
    <3>1. row.source \in 1..adjusted
      BY <2>5 DEF Inv, Sound, LedgerSound, RowSound
    <3>2. QED
      BY <1>3, <3>1
  <2>6. \A x, y \in ledger' :
          x.kind = "adjustment" /\ y.kind = "adjustment" /\ x.source = y.source => x = y
    BY <2>1, <2>5 DEF Inv, Sound, LedgerSound
  <2>7. QED
    BY <2>1, <2>2, <2>4, <2>6 DEF LedgerSound
<1>9. QED
  BY <1>5, <1>6, <1>7, <1>8 DEF Inv, Sound

LEMMA StepInv == Inv /\ [Next]_vars => Inv'
<1> SUFFICES ASSUME Inv, [Next]_vars PROVE Inv'
  OBVIOUS
<1>1. CASE UNCHANGED vars
  BY <1>1 DEF vars, rows, request, Inv, RowsOK, RequestOK, Named, Sound, CheckinsSound,
              LedgerSound, RowSound, Events, Players
<1>2. ASSUME NEW e \in Event,
             \/ CreateEvent(e) \/ UpdateEvent(e) \/ SetEventStatus(e) \/ Clock(e)
      PROVE  Inv'
  BY <1>2, EventKeeps
<1>3. ASSUME NEW e \in Event, DeleteEvent(e) PROVE Inv'
  BY <1>3, DeleteEventKeeps
<1>4. ASSUME NEW p \in Player, Signup(p) \/ SetRole(p) PROVE Inv'
  BY <1>4, AccountKeeps
<1>5. ASSUME NEW p \in Player, DeletePlayer(p) PROVE Inv'
  BY <1>5, DeletePlayerKeeps
<1>6. ASSUME NEW r \in Request,
             \/ Scan(r) \/ AddLoad(r) \/ AddPlayerExists(r) \/ CheckInAlready(r)
             \/ CheckInRefused(r) \/ Answer(r) \/ RemoveLoad(r) \/ AdjustPlayerExists(r)
             \/ Abandon(r)
      PROVE  Inv'
  <2>1. UNCHANGED rows
    BY <1>6 DEF Scan, AddLoad, AddPlayerExists, CheckInAlready, CheckInRefused, Answer,
                RemoveLoad, AdjustPlayerExists, Abandon
  <2>2. QED
    BY <1>6, <2>1, QuietKeeps
<1>7. ASSUME NEW r \in Request, CheckInNew(r) PROVE Inv'
  BY <1>7, CheckInKeeps
<1>8. ASSUME NEW r \in Request, RemoveCheckin(r) PROVE Inv'
  BY <1>8, RemoveKeeps
<1>9. ASSUME NEW r \in Request, Adjust(r) PROVE Inv'
  BY <1>9, AdjustKeeps
<1>10. QED
  BY <1>1, <1>2, <1>3, <1>4, <1>5, <1>6, <1>7, <1>8, <1>9 DEF Next

LEMMA AlwaysInv == Spec => []Inv
  BY InitInv, StepInv, PTL DEF Spec

--------------------------------------------------------------------------------

\* The types, and that every row of the ledger is of an account that is there.
THEOREM TypeCorrect == Spec => []TypeOK
  BY AlwaysInv, InvTypes, PTL

\* However many doors, devices, corrections and deletions meet, the check-ins and the
\* cycles they paid are the same pairs of a night and a player, one row each.
THEOREM NobodyIsHalfPaid == Spec => []PaidPerCheckin
  BY AlwaysInv, InvPaid, PTL

--------------------------------------------------------------------------------
(* The board.                                                              *)

\* Who stands above q on the board.
Above(q) == {x \in Players : Active(x) /\ Cycles(x) > Cycles(q)}

\* An account that is not active before or after a step is above nobody, whatever
\* happens to it, so the places depend on the other accounts alone.
LEMMA SameAbove ==
  ASSUME NEW p \in Player, ~Active(p), ~Active(p)', checkins' = checkins,
         \A q \in Player \ {p} : account'[q] = account[q] /\ Cycles(q)' = Cycles(q),
         NEW q \in Player \ {p}
  PROVE  Above(q)' = Above(q)
<1>1. \A x \in Player \ {p} : /\ Active(x)' <=> Active(x)
                              /\ x \in Players' <=> x \in Players
  BY DEF Active, CheckedIn, Players
<1>2. \A x \in Player \ {p} : Cycles(x)' > Cycles(q)' <=> Cycles(x) > Cycles(q)
  OBVIOUS
<1>3. \A x \in Players \cup Players' : x \in Player
  BY DEF Players
<1>4. \A x : x \in Above(q) <=> x \in Players /\ Active(x) /\ Cycles(x) > Cycles(q)
  BY DEF Above
<1>5. \A x : x \in Above(q)' <=> x \in Players' /\ Active(x)' /\ Cycles(x)' > Cycles(q)'
  BY DEF Above
<1>6. ASSUME NEW x
      PROVE  x \in Above(q)' <=> x \in Above(q)
  <2>1. CASE x = p
    BY <1>4, <1>5, <2>1
  <2>2. CASE x # p /\ x \in Player
    BY <1>1, <1>2, <1>4, <1>5, <2>2
  <2>3. CASE x \notin Player
    BY <1>3, <1>4, <1>5, <2>3
  <2>4. QED
    BY <2>1, <2>2, <2>3
<1>7. QED
  BY <1>6

\* Accounts that never came to an event, and the cycles an admin gives or takes from
\* them, move nobody on the board, however many accounts there are (the view
\* player_standings ranks the active ones).
THEOREM InactiveOnesMoveNobody == Spec => InactiveMovesNobody
<1>1. ASSUME NEW p \in Player, ~Active(p), ~Active(p)', checkins' = checkins,
             \A q \in Player \ {p} : account'[q] = account[q] /\ Cycles(q)' = Cycles(q),
             NEW q \in Player
      PROVE  Place(q)' = Place(q)
  <2>1. /\ Place(q) = IF Active(q) THEN 1 + Cardinality(Above(q)) ELSE 0
        /\ Place(q)' = IF Active(q)' THEN 1 + Cardinality(Above(q)') ELSE 0
    BY DEF Place, Above
  <2>2. CASE q = p
    BY <1>1, <2>1, <2>2
  <2>3. CASE q # p
    <3>1. Active(q)' <=> Active(q)
      BY <1>1, <2>3 DEF Active, CheckedIn
    <3>2. Above(q)' = Above(q)
      BY <1>1, <2>3, SameAbove
    <3>3. QED
      BY <2>1, <3>1, <3>2
  <2>4. QED
    BY <2>2, <2>3
<1>2. [Next]_vars =>
        [(/\ \E p \in Player :
               /\ ~Active(p) /\ ~Active(p)'
               /\ \A q \in Player \ {p} : account'[q] = account[q] /\ Cycles(q)' = Cycles(q)
          /\ checkins' = checkins)
         => \A q \in Player : Place(q)' = Place(q)]_vars
  BY <1>1
<1>3. QED
  BY <1>2, PTL DEF Spec, InactiveMovesNobody

--------------------------------------------------------------------------------
(* What a receipt says.                                                    *)

RowsOf(p) == {row \in ledger : row.player = p}
Weights   == [row \in ledger |-> row.amount]

\* The board sums the rows of a player.
SumOfRows(L, p) == MapThenSumSet(LAMBDA row : row.amount, {row \in L : row.player = p})

LEMMA SumOfAmounts ==
  ASSUME NEW L, NEW p
  PROVE  SumOfRows(L, p) = Total([row \in L |-> row.amount], {row \in L : row.player = p})
<1> DEFINE T == {row \in L : row.player = p}
           w == [row \in L |-> row.amount]
           Adds(g) == [s \in SUBSET T |->
                        IF s = {} THEN 0 ELSE (CHOOSE x \in s : TRUE).amount
                                              + g[s \ {CHOOSE x \in s : TRUE}]]
<1>1. SumOfRows(L, p) = (CHOOSE g : g = Adds(g))[T]
  BY DEF SumOfRows, MapThenSumSet, MapThenFoldSet
<1>2. \A g : IsSum(g, w, T) <=> g = Adds(g)
  <2>1. \A s \in SUBSET T : s # {} => w[Pick(s)] = (CHOOSE x \in s : TRUE).amount
    BY Picked DEF Pick
  <2>2. ASSUME NEW g
        PROVE  [s \in SUBSET T |-> IF s = {} THEN 0 ELSE w[Pick(s)] + g[s \ {Pick(s)}]] = Adds(g)
    BY <2>1 DEF Pick
  <2>3. QED
    BY <2>2 DEF IsSum
<1>3. SumsOf(w, T) = (CHOOSE g : g = Adds(g))
  BY <1>2 DEF SumsOf
<1>4. QED
  BY <1>1, <1>3 DEF Total

LEMMA CyclesAreTheTotal ==
  \A p \in Player : /\ Cycles(p)  = Total(Weights, RowsOf(p))
                    /\ Cycles(p)' = Total(Weights', RowsOf(p)')
<1> SUFFICES ASSUME NEW p \in Player
             PROVE  /\ Cycles(p)  = Total(Weights, RowsOf(p))
                    /\ Cycles(p)' = Total(Weights', RowsOf(p)')
  OBVIOUS
<1>1. Cycles(p) = SumOfRows(ledger, p) /\ Cycles(p)' = SumOfRows(ledger', p)
  BY DEF Cycles, SumOfRows, MapThenSumSet, MapThenFoldSet
<1>2. QED
  BY <1>1, SumOfAmounts DEF Weights, RowsOf

\* The ledger is finite: it begins empty, and a step writes one row at most.
FiniteLedger == IsFiniteSet(ledger)

LEMMA FiniteStays == FiniteLedger /\ [Next]_vars => FiniteLedger'
<1> SUFFICES ASSUME IsFiniteSet(ledger), [Next]_vars
             PROVE  IsFiniteSet(ledger')
  BY DEF FiniteLedger
<1>1. \/ ledger' \subseteq ledger
      \/ \E row : ledger' = ledger \cup {row}
  <2>1. ASSUME NEW e \in Event,
               \/ CreateEvent(e) \/ UpdateEvent(e) \/ SetEventStatus(e) \/ DeleteEvent(e)
               \/ Clock(e)
        PROVE  ledger' \subseteq ledger
    BY <2>1 DEF CreateEvent, UpdateEvent, SetEventStatus, DeleteEvent, Clock
  <2>2. ASSUME NEW r \in Request,
               \/ Scan(r) \/ AddLoad(r) \/ AddPlayerExists(r) \/ CheckInAlready(r)
               \/ CheckInRefused(r) \/ Answer(r) \/ RemoveLoad(r) \/ RemoveCheckin(r)
               \/ AdjustPlayerExists(r) \/ Abandon(r)
        PROVE  ledger' \subseteq ledger
    BY <2>2 DEF Scan, AddLoad, AddPlayerExists, CheckInAlready, CheckInRefused, Answer,
                RemoveLoad, RemoveCheckin, AdjustPlayerExists, Abandon, rows
  <2>3. ASSUME NEW r \in Request, CheckInNew(r) \/ Adjust(r)
        PROVE  \E row : ledger' = ledger \cup {row}
    BY <2>3 DEF CheckInNew, Adjust
  <2>4. ASSUME NEW p \in Player, Signup(p) \/ SetRole(p) \/ DeletePlayer(p)
        PROVE  ledger' \subseteq ledger
    BY <2>4 DEF Signup, SetRole, DeletePlayer
  <2>5. CASE UNCHANGED vars
    BY <2>5 DEF vars, rows
  <2>6. QED
    BY <2>1, <2>2, <2>3, <2>4, <2>5 DEF Next
<1>2. QED
  BY <1>1, FS_Subset, FS_AddElement

LEMMA AlwaysFinite == Spec => []FiniteLedger
<1>1. Init => FiniteLedger
  BY FS_EmptySet DEF Init, FiniteLedger
<1>2. QED
  BY <1>1, FiniteStays, PTL DEF Spec

LEMMA AmountsAreIntegers ==
  ASSUME Inv, NEW row \in ledger
  PROVE  row.amount \in Int
<1>1. row.amount = CheckinCycles \/ row.amount \in Amounts
  BY InvTypes DEF TypeOK
<1>2. CheckinCycles \in Int /\ \A a \in Amounts : a \in Int
  BY CyclesAssumption
<1>3. QED
  BY <1>1, <1>2, Zenon

\* A check-in adds its cycles to those of the player.
LEMMA CheckInPays ==
  ASSUME Inv, Inv', FiniteLedger, NEW e \in Event, NEW p \in Player,
         <<e, p>> \notin checkins, ledger' = ledger \cup {CheckinRow(e, p)}
  PROVE  Cycles(p)' = Cycles(p) + CheckinCycles
<1> DEFINE new == CheckinRow(e, p)
           now == RowsOf(p)'
<1>1. new \notin ledger
  BY RowFields DEF Inv, Sound, LedgerSound, RowSound
<1>2. new \in now /\ now \ {new} = RowsOf(p)
  BY <1>1, RowFields DEF RowsOf
<1>3. IsFiniteSet(now) /\ IsFiniteSet(RowsOf(p)) /\ now \subseteq ledger'
  BY FS_Subset, FS_AddElement DEF RowsOf, FiniteLedger
<1>4. \A row \in now : Weights'[row] = row.amount /\ row.amount \in Int
  <2>1. \A row \in ledger' : row.amount \in Int
    <3>1. \A row \in ledger : row.amount \in Int
      BY AmountsAreIntegers
    <3>2. new.amount \in Int
      BY CyclesAssumption, RowFields
    <3>3. QED
      BY <3>1, <3>2
  <2>2. QED
    BY <1>3, <2>1 DEF Weights
<1>5. \A row \in RowsOf(p) : Weights'[row] = Weights[row]
  BY DEF Weights, RowsOf
<1>6. Cycles(p)' = Total(Weights', now)
  BY CyclesAreTheTotal
<1>7. Total(Weights', now) = Weights'[new] + Total(Weights', RowsOf(p))
  BY <1>2, <1>3, <1>4, TotalRemove
<1>8. Total(Weights', RowsOf(p)) = Total(Weights, RowsOf(p))
  BY <1>3, <1>5, TotalReads
<1>9. Weights'[new] = CheckinCycles
  BY <1>2, <1>4, RowFields
<1>10. Total(Weights', RowsOf(p)) \in Int
  BY <1>2, <1>3, <1>4, TotalType
<1>11. Cycles(p) = Total(Weights, RowsOf(p))
  BY CyclesAreTheTotal
<1>12. QED
  BY <1>6, <1>7, <1>8, <1>9, <1>10, <1>11, CyclesAssumption

\* A request that goes from its write to its answer wrote a check-in, or found it there.
LEMMA AnswersAfterTheWrite ==
  ASSUME Inv, [Next]_vars, NEW r \in Request, step[r] = "record", step'[r] = "answer"
  PROVE  CheckInNew(r) \/ CheckInAlready(r)
<1>1. ASSUME NEW q \in Request, q # r,
             \/ Scan(q) \/ AddLoad(q) \/ AddPlayerExists(q) \/ CheckInNew(q)
             \/ CheckInAlready(q) \/ CheckInRefused(q) \/ Answer(q) \/ RemoveLoad(q)
             \/ RemoveCheckin(q) \/ AdjustPlayerExists(q) \/ Adjust(q) \/ Abandon(q)
      PROVE  step'[r] = step[r]
  BY <1>1 DEF Inv, RequestOK, Scan, AddLoad, AddPlayerExists, CheckInNew, CheckInAlready,
              CheckInRefused, Answer, RemoveLoad, RemoveCheckin, AdjustPlayerExists, Adjust,
              Abandon, Begin, Written, Finish
<1>2. ASSUME \/ Scan(r) \/ AddLoad(r) \/ AddPlayerExists(r) \/ CheckInRefused(r)
             \/ Answer(r) \/ RemoveLoad(r) \/ RemoveCheckin(r) \/ AdjustPlayerExists(r)
             \/ Adjust(r) \/ Abandon(r)
      PROVE  FALSE
  BY <1>2 DEF Inv, RequestOK, Scan, AddLoad, AddPlayerExists, CheckInRefused, Answer,
              RemoveLoad, RemoveCheckin, AdjustPlayerExists, Adjust, Abandon, Begin, Finish
<1>3. ASSUME NEW e \in Event,
             \/ CreateEvent(e) \/ UpdateEvent(e) \/ SetEventStatus(e) \/ DeleteEvent(e)
             \/ Clock(e)
      PROVE  step' = step
  BY <1>3 DEF CreateEvent, UpdateEvent, SetEventStatus, DeleteEvent, Clock, request
<1>4. ASSUME NEW p \in Player, Signup(p) \/ SetRole(p) \/ DeletePlayer(p)
      PROVE  step' = step
  BY <1>4 DEF Signup, SetRole, DeletePlayer, request
<1>5. CASE UNCHANGED vars
  BY <1>5 DEF vars, request
<1>6. QED
  BY <1>1, <1>2, <1>3, <1>4, <1>5 DEF Next

\* What a receipt says, as ReceiptTellsTheWrite states it of one request.
Told(r) ==
  (step[r] = "record" /\ step'[r] = "answer") =>
    LET p    == call[r].player
        said == receipt'[r]
    IN  IF said.kind = "new"
        THEN /\ Cycles(p)' = Cycles(p) + CheckinCycles
             /\ said.was_active = (Active(p) \/ ~Active(p)')
        ELSE UNCHANGED <<ledger, checkins>>

\* However many doors and devices scan a player at once, however many corrections and
\* deletions come between, a receipt says what its own call wrote and paid, and the
\* "activated" of a receipt is of the write that activated (record).
THEOREM ReceiptsAreTrue == Spec => ReceiptTellsTheWrite
<1>1. ASSUME Inv, Inv', FiniteLedger, [Next]_vars, NEW r \in Request
      PROVE  Told(r)
  <2> SUFFICES ASSUME step[r] = "record", step'[r] = "answer"
               PROVE  Told(r)
    BY DEF Told
  <2>1. PICK e \in Event, p \in Player : e = call[r].event /\ p = call[r].player
    BY <1>1 DEF Inv, Named
  <2>2. CheckInNew(r) \/ CheckInAlready(r)
    BY <1>1, AnswersAfterTheWrite
  <2>3. call' = call /\ receipt \in [Request -> ReceiptRow]
    BY <1>1, <2>2 DEF CheckInNew, CheckInAlready, Written, Inv, RequestOK
  <2>4. CASE CheckInNew(r)
    <3>1. /\ <<e, p>> \notin checkins /\ checkins' = checkins \cup {<<e, p>>}
          /\ ledger' = ledger \cup {CheckinRow(e, p)}
          /\ p \in Players /\ account' = account
      BY <2>1, <2>4 DEF CheckInNew
    <3>2. receipt'[r].kind = "new" /\ receipt'[r].was_active = Active(p)
      BY <2>1, <2>3, <2>4 DEF CheckInNew, Written, WasActive
    <3>3. Cycles(p)' = Cycles(p) + CheckinCycles
      BY <1>1, <3>1, CheckInPays
    <3>4. Active(p)'
      BY <3>1 DEF Active, CheckedIn, Players
    <3>5. Active(p) \in BOOLEAN
      BY DEF Active, CheckedIn
    <3>6. /\ Cycles(call[r].player)' = Cycles(p)'
          /\ Cycles(call[r].player) = Cycles(p)
          /\ Active(call[r].player) = Active(p)
          /\ Active(call[r].player)' = Active(p)'
      BY <2>1, <2>3
    <3>7. QED
      BY <3>2, <3>3, <3>4, <3>5, <3>6 DEF Told
  <2>5. CASE CheckInAlready(r)
    BY <2>3, <2>5 DEF CheckInAlready, Written, rows, Told
  <2>6. QED
    BY <2>2, <2>4, <2>5
<1>2. Inv /\ Inv' /\ FiniteLedger /\ [Next]_vars => [\A r \in Request : Told(r)]_vars
  BY <1>1
<1>3. Spec => [][\A r \in Request : Told(r)]_vars
  BY <1>2, AlwaysInv, AlwaysFinite, PTL DEF Spec
<1>4. QED
  BY <1>3 DEF Told, ReceiptTellsTheWrite
================================================================================
