--------------------------------- MODULE Doors ---------------------------------
(***************************************************************************)
(* The nights of the bunker: events, the check-ins at their doors, the     *)
(* ledger they pay into and the board that is read from it.  EventService  *)
(* (services/event_service.rs) over EventStorage, PointsService::adjust    *)
(* over PointStorage, and the view player_standings.                       *)
(*                                                                         *)
(* As in Tournament, one action is one awaited storage call with the       *)
(* computation up to the next one, and a write transaction is one action.  *)
(* The accounts are the environment here: they come, change role and go.   *)
(* Accounts models how.                                                    *)
(***************************************************************************)
EXTENDS Integers, FiniteSets, FiniteSetsExt

CONSTANTS
  Player,         \* the ids accounts may have
  Event,          \* the ids events may have
  Request,        \* the requests in flight at once
  CheckinCycles,  \* CHECKIN_CYCLES
  Amounts,        \* the amounts an admin adjusts by
  MaxAdjustments  \* bound: adjustments ever written

ASSUME CyclesAssumption == CheckinCycles \in Nat \ {0} /\ Amounts \subseteq Int \ {0}
ASSUME BoundAssumption  == MaxAdjustments \in Nat

VARIABLES
  account,   \* what became of an account: "none", "user", "admin", "deleted"
  event,     \* the events: status, with "none" and "deleted" for no row; is the
             \* clock inside the window
  checkins,  \* event_checkins: pairs <<event, player>>
  ledger,    \* point_entries: the rows check-ins and adjustments wrote
  adjusted,  \* adjustments written so far
  step,      \* the storage call a request awaits next
  call,      \* what the request asks for
  receipt    \* what a request wrote, until it answers

rows    == <<account, event, checkins, ledger, adjusted>>
request == <<step, call, receipt>>
vars    == <<rows, request>>

AccountState == {"none", "user", "admin", "deleted"}
EventState   == {"none", "draft", "published", "deleted"}

NoCall    == [op |-> "none", event |-> "none", player |-> "none", admin |-> "none"]
NoReceipt == [kind |-> "none", was_active |-> FALSE]

Players == {p \in Player : account[p] \in {"user", "admin"}}
Admins  == {p \in Player : account[p] = "admin"}
Events  == {e \in Event : event[e].status \in {"draft", "published"}}

Init ==
  /\ account \in {a \in [Player -> {"none", "user", "admin"}] : \E p \in Player : a[p] = "admin"}
  /\ event = [e \in Event |-> [status |-> "none", open |-> FALSE]]
  /\ checkins = {} /\ ledger = {} /\ adjusted = 0
  /\ step = [r \in Request |-> "idle"]
  /\ call = [r \in Request |-> NoCall] /\ receipt = [r \in Request |-> NoReceipt]

--------------------------------------------------------------------------------
(* The board: the view player_standings.                                   *)

CheckedIn(p) == \E x \in checkins : x[2] = p
Active(p)    == account[p] = "admin" \/ (account[p] = "user" /\ CheckedIn(p))
Cycles(p)    == MapThenSumSet(LAMBDA row : row.amount, {row \in ledger : row.player = p})

\* A bug: the board ranks everybody.
PlaceAmongAll(p) == 1 + Cardinality({q \in Players : Cycles(q) > Cycles(p)})

\* rank() over the active players; an inactive player has no place.
Place(p) ==
  IF Active(p) THEN 1 + Cardinality({q \in Players : Active(q) /\ Cycles(q) > Cycles(p)})
               ELSE 0

--------------------------------------------------------------------------------
(* The life of a request.                                                  *)

Begin(r, c, s) ==
  /\ step[r] = "idle"
  /\ call' = [call EXCEPT ![r] = c]
  /\ step' = [step EXCEPT ![r] = s]
  /\ UNCHANGED receipt

\* The outcome of the write, before the event is read again for the answer.
Written(r, outcome) ==
  /\ step' = [step EXCEPT ![r] = "answer"]
  /\ receipt' = [receipt EXCEPT ![r] = outcome]
  /\ UNCHANGED call

Finish(r) ==
  /\ step' = [step EXCEPT ![r] = "idle"]
  /\ call' = [call EXCEPT ![r] = NoCall]
  /\ receipt' = [receipt EXCEPT ![r] = NoReceipt]

\* The timeout, a client that hangs up, a restart, or a refusal after a read.
Abandon(r) ==
  /\ step[r] # "idle"
  /\ Finish(r)
  /\ UNCHANGED rows

--------------------------------------------------------------------------------
(* Events: create, update, set_status, delete.  One statement each.        *)

CreateEvent(e) ==
  /\ event[e].status = "none"
  /\ \E w \in BOOLEAN : event' = [event EXCEPT ![e] = [status |-> "draft", open |-> w]]
  /\ UNCHANGED <<account, checkins, ledger, adjusted, request>>

UpdateEvent(e) ==
  /\ e \in Events
  /\ \E w \in BOOLEAN : event' = [event EXCEPT ![e].open = w]
  /\ UNCHANGED <<account, checkins, ledger, adjusted, request>>

SetEventStatus(e) ==
  /\ e \in Events
  /\ \E s \in {"draft", "published"} : event' = [event EXCEPT ![e].status = s]
  /\ UNCHANGED <<account, checkins, ledger, adjusted, request>>

CheckinRows(E, P) ==
  {row \in ledger : row.kind = "checkin" /\ row.source \in E /\ row.player \in P}

DropCheckins(gone) == checkins' = checkins \ gone

\* The check-ins and their cycles cascade.
DeleteEvent(e) ==
  /\ e \in Events
  /\ event' = [event EXCEPT ![e] = [status |-> "deleted", open |-> FALSE]]
  /\ DropCheckins({x \in checkins : x[1] = e})
  /\ ledger' = ledger \ CheckinRows({e}, Player)
  /\ UNCHANGED <<account, adjusted, request>>

--------------------------------------------------------------------------------
(* The door: check_in, add_checkin, remove_checkin.                        *)

DoorOpen(e) ==
  /\ event[e].status = "published"
  /\ event[e].open

\* The event behind the code, then the clock against its window.
Scan(r) ==
  /\ \E e \in Event, p \in Players :
       /\ DoorOpen(e)
       /\ Begin(r, [NoCall EXCEPT !.op = "scan", !.event = e, !.player = p], "record")
  /\ UNCHANGED rows

AddLoad(r) ==
  /\ \E e \in Events, p \in Player :
       Begin(r, [NoCall EXCEPT !.op = "add", !.event = e, !.player = p], "player")
  /\ UNCHANGED rows

AddPlayerExists(r) ==
  /\ step[r] = "player"
  /\ call[r].player \in Players
  /\ step' = [step EXCEPT ![r] = "record"]
  /\ UNCHANGED <<rows, call, receipt>>

CheckinRow(e, p) == [player |-> p, kind |-> "checkin", source |-> e, amount |-> CheckinCycles]

\* A bug: was_active is asked of the event alone.
WasActiveHere(e, p) == account[p] = "admin" \/ <<e, p>> \in checkins
WasActive(e, p)     == Active(p)

\* The transaction of storage check_in: the flag, the row, its cycles.
CheckInNew(r) ==
  LET e == call[r].event
      p == call[r].player
  IN  /\ step[r] = "record"
      /\ e \in Events /\ p \in Players
      /\ <<e, p>> \notin checkins
      /\ checkins' = checkins \cup {<<e, p>>}
      /\ ledger' = ledger \cup {CheckinRow(e, p)}
      /\ Written(r, [kind |-> "new", was_active |-> WasActive(e, p)])
      /\ UNCHANGED <<account, event, adjusted>>

CheckInAlready(r) ==
  /\ step[r] = "record"
  /\ <<call[r].event, call[r].player>> \in checkins
  /\ Written(r, [kind |-> "already", was_active |-> TRUE])
  /\ UNCHANGED rows

\* The event or the player went: the foreign key drops the whole transaction.
CheckInRefused(r) ==
  /\ step[r] = "record"
  /\ call[r].event \notin Events \/ call[r].player \notin Players
  /\ Finish(r)
  /\ UNCHANGED rows

\* record reads the event again, and answers a 404 when it went: see Abandon.
Answer(r) ==
  /\ step[r] = "answer"
  /\ call[r].event \in Events
  /\ Finish(r)
  /\ UNCHANGED rows

RemoveLoad(r) ==
  /\ \E e \in Events, p \in Player :
       Begin(r, [NoCall EXCEPT !.op = "remove", !.event = e, !.player = p], "remove")
  /\ UNCHANGED rows

\* A bug: the check-in goes and its cycles stay.
RemoveRowAlone(r) ==
  /\ step[r] = "remove"
  /\ DropCheckins({<<call[r].event, call[r].player>>})
  /\ Finish(r)
  /\ UNCHANGED <<account, event, ledger, adjusted>>

RemoveCheckin(r) ==
  /\ step[r] = "remove"
  /\ DropCheckins({<<call[r].event, call[r].player>>})
  /\ ledger' = ledger \ CheckinRows({call[r].event}, {call[r].player})
  /\ Finish(r)
  /\ UNCHANGED <<account, event, adjusted>>

--------------------------------------------------------------------------------
(* The ledger by hand: PointsService::adjust.                              *)

AdjustPlayerExists(r) ==
  /\ \E p \in Players, a \in Admins :
       Begin(r, [NoCall EXCEPT !.op = "adjust", !.player = p, !.admin = a], "adjust")
  /\ UNCHANGED rows

\* A bug: the read of the player is taken for granted at the write.
AdjustAnyway(r) ==
  /\ step[r] = "adjust"
  /\ adjusted < MaxAdjustments
  /\ adjusted' = adjusted + 1
  /\ \E a \in Amounts :
       ledger' = ledger \cup {[player |-> call[r].player, kind |-> "adjustment",
                               source |-> adjusted + 1, amount |-> a]}
  /\ Finish(r)
  /\ UNCHANGED <<account, event, checkins>>

\* The row names the player and the admin, and both are foreign keys.
Adjust(r) ==
  /\ step[r] = "adjust"
  /\ {call[r].player, call[r].admin} \subseteq Players
  /\ adjusted < MaxAdjustments
  /\ adjusted' = adjusted + 1
  /\ \E a \in Amounts :
       ledger' = ledger \cup {[player |-> call[r].player, kind |-> "adjustment",
                               source |-> adjusted + 1, amount |-> a]}
  /\ Finish(r)
  /\ UNCHANGED <<account, event, checkins>>

--------------------------------------------------------------------------------
(* The accounts, as this module sees them, and the clock.                  *)

Signup(p) ==
  /\ account[p] = "none"
  /\ account' = [account EXCEPT ![p] = "user"]
  /\ UNCHANGED <<event, checkins, ledger, adjusted, request>>

SetRole(p) ==
  /\ \/ account[p] = "user" /\ account' = [account EXCEPT ![p] = "admin"]
     \/ /\ account[p] = "admin"
        /\ Cardinality(Admins) > 1
        /\ account' = [account EXCEPT ![p] = "user"]
  /\ UNCHANGED <<event, checkins, ledger, adjusted, request>>

\* The check-ins and the ledger rows of the player cascade.
DeletePlayer(p) ==
  /\ \/ account[p] = "user"
     \/ account[p] = "admin" /\ Cardinality(Admins) > 1
  /\ account' = [account EXCEPT ![p] = "deleted"]
  /\ DropCheckins({x \in checkins : x[2] = p})
  /\ ledger' = {row \in ledger : row.player # p}
  /\ UNCHANGED <<event, adjusted, request>>

\* The clock enters the window of an event, or leaves it.
Clock(e) ==
  /\ e \in Events
  /\ event' = [event EXCEPT ![e].open = ~event[e].open]
  /\ UNCHANGED <<account, checkins, ledger, adjusted, request>>

Next ==
  \/ \E e \in Event : CreateEvent(e) \/ UpdateEvent(e) \/ SetEventStatus(e) \/ DeleteEvent(e)
                    \/ Clock(e)
  \/ \E r \in Request :
       \/ Scan(r) \/ AddLoad(r) \/ AddPlayerExists(r)
       \/ CheckInNew(r) \/ CheckInAlready(r) \/ CheckInRefused(r) \/ Answer(r)
       \/ RemoveLoad(r) \/ RemoveCheckin(r)
       \/ AdjustPlayerExists(r) \/ Adjust(r)
       \/ Abandon(r)
  \/ \E p \in Player : Signup(p) \/ SetRole(p) \/ DeletePlayer(p)

Spec == Init /\ [][Next]_vars

--------------------------------------------------------------------------------
(* Properties.                                                             *)

\* Type invariant, with the foreign keys: a row of the ledger is of an account.
TypeOK ==
  /\ account \in [Player -> AccountState]
  /\ event \in [Event -> [status : EventState, open : BOOLEAN]]
  /\ checkins \subseteq Event \X Player
  /\ \A row \in ledger :
       /\ row.player \in Players
       /\ \/ row.kind = "checkin" /\ row.source \in Event /\ row.amount = CheckinCycles
          \/ row.kind = "adjustment" /\ row.source \in 1..adjusted /\ row.amount \in Amounts
  /\ adjusted \in 0..MaxAdjustments
  /\ step \in [Request -> {"idle", "player", "record", "answer", "remove", "adjust"}]
  /\ call \in [Request -> [op : {"none", "scan", "add", "remove", "adjust"},
                           event : Event \cup {"none"}, player : Player \cup {"none"},
                           admin : Player \cup {"none"}]]
  /\ receipt \in [Request -> [kind : {"none", "new", "already"}, was_active : BOOLEAN]]

\* "A player at the door is never half paid" (check_in), and what a check-in paid
\* goes with it, whether the check-in, the event or the account is removed: the
\* check-ins and the check-in cycles are the same pairs of a night and a player,
\* each of a night and a player that are still there.
PaidPerCheckin ==
  /\ {<<row.source, row.player>> : row \in {x \in ledger : x.kind = "checkin"}} = checkins
  /\ checkins \subseteq Events \X Players
  /\ \A x, y \in ledger :
       x # y => <<x.kind, x.player, x.source>> # <<y.kind, y.player, y.source>>

\* The receipt says what the call did, also when two doors or two devices scan the
\* same player at once ("it says what this call paid: a repeat pays nothing",
\* record): the one that says "activated" is the one whose write made the player
\* active, and a receipt that says nothing was paid is of a call that wrote nothing.
ReceiptTellsTheWrite ==
  [][\A r \in Request :
       (step[r] = "record" /\ step'[r] = "answer") =>
         LET p    == call[r].player
             said == receipt'[r]
         IN  IF said.kind = "new"
             THEN /\ Cycles(p)' = Cycles(p) + CheckinCycles
                  /\ said.was_active = (Active(p) \/ ~Active(p)')
             ELSE UNCHANGED <<ledger, checkins>>]_vars

\* "A signup that never came to an event moves nobody on the board" (the view
\* player_standings): no cycle of an inactive player, nor its coming and going,
\* changes a place of another player.
InactiveMovesNobody ==
  [][(/\ \E p \in Player :
           /\ ~Active(p) /\ ~Active(p)'
           /\ \A q \in Player \ {p} : account'[q] = account[q] /\ Cycles(q)' = Cycles(q)
      /\ checkins' = checkins)
     => \A q \in Player : Place(q)' = Place(q)]_vars

\* "A draft hides the event and closes its door; the check-ins already made stay"
\* (EventService::set_status): no scan adds a check-in to a night that is a draft.
DraftClosesTheDoor ==
  [][\A r \in Request :
       (step[r] = "record" /\ call[r].op = "scan" /\ receipt'[r].kind = "new")
       => event[call[r].event].status = "published"]_vars
================================================================================
