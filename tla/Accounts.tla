------------------------------- MODULE Accounts --------------------------------
(***************************************************************************)
(* The accounts and their login: AuthService (services/auth_service.rs)    *)
(* and PlayerService (services/player_service.rs) over PlayerStorage       *)
(* (storage/player_storage.rs), with the token of TokenIssuer.             *)
(*                                                                         *)
(* One action is one awaited storage call with the computation up to the   *)
(* next one; a hash (see Hasher) is the time that may pass between two.    *)
(* The clock counts seconds, the unit of a token and of                    *)
(* credentials_changed_at.                                                 *)
(***************************************************************************)
EXTENDS Integers, FiniteSets

CONSTANTS
  Player,     \* the ids accounts may have
  Handle,     \* handles as they are typed: a name, and in which letter case
  Secret,     \* the passwords players choose
  Temporary,  \* the password of a reset
  NoSecret,
  Request,    \* the requests in flight at once
  MaxTime     \* bound: the clock

ASSUME SecretAssumption == Temporary \notin Secret /\ NoSecret \notin Secret \cup {Temporary}
ASSUME HandleAssumption == Handle \subseteq [name : STRING, upper : BOOLEAN]
ASSUME BoundAssumption  == MaxTime \in Nat

Password == Secret \cup {Temporary}
Op       == {"none", "signup", "login", "change", "reset", "set_role", "delete", "rename"}
Step     == {"idle", "create", "verify", "hash", "set", "issue", "role", "delete", "rename"}

VARIABLES
  account,  \* the players table, with what became of an id
  now,      \* the clock, in seconds
  step,     \* what a request awaits next
  call      \* what the request asks for and what it read

request == <<step, call>>
vars    == <<account, now, request>>

AccountState == {"none", "there", "deleted"}
NoPlayer     == "none"
NoHandle     == [name |-> "none", upper |-> FALSE]
NoAccount    == [state |-> "none", handle |-> NoHandle, role |-> "user",
                 password |-> NoSecret, must_change |-> FALSE, changed_at |-> 0]
NoCall       == [op |-> "none", id |-> NoPlayer, handle |-> NoHandle, role |-> "user",
                 password |-> NoSecret, new |-> NoSecret, seen |-> NoSecret, at |-> 0]

Players == {p \in Player : account[p].state = "there"}
Admins  == {p \in Players : account[p].role = "admin"}

\* The first admins are made on the box, with the statement of deploy/README.md.
Init ==
  /\ \E A \in SUBSET Player, handle \in [Player -> Handle], s \in Secret :
       /\ A # {}
       /\ \A p, q \in A : p # q => handle[p].name # handle[q].name
       /\ account = [p \in Player |->
            IF p \in A THEN [NoAccount EXCEPT !.state = "there", !.handle = handle[p],
                                              !.role = "admin", !.password = s]
                       ELSE NoAccount]
  /\ now = 0
  /\ step = [r \in Request |-> "idle"] /\ call = [r \in Request |-> NoCall]

--------------------------------------------------------------------------------
(* The life of a request.                                                  *)

Begin(r, c, s) ==
  /\ step[r] = "idle"
  /\ call' = [call EXCEPT ![r] = c]
  /\ step' = [step EXCEPT ![r] = s]
  /\ UNCHANGED <<account, now>>

Goto(r, s) == step' = [step EXCEPT ![r] = s] /\ UNCHANGED call

Finish(r) ==
  /\ step' = [step EXCEPT ![r] = "idle"]
  /\ call' = [call EXCEPT ![r] = NoCall]

\* The timeout, a client that hangs up, a restart, or a refusal: a handle that is
\* taken, a wrong password, the last admin, an account that went.
Abandon(r) ==
  /\ step[r] # "idle"
  /\ Finish(r)
  /\ UNCHANGED <<account, now>>

Write(p, row) == account' = [account EXCEPT ![p] = row] /\ UNCHANGED now

--------------------------------------------------------------------------------
(* Tokens: TokenIssuer::issue and AuthService::authenticate.               *)

\* A bug: a token of the second of the change is refused.
AcceptsLater(p, iat) == p \in Players /\ iat > account[p].changed_at

Accepts(p, iat) == p \in Players /\ iat >= account[p].changed_at

Issue(r) ==
  /\ step[r] = "issue"
  /\ Finish(r)
  /\ UNCHANGED <<account, now>>

\* Who may call: anyone with an account, and an admin whose password is settled.
PendingPassword == Players
Authenticated   == {p \in Players : ~account[p].must_change}
AdminOnly       == Admins \cap Authenticated

--------------------------------------------------------------------------------
(* Signup and login.                                                       *)

\* A bug: the letter case tells two handles apart.
TakenAsTyped(h, others) == \E q \in others : account[q].handle = h

\* The unique index of the handles does not look at the letter case.
Taken(h, others) == \E q \in others : account[q].handle.name = h.name

SignupHash(r) ==
  \E h \in Handle, s \in Secret :
    Begin(r, [NoCall EXCEPT !.op = "signup", !.handle = h, !.password = s], "create")

Create(r) ==
  /\ step[r] = "create"
  /\ ~Taken(call[r].handle, Players)
  /\ \E p \in Player :
       /\ account[p].state = "none"
       /\ Write(p, [NoAccount EXCEPT !.state = "there", !.handle = call[r].handle,
                                     !.password = call[r].password])
       /\ call' = [call EXCEPT ![r].id = p]
  /\ step' = [step EXCEPT ![r] = "issue"]

LoginRead(r) ==
  \E p \in Players, s \in Password :
    Begin(r, [NoCall EXCEPT !.op = "login", !.id = p, !.password = s,
                            !.seen = account[p].password], "verify")

Verified(r) == step[r] = "verify" /\ call[r].password = call[r].seen

LoginVerify(r) ==
  /\ Verified(r) /\ call[r].op = "login"
  /\ Goto(r, "issue")
  /\ UNCHANGED <<account, now>>

--------------------------------------------------------------------------------
(* change_password and reset_password.                                     *)

ChangeRead(r) ==
  \E p \in PendingPassword, s \in Password, new \in Secret :
    Begin(r, [NoCall EXCEPT !.op = "change", !.id = p, !.password = s, !.new = new,
                            !.seen = account[p].password], "verify")

ChangeVerify(r) ==
  /\ Verified(r) /\ call[r].op = "change"
  /\ Goto(r, "hash")
  /\ UNCHANGED <<account, now>>

ResetBegin(r) ==
  /\ AdminOnly # {}
  /\ \E p \in Player :
       Begin(r, [NoCall EXCEPT !.op = "reset", !.id = p, !.new = Temporary], "hash")

\* The hash is there; the moment of the change is taken before the write waits.
Hashed(r) ==
  /\ step[r] = "hash"
  /\ call' = [call EXCEPT ![r].at = now]
  /\ step' = [step EXCEPT ![r] = "set"]
  /\ UNCHANGED <<account, now>>

\* A bug: the write forgets the hash and the moment of the change.
SetMarkAlone(r) ==
  LET p == call[r].id
  IN  /\ step[r] = "set"
      /\ p \in Players
      /\ Write(p, [account[p] EXCEPT !.password = NoSecret,
                                     !.must_change = (call[r].op = "reset")])
      /\ \/ call[r].op = "change" /\ Goto(r, "issue")
         \/ call[r].op = "reset" /\ Finish(r)

SetPassword(r) ==
  LET p == call[r].id
  IN  /\ step[r] = "set"
      /\ p \in Players
      /\ Write(p, [account[p] EXCEPT !.password = call[r].new,
                                     !.must_change = (call[r].op = "reset"),
                                     !.changed_at = call[r].at])
      /\ \/ call[r].op = "change" /\ Goto(r, "issue")
         \/ call[r].op = "reset" /\ Finish(r)

--------------------------------------------------------------------------------
(* The backoffice: set_role, delete, rename.                               *)

SetRoleBegin(r) ==
  \E actor \in AdminOnly, p \in Player, role \in {"user", "admin"} :
    /\ actor # p
    /\ Begin(r, [NoCall EXCEPT !.op = "set_role", !.id = p, !.role = role], "role")

DeleteBegin(r) ==
  \E actor \in AdminOnly, p \in Player :
    /\ actor # p
    /\ Begin(r, [NoCall EXCEPT !.op = "delete", !.id = p], "delete")

\* A bug: nobody demotes or deletes themself, so an admin is left anyway.
LeavesActor(p) == TRUE

\* The condition of the statement that demotes or deletes.
LeavesAnAdmin(p) == p \in Admins => Cardinality(Admins) > 1

SetRole(r) ==
  LET p == call[r].id
  IN  /\ step[r] = "role"
      /\ p \in Players
      /\ call[r].role = "user" => LeavesAnAdmin(p)
      /\ Write(p, [account[p] EXCEPT !.role = call[r].role])
      /\ Finish(r)

Delete(r) ==
  LET p == call[r].id
  IN  /\ step[r] = "delete"
      /\ p \in Players
      /\ LeavesAnAdmin(p)
      /\ Write(p, [NoAccount EXCEPT !.state = "deleted"])
      /\ Finish(r)

\* An admin renames anybody, and everybody themself (change_handle).
RenameBegin(r) ==
  \E p \in Player, h \in Handle :
    /\ AdminOnly # {} \/ p \in Authenticated
    /\ Begin(r, [NoCall EXCEPT !.op = "rename", !.id = p, !.handle = h], "rename")

Rename(r) ==
  LET p == call[r].id
  IN  /\ step[r] = "rename"
      /\ p \in Players
      /\ ~Taken(call[r].handle, Players \ {p})
      /\ Write(p, [account[p] EXCEPT !.handle = call[r].handle])
      /\ Finish(r)

Tick ==
  /\ now < MaxTime
  /\ now' = now + 1
  /\ UNCHANGED <<account, request>>

Next ==
  \/ \E r \in Request :
       \/ SignupHash(r) \/ Create(r) \/ LoginRead(r) \/ LoginVerify(r)
       \/ ChangeRead(r) \/ ChangeVerify(r) \/ ResetBegin(r) \/ Hashed(r) \/ SetPassword(r)
       \/ SetRoleBegin(r) \/ SetRole(r) \/ DeleteBegin(r) \/ Delete(r)
       \/ RenameBegin(r) \/ Rename(r)
       \/ Issue(r) \/ Abandon(r)
  \/ Tick

Spec == Init /\ [][Next]_vars

--------------------------------------------------------------------------------
(* Properties.                                                             *)

\* Type invariant.
TypeOK ==
  /\ account \in [Player -> [state : AccountState, handle : Handle \cup {NoHandle},
                             role : {"user", "admin"}, password : Password \cup {NoSecret},
                             must_change : BOOLEAN, changed_at : 0..MaxTime]]
  /\ \A p \in Players : account[p].password # NoSecret
  /\ now \in 0..MaxTime
  /\ step \in [Request -> Step]
  /\ call \in [Request -> [op : Op, id : Player \cup {NoPlayer}, handle : Handle \cup {NoHandle},
                           role : {"user", "admin"}, password : Password \cup {NoSecret},
                           new : Password \cup {NoSecret}, seen : Password \cup {NoSecret},
                           at : 0..MaxTime]]

\* "The crew keeps at least one admin, so nobody locks the crew out" (set_role): two
\* admins who demote or delete each other at once cannot both win.
AnAdminRemains == Admins # {}

\* "Dave and dave are one player" (get_by_handle): whatever signups and renames meet,
\* no two accounts answer to one handle.
HandlesUnique ==
  \A p, q \in Players : account[p].handle.name = account[q].handle.name => p = q

\* "kills every older token, so the caller gets a fresh one back" (change_password),
\* and "a token from the same second as the change stays valid" (set_password): the
\* token a request answers with is accepted, whatever the account went through since
\* the request read or wrote it.
FreshTokenWorks ==
  \A r \in Request :
    step[r] = "issue" /\ call[r].id \in Players => Accepts(call[r].id, now)

\* "the next login must change it" (reset_password): only a change that verified the
\* temporary password lifts the mark of a reset.
ResetStands ==
  [][\A p \in Player :
       account[p].must_change /\ p \in Players /\ p \in Players' /\ ~account'[p].must_change
       => \E r \in Request : /\ step[r] = "set" /\ call[r].op = "change"
                             /\ call[r].id = p /\ call[r].seen = Temporary]_vars
================================================================================
