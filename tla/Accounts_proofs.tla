---------------------------- MODULE Accounts_proofs ----------------------------
(***************************************************************************)
(* What holds of Accounts for any number of accounts, requests, handles    *)
(* and seconds.                                                            *)
(*                                                                         *)
(* The invariant is Inv: the types, with what a request carries at each    *)
(* of its steps (Carried), the clock against every moment that was taken   *)
(* from it (Past), and the three properties themselves.                    *)
(***************************************************************************)
EXTENDS Accounts, FiniteSetTheorems, TLAPS

\* What the call of a request holds when the request is at a step that writes it.
Carried ==
  \A r \in Request :
    /\ step[r] \in {"hash", "set"} => /\ call[r].new \in Password
                                      /\ call[r].op \in {"change", "reset"}
                                      /\ call[r].id \in Player
    /\ step[r] = "verify" => call[r].op \in {"login", "change"}
    /\ step[r] = "verify" /\ call[r].op = "change" => /\ call[r].new \in Password
                                                      /\ call[r].id \in Player
    /\ step[r] = "create" => call[r].password \in Password /\ call[r].handle \in Handle
    /\ step[r] = "rename" => call[r].handle \in Handle

\* No recorded moment is ahead of the clock.
Past ==
  /\ \A p \in Player : account[p].changed_at <= now
  /\ \A r \in Request : call[r].at <= now

Inv == TypeOK /\ Carried /\ Past /\ AnAdminRemains /\ HandlesUnique

Row == [state : AccountState, handle : Handle \cup {NoHandle},
        role : {"user", "admin"}, password : Password \cup {NoSecret}, must_change : BOOLEAN,
        changed_at : 0..MaxTime]

CallRow == [op : Op, id : Player \cup {NoPlayer}, handle : Handle \cup {NoHandle},
            role : {"user", "admin"}, password : Password \cup {NoSecret},
            new : Password \cup {NoSecret}, seen : Password \cup {NoSecret}, at : 0..MaxTime]

\* The types, split into the table and the requests.
TableOK   == /\ account \in [Player -> Row]
             /\ \A p \in Players : account[p].password # NoSecret
             /\ now \in 0..MaxTime
RequestOK == step \in [Request -> Step] /\ call \in [Request -> CallRow]

LEMMA TypeParts == TypeOK <=> TableOK /\ RequestOK
  BY DEF TypeOK, TableOK, RequestOK, Row, CallRow

\* The table and the clock decide the rest of the invariant.
LEMMA TableStutter ==
  ASSUME UNCHANGED account
  PROVE  (AnAdminRemains <=> AnAdminRemains') /\ (HandlesUnique <=> HandlesUnique')
  BY DEF AnAdminRemains, HandlesUnique, Admins, Players

\* A request that begins, goes on or ends leaves the table alone.
LEMMA NoCallTyped == NoCall \in CallRow
  BY BoundAssumption DEF NoCall, CallRow, Op

LEMMA NoAccountTyped == NoAccount \in Row
  BY BoundAssumption DEF NoAccount, Row, AccountState

\* A request begins with a typed call.
LEMMA BeginKeeps ==
  ASSUME Inv, NEW r \in Request, NEW c \in CallRow, NEW s \in Step, Begin(r, c, s), c.at = 0,
         s \in {"hash", "set"} => c.new \in Password /\ c.op \in {"change", "reset"} /\ c.id \in Player,
         s = "verify" => c.op \in {"login", "change"},
         s = "verify" /\ c.op = "change" => c.new \in Password /\ c.id \in Player,
         s = "create" => c.password \in Password /\ c.handle \in Handle,
         s = "rename" => c.handle \in Handle
  PROVE  Inv'
<1>1. TableOK /\ RequestOK
  BY TypeParts DEF Inv
<1>2. TableOK' /\ RequestOK'
  BY <1>1 DEF TableOK, RequestOK, Begin, Players
<1>3. Carried'
  BY <1>1 DEF Inv, Carried, Begin, RequestOK
<1>4. Past'
  BY <1>1 DEF Inv, Past, Begin, RequestOK, TableOK
<1>5. AnAdminRemains' /\ HandlesUnique'
  BY TableStutter DEF Inv, Begin
<1>6. TypeOK'
  BY <1>2 DEF TypeOK, TableOK, RequestOK, Row, CallRow
<1>7. QED
  BY <1>3, <1>4, <1>5, <1>6 DEF Inv

\* A request that moves on with the call it has, or ends, and writes nothing.
LEMMA QuietKeeps ==
  ASSUME Inv, NEW r \in Request, UNCHANGED account, now' = now,
         \/ Finish(r)
         \/ /\ step[r] = "verify" /\ call[r].op = "change"
            /\ Goto(r, "hash")
         \/ Goto(r, "issue")
         \/ Hashed(r)
  PROVE  Inv'
<1>1. TableOK /\ RequestOK
  BY TypeParts DEF Inv
<1>2. TableOK'
  BY <1>1 DEF TableOK, Players
<1>3. RequestOK' /\ Carried' /\ Past'
  <2>1. CASE Finish(r)
    BY <1>1, <2>1, NoCallTyped, BoundAssumption
    DEF Inv, Carried, Past, RequestOK, TableOK, Finish, Step, NoCall
  <2>2. CASE step[r] = "verify" /\ call[r].op = "change" /\ Goto(r, "hash")
    BY <1>1, <2>2 DEF Inv, Carried, Past, RequestOK, Goto, Step
  <2>3. CASE Goto(r, "issue")
    BY <1>1, <2>3 DEF Inv, Carried, Past, RequestOK, Goto, Step
  <2>4. CASE Hashed(r)
    <3>1. RequestOK'
      <4> DEFINE c == [call[r] EXCEPT !.at = now]
      <4>1. call[r] \in CallRow /\ now \in 0..MaxTime
        BY <1>1 DEF RequestOK, TableOK
      <4>2. c \in CallRow
        BY <4>1 DEF CallRow
      <4>3. step' = [step EXCEPT ![r] = "set"] /\ call' = [call EXCEPT ![r] = c]
        BY <2>4 DEF Hashed
      <4>  HIDE DEF c
      <4>4. QED
        BY <1>1, <4>2, <4>3 DEF RequestOK, Step
    <3>2. Carried'
      BY <1>1, <2>4 DEF Inv, Carried, RequestOK, Hashed, CallRow
    <3>3. Past'
      BY <1>1, <2>4 DEF Inv, Past, RequestOK, TableOK, Hashed, CallRow
    <3>4. QED
      BY <3>1, <3>2, <3>3
  <2>5. QED
    BY <2>1, <2>2, <2>3, <2>4
<1>4. AnAdminRemains' /\ HandlesUnique'
  BY TableStutter DEF Inv
<1>5. QED
  BY <1>2, <1>3, <1>4 DEF Inv, TypeOK, TableOK, RequestOK, Row, CallRow

\* A row is written that keeps the table sound, and the request ends or goes on to
\* its token.
LEMMA WriteKeeps ==
  ASSUME Inv, NEW r \in Request, NEW p \in Player, NEW row \in Row, Write(p, row),
         row.state = "there" => row.password # NoSecret,
         row.changed_at <= now,
         row.state = "there" =>
           \A q \in Players \ {p} : account[q].handle.name # row.handle.name,
         \/ row.state = "there" /\ row.role = "admin"
         \/ \E q \in Admins : q # p,
         \/ Finish(r)
         \/ Goto(r, "issue")
         \/ /\ step' = [step EXCEPT ![r] = "issue"]
            /\ call' = [call EXCEPT ![r].id = p]
  PROVE  Inv'
<1>1. TableOK /\ RequestOK
  BY TypeParts DEF Inv
<1>2. account' = [account EXCEPT ![p] = row] /\ now' = now
  BY DEF Write
<1>3. TableOK'
  BY <1>1, <1>2 DEF TableOK, Players
<1>4. RequestOK' /\ Carried' /\ Past'
  <2>1. \A q \in Player : account'[q].changed_at <= now'
    BY <1>1, <1>2 DEF Inv, Past, TableOK
  <2>2. CASE Finish(r)
    BY <1>1, <1>2, <2>1, <2>2, NoCallTyped, BoundAssumption
    DEF Inv, Carried, Past, RequestOK, TableOK, Finish, Step, NoCall
  <2>3. CASE Goto(r, "issue")
    BY <1>1, <1>2, <2>1, <2>3 DEF Inv, Carried, Past, RequestOK, Goto, Step
  <2>4. CASE /\ step' = [step EXCEPT ![r] = "issue"]
             /\ call' = [call EXCEPT ![r].id = p]
    BY <1>1, <1>2, <2>1, <2>4 DEF Inv, Carried, Past, RequestOK, Step, CallRow
  <2>5. QED
    BY <2>2, <2>3, <2>4
<1>5. AnAdminRemains'
  <2>1. CASE row.state = "there" /\ row.role = "admin"
    BY <1>1, <1>2, <2>1 DEF AnAdminRemains, Admins, Players, TableOK
  <2>2. CASE \E q \in Admins : q # p
    BY <1>1, <1>2, <2>2 DEF AnAdminRemains, Admins, Players, TableOK
  <2>3. QED
    BY <2>1, <2>2
<1>6. HandlesUnique'
  BY <1>1, <1>2 DEF Inv, HandlesUnique, Players, TableOK
<1>7. QED
  BY <1>3, <1>4, <1>5, <1>6 DEF Inv, TypeOK, TableOK, RequestOK, Row, CallRow

\* The condition of the statement leaves an admin who is not the one it takes.
LEMMA AnotherAdmin ==
  ASSUME AnAdminRemains, NEW p \in Player, LeavesAnAdmin(p)
  PROVE  \E q \in Admins : q # p
<1>1. CASE p \notin Admins
  BY <1>1 DEF AnAdminRemains
<1>2. CASE p \in Admins
  <2>1. Cardinality(Admins) > 1
    BY <1>2 DEF LeavesAnAdmin
  <2>2. Admins # {p}
    BY <2>1, FS_Singleton
  <2>3. QED
    BY <1>2, <2>2
<1>3. QED
  BY <1>1, <1>2

LEMMA InitInv == Init => Inv
<1> SUFFICES ASSUME Init PROVE Inv
  OBVIOUS
<1>1. PICK A \in SUBSET Player, handle \in [Player -> Handle], s \in Secret :
        /\ A # {}
        /\ \A p, q \in A : p # q => handle[p].name # handle[q].name
        /\ account = [p \in Player |->
             IF p \in A THEN [NoAccount EXCEPT !.state = "there", !.handle = handle[p],
                                               !.role = "admin", !.password = s]
                        ELSE NoAccount]
  BY DEF Init
<1>2. Players = A /\ Admins = A
  BY <1>1 DEF Players, Admins, NoAccount
<1>3. TableOK
  BY <1>1, <1>2, NoAccountTyped, BoundAssumption, SecretAssumption
  DEF TableOK, Init, NoAccount, Row, AccountState, Password
<1>4. RequestOK /\ Carried
  BY NoCallTyped DEF Init, RequestOK, Carried, Step
<1>5. Past
  <2>1. \A p \in Player : account[p].changed_at = 0
    BY <1>1 DEF NoAccount
  <2>2. \A r \in Request : call[r].at = 0
    <3>1. call = [r \in Request |-> NoCall]
      BY DEF Init
    <3>2. NoCall.at = 0
      BY DEF NoCall
    <3>3. QED
      BY <3>1, <3>2
  <2>3. now = 0
    BY DEF Init
  <2>4. QED
    BY <2>1, <2>2, <2>3 DEF Past
<1>6. AnAdminRemains /\ HandlesUnique
  <2>1. \A p \in A : account[p].handle = handle[p]
    BY <1>1 DEF NoAccount
  <2>2. A # {} /\ \A p, q \in A : p # q => handle[p].name # handle[q].name
    BY <1>1
  <2>3. AnAdminRemains
    BY <1>2, <2>2 DEF AnAdminRemains
  <2>4. \A p, q \in A : account[p].handle.name = account[q].handle.name => p = q
    BY <2>1, <2>2
  <2>5. HandlesUnique
    BY ONLY <1>2, <2>4 DEF HandlesUnique
  <2>6. QED
    BY <2>3, <2>5
<1>7. QED
  BY <1>3, <1>4, <1>5, <1>6, TypeParts DEF Inv

--------------------------------------------------------------------------------
(* One lemma for each group of actions.                                    *)

LEMMA AuthKeeps ==
  ASSUME Inv, NEW r \in Request,
         \/ SignupHash(r) \/ Create(r) \/ LoginRead(r) \/ LoginVerify(r) \/ Issue(r) \/ Abandon(r)
  PROVE  Inv'
<1> USE TypeParts
<1>1. CASE SignupHash(r)
  <2>1. PICK h \in Handle, s \in Secret :
          Begin(r, [NoCall EXCEPT !.op = "signup", !.handle = h, !.password = s], "create")
    BY <1>1 DEF SignupHash
  <2> DEFINE c == [NoCall EXCEPT !.op = "signup", !.handle = h, !.password = s]
  <2>2. c \in CallRow /\ c.at = 0 /\ c.password \in Password /\ c.handle \in Handle
    BY NoCallTyped DEF NoCall, CallRow, Op, Password
  <2>3. QED
    BY <2>1, <2>2, BeginKeeps DEF Step
<1>2. CASE Create(r)
  <2>1. PICK p \in Player :
          /\ account[p].state = "none"
          /\ Write(p, [NoAccount EXCEPT !.state = "there", !.handle = call[r].handle,
                                        !.password = call[r].password])
          /\ call' = [call EXCEPT ![r].id = p]
    BY <1>2 DEF Create
  <2> DEFINE row == [NoAccount EXCEPT !.state = "there", !.handle = call[r].handle,
                                      !.password = call[r].password]
  <2>2. /\ row \in Row /\ row.state = "there" /\ row.password # NoSecret
        /\ row.handle = call[r].handle /\ row.changed_at = 0
    BY <1>2, NoAccountTyped, SecretAssumption
    DEF Create, Inv, Carried, NoAccount, Row, AccountState, Password
  <2>3. \A q \in Players \ {p} : account[q].handle.name # row.handle.name
    BY <1>2, <2>2 DEF Create, Taken
  <2>4. \E q \in Admins : q # p
    BY <2>1 DEF Inv, AnAdminRemains, Admins, Players
  <2>5. 0 <= now
    BY BoundAssumption DEF Inv, TableOK
  <2>6. step' = [step EXCEPT ![r] = "issue"]
    BY <1>2 DEF Create
  <2> HIDE DEF row
  <2>7. QED
    BY <2>1, <2>2, <2>3, <2>4, <2>5, <2>6, WriteKeeps DEF row
<1>3. CASE LoginRead(r)
  <2>1. PICK p \in Players, s \in Password :
          Begin(r, [NoCall EXCEPT !.op = "login", !.id = p, !.password = s,
                                  !.seen = account[p].password], "verify")
    BY <1>3 DEF LoginRead
  <2> DEFINE c == [NoCall EXCEPT !.op = "login", !.id = p, !.password = s,
                                 !.seen = account[p].password]
  <2>2. c \in CallRow /\ c.at = 0 /\ c.op = "login"
    BY NoCallTyped DEF NoCall, CallRow, Op, Players, Inv, TableOK, Row
  <2>3. QED
    BY <2>1, <2>2, BeginKeeps DEF Step
<1>4. CASE LoginVerify(r)
  BY <1>4, QuietKeeps DEF LoginVerify
<1>5. CASE Issue(r)
  BY <1>5, QuietKeeps DEF Issue
<1>6. CASE Abandon(r)
  BY <1>6, QuietKeeps DEF Abandon
<1>7. QED
  BY <1>1, <1>2, <1>3, <1>4, <1>5, <1>6

LEMMA PasswordKeeps ==
  ASSUME Inv, NEW r \in Request,
         \/ ChangeRead(r) \/ ChangeVerify(r) \/ ResetBegin(r) \/ Hashed(r) \/ SetPassword(r)
  PROVE  Inv'
<1> USE TypeParts
<1>1. CASE ChangeRead(r)
  <2>1. PICK p \in Players, s \in Password, new \in Secret :
          Begin(r, [NoCall EXCEPT !.op = "change", !.id = p, !.password = s, !.new = new,
                                  !.seen = account[p].password], "verify")
    BY <1>1 DEF ChangeRead, PendingPassword
  <2> DEFINE c == [NoCall EXCEPT !.op = "change", !.id = p, !.password = s, !.new = new,
                                 !.seen = account[p].password]
  <2>2. /\ c \in CallRow /\ c.at = 0 /\ c.op = "change"
        /\ c.new \in Password /\ c.id \in Player
    BY NoCallTyped DEF NoCall, CallRow, Op, Password, Players, Inv, TableOK, Row
  <2>3. QED
    BY <2>1, <2>2, BeginKeeps DEF Step
<1>2. CASE ChangeVerify(r)
  BY <1>2, QuietKeeps DEF ChangeVerify, Verified
<1>3. CASE ResetBegin(r)
  <2>1. PICK p \in Player :
          Begin(r, [NoCall EXCEPT !.op = "reset", !.id = p, !.new = Temporary], "hash")
    BY <1>3 DEF ResetBegin
  <2> DEFINE c == [NoCall EXCEPT !.op = "reset", !.id = p, !.new = Temporary]
  <2>2. /\ c \in CallRow /\ c.at = 0 /\ c.op = "reset"
        /\ c.new \in Password /\ c.id \in Player
    BY NoCallTyped DEF NoCall, CallRow, Op, Password
  <2>3. QED
    BY <2>1, <2>2, BeginKeeps DEF Step
<1>4. CASE Hashed(r)
  BY <1>4, QuietKeeps DEF Hashed
<1>5. CASE SetPassword(r)
  <2> DEFINE p   == call[r].id
             row == [account[p] EXCEPT !.password = call[r].new,
                                       !.must_change = (call[r].op = "reset"),
                                       !.changed_at = call[r].at]
  <2>1. p \in Player /\ p \in Players /\ Write(p, row)
    BY <1>5 DEF SetPassword, Players
  <2>2. account[p] \in Row /\ call[r] \in CallRow /\ call[r].new \in Password
    BY <1>5, <2>1 DEF SetPassword, Inv, Carried, TableOK, RequestOK
  <2>3. /\ row \in Row /\ row.state = "there" /\ row.password = call[r].new
        /\ row.handle = account[p].handle /\ row.role = account[p].role
        /\ row.changed_at = call[r].at
    BY <2>1, <2>2 DEF Row, CallRow, Players
  <2>4. row.password # NoSecret /\ row.changed_at <= now
    BY <2>2, <2>3, SecretAssumption DEF Inv, Past, Password
  <2>5. \A q \in Players \ {p} : account[q].handle.name # row.handle.name
    BY <2>1, <2>3 DEF Inv, HandlesUnique
  <2>6. row.role = "admin" \/ \E q \in Admins : q # p
    BY <2>1, <2>3 DEF Inv, AnAdminRemains, Admins
  <2>7. Finish(r) \/ Goto(r, "issue")
    BY <1>5 DEF SetPassword
  <2> HIDE DEF row, p
  <2>8. QED
    BY <2>1, <2>3, <2>4, <2>5, <2>6, <2>7, WriteKeeps
<1>6. QED
  BY <1>1, <1>2, <1>3, <1>4, <1>5

LEMMA BackofficeKeeps ==
  ASSUME Inv, NEW r \in Request,
         \/ SetRoleBegin(r) \/ SetRole(r) \/ DeleteBegin(r) \/ Delete(r)
         \/ RenameBegin(r) \/ Rename(r)
  PROVE  Inv'
<1> USE TypeParts
<1>1. CASE SetRoleBegin(r)
  <2>1. PICK p \in Player, role \in {"user", "admin"} :
          Begin(r, [NoCall EXCEPT !.op = "set_role", !.id = p, !.role = role], "role")
    BY <1>1 DEF SetRoleBegin
  <2> DEFINE c == [NoCall EXCEPT !.op = "set_role", !.id = p, !.role = role]
  <2>2. c \in CallRow /\ c.at = 0
    BY NoCallTyped DEF NoCall, CallRow, Op
  <2>3. QED
    BY <2>1, <2>2, BeginKeeps DEF Step
<1>2. CASE DeleteBegin(r)
  <2>1. PICK p \in Player : Begin(r, [NoCall EXCEPT !.op = "delete", !.id = p], "delete")
    BY <1>2 DEF DeleteBegin
  <2> DEFINE c == [NoCall EXCEPT !.op = "delete", !.id = p]
  <2>2. c \in CallRow /\ c.at = 0
    BY NoCallTyped DEF NoCall, CallRow, Op
  <2>3. QED
    BY <2>1, <2>2, BeginKeeps DEF Step
<1>3. CASE RenameBegin(r)
  <2>1. PICK p \in Player, h \in Handle :
          Begin(r, [NoCall EXCEPT !.op = "rename", !.id = p, !.handle = h], "rename")
    BY <1>3 DEF RenameBegin
  <2> DEFINE c == [NoCall EXCEPT !.op = "rename", !.id = p, !.handle = h]
  <2>2. c \in CallRow /\ c.at = 0 /\ c.handle \in Handle
    BY NoCallTyped DEF NoCall, CallRow, Op
  <2>3. QED
    BY <2>1, <2>2, BeginKeeps DEF Step
<1> DEFINE p == call[r].id
<1>4. p \in Players => /\ p \in Player /\ account[p] \in Row /\ account[p].state = "there"
                       /\ account[p].password # NoSecret /\ account[p].changed_at <= now
  BY DEF Inv, Players, TableOK, Past
<1>5. call[r] \in CallRow
  BY DEF Inv, RequestOK
<1>6. CASE SetRole(r)
  <2> DEFINE row == [account[p] EXCEPT !.role = call[r].role]
  <2>1. p \in Players /\ Write(p, row) /\ Finish(r)
    BY <1>6 DEF SetRole
  <2>2. /\ row \in Row /\ row.state = "there" /\ row.password = account[p].password
        /\ row.handle = account[p].handle /\ row.role = call[r].role
        /\ row.changed_at = account[p].changed_at
    BY <1>4, <1>5, <2>1 DEF Row, CallRow
  <2>3. \A q \in Players \ {p} : account[q].handle.name # row.handle.name
    BY <2>1, <2>2 DEF Inv, HandlesUnique
  <2>4. row.role = "admin" \/ \E q \in Admins : q # p
    <3>1. call[r].role = "user" => LeavesAnAdmin(p)
      BY <1>6 DEF SetRole
    <3>2. call[r].role \in {"user", "admin"}
      BY <1>5 DEF CallRow
    <3>3. QED
      BY <1>4, <2>1, <2>2, <3>1, <3>2, AnotherAdmin DEF Inv
  <2> HIDE DEF row, p
  <2>5. QED
    BY <1>4, <2>1, <2>2, <2>3, <2>4, WriteKeeps
<1>7. CASE Delete(r)
  <2> DEFINE row == [NoAccount EXCEPT !.state = "deleted"]
  <2>1. p \in Players /\ Write(p, row) /\ Finish(r) /\ LeavesAnAdmin(p)
    BY <1>7 DEF Delete
  <2>2. row \in Row /\ row.state = "deleted" /\ row.changed_at = 0
    BY NoAccountTyped DEF NoAccount, Row, AccountState
  <2>3. 0 <= now
    BY BoundAssumption DEF Inv, TableOK
  <2>4. \E q \in Admins : q # p
    BY <1>4, <2>1, AnotherAdmin DEF Inv
  <2> HIDE DEF row, p
  <2>5. QED
    BY <1>4, <2>1, <2>2, <2>3, <2>4, WriteKeeps
<1>8. CASE Rename(r)
  <2> DEFINE row == [account[p] EXCEPT !.handle = call[r].handle]
  <2>1. p \in Players /\ Write(p, row) /\ Finish(r) /\ ~Taken(call[r].handle, Players \ {p})
    BY <1>8 DEF Rename
  <2>2. /\ row \in Row /\ row.state = "there" /\ row.password = account[p].password
        /\ row.handle = call[r].handle /\ row.role = account[p].role
        /\ row.changed_at = account[p].changed_at
    BY <1>4, <1>5, <2>1 DEF Row, CallRow
  <2>3. \A q \in Players \ {p} : account[q].handle.name # row.handle.name
    BY <2>1, <2>2 DEF Taken
  <2>4. row.role = "admin" \/ \E q \in Admins : q # p
    BY <2>1, <2>2 DEF Inv, AnAdminRemains, Admins
  <2> HIDE DEF row, p
  <2>5. QED
    BY <1>4, <2>1, <2>2, <2>3, <2>4, WriteKeeps
<1>9. QED
  BY <1>1, <1>2, <1>3, <1>6, <1>7, <1>8

LEMMA TickKeeps == ASSUME Inv, Tick PROVE Inv'
<1>1. TableOK /\ RequestOK
  BY TypeParts DEF Inv
<1>2. TableOK' /\ RequestOK'
  BY <1>1, BoundAssumption DEF Tick, TableOK, RequestOK, Players, request
<1>3. Carried' /\ AnAdminRemains' /\ HandlesUnique'
  BY DEF Inv, Tick, Carried, AnAdminRemains, HandlesUnique, Admins, Players, request
<1>4. Past'
  <2>1. now \in Int /\ now' = now + 1 /\ UNCHANGED <<account, call>>
    BY <1>1, BoundAssumption DEF Tick, TableOK, request
  <2>2. /\ \A p \in Player : account[p].changed_at \in Int
        /\ \A r \in Request : call[r].at \in Int
    BY <1>1, BoundAssumption DEF TableOK, RequestOK, Row, CallRow
  <2>3. QED
    BY <2>1, <2>2 DEF Inv, Past
<1>5. QED
  BY <1>2, <1>3, <1>4 DEF Inv, TypeOK, TableOK, RequestOK, Row, CallRow

LEMMA StepInv == Inv /\ [Next]_vars => Inv'
<1> SUFFICES ASSUME Inv, [Next]_vars PROVE Inv'
  OBVIOUS
<1>1. CASE UNCHANGED vars
  BY <1>1 DEF vars, request, Inv, TypeOK, Carried, Past, AnAdminRemains, HandlesUnique,
              Admins, Players
<1>2. CASE Tick
  BY <1>2, TickKeeps
<1>3. ASSUME NEW r \in Request,
             \/ SignupHash(r) \/ Create(r) \/ LoginRead(r) \/ LoginVerify(r)
             \/ Issue(r) \/ Abandon(r)
      PROVE  Inv'
  BY <1>3, AuthKeeps
<1>4. ASSUME NEW r \in Request,
             \/ ChangeRead(r) \/ ChangeVerify(r) \/ ResetBegin(r) \/ Hashed(r)
             \/ SetPassword(r)
      PROVE  Inv'
  BY <1>4, PasswordKeeps
<1>5. ASSUME NEW r \in Request,
             \/ SetRoleBegin(r) \/ SetRole(r) \/ DeleteBegin(r) \/ Delete(r)
             \/ RenameBegin(r) \/ Rename(r)
      PROVE  Inv'
  BY <1>5, BackofficeKeeps
<1>6. QED
  BY <1>1, <1>2, <1>3, <1>4, <1>5 DEF Next

LEMMA AlwaysInv == Spec => []Inv
  BY InitInv, StepInv, PTL DEF Spec

--------------------------------------------------------------------------------

\* The types of the table and the requests hold in every behaviour.
THEOREM TypeCorrect == Spec => []TypeOK
<1>1. Inv => TypeOK
  BY DEF Inv
<1>2. QED
  BY <1>1, AlwaysInv, PTL

\* However many admins demote and delete one another at once, one remains: the
\* condition is in the statements of set_role and delete.
THEOREM TheCrewKeepsAnAdmin == Spec => []AnAdminRemains
<1>1. Inv => AnAdminRemains
  BY DEF Inv
<1>2. QED
  BY <1>1, AlwaysInv, PTL

\* However many signups and renames meet, a handle is of one account, in any letter
\* case.
THEOREM OneAccountPerHandle == Spec => []HandlesUnique
<1>1. Inv => HandlesUnique
  BY DEF Inv
<1>2. QED
  BY <1>1, AlwaysInv, PTL

\* The token of a signup, a login or a password change is accepted in the second in
\* which it is issued, whatever was written to the account meanwhile.
THEOREM FreshTokensWork == Spec => []FreshTokenWorks
<1>1. Inv => FreshTokenWorks
  <2> SUFFICES ASSUME Inv, NEW r \in Request, step[r] = "issue", call[r].id \in Players
               PROVE  Accepts(call[r].id, now)
    BY DEF FreshTokenWorks
  <2>1. /\ account[call[r].id].changed_at <= now
        /\ account[call[r].id].changed_at \in Int /\ now \in Int
    BY TypeParts, BoundAssumption DEF Inv, Past, Players, TableOK, Row
  <2>2. QED
    BY <2>1 DEF Accepts
<1>2. QED
  BY <1>1, AlwaysInv, PTL
================================================================================
