-------------------------------- MODULE Server ---------------------------------
(***************************************************************************)
(* One API process: the requests it serves, the pool of connections, the   *)
(* write lock of the database file, the permits of the hasher, and the     *)
(* stop of the process (server.rs, storage/db.rs, services/password.rs).   *)
(*                                                                         *)
(* A handler is the sequence of the things it awaits.  A timeout, a panic  *)
(* and a client that hangs up drop it wherever it stands, and what it      *)
(* holds comes back.                                                       *)
(*                                                                         *)
(* Time counts from SIGTERM.  Every request that is served then is older,  *)
(* so its own timer has fired when the stop is as old as REQUEST_TIMEOUT.  *)
(* Before that a timer may fire at any moment.                             *)
(***************************************************************************)
EXTENDS Hasher

CONSTANTS
  Kind,            \* the kinds of requests that come
  MaxConnections,  \* DB_MAX_CONNECTIONS
  RequestTimeout,  \* REQUEST_TIMEOUT
  DrainDeadline,   \* DRAIN_DEADLINE
  KillAfter        \* when systemd sends SIGKILL

ASSUME PoolAssumption == MaxConnections \in Nat \ {0}
ASSUME TimeAssumption ==
  /\ RequestTimeout \in Nat /\ DrainDeadline \in Nat /\ KillAfter \in Nat
  /\ RequestTimeout < KillAfter /\ DrainDeadline < KillAfter

VARIABLES
  life,      \* where the process is
  stopping,  \* the time since SIGTERM
  at,        \* where a request is
  todo,      \* what its handler awaits from here on
  line       \* the requests that wait for a connection

process  == <<life, stopping>>
requests == <<at, todo, line>>
hashes   == <<permits, queue, phase, orphans>>
all      == <<process, requests, hashes>>

Life  == {"up", "draining", "closing", "closed", "exited"}
Place == {"absent", "ready", "waits", "reading", "locking", "writing", "hashing", "sending"}

\* What the handlers await, in order.  A service reads in one call and writes in
\* another, and hashes while it holds no connection.  The read of an authenticated
\* caller is one with the first of these.
Handler == [
  ready  |-> <<"read">>,
  edit   |-> <<"read", "write">>,
  signup |-> <<"hash", "write">>,
  login  |-> <<"read", "hash">>,
  change |-> <<"read", "hash", "hash", "write">>]

ASSUME KindAssumption == Kind \subseteq DOMAIN Handler

Holding == {r \in Request : at[r] \in {"reading", "locking", "writing"}}
Writing == {r \in Request : at[r] = "writing"}
\* A response is ready when the timeout layer is left: what is sent has no timer.
Inside  == {r \in Request : at[r] \notin {"absent", "sending"}}

ServerInit ==
  /\ Init
  /\ life = "up" /\ stopping = 0
  /\ at = [r \in Request |-> "absent"]
  /\ todo = [r \in Request |-> <<>>]
  /\ line = <<>>

Arrive(r, kind) ==
  /\ life = "up" /\ at[r] = "absent"
  /\ at' = [at EXCEPT ![r] = "ready"]
  /\ todo' = [todo EXCEPT ![r] = Handler[kind]]
  /\ UNCHANGED <<line, process, hashes>>

\* r goes on after an await, or has its answer: what it awaited may refuse it.
Proceed(r) ==
  \E rest \in {Tail(todo[r]), <<>>} :
    /\ todo' = [todo EXCEPT ![r] = rest]
    /\ at' = [at EXCEPT ![r] = IF rest = <<>> THEN "sending" ELSE "ready"]

--------------------------------------------------------------------------------
(* The pool and the write lock.                                            *)

AsksForConnection(r) ==
  /\ at[r] = "ready" /\ todo[r][1] \in {"read", "write"}
  /\ at' = [at EXCEPT ![r] = "waits"]
  /\ line' = Append(line, r)
  /\ UNCHANGED <<todo, process, hashes>>

PoolOpen == life \in {"up", "draining"}

\* The pool is first come, first served.
Connects(r) ==
  /\ line # <<>> /\ r = line[1]
  /\ PoolOpen /\ Cardinality(Holding) < MaxConnections
  /\ line' = Tail(line)
  /\ at' = [at EXCEPT ![r] = IF todo[r][1] = "read" THEN "reading" ELSE "locking"]
  /\ UNCHANGED <<todo, process, hashes>>

\* ACQUIRE_TIMEOUT, or a pool that closes: 503.
NoConnection(r) ==
  /\ at[r] = "waits"
  /\ line' = RemoveFirst(line, r)
  /\ at' = [at EXCEPT ![r] = "sending"]
  /\ todo' = [todo EXCEPT ![r] = <<>>]
  /\ UNCHANGED <<process, hashes>>

Reads(r) ==
  /\ at[r] = "reading"
  /\ Proceed(r)
  /\ UNCHANGED <<line, process, hashes>>

\* BEGIN IMMEDIATE.
BeginsWrite(r) ==
  /\ at[r] = "locking" /\ Writing = {}
  /\ at' = [at EXCEPT ![r] = "writing"]
  /\ UNCHANGED <<todo, line, process, hashes>>

\* BUSY_TIMEOUT: 503.
LockedOut(r) ==
  /\ at[r] = "locking" /\ Writing # {}
  /\ at' = [at EXCEPT ![r] = "sending"]
  /\ todo' = [todo EXCEPT ![r] = <<>>]
  /\ UNCHANGED <<line, process, hashes>>

\* COMMIT, or a refusal that rolls back.
Writes(r) ==
  /\ at[r] = "writing"
  /\ Proceed(r)
  /\ UNCHANGED <<line, process, hashes>>

--------------------------------------------------------------------------------
(* The hasher.                                                             *)

AsksForPermit(r) ==
  /\ at[r] = "ready" /\ todo[r][1] = "hash"
  /\ Acquire(r) \/ Wait(r)
  /\ at' = [at EXCEPT ![r] = "hashing"]
  /\ UNCHANGED <<todo, line, process>>

Hashes(r) ==
  /\ Spawn(r) \/ TaskEnds(r)
  /\ UNCHANGED <<requests, process>>

Hashed(r) ==
  /\ at[r] = "hashing"
  /\ Answer(r)
  /\ Proceed(r)
  /\ UNCHANGED <<line, process>>

HashEnds == OrphanEnds /\ UNCHANGED <<requests, process>>

--------------------------------------------------------------------------------
(* Ends.                                                                   *)

Sent(r) ==
  /\ at[r] = "sending"
  /\ at' = [at EXCEPT ![r] = "absent"]
  /\ UNCHANGED <<todo, line, process, hashes>>

\* The future of r is dropped: by the timeout or a panic, which are answered, or
\* by a client that is gone.
Dropped(r) ==
  /\ at[r] \notin {"absent", "sending"}
  /\ \E end \in {"sending", "absent"} : at' = [at EXCEPT ![r] = end]
  /\ todo' = [todo EXCEPT ![r] = <<>>]
  /\ line' = RemoveFirst(line, r)
  /\ \/ at[r] = "hashing" /\ (CancelWaiting(r) \/ CancelHolding(r))
     \/ at[r] # "hashing" /\ UNCHANGED hashes
  /\ UNCHANGED process

--------------------------------------------------------------------------------
(* The stop.                                                               *)

\* shutdown_signal: no request is accepted any more.
Terminate ==
  /\ life = "up"
  /\ life' = "draining"
  /\ UNCHANGED <<stopping, requests, hashes>>

\* The deadline passes, or nothing is left: the pool is told to close.
Drained ==
  /\ life = "draining"
  /\ stopping = DrainDeadline \/ \A r \in Request : at[r] = "absent"
  /\ life' = "closing"
  /\ UNCHANGED <<stopping, requests, hashes>>

\* A bug: the close is not awaited.
ClosesAtOnce ==
  /\ life = "closing"
  /\ life' = "closed"
  /\ UNCHANGED <<stopping, requests, hashes>>

\* pool.close returns when every connection has come back.  The last one to
\* close checkpoints the WAL.
Closes ==
  /\ life = "closing" /\ Holding = {}
  /\ life' = "closed"
  /\ UNCHANGED <<stopping, requests, hashes>>

\* run returns: the runtime drops what is left and waits for the tasks that run.
Exit ==
  /\ life = "closed" /\ orphans = 0 /\ Running = {}
  /\ life' = "exited"
  /\ at' = [r \in Request |-> "absent"]
  /\ todo' = [r \in Request |-> <<>>]
  /\ line' = <<>>
  /\ permits' = ConcurrentHashes /\ queue' = <<>>
  /\ phase' = [r \in Request |-> "idle"]
  /\ UNCHANGED <<stopping, orphans>>

\* Restart=always.
Start ==
  /\ life = "exited"
  /\ life' = "up" /\ stopping' = 0
  /\ UNCHANGED <<requests, hashes>>

\* A bug: the drain has no deadline.
DrainOpenEnded ==
  \/ life = "closing" /\ Holding = {}
  \/ stopping >= RequestTimeout /\ Inside # {}

\* What is due now and does not wait for a tick of the clock.
Due ==
  \/ life = "draining" /\ stopping >= DrainDeadline
  \/ life = "closing" /\ Holding = {}
  \/ stopping >= RequestTimeout /\ Inside # {}

Tick ==
  /\ life \in {"draining", "closing"}
  /\ stopping < KillAfter /\ ~Due
  /\ stopping' = stopping + 1
  /\ UNCHANGED <<life, requests, hashes>>

ServerNext ==
  \/ \E r \in Request :
       \/ \E kind \in Kind : Arrive(r, kind)
       \/ AsksForConnection(r) \/ Connects(r) \/ NoConnection(r)
       \/ Reads(r) \/ BeginsWrite(r) \/ LockedOut(r) \/ Writes(r)
       \/ AsksForPermit(r) \/ Hashes(r) \/ Hashed(r)
       \/ Sent(r) \/ Dropped(r)
  \/ HashEnds
  \/ Terminate \/ Drained \/ Closes \/ Exit \/ Start \/ Tick

\* The runtime polls what is ready, a statement ends, a hash ends, and who waits
\* for the lock has it or is refused.  Neither the client, who may read an answer
\* never, nor the timers of the pool and of the request are counted on.
Steps(r) ==
  \/ AsksForConnection(r) \/ Connects(r) \/ Reads(r)
  \/ BeginsWrite(r) \/ LockedOut(r) \/ Writes(r)
  \/ AsksForPermit(r) \/ Hashes(r) \/ Hashed(r)
ServerFairness ==
  /\ \A r \in Request : WF_all(Steps(r)) /\ WF_all(NoConnection(r) /\ ~PoolOpen)
  /\ WF_all(Exit)

ServerSpec == ServerInit /\ [][ServerNext]_all /\ ServerFairness

--------------------------------------------------------------------------------
(* Properties.                                                             *)

\* Type invariant, and what a request waits for is where it says it waits.
ServerTypeOK ==
  /\ TypeOK
  /\ life \in Life /\ stopping \in 0..KillAfter
  /\ at \in [Request -> Place]
  /\ \A r \in Request :
       /\ todo[r] = <<>> <=> at[r] \in {"absent", "sending"}
       /\ phase[r] = "idle" <=> at[r] # "hashing"
  /\ IsInjective(line) /\ ToSet(line) = {r \in Request : at[r] = "waits"}

\* Every request that a handler works on gets its answer, whoever else keeps coming
\* and although nobody counts on REQUEST_TIMEOUT or ACQUIRE_TIMEOUT: permits and
\* connections come back, and no request waits for one while it holds the other.
EveryRequestEnds == \A r \in Request : r \in Inside ~> r \notin Inside

\* "a close of the pool before that checkpoints the WAL" (DRAIN_DEADLINE): when the
\* close has returned no statement runs and none will, though requests that the
\* deadline left behind still do.
ClosedIsQuiet == life \in {"closed", "exited"} => Holding = {}

\* "systemd sends SIGKILL after its own timeout" (DRAIN_DEADLINE): the pool is closed
\* before, whatever clients do and wherever requests hang.
ClosedBeforeTheKill == life \in {"up", "draining", "closing"} => stopping < KillAfter
================================================================================
