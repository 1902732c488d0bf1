-------------------------------- MODULE Hasher ---------------------------------
(***************************************************************************)
(* PasswordHasher (services/password.rs): a hash or a verification takes   *)
(* one of CONCURRENT_HASHES permits, runs as a task of the blocking pool   *)
(* and gives the permit back when the future that awaits it ends or is     *)
(* dropped.  The semaphore is tokio's: first come, first served, and a     *)
(* permit that comes back goes to the head of the queue.                   *)
(*                                                                         *)
(* A future is dropped by the request timeout and by a client that hangs   *)
(* up.  A task of the blocking pool that has started is not: it runs on    *)
(* without its caller, an orphan here.                                     *)
(***************************************************************************)
EXTENDS Integers, FiniteSets, Sequences, SequencesExt

CONSTANTS
  Request,           \* the requests that hash at once
  ConcurrentHashes,  \* CONCURRENT_HASHES
  MaxOrphans         \* bound: orphans at once

ASSUME PermitAssumption == ConcurrentHashes \in Nat \ {0}
ASSUME BoundAssumption  == MaxOrphans \in Nat
ASSUME RequestAssumption == IsFiniteSet(Request)

VARIABLES
  permits,  \* the free permits of the semaphore
  queue,    \* the requests that wait for one
  phase,    \* where the future of a request is
  orphans   \* tasks that run without a caller

vars == <<permits, queue, phase, orphans>>

Phase   == {"idle", "waiting", "granted", "running", "ended"}
Holders == {r \in Request : phase[r] \in {"granted", "running", "ended"}}
Running == {r \in Request : phase[r] = "running"}

Init ==
  /\ permits = ConcurrentHashes
  /\ queue = <<>>
  /\ phase = [r \in Request |-> "idle"]
  /\ orphans = 0

\* A bug: nobody looks whether a permit is left.
AcquireAnyway(r) ==
  /\ phase[r] = "idle"
  /\ permits' = permits - 1
  /\ phase' = [phase EXCEPT ![r] = "running"]
  /\ UNCHANGED <<queue, orphans>>

\* A bug: the permit is bound to nothing and dropped at once.
AcquireAndDrop(r) ==
  /\ phase[r] = "idle" /\ permits > 0
  /\ phase' = [phase EXCEPT ![r] = "running"]
  /\ UNCHANGED <<permits, queue, orphans>>

\* A permit is free and is taken: the task starts in the same poll.
Acquire(r) ==
  /\ phase[r] = "idle" /\ permits > 0
  /\ permits' = permits - 1
  /\ phase' = [phase EXCEPT ![r] = "running"]
  /\ UNCHANGED <<queue, orphans>>

Wait(r) ==
  /\ phase[r] = "idle" /\ permits = 0
  /\ queue' = Append(queue, r)
  /\ phase' = [phase EXCEPT ![r] = "waiting"]
  /\ UNCHANGED <<permits, orphans>>

NextInLine == Head(queue)

\* A bug: the permit goes back to the pool and nobody in line is woken.
ReleaseWakesNobody(r) ==
  /\ phase' = [phase EXCEPT ![r] = "idle"]
  /\ permits' = permits + 1
  /\ UNCHANGED queue

\* The permit of r goes to the next in line, or back to the pool.
Release(r) ==
  \/ /\ queue # <<>>
     /\ phase' = [phase EXCEPT ![r] = "idle", ![NextInLine] = "granted"]
     /\ queue' = RemoveFirst(queue, NextInLine)
     /\ UNCHANGED permits
  \/ /\ queue = <<>>
     /\ phase' = [phase EXCEPT ![r] = "idle"]
     /\ permits' = permits + 1
     /\ UNCHANGED queue

\* The waiter that was woken starts its task.
Spawn(r) ==
  /\ phase[r] = "granted"
  /\ phase' = [phase EXCEPT ![r] = "running"]
  /\ UNCHANGED <<permits, queue, orphans>>

TaskEnds(r) ==
  /\ phase[r] = "running"
  /\ phase' = [phase EXCEPT ![r] = "ended"]
  /\ UNCHANGED <<permits, queue, orphans>>

\* A bug: the permit is forgotten when the hash is answered.
AnswerAndForget(r) ==
  /\ phase[r] = "ended"
  /\ phase' = [phase EXCEPT ![r] = "idle"]
  /\ UNCHANGED <<permits, queue, orphans>>

\* The hash is answered, and _permit goes out of scope.
Answer(r) ==
  /\ phase[r] = "ended"
  /\ Release(r)
  /\ UNCHANGED orphans

\* The future is dropped while it waits.
CancelWaiting(r) ==
  /\ phase[r] = "waiting"
  /\ queue' = RemoveFirst(queue, r)
  /\ phase' = [phase EXCEPT ![r] = "idle"]
  /\ UNCHANGED <<permits, orphans>>

\* The future is dropped while it holds a permit: _permit goes with it, and the
\* task, when one runs, does not.
CancelHolding(r) ==
  /\ r \in Holders
  /\ r \in Running => orphans < MaxOrphans
  /\ Release(r)
  /\ orphans' = IF r \in Running THEN orphans + 1 ELSE orphans

OrphanEnds ==
  /\ orphans > 0
  /\ orphans' = orphans - 1
  /\ UNCHANGED <<permits, queue, phase>>

Next ==
  \/ \E r \in Request :
       \/ Acquire(r) \/ Wait(r) \/ Spawn(r) \/ TaskEnds(r) \/ Answer(r)
       \/ CancelWaiting(r) \/ CancelHolding(r)
  \/ OrphanEnds

Spec == Init /\ [][Next]_vars

--------------------------------------------------------------------------------
(* Properties.                                                             *)

\* Type invariant.
TypeOK ==
  /\ permits \in 0..ConcurrentHashes
  /\ queue \in Seq(Request)
  /\ phase \in [Request -> Phase]
  /\ orphans \in 0..MaxOrphans

\* No permit is lost, however a hash ends: answered, dropped while it waits, dropped
\* between the wake and the start, or dropped while its task runs.
PermitsConserved == permits + Cardinality(Holders) = ConcurrentHashes

\* The queue is who waits, one time each, and nobody waits while a permit is free.
NobodyWaitsForNothing ==
  /\ IsInjective(queue) /\ ToSet(queue) = {r \in Request : phase[r] = "waiting"}
  /\ permits > 0 => queue = <<>>

\* "at most four hashes at once" (README), "Each hash holds MEMORY_KIB while it runs"
\* (CONCURRENT_HASHES): the hashes that run are within the permits.
HashBound == Cardinality(Running) + orphans <= ConcurrentHashes
================================================================================
