----------------------------- MODULE Server_proofs -----------------------------
(***************************************************************************)
(* The stop of the process and the permits of the hasher, for any number   *)
(* of requests, permits and connections and any three times that fit: the  *)
(* pool is closed before systemd kills, and nothing runs on the database   *)
(* from then on; no permit is lost, and nobody waits beside a free one.    *)
(*                                                                         *)
(* Stopped is the invariant of the stop, ServerInv that of the permits.    *)
(* In the latter the queue of the semaphore and the line of the pool are   *)
(* sequences without repetition, from which a request may leave anywhere.  *)
(***************************************************************************)
EXTENDS Server, FiniteSetTheorems, SequenceTheorems, TLAPS

\* What the stop needs to know: how old it can be at each of its stages, and that
\* a pool which has closed has every connection.
Stopped ==
  /\ life \in Life /\ stopping \in Nat
  /\ at \in [Request -> Place]
  /\ life = "up" => stopping = 0
  /\ life = "draining" => stopping <= DrainDeadline
  /\ life = "closing" => stopping <= DrainDeadline \/ stopping <= RequestTimeout
  /\ ClosedIsQuiet

LEMMA StartsUp == ServerInit => Stopped
BY TimeAssumption DEF ServerInit, Stopped, Life, Place, ClosedIsQuiet

LEMMA HoldersAreInside == Holding \subseteq Inside
BY DEF Holding, Inside

\* A step of a request leaves the stop alone, and takes a connection only from a
\* pool that is open.
LEMMA RequestKeeps ==
  ASSUME Stopped, UNCHANGED process, NEW r \in Request, NEW p \in Place,
         at' = [at EXCEPT ![r] = p],
         \/ p \notin {"reading", "locking", "writing"}
         \/ r \in Holding
         \/ PoolOpen
  PROVE  Stopped'
<1>1. at' \in [Request -> Place]
  BY DEF Stopped
<1>2. life' = life /\ stopping' = stopping
  BY DEF process
<1>3. ClosedIsQuiet'
  <2>1. CASE life \in {"closed", "exited"}
    <3>1. Holding = {}
      BY <2>1 DEF Stopped, ClosedIsQuiet
    <3>2. p \notin {"reading", "locking", "writing"}
      BY <2>1, <3>1 DEF PoolOpen
    <3>3. \A q \in Request : at'[q] \notin {"reading", "locking", "writing"}
      BY <3>1, <3>2 DEF Holding, Stopped
    <3> QED
      BY <3>3 DEF ClosedIsQuiet, Holding
  <2>2. CASE life \notin {"closed", "exited"}
    BY <2>2, <1>2 DEF ClosedIsQuiet
  <2> QED
    BY <2>1, <2>2
<1> QED
  BY <1>1, <1>2, <1>3 DEF Stopped

\* A step that moves neither the requests nor the process.
LEMMA OthersKeep == ASSUME Stopped, UNCHANGED <<at, process>> PROVE Stopped'
BY DEF Stopped, process, ClosedIsQuiet, Holding

LEMMA ProceedMoves ==
  ASSUME NEW r \in Request, Proceed(r)
  PROVE  \E p \in {"sending", "ready"} : at' = [at EXCEPT ![r] = p]
BY DEF Proceed

LEMMA RequestSteps ==
  ASSUME Stopped, NEW r \in Request,
         \/ \E kind \in Kind : Arrive(r, kind)
         \/ AsksForConnection(r) \/ Connects(r) \/ NoConnection(r)
         \/ Reads(r) \/ BeginsWrite(r) \/ LockedOut(r) \/ Writes(r)
         \/ AsksForPermit(r) \/ Hashes(r) \/ Hashed(r)
         \/ Sent(r) \/ Dropped(r)
  PROVE  Stopped'
<1>1. CASE \E kind \in Kind : Arrive(r, kind)
  <2>1. at' = [at EXCEPT ![r] = "ready"] /\ UNCHANGED process
    BY <1>1 DEF Arrive
  <2> QED
    BY <2>1, RequestKeeps DEF Place
<1>2. CASE AsksForConnection(r)
  <2>1. at' = [at EXCEPT ![r] = "waits"] /\ UNCHANGED process
    BY <1>2 DEF AsksForConnection
  <2> QED
    BY <2>1, RequestKeeps DEF Place
<1>3. CASE Connects(r)
  <2>1. PICK p \in {"reading", "locking"} : at' = [at EXCEPT ![r] = p]
    BY <1>3 DEF Connects
  <2>2. PoolOpen /\ UNCHANGED process
    BY <1>3 DEF Connects
  <2> QED
    BY <2>1, <2>2, RequestKeeps DEF Place
<1>4. CASE NoConnection(r)
  <2>1. at' = [at EXCEPT ![r] = "sending"] /\ UNCHANGED process
    BY <1>4 DEF NoConnection
  <2> QED
    BY <2>1, RequestKeeps DEF Place
<1>5. CASE Reads(r) \/ Writes(r) \/ Hashed(r)
  <2>1. Proceed(r) /\ UNCHANGED process
    BY <1>5 DEF Reads, Writes, Hashed
  <2>2. PICK p \in {"sending", "ready"} : at' = [at EXCEPT ![r] = p]
    BY <2>1, ProceedMoves
  <2> QED
    BY <2>1, <2>2, RequestKeeps DEF Place
<1>6. CASE BeginsWrite(r)
  <2>1. at' = [at EXCEPT ![r] = "writing"] /\ UNCHANGED process
    BY <1>6 DEF BeginsWrite
  <2>2. r \in Holding
    BY <1>6 DEF BeginsWrite, Holding
  <2> QED
    BY <2>1, <2>2, RequestKeeps DEF Place
<1>7. CASE LockedOut(r)
  <2>1. at' = [at EXCEPT ![r] = "sending"] /\ UNCHANGED process
    BY <1>7 DEF LockedOut
  <2> QED
    BY <2>1, RequestKeeps DEF Place
<1>8. CASE AsksForPermit(r)
  <2>1. at' = [at EXCEPT ![r] = "hashing"] /\ UNCHANGED process
    BY <1>8 DEF AsksForPermit
  <2> QED
    BY <2>1, RequestKeeps DEF Place
<1>9. CASE Hashes(r)
  <2>1. UNCHANGED <<at, process>>
    BY <1>9 DEF Hashes, requests
  <2> QED
    BY <2>1, OthersKeep
<1>10. CASE Sent(r)
  <2>1. at' = [at EXCEPT ![r] = "absent"] /\ UNCHANGED process
    BY <1>10 DEF Sent
  <2> QED
    BY <2>1, RequestKeeps DEF Place
<1>11. CASE Dropped(r)
  <2>1. PICK p \in {"sending", "absent"} : at' = [at EXCEPT ![r] = p]
    BY <1>11 DEF Dropped
  <2>2. UNCHANGED process
    BY <1>11 DEF Dropped
  <2> QED
    BY <2>1, <2>2, RequestKeeps DEF Place
<1> QED
  BY <1>1, <1>2, <1>3, <1>4, <1>5, <1>6, <1>7, <1>8, <1>9, <1>10, <1>11

\* The clock: with a connection out, the request that holds it is served, so the
\* stop is younger than its timer.
LEMMA TickKeeps == ASSUME Stopped, Tick PROVE Stopped'
<1>1. UNCHANGED <<life, at>> /\ stopping' = stopping + 1 /\ ~Due
  BY DEF Tick, requests
<1>2. life \in {"draining", "closing"}
  BY DEF Tick
<1>3. ClosedIsQuiet'
  BY <1>1, <1>2 DEF ClosedIsQuiet
<1>4. CASE life = "draining"
  BY <1>1, <1>3, <1>4, TimeAssumption DEF Stopped, Due, Life
<1>5. CASE life = "closing"
  <2>1. Inside # {}
    BY <1>1, <1>5, HoldersAreInside DEF Due
  <2>2. stopping < RequestTimeout
    BY <1>1, <2>1, TimeAssumption DEF Due, Stopped
  <2> QED
    BY <1>1, <1>3, <1>5, <2>2, TimeAssumption DEF Stopped, Life
<1> QED
  BY <1>2, <1>4, <1>5

LEMMA StopSteps ==
  ASSUME Stopped, HashEnds \/ Terminate \/ Drained \/ Closes \/ Exit \/ Start
  PROVE  Stopped'
<1>1. CASE HashEnds
  BY <1>1, OthersKeep DEF HashEnds, requests
<1>2. CASE Terminate
  BY <1>2, TimeAssumption DEF Terminate, Stopped, Life, requests, ClosedIsQuiet, Holding
<1>3. CASE Drained
  BY <1>3 DEF Drained, Stopped, Life, requests, ClosedIsQuiet, Holding
<1>4. CASE Closes
  BY <1>4 DEF Closes, Stopped, Life, requests, ClosedIsQuiet, Holding
<1>5. CASE Exit
  BY <1>5 DEF Exit, Stopped, Life, Place, ClosedIsQuiet, Holding
<1>6. CASE Start
  BY <1>6 DEF Start, Stopped, Life, requests, ClosedIsQuiet, Holding
<1> QED
  BY <1>1, <1>2, <1>3, <1>4, <1>5, <1>6

LEMMA StoppedIsInductive == Stopped /\ [ServerNext]_all => Stopped'
<1> SUFFICES ASSUME Stopped, [ServerNext]_all PROVE Stopped'
  OBVIOUS
<1>1. CASE Tick
  BY <1>1, TickKeeps
<1>2. CASE HashEnds \/ Terminate \/ Drained \/ Closes \/ Exit \/ Start
  BY <1>2, StopSteps
<1>3. CASE UNCHANGED all
  BY <1>3, OthersKeep DEF all, requests
<1>4. ASSUME NEW r \in Request,
             \/ \E kind \in Kind : Arrive(r, kind)
             \/ AsksForConnection(r) \/ Connects(r) \/ NoConnection(r)
             \/ Reads(r) \/ BeginsWrite(r) \/ LockedOut(r) \/ Writes(r)
             \/ AsksForPermit(r) \/ Hashes(r) \/ Hashed(r)
             \/ Sent(r) \/ Dropped(r)
      PROVE Stopped'
  BY <1>4, RequestSteps
<1> QED
  BY <1>1, <1>2, <1>3, <1>4 DEF ServerNext

LEMMA AlwaysStopped == ServerSpec => []Stopped
<1> QED
  BY StartsUp, StoppedIsInductive, PTL DEF ServerSpec

\* When the close of the pool has returned, no connection is out, so nothing writes
\* to the file that a deploy copies or that the kill would leave in the WAL.
THEOREM NothingWritesAfterTheClose == ServerSpec => []ClosedIsQuiet
<1>1. Stopped => ClosedIsQuiet
  BY DEF Stopped
<1> QED
  BY <1>1, AlwaysStopped, PTL

\* The pool is closed before systemd loses its patience, for any drain deadline and
\* any request timeout that are each below it: they run side by side, not in turn.
THEOREM PoolClosesBeforeTheKill == ServerSpec => []ClosedBeforeTheKill
<1>1. Stopped => ClosedBeforeTheKill
  BY TimeAssumption DEF Stopped, ClosedBeforeTheKill
<1> QED
  BY <1>1, AlwaysStopped, PTL

--------------------------------------------------------------------------------
(* Queues: of the semaphore and of the pool.                               *)

\* A queue of which one place is taken out.
LEMMA LeavesAtItsPlace ==
  ASSUME NEW S, NEW s \in Seq(S), IsInjective(s), NEW k \in 1..Len(s)
  PROVE  RemoveFirst(s, s[k]) = RemoveAt(s, k)
<1>  DEFINE I == {i \in 1..Len(s) : s[i] = s[k]}
<1>1. I = {k}
  BY DEF IsInjective
<1>2. SelectInSeq(s, LAMBDA v : v = s[k]) = k
  BY <1>1 DEF SelectInSeq, Min
<1>3. QED
  BY <1>2 DEF RemoveFirst

LEMMA PlaceTakenOut ==
  ASSUME NEW S, NEW s \in Seq(S), NEW k \in 1..Len(s)
  PROVE  /\ RemoveAt(s, k) \in Seq(S)
         /\ Len(RemoveAt(s, k)) = Len(s) - 1
         /\ \A j \in 1 .. Len(s) - 1 : RemoveAt(s, k)[j] = IF j < k THEN s[j] ELSE s[j + 1]
<1>  DEFINE a == SubSeq(s, 1, k - 1)
            b == SubSeq(s, k + 1, Len(s))
<1>1. /\ a \in Seq(S) /\ Len(a) = k - 1
      /\ \A j \in 1 .. k - 1 : a[j] = s[j]
  BY SubSeqProperties
<1>2. /\ b \in Seq(S) /\ Len(b) = Len(s) - k
      /\ \A j \in 1 .. Len(s) - k : b[j] = s[k + j]
  <2>1. \A j \in 1 .. Len(s) - k : k + 1 + j - 1 = k + j
    OBVIOUS
  <2>2. QED
    BY <2>1, SubSeqProperties
<1>  HIDE DEF a, b
<1>3. /\ a \o b \in Seq(S) /\ Len(a \o b) = Len(a) + Len(b)
      /\ \A j \in 1 .. Len(a) + Len(b) : (a \o b)[j] = IF j <= Len(a) THEN a[j] ELSE b[j - Len(a)]
  BY <1>1, <1>2, ConcatProperties
<1>4. RemoveAt(s, k) = a \o b
  BY DEF RemoveAt, a, b
<1>5. ASSUME NEW j \in 1 .. Len(s) - 1
      PROVE  RemoveAt(s, k)[j] = IF j < k THEN s[j] ELSE s[j + 1]
  <2>1. (a \o b)[j] = IF j <= k - 1 THEN a[j] ELSE b[j - (k - 1)]
    BY <1>1, <1>2, <1>3
  <2>2. CASE j < k
    BY <2>1, <2>2, <1>1, <1>4
  <2>3. CASE ~(j < k)
    <3>  DEFINE m == j - (k - 1)
    <3>1. m \in 1 .. Len(s) - k /\ k + m = j + 1 /\ ~(j <= k - 1)
      BY <2>3
    <3>2. (a \o b)[j] = b[m]
      BY <2>1, <3>1
    <3>  HIDE DEF m
    <3>3. b[m] = s[j + 1]
      BY <3>1, <1>2
    <3>4. QED
      BY <2>3, <3>2, <3>3, <1>4
  <2>4. QED
    BY <2>2, <2>3
<1>6. RemoveAt(s, k) \in Seq(S) /\ Len(RemoveAt(s, k)) = Len(s) - 1
  <2>1. Len(a) + Len(b) = Len(s) - 1
    <3>1. Len(s) \in Nat
      OBVIOUS
    <3>2. QED
      BY <3>1, <1>1, <1>2
  <2>2. Len(a \o b) = Len(s) - 1
    BY <2>1, <1>3, Zenon
  <2>3. QED
    BY <2>2, <1>3, <1>4, Zenon
<1>7. QED
  BY <1>5, <1>6, Zenon

\* Who leaves a queue leaves it once, and the others stay.
LEMMA LeavesTheQueue ==
  ASSUME NEW S, NEW s \in Seq(S), IsInjective(s), NEW e
  PROVE  /\ RemoveFirst(s, e) \in Seq(S) /\ IsInjective(RemoveFirst(s, e))
         /\ ToSet(RemoveFirst(s, e)) = ToSet(s) \ {e}
<1>1. CASE \E k \in 1..Len(s) : s[k] = e
  <2>1. PICK k \in 1..Len(s) : s[k] = e
    BY <1>1
  <2>  DEFINE t == RemoveAt(s, k)
  <2>2. RemoveFirst(s, e) = t
    BY <2>1, LeavesAtItsPlace
  <2>3. /\ t \in Seq(S) /\ Len(t) = Len(s) - 1
        /\ \A j \in 1 .. Len(s) - 1 : t[j] = IF j < k THEN s[j] ELSE s[j + 1]
    BY PlaceTakenOut
  <2>  HIDE DEF t
  <2>4. DOMAIN t = 1 .. Len(s) - 1 /\ DOMAIN s = 1..Len(s)
    BY <2>3
  <2>5. IsInjective(t)
    <3>1. SUFFICES ASSUME NEW i \in 1 .. Len(s) - 1, NEW j \in 1 .. Len(s) - 1, t[i] = t[j]
                   PROVE  i = j
      BY <2>4 DEF IsInjective
    <3>2. \A p, q \in 1..Len(s) : s[p] = s[q] => p = q
      BY <2>4 DEF IsInjective
    <3>3. QED
      BY <2>3, <3>1, <3>2
  <2>6. ASSUME NEW x \in ToSet(t)
        PROVE  x \in ToSet(s) \ {e}
    <3>1. PICK j \in 1 .. Len(s) - 1 : x = t[j]
      BY <2>4 DEF ToSet
    <3>2. PICK i \in 1..Len(s) : i # k /\ x = s[i]
      BY <3>1, <2>3
    <3>3. QED
      BY <3>2, <2>1, <2>4 DEF ToSet, IsInjective
  <2>7. ASSUME NEW x \in ToSet(s) \ {e}
        PROVE  x \in ToSet(t)
    <3>1. PICK i \in 1..Len(s) : x = s[i]
      BY <2>4 DEF ToSet
    <3>2. i # k
      BY <3>1, <2>1
    <3>3. \E j \in 1 .. Len(s) - 1 : t[j] = s[i]
      <4>1. CASE i < k
        BY <4>1, <2>3
      <4>2. CASE i > k
        <5>1. i - 1 \in 1 .. Len(s) - 1 /\ ~(i - 1 < k) /\ (i - 1) + 1 = i
          BY <4>2
        <5>2. QED
          BY <5>1, <2>3
      <4>3. QED
        BY <3>2, <4>1, <4>2
    <3>4. QED
      BY <3>1, <3>3, <2>4 DEF ToSet
  <2>8. QED
    BY <2>2, <2>3, <2>5, <2>6, <2>7
<1>2. CASE ~\E k \in 1..Len(s) : s[k] = e
  <2>1. RemoveFirst(s, e) = s
    BY <1>2 DEF RemoveFirst
  <2>2. e \notin ToSet(s)
    BY <1>2 DEF ToSet
  <2>3. QED
    BY <2>1, <2>2
<1>3. QED
  BY <1>1, <1>2

\* Who joins a queue joins it at the end.
LEMMA JoinsTheQueue ==
  ASSUME NEW S, NEW s \in Seq(S), IsInjective(s), NEW e \in S, e \notin ToSet(s)
  PROVE  /\ Append(s, e) \in Seq(S) /\ IsInjective(Append(s, e))
         /\ ToSet(Append(s, e)) = ToSet(s) \cup {e}
<1>  DEFINE t == Append(s, e)
<1>1. /\ t \in Seq(S) /\ DOMAIN t = 1 .. Len(s) + 1 /\ DOMAIN s = 1..Len(s)
      /\ \A i \in 1..Len(s) : t[i] = s[i]
      /\ t[Len(s) + 1] = e
  BY AppendProperties
<1>2. \A i \in 1..Len(s) : s[i] # e
  BY <1>1 DEF ToSet
<1>  HIDE DEF t
<1>3. IsInjective(t)
  BY <1>1, <1>2 DEF IsInjective
<1>4. ToSet(t) = ToSet(s) \cup {e}
  <2>1. ASSUME NEW x \in ToSet(t)
        PROVE  x \in ToSet(s) \cup {e}
    BY <1>1 DEF ToSet
  <2>2. ASSUME NEW x \in ToSet(s) \cup {e}
        PROVE  x \in ToSet(t)
    <3>1. CASE x = e
      BY <3>1, <1>1 DEF ToSet
    <3>2. CASE x \in ToSet(s)
      BY <3>2, <1>1 DEF ToSet
    <3>3. QED
      BY <3>1, <3>2
  <2>3. QED
    BY <2>1, <2>2
<1>5. QED
  BY <1>1, <1>3, <1>4 DEF t

\* The first of a queue is served.
LEMMA FirstLeaves ==
  ASSUME NEW S, NEW s \in Seq(S), IsInjective(s), s # <<>>
  PROVE  /\ Head(s) = s[1] /\ s[1] \in S /\ s[1] \in ToSet(s)
         /\ Tail(s) \in Seq(S) /\ IsInjective(Tail(s))
         /\ ToSet(Tail(s)) = ToSet(s) \ {s[1]}
<1>  DEFINE t == Tail(s)
<1>1. /\ Head(s) = s[1] /\ s[1] \in S /\ Len(s) >= 1
      /\ t \in Seq(S) /\ Len(t) = Len(s) - 1 /\ \A i \in 1..Len(t) : t[i] = s[i + 1]
  BY HeadTailProperties, ElementOfSeq, EmptySeq
<1>2. DOMAIN t = 1 .. Len(s) - 1 /\ DOMAIN s = 1..Len(s)
  BY <1>1
<1>3. s[1] \in ToSet(s)
  BY <1>1, <1>2 DEF ToSet
<1>  HIDE DEF t
<1>4. IsInjective(t)
  <2>1. SUFFICES ASSUME NEW i \in 1 .. Len(s) - 1, NEW j \in 1 .. Len(s) - 1, t[i] = t[j]
                 PROVE  i = j
    BY <1>2 DEF IsInjective
  <2>2. s[i + 1] = s[j + 1] /\ i + 1 \in 1..Len(s) /\ j + 1 \in 1..Len(s)
    BY <1>1, <2>1
  <2>3. i + 1 = j + 1
    BY <2>2, <1>2 DEF IsInjective
  <2>4. QED
    BY <2>3
<1>5. ASSUME NEW x \in ToSet(t)
      PROVE  x \in ToSet(s) \ {s[1]}
  <2>1. PICK i \in 1 .. Len(s) - 1 : x = t[i]
    BY <1>2 DEF ToSet
  <2>2. x = s[i + 1] /\ i + 1 \in 1..Len(s) /\ i + 1 # 1 /\ 1 \in 1..Len(s)
    BY <1>1, <2>1
  <2>3. QED
    BY <2>2, <1>2 DEF ToSet, IsInjective
<1>6. ASSUME NEW x \in ToSet(s) \ {s[1]}
      PROVE  x \in ToSet(t)
  <2>1. PICK i \in 1..Len(s) : x = s[i]
    BY <1>2 DEF ToSet
  <2>2. i - 1 \in 1 .. Len(s) - 1 /\ (i - 1) + 1 = i
    BY <2>1
  <2>3. t[i - 1] = x
    BY <1>1, <2>1, <2>2
  <2>4. QED
    BY <2>2, <2>3, <1>2 DEF ToSet
<1>7. ToSet(t) = ToSet(s) \ {s[1]}
  BY <1>5, <1>6
<1>8. QED
  BY <1>1, <1>3, <1>4, <1>7 DEF t

--------------------------------------------------------------------------------
(* The permits.                                                            *)

HasherInv == TypeOK /\ PermitsConserved /\ NobodyWaitsForNothing

Waiting == {r \in Request : phase[r] = "waiting"}

LEMMA HoldersAreFinite == IsFiniteSet(Holders) /\ Cardinality(Holders) \in Nat
BY RequestAssumption, FS_Subset, FS_CardinalityType DEF Holders

LEMMA HasherStarts == Init => HasherInv
<1>  SUFFICES ASSUME Init PROVE HasherInv
  OBVIOUS
<1>1. TypeOK
  BY PermitAssumption, BoundAssumption DEF Init, TypeOK, Phase
<1>2. Holders = {}
  BY DEF Init, Holders
<1>3. PermitsConserved
  BY <1>2, FS_EmptySet, PermitAssumption DEF Init, PermitsConserved
<1>4. NobodyWaitsForNothing
  BY DEF Init, NobodyWaitsForNothing, IsInjective, ToSet
<1>5. QED
  BY <1>1, <1>3, <1>4 DEF HasherInv

\* A future moves from one place to another.
LEMMA FutureMoves ==
  ASSUME phase \in [Request -> Phase], NEW r \in Request, NEW p \in Phase,
         phase' = [phase EXCEPT ![r] = p]
  PROVE  /\ phase' \in [Request -> Phase]
         /\ p \in {"granted", "running", "ended"} => Holders' = Holders \cup {r}
         /\ p \notin {"granted", "running", "ended"} => Holders' = Holders \ {r}
         /\ p = "waiting" => Waiting' = Waiting \cup {r}
         /\ p # "waiting" => Waiting' = Waiting \ {r}
BY DEF Holders, Waiting

\* A permit that is taken leaves the pool.
LEMMA AcquireKeeps == ASSUME HasherInv, NEW r \in Request, Acquire(r) PROVE HasherInv'
<1>1. /\ phase[r] = "idle" /\ permits > 0 /\ permits' = permits - 1
      /\ phase' = [phase EXCEPT ![r] = "running"] /\ UNCHANGED <<queue, orphans>>
  BY DEF Acquire
<1>2. /\ phase' \in [Request -> Phase]
      /\ Holders' = Holders \cup {r} /\ Waiting' = Waiting \ {r}
  BY <1>1, FutureMoves DEF HasherInv, TypeOK, Phase
<1>3. r \notin Holders /\ r \notin Waiting
  BY <1>1 DEF Holders, Waiting
<1>4. Cardinality(Holders') = Cardinality(Holders) + 1
  BY <1>2, <1>3, HoldersAreFinite, FS_AddElement
<1>5. TypeOK'
  BY <1>1, <1>2, PermitAssumption DEF HasherInv, TypeOK
<1>6. PermitsConserved'
  BY <1>1, <1>4, HoldersAreFinite, PermitAssumption DEF HasherInv, TypeOK, PermitsConserved
<1>7. NobodyWaitsForNothing'
  BY <1>1, <1>2, <1>3 DEF HasherInv, NobodyWaitsForNothing, Waiting
<1>8. QED
  BY <1>5, <1>6, <1>7 DEF HasherInv

\* Who finds no permit joins the queue.
LEMMA WaitKeeps == ASSUME HasherInv, NEW r \in Request, Wait(r) PROVE HasherInv'
<1>1. /\ phase[r] = "idle" /\ permits = 0 /\ queue' = Append(queue, r)
      /\ phase' = [phase EXCEPT ![r] = "waiting"] /\ UNCHANGED <<permits, orphans>>
  BY DEF Wait
<1>2. /\ phase' \in [Request -> Phase]
      /\ Holders' = Holders \ {r} /\ Waiting' = Waiting \cup {r}
  BY <1>1, FutureMoves DEF HasherInv, TypeOK, Phase
<1>3. r \notin Holders /\ r \notin Waiting
  BY <1>1 DEF Holders, Waiting
<1>4. queue \in Seq(Request) /\ IsInjective(queue) /\ ToSet(queue) = Waiting
  BY DEF HasherInv, TypeOK, NobodyWaitsForNothing, Waiting
<1>5. /\ queue' \in Seq(Request) /\ IsInjective(queue')
      /\ ToSet(queue') = Waiting \cup {r}
  BY <1>1, <1>3, <1>4, JoinsTheQueue
<1>6. TypeOK'
  BY <1>1, <1>2, <1>5 DEF HasherInv, TypeOK
<1>7. PermitsConserved'
  <2>1. Holders' = Holders
    BY <1>2, <1>3
  <2>2. QED
    BY <1>1, <2>1 DEF HasherInv, PermitsConserved
<1>8. NobodyWaitsForNothing'
  BY <1>1, <1>2, <1>5 DEF NobodyWaitsForNothing, Waiting
<1>9. QED
  BY <1>6, <1>7, <1>8 DEF HasherInv

\* A permit that comes back is given on at once, or there is nobody to give it to.
LEMMA ReleaseKeeps ==
  ASSUME HasherInv, NEW r \in Holders, Release(r), orphans' \in 0..MaxOrphans
  PROVE  HasherInv'
<1>0. r \in Request /\ r \notin Waiting /\ phase[r] \in {"granted", "running", "ended"}
  BY DEF Holders, Waiting
<1>1. /\ phase \in [Request -> Phase] /\ permits \in 0..ConcurrentHashes
      /\ queue \in Seq(Request) /\ IsInjective(queue) /\ ToSet(queue) = Waiting
  BY DEF HasherInv, TypeOK, NobodyWaitsForNothing, Waiting
<1>2. permits + Cardinality(Holders) = ConcurrentHashes
  BY DEF HasherInv, PermitsConserved
<1>3. Cardinality(Holders \ {r}) = Cardinality(Holders) - 1
  BY HoldersAreFinite, FS_RemoveElement
<1>4. CASE /\ queue # <<>>
           /\ phase' = [phase EXCEPT ![r] = "idle", ![NextInLine] = "granted"]
           /\ queue' = RemoveFirst(queue, NextInLine)
           /\ UNCHANGED permits
  <2>  DEFINE q == NextInLine
  <2>1. q \in Request /\ q \in Waiting /\ phase[q] = "waiting"
    <3>1. q = queue[1] /\ queue[1] \in ToSet(queue)
      BY <1>1, <1>4, FirstLeaves DEF NextInLine
    <3>2. QED
      BY <1>1, <3>1 DEF Waiting
  <2>2. /\ queue' \in Seq(Request) /\ IsInjective(queue')
        /\ ToSet(queue') = Waiting \ {q}
    BY <1>1, <1>4, LeavesTheQueue
  <2>3. q # r
    BY <1>0, <2>1
  <2>  HIDE DEF q
  <2>4. /\ phase' \in [Request -> Phase] /\ phase'[r] = "idle" /\ phase'[q] = "granted"
        /\ \A s \in Request \ {r, q} : phase'[s] = phase[s]
    <3>1. phase' = [phase EXCEPT ![r] = "idle", ![q] = "granted"]
      BY <1>4 DEF q
    <3>2. QED
      BY <1>0, <1>1, <2>1, <2>3, <3>1 DEF Phase
  <2>5. Holders' = (Holders \ {r}) \cup {q}
    BY <1>0, <2>1, <2>3, <2>4 DEF Holders
  <2>6. Waiting' = Waiting \ {q}
    BY <1>0, <2>1, <2>3, <2>4 DEF Waiting
  <2>7. q \notin Holders \ {r} /\ IsFiniteSet(Holders \ {r})
    BY <2>1, HoldersAreFinite, FS_RemoveElement DEF Holders
  <2>8. Cardinality(Holders') = Cardinality(Holders)
    <3>1. Cardinality(Holders') = Cardinality(Holders \ {r}) + 1
      BY <2>5, <2>7, FS_AddElement
    <3>2. QED
      BY <3>1, <1>3, HoldersAreFinite
  <2>9. TypeOK'
    BY <1>1, <1>4, <2>2, <2>4 DEF TypeOK
  <2>10. PermitsConserved'
    BY <1>2, <1>4, <2>8 DEF PermitsConserved
  <2>11. permits = 0
    BY <1>1, <1>4 DEF HasherInv, NobodyWaitsForNothing
  <2>12. NobodyWaitsForNothing'
    <3>1. IsInjective(queue') /\ ToSet(queue') = Waiting'
      BY <2>2, <2>6
    <3>2. ~(permits' > 0)
      BY <1>4, <2>11
    <3>3. QED
      BY <3>1, <3>2 DEF NobodyWaitsForNothing, Waiting
  <2>13. QED
    BY <2>9, <2>10, <2>12 DEF HasherInv
<1>5. CASE /\ queue = <<>>
           /\ phase' = [phase EXCEPT ![r] = "idle"]
           /\ permits' = permits + 1
           /\ UNCHANGED queue
  <2>1. /\ phase' \in [Request -> Phase]
        /\ Holders' = Holders \ {r} /\ Waiting' = Waiting \ {r}
    BY <1>0, <1>1, <1>5, FutureMoves DEF Phase
  <2>2. PermitsConserved' /\ permits' \in 0..ConcurrentHashes
    <3>1. permits' + Cardinality(Holders') = ConcurrentHashes
      BY <1>1, <1>2, <1>3, <1>5, <2>1, HoldersAreFinite
    <3>2. Cardinality(Holders') \in Nat
      BY <2>1, HoldersAreFinite, FS_RemoveElement, FS_CardinalityType
    <3>3. QED
      BY <1>1, <1>5, <3>1, <3>2, PermitAssumption DEF PermitsConserved
  <2>3. TypeOK'
    BY <1>1, <1>5, <2>1, <2>2 DEF TypeOK
  <2>4. Waiting' = Waiting
    BY <1>0, <2>1
  <2>5. NobodyWaitsForNothing'
    BY <1>1, <1>5, <2>4 DEF NobodyWaitsForNothing, Waiting
  <2>6. QED
    BY <2>2, <2>3, <2>5 DEF HasherInv
<1>6. QED
  BY <1>4, <1>5 DEF Release

\* A task starts or ends, and the permit stays where it is.
LEMMA TaskKeeps ==
  ASSUME HasherInv, NEW r \in Request, Spawn(r) \/ TaskEnds(r)
  PROVE  HasherInv'
<1>1. PICK p \in {"running", "ended"} : phase' = [phase EXCEPT ![r] = p]
  BY DEF Spawn, TaskEnds
<1>2. r \in Holders /\ r \notin Waiting /\ UNCHANGED <<permits, queue, orphans>>
  BY DEF Spawn, TaskEnds, Holders, Waiting
<1>3. phase' \in [Request -> Phase] /\ Holders' = Holders /\ Waiting' = Waiting
  <2>1. phase \in [Request -> Phase] /\ p \in Phase
    BY DEF HasherInv, TypeOK, Phase
  <2>2. /\ phase' \in [Request -> Phase]
        /\ Holders' = Holders \cup {r} /\ Waiting' = Waiting \ {r}
    BY <1>1, <2>1, FutureMoves
  <2>3. QED
    BY <1>2, <2>2
<1>4. QED
  BY <1>2, <1>3 DEF HasherInv, TypeOK, PermitsConserved, NobodyWaitsForNothing, Waiting

LEMMA AnswerKeeps == ASSUME HasherInv, NEW r \in Request, Answer(r) PROVE HasherInv'
BY ReleaseKeeps DEF Answer, Holders, HasherInv, TypeOK

LEMMA CancelHoldingKeeps ==
  ASSUME HasherInv, NEW r \in Request, CancelHolding(r)
  PROVE  HasherInv'
<1>1. orphans' \in 0..MaxOrphans
  BY BoundAssumption DEF CancelHolding, HasherInv, TypeOK
<1>2. QED
  BY <1>1, ReleaseKeeps DEF CancelHolding

\* Who gives up waiting leaves no name behind.
LEMMA CancelWaitingKeeps ==
  ASSUME HasherInv, NEW r \in Request, CancelWaiting(r)
  PROVE  HasherInv'
<1>1. /\ phase[r] = "waiting" /\ queue' = RemoveFirst(queue, r)
      /\ phase' = [phase EXCEPT ![r] = "idle"] /\ UNCHANGED <<permits, orphans>>
  BY DEF CancelWaiting
<1>2. /\ phase' \in [Request -> Phase]
      /\ Holders' = Holders \ {r} /\ Waiting' = Waiting \ {r}
  BY <1>1, FutureMoves DEF HasherInv, TypeOK, Phase
<1>3. r \notin Holders /\ r \in Waiting
  BY <1>1 DEF Holders, Waiting
<1>4. queue \in Seq(Request) /\ IsInjective(queue) /\ ToSet(queue) = Waiting
  BY DEF HasherInv, TypeOK, NobodyWaitsForNothing, Waiting
<1>5. queue' \in Seq(Request) /\ IsInjective(queue') /\ ToSet(queue') = Waiting \ {r}
  BY <1>1, <1>4, LeavesTheQueue
<1>6. queue # <<>>
  BY <1>3, <1>4 DEF ToSet
<1>7. Holders' = Holders
  BY <1>2, <1>3
<1>8. TypeOK' /\ PermitsConserved'
  BY <1>1, <1>2, <1>5, <1>7 DEF HasherInv, TypeOK, PermitsConserved
<1>9. NobodyWaitsForNothing'
  <2>1. ~(permits > 0)
    BY <1>6 DEF HasherInv, NobodyWaitsForNothing
  <2>2. QED
    BY <1>1, <1>2, <1>5, <2>1 DEF NobodyWaitsForNothing, Waiting
<1>10. QED
  BY <1>8, <1>9 DEF HasherInv

LEMMA OrphanKeeps == ASSUME HasherInv, OrphanEnds PROVE HasherInv'
<1>1. UNCHANGED <<permits, queue, phase>> /\ orphans' \in 0..MaxOrphans
  BY BoundAssumption DEF OrphanEnds, HasherInv, TypeOK
<1>2. QED
  BY <1>1 DEF HasherInv, TypeOK, PermitsConserved, NobodyWaitsForNothing, Holders

LEMMA NoHashKeeps == ASSUME HasherInv, UNCHANGED hashes PROVE HasherInv'
BY DEF hashes, HasherInv, TypeOK, PermitsConserved, NobodyWaitsForNothing, Holders

--------------------------------------------------------------------------------
(* The requests.                                                           *)

Await  == {"read", "write", "hash"}
InLine == {r \in Request : at[r] = "waits"}

\* What a handler has left to await, and where a request stands, say the same.
RequestInv ==
  /\ at \in [Request -> Place]
  /\ todo \in [Request -> Seq(Await)]
  /\ \A r \in Request : todo[r] = <<>> <=> at[r] \in {"absent", "sending"}
  /\ \A r \in Request : phase[r] = "idle" <=> at[r] # "hashing"
  /\ line \in Seq(Request) /\ IsInjective(line) /\ ToSet(line) = InLine

ProcessInv == life \in Life /\ stopping \in 0..KillAfter

ServerInv == HasherInv /\ RequestInv /\ ProcessInv

LEMMA HandlersAwait ==
  ASSUME NEW kind \in Kind
  PROVE  Handler[kind] \in Seq(Await) /\ Handler[kind] # <<>>
<1>1. kind \in {"ready", "edit", "signup", "login", "change"}
  BY KindAssumption DEF Handler
<1>2. /\ Handler["ready"] = <<"read">> /\ Handler["edit"] = <<"read", "write">>
      /\ Handler["signup"] = <<"hash", "write">> /\ Handler["login"] = <<"read", "hash">>
      /\ Handler["change"] = <<"read", "hash", "hash", "write">>
  BY DEF Handler
<1>3. /\ <<"read">> \in Seq(Await) /\ <<"read">> # <<>>
      /\ <<"read", "write">> \in Seq(Await) /\ <<"read", "write">> # <<>>
  BY DEF Await
<1>4. /\ <<"hash", "write">> \in Seq(Await) /\ <<"hash", "write">> # <<>>
      /\ <<"read", "hash">> \in Seq(Await) /\ <<"read", "hash">> # <<>>
  BY DEF Await
<1>5. /\ <<"read", "hash", "hash", "write">> \in Seq(Await)
      /\ <<"read", "hash", "hash", "write">> # <<>>
  BY DEF Await
<1>6. QED
  BY <1>1, <1>2, <1>3, <1>4, <1>5

LEMMA ServerStarts == ServerInit => ServerInv
<1>  SUFFICES ASSUME ServerInit PROVE ServerInv
  OBVIOUS
<1>1. HasherInv
  BY HasherStarts DEF ServerInit
<1>2. RequestInv
  <2>1. \A r \in Request : at[r] = "absent" /\ todo[r] = <<>> /\ phase[r] = "idle"
    BY DEF ServerInit, Init
  <2>2. at \in [Request -> Place] /\ todo \in [Request -> Seq(Await)]
    BY DEF ServerInit, Place
  <2>3. line \in Seq(Request) /\ IsInjective(line) /\ ToSet(line) = {} /\ InLine = {}
    BY <2>1 DEF ServerInit, IsInjective, ToSet, InLine
  <2>4. QED
    BY <2>1, <2>2, <2>3 DEF RequestInv
<1>3. ProcessInv
  BY TimeAssumption DEF ServerInit, ProcessInv, Life
<1>4. QED
  BY <1>1, <1>2, <1>3 DEF ServerInv

\* One request moves to p and has t left to await.
LEMMA RequestMoves ==
  ASSUME RequestInv, NEW r \in Request, NEW p \in Place, NEW t \in Seq(Await),
         at' = [at EXCEPT ![r] = p], todo' = [todo EXCEPT ![r] = t],
         t = <<>> <=> p \in {"absent", "sending"},
         \A s \in Request : phase'[s] = "idle" <=> IF s = r THEN p # "hashing" ELSE phase[s] = "idle",
         line' \in Seq(Request), IsInjective(line'),
         ToSet(line') = IF p = "waits" THEN InLine \cup {r} ELSE InLine \ {r}
  PROVE  RequestInv'
<1>1. at \in [Request -> Place] /\ todo \in [Request -> Seq(Await)]
  BY DEF RequestInv
<1>2. at' \in [Request -> Place] /\ todo' \in [Request -> Seq(Await)]
  BY <1>1
<1>3. /\ at'[r] = p /\ todo'[r] = t
      /\ \A s \in Request \ {r} : at'[s] = at[s] /\ todo'[s] = todo[s]
  BY <1>1
<1>4. ASSUME NEW s \in Request
      PROVE  /\ todo'[s] = <<>> <=> at'[s] \in {"absent", "sending"}
             /\ phase'[s] = "idle" <=> at'[s] # "hashing"
  <2>1. CASE s = r
    BY <2>1, <1>3
  <2>2. CASE s # r
    BY <2>2, <1>3 DEF RequestInv
  <2>3. QED
    BY <2>1, <2>2
<1>5. InLine' = IF p = "waits" THEN InLine \cup {r} ELSE InLine \ {r}
  BY <1>3 DEF InLine
<1>6. QED
  BY <1>2, <1>4, <1>5 DEF RequestInv

\* The same, of a request that does not go in line.
LEMMA RequestMovesOn ==
  ASSUME RequestInv, NEW r \in Request, NEW p \in Place, p # "waits", NEW t \in Seq(Await),
         at' = [at EXCEPT ![r] = p], todo' = [todo EXCEPT ![r] = t],
         IF p \in {"absent", "sending"} THEN t = <<>> ELSE t # <<>>,
         \A s \in Request : phase'[s] = "idle" <=> IF s = r THEN p # "hashing" ELSE phase[s] = "idle",
         line' \in Seq(Request), IsInjective(line'), ToSet(line') = InLine \ {r}
  PROVE  RequestInv'
BY RequestMoves

\* A request that neither is in line nor goes there.
LEMMA LineStays ==
  ASSUME RequestInv, NEW r \in Request, at[r] # "waits", line' = line
  PROVE  line' \in Seq(Request) /\ IsInjective(line') /\ ToSet(line') = InLine \ {r}
BY DEF RequestInv, InLine

\* A request that leaves the line, if it was there.
LEMMA LeavesTheLine ==
  ASSUME RequestInv, NEW r \in Request, line' = RemoveFirst(line, r)
  PROVE  line' \in Seq(Request) /\ IsInjective(line') /\ ToSet(line') = InLine \ {r}
<1>1. line \in Seq(Request) /\ IsInjective(line) /\ ToSet(line) = InLine
  BY DEF RequestInv
<1>2. QED
  BY <1>1, LeavesTheQueue

\* Where a request stands says whether it hashes.
LEMMA NotHashing ==
  ASSUME RequestInv, NEW r \in Request, UNCHANGED hashes, NEW p, p # "hashing",
         at[r] # "hashing"
  PROVE  \A s \in Request : phase'[s] = "idle" <=> IF s = r THEN p # "hashing" ELSE phase[s] = "idle"
BY DEF RequestInv, hashes

\* A permit that is given on wakes who is in the semaphore's queue, and who is
\* there hashes.
LEMMA ReleaseEndsOne ==
  ASSUME HasherInv, NEW r \in Holders, Release(r)
  PROVE  \A s \in Request : phase'[s] = "idle" <=> s = r \/ phase[s] = "idle"
<1>1. r \in Request /\ phase \in [Request -> Phase] /\ phase[r] # "waiting"
  BY DEF HasherInv, TypeOK, Holders
<1>2. CASE /\ queue # <<>>
           /\ phase' = [phase EXCEPT ![r] = "idle", ![NextInLine] = "granted"]
  <2>  DEFINE q == NextInLine
  <2>1. q \in Request /\ phase[q] = "waiting"
    <3>1. queue \in Seq(Request) /\ IsInjective(queue) /\ ToSet(queue) = Waiting
      BY DEF HasherInv, TypeOK, NobodyWaitsForNothing, Waiting
    <3>2. q \in ToSet(queue)
      BY <1>2, <3>1, FirstLeaves DEF NextInLine
    <3>3. QED
      BY <3>1, <3>2 DEF Waiting
  <2>2. phase' = [phase EXCEPT ![r] = "idle", ![q] = "granted"]
    BY <1>2
  <2>  HIDE DEF q
  <2>3. QED
    BY <1>1, <2>1, <2>2
<1>3. CASE phase' = [phase EXCEPT ![r] = "idle"]
  BY <1>1, <1>3
<1>4. QED
  BY <1>2, <1>3 DEF Release

\* What an await leaves to the handler: the rest, or nothing when it refuses.
LEMMA ProceedLeaves ==
  ASSUME RequestInv, NEW r \in Request, at[r] \notin {"absent", "sending"}, Proceed(r)
  PROVE  \E t \in Seq(Await) :
            \E p \in {"sending", "ready"} :
              /\ at' = [at EXCEPT ![r] = p] /\ todo' = [todo EXCEPT ![r] = t]
              /\ t = <<>> <=> p \in {"absent", "sending"}
<1>1. todo[r] \in Seq(Await) /\ todo[r] # <<>>
  BY DEF RequestInv
<1>2. Tail(todo[r]) \in Seq(Await) /\ <<>> \in Seq(Await)
  BY <1>1, HeadTailProperties
<1>3. PICK t \in {Tail(todo[r]), <<>>} :
        /\ todo' = [todo EXCEPT ![r] = t]
        /\ at' = [at EXCEPT ![r] = IF t = <<>> THEN "sending" ELSE "ready"]
  BY DEF Proceed
<1>4. t \in Seq(Await)
  BY <1>2, <1>3
<1>5. CASE t = <<>>
  BY <1>3, <1>4, <1>5
<1>6. CASE t # <<>>
  BY <1>3, <1>4, <1>6
<1>7. QED
  BY <1>5, <1>6

\* What a handler awaits next stays when it only moves.
LEMMA TodoStays ==
  ASSUME RequestInv, NEW r \in Request, todo' = todo
  PROVE  todo[r] \in Seq(Await) /\ todo' = [todo EXCEPT ![r] = todo[r]]
BY DEF RequestInv

LEMMA ServerRequestSteps ==
  ASSUME ServerInv, NEW r \in Request,
         \/ \E kind \in Kind : Arrive(r, kind)
         \/ AsksForConnection(r) \/ Connects(r) \/ NoConnection(r)
         \/ Reads(r) \/ BeginsWrite(r) \/ LockedOut(r) \/ Writes(r)
         \/ AsksForPermit(r) \/ Hashes(r) \/ Hashed(r)
         \/ Sent(r) \/ Dropped(r)
  PROVE  HasherInv' /\ RequestInv' /\ UNCHANGED process
<1>  USE DEF ServerInv
<1>1. CASE \E kind \in Kind : Arrive(r, kind)
  <2>1. PICK kind \in Kind : Arrive(r, kind)
    BY <1>1
  <2>2. /\ at[r] = "absent" /\ at' = [at EXCEPT ![r] = "ready"]
        /\ todo' = [todo EXCEPT ![r] = Handler[kind]]
        /\ line' = line /\ UNCHANGED process /\ UNCHANGED hashes
    BY <2>1 DEF Arrive
  <2>3. RequestInv'
    <3>1. Handler[kind] \in Seq(Await) /\ Handler[kind] # <<>>
      BY HandlersAwait
    <3>2. line' \in Seq(Request) /\ IsInjective(line') /\ ToSet(line') = InLine \ {r}
      BY <2>2, LineStays
    <3>3. \A s \in Request : phase'[s] = "idle" <=> IF s = r THEN "ready" # "hashing" ELSE phase[s] = "idle"
      BY <2>2, NotHashing
    <3>4. QED
      BY <2>2, <3>1, <3>2, <3>3, RequestMovesOn DEF Place
  <2>4. QED
    BY <2>2, <2>3, NoHashKeeps
<1>2. CASE AsksForConnection(r)
  <2>1. /\ at[r] = "ready" /\ at' = [at EXCEPT ![r] = "waits"]
        /\ line' = Append(line, r) /\ todo' = todo /\ UNCHANGED process /\ UNCHANGED hashes
    BY <1>2 DEF AsksForConnection
  <2>2. /\ line' \in Seq(Request) /\ IsInjective(line')
        /\ ToSet(line') = InLine \cup {r}
    BY <2>1, JoinsTheQueue DEF RequestInv, InLine
  <2>3. todo[r] # <<>>
    BY <2>1 DEF RequestInv
  <2>4. \A s \in Request : phase'[s] = "idle" <=> IF s = r THEN "waits" # "hashing" ELSE phase[s] = "idle"
    BY <2>1, NotHashing
  <2>5. RequestInv'
    BY <2>1, <2>2, <2>3, <2>4, TodoStays, RequestMoves DEF Place
  <2>6. QED
    BY <2>1, <2>5, NoHashKeeps
<1>3. CASE Connects(r)
  <2>1. PICK p \in {"reading", "locking"} : at' = [at EXCEPT ![r] = p]
    BY <1>3 DEF Connects
  <2>2. /\ line # <<>> /\ r = line[1] /\ line' = Tail(line) /\ todo' = todo
        /\ UNCHANGED process /\ UNCHANGED hashes
    BY <1>3 DEF Connects
  <2>3. /\ line' \in Seq(Request) /\ IsInjective(line')
        /\ ToSet(line') = InLine \ {r} /\ r \in InLine
    BY <2>2, FirstLeaves DEF RequestInv
  <2>4. at[r] = "waits"
    BY <2>3 DEF InLine
  <2>5. todo[r] # <<>>
    BY <2>4 DEF RequestInv
  <2>6. \A s \in Request : phase'[s] = "idle" <=> IF s = r THEN p # "hashing" ELSE phase[s] = "idle"
    BY <2>2, <2>4, NotHashing
  <2>7. RequestInv'
    <3>1. todo[r] \in Seq(Await) /\ todo' = [todo EXCEPT ![r] = todo[r]]
      BY <2>2, TodoStays
    <3>2. p \in Place /\ p # "waits" /\ p \notin {"absent", "sending"}
      BY DEF Place
    <3>3. QED
      BY <2>1, <2>3, <2>5, <2>6, <3>1, <3>2, RequestMovesOn
  <2>8. QED
    BY <2>2, <2>7, NoHashKeeps
<1>4. CASE NoConnection(r)
  <2>1. /\ at[r] = "waits" /\ at' = [at EXCEPT ![r] = "sending"]
        /\ line' = RemoveFirst(line, r) /\ todo' = [todo EXCEPT ![r] = <<>>]
        /\ UNCHANGED process /\ UNCHANGED hashes
    BY <1>4 DEF NoConnection
  <2>2. \A s \in Request : phase'[s] = "idle" <=> IF s = r THEN "sending" # "hashing" ELSE phase[s] = "idle"
    BY <2>1, NotHashing
  <2>3. RequestInv'
    <3>1. line' \in Seq(Request) /\ IsInjective(line') /\ ToSet(line') = InLine \ {r}
      BY <2>1, LeavesTheLine
    <3>2. <<>> \in Seq(Await)
      OBVIOUS
    <3>3. QED
      BY <2>1, <2>2, <3>1, <3>2, RequestMovesOn DEF Place
  <2>4. QED
    BY <2>1, <2>3, NoHashKeeps
<1>5. CASE Reads(r) \/ Writes(r)
  <2>1. /\ at[r] \in {"reading", "writing"} /\ Proceed(r) /\ line' = line
        /\ UNCHANGED process /\ UNCHANGED hashes
    BY <1>5 DEF Reads, Writes
  <2>2. PICK t \in Seq(Await), p \in {"sending", "ready"} :
          /\ at' = [at EXCEPT ![r] = p] /\ todo' = [todo EXCEPT ![r] = t]
          /\ t = <<>> <=> p \in {"absent", "sending"}
    BY <2>1, ProceedLeaves
  <2>3. \A s \in Request : phase'[s] = "idle" <=> IF s = r THEN p # "hashing" ELSE phase[s] = "idle"
    BY <2>1, NotHashing
  <2>4. line' \in Seq(Request) /\ IsInjective(line') /\ ToSet(line') = InLine \ {r}
    BY <2>1, LineStays
  <2>5. RequestInv'
    <3>1. p \in Place /\ p # "waits" /\ IF p \in {"absent", "sending"} THEN t = <<>> ELSE t # <<>>
      BY <2>2 DEF Place
    <3>2. QED
      BY <2>2, <2>3, <2>4, <3>1, RequestMovesOn
  <2>6. QED
    BY <2>1, <2>5, NoHashKeeps
<1>6. CASE BeginsWrite(r)
  <2>1. /\ at[r] = "locking" /\ at' = [at EXCEPT ![r] = "writing"]
        /\ line' = line /\ todo' = todo /\ UNCHANGED process /\ UNCHANGED hashes
    BY <1>6 DEF BeginsWrite
  <2>2. todo[r] # <<>>
    BY <2>1 DEF RequestInv
  <2>3. \A s \in Request : phase'[s] = "idle" <=> IF s = r THEN "writing" # "hashing" ELSE phase[s] = "idle"
    BY <2>1, NotHashing
  <2>4. RequestInv'
    <3>1. line' \in Seq(Request) /\ IsInjective(line') /\ ToSet(line') = InLine \ {r}
      BY <2>1, LineStays
    <3>2. todo[r] \in Seq(Await) /\ todo' = [todo EXCEPT ![r] = todo[r]]
      BY <2>1, TodoStays
    <3>3. QED
      BY <2>1, <2>2, <2>3, <3>1, <3>2, RequestMovesOn DEF Place
  <2>5. QED
    BY <2>1, <2>4, NoHashKeeps
<1>7. CASE LockedOut(r)
  <2>1. /\ at[r] = "locking" /\ at' = [at EXCEPT ![r] = "sending"]
        /\ line' = line /\ todo' = [todo EXCEPT ![r] = <<>>]
        /\ UNCHANGED process /\ UNCHANGED hashes
    BY <1>7 DEF LockedOut
  <2>2. \A s \in Request : phase'[s] = "idle" <=> IF s = r THEN "sending" # "hashing" ELSE phase[s] = "idle"
    BY <2>1, NotHashing
  <2>3. RequestInv'
    <3>1. line' \in Seq(Request) /\ IsInjective(line') /\ ToSet(line') = InLine \ {r}
      BY <2>1, LineStays
    <3>2. <<>> \in Seq(Await)
      OBVIOUS
    <3>3. QED
      BY <2>1, <2>2, <3>1, <3>2, RequestMovesOn DEF Place
  <2>4. QED
    BY <2>1, <2>3, NoHashKeeps
<1>8. CASE AsksForPermit(r)
  <2>1. /\ at[r] = "ready" /\ at' = [at EXCEPT ![r] = "hashing"]
        /\ line' = line /\ todo' = todo /\ UNCHANGED process
        /\ Acquire(r) \/ Wait(r)
    BY <1>8 DEF AsksForPermit
  <2>2. todo[r] # <<>>
    BY <2>1 DEF RequestInv
  <2>3. PICK f \in {"running", "waiting"} : phase' = [phase EXCEPT ![r] = f]
    BY <2>1 DEF Acquire, Wait
  <2>4. \A s \in Request : phase'[s] = "idle" <=> IF s = r THEN "hashing" # "hashing" ELSE phase[s] = "idle"
    BY <2>3 DEF HasherInv, TypeOK
  <2>5. RequestInv'
    <3>1. line' \in Seq(Request) /\ IsInjective(line') /\ ToSet(line') = InLine \ {r}
      BY <2>1, LineStays
    <3>2. todo[r] \in Seq(Await) /\ todo' = [todo EXCEPT ![r] = todo[r]]
      BY <2>1, TodoStays
    <3>3. QED
      BY <2>1, <2>2, <2>4, <3>1, <3>2, RequestMovesOn DEF Place
  <2>6. QED
    BY <2>1, <2>5, AcquireKeeps, WaitKeeps
<1>9. CASE Hashes(r)
  <2>1. (Spawn(r) \/ TaskEnds(r)) /\ UNCHANGED requests /\ UNCHANGED process
    BY <1>9 DEF Hashes
  <2>2. PICK f \in {"running", "ended"} : phase' = [phase EXCEPT ![r] = f]
    BY <2>1 DEF Spawn, TaskEnds
  <2>3. phase[r] # "idle"
    BY <2>1 DEF Spawn, TaskEnds
  <2>4. \A s \in Request : phase'[s] = "idle" <=> phase[s] = "idle"
    BY <2>2, <2>3 DEF HasherInv, TypeOK
  <2>5. RequestInv'
    BY <2>1, <2>4 DEF RequestInv, requests, InLine
  <2>6. QED
    BY <2>1, <2>5, TaskKeeps
<1>10. CASE Hashed(r)
  <2>1. /\ at[r] = "hashing" /\ Answer(r) /\ Proceed(r)
        /\ line' = line /\ UNCHANGED process
    BY <1>10 DEF Hashed
  <2>2. PICK t \in Seq(Await), p \in {"sending", "ready"} :
          /\ at' = [at EXCEPT ![r] = p] /\ todo' = [todo EXCEPT ![r] = t]
          /\ t = <<>> <=> p \in {"absent", "sending"}
    BY <2>1, ProceedLeaves
  <2>3. r \in Holders /\ Release(r)
    BY <2>1 DEF Answer, Holders
  <2>4. \A s \in Request : phase'[s] = "idle" <=> IF s = r THEN p # "hashing" ELSE phase[s] = "idle"
    BY <2>3, ReleaseEndsOne
  <2>5. line' \in Seq(Request) /\ IsInjective(line') /\ ToSet(line') = InLine \ {r}
    BY <2>1, LineStays
  <2>6. RequestInv'
    <3>1. p \in Place /\ p # "waits" /\ IF p \in {"absent", "sending"} THEN t = <<>> ELSE t # <<>>
      BY <2>2 DEF Place
    <3>2. QED
      BY <2>2, <2>4, <2>5, <3>1, RequestMovesOn
  <2>7. QED
    BY <2>1, <2>6, AnswerKeeps
<1>11. CASE Sent(r)
  <2>1. /\ at[r] = "sending" /\ at' = [at EXCEPT ![r] = "absent"]
        /\ line' = line /\ todo' = todo /\ UNCHANGED process /\ UNCHANGED hashes
    BY <1>11 DEF Sent
  <2>2. todo[r] = <<>>
    BY <2>1 DEF RequestInv
  <2>3. \A s \in Request : phase'[s] = "idle" <=> IF s = r THEN "absent" # "hashing" ELSE phase[s] = "idle"
    BY <2>1, NotHashing
  <2>4. RequestInv'
    <3>1. line' \in Seq(Request) /\ IsInjective(line') /\ ToSet(line') = InLine \ {r}
      BY <2>1, LineStays
    <3>2. todo[r] \in Seq(Await) /\ todo' = [todo EXCEPT ![r] = todo[r]]
      BY <2>1, TodoStays
    <3>3. QED
      BY <2>1, <2>2, <2>3, <3>1, <3>2, RequestMovesOn DEF Place
  <2>5. QED
    BY <2>1, <2>4, NoHashKeeps
<1>12. CASE Dropped(r)
  <2>1. PICK p \in {"sending", "absent"} : at' = [at EXCEPT ![r] = p]
    BY <1>12 DEF Dropped
  <2>2. /\ todo' = [todo EXCEPT ![r] = <<>>] /\ line' = RemoveFirst(line, r)
        /\ UNCHANGED process
        /\ \/ at[r] = "hashing" /\ (CancelWaiting(r) \/ CancelHolding(r))
           \/ at[r] # "hashing" /\ UNCHANGED hashes
    BY <1>12 DEF Dropped
  <2>3. HasherInv'
    BY <2>2, CancelWaitingKeeps, CancelHoldingKeeps, NoHashKeeps
  <2>4. \A s \in Request : phase'[s] = "idle" <=> IF s = r THEN p # "hashing" ELSE phase[s] = "idle"
    <3>1. CASE CancelWaiting(r)
      BY <3>1 DEF CancelWaiting, HasherInv, TypeOK
    <3>2. CASE CancelHolding(r)
      <4>1. r \in Holders /\ Release(r)
        BY <3>2 DEF CancelHolding
      <4>2. QED
        BY <4>1, ReleaseEndsOne
    <3>3. CASE at[r] # "hashing" /\ UNCHANGED hashes
      BY <3>3, NotHashing
    <3>4. QED
      BY <2>2, <3>1, <3>2, <3>3
  <2>5. line' \in Seq(Request) /\ IsInjective(line') /\ ToSet(line') = InLine \ {r}
    BY <2>2, LeavesTheLine
  <2>6. RequestInv'
    <3>1. <<>> \in Seq(Await)
      OBVIOUS
    <3>2. p \in Place /\ p # "waits" /\ p \in {"absent", "sending"}
      BY DEF Place
    <3>3. QED
      BY <2>1, <2>2, <2>4, <2>5, <3>1, <3>2, RequestMovesOn
  <2>7. QED
    BY <2>2, <2>3, <2>6
<1>13. QED
  BY <1>1, <1>2, <1>3, <1>4, <1>5, <1>6, <1>7, <1>8, <1>9, <1>10, <1>11, <1>12

\* The end of a process gives every permit and every place in line back.
LEMMA ExitKeeps == ASSUME ServerInv, Exit PROVE HasherInv' /\ RequestInv'
<1>1. /\ permits' = ConcurrentHashes /\ queue' = <<>> /\ orphans' = orphans
      /\ phase' = [r \in Request |-> "idle"]
      /\ at' = [r \in Request |-> "absent"] /\ todo' = [r \in Request |-> <<>>]
      /\ line' = <<>>
  BY DEF Exit
<1>2. TypeOK'
  BY <1>1, PermitAssumption DEF ServerInv, HasherInv, TypeOK, Phase
<1>3. Holders' = {}
  BY <1>1 DEF Holders
<1>4. PermitsConserved'
  <2>1. Cardinality(Holders') = 0
    BY <1>3, FS_EmptySet
  <2>2. QED
    BY <1>1, <2>1, PermitAssumption DEF PermitsConserved
<1>5. NobodyWaitsForNothing'
  BY <1>1 DEF NobodyWaitsForNothing, IsInjective, ToSet
<1>6. \A r \in Request : at'[r] = "absent" /\ todo'[r] = <<>> /\ phase'[r] = "idle"
  BY <1>1
<1>7. at' \in [Request -> Place] /\ todo' \in [Request -> Seq(Await)]
  BY <1>1 DEF Place
<1>8. line' \in Seq(Request) /\ IsInjective(line') /\ ToSet(line') = {} /\ InLine' = {}
  BY <1>1, <1>6 DEF IsInjective, ToSet, InLine
<1>9. RequestInv'
  BY <1>6, <1>7, <1>8 DEF RequestInv
<1>10. QED
  BY <1>2, <1>4, <1>5, <1>9 DEF HasherInv

LEMMA ServerInvIsInductive == ServerInv /\ [ServerNext]_all => ServerInv'
<1>  SUFFICES ASSUME ServerInv, [ServerNext]_all PROVE ServerInv'
  OBVIOUS
<1>1. ASSUME NEW r \in Request,
             \/ \E kind \in Kind : Arrive(r, kind)
             \/ AsksForConnection(r) \/ Connects(r) \/ NoConnection(r)
             \/ Reads(r) \/ BeginsWrite(r) \/ LockedOut(r) \/ Writes(r)
             \/ AsksForPermit(r) \/ Hashes(r) \/ Hashed(r)
             \/ Sent(r) \/ Dropped(r)
      PROVE  ServerInv'
  <2>1. HasherInv' /\ RequestInv' /\ UNCHANGED process
    BY <1>1, ServerRequestSteps
  <2>2. QED
    BY <2>1 DEF ServerInv, ProcessInv, process
<1>2. CASE HashEnds
  <2>1. OrphanEnds /\ UNCHANGED requests /\ UNCHANGED process /\ UNCHANGED phase
    BY <1>2 DEF HashEnds, OrphanEnds
  <2>2. HasherInv'
    BY <2>1, OrphanKeeps DEF ServerInv
  <2>3. QED
    BY <2>1, <2>2 DEF ServerInv, RequestInv, ProcessInv, requests, process, InLine
<1>3. ASSUME UNCHANGED requests, UNCHANGED hashes, life' \in Life, stopping' \in 0..KillAfter
      PROVE  ServerInv'
  <2>1. HasherInv'
    BY <1>3, NoHashKeeps DEF ServerInv
  <2>2. RequestInv'
    BY <1>3 DEF ServerInv, RequestInv, requests, hashes, InLine
  <2>3. QED
    BY <1>3, <2>1, <2>2 DEF ServerInv, ProcessInv
<1>4. CASE Terminate \/ Drained \/ Closes \/ Start \/ Tick
  <2>1. UNCHANGED requests /\ UNCHANGED hashes
    BY <1>4 DEF Terminate, Drained, Closes, Start, Tick
  <2>2. life' \in Life
    BY <1>4 DEF Terminate, Drained, Closes, Start, Tick, ServerInv, ProcessInv, Life
  <2>3. stopping' \in 0..KillAfter
    BY <1>4, TimeAssumption DEF Terminate, Drained, Closes, Start, Tick, ServerInv, ProcessInv
  <2>4. QED
    BY <1>3, <2>1, <2>2, <2>3
<1>5. CASE Exit
  <2>1. life' \in Life /\ stopping' \in 0..KillAfter
    BY <1>5 DEF Exit, ServerInv, ProcessInv, Life
  <2>2. QED
    BY <1>5, <2>1, ExitKeeps DEF ServerInv, ProcessInv
<1>6. CASE UNCHANGED all
  BY <1>3, <1>6 DEF all, process, ServerInv, ProcessInv
<1>7. QED
  BY <1>1, <1>2, <1>4, <1>5, <1>6 DEF ServerNext

LEMMA AlwaysServerInv == ServerSpec => []ServerInv
BY ServerStarts, ServerInvIsInductive, PTL DEF ServerSpec

\* Type correctness of the process, its requests and its hasher: a handler stands
\* where what it has left to await says, and the line of the pool is who waits in it.
THEOREM TypeCorrect == ServerSpec => []ServerTypeOK
<1>1. ServerInv => ServerTypeOK
  BY DEF ServerInv, HasherInv, RequestInv, ProcessInv, ServerTypeOK, InLine
<1>2. QED
  BY <1>1, AlwaysServerInv, PTL

\* However many requests hash, and wherever one of them is dropped, every permit is
\* either free or held by exactly one of them: none leaks, none is made.
THEOREM NoPermitIsLost == ServerSpec => []PermitsConserved
<1>1. ServerInv => PermitsConserved
  BY DEF ServerInv, HasherInv
<1>2. QED
  BY <1>1, AlwaysServerInv, PTL

\* A permit that comes back wakes the first in line, and who was dropped in line is
\* never woken: nobody waits for a permit that is free.
THEOREM NobodyIsForgotten == ServerSpec => []NobodyWaitsForNothing
<1>1. ServerInv => NobodyWaitsForNothing
  BY DEF ServerInv, HasherInv
<1>2. QED
  BY <1>1, AlwaysServerInv, PTL

\* What HashBound promises of the hashes somebody waits for, and of all of them while
\* no caller has dropped one that runs.
AwaitedHashesWithinPermits ==
  /\ Cardinality(Running) + permits <= ConcurrentHashes
  /\ orphans = 0 => HashBound

\* The hashes with a caller hold a permit each, so only a caller who drops a hash that
\* runs lets more of them run than there are permits.
THEOREM OnlyOrphansPassTheBound == ServerSpec => []AwaitedHashesWithinPermits
<1>1. ASSUME ServerInv
      PROVE  AwaitedHashesWithinPermits
  <2>1. Running \subseteq Holders
    BY DEF Running, Holders
  <2>2. Cardinality(Running) \in Nat /\ Cardinality(Running) <= Cardinality(Holders)
    BY <2>1, HoldersAreFinite, FS_Subset, FS_CardinalityType
  <2>3. permits + Cardinality(Holders) = ConcurrentHashes /\ permits \in Nat
    BY <1>1, PermitAssumption DEF ServerInv, HasherInv, PermitsConserved, TypeOK
  <2>4. Cardinality(Running) + permits <= ConcurrentHashes
    BY <2>2, <2>3, HoldersAreFinite, PermitAssumption
  <2>5. Cardinality(Running) <= ConcurrentHashes
    BY <2>2, <2>3, HoldersAreFinite, PermitAssumption
  <2>6. QED
    BY <2>2, <2>4, <2>5 DEF AwaitedHashesWithinPermits, HashBound
<1>2. QED
  BY <1>1, AlwaysServerInv, PTL

--------------------------------------------------------------------------------
(* Nobody is stuck.                                                        *)

\* r has a step of its own that waits for nobody: of who is in line, the first
\* while a connection is left, and everybody when the pool is closed.
GoesOn(r) ==
  \/ at[r] \in {"ready", "reading", "locking", "writing"}
  \/ at[r] = "waits" /\ ~PoolOpen
  \/ at[r] = "waits" /\ r = line[1] /\ Cardinality(Holding) < MaxConnections
  \/ at[r] = "hashing" /\ phase[r] # "waiting"

\* r waits, and h holds a thing of the kind that r waits for.
HeldUpBy(r, h) ==
  \/ at[r] = "waits" /\ h \in Holding
  \/ phase[r] = "waiting" /\ h \in Holders

\* Nobody holds a connection and a permit at once, and who holds one goes on.  So who
\* waits is held up by one who is not, or stands behind one.
NobodyIsStuck ==
  /\ Holding \cap Holders = {}
  /\ \A h \in Holding \cup Holders : GoesOn(h)
  /\ \A r \in Inside :
       \/ GoesOn(r)
       \/ \E h \in Request : HeldUpBy(r, h)
       \/ at[r] = "waits" /\ GoesOn(line[1])

LEMMA WhoHoldsGoesOn ==
  ASSUME ServerInv
  PROVE  Holding \cap Holders = {} /\ \A h \in Holding \cup Holders : GoesOn(h)
<1>1. \A r \in Request : phase[r] = "idle" <=> at[r] # "hashing"
  BY DEF ServerInv, RequestInv
<1>2. QED
  BY <1>1 DEF Holding, Holders, GoesOn

\* Who waits for a permit waits for one that is held.
LEMMA PermitsAreHeld ==
  ASSUME ServerInv, NEW r \in Request, phase[r] = "waiting"
  PROVE  Holders # {}
<1>1. queue # <<>>
  BY DEF ServerInv, HasherInv, NobodyWaitsForNothing, ToSet
<1>2. permits = 0
  BY <1>1 DEF ServerInv, HasherInv, TypeOK, NobodyWaitsForNothing
<1>3. Cardinality(Holders) # 0
  BY <1>2, HoldersAreFinite, PermitAssumption DEF ServerInv, HasherInv, PermitsConserved
<1>4. QED
  BY <1>3, FS_EmptySet

\* Who waits for a connection waits for one that is held, or the first in line goes
\* on.
LEMMA ConnectionsAreHeld ==
  ASSUME ServerInv, NEW r \in Request, at[r] = "waits"
  PROVE  Holding # {} \/ GoesOn(line[1])
<1>1. CASE Holding = {}
  <2>1. Cardinality(Holding) < MaxConnections
    BY <1>1, FS_EmptySet, PoolAssumption
  <2>2. line \in Seq(Request) /\ IsInjective(line) /\ ToSet(line) = InLine
    BY DEF ServerInv, RequestInv
  <2>3. line # <<>>
    BY <2>2 DEF InLine, ToSet
  <2>4. line[1] \in InLine
    BY <2>2, <2>3, FirstLeaves
  <2>5. QED
    BY <2>1, <2>4 DEF InLine, GoesOn
<1>2. QED
  BY <1>1

\* The part of EveryRequestEnds that is true of every state: for any numbers of
\* requests, permits and connections, no circle of requests waits for each other.
\* A handler that hashed while it held a connection would break it.
THEOREM NoCircleOfWaits == ServerSpec => []NobodyIsStuck
<1>1. ASSUME ServerInv
      PROVE  NobodyIsStuck
  <2>1. ASSUME NEW r \in Inside
        PROVE  \/ GoesOn(r)
               \/ \E h \in Request : HeldUpBy(r, h)
               \/ at[r] = "waits" /\ GoesOn(line[1])
    <3>1. r \in Request /\ at[r] \in Place \ {"absent", "sending"}
      BY <1>1 DEF Inside, ServerInv, RequestInv
    <3>2. CASE at[r] = "waits"
      <4>1. Holding # {} \/ GoesOn(line[1])
        BY <1>1, <3>1, <3>2, ConnectionsAreHeld
      <4>2. QED
        BY <3>2, <4>1 DEF HeldUpBy, Holding
    <3>3. CASE phase[r] = "waiting"
      <4>1. Holders # {}
        BY <1>1, <3>1, <3>3, PermitsAreHeld
      <4>2. QED
        BY <3>3, <4>1 DEF HeldUpBy, Holders
    <3>4. CASE at[r] # "waits" /\ phase[r] # "waiting"
      BY <3>1, <3>4 DEF GoesOn, Place
    <3>5. QED
      BY <3>2, <3>3, <3>4
  <2>2. QED
    BY <1>1, <2>1, WhoHoldsGoesOn DEF NobodyIsStuck
<1>2. QED
  BY <1>1, AlwaysServerInv, PTL

--------------------------------------------------------------------------------
(* First come, first served.                                               *)

\* a is ahead of b in the queue s.
Ahead(s, a, b) == \E i, j \in DOMAIN s : i < j /\ s[i] = a /\ s[j] = b

\* Who is in s and in t is there in the same order.
OrderKept(s, t) ==
  \A a, b : Ahead(s, a, b) /\ a \in ToSet(t) /\ b \in ToSet(t) => Ahead(t, a, b)

\* Whom nobody lets past: a request gets neither a connection nor a permit that comes
\* back while another is ahead of it, and those who stay in line keep their order.
FirstComeFirstServed ==
  /\ OrderKept(line, line') /\ OrderKept(queue, queue')
  /\ \A a, b : Ahead(line, a, b) => at'[b] \notin {"reading", "locking"}
  /\ \A a, b : Ahead(queue, a, b) => phase'[b] # "granted"

LEMMA OrderStays == \A s : OrderKept(s, s) /\ OrderKept(s, <<>>)
BY DEF OrderKept, ToSet

LEMMA JoinsBehind ==
  ASSUME NEW S, NEW s \in Seq(S), NEW e \in S
  PROVE  OrderKept(s, Append(s, e))
<1>1. /\ DOMAIN s = 1..Len(s) /\ DOMAIN Append(s, e) = 1 .. Len(s) + 1
      /\ \A i \in 1..Len(s) : Append(s, e)[i] = s[i] /\ i \in 1 .. Len(s) + 1
  BY AppendProperties
<1>2. QED
  BY <1>1 DEF OrderKept, Ahead

\* A queue of which one place is empty, and the others close up.
LEMMA OthersCloseUp ==
  ASSUME NEW S, NEW s \in Seq(S), IsInjective(s), NEW k \in 1..Len(s), NEW t \in Seq(S),
         Len(t) = Len(s) - 1,
         \A j \in 1 .. Len(s) - 1 : t[j] = IF j < k THEN s[j] ELSE s[j + 1]
  PROVE  OrderKept(s, t)
<1>  DEFINE n == Len(s)
<1>1. n \in Nat /\ DOMAIN s = 1..n /\ DOMAIN t = 1 .. n - 1
  OBVIOUS
<1>2. \A i, j \in 1..n : s[i] = s[j] => i = j
  BY <1>1 DEF IsInjective
<1>3. \A j \in 1 .. n - 1 : t[j] = IF j < k THEN s[j] ELSE s[j + 1]
  OBVIOUS
<1>  HIDE DEF n
<1>4. ASSUME NEW a, NEW b, Ahead(s, a, b), a \in ToSet(t), b \in ToSet(t)
      PROVE  Ahead(t, a, b)
  <2>1. PICK i \in 1..n, j \in 1..n : i < j /\ s[i] = a /\ s[j] = b
    BY <1>1, <1>4 DEF Ahead
  <2>2. PICK x \in 1 .. n - 1, y \in 1 .. n - 1 : t[x] = a /\ t[y] = b
    BY <1>1, <1>4 DEF ToSet
  <2>3. i = IF x < k THEN x ELSE x + 1
    BY <1>1, <1>2, <1>3, <2>1, <2>2
  <2>4. j = IF y < k THEN y ELSE y + 1
    BY <1>1, <1>2, <1>3, <2>1, <2>2
  <2>5. x < y
    BY <2>1, <2>2, <2>3, <2>4, <1>1
  <2>6. QED
    BY <2>2, <2>5, <1>1 DEF Ahead
<1>5. QED
  BY <1>4 DEF OrderKept

LEMMA LeavesInOrder ==
  ASSUME NEW S, NEW s \in Seq(S), IsInjective(s), NEW e
  PROVE  OrderKept(s, RemoveFirst(s, e))
<1>1. CASE \E k \in 1..Len(s) : s[k] = e
  <2>1. PICK k \in 1..Len(s) : s[k] = e
    BY <1>1
  <2>2. RemoveFirst(s, e) = RemoveAt(s, k)
    BY <2>1, LeavesAtItsPlace
  <2>3. /\ RemoveAt(s, k) \in Seq(S) /\ Len(RemoveAt(s, k)) = Len(s) - 1
        /\ \A j \in 1 .. Len(s) - 1 : RemoveAt(s, k)[j] = IF j < k THEN s[j] ELSE s[j + 1]
    BY PlaceTakenOut
  <2>4. QED
    BY <2>2, <2>3, OthersCloseUp
<1>2. CASE ~\E k \in 1..Len(s) : s[k] = e
  <2>1. RemoveFirst(s, e) = s
    BY <1>2 DEF RemoveFirst
  <2>2. QED
    BY <2>1, OrderStays
<1>3. QED
  BY <1>1, <1>2

LEMMA ServedInOrder ==
  ASSUME NEW S, NEW s \in Seq(S), IsInjective(s), s # <<>>
  PROVE  OrderKept(s, Tail(s))
<1>  DEFINE t == Tail(s)
<1>1. /\ Len(s) \in Nat /\ Len(s) >= 1
      /\ t \in Seq(S) /\ Len(t) = Len(s) - 1
      /\ \A i \in 1..Len(t) : t[i] = s[i + 1]
  BY HeadTailProperties, EmptySeq
<1>  HIDE DEF t
<1>2. 1 \in 1..Len(s) /\ \A j \in 1 .. Len(s) - 1 : t[j] = IF j < 1 THEN s[j] ELSE s[j + 1]
  BY <1>1
<1>3. OrderKept(s, t)
  BY <1>1, <1>2, OthersCloseUp
<1>4. QED
  BY <1>3 DEF t

\* Who has one ahead is in the queue and is not its first.
LEMMA BehindTheFirst ==
  ASSUME NEW S, NEW s \in Seq(S), IsInjective(s), NEW a, NEW b, Ahead(s, a, b)
  PROVE  b \in ToSet(s) /\ s # <<>> /\ b # s[1]
<1>1. DOMAIN s = 1..Len(s) /\ Len(s) \in Nat
  OBVIOUS
<1>2. PICK i, j \in 1..Len(s) : i < j /\ s[i] = a /\ s[j] = b
  BY <1>1 DEF Ahead
<1>3. j # 1 /\ 1 \in 1..Len(s)
  BY <1>1, <1>2
<1>4. s[j] # s[1]
  BY <1>1, <1>2, <1>3 DEF IsInjective
<1>5. QED
  BY <1>1, <1>2, <1>4 DEF ToSet

\* What a step does to the semaphore's queue, and whom it wakes.
LEMMA QueueSteps ==
  ASSUME HasherInv, NEW r \in Request,
         \/ Acquire(r) \/ Wait(r) \/ Spawn(r) \/ TaskEnds(r) \/ Answer(r)
         \/ CancelWaiting(r) \/ CancelHolding(r)
  PROVE  /\ OrderKept(queue, queue')
         /\ \A a, b : Ahead(queue, a, b) => phase'[b] # "granted"
<1>1. /\ queue \in Seq(Request) /\ IsInjective(queue) /\ ToSet(queue) = Waiting
      /\ phase \in [Request -> Phase]
  BY DEF HasherInv, TypeOK, NobodyWaitsForNothing, Waiting
<1>2. ASSUME NEW a, NEW b, Ahead(queue, a, b)
      PROVE  b \in Request /\ phase[b] = "waiting" /\ b # queue[1]
  BY <1>1, <1>2, BehindTheFirst DEF Waiting
<1>3. ASSUME Release(r), r \in Holders
      PROVE  /\ OrderKept(queue, queue')
             /\ \A a, b : Ahead(queue, a, b) => phase'[b] # "granted"
  <2>1. CASE /\ queue # <<>> /\ queue' = RemoveFirst(queue, NextInLine)
             /\ phase' = [phase EXCEPT ![r] = "idle", ![NextInLine] = "granted"]
    <3>1. OrderKept(queue, queue')
      BY <1>1, <2>1, LeavesInOrder
    <3>2. NextInLine = queue[1]
      BY <1>1, <2>1, FirstLeaves DEF NextInLine
    <3>3. \A b \in Request : b # NextInLine /\ phase[b] = "waiting" => phase'[b] # "granted"
      BY <1>1, <2>1
    <3>4. QED
      BY <1>2, <3>1, <3>2, <3>3
  <2>2. CASE queue' = queue /\ phase' = [phase EXCEPT ![r] = "idle"]
    <3>1. \A b \in Request : phase[b] = "waiting" => phase'[b] # "granted"
      BY <1>1, <2>2
    <3>2. QED
      BY <1>2, <2>2, <3>1, OrderStays
  <2>3. QED
    BY <1>3, <2>1, <2>2 DEF Release
<1>4. CASE Acquire(r) \/ Wait(r) \/ Spawn(r) \/ TaskEnds(r) \/ CancelWaiting(r)
  <2>1. PICK f \in {"idle", "waiting", "running", "ended"} : phase' = [phase EXCEPT ![r] = f]
    BY <1>4 DEF Acquire, Wait, Spawn, TaskEnds, CancelWaiting
  <2>2. \A b \in Request : phase[b] = "waiting" => phase'[b] # "granted"
    BY <1>1, <2>1
  <2>3. \/ queue' = queue \/ queue' = Append(queue, r) \/ queue' = RemoveFirst(queue, r)
    BY <1>4 DEF Acquire, Wait, Spawn, TaskEnds, CancelWaiting
  <2>4. OrderKept(queue, queue')
    BY <1>1, <2>3, OrderStays, JoinsBehind, LeavesInOrder
  <2>5. QED
    BY <1>2, <2>2, <2>4
<1>5. QED
  BY <1>3, <1>4 DEF Answer, CancelHolding, Holders

\* What a step of a request does to the pool's line, and who gets a connection.
LEMMA LineSteps ==
  ASSUME RequestInv, NEW r \in Request,
         \/ \E kind \in Kind : Arrive(r, kind)
         \/ AsksForConnection(r) \/ Connects(r) \/ NoConnection(r)
         \/ Reads(r) \/ BeginsWrite(r) \/ LockedOut(r) \/ Writes(r)
         \/ AsksForPermit(r) \/ Hashes(r) \/ Hashed(r)
         \/ Sent(r) \/ Dropped(r)
  PROVE  /\ OrderKept(line, line')
         /\ \A a, b : Ahead(line, a, b) => at'[b] \notin {"reading", "locking"}
<1>1. line \in Seq(Request) /\ IsInjective(line) /\ ToSet(line) = InLine /\ at \in [Request -> Place]
  BY DEF RequestInv
<1>2. ASSUME NEW a, NEW b, Ahead(line, a, b)
      PROVE  b \in Request /\ at[b] = "waits" /\ b # line[1]
  BY <1>1, <1>2, BehindTheFirst DEF InLine
<1>3. CASE Connects(r)
  <2>1. r = line[1] /\ line # <<>> /\ line' = Tail(line)
    BY <1>3 DEF Connects
  <2>2. \A b \in Request : b # r /\ at[b] = "waits" => at'[b] = "waits"
    BY <1>1, <1>3 DEF Connects
  <2>3. OrderKept(line, line')
    BY <1>1, <2>1, ServedInOrder
  <2>4. QED
    BY <1>2, <2>1, <2>2, <2>3
<1>4. CASE ~Connects(r)
  <2>1. \/ line' = line \/ line' = Append(line, r) \/ line' = RemoveFirst(line, r)
    BY <1>4 DEF Arrive, AsksForConnection, NoConnection, Reads, BeginsWrite, LockedOut,
                Writes, AsksForPermit, Hashes, Hashed, Sent, Dropped, requests
  <2>2. OrderKept(line, line')
    BY <1>1, <2>1, OrderStays, JoinsBehind, LeavesInOrder
  <2>3. \/ at' = at
        \/ at[r] # "waits" /\ \E p : at' = [at EXCEPT ![r] = p]
        \/ \E p \in {"sending", "absent"} : at' = [at EXCEPT ![r] = p]
    BY <1>4 DEF Arrive, AsksForConnection, NoConnection, Reads, BeginsWrite, LockedOut,
                Writes, AsksForPermit, Hashes, Hashed, Sent, Dropped, requests, Proceed
  <2>4. \A b \in Request : at[b] = "waits" => at'[b] \notin {"reading", "locking"}
    BY <1>1, <2>3
  <2>5. QED
    BY <1>2, <2>2, <2>4
<1>5. QED
  BY <1>3, <1>4

\* A request hashes as the hasher says, or leaves the hasher alone.
LEMMA RequestHashes ==
  ASSUME NEW r \in Request,
         \/ \E kind \in Kind : Arrive(r, kind)
         \/ AsksForConnection(r) \/ Connects(r) \/ NoConnection(r)
         \/ Reads(r) \/ BeginsWrite(r) \/ LockedOut(r) \/ Writes(r)
         \/ AsksForPermit(r) \/ Hashes(r) \/ Hashed(r)
         \/ Sent(r) \/ Dropped(r)
  PROVE  \/ Acquire(r) \/ Wait(r) \/ Spawn(r) \/ TaskEnds(r) \/ Answer(r)
         \/ CancelWaiting(r) \/ CancelHolding(r)
         \/ UNCHANGED hashes
BY DEF Arrive, AsksForConnection, Connects, NoConnection, Reads, BeginsWrite, LockedOut,
       Writes, AsksForPermit, Hashes, Hashed, Sent, Dropped

\* No step overtakes: not when the pool or the semaphore serves, and not when one in
\* the middle of a queue is dropped.  A permit that comes back goes to the head, and
\* who comes new finds none while somebody waits (NobodyIsForgotten).
THEOREM NobodyIsOvertaken == ServerSpec => [][FirstComeFirstServed]_all
<1>1. ASSUME ServerInv, NEW r \in Request,
             \/ \E kind \in Kind : Arrive(r, kind)
             \/ AsksForConnection(r) \/ Connects(r) \/ NoConnection(r)
             \/ Reads(r) \/ BeginsWrite(r) \/ LockedOut(r) \/ Writes(r)
             \/ AsksForPermit(r) \/ Hashes(r) \/ Hashed(r)
             \/ Sent(r) \/ Dropped(r)
      PROVE  FirstComeFirstServed
  <2>1. /\ OrderKept(line, line')
        /\ \A a, b : Ahead(line, a, b) => at'[b] \notin {"reading", "locking"}
    BY <1>1, LineSteps DEF ServerInv
  <2>2. CASE UNCHANGED hashes
    <3>1. queue' = queue /\ phase' = phase
      BY <2>2 DEF hashes
    <3>2. \A a, b : Ahead(queue, a, b) => phase[b] = "waiting"
      BY <1>1, BehindTheFirst DEF ServerInv, HasherInv, TypeOK, NobodyWaitsForNothing
    <3>3. QED
      BY <2>1, <3>1, <3>2, OrderStays DEF FirstComeFirstServed
  <2>3. CASE ~UNCHANGED hashes
    <3>1. \/ Acquire(r) \/ Wait(r) \/ Spawn(r) \/ TaskEnds(r) \/ Answer(r)
          \/ CancelWaiting(r) \/ CancelHolding(r)
      BY <1>1, <2>3, RequestHashes
    <3>2. /\ OrderKept(queue, queue')
          /\ \A a, b : Ahead(queue, a, b) => phase'[b] # "granted"
      BY <1>1, <3>1, QueueSteps DEF ServerInv
    <3>3. QED
      BY <2>1, <3>2 DEF FirstComeFirstServed
  <2>4. QED
    BY <2>2, <2>3
<1>2. ASSUME ServerInv, UNCHANGED <<requests, queue, phase>>
      PROVE  FirstComeFirstServed
  <2>1. line' = line /\ at' = at /\ queue' = queue /\ phase' = phase
    BY <1>2 DEF requests
  <2>2. \A a, b : Ahead(queue, a, b) => phase[b] = "waiting"
    BY <1>2, BehindTheFirst DEF ServerInv, HasherInv, TypeOK, NobodyWaitsForNothing
  <2>3. \A a, b : Ahead(line, a, b) => at[b] = "waits"
    BY <1>2, BehindTheFirst DEF ServerInv, RequestInv, InLine
  <2>4. QED
    BY <2>1, <2>2, <2>3, OrderStays DEF FirstComeFirstServed
<1>3. ASSUME ServerInv, Exit
      PROVE  FirstComeFirstServed
  <2>1. /\ line' = <<>> /\ queue' = <<>>
        /\ at' = [r \in Request |-> "absent"] /\ phase' = [r \in Request |-> "idle"]
    BY <1>3 DEF Exit
  <2>2. \A a, b : Ahead(queue, a, b) => b \in Request
    BY <1>3, BehindTheFirst DEF ServerInv, HasherInv, TypeOK, NobodyWaitsForNothing
  <2>3. \A a, b : Ahead(line, a, b) => b \in Request
    BY <1>3, BehindTheFirst DEF ServerInv, RequestInv, InLine
  <2>4. QED
    BY <2>1, <2>2, <2>3, OrderStays DEF FirstComeFirstServed
<1>4. ServerInv /\ [ServerNext]_all => [FirstComeFirstServed]_all
  <2>1. HashEnds \/ Terminate \/ Drained \/ Closes \/ Start \/ Tick
          => UNCHANGED <<requests, queue, phase>>
    BY DEF HashEnds, OrphanEnds, Terminate, Drained, Closes, Start, Tick, hashes
  <2>2. QED
    BY <1>1, <1>2, <1>3, <2>1 DEF ServerNext
<1>5. QED
  BY <1>4, AlwaysServerInv, PTL DEF ServerSpec

\* The process hashes as the hasher says, and throws it away with itself when it ends:
\* what is true of the hasher alone, until then, is true of it under the requests, the
\* pool and the stop.
THEOREM ServerHashes == ServerSpec => Init /\ [][Next \/ Exit]_hashes
<1>1. ServerInit => Init
  BY DEF ServerInit
<1>2. [ServerNext]_all => [Next \/ Exit]_hashes
  <2>  SUFFICES ASSUME [ServerNext]_all PROVE [Next \/ Exit]_hashes
    OBVIOUS
  <2>1. ASSUME NEW r \in Request,
               \/ \E kind \in Kind : Arrive(r, kind)
               \/ AsksForConnection(r) \/ Connects(r) \/ NoConnection(r)
               \/ Reads(r) \/ BeginsWrite(r) \/ LockedOut(r) \/ Writes(r)
               \/ AsksForPermit(r) \/ Hashes(r) \/ Hashed(r)
               \/ Sent(r) \/ Dropped(r)
        PROVE  [Next]_hashes
    BY <2>1, RequestHashes DEF Next
  <2>2. CASE HashEnds
    BY <2>2 DEF HashEnds, Next
  <2>3. CASE UNCHANGED all \/ Terminate \/ Drained \/ Closes \/ Start \/ Tick
    BY <2>3 DEF all, Terminate, Drained, Closes, Start, Tick
  <2>4. QED
    BY <2>1, <2>2, <2>3 DEF ServerNext
<1>3. QED
  BY <1>1, <1>2, PTL DEF ServerSpec
================================================================================
