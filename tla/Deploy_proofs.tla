----------------------------- MODULE Deploy_proofs -----------------------------
(***************************************************************************)
(* What a deploy keeps, for every set of binaries, keys and bounds, and    *)
(* with the power failing between any two of its commands.                 *)
(*                                                                         *)
(* The invariant follows the script: at each command it says which of the  *)
(* files hold what the deploy found when it had stopped the API, so that a *)
(* rollback from there on puts exactly that back.                          *)
(***************************************************************************)
EXTENDS Deploy, TLAPS

File == Binary \cup {NoFile, Torn}

\* The commands between the snapshot and the verdict, and those of a rollback.
Copied == {"keepBinary", "copyPrev", "swapBinary", "copyBinary", "start", "wait"}
Back   == RollbackCommands

FoundTypes ==
  /\ found = [bin |-> found.bin, env |-> found.env, db |-> found.db, cut |-> found.cut]
  /\ found.db \in Db /\ found.cut \in BOOLEAN

Types ==
  /\ pc \in {"idle", "stage", "key", "copyEnv", "writeKey", "stop"} \cup Stopped
  /\ arg \in [key : Key \cup {NoKey}, stored : BOOLEAN]
  /\ arg.key = NoKey \/ IsApiKey(arg.key)
  /\ upload \in Binary \cup {NoFile}
  /\ staged \in File /\ bin \in File /\ prev \in File
  /\ Whole(env)
  /\ db \in Db \cup {NoFile, Torn} /\ snapshot \in Db \cup {NoFile, Torn}
  /\ wal \subseteq Db /\ confirmed \in BOOLEAN
  /\ api \in {"off", "starting", "ready"}
  /\ FoundTypes

\* The API is stopped while its files move, and one that is ready found them whole.
ApiStopped ==
  /\ pc \in Stopped \ {"wait", "waitBack"} => api = "off"
  /\ api = "ready" => Whole(db) /\ EnvReads(env)

\* The api.env of before is beside the one with the new key until the deploy is over,
\* and is back when the rollback goes on.
EnvKept ==
  /\ pc \in {"idle", "stage", "key", "copyEnv", "writeKey"} => arg.stored = FALSE
  /\ pc \in {"stage", "key", "copyEnv", "writeKey"} => env = found.env
  /\ pc \in {"copyEnv", "writeKey"} => arg.key # NoKey
  /\ pc = "writeKey" => envPrev = env
  /\ pc \in {"stop", "snapshot", "copySnapshot"} \cup Copied =>
       IF arg.stored = TRUE
       THEN /\ envPrev = found.env
            /\ Whole(envPrev) /\ (confirmed = TRUE => EnvReads(envPrev))
       ELSE env = found.env
  /\ pc \in Back \cup {"waitBack"} => env = found.env

\* What the deploy found is in the database until it is in the snapshot, and the
\* snapshot stays.
DbKept ==
  /\ pc = "snapshot" /\ Whole(db) => db = found.db
  /\ pc = "copySnapshot" => db = found.db
  /\ pc \in Copied \cup Back => snapshot = found.db
  /\ pc \in {"backDb", "copyDb"} => wal = {}
  /\ pc = "startBack" => db = found.db

BinKept ==
  /\ pc \in {"key", "copyEnv", "writeKey", "stop", "snapshot", "copySnapshot", "keepBinary",
             "copyPrev", "swapBinary", "copyBinary"} => staged \in Binary
  /\ pc \in {"snapshot", "copySnapshot", "keepBinary", "copyPrev", "swapBinary"} =>
       bin = found.bin
  /\ pc \in {"swapBinary", "copyBinary", "start", "wait"} \cup Back /\ found.bin # NoFile =>
       prev = found.bin
  /\ pc \in {"rmWal", "backDb", "copyDb", "startBack"} /\ found.bin # NoFile =>
       bin = found.bin

IInv == /\ Types /\ ApiStopped /\ EnvKept /\ DbKept /\ BinKept
        /\ EnvAlwaysStarts /\ OldWritesKept

--------------------------------------------------------------------------------
(* The files.                                                              *)

LEMMA DbIsWhole ==
  /\ \A d \in Db : Whole(d)
  /\ \A d : d \in Db \cup {NoFile, Torn} /\ Whole(d) => d \in Db
  /\ Blank \in Db
<1>1. \A d \in Db : d \in [rows : Nat, schema : Nat]
  BY BoundAssumption DEF Db
<1>2. \A d \in Db : Whole(d)
  BY <1>1, FileAssumption DEF Whole
<1>3. Blank \in Db
  BY BoundAssumption DEF Blank, Db
<1>4. QED
  BY <1>2, <1>3 DEF Whole

LEMMA BinaryIsWhole == \A b \in File : Whole(b) => b \in Binary
BY DEF Whole, File

\* An api.env with a key that the script takes, or that the box had, starts a release.
LEMMA KeyStarts ==
  ASSUME NEW key \in Key, IsApiKey(key)
  PROVE  EnvReads(EnvOf(key)) /\ Whole(EnvOf(key))
<1> DEFINE e == EnvOf(key)
<1>1. e["APP_ENV"] = "prod" /\ e["API_KEY"] = key
      /\ \A name \in Names \ {"APP_ENV", "API_KEY"} : e[name] = Fine
  BY DEF EnvOf, Names
<1>2. Whole(e)
  BY FileAssumption DEF Whole
<1>3. key \notin {Absent, Empty, NotUnicode}
  BY ValueAssumption DEF IsApiKey
<1>  HIDE DEF e
<1>4. ReadAppEnv(e, TRUE) = "prod"
  BY <1>1 DEF ReadAppEnv, Optional, Empty, Absent
<1>5. JwtSecretReads(e, ResolveAppConfig("prod"))
  BY <1>1 DEF JwtSecretReads, Optional, Names, Fine, Empty
<1>6. ApiKeyReads(e, ResolveAppConfig("prod"))
  BY <1>1, <1>3 DEF ApiKeyReads, Optional
<1>7. \A name \in {"BIND_ADDRESS", "PORT", "DB_MAX_CONNECTIONS", "DATABASE_URL", "RUST_LOG"} :
        Optional(e, name) = Fine
  BY <1>1 DEF Optional, Names, Fine, Empty
<1>8. ReadsEnv(e, TRUE)
  BY <1>4, <1>5, <1>6, <1>7 DEF ReadsEnv, Parses, Fine, NotUnicode, Unparsed
<1>9. QED
  BY <1>2, <1>8 DEF EnvReads, e

LEMMA InitSound == Init => IInv
<1>  SUFFICES ASSUME Init
              PROVE  IInv
  OBVIOUS
<1>1. Whole(env) /\ (api = "ready" => EnvReads(env)) /\ (confirmed => EnvReads(env))
  <2>1. CASE env = EnvOf(BoxKey)
    BY <2>1, KeyStarts, KeyAssumption
  <2>2. CASE env = EnvOf(Absent) /\ api = "off" /\ confirmed = FALSE
    BY <2>2, FileAssumption DEF Whole
  <2>3. QED
    BY <2>1, <2>2 DEF Init
<1>2. bin \in File /\ db \in Db /\ found.db = db
  <2>1. CASE bin \in Healthy /\ db = [rows |-> 0, schema |-> Knows[bin]]
    <3>1. bin \in Binary /\ Knows[bin] \in Nat
      BY <2>1, BinaryAssumption
    <3>2. QED
      BY <2>1, <3>1, BoundAssumption DEF Init, Db, File
  <2>2. CASE bin = NoFile /\ db = Blank
    BY <2>2, DbIsWhole DEF Init, File
  <2>3. QED
    BY <2>1, <2>2 DEF Init
<1>3. Types
  BY <1>1, <1>2 DEF Init, Types, FoundTypes, File, Stopped, RollbackCommands
<1>4. ApiStopped
  BY <1>1, <1>2, DbIsWhole DEF Init, ApiStopped, Stopped, RollbackCommands
<1>5. EnvKept /\ DbKept /\ BinKept
  BY DEF Init, EnvKept, DbKept, BinKept, Copied, Back, RollbackCommands
<1>6. EnvAlwaysStarts /\ OldWritesKept
  <2>1. Whole(db) /\ db.rows >= found.db.rows
    BY <1>2, DbIsWhole, BoundAssumption DEF Db
  <2>2. QED
    BY <1>1, <2>1 DEF EnvAlwaysStarts, OldWritesKept
<1>7. QED
  BY <1>3, <1>4, <1>5, <1>6 DEF IInv

--------------------------------------------------------------------------------
(* What the steps on the database and on api.env do.                       *)

\* A migration or a write finds a whole database, and leaves one with its rows.
LEMMA ApiWrites ==
  ASSUME IInv, Migrates \/ Write
  PROVE  /\ db \in Db /\ db' \in Db /\ Whole(db) /\ Whole(db')
         /\ db'.rows >= db.rows /\ api # "off"
         /\ UNCHANGED <<snapshot, script, bins, envs, api, found, confirmed, counts>>
         /\ wal' \subseteq Db
<1>1. Whole(db) /\ db \in Db /\ wal' = wal \cup {db} /\ wal \subseteq Db
  BY DbIsWhole DEF IInv, Types, FoundTypes, ApiStopped, Migrates, MayServe, Write, Commits
<1>2. CASE Migrates
  <2>1. bin \in Binary
    BY <1>2, BinaryIsWhole DEF IInv, Types, FoundTypes, Migrates, MayServe
  <2>2. db' = [db EXCEPT !.schema = Knows[bin]] /\ Knows[bin] \in Nat
    BY <1>2, <2>1, BinaryAssumption DEF Migrates, Commits
  <2>3. db' \in Db /\ db'.rows = db.rows
    BY <1>1, <2>2 DEF Db
  <2>4. db.rows \in Nat
    BY <1>1, BoundAssumption DEF Db
  <2>5. QED
    BY <1>1, <1>2, <2>3, <2>4, DbIsWhole DEF Migrates
<1>3. CASE Write
  <2>1. db' = [db EXCEPT !.rows = @ + 1] /\ db.rows < MaxWrites
    BY <1>3 DEF Write, Commits
  <2>2. db.rows \in 0..MaxWrites /\ db.schema \in Nat
    BY <1>1 DEF Db
  <2>3. db' = [rows |-> db.rows + 1, schema |-> db.schema]
    BY <1>1, <2>1 DEF Db
  <2>4. db.rows + 1 \in 0..MaxWrites /\ db.rows + 1 >= db.rows
    BY <2>1, <2>2, BoundAssumption
  <2>5. db' \in Db /\ db'.rows >= db.rows
    BY <2>2, <2>3, <2>4 DEF Db
  <2>6. QED
    BY <1>1, <1>3, <2>5, DbIsWhole DEF Write
<1>4. QED
  BY <1>2, <1>3

\* The power takes the database back to one it was before.
LEMMA PowerUndoes ==
  ASSUME IInv, PowerFails
  PROVE  /\ wal' \subseteq Db /\ (db' = db \/ db' \in Db) /\ FoundTypes'
         /\ found' = [bin |-> found.bin, env |-> found.env, db |-> found'.db,
                       cut |-> (found.cut \/ pc \in {"backDb", "copyDb"})]
         /\ found'.db = IF db' # db /\ db'.rows < found.db.rows THEN db' ELSE found.db
<1>1. wal \subseteq Db /\ (db' = db \/ db' \in wal) /\ wal' \subseteq wal
  BY DEF IInv, Types, FoundTypes, PowerFails, UndoesCommits
<1>2. found = [bin |-> found.bin, env |-> found.env, db |-> found.db, cut |-> found.cut]
  BY DEF IInv, Types, FoundTypes
<1>3. found' = [found EXCEPT
        !.db  = IF db' # db /\ db'.rows < @.rows THEN db' ELSE @,
        !.cut = @ \/ pc \in {"backDb", "copyDb"}]
  BY DEF PowerFails
<1>4. found' = [bin |-> found.bin, env |-> found.env,
                db  |-> IF db' # db /\ db'.rows < found.db.rows THEN db' ELSE found.db,
                cut |-> found.cut \/ pc \in {"backDb", "copyDb"}]
  BY <1>2, <1>3
<1>5. found.db \in Db /\ found.cut \in BOOLEAN
  BY DEF IInv, Types, FoundTypes
<1>6. found'.db \in Db /\ found'.cut \in BOOLEAN
  BY <1>1, <1>4, <1>5
<1>7. QED
  BY <1>1, <1>4, <1>6 DEF FoundTypes

\* The stop of the API notes what it stopped on.
LEMMA StopFinds ==
  ASSUME IInv, StopsApi
  PROVE  /\ found' = [bin |-> bin, env |-> found.env, db |-> found'.db,
                       cut |-> (found.cut /\ ~Whole(db))]
         /\ found'.db = IF Whole(db) THEN db ELSE found.db
         /\ FoundTypes'
<1>1. found = [bin |-> found.bin, env |-> found.env, db |-> found.db, cut |-> found.cut]
      /\ found.db \in Db /\ (Whole(db) => db \in Db)
  BY DbIsWhole DEF IInv, Types, FoundTypes
<1>2. found' = [found EXCEPT !.bin = bin, !.db = IF Whole(db) THEN db ELSE @,
                              !.cut = @ /\ ~Whole(db)]
  BY DEF StopsApi, FindsDb
<1>3. found' = [bin |-> bin, env |-> found.env, db |-> IF Whole(db) THEN db ELSE found.db,
                cut |-> found.cut /\ ~Whole(db)]
  BY <1>1, <1>2
<1>4. found.cut \in BOOLEAN
  BY DEF IInv, Types, FoundTypes
<1>5. found'.db \in Db /\ found'.cut \in BOOLEAN
  BY <1>1, <1>3, <1>4
<1>6. QED
  BY <1>3, <1>5 DEF FoundTypes

\* Only a key that was checked is written, and api.env is whole before and after.
LEMMA KeyWrites ==
  ASSUME IInv, WritesKey
  PROVE  /\ env' = env \/ (EnvReads(env') /\ Whole(env'))
         /\ arg' \in [key : Key \cup {NoKey}, stored : BOOLEAN]
         /\ arg'.key = NoKey \/ IsApiKey(arg'.key)
<1>1. /\ arg \in [key : Key \cup {NoKey}, stored : BOOLEAN]
      /\ arg.key # NoKey /\ IsApiKey(arg.key) /\ arg.key \in Key
  BY DEF IInv, Types, FoundTypes, EnvKept, WritesKey
<1>2. CASE env' = EnvOf(arg.key) /\ arg' = [arg EXCEPT !.stored = TRUE]
  <2>1. EnvReads(env') /\ Whole(env')
    BY <1>1, <1>2, KeyStarts
  <2>2. arg' = [key |-> arg.key, stored |-> TRUE]
    BY <1>1, <1>2
  <2>3. QED
    BY <1>1, <2>1, <2>2
<1>3. CASE env' = env /\ Fails
  BY <1>3 DEF Fails
<1>4. QED
  BY <1>2, <1>3 DEF WritesKey

\* When the wait is over without an answer, the api.env that comes back is whole and,
\* after a deploy that succeeded, one the API starts from.
LEMMA KeyRestored ==
  ASSUME IInv, RollsBack \/ GivesUp
  PROVE  Whole(env') /\ EnvAlwaysStarts'
<1>1. pc = "wait" /\ RestoresEnv /\ confirmed' = confirmed
  BY DEF RollsBack, GivesUp
<1>2. CASE arg.stored = TRUE
  <2>1. env' = envPrev
    BY <1>1, <1>2 DEF RestoresEnv
  <2>2. Whole(envPrev) /\ (confirmed = TRUE => EnvReads(envPrev))
    BY <1>1, <1>2 DEF IInv, EnvKept, Copied
  <2>3. confirmed \in BOOLEAN
    BY DEF IInv, Types, FoundTypes
  <2>4. QED
    BY <1>1, <2>1, <2>2, <2>3 DEF EnvAlwaysStarts
<1>3. CASE arg.stored = FALSE
  <2>1. env' = env
    BY <1>1, <1>3 DEF RestoresEnv, envs
  <2>2. Whole(env) /\ EnvAlwaysStarts
    BY DEF IInv, Types, FoundTypes
  <2>3. QED
    BY <1>1, <2>1, <2>2 DEF EnvAlwaysStarts
<1>4. QED
  BY <1>2, <1>3 DEF IInv, Types, FoundTypes

--------------------------------------------------------------------------------
(* Every step keeps every part.                                            *)

ArgTypes == /\ arg \in [key : Key \cup {NoKey}, stored : BOOLEAN]
            /\ arg.key = NoKey \/ IsApiKey(arg.key)

\* A script that goes on keeps its arguments, one that ends has none.
LEMMA ArgStep ==
  ASSUME Types, arg' = arg \/ Fails
  PROVE  ArgTypes'
<1>1. CASE arg' = arg
  BY <1>1 DEF Types, ArgTypes
<1>2. CASE Fails
  BY <1>2 DEF Fails, ArgTypes
<1>3. QED
  BY <1>1, <1>2

LEMMA TypesStep == IInv /\ [Next]_vars => Types'
<1>  SUFFICES ASSUME IInv, [Next]_vars
              PROVE  Types'
  OBVIOUS
<1>  USE DEF vars, script, bins, envs, data, counts
<1>1. CASE Migrates \/ Write
  <2>1. db' \in Db \cup {NoFile, Torn} /\ wal' \subseteq Db
    BY <1>1, ApiWrites
  <2>2. UNCHANGED <<snapshot, script, bins, envs, api, found, confirmed, counts>>
    BY <1>1 DEF Migrates, Write
  <2>3. QED
    BY <2>1, <2>2 DEF IInv, Types, FoundTypes, Whole, IsApiKey
<1>2. CASE Checkpoint
  <2>1. wal' = {} /\ UNCHANGED <<db, snapshot, script, bins, envs, api, found, confirmed>>
    BY <1>2 DEF Checkpoint
  <2>2. pc' = pc /\ arg' = arg /\ Types
    BY <2>1 DEF IInv
  <2>3. QED
    BY <2>1, <2>2 DEF Types, FoundTypes
<1>3. CASE Serves \/ Dies
  <2>1. /\ api' \in {"starting", "ready"} /\ pc' = pc /\ arg' = arg
        /\ UNCHANGED <<bins, envs, data, found, confirmed>>
    BY <1>3 DEF Serves, Dies
  <2>2. QED
    BY <2>1 DEF IInv, Types, FoundTypes
<1>4. CASE \E b \in Binary : Upload(b)
  BY <1>4 DEF IInv, Types, FoundTypes, Upload
<1>5. ASSUME NEW key \in Key \cup {NoKey}, Begin(key)
      PROVE  Types'
  <2>1. /\ pc' \in {"idle", "stage"}
        /\ arg' \in [key : Key \cup {NoKey}, stored : BOOLEAN]
        /\ arg'.key = NoKey \/ IsApiKey(arg'.key)
    <3>1. CASE pc' = "stage" /\ arg' = [key |-> key, stored |-> FALSE]
               /\ (key = NoKey \/ TakesKey(key))
      BY <3>1 DEF TakesKey, IsApiKey
    <3>2. CASE Fails
      BY <3>2 DEF Fails
    <3>3. QED
      BY <1>5, <3>1, <3>2 DEF Begin
  <2>2. UNCHANGED <<bins, envs, data, api, confirmed>> /\ found' = [found EXCEPT !.env = env]
    BY <1>5 DEF Begin
  <2>3. /\ found'.db = found.db /\ found'.cut = found.cut
        /\ found' = [bin |-> found'.bin, env |-> found'.env, db |-> found'.db,
                      cut |-> found'.cut]
    BY <2>2 DEF IInv, Types, FoundTypes
  <2>4. QED
    BY <2>1, <2>2, <2>3 DEF IInv, Types, FoundTypes
<1>6. CASE StageUpload
  <2>1. /\ pc' \in {"key", "idle"} /\ upload' \in {upload, NoFile}
        /\ staged' \in {staged, upload} /\ (arg' = arg \/ Fails)
        /\ UNCHANGED <<bin, prev, envs, data, api, found, confirmed>>
    BY <1>6 DEF StageUpload, Fails
  <2>2. ArgTypes'
    BY <2>1, ArgStep DEF IInv
  <2>3. QED
    BY <2>1, <2>2 DEF IInv, Types, FoundTypes, ArgTypes, File
<1>7. CASE KeepsKey \/ CopiesEnv \/ EndsSnapshot
  BY <1>7, DbIsWhole DEF IInv, Types, FoundTypes, KeepsKey, CopiesEnv, EndsSnapshot, Stopped,
     RollbackCommands
<1>8. CASE WritesKey
  <2>1. /\ pc' \in {"stop", "idle"}
        /\ UNCHANGED <<bins, envPrev, data, api, found, confirmed>>
    BY <1>8 DEF WritesKey, Fails
  <2>2. Whole(env')
    BY <1>8, KeyWrites DEF IInv, Types, FoundTypes
  <2>3. QED
    BY <1>8, <2>1, <2>2, KeyWrites DEF IInv, Types, FoundTypes
<1>9. CASE BeginsSnapshot
  <2>1. /\ pc' \in {"copySnapshot", "idle"} /\ snapshot' \in {Torn, snapshot}
        /\ arg' = arg \/ Fails
        /\ UNCHANGED <<db, wal, bins, envs, api, found, confirmed>>
    BY <1>9 DEF BeginsSnapshot, Fails
  <2>2. ArgTypes'
    BY <2>1, ArgStep DEF IInv
  <2>3. QED
    BY <2>1, <2>2 DEF IInv, Types, FoundTypes, ArgTypes, Stopped, RollbackCommands
<1>10. CASE KeepsBinary \/ SwapsBinary \/ PutsBinaryBack
  <2>1. /\ pc' \in Stopped /\ prev' \in {prev, bin, Torn} /\ bin' \in {bin, prev, staged, Torn}
        /\ staged' \in {staged, NoFile}
        /\ UNCHANGED <<arg, upload, envs, data, api, found, confirmed>>
    BY <1>10 DEF KeepsBinary, SwapsBinary, PutsBinaryBack, Stopped, RollbackCommands
  <2>2. QED
    BY <2>1 DEF IInv, Types, FoundTypes, File
<1>11. CASE StartsApi("start", "wait") \/ StartsApi("startBack", "waitBack")
  BY <1>11 DEF IInv, Types, FoundTypes, StartsApi, Stopped, RollbackCommands
<1>12. CASE SeesReady \/ RollbackLost
  <2>1. /\ pc' = "idle" /\ Fails /\ confirmed' \in {confirmed, TRUE, FALSE}
        /\ UNCHANGED <<bins, envs, data, api, found>>
    BY <1>12 DEF SeesReady, RollbackLost, Fails
  <2>2. QED
    BY <2>1, ArgStep DEF IInv, Types, FoundTypes, ArgTypes
<1>13. CASE RollsBack \/ GivesUp
  <2>1. /\ pc' \in {"backBinary", "idle"} /\ api' = "off" /\ (arg' = arg \/ Fails)
        /\ UNCHANGED <<bins, data, found, confirmed>>
    BY <1>13 DEF RollsBack, GivesUp, Fails
  <2>2. ArgTypes'
    BY <2>1, ArgStep DEF IInv
  <2>3. QED
    BY <1>13, <2>1, <2>2, KeyRestored DEF IInv, Types, FoundTypes, ArgTypes, Stopped,
       RollbackCommands
<1>14. CASE RemovesWal
  <2>1. db' \in Db \cup {NoFile, Torn}
    BY <1>14 DEF IInv, Types, FoundTypes, RemovesWal
  <2>2. /\ wal' = {} /\ pc' = "backDb"
        /\ UNCHANGED <<arg, bins, envs, snapshot, api, found, confirmed>>
    BY <1>14 DEF RemovesWal
  <2>3. QED
    BY <2>1, <2>2 DEF IInv, Types, FoundTypes, Stopped, RollbackCommands
<1>15. CASE PutsDbBack
  <2>1. /\ db' \in {Torn, Blank, snapshot} /\ pc' \in {"copyDb", "startBack"}
        /\ UNCHANGED <<wal, snapshot, arg, bins, envs, api, found, confirmed>>
    BY <1>15 DEF PutsDbBack, Cut
  <2>2. QED
    BY <2>1, DbIsWhole DEF IInv, Types, FoundTypes, Stopped, RollbackCommands
<1>16. CASE StopsApi
  <2>1. /\ pc' = "snapshot" /\ api' = "off"
        /\ UNCHANGED <<arg, bins, envs, data, confirmed>>
    BY <1>16 DEF StopsApi
  <2>2. FoundTypes'
    BY <1>16, StopFinds
  <2>3. QED
    BY <2>1, <2>2 DEF IInv, Types, FoundTypes, Stopped, RollbackCommands
<1>17. CASE PowerFails
  <2>1. /\ api' = "starting" /\ pc' = "idle" /\ Fails
        /\ UNCHANGED <<bins, envs, snapshot, confirmed>>
    BY <1>17 DEF PowerFails, Fails
  <2>2. /\ wal' \subseteq Db /\ db' \in Db \cup {NoFile, Torn} /\ FoundTypes'
    BY <1>17, PowerUndoes DEF IInv, Types, FoundTypes
  <2>3. ArgTypes'
    BY <2>1, ArgStep DEF IInv
  <2>4. QED
    BY <2>1, <2>2, <2>3 DEF IInv, Types, FoundTypes, ArgTypes
<1>18. CASE UNCHANGED vars
  BY <1>18 DEF IInv, Types, FoundTypes
<1>19. QED
  BY <1>1, <1>2, <1>3, <1>4, <1>5, <1>6, <1>7, <1>8, <1>9, <1>10, <1>11, <1>12, <1>13,
     <1>14, <1>15, <1>16, <1>17, <1>18 DEF Next

LEMMA ApiStoppedStep == IInv /\ [Next]_vars => ApiStopped'
<1>  SUFFICES ASSUME IInv, [Next]_vars
              PROVE  ApiStopped'
  OBVIOUS
<1>  USE DEF vars, script, bins, envs, data, counts
<1>1. CASE Migrates \/ Write
  <2>1. Whole(db') /\ api # "off" /\ UNCHANGED <<pc, api, env>>
    BY <1>1, ApiWrites
  <2>2. QED
    BY <2>1 DEF IInv, ApiStopped, EnvReads, Whole
<1>2. CASE Serves
  <2>1. Whole(db) /\ EnvReads(env) /\ api = "starting" /\ UNCHANGED <<pc, db, env>>
    BY <1>2 DEF Serves, MayServe
  <2>2. QED
    BY <2>1 DEF IInv, ApiStopped, EnvReads, Whole
<1>3. CASE Checkpoint \/ Dies \/ StopsApi \/ PowerFails
  BY <1>3 DEF IInv, ApiStopped, Checkpoint, Dies, StopsApi, PowerFails, Fails, Stopped,
     RollbackCommands
<1>4. CASE WritesKey
  <2>1. pc' \in {"stop", "idle"} /\ UNCHANGED <<api, db>>
    BY <1>4 DEF WritesKey, Fails
  <2>2. EnvReads(env) => EnvReads(env')
    BY <1>4, KeyWrites
  <2>3. QED
    BY <2>1, <2>2 DEF IInv, ApiStopped, RollbackCommands, Stopped, Whole
<1>5. CASE \/ \E b \in Binary : Upload(b)
           \/ \E key \in Key \cup {NoKey} : Begin(key)
           \/ StageUpload \/ KeepsKey \/ CopiesEnv \/ SeesReady \/ RollbackLost
  <2>1. pc' \in {pc, "idle", "stage", "key", "copyEnv", "writeKey", "stop"}
        /\ UNCHANGED <<api, db, env>>
    BY <1>5 DEF Upload, Begin, StageUpload, KeepsKey, CopiesEnv, SeesReady, RollbackLost, Fails
  <2>2. QED
    BY <2>1 DEF IInv, ApiStopped, Stopped, RollbackCommands
<1>6. CASE \/ BeginsSnapshot \/ EndsSnapshot \/ KeepsBinary \/ SwapsBinary
           \/ PutsBinaryBack \/ RemovesWal \/ PutsDbBack
  <2>1. pc \in Stopped \ {"wait", "waitBack"} /\ api' = api
    BY <1>6 DEF BeginsSnapshot, EndsSnapshot, KeepsBinary, SwapsBinary, PutsBinaryBack,
                RemovesWal, PutsDbBack, Stopped, RollbackCommands
  <2>2. QED
    BY <2>1 DEF IInv, ApiStopped
<1>7. CASE RollsBack \/ GivesUp
  BY <1>7 DEF ApiStopped, RollsBack, GivesUp
<1>8. CASE StartsApi("start", "wait") \/ StartsApi("startBack", "waitBack")
  BY <1>8 DEF IInv, ApiStopped, StartsApi, Stopped, RollbackCommands
<1>9. CASE UNCHANGED vars
  BY <1>9 DEF IInv, ApiStopped
<1>10. QED
  BY <1>1, <1>2, <1>3, <1>4, <1>5, <1>6, <1>7, <1>8, <1>9 DEF Next

LEMMA EnvKeptStep == IInv /\ [Next]_vars => EnvKept'
<1>  SUFFICES ASSUME IInv, [Next]_vars
              PROVE  EnvKept'
  OBVIOUS
<1>0. StopsApi => found'.env = found.env
  BY StopFinds
<1>  USE DEF IInv, EnvKept, Copied, Back, RollbackCommands, vars, script, bins, envs, data,
     counts
<1>1. CASE Migrates \/ Serves \/ Write \/ Checkpoint \/ Dies \/ (\E b \in Binary : Upload(b))
  BY <1>1 DEF Migrates, Serves, Write, Checkpoint, Dies, Upload
<1>2. CASE \E key \in Key \cup {NoKey} : Begin(key)
  BY <1>2 DEF Begin, Fails
<1>3. CASE StageUpload \/ KeepsKey
  BY <1>3 DEF StageUpload, KeepsKey, Fails
<1>4. CASE CopiesEnv
  BY <1>4 DEF CopiesEnv
<1>5. CASE WritesKey
  <2>1. /\ envPrev' = found.env /\ envPrev' = envPrev /\ found' = found
        /\ confirmed' = confirmed
        /\ Whole(envPrev) /\ (confirmed = TRUE => EnvReads(envPrev))
    BY <1>5 DEF WritesKey, Types, EnvAlwaysStarts
  <2>2. CASE pc' = "stop" /\ arg'.stored = TRUE
    <3>1. Whole(envPrev') /\ (confirmed' = TRUE => EnvReads(envPrev'))
      BY <2>1 DEF Whole, EnvReads
    <3>2. QED
      BY <2>1, <2>2, <3>1
  <2>3. CASE Fails
    BY <2>3 DEF Fails
  <2>4. QED
    BY <1>5, <2>2, <2>3 DEF WritesKey, Types
<1>6. CASE StopsApi
  BY <1>0, <1>6 DEF StopsApi
<1>7. CASE BeginsSnapshot \/ EndsSnapshot \/ KeepsBinary \/ SwapsBinary
  BY <1>7 DEF BeginsSnapshot, EndsSnapshot, KeepsBinary, SwapsBinary, Fails
<1>8. CASE StartsApi("start", "wait") \/ StartsApi("startBack", "waitBack")
  BY <1>8 DEF StartsApi
<1>9. CASE SeesReady \/ GivesUp \/ RollbackLost \/ PowerFails
  BY <1>9 DEF SeesReady, GivesUp, RollbackLost, PowerFails, Fails
<1>10. CASE RollsBack
  BY <1>10 DEF RollsBack, RestoresEnv, Types
<1>11. CASE PutsBinaryBack \/ RemovesWal \/ PutsDbBack
  BY <1>11 DEF PutsBinaryBack, RemovesWal, PutsDbBack
<1>12. CASE UNCHANGED vars
  BY <1>12 
<1>13. QED
  BY <1>1, <1>2, <1>3, <1>4, <1>5, <1>6, <1>7, <1>8, <1>9, <1>10, <1>11, <1>12 DEF Next

LEMMA DbKeptStep == IInv /\ [Next]_vars => DbKept'
<1>  SUFFICES ASSUME IInv, [Next]_vars
              PROVE  DbKept'
  OBVIOUS
<1>  USE DEF IInv, DbKept, Copied, Back, RollbackCommands, vars, script, bins, envs, data,
     counts
<1>1. CASE Migrates \/ Write
  <2>1. /\ pc \notin Stopped \ {"wait", "waitBack"}
        /\ UNCHANGED <<pc, found, snapshot>>
    BY <1>1, ApiWrites DEF ApiStopped
  <2>2. QED
    BY <2>1 DEF Stopped, RollbackCommands
<1>2. CASE Serves \/ Dies \/ (\E b \in Binary : Upload(b))
  BY <1>2 DEF Serves, Dies, Upload
<1>3. CASE Checkpoint
  BY <1>3 DEF Checkpoint
<1>4. CASE \/ \E key \in Key \cup {NoKey} : Begin(key)
           \/ StageUpload \/ KeepsKey \/ CopiesEnv \/ WritesKey
           \/ SeesReady \/ GivesUp \/ RollbackLost \/ PowerFails
  <2>1. pc' \in {"idle", "stage", "key", "copyEnv", "writeKey", "stop"}
    BY <1>4 DEF Begin, StageUpload, KeepsKey, CopiesEnv, WritesKey, SeesReady, GivesUp,
                RollbackLost, PowerFails, Fails
  <2>2. QED
    BY <2>1
<1>5. CASE StopsApi
  <2>1. found'.db = IF Whole(db) THEN db ELSE found.db
    BY <1>5, StopFinds
  <2>2. QED
    BY <1>5, <2>1 DEF StopsApi, Whole
<1>6. CASE BeginsSnapshot
  BY <1>6 DEF BeginsSnapshot, Fails
<1>7. CASE EndsSnapshot
  BY <1>7 DEF EndsSnapshot
<1>8. CASE KeepsBinary \/ SwapsBinary \/ PutsBinaryBack
  BY <1>8 DEF KeepsBinary, SwapsBinary, PutsBinaryBack
<1>9. CASE StartsApi("start", "wait") \/ StartsApi("startBack", "waitBack") \/ RollsBack
  BY <1>9 DEF StartsApi, RollsBack
<1>10. CASE RemovesWal
  BY <1>10 DEF RemovesWal
<1>11. CASE PutsDbBack
  BY <1>11 DEF PutsDbBack
<1>12. CASE UNCHANGED vars
  BY <1>12
<1>13. QED
  BY <1>1, <1>2, <1>3, <1>4, <1>5, <1>6, <1>7, <1>8, <1>9, <1>10, <1>11, <1>12 DEF Next

LEMMA BinKeptStep == IInv /\ [Next]_vars => BinKept'
<1>  SUFFICES ASSUME IInv, [Next]_vars
              PROVE  BinKept'
  OBVIOUS
<1>  USE DEF IInv, BinKept, Copied, Back, RollbackCommands, vars, script, bins, envs, data,
     counts
<1>1. CASE \/ Migrates \/ Serves \/ Write \/ Checkpoint \/ Dies
           \/ \E b \in Binary : Upload(b)
  BY <1>1 DEF Migrates, Serves, Write, Checkpoint, Dies, Upload
<1>2. CASE \/ \E key \in Key \cup {NoKey} : Begin(key)
           \/ SeesReady \/ GivesUp \/ RollbackLost \/ PowerFails
  <2>1. pc' \in {"idle", "stage"}
    BY <1>2 DEF Begin, SeesReady, GivesUp, RollbackLost, PowerFails, Fails
  <2>2. QED
    BY <2>1
<1>3. CASE StageUpload
  BY <1>3 DEF StageUpload, Fails, Types
<1>4. CASE KeepsKey \/ CopiesEnv \/ WritesKey
  BY <1>4 DEF KeepsKey, CopiesEnv, WritesKey, Fails
<1>5. CASE StopsApi
  <2>1. found'.bin = bin
    BY <1>5, StopFinds
  <2>2. QED
    BY <1>5, <2>1 DEF StopsApi
<1>6. CASE BeginsSnapshot \/ EndsSnapshot
  BY <1>6 DEF BeginsSnapshot, EndsSnapshot, Fails
<1>7. CASE KeepsBinary
  BY <1>7 DEF KeepsBinary
<1>8. CASE SwapsBinary
  BY <1>8 DEF SwapsBinary
<1>9. CASE StartsApi("start", "wait") \/ StartsApi("startBack", "waitBack") \/ RollsBack
  BY <1>9 DEF StartsApi, RollsBack
<1>10. CASE PutsBinaryBack
  BY <1>10 DEF PutsBinaryBack
<1>11. CASE RemovesWal \/ PutsDbBack
  BY <1>11 DEF RemovesWal, PutsDbBack
<1>12. CASE UNCHANGED vars
  BY <1>12
<1>13. QED
  BY <1>1, <1>2, <1>3, <1>4, <1>5, <1>6, <1>7, <1>8, <1>9, <1>10, <1>11, <1>12 DEF Next

LEMMA EnvAlwaysStartsStep == IInv /\ [Next]_vars => EnvAlwaysStarts'
<1>  SUFFICES ASSUME IInv, [Next]_vars
              PROVE  EnvAlwaysStarts'
  OBVIOUS
<1>1. CASE UNCHANGED <<env, confirmed>>
  BY <1>1 DEF IInv, EnvAlwaysStarts, EnvReads, Whole
<1>2. CASE WritesKey
  <2>1. confirmed' = confirmed
    BY <1>2 DEF WritesKey
  <2>2. QED
    BY <1>2, <2>1, KeyWrites DEF IInv, EnvAlwaysStarts
<1>3. CASE SeesReady
  <2>1. api = "ready" /\ env' = env
    BY <1>3 DEF SeesReady, envs
  <2>2. EnvReads(env)
    BY <2>1 DEF IInv, ApiStopped
  <2>3. QED
    BY <2>1, <2>2 DEF EnvAlwaysStarts
<1>4. CASE RollsBack \/ GivesUp
  BY <1>4, KeyRestored
<1>5. CASE ~(WritesKey \/ SeesReady \/ RollsBack \/ GivesUp)
  BY <1>1, <1>5 DEF Next, vars, script, bins, envs, data, counts, Migrates, Serves, Write,
     Checkpoint, Dies, Upload, Begin, StageUpload, KeepsKey, CopiesEnv, StopsApi,
     BeginsSnapshot, EndsSnapshot, KeepsBinary, SwapsBinary, StartsApi, PutsBinaryBack,
     RemovesWal, PutsDbBack, RollbackLost, PowerFails
<1>6. QED
  BY <1>2, <1>3, <1>4, <1>5

LEMMA OldWritesKeptStep == IInv /\ [Next]_vars => OldWritesKept'
<1>  SUFFICES ASSUME IInv, [Next]_vars
              PROVE  OldWritesKept'
  OBVIOUS
<1>  DEFINE Holds(file, rows) == Whole(file) /\ file.rows >= rows
            Moving == {"backDb", "copyDb"}
            n == found.db.rows
<1>1. \A d \in Db : Whole(d) /\ d.rows \in Nat
  BY DbIsWhole, BoundAssumption DEF Db
<1>2. found.db \in Db /\ n \in Nat /\ Holds(found.db, n) /\ found.cut \in BOOLEAN
  BY <1>1 DEF IInv, Types, FoundTypes
<1>3. /\ Holds(db, n) \/ Holds(snapshot, n)
      /\ found.cut = TRUE \/ pc \in Moving \/ Holds(db, n)
  BY <1>2 DEF IInv, OldWritesKept
\* What has to be shown when the deploy still finds the same.
<1>4. ASSUME found'.db = found.db, found'.cut = found.cut,
             Holds(db', n) \/ Holds(snapshot', n),
             found.cut = TRUE \/ pc' \in Moving \/ Holds(db', n)
      PROVE  OldWritesKept'
  BY <1>4 DEF OldWritesKept, Whole
<1>5. ASSUME UNCHANGED <<db, snapshot>>, found'.db = found.db, found'.cut = found.cut,
             pc' = pc \/ pc \notin Moving
      PROVE  OldWritesKept'
  BY <1>3, <1>4, <1>5
<1>6. CASE Migrates \/ Write
  <2>1. /\ db \in Db /\ db' \in Db /\ Whole(db') /\ db'.rows >= db.rows
        /\ snapshot' = snapshot /\ found' = found /\ pc' = pc
    BY <1>6, ApiWrites DEF script
  <2>2. db.rows \in Nat /\ db'.rows \in Nat
    BY <2>1, <1>1
  <2>3. Holds(db, n) => Holds(db', n)
    BY <2>1, <2>2, <1>2
  <2>  HIDE DEF Holds, n
  <2>4. QED
    BY <1>3, <1>4, <2>1, <2>3
<1>7. CASE StopsApi
  <2>1. /\ found'.db = IF Whole(db) THEN db ELSE found.db
        /\ found'.cut = (found.cut /\ ~Whole(db))
        /\ db' = db /\ snapshot' = snapshot /\ pc \notin Moving
    BY <1>7, StopFinds DEF StopsApi, data
  <2>2. CASE Whole(db)
    <3>1. db.rows \in Nat
      BY <2>2, <1>1, DbIsWhole DEF IInv, Types, FoundTypes
    <3>2. db.rows >= db.rows
      BY <3>1
    <3>3. QED
      BY <2>1, <2>2, <3>2 DEF OldWritesKept, Whole
  <2>3. CASE ~Whole(db)
    <3>1. found'.db = found.db /\ found'.cut = found.cut
      BY <1>2, <2>1, <2>3
    <3>2. QED
      BY <2>1, <3>1, <1>5
  <2>4. QED
    BY <2>2, <2>3
<1>8. CASE BeginsSnapshot
  <2>1. found' = found /\ db' = db /\ (snapshot' = snapshot \/ (pc = "snapshot" /\ Whole(db)))
        /\ pc \notin Moving
    BY <1>8 DEF BeginsSnapshot
  <2>2. CASE pc = "snapshot" /\ Whole(db)
    <3>1. db = found.db
      BY <2>2 DEF IInv, DbKept
    <3>2. QED
      BY <1>2, <1>4, <2>1, <3>1
  <2>3. CASE snapshot' = snapshot
    BY <2>1, <2>3, <1>5
  <2>4. QED
    BY <2>1, <2>2, <2>3
<1>9. CASE EndsSnapshot
  <2>1. db = found.db /\ db' = db /\ found' = found
    BY <1>9 DEF EndsSnapshot, IInv, DbKept
  <2>2. QED
    BY <1>2, <1>4, <2>1
<1>10. CASE RemovesWal \/ PutsDbBack
  <2>1. /\ pc \in Back /\ snapshot' = snapshot /\ found' = found
        /\ pc' \in Moving \/ (db' = snapshot /\ snapshot = found.db)
    BY <1>10 DEF RemovesWal, PutsDbBack, Back, RollbackCommands, IInv, DbKept
  <2>2. snapshot = found.db
    BY <2>1 DEF IInv, DbKept
  <2>3. QED
    BY <2>1, <2>2, <1>2, <1>4
<1>11. CASE PowerFails
  <2>1. /\ found'.db = IF db' # db /\ db'.rows < n THEN db' ELSE found.db
        /\ found'.cut = (found.cut \/ pc \in Moving)
        /\ db' = db \/ db' \in Db
        /\ snapshot' = snapshot
    BY <1>11, PowerUndoes DEF PowerFails
  <2>2. CASE db' # db
    <3>1. db' \in Db /\ Whole(db') /\ db'.rows \in Nat
      BY <1>1, <2>1, <2>2
    <3>2. db'.rows >= found'.db.rows
      BY <1>2, <2>1, <2>2, <3>1
    <3>3. QED
      BY <3>1, <3>2 DEF OldWritesKept, Whole
  <2>3. CASE db' = db
    <3>1. found'.db = found.db
      BY <2>1, <2>3
    <3>2. QED
      BY <1>3, <2>1, <2>3, <3>1 DEF OldWritesKept, Whole
  <2>4. QED
    BY <2>2, <2>3
<1>12. CASE \E key \in Key \cup {NoKey} : Begin(key)
  <2>1. /\ found' = [found EXCEPT !.env = env] /\ UNCHANGED <<db, snapshot>>
        /\ pc \notin Moving
    BY <1>12 DEF Begin, data
  <2>2. found'.db = found.db /\ found'.cut = found.cut
    BY <2>1 DEF IInv, Types, FoundTypes
  <2>3. QED
    BY <2>1, <2>2, <1>5
<1>13. CASE ~(\/ Migrates \/ Write \/ StopsApi \/ BeginsSnapshot \/ EndsSnapshot
              \/ RemovesWal \/ PutsDbBack \/ PowerFails
              \/ \E key \in Key \cup {NoKey} : Begin(key))
  <2>1. /\ UNCHANGED <<db, snapshot, found>>
        /\ pc' = pc \/ pc \notin Moving
    BY <1>13 DEF Next, vars, script, bins, envs, data, counts, Serves, Checkpoint, Dies,
       Upload, StageUpload, KeepsKey, CopiesEnv, WritesKey, KeepsBinary, SwapsBinary,
       StartsApi, SeesReady, RollsBack, GivesUp, PutsBinaryBack, RollbackLost
  <2>2. QED
    BY <2>1, <1>5
<1>14. QED
  BY <1>6, <1>7, <1>8, <1>9, <1>10, <1>11, <1>12, <1>13

--------------------------------------------------------------------------------
(* What holds of every deploy.                                             *)

LEMMA Invariant == Spec => []IInv
<1>1. IInv /\ [Next]_vars => IInv'
  BY TypesStep, ApiStoppedStep, EnvKeptStep, DbKeptStep, BinKeptStep, EnvAlwaysStartsStep,
     OldWritesKeptStep DEF IInv
<1>2. QED
  BY <1>1, InitSound, PTL DEF Spec

\* The files the script reads are there when it reads them: the upload it installs
\* (stage_upload) and the api.env that takes the key back (restore_api_env).
THEOREM TypeCorrect == Spec => []TypeOK
<1>1. IInv => TypeOK
  <2>  SUFFICES ASSUME IInv
                PROVE  TypeOK
    OBVIOUS
  <2>1. arg.stored = TRUE => Whole(envPrev) \/ env = found.env
    BY DEF IInv, Types, FoundTypes, EnvKept, Stopped, RollbackCommands, Copied, Back
  <2>2. arg.stored \in BOOLEAN
    BY DEF IInv, Types, FoundTypes
  <2>3. pc = "copyBinary" => staged \in Binary
    BY DEF IInv, BinKept
  <2>4. QED
    BY <2>1, <2>2, <2>3 DEF IInv, Types, FoundTypes, TypeOK, File
<1>2. QED
  BY <1>1, Invariant, PTL

\* roll_back: binary, database and api.env are what the deploy found when it had
\* stopped the API, whatever the new binary migrated, wrote or left in the WAL.
THEOREM RollbackGivesBack == Spec => []RollbackRestores
<1>1. IInv => RollbackRestores
  BY DEF IInv, BinKept, DbKept, EnvKept, Back, RollbackCommands, RollbackRestores
<1>2. QED
  BY <1>1, Invariant, PTL

\* store_api_key and restore_api_env: after the first deploy that succeeded, the API
\* starts from api.env at every moment, also one at which the power fails.
THEOREM EnvStartsTheApi == Spec => []EnvAlwaysStarts
<1>1. IInv => EnvAlwaysStarts
  BY DEF IInv
<1>2. QED
  BY <1>1, Invariant, PTL

\* swap_binary and roll_back: from the stop of the API on, what the old binary had written
\* and the disk had kept is in the database or in the snapshot, in the middle of every
\* copy too, and in the database but for the last copy of a rollback.  After a power
\* failure in the middle of that copy the snapshot alone holds it, and the next deploy
\* takes what the database is then for what it found: OldWritesServed fails there.
THEOREM NoWriteIsLost == Spec => []OldWritesKept
<1>1. IInv => OldWritesKept
  BY DEF IInv
<1>2. QED
  BY <1>1, Invariant, PTL
================================================================================
