-------------------------------- MODULE Deploy ---------------------------------
(***************************************************************************)
(* deploy/bunker-deploy.sh, command by command, over the files of the box, *)
(* and the API that systemd keeps alive beside it (server.rs: run,         *)
(* config/env.rs, the migrations).  The power may fail between any two     *)
(* commands and in the middle of a copy; the box then boots and the API    *)
(* starts on what it finds.                                                *)
(*                                                                         *)
(* `install` makes its destination anew: two steps here, with a torn file, *)
(* or one of length zero, in between.  `mv` within a directory is one.     *)
(* What a command has written to its end is on the disk; what the API      *)
(* commits may not be (storage/db.rs).  Litestream, which follows the      *)
(* database, is left out but for its checkpoints.                          *)
(***************************************************************************)
EXTENDS Config

CONSTANTS
  Binary,      \* the binaries that CI builds
  Knows,       \* the last migration that is compiled into one
  Healthy,     \* those that answer /health/ready once they serve
  Key,         \* the keys that CI may send
  BoxKey,      \* the key of a box in service
  NoFile, Torn, NoKey,
  MaxUploads, MaxDeploys, MaxWrites, MaxCrashes  \* bounds

ASSUME BinaryAssumption == Knows \in [Binary -> Nat \ {0}] /\ Healthy \subseteq Binary
ASSUME BoundAssumption  == MaxWrites \in Nat
ASSUME KeyAssumption    == BoxKey \in Key /\ IsApiKey(BoxKey)

VARIABLES
  pc,         \* the next command of the script that holds the lock
  arg,        \* API_KEY and KEY_STORED of that script
  upload, staged, bin, prev,   \* files with a binary
  env, envPrev,                \* api.env and its copy
  db, wal, snapshot,           \* the database, the commits in its WAL, the copy
  api,        \* the unit: "off", "starting", "ready"
  found,      \* history: what the deploy found, and whether a rollback was cut off
  confirmed,  \* history: a deploy has reported a binary that is ready
  uploads, deploys, crashes    \* counters of the bounds

script == <<pc, arg>>
bins   == <<upload, staged, bin, prev>>
envs   == <<env, envPrev>>
data   == <<db, wal, snapshot>>
counts == <<uploads, deploys, crashes>>
vars   == <<script, bins, envs, data, api, found, confirmed, counts>>

Blank  == [rows |-> 0, schema |-> 0]
Db     == [rows : 0..MaxWrites, schema : Nat]
Whole(file) == file \notin {NoFile, Torn}

\* What an interrupted copy of a database leaves: a file that SQLite refuses, or one
\* of no length, which it takes for a new database.
Cut == {Torn, Blank}

EnvOf(key) == [name \in Names |-> CASE name = "APP_ENV" -> "prod"
                                    [] name = "API_KEY" -> key
                                    [] OTHER -> Fine]
EnvReads(file) == Whole(file) /\ ReadsEnv(file, TRUE)

\* A file that is missing or torn is told from every content.
ASSUME FileAssumption ==
  /\ NoFile \notin Binary /\ Torn \notin Binary
  /\ NoFile \notin [rows : Nat, schema : Nat] /\ Torn \notin [rows : Nat, schema : Nat]
  /\ \A key \in Key \cup {Absent} : EnvOf(key) \notin {NoFile, Torn}

\* A box in service, or one that bootstrap.sh has just made: no binary, an empty
\* database and an api.env without a key.
Init ==
  /\ pc = "idle" /\ arg = [key |-> NoKey, stored |-> FALSE]
  /\ upload = NoFile /\ staged = NoFile /\ prev = NoFile
  /\ envPrev = NoFile /\ snapshot = NoFile /\ wal = {}
  /\ \/ /\ bin \in Healthy /\ env = EnvOf(BoxKey)
        /\ db = [rows |-> 0, schema |-> Knows[bin]]
        /\ api = "ready" /\ confirmed = TRUE
     \/ /\ bin = NoFile /\ env = EnvOf(Absent) /\ db = Blank
        /\ api = "off" /\ confirmed = FALSE
  /\ found = [bin |-> bin, env |-> env, db |-> db, cut |-> FALSE]
  /\ uploads = 0 /\ deploys = 0 /\ crashes = 0

--------------------------------------------------------------------------------
(* The API.                                                                *)

\* run: the environment, the database, the migrations.  A database that holds a
\* migration the binary does not know is refused.
MayServe ==
  /\ Whole(bin) /\ EnvReads(env)
  /\ Whole(db) /\ db.schema <= Knows[bin]

\* A transaction goes to the WAL, which holds what the database was before each.
Commits(next) == db' = next /\ wal' = wal \cup {db}

Migrates ==
  /\ api = "starting" /\ MayServe
  /\ db.schema < Knows[bin]
  /\ Commits([db EXCEPT !.schema = Knows[bin]])
  /\ UNCHANGED <<snapshot, script, bins, envs, api, found, confirmed, counts>>

Serves ==
  /\ api = "starting" /\ MayServe
  /\ db.schema = Knows[bin] /\ bin \in Healthy
  /\ api' = "ready"
  /\ UNCHANGED <<script, bins, envs, data, found, confirmed, counts>>

\* A request writes and is answered.
Write ==
  /\ api = "ready" /\ db.rows < MaxWrites
  /\ Commits([db EXCEPT !.rows = @ + 1])
  /\ UNCHANGED <<snapshot, script, bins, envs, api, found, confirmed, counts>>

RollbackCommands == {"backBinary", "copyBack", "rmWal", "backDb", "copyDb", "startBack"}

\* By the API, by sqlite3 or by Litestream; roll_back has stopped them all.
Checkpoint ==
  /\ wal # {} /\ Whole(db) /\ pc \notin RollbackCommands
  /\ wal' = {}
  /\ UNCHANGED <<db, snapshot, script, bins, envs, api, found, confirmed, counts>>

\* The process dies and Restart=always starts it.
Dies ==
  /\ api = "ready" /\ crashes < MaxCrashes
  /\ api' = "starting" /\ crashes' = crashes + 1
  /\ UNCHANGED <<script, bins, envs, data, found, confirmed, uploads, deploys>>

--------------------------------------------------------------------------------
(* The script.                                                             *)

\* set -e, or fail: the script ends where it stands.
Fails == pc' = "idle" /\ arg' = [key |-> NoKey, stored |-> FALSE]

Upload(b) ==
  /\ uploads < MaxUploads
  /\ upload' = b /\ uploads' = uploads + 1
  /\ UNCHANGED <<script, staged, bin, prev, envs, data, api, found, confirmed, deploys, crashes>>

\* A bug: a key of any length is stored.
TakesAnyLength(key) == key \in Plain

\* read_api_key
TakesKey(key) == key \in Long \cap Plain

\* The lock, the checks on the box and the key on stdin.
Begin(key) ==
  /\ pc = "idle" /\ deploys < MaxDeploys
  /\ deploys' = deploys + 1
  /\ \/ /\ Whole(env) /\ db # NoFile
        /\ key = NoKey \/ TakesKey(key)
        /\ pc' = "stage" /\ arg' = [key |-> key, stored |-> FALSE]
     \/ /\ ~Whole(env) \/ db = NoFile \/ (key # NoKey /\ ~TakesKey(key))
        /\ Fails
  /\ found' = [found EXCEPT !.env = env]
  /\ UNCHANGED <<bins, envs, data, api, confirmed, uploads, crashes>>

\* stage_upload
StageUpload ==
  /\ pc = "stage"
  /\ \/ upload # NoFile /\ staged' = upload /\ upload' = NoFile /\ pc' = "key" /\ UNCHANGED arg
     \/ upload = NoFile /\ Fails /\ UNCHANGED <<upload, staged>>
  /\ UNCHANGED <<bin, prev, envs, data, api, found, confirmed, counts>>

\* store_api_key: the stored file stays when it holds the key already.
KeepsKey ==
  /\ pc = "key"
  /\ arg.key = NoKey \/ env["API_KEY"] = arg.key
  /\ pc' = "stop"
  /\ UNCHANGED <<arg, bins, envs, data, api, found, confirmed, counts>>

\* A bug: nothing is kept to go back to.
CopiesNoEnv ==
  /\ pc = "key"
  /\ arg.key # NoKey /\ env["API_KEY"] # arg.key
  /\ pc' = "writeKey"
  /\ UNCHANGED <<arg, bins, envs, data, api, found, confirmed, counts>>

CopiesEnv ==
  /\ \/ /\ pc = "key" /\ pc' = "copyEnv"
        /\ arg.key # NoKey /\ env["API_KEY"] # arg.key
        /\ envPrev' = Torn
     \/ pc = "copyEnv" /\ pc' = "writeKey" /\ envPrev' = env
  /\ UNCHANGED <<arg, bins, env, data, api, found, confirmed, counts>>

\* A bug: the new lines go into the file that is read.
WritesKeyInPlace ==
  /\ pc = "writeKey"
  /\ \/ env' = EnvOf(arg.key) /\ pc' = "stop" /\ arg' = [arg EXCEPT !.stored = TRUE]
     \/ env' = [env EXCEPT !["JWT_SECRET"] = Absent] /\ Fails
  /\ UNCHANGED <<bins, envPrev, data, api, found, confirmed, counts>>

\* A temporary file, checked and renamed; what goes wrong before the rename removes it.
WritesKey ==
  /\ pc = "writeKey"
  /\ \/ env' = EnvOf(arg.key) /\ pc' = "stop" /\ arg' = [arg EXCEPT !.stored = TRUE]
     \/ env' = env /\ Fails
  /\ UNCHANGED <<bins, envPrev, data, api, found, confirmed, counts>>

FindsDb ==
  found' = [found EXCEPT !.bin = bin, !.db = IF Whole(db) THEN db ELSE @,
                         !.cut = @ /\ ~Whole(db)]

\* A bug: the API serves on while its database is copied.
ServesOn ==
  /\ pc = "stop" /\ FindsDb
  /\ pc' = "snapshot"
  /\ UNCHANGED <<api, arg, bins, envs, data, confirmed, counts>>

\* swap_binary: systemctl stop.  The close of the last connection may leave a WAL,
\* since Litestream reads it.
StopsApi ==
  /\ pc = "stop" /\ FindsDb
  /\ api' = "off"
  /\ pc' = "snapshot"
  /\ UNCHANGED <<arg, bins, envs, data, confirmed, counts>>

\* A bug: the copy is begun whatever the database is.
BeginsSnapshotAnyway ==
  /\ pc = "snapshot"
  /\ snapshot' = Torn /\ pc' = "copySnapshot"
  /\ UNCHANGED <<db, wal, arg, bins, envs, api, found, confirmed, counts>>

\* sqlite3 .backup reads the database with its WAL, or fails and leaves the copy.
BeginsSnapshot ==
  /\ pc = "snapshot"
  /\ \/ Whole(db) /\ snapshot' = Torn /\ pc' = "copySnapshot" /\ UNCHANGED arg
     \/ Fails /\ UNCHANGED snapshot
  /\ UNCHANGED <<db, wal, bins, envs, api, found, confirmed, counts>>

EndsSnapshot ==
  /\ pc = "copySnapshot"
  /\ snapshot' = db /\ pc' = "keepBinary"
  /\ UNCHANGED <<db, wal, arg, bins, envs, api, found, confirmed, counts>>

\* install "$BIN" "$PREV"
KeepsBinary ==
  /\ \/ pc = "keepBinary" /\ bin = NoFile /\ pc' = "swapBinary" /\ UNCHANGED prev
     \/ pc = "keepBinary" /\ bin # NoFile /\ pc' = "copyPrev" /\ prev' = Torn
     \/ pc = "copyPrev" /\ pc' = "swapBinary" /\ prev' = bin
  /\ UNCHANGED <<arg, upload, staged, bin, envs, data, api, found, confirmed, counts>>

\* install the upload, rm it
SwapsBinary ==
  /\ \/ pc = "swapBinary" /\ pc' = "copyBinary" /\ bin' = Torn /\ UNCHANGED staged
     \/ pc = "copyBinary" /\ pc' = "start" /\ bin' = staged /\ staged' = NoFile
  /\ UNCHANGED <<arg, upload, prev, envs, data, api, found, confirmed, counts>>

StartsApi(from, to) ==
  /\ pc = from /\ pc' = to
  /\ api' = "starting"
  /\ UNCHANGED <<arg, bins, envs, data, found, confirmed, counts>>

\* wait_ready: it answers within the fifteen seconds.
SeesReady ==
  /\ pc \in {"wait", "waitBack"} /\ api = "ready"
  /\ Fails
  /\ confirmed' = (confirmed \/ pc = "wait")
  /\ UNCHANGED <<bins, envs, data, api, found, counts>>

\* restore_api_env
RestoresEnv ==
  IF arg.stored THEN env' = envPrev /\ envPrev' = NoFile ELSE UNCHANGED envs

\* It does not, or too late, and there is a binary to go back to: roll_back stops the
\* API and restores the key.
RollsBack ==
  /\ pc = "wait" /\ prev # NoFile
  /\ api' = "off" /\ RestoresEnv
  /\ pc' = "backBinary"
  /\ UNCHANGED <<arg, bins, data, found, confirmed, counts>>

GivesUp ==
  /\ pc = "wait" /\ prev = NoFile
  /\ api' = "off" /\ RestoresEnv
  /\ Fails
  /\ UNCHANGED <<bins, data, found, confirmed, counts>>

PutsBinaryBack ==
  /\ \/ pc = "backBinary" /\ pc' = "copyBack" /\ bin' = Torn
     \/ pc = "copyBack" /\ pc' = "rmWal" /\ bin' = prev
  /\ UNCHANGED <<arg, upload, staged, prev, envs, data, api, found, confirmed, counts>>

\* A bug: the WAL of the database that goes stays beside the one that comes.
KeepsWal ==
  /\ pc = "rmWal" /\ pc' = "backDb"
  /\ UNCHANGED <<arg, bins, envs, data, api, found, confirmed, counts>>

\* rm -rf "$DB-wal" "$DB-shm": what is left is the database before one of the commits,
\* or one of which a checkpoint wrote a part.
RemovesWal ==
  /\ pc = "rmWal" /\ pc' = "backDb"
  /\ db' \in {db} \cup IF wal = {} THEN {} ELSE wal \cup {Torn}
  /\ wal' = {}
  /\ UNCHANGED <<arg, bins, envs, snapshot, api, found, confirmed, counts>>

\* install "$SNAPSHOT" "$DB": a WAL beside it that is not its own spoils it.
PutsDbBack ==
  /\ \/ pc = "backDb" /\ pc' = "copyDb" /\ db' \in Cut
     \/ pc = "copyDb" /\ pc' = "startBack" /\ db' = IF wal = {} THEN snapshot ELSE Torn
  /\ UNCHANGED <<wal, snapshot, arg, bins, envs, api, found, confirmed, counts>>

\* The rollback did not answer either.
RollbackLost ==
  /\ pc = "waitBack"
  /\ Fails
  /\ UNCHANGED <<bins, envs, data, api, found, confirmed, counts>>

--------------------------------------------------------------------------------

\* "a power loss can undo the last commits" (connect): those in the WAL, from some
\* commit on.
UndoesCommits ==
  \/ UNCHANGED <<db, wal>>
  \/ /\ db' \in wal
     /\ wal' = {d \in wal \ {db'} : d.rows <= db'.rows /\ d.schema <= db'.schema}

\* The power fails: the script is gone, and the units start with the box.
PowerFails ==
  /\ crashes < MaxCrashes /\ crashes' = crashes + 1
  /\ Fails
  /\ api' = "starting"
  /\ UndoesCommits
  /\ found' = [found EXCEPT !.db  = IF db' # db /\ db'.rows < @.rows THEN db' ELSE @,
                            !.cut = @ \/ pc \in {"backDb", "copyDb"}]
  /\ UNCHANGED <<bins, envs, snapshot, confirmed, uploads, deploys>>

Next ==
  \/ Migrates \/ Serves \/ Write \/ Checkpoint \/ Dies
  \/ \E b \in Binary : Upload(b)
  \/ \E key \in Key \cup {NoKey} : Begin(key)
  \/ StageUpload \/ KeepsKey \/ CopiesEnv \/ WritesKey
  \/ StopsApi \/ BeginsSnapshot \/ EndsSnapshot \/ KeepsBinary \/ SwapsBinary
  \/ StartsApi("start", "wait") \/ SeesReady
  \/ RollsBack \/ GivesUp \/ PutsBinaryBack \/ RemovesWal \/ PutsDbBack
  \/ StartsApi("startBack", "waitBack") \/ RollbackLost
  \/ PowerFails

Spec == Init /\ [][Next]_vars

--------------------------------------------------------------------------------
(* Properties.                                                             *)

Stopped == {"snapshot", "copySnapshot", "keepBinary", "copyPrev", "swapBinary", "copyBinary",
            "start", "wait", "waitBack"} \cup RollbackCommands

\* Type invariant, with what a script that goes on can count on: the file that restores
\* the key, and the upload it installs.
TypeOK ==
  /\ pc \in {"idle", "stage", "key", "copyEnv", "writeKey", "stop"} \cup Stopped
  /\ {upload, staged, bin, prev} \subseteq Binary \cup {NoFile, Torn}
  /\ {db, snapshot} \subseteq Db \cup {NoFile, Torn} /\ wal \subseteq Db
  /\ api \in {"off", "starting", "ready"}
  /\ arg.stored => Whole(envPrev) \/ env = found.env
  /\ pc = "copyBinary" => staged \in Binary

\* "the old binary, the database and the API key from before the deploy are back": when
\* a rollback starts the API again, everything is what the deploy found when it stopped
\* it, whatever the new binary migrated, wrote, or left in the WAL.
RollbackRestores ==
  pc = "startBack" => /\ found.bin # NoFile => bin = found.bin
                      /\ db = found.db /\ env = found.env

\* "so a key the deploy accepts also starts the server" (API_KEY_SYMBOLS), "The
\* JWT_SECRET check stops a file that a failed read left short": once a deploy has
\* succeeded, the API can start from api.env at every moment, also one at which the
\* power fails.
EnvAlwaysStarts == confirmed => EnvReads(env)

\* "so a rollback loses no write of the old binary" (swap_binary): from the stop of the
\* API on, what it had written is in the database or in the snapshot, in the middle of
\* every copy too, and it is in the database whenever the script is not putting that
\* back.  Commits that a power loss undid do not count ("a power loss can undo the last
\* commits", connect), and neither does what is in the database after one in the middle
\* of a rollback: the next deploy takes that for what it found.
OldWritesKept ==
  LET Holds(file) == Whole(file) /\ file.rows >= found.db.rows
  IN  /\ Holds(db) \/ Holds(snapshot)
      /\ found.cut \/ pc \in {"backDb", "copyDb"} \/ Holds(db)

\* "so a rollback loses no write of the old binary" (swap_binary): an API that is ready
\* serves them.
OldWritesServed == api = "ready" => db.rows >= found.db.rows
================================================================================
