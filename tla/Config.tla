-------------------------------- MODULE Config ---------------------------------
(***************************************************************************)
(* What the API reads from its environment when it starts (config/env.rs,  *)
(* config/app_config.rs).  An environment is a function from the names of  *)
(* the variables to values, and a value is told apart by what the reader   *)
(* asks of it: a text that the type of its variable accepts or not, one    *)
(* that is not UTF-8, and for the key its length and its letters.          *)
(***************************************************************************)
EXTENDS Naturals

CONSTANTS
  Long,   \* the keys of API_KEY_MIN_LEN letters and more
  Plain   \* those of letters, digits and API_KEY_SYMBOLS

Names == {"APP_ENV", "JWT_SECRET", "API_KEY", "BIND_ADDRESS", "PORT",
          "DATABASE_URL", "DB_MAX_CONNECTIONS", "RUST_LOG"}

Absent     == "absent"
Empty      == "empty"
NotUnicode == "not unicode"
DevSecret  == "dev secret"
Short      == "short"
Fine       == "fine"
Unparsed   == "unparsed"

\* A key is a text of letters: neither nothing nor something that is no text.
ASSUME ValueAssumption == Long \cap Plain \cap {Absent, Empty, NotUnicode} = {}

\* The capabilities of an environment that decide whether a process may start.
ResolveAppConfig(app_env) ==
  [jwt_secret_required |-> app_env = "prod",
   api_key_required    |-> app_env \in {"test", "prod"}]

\* An empty value counts as absent.
Optional(env, name) == IF env[name] = Empty THEN Absent ELSE env[name]

Parses(env, name) == Optional(env, name) \notin {NotUnicode, Unparsed}

\* A release has no fallback for APP_ENV.
ReadAppEnv(env, release) ==
  LET raw == Optional(env, "APP_ENV") IN
  IF raw = Absent THEN IF release THEN "refused" ELSE "local"
  ELSE IF raw \in {"test", "local", "prod"} THEN raw ELSE "refused"

JwtSecretReads(env, config) ==
  LET raw == Optional(env, "JWT_SECRET") IN
  \/ raw = Fine
  \/ raw \in {DevSecret, Absent} /\ ~config.jwt_secret_required

\* ApiKey: its length, and the letters a header can carry.
IsApiKey(value) == value \in Long \cap Plain

ApiKeyReads(env, config) ==
  LET raw == Optional(env, "API_KEY") IN
  \/ raw = Absent /\ ~config.api_key_required
  \/ raw \notin {Absent, NotUnicode} /\ IsApiKey(raw)

\* Env::read_with finds nothing to refuse.
ReadsEnv(env, release) ==
  LET app_env == ReadAppEnv(env, release)
      config  == ResolveAppConfig(app_env)
  IN  /\ app_env # "refused"
      /\ JwtSecretReads(env, config)
      /\ ApiKeyReads(env, config)
      /\ \A name \in {"BIND_ADDRESS", "PORT", "DB_MAX_CONNECTIONS"} : Parses(env, name)
      /\ \A name \in {"DATABASE_URL", "RUST_LOG"} : Optional(env, name) # NotUnicode
================================================================================
