------------------------------- MODULE Answers -------------------------------
(***************************************************************************)
(* From a failure to the status a client sees: the error types of          *)
(* crates/bunker-api/src/services/error.rs and storage/error.rs, the       *)
(* statuses of server.rs, and the statuses the routers document.           *)
(*                                                                         *)
(* An answer is the name of a ServiceError, or "Ok" or "Created".          *)
(***************************************************************************)

\* A failed statement, by what the driver says of it (from_query).
DriverFailure == {"unique", "foreign_key", "busy", "locked", "readonly", "ioerr",
                  "full", "cantopen", "pool_timed_out", "pool_closed", "io", "other"}

FromQuery(failure) ==
  CASE failure = "unique"                                       -> "UniqueViolation"
    [] failure = "foreign_key"                                  -> "ForeignKeyViolation"
    [] failure \in {"busy", "locked", "pool_timed_out", "pool_closed"} -> "Busy"
    [] failure \in {"readonly", "ioerr", "full", "cantopen", "io"}     -> "Connection"
    [] OTHER                                                    -> "Query"

\* A lost database is temporary; every other failure that reaches `?' is a bug.
FromStorage(error) ==
  IF error \in {"Connection", "Busy"} THEN "Unavailable" ELSE "Storage"

FromBracket(error) ==
  CASE error = "TooManyEntrants" -> "TournamentFull"
    [] error = "UnknownMatch"    -> "MatchNotFound"
    [] error = "NotReady"        -> "MatchNotReady"
    [] error = "NotAParticipant" -> "NotAnEntrant"
    [] error = "NextDecided"     -> "NextMatchDecided"
    [] error = "Malformed"       -> "CorruptBracket"
    [] OTHER                     -> error

\* ServiceError::public: the code a client selects on.
Public(error) ==
  CASE error \in {"PlayerNotFound", "PlayerIdNotFound", "TournamentNotFound",
                  "EventNotFound", "MatchNotFound", "UnknownCheckinCode"}
         -> "ItemNotFound"
    [] error \in {"HandleTaken", "InvalidCredentials", "WrongPassword",
                  "RegistrationClosed", "CheckinClosed", "NotAnEntrant"}
         -> error
    [] error = "SelfAction"        -> "Forbidden"
    [] error \in {"LastAdmin", "InvalidTransition", "TournamentChanged",
                  "TournamentConcluded", "TournamentFull", "NotLive",
                  "BracketExists", "BracketMissing", "BracketLocked",
                  "BracketIncomplete", "TooFewEntrants", "MatchNotReady",
                  "NextMatchDecided", "UnexpectedWinner"}
         -> "InvalidState"
    [] error = "SeedOrderMismatch" -> "UnprocessableRequest"
    [] error = "InvalidToken"      -> "Unauthorized"
    [] error = "Unavailable"       -> "ServiceUnavailable"
    [] OTHER                       -> "GenericError"

StatusOf(code) ==
  CASE code = "GenericError"       -> 500
    [] code = "ServiceUnavailable" -> 503
    [] code \in {"ItemNotFound", "RouteNotFound"} -> 404
    [] code \in {"HandleTaken", "RegistrationClosed", "CheckinClosed", "InvalidState"} -> 409
    [] code \in {"NotAnEntrant", "UnprocessableRequest"} -> 422
    [] code \in {"InvalidCredentials", "Unauthorized", "ApiKeyRequired"} -> 401
    [] code \in {"Forbidden", "PasswordChangeRequired"} -> 403
    [] code \in {"WrongPassword", "InvalidRequest"} -> 400
    [] code = "UnsupportedMediaType" -> 415
    [] code = "PayloadTooLarge"      -> 413
    [] code = "MethodNotAllowed"     -> 405

\* ApiError::from
StatusFor(error) == StatusOf(Public(error))

--------------------------------------------------------------------------------
(* What a route says it answers with once a request reached the handler.   *)

RowRoutes ==
  [update |-> {200, 404, 409}, status |-> {200, 404, 409, 422}]
FieldRoutes ==
  [add |-> {200, 201, 404, 409}, remove |-> {204, 404, 409}]
BracketRoutes ==
  [generate |-> {200, 404, 409}, reorder |-> {200, 404, 409, 422},
   delete_bracket |-> {204, 404, 409}]
ResultRoutes ==
  [report |-> {200, 404, 409, 422}, clear |-> {200, 404, 409}]
EntryRoutes ==
  [register |-> {200, 404, 409, 422}, retire |-> {204, 404, 409}]

Documented(op) ==
  CASE op \in DOMAIN RowRoutes     -> RowRoutes[op]
    [] op \in DOMAIN FieldRoutes   -> FieldRoutes[op]
    [] op \in DOMAIN BracketRoutes -> BracketRoutes[op]
    [] op \in DOMAIN ResultRoutes  -> ResultRoutes[op]
    [] op \in DOMAIN EntryRoutes   -> EntryRoutes[op]

\* The status of a success: created_or_existing for an admin's entry, no content
\* for a removal, 200 otherwise.
SuccessOf(op, answer) ==
  CASE op = "add" /\ answer = "Created"               -> 201
    [] op \in {"retire", "remove", "delete_bracket"}  -> 204
    [] OTHER                                          -> 200

Answered(op, answer) ==
  IF answer \in {"Ok", "Created"} THEN SuccessOf(op, answer) ELSE StatusFor(answer)
================================================================================
