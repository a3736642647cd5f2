----------------------------- MODULE DbErrors -----------------------------
(***************************************************************************)
(* From an exception of the database layer to the HTTP status the client   *)
(* sees: determine_exc and translate_db_error                              *)
(* (src/pet/infra/sqla/db/exc.py), get_http_status_for_error               *)
(* (src/pet/api/exception_handlers.py).                                    *)
(***************************************************************************)
EXTENDS Naturals

\* The exceptions in DB_OPERATION_ERRORS, by the class isinstance finds
\* first; "DBAPIError" and "SQLAlchemyError" stand for the rest.
ErrorClasses ==
    {"IntegrityError", "OperationalError", "InterfaceError", "TimeoutError",
     "DisconnectionError", "InvalidatePoolError", "DBAPIError",
     "SQLAlchemyError", "OSError"}

SqlStates == {"23505", "23503", "23502", "23514", "22001", "none"}

Constraints == {"uq_organizations_name_canonical",
                "uq_users_auth_subject_auth_issuer", "none"}

DbError == [class : ErrorClasses, sqlstate : SqlStates, constraint : Constraints,
            invalidated : BOOLEAN]

IntegrityKind(sqlstate) ==
    CASE sqlstate = "23505" -> "unique_violation"
      [] sqlstate = "23503" -> "fk_violation"
      [] sqlstate = "23502" -> "not_null_violation"
      [] sqlstate = "23514" -> "check_violation"
      [] OTHER -> "unknown"

determine_exc(e) ==
    CASE e.class = "IntegrityError" -> IntegrityKind(e.sqlstate)
      [] e.class \in {"OperationalError", "OSError"} -> "operational"
      [] e.class \in {"InterfaceError", "TimeoutError", "DisconnectionError",
                      "InvalidatePoolError"} -> "transient"
      [] e.class = "DBAPIError" /\ e.invalidated -> "transient"
      [] OTHER -> "unknown"

AppErrorCodes == {"conflict", "internal_error", "organization_name_taken",
                  "service_unavailable", "validation_error", "not_found"}

translate_db_error(kind, constraint) ==
    CASE kind = "unique_violation" ->
             IF constraint = "uq_organizations_name_canonical"
             THEN "organization_name_taken" ELSE "conflict"
      [] kind \in {"fk_violation", "check_violation", "not_null_violation"} ->
             "validation_error"
      [] kind \in {"operational", "transient"} -> "service_unavailable"
      [] OTHER -> "internal_error"

\* What the executor raises when e ends the handler or the commit.
AppErrorOf(e) == translate_db_error(determine_exc(e), e.constraint)

\* Faulty variant: a taken name is a bad request.
HttpStatusBadRequest(code) ==
    CASE code \in {"conflict", "organization_name_taken"} -> 400
      [] code = "not_found" -> 404
      [] code = "validation_error" -> 422
      [] code = "service_unavailable" -> 503
      [] code = "internal_error" -> 500

get_http_status_for_error(code) ==
    CASE code \in {"conflict", "organization_name_taken"} -> 409
      [] code = "not_found" -> 404
      [] code = "validation_error" -> 422
      [] code = "service_unavailable" -> 503
      [] code = "internal_error" -> 500

---------------------------------------------------------------------------
\* The errors the use cases can meet.

Violation(sqlstate, constraint) ==
    [class |-> "IntegrityError", sqlstate |-> sqlstate,
     constraint |-> constraint, invalidated |-> FALSE]

\* A connection lost under a statement: recognised by SQLAlchemy, which
\* invalidates it, or surfacing as the socket's own error.
LinkErrors ==
    {[class |-> "DBAPIError", sqlstate |-> "none", constraint |-> "none",
      invalidated |-> TRUE],
     [class |-> "OSError", sqlstate |-> "none", constraint |-> "none",
      invalidated |-> FALSE]}

\* No connection: the pool stayed empty, or the server cannot be reached.
PoolExhausted == [class |-> "TimeoutError", sqlstate |-> "none",
                  constraint |-> "none", invalidated |-> FALSE]
ConnectRefused == [class |-> "OSError", sqlstate |-> "none",
                   constraint |-> "none", invalidated |-> FALSE]

\* A profile field longer than its column.
StringTooLong == [class |-> "DBAPIError", sqlstate |-> "22001",
                  constraint |-> "none", invalidated |-> FALSE]
===========================================================================
