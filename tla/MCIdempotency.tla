--------------------------- MODULE MCIdempotency ---------------------------
(***************************************************************************)
(* Idempotency for TLC: who sends the requests, what they carry, and the   *)
(* columns idempotency_keys has.                                           *)
(***************************************************************************)
EXTENDS Idempotency

CONSTANTS
    Visitors,   \* the requests without an access token; alice sends the others
    Images,     \* the requests that carry what is no text
    Stranger    \* a request that another visitor sends, with another image

MCCaller == [r \in Requests |->
    IF r = Stranger THEN "passer-by" ELSE IF r \in Visitors THEN "visitor" ELSE "alice"]
MCBody == [r \in Requests |->
    IF r = Stranger THEN "jpeg" ELSE IF r \in Images THEN "png" ELSE "json"]

\* The columns the guard was written for.
IntendedColumns == GuardColumns

\* The columns of migrations/20260901000001_core_identity.sql.
MigratedColumns == {"key_hash", "user_id", "recovery_point", "response_code",
                    "response_body", "expires_at", "locked_at", "created_at"}
=============================================================================
