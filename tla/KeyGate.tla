-------------------------------- MODULE KeyGate --------------------------------
(***************************************************************************)
(* The API keys of the gateway and the two questions asked of them,        *)
(* crates/heterion-router-gateway/src/auth.rs and                          *)
(* crates/heterion-router-db/src/repos.rs: does a key exist that could be  *)
(* presented (has_usable_api_key, in SQL), and which key does a presented  *)
(* text belong to (find_usable_api_key, whose expiry is read in Rust).     *)
(*                                                                         *)
(* A row holds its key in one of the forms the table has known: a marker   *)
(* beside the hash (issued here), the secret (the JS server), the digest   *)
(* (an earlier build), a ciphertext, or nothing.  What a client presents   *)
(* is the text of one of these.  Secrets, hashes and markers of different  *)
(* rows differ, and the hash of a text is the hash of no other.            *)
(*                                                                         *)
(* Both questions and every change hold the connection's lock throughout.  *)
(* last_used_at, which nothing reads back into a decision, is left out.    *)
(***************************************************************************)
EXTENDS Integers, FiniteSets

CONSTANTS
    Keys,           \* the rows api_keys may hold
    Models,         \* model names a request may ask for
    FirstKeys,      \* the tables the process may find: functions on Keys
    RequireAuth,    \* AppState.require_auth
    MaxAdmin,       \* bound: changes of the table
    MaxNow          \* bound: the clock, in seconds

VARIABLES
    keys,           \* the table: a row, or Absent, for every key
    now,            \* the clock of the process and of SQLite
    changes         \* how often an operator has changed the table

keyVars == <<keys, now, changes>>

Absent == [stored |-> "absent"]

\* What a client presents: the secret of a key, or a text its row holds.
Texts == [text : {"secret", "digest", "marker", "cipher"}, key : Keys]
NoToken == [text |-> "none"]

\* How an expires_at may be spelled, and at which second it ends.
Spellings == {"never", "sqlite", "iso", "dateOnly", "offset", "junk"}

\* A digest is never in the column alone: the build that wrote it there kept it
\* beside itself, as the hash.
KeyRows ==
    {row \in [stored : {"hash", "plain", "digest", "cipher", "blank"},
              hashed : BOOLEAN, revoked : BOOLEAN, off : BOOLEAN, manages : BOOLEAN,
              models : SUBSET Models, expires : [spelt : Spellings, at : 0..MaxNow]] :
       row.stored = "digest" => row.hashed}

ASSUME KeyAssumption ==
    /\ FirstKeys \subseteq [Keys -> KeyRows \cup {Absent}]
    /\ RequireAuth \in BOOLEAN /\ MaxAdmin \in Nat /\ MaxNow \in Nat

-----------------------------------------------------------------------------
(***************************************************************************)
(* Expiry, read twice.  Neither reading takes junk for a date.  SQLite's   *)
(* datetime() also reads a bare date and does not read a zone without a    *)
(* colon; the parser in Rust is the other way about.                       *)
(***************************************************************************)
datetime(expires) == expires.spelt \in {"sqlite", "iso", "dateOnly"}

USABLE_KEY_PREDICATE(row) ==
    /\ ~row.revoked /\ ~row.off
    /\ row.stored # "blank"
    /\ \/ row.expires.spelt = "never"
       \/ datetime(row.expires) /\ row.expires.at > now

parse_db_timestamp(expires) == expires.spelt \in {"sqlite", "iso", "offset"}

timestamp_expired(expires) ==
    /\ expires.spelt # "never"
    /\ parse_db_timestamp(expires) => expires.at <= now

has_usable_api_key == \E k \in Keys : keys[k] # Absent /\ USABLE_KEY_PREDICATE(keys[k])

\* What the column `key` of a row reads as.
KeyColumn(k) ==
    CASE keys[k].stored = "hash" -> [text |-> "marker", key |-> k]
      [] keys[k].stored = "plain" -> [text |-> "secret", key |-> k]
      [] keys[k].stored = "digest" -> [text |-> "digest", key |-> k]
      [] keys[k].stored = "cipher" -> [text |-> "cipher", key |-> k]
      [] OTHER -> NoToken

\* The hash of a row is that of its secret; the column counts only as a secret.
API_KEY_MATCH(token, k) ==
    \/ keys[k].hashed /\ token = [text |-> "secret", key |-> k]
    \/ /\ token = KeyColumn(k)
       /\ keys[k].stored # "hash"
       /\ ~(keys[k].hashed /\ keys[k].stored = "digest")
       /\ keys[k].stored # "cipher"

\* The keys a text authenticates as: one, or none.
find_usable_api_key(token) ==
    {k \in Keys : /\ keys[k] # Absent
                  /\ API_KEY_MATCH(token, k)
                  /\ ~keys[k].revoked /\ ~keys[k].off
                  /\ ~timestamp_expired(keys[k].expires)}

-----------------------------------------------------------------------------
(***************************************************************************)
(* The extractors.                                                         *)
(***************************************************************************)
GateOpen == ~has_usable_api_key /\ ~RequireAuth

\* Authenticated: nobody in particular while the gate is open, whatever is
\* presented, a key otherwise.
Authenticated(token) == GateOpen \/ (token # NoToken /\ find_usable_api_key(token) # {})

\* allows_model: asked of the key the request authenticated as.
allows_model(token, model) ==
    \/ GateOpen
    \/ \A k \in find_usable_api_key(token) :
           keys[k].models = {} \/ model \in keys[k].models

\* ManageAuthenticated.
ManageAuthenticated(token) ==
    /\ Authenticated(token)
    /\ \/ GateOpen
       \/ \A k \in find_usable_api_key(token) : keys[k].manages

-----------------------------------------------------------------------------
KeyInit == keys \in FirstKeys /\ now = 0 /\ changes = 0

\* Somebody may manage the gateway.
Manageable == {token \in Texts \cup {NoToken} : ManageAuthenticated(token)} # {}

Managed == /\ changes < MaxAdmin
           /\ Manageable
           /\ changes' = changes + 1
           /\ UNCHANGED now

\* The row of a key that is issued here: the hash, and a marker for the secret.
insert_full_api_key(k) ==
    keys' = [keys EXCEPT ![k] =
               [stored |-> "hash", hashed |-> TRUE, revoked |-> FALSE, off |-> FALSE,
                manages |-> TRUE, models |-> {}, expires |-> [spelt |-> "never", at |-> 0]]]

\* POST /api/keys
create_key(k) == keys[k] = Absent /\ Managed /\ insert_full_api_key(k)

set_api_key_revoked(k, revoked) == keys' = [keys EXCEPT ![k].revoked = revoked]

\* POST /api/keys/:id/revoke and /restore.  Neither looks at the row first.
set_key_revoked(k, revoked) ==
    /\ keys[k] # Absent
    /\ Managed
    /\ set_api_key_revoked(k, revoked)

\* Time passes.
KeyTick == now < MaxNow /\ now' = now + 1 /\ UNCHANGED <<keys, changes>>

KeyNext ==
    \/ \E k \in Keys :
         create_key(k) \/ (\E revoked \in BOOLEAN : set_key_revoked(k, revoked))
    \/ KeyTick

=============================================================================
