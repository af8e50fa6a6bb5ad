---------------------------- MODULE CredentialPool ----------------------------
(***************************************************************************)
(* The credentials of one provider under concurrent requests: what is      *)
(* loaded of provider_connections, the cursor every request advances, the  *)
(* tries of a whole answer and of a stream, and how the grok executor      *)
(* trades a stale token for a new one, behind one lock per credential, and *)
(* writes it to memory and to the database.  gw/openai.rs, gw/backend.rs,  *)
(* gw/grok_cli.rs, gw/credentials.rs, gw/main.rs.                          *)
(* gw/ is crates/heterion-router-gateway/src/.                             *)
(*                                                                         *)
(* A token is its generation: the provider accepts the latest, until it    *)
(* expires, and replaces the refresh token with every use of it (or keeps  *)
(* it, as it likes).  A request that is answered whole is dropped when its *)
(* client leaves; a stream's task is not.                                  *)
(* The responses and claude executors are the openai one's equals here.    *)
(***************************************************************************)
EXTENDS Naturals, Sequences, FiniteSets, FiniteSetsExt

CONSTANTS
    Requests,       \* the requests the provider is asked to serve
    NoRequest,      \* holds a lock that is free
    Executors,      \* which kinds of executor the provider may have
    InitialRows,    \* what provider_connections may hold, in dispatch order
    MaxGeneration   \* bound: how often a token is renewed

None == 0

\* A row of provider_connections: when its access token expires is not known,
\* ahead, over, or written as nothing that can be read.
RowsOfTable ==
    [active : BOOLEAN, access : Nat, refresh : Nat, sealed : {"plain", "sealed"},
     expiry : {"none", "live", "past", "odd"}]

ASSUME CredentialPoolAssumption ==
    /\ NoRequest \notin Requests
    /\ Executors \subseteq {"grok", "openai", "gemini", "exa"}
    /\ InitialRows \subseteq Seq(RowsOfTable)
    /\ MaxGeneration \in Nat \ {0}

VARIABLES
    executor,  \* whose credentials: "grok", "gemini", "exa", or one that needs no key, "openai"
    key,       \* is a storage key configured
    rows,      \* the table
    pool,      \* the executor's credentials
    cursor,    \* next
    holder,    \* whose refresh lock a credential's is
    pc, mode, index, held, tries,
    live,      \* the provider's: the tokens it accepts last
    fresh,     \* the provider's: does it still accept the access token
    lost,      \* history: connections whose renewal was answered, and the answer not kept
    tried,     \* history: the credentials a request was sent with
    crossed,   \* history: did another request take a credential meanwhile
    outcome,   \* history: how a request ended
    restarted  \* bound: one restart

task == <<pc, mode, index, held, tries, tried, crossed, outcome>>
provider == <<live, fresh>>
vars == <<executor, key, rows, pool, cursor, holder, task, provider, lost, restarted>>

Connections == DOMAIN rows

\* A row is served if it is active, has a secret this process can open, and is
\* not past an expiry that nothing can renew; an odd expiry counts as past for
\* good.
Opens(row) == row.sealed \in {"plain", IF key THEN "sealed" ELSE "plain"}

Loads(row) ==
    /\ row.active
    /\ row.expiry # "odd"
    /\ row.expiry = "past" => row.refresh # None
    /\ row.access # None
    /\ Opens(row)

NoCredential == [connection |-> None, access |-> None, refresh |-> None]

Credential(c, row) == [connection |-> c, access |-> row.access, refresh |-> row.refresh]

LoadCredentials(table) ==
    LET loads == {c \in DOMAIN table : Loads(table[c])}
        nth(i) == CHOOSE c \in loads : Cardinality({d \in loads : d <= c}) = i
    IN  [i \in 1 .. Cardinality(loads) |-> Credential(nth(i), table[nth(i)])]

Size == Len(pool)

Init ==
    /\ executor \in Executors
    /\ key \in BOOLEAN
    /\ rows \in InitialRows
    /\ pool = LoadCredentials(rows)
    /\ cursor = 0
    /\ holder = [c \in DOMAIN rows |-> NoRequest]
    /\ pc = [r \in Requests |-> "idle"]
    /\ mode = [r \in Requests |-> "complete"]
    /\ index = [r \in Requests |-> None]
    /\ held = [r \in Requests |-> NoCredential]
    /\ tries = [r \in Requests |-> 0]
    /\ live = [c \in DOMAIN rows |-> [access |-> rows[c].access, refresh |-> rows[c].refresh]]
    /\ fresh = [c \in DOMAIN rows |-> rows[c].expiry # "past"]
    /\ lost = {}
    /\ tried = [r \in Requests |-> {}]
    /\ crossed = [r \in Requests |-> FALSE]
    /\ outcome = [r \in Requests |-> "none"]
    /\ restarted = FALSE

Running(r) == pc[r] \notin {"idle", "done"}

\* One try for every credential; one without any, where that may be.
PooledTries == Max({Size, 1})
GeminiTries == Size
GrokTries == Size

\* A stream is tried once, but for exa's, which is a whole answer in one chunk.
ExaTries == PooledTries

Attempts(r) ==
    IF mode[r] = "stream" /\ executor # "exa" THEN 1
    ELSE CASE executor = "exa"    -> ExaTries
           [] executor = "gemini" -> GeminiTries
           [] executor = "grok"   -> GrokTries
           [] OTHER               -> PooledTries

-----------------------------------------------------------------------------
(* The tries of a request *)

\* A try is over, and what it was sent with is gone.
Forgets(r) ==
    /\ index' = [index EXCEPT ![r] = None]
    /\ held' = [held EXCEPT ![r] = NoCredential]

Ends(r, how) ==
    /\ pc' = [pc EXCEPT ![r] = "done"]
    /\ outcome' = [outcome EXCEPT ![r] = how]
    /\ Forgets(r)

\* A provider without a usable credential has a backend only if it asks for none.
HasBackend == pool # <<>> \/ executor \in {"openai", "exa"}

\* A request without messages, or a search without a query, is refused unsent.
Reject(r) ==
    /\ pc[r] = "idle"
    /\ HasBackend
    /\ Ends(r, "invalid")
    /\ UNCHANGED <<executor, key, rows, pool, cursor, holder, mode, tries,
                   tried, crossed, provider, lost, restarted>>

Start(r) ==
    /\ pc[r] = "idle"
    /\ HasBackend
    /\ \E m \in {"complete", "stream"} : mode' = [mode EXCEPT ![r] = m]
    /\ pc' = [pc EXCEPT ![r] = "try"]
    /\ UNCHANGED <<executor, key, rows, pool, cursor, holder, index, held, tries,
                   tried, crossed, outcome, provider, lost, restarted>>

\* A try does not advance the cursor.
NextCursorStays == cursor

\* next_token, next_credential: whoever asks next gets the next one.
NextCursor == IF Size = 0 THEN cursor ELSE (cursor + 1) % Size

Pick(r) ==
    /\ pc[r] = "try"
    /\ LET i == IF Size = 0 THEN None ELSE cursor + 1
       IN  /\ index' = [index EXCEPT ![r] = i]
           /\ held' = [held EXCEPT ![r] =
                IF i = None THEN NoCredential ELSE pool[i]]
           /\ tried' = [tried EXCEPT ![r] = @ \union {i}]
    /\ cursor' = NextCursor
    /\ tries' = [tries EXCEPT ![r] = @ + 1]
    /\ crossed' = [q \in Requests |-> crossed[q] \/ (q # r /\ Running(q))]
    /\ pc' = [pc EXCEPT ![r] = "call"]
    /\ UNCHANGED <<executor, key, rows, pool, holder, mode, outcome, provider, lost, restarted>>

\* The provider takes the token r sends: the last one issued, and not expired.
Accepted(r) ==
    LET c == held[r].connection
    IN  c # None => fresh[c] /\ held[r].access = live[c].access

\* A failed try is followed by the next one, if there is one left.
Failed(r) ==
    IF tries[r] < Attempts(r)
    THEN pc' = [pc EXCEPT ![r] = "try"] /\ UNCHANGED outcome /\ Forgets(r)
    ELSE Ends(r, "failed")

Unlocked(r) == [c \in Connections |-> IF holder[c] = r THEN NoRequest ELSE holder[c]]

\* A payload without an error object, asked for with the first token or a renewed one.
CallOk(r) ==
    /\ pc[r] \in {"call", "recall"}
    /\ Accepted(r)
    /\ Ends(r, "ok")
    /\ UNCHANGED <<executor, key, rows, pool, cursor, holder, mode, tries,
                   tried, crossed, provider, lost, restarted>>

\* An error in a body, a status, a broken connection: the token may be good.
CallFails(r) ==
    /\ pc[r] \in {"call", "recall"}
    /\ Failed(r)
    /\ UNCHANGED <<executor, key, rows, pool, cursor, holder, mode, tries,
                   tried, crossed, provider, lost, restarted>>

\* is_stale_oauth, which only the grok executor asks, and not of its second call.
CallStale(r) ==
    /\ pc[r] = "call"
    /\ executor = "grok"
    /\ ~Accepted(r)
    /\ pc' = [pc EXCEPT ![r] = "lock"]
    /\ UNCHANGED <<executor, key, rows, pool, cursor, holder, mode, index, held, tries,
                   tried, crossed, outcome, provider, lost, restarted>>

-----------------------------------------------------------------------------
(* refresh_after_unauthorized *)

Current(r) == pool[index[r]]

\* The lock of the credential's place in the pool; taken, and what was done meanwhile is seen.
HasLock(r) == holder[held[r].connection] = NoRequest

IsRenewed(r) == Current(r) # held[r]

\* Another request has renewed it: nothing to do but to call again.
TakeRenewed(r) ==
    /\ pc[r] = "lock"
    /\ HasLock(r)
    /\ IsRenewed(r)
    /\ held' = [held EXCEPT ![r] = Current(r)]
    /\ pc' = [pc EXCEPT ![r] = "recall"]
    /\ UNCHANGED <<executor, key, rows, pool, cursor, holder, mode, index, tries,
                   tried, crossed, outcome, provider, lost, restarted>>

\* There is no refresh token: the try has failed.
NothingToRenewWith(r) ==
    /\ pc[r] = "lock"
    /\ HasLock(r)
    /\ ~IsRenewed(r)
    /\ held[r].refresh = None
    /\ Failed(r)
    /\ UNCHANGED <<executor, key, rows, pool, cursor, holder, mode, tries,
                   tried, crossed, provider, lost, restarted>>

SendRefresh(r) ==
    /\ pc[r] = "lock"
    /\ HasLock(r)
    /\ ~IsRenewed(r)
    /\ held[r].refresh # None
    /\ holder' = [holder EXCEPT ![held[r].connection] = r]
    /\ pc' = [pc EXCEPT ![r] = "refresh"]
    /\ UNCHANGED <<executor, key, rows, pool, cursor, mode, index, held, tries,
                   tried, crossed, outcome, provider, lost, restarted>>

\* The provider knows the refresh token: it issues the next access token, and
\* replaces the refresh token unless it keeps it.
Renews(r) ==
    /\ pc[r] = "refresh"
    /\ LET c == held[r].connection
       IN  /\ held[r].refresh = live[c].refresh
           /\ live[c].access < MaxGeneration
           /\ \E next \in {live[c].refresh, live[c].access + 1} :
                 live' = [live EXCEPT ![c] = [access |-> live[c].access + 1, refresh |-> next]]
           /\ fresh' = [fresh EXCEPT ![c] = TRUE]
    /\ pc' = [pc EXCEPT ![r] = "reply"]
    /\ UNCHANGED <<executor, key, rows, pool, cursor, holder, mode, index, held, tries,
                   tried, crossed, outcome, lost, restarted>>

\* It does not know it, or the call failed on the way.
RefreshFails(r) ==
    /\ pc[r] = "refresh"
    /\ holder' = Unlocked(r)
    /\ Failed(r)
    /\ UNCHANGED <<executor, key, rows, pool, cursor, mode, tries,
                   tried, crossed, provider, lost, restarted>>

\* The provider's answer to r, as the executor's credential.
Answered(r) ==
    [connection |-> held[r].connection, access |-> live[held[r].connection].access,
     refresh |-> live[held[r].connection].refresh]

\* Only the access token is written.
PersistedAccess(credential, expiry) ==
    IF key
    THEN [rows EXCEPT ![credential.connection] =
            [@ EXCEPT !.access = credential.access, !.sealed = "sealed", !.expiry = expiry]]
    ELSE rows

\* persist_refreshed_tokens: sealed with the storage key, or not written at all.
Persisted(credential, expiry) ==
    IF key
    THEN [rows EXCEPT ![credential.connection] =
            [@ EXCEPT !.access = credential.access, !.refresh = credential.refresh,
                      !.sealed = "sealed", !.expiry = expiry]]
    ELSE rows

\* The answer names an expiry, or the row keeps the one it has.
Renewed(r) ==
    /\ pc[r] = "reply"
    /\ \E expiry \in {"live", rows[held[r].connection].expiry} :
          rows' = Persisted(Answered(r), expiry)
    /\ pool' = [pool EXCEPT ![index[r]] = Answered(r)]
    /\ held' = [held EXCEPT ![r] = Answered(r)]
    /\ holder' = Unlocked(r)
    /\ pc' = [pc EXCEPT ![r] = "recall"]
    /\ UNCHANGED <<executor, key, cursor, mode, index, tries, tried, crossed, outcome,
                   provider, lost, restarted>>

\* The answer is lost or of no use, or cannot be written: memory keeps the old one.
RenewalLost(r) ==
    /\ pc[r] = "reply"
    /\ lost' = lost \union {held[r].connection}
    /\ holder' = Unlocked(r)
    /\ Failed(r)
    /\ UNCHANGED <<executor, key, rows, pool, cursor, mode, tries,
                   tried, crossed, provider, restarted>>

-----------------------------------------------------------------------------
(* Clients, the provider's clock and the process *)

\* The lock outlives the task.
ReleasedNever(r) == holder

\* A dropped task gives back what it holds.
ReleasedBy(r) == Unlocked(r)

\* The client of a request that is answered whole leaves: its task is dropped,
\* with the lock it holds and the answer it was about to read.
HangUp(r) ==
    /\ Running(r)
    /\ mode[r] = "complete"
    /\ holder' = ReleasedBy(r)
    /\ lost' = IF pc[r] = "reply" THEN lost \union {held[r].connection} ELSE lost
    /\ Ends(r, "left")
    /\ UNCHANGED <<executor, key, rows, pool, cursor, mode, tries,
                   tried, crossed, provider, restarted>>

\* The provider stops accepting the access token; a row knows when, if it was told.
Expire(c) ==
    /\ fresh[c]
    /\ live[c].access < MaxGeneration
    /\ fresh' = [fresh EXCEPT ![c] = FALSE]
    /\ rows' = [rows EXCEPT ![c].expiry = IF @ = "live" THEN "past" ELSE @]
    /\ UNCHANGED <<executor, key, pool, cursor, holder, task, live, lost, restarted>>

\* The process ends and starts again: what was in flight is gone, the pool is
\* what the table says.  Without a storage key no renewal was written.
Restart ==
    /\ ~restarted
    /\ restarted' = TRUE
    /\ lost' = lost
         \union {held[r].connection : r \in {q \in Requests : pc[q] = "reply"}}
         \union {c \in Connections : ~key /\ rows[c].access # live[c].access}
    /\ pool' = LoadCredentials(rows)
    /\ cursor' = 0
    /\ holder' = [c \in Connections |-> NoRequest]
    /\ pc' = [r \in Requests |-> IF Running(r) THEN "done" ELSE pc[r]]
    /\ outcome' = [r \in Requests |-> IF Running(r) THEN "left" ELSE outcome[r]]
    /\ index' = [r \in Requests |-> None]
    /\ held' = [r \in Requests |-> NoCredential]
    /\ UNCHANGED <<executor, key, rows, mode, tries, tried, crossed, provider>>

-----------------------------------------------------------------------------
Step(r) ==
    \/ Pick(r) \/ TakeRenewed(r) \/ NothingToRenewWith(r) \/ SendRefresh(r)
    \/ Renewed(r) \/ RenewalLost(r)

\* A call to the provider ends: the client's timeouts see to that.
Upstream(r) ==
    CallOk(r) \/ CallFails(r) \/ CallStale(r) \/ Renews(r) \/ RefreshFails(r)

Next ==
    \/ \E r \in Requests : Reject(r) \/ Start(r) \/ Step(r) \/ Upstream(r) \/ HangUp(r)
    \/ \E c \in Connections : Expire(c)
    \/ Restart

Spec == Init /\ [][Next]_vars

FairSpec == Spec /\ \A r \in Requests : WF_vars(Step(r)) /\ WF_vars(Upstream(r))

-----------------------------------------------------------------------------
(* Properties *)

BeingRenewed == {held[r].connection : r \in {q \in Requests : pc[q] = "reply"}}

\* A renewal is not forgotten.  As long as no answer of the provider was lost
\* on the way, memory holds the refresh token the provider expects next, and so
\* does the table if there is a storage key to write it with; and a refresh token
\* the provider has replaced is never sent again, however many requests fail with
\* the same stale token (grok_cli.rs:277, main.rs:98).
RenewalsAreKept ==
    /\ executor = "grok" =>
         \A i \in DOMAIN pool :
            LET c == pool[i].connection
            IN  c \notin lost \union BeingRenewed =>
                    /\ pool[i].refresh = live[c].refresh
                    /\ key => rows[c].refresh = live[c].refresh
    /\ \A r \in Requests :
         pc[r] = "refresh" /\ held[r].connection \notin lost =>
             held[r].refresh = live[held[r].connection].refresh

\* Contract of try_each_credential (openai.rs:131-139): a request that fails for
\* good has been sent with every credential of the pool, if no other request took
\* one meanwhile; in any case it was sent no more often than there are credentials.
TriesWholePool ==
    \A r \in Requests :
        /\ tries[r] <= Max({Len(rows), 1})
        /\ outcome[r] = "failed" /\ (mode[r] = "complete" \/ executor = "exa") /\ ~crossed[r] /\ ~restarted
               /\ pool # <<>>
           => tried[r] = DOMAIN pool

\* Every request that starts ends: nobody waits for ever for the lock of a request
\* that failed, or whose client left while it held it.
EveryRequestEnds == \A r \in Requests : Running(r) ~> ~Running(r)

=============================================================================
