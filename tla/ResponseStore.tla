----------------------------- MODULE ResponseStore -----------------------------
(***************************************************************************)
(* The stored responses of the Responses surface, crates/heterion-router-  *)
(* gateway/src/lib.rs: a turn may name the response of an earlier one, its *)
(* messages are then put before its own, and its answer is stored when it  *)
(* arrives.  GET and DELETE look the same table up.                        *)
(*                                                                         *)
(* The connection's lock is held for one look-up, one write with its sweep *)
(* or one delete.  Between the look-up and the write of a turn lies the    *)
(* upstream call, between the look-up and the delete of a DELETE another   *)
(* request may pass.  A row's key is the id its upstream chose, which may  *)
(* be one that is in the table (docs/research/mission-2026-10/             *)
(* 04-security-retention.md:307).                                          *)
(*                                                                         *)
(* A message is named by the turn it belongs to and by whether it is that  *)
(* turn's input or answer; tools, which travel like the messages, and the  *)
(* wording are left out.  Rows of other namespaces take rowids too, but    *)
(* only their order is asked for.                                          *)
(* The clock does not go back; it reads 0 while it has no SystemTime.      *)
(***************************************************************************)
EXTENDS Integers, Sequences, FiniteSets, FiniteSetsExt

CONSTANTS
    Callers,        \* the keys, and the caller of an open gateway
    Names,          \* model names
    ServedAs,       \* the name an answer gives itself, for a requested one
    Permits,        \* the names each caller may use
    Ids,            \* what upstreams call their responses
    NoId,           \* an answer without a usable id
    Ttl,            \* RESPONSE_TTL_SECS
    Cap,            \* RESPONSE_ENTRY_CAP
    MaxTurns,       \* bound: requests to /v1/responses
    MaxDeletes,     \* bound: DELETEs at once
    MaxNow          \* bound: the clock

ASSUME StoreAssumption ==
    /\ ServedAs \in [Names -> Names]
    /\ Permits \in [Callers -> SUBSET Names]
    /\ NoId \notin Ids
    /\ Ttl \in Nat /\ Cap \in Nat \ {0}
    /\ MaxTurns \in Nat /\ MaxDeletes \in Nat /\ MaxNow \in Nat

VARIABLES
    now,            \* now_unix
    store,          \* the rows of the namespace "responses"
    turns,          \* every turn that was sent upstream
    deleting        \* DELETEs between their look-up and their delete

vars == <<now, store, turns, deleting>>

Input(n) == [turn |-> n, part |-> "input"]
Reply(n) == [turn |-> n, part |-> "answer"]

Init ==
    /\ now = 0
    /\ store = {} /\ turns = <<>>
    /\ deleting = {}

-----------------------------------------------------------------------------
(***************************************************************************)
(* Looking a row up: load_response_record.                                 *)
(***************************************************************************)
Expired(row) == now > 0 /\ now - row.at > Ttl

\* What is left of the table: a row found past its time is deleted on the way.
Looked(id) == {row \in store : row.id # id \/ ~Expired(row)}

\* Mutated form: whoever knows an id sees its response.
VisibleToAll(caller, row) == TRUE

Visible(caller, row) == row.owner = caller

\* The rows, one at most, a caller gets to see under an id.
Found(caller, id) ==
    { row \in store :
        /\ row.id = id /\ ~Expired(row)
        /\ Visible(caller, row)
        /\ row.model \in Permits[caller] }

-----------------------------------------------------------------------------
(***************************************************************************)
(* A turn: responses, replay_previous_response.                            *)
(***************************************************************************)

\* A row's messages: its own turn's input, and what its response has under
\* "output".  A placeholder has none.
Replayed(row) ==
    IF row.truncated THEN <<>>
    ELSE <<Input(row.turn)>> \o (IF row.output THEN <<Reply(row.turn)>> ELSE <<>>)

OtherModel(row, model) == ~row.truncated /\ turns[row.turn].model # model

\* Without a row the id is passed over.
Ask(caller, model, previous, kept) ==
    LET found   == Found(caller, previous)
        replay  == IF found = {} THEN <<>> ELSE Replayed(CHOOSE row \in found : TRUE)
        refused == \/ \E row \in found : OtherModel(row, model)
                   \/ model \notin Permits[caller]
        turn    == [caller |-> caller, model |-> model,
                    sent   |-> Append(replay, Input(Len(turns) + 1)),
                    awaits |-> IF kept THEN "answer to keep" ELSE "answer"]
    IN  /\ Len(turns) < MaxTurns
        /\ store' = Looked(previous)
        /\ turns' = IF refused THEN turns ELSE Append(turns, turn)
        /\ UNCHANGED <<now, deleting>>

-----------------------------------------------------------------------------
(***************************************************************************)
(* The answer: chat_to_responses_object, persist_response.                 *)
(***************************************************************************)

\* A chat upstream's own object is the response, and it has no "output"; that
\* of a Responses upstream has, and so has the one built for the others.
Shapes == {"chat", "responses", "built"}

\* A row that is there keeps its rowid, a new one comes last.
Rowid(id) ==
    LET same == {row \in store : row.id = id}
    IN  IF same # {} THEN (CHOOSE row \in same : TRUE).rowid
        ELSE Max({row.rowid : row \in store} \union {0}) + 1

Record(n, id, shape, big) ==
    [id |-> id, owner |-> turns[n].caller, model |-> ServedAs[turns[n].model],
     at |-> now, truncated |-> big, turn |-> n,
     output |-> shape # "chat" /\ ~big, rowid |-> Rowid(id)]

\* kv_set: what was stored under the id is written over.
Written(record) ==
    {row \in store : row.id # record.id} \union {record}

TooOld(row) == now > 0 /\ row.at >= 1 /\ row.at <= now - Ttl

\* Mutated form: `ORDER BY rowid`, the oldest are kept.
CappedAtOldest(rows) ==
    {row \in rows : Cardinality({other \in rows : other.rowid < row.rowid}) < Cap}

Capped(rows) ==
    {row \in rows : Cardinality({other \in rows : other.rowid > row.rowid}) < Cap}

Swept(rows) == Capped({row \in rows : ~TooOld(row)})

Waits(n) == turns[n].awaits # "nothing"

Closed(n) == turns' = [turns EXCEPT ![n].awaits = "nothing"]

\* What could not be stored or swept is logged, and the client is answered.
Answer(n, id, shape, big, written, swept) ==
    LET rows == IF written THEN Written(Record(n, id, shape, big)) ELSE store
    IN  /\ Waits(n)
        /\ store' = IF turns[n].awaits = "answer" \/ id = NoId THEN store
                    ELSE IF swept THEN Swept(rows) ELSE rows
        /\ Closed(n)
        /\ UNCHANGED <<now, deleting>>

Fail(n) ==
    /\ Waits(n)
    /\ Closed(n)
    /\ UNCHANGED <<now, store, deleting>>

-----------------------------------------------------------------------------
(***************************************************************************)
(* GET and DELETE.                                                         *)
(***************************************************************************)
Get(caller, id) ==
    /\ store' = Looked(id)
    /\ UNCHANGED <<now, turns, deleting>>

DeleteLooks(caller, id) ==
    /\ Cardinality(deleting) < MaxDeletes
    /\ store' = Looked(id)
    /\ deleting' = deleting \union
           { [caller |-> caller, id |-> row.id] : row \in Found(caller, id) }
    /\ UNCHANGED <<now, turns>>

Removed(request) == {row \in store : row.id # request.id}

DeleteRow(request) ==
    /\ store' = Removed(request)
    /\ deleting' = deleting \ {request}
    /\ UNCHANGED <<now, turns>>

DeleteFails(request) ==
    /\ deleting' = deleting \ {request}
    /\ UNCHANGED <<now, store, turns>>

Tick ==
    /\ now < MaxNow
    /\ now' = now + 1
    /\ UNCHANGED <<store, turns, deleting>>

-----------------------------------------------------------------------------
Requests ==
    \E caller \in Callers, id \in Ids :
        \/ \E model \in Names, kept \in BOOLEAN, previous \in {id, NoId} :
               Ask(caller, model, previous, kept)
        \/ Get(caller, id)
        \/ DeleteLooks(caller, id)

Upstreams ==
    \E n \in DOMAIN turns :
        \/ \E id \in Ids \union {NoId}, shape \in Shapes, big, written, swept \in BOOLEAN :
               Answer(n, id, shape, big, written, swept)
        \/ Fail(n)

Deletes == \E request \in deleting : DeleteRow(request) \/ DeleteFails(request)

Next == Requests \/ Upstreams \/ Deletes \/ Tick

Spec == Init /\ [][Next]_vars

-----------------------------------------------------------------------------
\* A turn is sent upstream with messages of its own caller's turns only,
\* whoever else's response was stored, deleted or written over under an id it
\* knows.  (lib.rs:1488 response_visible, checked at 1548 before each use)
OnlyOwnTurns ==
    \A n \in DOMAIN turns : \A i \in DOMAIN turns[n].sent :
        turns[turns[n].sent[i].turn].caller = turns[n].caller

\* A row leaves the table because it was deleted, because its time had come, or
\* because as many rows as the cap allows came after it.
\* (lib.rs:1380 sweep_response_store: what a sweep, a look-up and a delete that
\* meet on one table take out of it)
DropsOnlyWhatIsDue ==
    [][ \A row \in store :
          (\A other \in store' : other.id # row.id) =>
            \/ \E request \in deleting \ deleting' : request.id = row.id
            \/ now - row.at >= Ttl
            \/ /\ Cardinality(store') = Cap
               /\ \A other \in store' : other.rowid > row.rowid ]_vars

=============================================================================
