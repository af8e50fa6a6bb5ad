------------------------------ MODULE Migrations ------------------------------
(***************************************************************************)
(* The migration runner, crates/heterion-router-db/src/migrate.rs, as a    *)
(* process runs it when it starts: the ledger, the versions it reads from  *)
(* it, the column the combos need, the pending migrations, the columns the *)
(* keys need.                                                              *)
(*                                                                         *)
(* Every statement outside a transaction is committed by itself, and every *)
(* migration together with its line in the ledger, so that a process may   *)
(* end, and another one run, between any two steps.  What a process read   *)
(* about the schema is used after others may have changed it; adding a     *)
(* column that is there is an error, which ends the process.               *)
(***************************************************************************)
EXTENDS Integers, FiniteSets, Sequences

CONSTANTS
    Processes,          \* processes that may start on one database file
    FirstDatabases,     \* what they may find there
    KEY_COLUMNS         \* API_KEYS_COMPAT_COLUMNS, in order

VARIABLES
    db,                 \* the schema, the ledger and the combos
    at,                 \* where each process is; "off" when it does not run
    seen                \* what it has read and not yet acted on

migrationVars == <<db, at, seen>>

Versions == {"001", "002"}

\* A fresh file, and one table of the combos whose model list is empty:
\* "none", "active" (it is offered to clients), "archived".
Fresh == [ledger |-> {}, combos |-> FALSE, active |-> FALSE, keys |-> FALSE,
          columns |-> {}, emptyCombo |-> "none"]

KeyColumns == {KEY_COLUMNS[i] : i \in DOMAIN KEY_COLUMNS}

Databases ==
    [ledger : SUBSET Versions, combos : BOOLEAN, active : BOOLEAN, keys : BOOLEAN,
     columns : SUBSET KeyColumns, emptyCombo : {"none", "active", "archived"}]

\* A version in the ledger has had its effect.
Recorded(d) ==
    /\ "001" \in d.ledger => d.combos /\ d.keys
    /\ "002" \in d.ledger => d.emptyCombo # "active"

ASSUME MigrationAssumption ==
    \A d \in FirstDatabases : d \in Databases /\ Recorded(d)

ASSUME ColumnsAssumption == KEY_COLUMNS \in Seq(KeyColumns)

MigrationInit ==
    /\ db \in FirstDatabases
    /\ at = [p \in Processes |-> "off"]
    /\ seen = [p \in Processes |-> <<>>]

Goto(p, pc) == at' = [at EXCEPT ![p] = pc]
Reads(p, what) == seen' = [seen EXCEPT ![p] = what]
\* An error that main() returns.
Stops(p) == at' = [at EXCEPT ![p] = "off"] /\ seen' = [seen EXCEPT ![p] = <<>>]

-----------------------------------------------------------------------------
\* ensure_ledger, then applied_versions.
applied_versions(p) ==
    /\ at[p] = "ledger"
    /\ Reads(p, [applied |-> db.ledger])
    /\ Goto(p, "combos")
    /\ UNCHANGED db

\* ensure_combos_columns looks: no table yet, or the column is there.
LooksAtCombos(p) ==
    /\ at[p] = "combos"
    /\ Goto(p, IF db.combos /\ ~db.active THEN "addActive" ELSE "001")
    /\ UNCHANGED <<db, seen>>

\* ALTER TABLE combos ADD COLUMN active: every row gets the default, 1.
AddsActive(p) ==
    /\ at[p] = "addActive"
    /\ IF db.active THEN Stops(p) /\ UNCHANGED db
       ELSE /\ db' = [db EXCEPT !.active = TRUE]
            /\ Goto(p, "001") /\ UNCHANGED seen

\* What a migration does; none of them fails on a table it creates.
Body(version, d) ==
    IF version = "001"
    THEN \* CREATE TABLE IF NOT EXISTS: a table that is there stays as it is.
         [d EXCEPT !.combos = TRUE, !.active = @ \/ ~d.combos, !.keys = TRUE]
    ELSE \* archive_empty_combos
         [d EXCEPT !.emptyCombo = IF @ = "active" THEN "archived" ELSE @]

\* A pending migration and its line in the ledger, in one transaction.
Migrates(p, version, next) ==
    /\ at[p] = version
    /\ db' = IF version \in seen[p].applied THEN db
             ELSE [Body(version, db) EXCEPT !.ledger = @ \cup {version}]
    /\ Goto(p, next)
    /\ UNCHANGED seen

\* Without the look at the table.
AddsUnseen(p) ==
    /\ at[p] = "columns"
    /\ Reads(p, [missing |-> KeyColumns])
    /\ Goto(p, "addColumns")
    /\ UNCHANGED db

\* Only in the start that applies a migration.
LooksWhenMigrated(p) ==
    /\ at[p] = "columns"
    /\ Reads(p, [missing |-> IF seen[p].applied = Versions THEN {}
                             ELSE KeyColumns \ db.columns])
    /\ Goto(p, "addColumns")
    /\ UNCHANGED db

\* ensure_api_keys_columns, on every start: the columns that are missing,
\* then one statement for each.  The table is there, made by the first
\* migration or before it.
LooksAtKeys(p) ==
    /\ at[p] = "columns"
    /\ Reads(p, [missing |-> KeyColumns \ db.columns])
    /\ Goto(p, "addColumns")
    /\ UNCHANGED db

\* The first of some columns, in the order of the list.
FirstOf(columns) ==
    KEY_COLUMNS[CHOOSE i \in DOMAIN KEY_COLUMNS :
                  /\ KEY_COLUMNS[i] \in columns
                  /\ \A j \in 1 .. i - 1 : KEY_COLUMNS[j] \notin columns]

AddsColumn(p) ==
    LET missing == seen[p].missing
        column  == FirstOf(missing)
    IN
    /\ at[p] = "addColumns"
    /\ IF missing = {}
       THEN Goto(p, "migrated") /\ Reads(p, <<>>) /\ UNCHANGED db
       ELSE IF column \in db.columns
       THEN Stops(p) /\ UNCHANGED db
       ELSE /\ db' = [db EXCEPT !.columns = @ \cup {column}]
            /\ Reads(p, [missing |-> missing \ {column}])
            /\ UNCHANGED at

migrate(p) ==
    \/ applied_versions(p) \/ LooksAtCombos(p) \/ AddsActive(p)
    \/ Migrates(p, "001", "002") \/ Migrates(p, "002", "columns")
    \/ LooksAtKeys(p) \/ AddsColumn(p)

\* What the queries of a serving process rely on.  The empty combo is archived
\* as long as no operator switches it on again.
Migrated ==
    /\ db.ledger = Versions
    /\ db.combos /\ db.active /\ db.keys
    /\ KeyColumns \subseteq db.columns
    /\ db.emptyCombo # "active"

=============================================================================
