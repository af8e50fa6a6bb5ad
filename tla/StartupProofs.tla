----------------------------- MODULE StartupProofs -----------------------------
(***************************************************************************)
(* Theorems about Startup for any number of processes, any first databases *)
(* and any columns.  The schema only grows, and what a process relies on   *)
(* where it stands stays true whatever the others do.  The file of the     *)
(* thought signatures, read again, gives each at its last value, for any   *)
(* capacity, as long as no writing of it was torn.                         *)
(***************************************************************************)
EXTENDS Startup, SequenceTheorems, FiniteSetTheorems, WellFoundedInduction, TLAPS

Ready == {"migrated", "open", "truncate", "write", "bind", "serving"}
PastBoth == {"columns", "addColumns"} \cup Ready
PastFirst == {"002"} \cup PastBoth
PastCombos == {"001"} \cup PastFirst
Places == {"off", "ledger", "combos", "addActive"} \cup PastCombos

Seen == {<<>>} \cup [applied : SUBSET Versions] \cup [missing : SUBSET KeyColumns]

\* What a process that is there relies on.
Reached(d, place, read) ==
    /\ place \in {"combos", "addActive", "001", "002"} =>
         read \in [applied : SUBSET Versions] /\ read.applied \subseteq d.ledger
    /\ place \in PastCombos => (d.combos => d.active)
    /\ place \in PastFirst => d.combos /\ d.active /\ d.keys /\ "001" \in d.ledger
    /\ place \in PastBoth => "002" \in d.ledger
    /\ place = "addColumns" =>
         /\ read \in [missing : SUBSET KeyColumns]
         /\ KeyColumns \subseteq d.columns \cup read.missing
    /\ place \in Ready => KeyColumns \subseteq d.columns

IInv ==
    /\ db \in Databases /\ Recorded(db)
    /\ at \in [Processes -> Places] /\ seen \in [Processes -> Seen]
    /\ \A p \in Processes : Reached(db, at[p], seen[p])

\* The state of the schema only grows, and stays one.
Grows ==
    /\ db' \in Databases /\ Recorded(db')
    /\ db.ledger \subseteq db'.ledger /\ db.columns \subseteq db'.columns
    /\ db.combos => db'.combos
    /\ db.active => db'.active
    /\ db.keys => db'.keys
    /\ (db.combos => db.active) => (db'.combos => db'.active)

\* What a process relies on stays true while the schema grows.
LEMMA ReachedStays ==
  ASSUME Grows, NEW place, NEW read, Reached(db, place, read)
  PROVE  Reached(db', place, read)
BY DEF Grows, Reached

\* The step of one process keeps the invariant if it lets the schema only grow
\* and brings the process to a place where it has what it relies on.
LEMMA OneProcessMoves ==
  ASSUME IInv, Grows, NEW p \in Processes, NEW place \in Places, NEW read \in Seen,
         at' = [at EXCEPT ![p] = place], seen' = [seen EXCEPT ![p] = read],
         Reached(db', place, read)
  PROVE  IInv'
<1>1. at' \in [Processes -> Places] /\ seen' \in [Processes -> Seen]
  BY DEF IInv
<1>2. ASSUME NEW q \in Processes PROVE Reached(db', at'[q], seen'[q])
  <2>1. CASE q = p
    <3>1. at'[p] = place /\ seen'[p] = read
      BY DEF IInv
    <3> QED
      BY <2>1, <3>1
  <2>2. CASE q # p
    <3>1. at'[q] = at[q] /\ seen'[q] = seen[q]
      BY <2>2 DEF IInv
    <3>2. Reached(db, at[q], seen[q])
      BY DEF IInv
    <3> QED
      BY <3>1, <3>2, ReachedStays
  <2> QED
    BY <2>1, <2>2
<1> QED
  BY <1>1, <1>2 DEF IInv, Grows

\* The schema grows when it stays as it is.
LEMMA Unchanged ==
  ASSUME IInv, UNCHANGED db
  PROVE  Grows
BY DEF IInv, Grows

\* A process may stop, and one that has stopped may start, wherever the others are.
LEMMA EndsKeep ==
  ASSUME IInv, UNCHANGED db, NEW p \in Processes,
         \/ Stops(p)
         \/ at[p] = "off" /\ Goto(p, "ledger") /\ UNCHANGED seen
  PROVE  IInv'
<1>1. Grows
  BY Unchanged
<1>2. CASE Stops(p)
  <2>1. "off" \in Places /\ <<>> \in Seen
    BY DEF Places, Seen
  <2>2. Reached(db', "off", <<>>)
    BY DEF Reached, PastCombos, PastFirst, PastBoth, Ready
  <2> QED
    BY <1>1, <1>2, <2>1, <2>2, OneProcessMoves DEF Stops
<1>3. CASE at[p] = "off" /\ Goto(p, "ledger") /\ UNCHANGED seen
  <2>1. "ledger" \in Places /\ seen[p] \in Seen /\ seen = [seen EXCEPT ![p] = seen[p]]
    BY DEF Places, IInv
  <2>2. Reached(db', "ledger", seen[p])
    BY <1>3 DEF Reached, PastCombos, PastFirst, PastBoth, Ready
  <2> QED
    BY <1>1, <1>3, <2>1, <2>2, OneProcessMoves DEF Goto
<1> QED
  BY <1>2, <1>3

\* A process that has migrated stays where everything is there.
LEMMA ReadyKeeps ==
  ASSUME IInv, UNCHANGED <<db, seen>>, NEW p \in Processes, at[p] \in Ready,
         NEW place \in Ready, Goto(p, place)
  PROVE  IInv'
<1>1. place \in Places /\ seen[p] \in Seen /\ seen = [seen EXCEPT ![p] = seen[p]]
  BY DEF Places, PastCombos, PastFirst, PastBoth, IInv
<1>2. Reached(db, at[p], seen[p])
  BY DEF IInv
<1>3. Reached(db', place, seen[p])
  BY <1>2 DEF Reached, PastCombos, PastFirst, PastBoth, Ready
<1> QED
  BY <1>1, <1>3, Unchanged, OneProcessMoves DEF Goto

\* There is a first of some columns of the list.
LEMMA FirstIsThere ==
  ASSUME NEW columns \in SUBSET KeyColumns, columns # {}
  PROVE  FirstOf(columns) \in columns
<1> DEFINE places == {i \in DOMAIN KEY_COLUMNS : KEY_COLUMNS[i] \in columns}
           before == OpToRel(<, Nat)
<1>1. DOMAIN KEY_COLUMNS \subseteq Nat
  BY ColumnsAssumption
<1>2. places \subseteq Nat /\ places # {}
  BY <1>1 DEF KeyColumns
<1>3. \E i \in places : \A j \in places : <<j, i>> \notin before
  <2> HIDE DEF places, before
  <2>1. IsWellFoundedOn(before, Nat)
    BY NatLessThanWellFounded DEF before
  <2> QED
    BY <1>2, <2>1, WFMin
<1>4. PICK i \in places : \A j \in places : ~(j < i)
  BY <1>2, <1>3 DEF OpToRel
<1>5. \A j \in 1 .. i - 1 : KEY_COLUMNS[j] \notin columns
  <2> SUFFICES ASSUME NEW j \in 1 .. i - 1, KEY_COLUMNS[j] \in columns PROVE FALSE
    OBVIOUS
  <2>1. i \in 1 .. Len(KEY_COLUMNS) /\ Len(KEY_COLUMNS) \in Nat
    BY ColumnsAssumption
  <2>2. j \in DOMAIN KEY_COLUMNS /\ j < i
    BY <2>1, ColumnsAssumption
  <2> QED
    BY <1>4, <2>2
<1> QED
  BY <1>4, <1>5 DEF FirstOf

\* The steps of the migration.
LEMMA MigrationKeeps ==
  ASSUME IInv, NEW p \in Processes, migrate(p)
  PROVE  IInv'
<1> USE DEF Goto, Reads
<1>0. /\ db \in Databases /\ Recorded(db)
      /\ Reached(db, at[p], seen[p])
      /\ seen[p] \in Seen /\ seen = [seen EXCEPT ![p] = seen[p]]
      /\ at[p] \in Places /\ at = [at EXCEPT ![p] = at[p]]
  BY DEF IInv
<1>1. CASE applied_versions(p)
  <2> DEFINE read == [applied |-> db.ledger]
  <2>1. read \in [applied : SUBSET Versions] /\ read \in Seen /\ "combos" \in Places
    BY <1>0 DEF Databases, Seen, Places
  <2>2. Reached(db', "combos", read)
    BY <1>1, <2>1 DEF applied_versions, Reached, PastCombos, PastFirst, PastBoth, Ready
  <2> QED
    BY <1>1, <2>1, <2>2, Unchanged, OneProcessMoves DEF applied_versions
<1>2. CASE LooksAtCombos(p)
  <2> DEFINE place == IF db.combos /\ ~db.active THEN "addActive" ELSE "001"
  <2>1. place \in Places
    BY DEF Places, PastCombos
  <2>2. Reached(db', place, seen[p])
    BY <1>0, <1>2 DEF LooksAtCombos, Reached, PastCombos, PastFirst, PastBoth, Ready
  <2> QED
    BY <1>0, <1>2, <2>1, <2>2, Unchanged, OneProcessMoves DEF LooksAtCombos
<1>3. CASE AddsActive(p)
  <2>1. CASE db.active
    BY <1>3, <2>1, EndsKeep DEF AddsActive
  <2>2. CASE ~db.active
    <3>1. /\ db' = [db EXCEPT !.active = TRUE] /\ at' = [at EXCEPT ![p] = "001"]
          /\ seen' = seen /\ at[p] = "addActive"
      BY <1>3, <2>2 DEF AddsActive
    <3>2. Grows
      BY <1>0, <3>1 DEF Grows, Databases, Recorded
    <3>3. Reached(db', "001", seen[p])
      BY <1>0, <3>1 DEF Reached, Databases, PastCombos, PastFirst, PastBoth, Ready
    <3>4. "001" \in Places
      BY DEF Places, PastCombos
    <3> QED
      BY <1>0, <3>1, <3>2, <3>3, <3>4, OneProcessMoves
  <2> QED
    BY <2>1, <2>2
<1>4. CASE Migrates(p, "001", "002")
  <2>1. /\ seen[p] \in [applied : SUBSET Versions] /\ seen[p].applied \subseteq db.ledger
        /\ db.combos => db.active
        /\ at[p] = "001" /\ at' = [at EXCEPT ![p] = "002"] /\ seen' = seen
    BY <1>0, <1>4 DEF Migrates, Reached, PastCombos
  <2>2. /\ Grows
        /\ db'.combos /\ db'.active /\ db'.keys /\ "001" \in db'.ledger
    <3>1. CASE "001" \in seen[p].applied
      <4>1. db' = db
        BY <1>4, <3>1 DEF Migrates
      <4> QED
        BY <1>0, <2>1, <3>1, <4>1, Unchanged DEF Recorded
    <3>2. CASE "001" \notin seen[p].applied
      <4>1. db' = [[db EXCEPT !.combos = TRUE, !.active = db.active \/ ~db.combos,
                              !.keys = TRUE] EXCEPT !.ledger = db.ledger \cup {"001"}]
        BY <1>0, <1>4, <3>2 DEF Migrates, Body, Databases
      <4>2. /\ db'.combos = TRUE /\ db'.keys = TRUE /\ db'.active = TRUE
            /\ db'.ledger = db.ledger \cup {"001"} /\ db'.columns = db.columns
            /\ db'.emptyCombo = db.emptyCombo /\ db' \in Databases
        BY <1>0, <2>1, <4>1 DEF Databases, Versions
      <4> QED
        BY <1>0, <4>2 DEF Grows, Recorded
    <3> QED
      BY <3>1, <3>2
  <2>3. Reached(db', "002", seen[p])
    BY <2>1, <2>2 DEF Grows, Reached, PastCombos, PastFirst, PastBoth, Ready
  <2>4. "002" \in Places
    BY DEF Places, PastCombos, PastFirst
  <2> QED
    BY <1>0, <2>1, <2>2, <2>3, <2>4, OneProcessMoves
<1>5. CASE Migrates(p, "002", "columns")
  <2>1. /\ seen[p] \in [applied : SUBSET Versions] /\ seen[p].applied \subseteq db.ledger
        /\ db.combos /\ db.active /\ db.keys /\ "001" \in db.ledger
        /\ at[p] = "002" /\ at' = [at EXCEPT ![p] = "columns"] /\ seen' = seen
    BY <1>0, <1>5 DEF Migrates, Reached, PastFirst
  <2>2. Grows /\ "002" \in db'.ledger
    <3>1. CASE "002" \in seen[p].applied
      <4>1. db' = db
        BY <1>5, <3>1 DEF Migrates
      <4> QED
        BY <2>1, <3>1, <4>1, Unchanged
    <3>2. CASE "002" \notin seen[p].applied
      <4> DEFINE archived == IF db.emptyCombo = "active" THEN "archived" ELSE db.emptyCombo
      <4>1. db' = [[db EXCEPT !.emptyCombo = archived] EXCEPT !.ledger = db.ledger \cup {"002"}]
        BY <1>0, <1>5, <3>2 DEF Migrates, Body, Databases
      <4>2. /\ db'.combos = db.combos /\ db'.keys = db.keys /\ db'.active = db.active
            /\ db'.ledger = db.ledger \cup {"002"} /\ db'.columns = db.columns
            /\ db'.emptyCombo # "active" /\ db' \in Databases
        BY <1>0, <4>1 DEF Databases, Versions
      <4> QED
        BY <1>0, <4>2 DEF Grows, Recorded
    <3> QED
      BY <3>1, <3>2
  <2>3. Reached(db', "columns", seen[p])
    BY <2>1, <2>2 DEF Grows, Reached, PastCombos, PastFirst, PastBoth, Ready
  <2>4. "columns" \in Places
    BY DEF Places, PastCombos, PastFirst, PastBoth
  <2> QED
    BY <1>0, <2>1, <2>2, <2>3, <2>4, OneProcessMoves
<1>6. CASE LooksAtKeys(p)
  <2> DEFINE read == [missing |-> KeyColumns \ db.columns]
  <2>1. /\ read \in [missing : SUBSET KeyColumns] /\ read \in Seen
        /\ KeyColumns \subseteq db.columns \cup read.missing
        /\ "addColumns" \in Places
    BY DEF Seen, Places, PastCombos, PastFirst, PastBoth
  <2>2. Reached(db', "addColumns", read)
    BY <1>0, <1>6, <2>1 DEF LooksAtKeys, Reached, PastCombos, PastFirst, PastBoth, Ready
  <2> QED
    BY <1>6, <2>1, <2>2, Unchanged, OneProcessMoves DEF LooksAtKeys
<1>7. CASE AddsColumn(p)
  <2> DEFINE missing == seen[p].missing
             column  == FirstOf(missing)
             read    == [missing |-> missing \ {column}]
  <2>1. /\ at[p] = "addColumns" /\ seen[p] \in [missing : SUBSET KeyColumns]
        /\ KeyColumns \subseteq db.columns \cup missing
    BY <1>0, <1>7 DEF AddsColumn, Reached
  <2>2. CASE missing = {}
    <3>1. "migrated" \in Places /\ <<>> \in Seen
      BY DEF Places, PastCombos, PastFirst, PastBoth, Ready, Seen
    <3>2. UNCHANGED db /\ Reached(db', "migrated", <<>>)
      BY <1>0, <1>7, <2>1, <2>2
         DEF AddsColumn, Reached, PastCombos, PastFirst, PastBoth, Ready
    <3> QED
      BY <1>7, <2>2, <3>1, <3>2, Unchanged, OneProcessMoves DEF AddsColumn
  <2>3. CASE missing # {} /\ column \in db.columns
    BY <1>7, <2>3, EndsKeep DEF AddsColumn
  <2>4. CASE missing # {} /\ column \notin db.columns
    <3>1. /\ db' = [db EXCEPT !.columns = db.columns \cup {column}]
          /\ seen' = [seen EXCEPT ![p] = read] /\ at' = at
      BY <1>0, <1>7, <2>4 DEF AddsColumn, Databases
    <3>2. column \in KeyColumns
      BY <2>1, <2>4, FirstIsThere
    <3>3. Grows
      BY <1>0, <3>1, <3>2 DEF Grows, Databases, Recorded
    <3>4. read \in [missing : SUBSET KeyColumns] /\ read \in Seen
      BY <2>1 DEF Seen
    <3>5. Reached(db', "addColumns", read)
      BY <1>0, <2>1, <3>1, <3>4
         DEF Databases, Reached, PastCombos, PastFirst, PastBoth, Ready
    <3> QED
      BY <1>0, <2>1, <3>1, <3>3, <3>4, <3>5, OneProcessMoves, ZenonT(60)
  <2> QED
    BY <2>2, <2>3, <2>4
<1> QED
  BY <1>1, <1>2, <1>3, <1>4, <1>5, <1>6, <1>7 DEF migrate

\* Every step of every process keeps the invariant.
THEOREM StartupInvariance == Spec => []IInv
<1>1. Init => IInv
  BY MigrationAssumption
     DEF Init, MigrationInit, IInv, Reached, Places, PastCombos, PastFirst, PastBoth, Ready, Seen
<1>2. IInv /\ [Next]_vars => IInv'
  <2> SUFFICES ASSUME IInv, [Next]_vars PROVE IInv'
    OBVIOUS
  <2>1. CASE UNCHANGED vars
    BY <2>1 DEF vars, migrationVars, IInv
  <2>2. ASSUME NEW p \in Processes,
               \/ Start(p) \/ Proceeds(p) \/ Crash(p)
               \/ \E id \in 1..MaxRecords : Record(p, id)
        PROVE  IInv'
    <3>1. CASE Start(p)
      BY <3>1, EndsKeep DEF Start
    <3>2. CASE Migrate(p)
      BY <3>2, MigrationKeeps DEF Migrate
    <3>3. CASE ValidateAuthPolicy(p)
      <4>1. "migrated" \in Ready /\ "open" \in Ready
        BY DEF Ready
      <4> QED
        BY <3>3, <4>1, EndsKeep, ReadyKeeps DEF ValidateAuthPolicy
    <3>4. CASE Load(p)
      <4>1. "open" \in Ready /\ "truncate" \in Ready
        BY DEF Ready
      <4> QED
        BY <3>4, <4>1, ReadyKeeps DEF Load
    <3>5. CASE Truncate(p)
      <4>1. "truncate" \in Ready /\ "write" \in Ready
        BY DEF Ready
      <4> QED
        BY <3>5, <4>1, ReadyKeeps DEF Truncate
    <3>6. CASE Write(p)
      <4>1. "write" \in Ready /\ "bind" \in Ready
        BY DEF Ready
      <4> QED
        BY <3>6, <4>1, ReadyKeeps DEF Write
    <3>7. CASE Bind(p)
      <4>1. "bind" \in Ready /\ "serving" \in Ready
        BY DEF Ready
      <4> QED
        BY <3>7, <4>1, EndsKeep, ReadyKeeps DEF Bind, Ended
    <3>8. CASE AppendLine(p) \/ \E id \in 1..MaxRecords : Record(p, id)
      <4>1. UNCHANGED migrationVars
        BY <3>8 DEF AppendLine, Record
      <4> QED
        BY <4>1 DEF migrationVars, IInv
    <3>9. CASE Crash(p)
      BY <3>9, EndsKeep DEF Crash, Ended
    <3> QED
      BY <2>2, <3>1, <3>2, <3>3, <3>4, <3>5, <3>6, <3>7, <3>8, <3>9 DEF Proceeds
  <2> QED
    BY <2>1, <2>2 DEF Next
<1> QED
  BY <1>1, <1>2, PTL DEF Spec

\* A process that serves finds the schema and the ledger whole, whatever starts
\* were cut short before and whatever runs beside it (migrate.rs:163-197).
THEOREM MigratedWhenServing == Spec => []ServesOnlyMigrated
<1>1. IInv => ServesOnlyMigrated
  <2> SUFFICES ASSUME IInv, NEW p \in Processes, at[p] = "serving" PROVE Migrated
    BY DEF ServesOnlyMigrated
  <2>1. Reached(db, "serving", seen[p]) /\ db \in Databases /\ Recorded(db)
    BY DEF IInv
  <2>2. /\ db.combos /\ db.active /\ db.keys /\ "001" \in db.ledger
        /\ "002" \in db.ledger /\ KeyColumns \subseteq db.columns
    BY <2>1 DEF Reached, PastCombos, PastFirst, PastBoth, Ready
  <2> QED
    BY <2>1, <2>2 DEF Migrated, Recorded, Databases, Versions
<1> QED
  BY <1>1, StartupInvariance, PTL

-----------------------------------------------------------------------------
\* What holds of 0 and of every successor holds of every number.
LEMMA Induction ==
  ASSUME NEW S, 0 \in S, \A n \in Nat : n \in S => n + 1 \in S
  PROVE  Nat \subseteq S
<1>1. SUFFICES ASSUME Nat \ S # {} PROVE FALSE
  OBVIOUS
<1> DEFINE R == OpToRel(<, Nat)
<1>2. \A x, y \in Nat : <<y, x>> \in R <=> y < x
  BY DEF OpToRel
<1>3. IsWellFoundedOn(R, Nat)
  BY NatLessThanWellFounded
<1>4. \E x \in Nat \ S : \A y \in Nat \ S : ~(<<y, x>> \in R)
  <2>. HIDE DEF R
  <2>. QED BY <1>1, <1>3, WFMin
<1>5. PICK x \in Nat \ S : \A y \in Nat \ S : ~(y < x)
  BY <1>2, <1>4
<1>6. x # 0 /\ x - 1 \in Nat /\ x - 1 < x /\ (x - 1) + 1 = x
  BY <1>5
<1>. QED BY <1>5, <1>6

-----------------------------------------------------------------------------
(* What a replay computes: one line after the other. *)

\* A set of numbers up to n has a greatest.
LEMMA GreatestIs ==
  ASSUME NEW n \in Nat, NEW T \in SUBSET (1 .. n), T # {}
  PROVE  Max(T) \in T /\ \A y \in T : Max(T) >= y
<1> DEFINE Has(m) == \A V \in SUBSET (1 .. m) : V # {} => \E x \in V : \A y \in V : x >= y
           Alike == {m \in Nat : Has(m)}
<1>1. Has(0)
  <2>1. 1 .. 0 = {}
    OBVIOUS
  <2>. QED BY <2>1
<1>2. ASSUME NEW m \in Nat, Has(m) PROVE Has(m + 1)
  <2>1. ASSUME NEW V \in SUBSET (1 .. m + 1), V # {}
        PROVE  \E x \in V : \A y \in V : x >= y
    <3>1. CASE m + 1 \in V
      <4>1. \A y \in V : m + 1 >= y
        OBVIOUS
      <4>. QED BY <3>1, <4>1
    <3>2. CASE m + 1 \notin V
      <4>1. V \in SUBSET (1 .. m)
        BY <3>2
      <4>. QED BY <1>2, <2>1, <4>1
    <3>. QED BY <3>1, <3>2
  <2>. QED BY <2>1
<1>3. Nat \subseteq Alike
  <2>1. 0 \in Alike /\ \A m \in Nat : m \in Alike => m + 1 \in Alike
    <3>. HIDE DEF Has
    <3>. QED BY <1>1, <1>2
  <2>. HIDE DEF Alike
  <2>. QED BY <2>1, Induction
<1>4. \E x \in T : \A y \in T : x >= y
  <2>1. Has(n)
    <3>. HIDE DEF Has
    <3>. QED BY <1>3
  <2>. QED BY <2>1
<1>. QED BY <1>4 DEF Max

\* The function that FoldLeft computes, of the sets of places in s.
After(F, s, T) ==
    IF T = {} THEN Empty
    ELSE Inserted(F[T \ {Max(T)}], s[Max(T)].id, s[Max(T)].value)

Replays(F, s, n) == F = [T \in SUBSET (1 .. n) |-> After(F, s, T)]

\* The fold of the community module is a value of a function on the first lines.
LEMMA ReplayIsAValue ==
  ASSUME NEW X, NEW s \in Seq(X)
  PROVE  Replayed(s) = (CHOOSE F : Replays(F, s, Len(s)))[1 .. Len(s)]
<1>1. DOMAIN s = 1 .. Len(s)
  OBVIOUS
<1>. QED BY <1>1 DEF Replayed, FoldLeft, MapThenFoldSet, Replays, After

\* There is such a function, for any number of lines.
LEMMA ReplayExists ==
  ASSUME NEW s, NEW n \in Nat
  PROVE  \E F : Replays(F, s, n)
<1> DEFINE Alike == {m \in Nat : \E F : Replays(F, s, m)}
<1>1. 0 \in Alike
  <2> DEFINE F == [T \in SUBSET (1 .. 0) |-> Empty]
  <2>1. 1 .. 0 = {}
    OBVIOUS
  <2>2. \A T \in SUBSET (1 .. 0) : After(F, s, T) = Empty
    BY <2>1 DEF After
  <2>3. Replays(F, s, 0)
    BY <2>2 DEF Replays
  <2>. QED BY <2>3
<1>2. ASSUME NEW m \in Nat, m \in Alike PROVE m + 1 \in Alike
  <2>1. PICK F : Replays(F, s, m)
    BY <1>2
  <2> DEFINE G == [T \in SUBSET (1 .. m + 1) |-> After(F, s, T)]
  <2>2. ASSUME NEW T \in SUBSET (1 .. m + 1), T # {}
        PROVE  T \ {Max(T)} \in SUBSET (1 .. m)
    <3>1. m + 1 \in Nat
      OBVIOUS
    <3>2. Max(T) \in T /\ \A y \in T : Max(T) >= y
      BY <2>2, <3>1, GreatestIs
    <3>3. ASSUME NEW y \in T \ {Max(T)} PROVE y \in 1 .. m
      <4>1. y \in 1 .. m + 1 /\ Max(T) \in 1 .. m + 1 /\ Max(T) >= y /\ y # Max(T)
        BY <3>2
      <4>. QED BY <4>1
    <3>. QED BY <3>3
  <2>3. \A V \in SUBSET (1 .. m) : V \in SUBSET (1 .. m + 1)
    OBVIOUS
  <2>4. \A V \in SUBSET (1 .. m) : G[V] = F[V]
    BY <2>1, <2>3 DEF Replays
  <2>. HIDE DEF G
  <2>5. \A T \in SUBSET (1 .. m + 1) : After(F, s, T) = After(G, s, T)
    BY <2>2, <2>4 DEF After
  <2>6. Replays(G, s, m + 1)
    BY <2>5 DEF Replays, G
  <2>. QED BY <2>6
<1>3. Nat \subseteq Alike
  <2>. HIDE DEF Alike
  <2>. QED BY <1>1, <1>2, Induction
<1>. QED BY <1>3

\* Whoever replays, the first lines give the same.
LEMMA ReplaySteps ==
  ASSUME NEW s, NEW n \in Nat, NEW F, Replays(F, s, n)
  PROVE  /\ F[1 .. 0] = Empty
         /\ \A k \in 0 .. n - 1 :
              F[1 .. k + 1] = Inserted(F[1 .. k], s[k + 1].id, s[k + 1].value)
<1>1. ASSUME NEW T \in SUBSET (1 .. n) PROVE F[T] = After(F, s, T)
  BY DEF Replays
<1>2. 1 .. 0 = {} /\ 1 .. 0 \in SUBSET (1 .. n)
  OBVIOUS
<1>3. ASSUME NEW k \in 0 .. n - 1
      PROVE  F[1 .. k + 1] = Inserted(F[1 .. k], s[k + 1].id, s[k + 1].value)
  <2>1. k \in Nat /\ k + 1 \in Nat /\ 1 .. k + 1 \in SUBSET (1 .. n) /\ 1 .. k + 1 # {}
    <3>1. k \in Nat /\ k + 1 <= n
      OBVIOUS
    <3>2. 1 \in 1 .. k + 1
      BY <3>1
    <3>3. \A y \in 1 .. k + 1 : y \in 1 .. n
      BY <3>1
    <3>. QED BY <3>1, <3>2, <3>3
  <2>2. Max(1 .. k + 1) = k + 1
    <3>1. Max(1 .. k + 1) \in 1 .. k + 1 /\ \A y \in 1 .. k + 1 : Max(1 .. k + 1) >= y
      BY <2>1, GreatestIs
    <3>2. k + 1 \in 1 .. k + 1
      BY <2>1
    <3>3. Max(1 .. k + 1) >= k + 1
      BY <3>1, <3>2
    <3>. QED BY <2>1, <3>1, <3>3
  <2>3. (1 .. k + 1) \ {k + 1} = 1 .. k
    BY <2>1
  <2>4. F[1 .. k + 1] = After(F, s, 1 .. k + 1)
    BY <1>1, <2>1
  <2>. QED BY <2>1, <2>2, <2>3, <2>4 DEF After
<1>. QED BY <1>1, <1>2, <1>3 DEF After

\* An empty file gives an empty store, and a line more is inserted.
LEMMA ReplayOfNone == Replayed(<<>>) = Empty
<1>1. <<>> \in Seq(Nat) /\ Len(<<>>) = 0
  OBVIOUS
<1>2. Replayed(<<>>) = (CHOOSE F : Replays(F, <<>>, 0))[1 .. 0]
  BY ONLY <1>1, ReplayIsAValue
<1>. QED BY <1>2, ReplayExists, ReplaySteps

\* A line more is inserted into what the lines before it give.
LEMMA ReplayOfMore ==
  ASSUME NEW X, NEW s \in Seq(X), NEW l \in X
  PROVE  Replayed(Append(s, l)) = Inserted(Replayed(s), l.id, l.value)
<1> DEFINE n == Len(s)
           t == Append(s, l)
           F == CHOOSE H : Replays(H, s, n)
           G == CHOOSE H : Replays(H, t, n + 1)
<1>1. n \in Nat /\ n + 1 \in Nat /\ t \in Seq(X) /\ Len(t) = n + 1 /\ t[n + 1] = l
      /\ \A k \in 1 .. n : t[k] = s[k]
  OBVIOUS
<1>2. Replayed(s) = F[1 .. n] /\ Replayed(t) = G[1 .. n + 1]
  <2>. HIDE DEF t
  <2>1. Replayed(t) = (CHOOSE H : Replays(H, t, Len(t)))[1 .. Len(t)]
    BY <1>1, ReplayIsAValue
  <2>2. Replayed(s) = (CHOOSE H : Replays(H, s, Len(s)))[1 .. Len(s)]
    BY ReplayIsAValue
  <2>. QED BY <1>1, <2>1, <2>2
<1>. HIDE DEF n, t
<1>3. Replays(F, s, n) /\ Replays(G, t, n + 1)
  BY <1>1, ReplayExists
<1>. HIDE DEF F, G
<1>4. /\ F[1 .. 0] = Empty
      /\ \A k \in 0 .. n - 1 : F[1 .. k + 1] = Inserted(F[1 .. k], s[k + 1].id, s[k + 1].value)
  BY <1>1, <1>3, ReplaySteps
<1>5. /\ G[1 .. 0] = Empty
      /\ \A k \in 0 .. (n + 1) - 1 :
           G[1 .. k + 1] = Inserted(G[1 .. k], t[k + 1].id, t[k + 1].value)
  BY <1>1, <1>3, ReplaySteps
<1> DEFINE Alike == {k \in Nat : k <= n => F[1 .. k] = G[1 .. k]}
<1>6. 0 \in Alike
  BY <1>4, <1>5
<1>7. ASSUME NEW k \in Nat, k \in Alike PROVE k + 1 \in Alike
  <2>1. SUFFICES ASSUME k + 1 <= n PROVE F[1 .. k + 1] = G[1 .. k + 1]
    OBVIOUS
  <2>2. k \in 0 .. n - 1 /\ k \in 0 .. (n + 1) - 1 /\ k + 1 \in 1 .. n /\ k <= n
    BY <1>1, <2>1
  <2>3. F[1 .. k] = G[1 .. k] /\ t[k + 1] = s[k + 1]
    BY <1>1, <1>7, <2>2
  <2>. QED BY <1>4, <1>5, <2>2, <2>3
<1>8. F[1 .. n] = G[1 .. n]
  <2>1. Nat \subseteq Alike
    <3>. HIDE DEF Alike
    <3>. QED BY <1>6, <1>7, Induction
  <2>2. n <= n
    BY <1>1
  <2>. QED BY <1>1, <2>1, <2>2
<1>9. G[1 .. n + 1] = Inserted(G[1 .. n], t[n + 1].id, t[n + 1].value)
  <2>1. n \in 0 .. (n + 1) - 1
    BY <1>1
  <2>. QED BY <1>5, <2>1
<1>. QED BY <1>1, <1>2, <1>8, <1>9 DEF t

-----------------------------------------------------------------------------
(* Stores: no id twice, and a value for each that is held. *)
Lines == [id : Nat, value : Nat]

Good(store) ==
    /\ store.order \in Seq(Nat)
    /\ DOMAIN store.values = {store.order[i] : i \in DOMAIN store.order}
    /\ \A id \in DOMAIN store.values : store.values[id] \in Nat
    /\ \A i, j \in DOMAIN store.order : store.order[i] = store.order[j] => i = j

\* An empty store is one.
LEMMA EmptyIsGood ==
  /\ Good(Empty) /\ DOMAIN Empty.values = {} /\ Empty.order = <<>>
<1>1. Empty.order = <<>> /\ DOMAIN Empty.values = {} /\ <<>> \in Seq(Nat) /\ DOMAIN <<>> = {}
  BY DEF Empty
<1>. QED BY <1>1 DEF Good

\* What inserting does to a store.
Takes(store, id, value, after) ==
    /\ id \in DOMAIN store.values => after.order = store.order
    /\ id \notin DOMAIN store.values => after.order = Append(store.order, id)
    /\ DOMAIN after.values = DOMAIN store.values \cup {id}
    /\ after.values[id] = value
    /\ \A x \in DOMAIN store.values : x # id => after.values[x] = store.values[x]

\* A store stays one, and takes the line.
LEMMA InsertedIs ==
  ASSUME NEW store, Good(store), NEW id \in Nat, NEW value \in Nat,
         NEW after, after = Inserted(store, id, value)
  PROVE  Good(after) /\ Takes(store, id, value, after)
<1> DEFINE held == DOMAIN store.values
           n == Len(store.order)
<1>1. /\ after.order = IF id \in held THEN store.order ELSE Append(store.order, id)
      /\ DOMAIN after.values = held \cup {id}
      /\ after.values[id] = value
      /\ \A x \in held : x # id => after.values[x] = store.values[x]
  BY DEF Inserted
<1>2. Good(after)
  <2>0. \A x \in DOMAIN after.values : after.values[x] \in Nat
    BY <1>1 DEF Good
  <2>1. /\ store.order \in Seq(Nat) /\ DOMAIN store.order = 1 .. n /\ n \in Nat
        /\ held = {store.order[i] : i \in 1 .. n}
        /\ \A i, j \in 1 .. n : store.order[i] = store.order[j] => i = j
    BY DEF Good
  <2>2. CASE id \in held
    <3>1. after.order = store.order /\ DOMAIN after.values = held
      BY <1>1, <2>2
    <3>. HIDE DEF held, n
    <3>. QED BY <2>0, <2>1, <3>1 DEF Good
  <2>3. CASE id \notin held
    <3> DEFINE order == Append(store.order, id)
    <3>1. /\ order \in Seq(Nat) /\ DOMAIN order = 1 .. n + 1
          /\ order[n + 1] = id /\ \A i \in 1 .. n : order[i] = store.order[i]
      BY <2>1
    <3>. HIDE DEF order, n
    <3>2. held \cup {id} = {order[i] : i \in 1 .. n + 1}
      <4>1. \A x \in held : \E i \in 1 .. n + 1 : order[i] = x
        BY <2>1, <3>1, SMTT(60)
      <4>2. n + 1 \in 1 .. n + 1
        BY <2>1
      <4>3. \A i \in 1 .. n + 1 : i = n + 1 \/ i \in 1 .. n
        BY <2>1
      <4>4. \A i \in 1 .. n : order[i] \in held
        BY <2>1, <3>1
      <4>. HIDE DEF held
      <4>. QED BY <3>1, <4>1, <4>2, <4>3, <4>4
    <3>3. \A i, j \in 1 .. n + 1 : order[i] = order[j] => i = j
      <4>1. \A i \in 1 .. n + 1 : i = n + 1 \/ i \in 1 .. n
        BY <2>1
      <4>2. \A i \in 1 .. n : order[i] \in held
        BY <2>1, <3>1
      <4>. QED BY <2>1, <2>3, <3>1, <4>1, <4>2
    <3>4. after.order = order
      BY <1>1, <2>3 DEF order
    <3>5. DOMAIN after.values = held \cup {id}
      BY <1>1
    <3>. HIDE DEF held
    <3>6. after.order \in Seq(Nat) /\ DOMAIN after.order = 1 .. n + 1
      BY <3>1, <3>4, SMTT(60)
    <3>7. DOMAIN after.values = {after.order[i] : i \in DOMAIN after.order}
      BY <3>2, <3>4, <3>5, <3>6
    <3>. QED BY <2>0, <3>3, <3>4, <3>6, <3>7 DEF Good
  <2>. QED BY <2>2, <2>3
<1>. QED BY <1>1, <1>2 DEF Takes

\* How many are too many.
Over(store) ==
    IF Len(store.order) > SIGNATURE_CAPACITY THEN Len(store.order) - SIGNATURE_CAPACITY ELSE 0

\* What follows the first k of a sequence.
LEMMA SubSeqFrom ==
  ASSUME NEW X, NEW s \in Seq(X), NEW k \in Nat, k <= Len(s)
  PROVE  /\ SubSeq(s, k + 1, Len(s)) \in Seq(X)
         /\ Len(SubSeq(s, k + 1, Len(s))) = Len(s) - k
         /\ \A i \in 1 .. Len(s) - k : SubSeq(s, k + 1, Len(s))[i] = s[i + k]
<1>1. Len(s) \in Nat /\ DOMAIN s = 1 .. Len(s) /\ \A i \in 1 .. Len(s) : s[i] \in X
  OBVIOUS
<1>2. SubSeq(s, k + 1, Len(s)) = [i \in 1 .. Len(s) - k |-> s[i + k]]
  BY <1>1
<1>3. \A i \in 1 .. Len(s) - k : i + k \in 1 .. Len(s)
  BY <1>1
<1>4. Len(s) - k \in Nat
  BY <1>1
<1> DEFINE n == Len(s) - k
           t == [i \in 1 .. n |-> s[i + k]]
<1>5. t \in [1 .. n -> X]
  BY <1>1, <1>3
<1>6. t \in Seq(X) /\ Len(t) = n
  <2>. HIDE DEF n, t
  <2>. QED BY <1>4, <1>5 DEF n
<1>. QED BY <1>2, <1>6

\* What trimming does to a store: the first ones fall out.
LEMMA TrimmedIs ==
  ASSUME NEW store, Good(store), NEW after, after = Trimmed(store),
         NEW over, over = Over(store)
  PROVE  /\ Good(after) /\ over \in Nat
         /\ Len(after.order) + over = Len(store.order)
         /\ Len(after.order) <= SIGNATURE_CAPACITY
         /\ over # 0 => Len(after.order) = SIGNATURE_CAPACITY
         /\ \A i \in 1 .. Len(after.order) : after.order[i] = store.order[i + over]
         /\ DOMAIN after.values \subseteq DOMAIN store.values
         /\ \A x \in DOMAIN after.values : after.values[x] = store.values[x]
<1> DEFINE order == store.order
           n == Len(order)
           kept == IF over > 0 THEN SubSeq(order, over + 1, n) ELSE order
<1>1. /\ order \in Seq(Nat) /\ DOMAIN order = 1 .. n /\ n \in Nat
      /\ DOMAIN store.values = {order[i] : i \in 1 .. n}
      /\ \A i, j \in 1 .. n : order[i] = order[j] => i = j
      /\ SIGNATURE_CAPACITY \in Nat
  BY SignatureAssumption DEF Good
<1>2. over \in Nat /\ over <= n /\ n - over <= SIGNATURE_CAPACITY
      /\ (over # 0 => n - over = SIGNATURE_CAPACITY)
  BY <1>1 DEF Over
<1>3. /\ kept \in Seq(Nat) /\ Len(kept) = n - over /\ DOMAIN kept = 1 .. n - over
      /\ \A i \in 1 .. n - over : kept[i] = order[i + over]
  <2>1. CASE over > 0
    <3>. HIDE DEF order, n
    <3>1. kept = SubSeq(order, over + 1, n)
      BY <2>1
    <3>2. over + 1 \in Int /\ n \in Int /\ over + 1 \in 1 .. n + 1 /\ n \in over .. n
      BY <1>1, <1>2
    <3>5. order \in Seq(Nat) /\ over \in Nat /\ over <= Len(order)
      BY <1>1, <1>2 DEF n
    <3>6. /\ SubSeq(order, over + 1, Len(order)) \in Seq(Nat)
          /\ Len(SubSeq(order, over + 1, Len(order))) = Len(order) - over
          /\ \A i \in 1 .. Len(order) - over :
                SubSeq(order, over + 1, Len(order))[i] = order[i + over]
      BY ONLY <3>5, SubSeqFrom, Zenon
    <3>3. /\ SubSeq(order, over + 1, n) \in Seq(Nat)
          /\ Len(SubSeq(order, over + 1, n)) = n - over
          /\ \A i \in 1 .. n - over : SubSeq(order, over + 1, n)[i] = order[i + over]
      BY ONLY <3>6, Zenon DEF n
    <3>4. DOMAIN SubSeq(order, over + 1, n) = 1 .. n - over
      BY <3>3
    <3>. QED BY <3>1, <3>3, <3>4
  <2>2. CASE ~(over > 0)
    <3>1. over = 0 /\ kept = order
      BY <1>2, <2>2
    <3>. HIDE DEF order, kept
    <3>. QED BY <1>1, <3>1
  <2>. QED BY <2>1, <2>2
<1>4. after = [order |-> kept, values |-> Restrict(store.values, ToSet(kept))]
  <2>1. kept = LET k == n - SIGNATURE_CAPACITY IN
               IF k > 0 THEN SubSeq(order, k + 1, n) ELSE order
    BY <1>1 DEF Over
  <2>. QED BY <2>1 DEF Trimmed
<1>. HIDE DEF kept
<1>5. /\ after.order = kept /\ DOMAIN after.values = {kept[i] : i \in DOMAIN kept}
      /\ \A x \in DOMAIN after.values : after.values[x] = store.values[x]
  BY <1>4 DEF Restrict, ToSet
<1>. HIDE DEF order, n
<1>6. \A i \in 1 .. n - over : i + over \in 1 .. n
  BY <1>1, <1>2
<1>8. DOMAIN after.values \subseteq DOMAIN store.values
  BY <1>1, <1>3, <1>5, <1>6
<1>7. Good(after)
  <2>1. \A i, j \in 1 .. n - over : kept[i] = kept[j] => i = j
    <3> SUFFICES ASSUME NEW i \in 1 .. n - over, NEW j \in 1 .. n - over, kept[i] = kept[j]
                 PROVE  i = j
      OBVIOUS
    <3>1. i + over = j + over
      BY <1>1, <1>3, <1>6
    <3>. QED BY <1>1, <1>2, <3>1
  <2>2. \A x \in DOMAIN after.values : after.values[x] \in Nat
    BY <1>5, <1>8 DEF Good
  <2>. QED BY <1>3, <1>5, <2>1, <2>2 DEF Good
<1>9. Len(after.order) = n - over
  BY <1>3, <1>5
<1>10. /\ Good(after) /\ over \in Nat
       /\ Len(after.order) + over = Len(order)
       /\ Len(after.order) <= SIGNATURE_CAPACITY
       /\ over # 0 => Len(after.order) = SIGNATURE_CAPACITY
       /\ \A i \in 1 .. Len(after.order) : after.order[i] = order[i + over]
       /\ DOMAIN after.values \subseteq DOMAIN store.values
       /\ \A x \in DOMAIN after.values : after.values[x] = store.values[x]
  <2>1. Len(after.order) + over = n
    BY <1>1, <1>2, <1>9
  <2>2. \A i \in 1 .. Len(after.order) : after.order[i] = order[i + over]
    BY <1>3, <1>5, <1>9
  <2>. QED BY <1>2, <1>5, <1>7, <1>8, <1>9, <2>1, <2>2 DEF n
<1>. QED BY <1>10 DEF order

\* Two stores that hold the same ids in the same order, at the same values.
Same(a, b) ==
    /\ a.order = b.order
    /\ DOMAIN a.values = DOMAIN b.values
    /\ \A id \in DOMAIN b.values : a.values[id] = b.values[id]

\* What is the same as a well-formed store is one.
LEMMA SameIsGood ==
  ASSUME NEW a, NEW b, Good(b), Same(a, b)
  PROVE  Good(a)
<1>1. a.order = b.order /\ DOMAIN a.values = DOMAIN b.values
  BY DEF Same
<1>2. \A id \in DOMAIN a.values : a.values[id] \in Nat
  <2>1. \A id \in DOMAIN b.values : a.values[id] = b.values[id] /\ b.values[id] \in Nat
    BY DEF Same, Good
  <2>. QED BY <1>1, <2>1
<1>3. /\ b.order \in Seq(Nat)
      /\ DOMAIN b.values = {b.order[i] : i \in DOMAIN b.order}
      /\ \A i, j \in DOMAIN b.order : b.order[i] = b.order[j] => i = j
  BY DEF Good
<1>. QED BY <1>1, <1>2, <1>3 DEF Good

\* A file that was written from a store gives that store.
LEMMA RewriteIsReplayed ==
  ASSUME NEW store, Good(store)
  PROVE  rewrite(store) \in Seq(Lines) /\ Same(Replayed(rewrite(store)), store)
<1> DEFINE order == store.order
           n == Len(order)
           R == rewrite(store)
           Part(k) == Replayed(SubSeq(R, 1, k))
           Fits(k) == /\ Good(Part(k))
                      /\ Len(Part(k).order) = k
                      /\ \A i \in 1 .. k : Part(k).order[i] = order[i]
                      /\ DOMAIN Part(k).values = {order[i] : i \in 1 .. k}
                      /\ \A i \in 1 .. k : Part(k).values[order[i]] = store.values[order[i]]
           Fit == {k \in Nat : k <= n => Fits(k)}
<1>1. /\ order \in Seq(Nat) /\ DOMAIN order = 1 .. n /\ n \in Nat
      /\ DOMAIN store.values = {order[i] : i \in 1 .. n}
      /\ \A i, j \in 1 .. n : order[i] = order[j] => i = j
      /\ \A id \in DOMAIN store.values : store.values[id] \in Nat
      /\ \A i \in 1 .. n : order[i] \in Nat
  BY DEF Good
<1>2. /\ R \in Seq(Lines) /\ Len(R) = n
      /\ \A i \in 1 .. n : R[i].id = order[i] /\ R[i].value = store.values[order[i]]
  <2>1. R = [i \in 1 .. n |-> Line(order[i], store.values[order[i]])]
    BY <1>1 DEF rewrite
  <2>2. \A i \in 1 .. n : /\ Line(order[i], store.values[order[i]]) \in Lines
                          /\ Line(order[i], store.values[order[i]]).id = order[i]
                          /\ Line(order[i], store.values[order[i]]).value = store.values[order[i]]
    BY <1>1 DEF Line, Lines
  <2>. HIDE DEF R, n, order
  <2>3. R \in [1 .. n -> Lines]
    BY <2>1, <2>2
  <2>4. R \in Seq(Lines) /\ Len(R) = n
    BY <1>1, <2>3
  <2>. QED BY <2>1, <2>2, <2>4
<1>. HIDE DEF R, order, n
<1>3. 0 \in Fit
  <2>1. SubSeq(R, 1, 0) = <<>>
    BY <1>2, SubSeqEmpty
  <2>2. Part(0) = Empty
    BY <2>1, ReplayOfNone
  <2>3. Len(<<>>) = 0 /\ 1 .. 0 = {}
    OBVIOUS
  <2>4. Fits(0)
    BY <2>2, <2>3, EmptyIsGood
  <2>. QED BY <2>4
<1>4. ASSUME NEW k \in Nat, k \in Fit PROVE k + 1 \in Fit
  <2>1. SUFFICES ASSUME k + 1 <= n PROVE Fits(k + 1)
    OBVIOUS
  <2> DEFINE S == Part(k)
             id == order[k + 1]
             T == Inserted(S, id, store.values[id])
  <2>2. /\ k + 1 \in 1 .. n /\ k <= n /\ 1 \in 1 .. n
        /\ \A i \in 1 .. k + 1 : i = k + 1 \/ i \in 1 .. k
        /\ \A i \in 1 .. k : i \in 1 .. n /\ i # k + 1
    BY <1>1, <2>1
  <2>3. Fits(k)
    BY <1>4, <2>2
  <2>4. SubSeq(R, 1, k) \in Seq(Lines) /\ SubSeq(R, 1, k + 1) = Append(SubSeq(R, 1, k), R[k + 1])
    <3>1. \A i \in 1 .. n : R[i] \in Lines
      BY <1>1, <1>2, ElementOfSeq
    <3>2. 1 \in Int /\ k \in Int /\ \A i \in 1 .. k : R[i] \in Lines
      BY <2>2, <3>1
    <3>3. SubSeq(R, 1, k) \in Seq(Lines)
      BY ONLY <3>2, SubSeqProperties
    <3>4. SubSeq(R, 1, k + 1) = SubSeq(R, 1, k) \o <<R[k + 1]>>
      <4>1. 1 \in 1 .. Len(R) /\ k + 1 \in 1 .. Len(R) /\ (k + 1) - 1 = k
        BY <1>2, <2>2
      <4>. QED BY <1>2, <4>1, SubSeqRecursiveSecond
    <3>. QED BY <2>2, <3>1, <3>3, <3>4, AppendIsConcat
  <2>5. Part(k + 1) = T
    <3>1. R[k + 1] \in Lines
      BY <1>1, <1>2, <2>2, ElementOfSeq
    <3>2. R[k + 1].id = id /\ R[k + 1].value = store.values[id]
      BY <1>2, <2>2
    <3>. QED BY <2>4, <3>1, <3>2, ReplayOfMore
  <2>6. id \in Nat /\ store.values[id] \in Nat /\ id \notin DOMAIN S.values
    <3>. HIDE DEF S
    <3>1. DOMAIN S.values = {order[i] : i \in 1 .. k}
      BY <2>3 DEF S
    <3>. QED BY <1>1, <2>2, <3>1
  <2>7. /\ Good(T) /\ T.order = Append(S.order, id)
        /\ DOMAIN T.values = DOMAIN S.values \cup {id}
        /\ T.values[id] = store.values[id]
        /\ \A x \in DOMAIN S.values : x # id => T.values[x] = S.values[x]
    <3> DEFINE v == store.values[id]
    <3>1. Good(S) /\ id \in Nat /\ v \in Nat /\ T = Inserted(S, id, v) /\ id \notin DOMAIN S.values
      BY <2>3, <2>6
    <3>. HIDE DEF S, id, T, v
    <3>2. Good(T) /\ Takes(S, id, v, T)
      BY ONLY <3>1, InsertedIs
    <3>. QED BY <3>1, <3>2 DEF v, Takes
  <2>8. /\ S.order \in Seq(Nat) /\ Len(S.order) = k
        /\ \A i \in 1 .. k : S.order[i] = order[i]
        /\ DOMAIN S.values = {order[i] : i \in 1 .. k}
        /\ \A i \in 1 .. k : S.values[order[i]] = store.values[order[i]]
    BY <2>3 DEF Good
  <2>. HIDE DEF S, T, id
  <2>9. /\ Len(T.order) = k + 1
        /\ \A i \in 1 .. k + 1 : T.order[i] = order[i]
    BY <2>2, <2>6, <2>7, <2>8 DEF id
  <2>10. DOMAIN T.values = {order[i] : i \in 1 .. k + 1}
    <3>1. \A i \in 1 .. k : i \in 1 .. k + 1
      BY <2>2
    <3>2. k + 1 \in 1 .. k + 1
      OBVIOUS
    <3>. QED BY <2>2, <2>7, <2>8, <3>1, <3>2 DEF id
  <2>11. \A i \in 1 .. k + 1 : T.values[order[i]] = store.values[order[i]]
    <3>1. \A i \in 1 .. k : order[i] \in DOMAIN S.values /\ order[i] # id
      BY <2>6, <2>8
    <3>. QED BY <2>2, <2>7, <2>8, <3>1 DEF id
  <2>. QED BY <2>5, <2>7, <2>9, <2>10, <2>11
<1>5. Fits(n)
  <2>1. Nat \subseteq Fit
    <3>. HIDE DEF Fit
    <3>. QED BY <1>3, <1>4, Induction
  <2>. QED BY <1>1, <2>1
<1>6. Part(n) = Replayed(R)
  BY <1>2, SubSeqFull
<1> DEFINE T == Replayed(R)
<1>7. /\ Good(T) /\ Len(T.order) = n
      /\ \A i \in 1 .. n : T.order[i] = order[i]
      /\ DOMAIN T.values = {order[i] : i \in 1 .. n}
      /\ \A i \in 1 .. n : T.values[order[i]] = store.values[order[i]]
  BY <1>5, <1>6
<1>. HIDE DEF T
<1>8. T.order = order
  <2>1. T.order \in Seq(Nat) /\ Len(order) = n
    BY <1>7 DEF Good, n
  <2>. QED BY <1>1, <1>7, <2>1, SeqEqual
<1>9. Same(T, store)
  BY <1>1, <1>7, <1>8 DEF Same, order
<1>. QED BY <1>2, <1>9 DEF T, R

-----------------------------------------------------------------------------
(* What a store says of the lines that were written. *)

OvertakenIn(h, id) ==
    \E i \in DOMAIN h :
      /\ h[i].id = id
      /\ Cardinality({h[j].id : j \in i + 1 .. Len(h)} \ {id}) >= SIGNATURE_CAPACITY

\* The last line of an id.
IsLast(h, id, value) ==
    \E i \in DOMAIN h :
      /\ h[i].id = id /\ h[i].value = value
      /\ \A j \in DOMAIN h : h[j].id = id => j <= i

\* Of the ids that are held, each has a line that a line of every later one follows.
Ordered(order, m, h, n) ==
    \A k \in 1 .. m : \E i \in 1 .. n :
      /\ h[i].id = order[k]
      /\ \A q \in 1 .. m : k < q => \E j \in 1 .. n : i < j /\ h[j].id = order[q]

InOrder(store, h) == Ordered(store.order, Len(store.order), h, Len(h))

TrueTo(store, h) ==
    /\ Good(store)
    /\ \A id \in DOMAIN store.values : IsLast(h, id, store.values[id])
    /\ \A i \in DOMAIN h : h[i].id \notin DOMAIN store.values => OvertakenIn(h, h[i].id)
    /\ InOrder(store, h)

\* What is true of a store is true of one that holds the same.
LEMMA SameIsTrue ==
  ASSUME NEW a, NEW b, NEW h, Same(a, b), TrueTo(b, h)
  PROVE  TrueTo(a, h)
<1>1. Good(a)
  BY SMTT(60) DEF Same, TrueTo, Good
<1>. QED BY <1>1 DEF Same, TrueTo, InOrder

\* Before the first line, an empty store says all there is.
LEMMA NothingIsTrue == TrueTo(Empty, <<>>)
<1>1. DOMAIN <<>> = {} /\ Len(<<>>) = 0 /\ 1 .. 0 = {}
  OBVIOUS
<1>. QED BY <1>1, EmptyIsGood DEF TrueTo, InOrder, Ordered

\* The values of a function on a finite set are no more than that set has members.
LEMMA ImageIsFinite ==
  ASSUME NEW f, NEW S, IsFiniteSet(S)
  PROVE  LET T == {f[x] : x \in S} IN
         IsFiniteSet(T) /\ Cardinality(T) <= Cardinality(S)
<1> DEFINE T == {f[x] : x \in S}
           g == [x \in S |-> f[x]]
<1>1. g \in Surjection(S, T)
  BY DEF Surjection
<1>. HIDE DEF T, g
<1>2. IsFiniteSet(T) /\ Cardinality(T) <= Cardinality(S)
  BY <1>1, FS_Surjection
<1>. QED BY <1>2 DEF T

\* The ids behind a place of a sequence of lines are finitely many.
LEMMA BehindIsFinite ==
  ASSUME NEW h, NEW n \in Nat, NEW i \in Nat, NEW id
  PROVE  IsFiniteSet({h[j].id : j \in i + 1 .. n} \ {id})
<1> DEFINE places == i + 1 .. n
           ids == [j \in places |-> h[j].id]
<1>1. IsFiniteSet(places)
  BY FS_Interval
<1>2. {h[j].id : j \in places} = {ids[j] : j \in places}
  OBVIOUS
<1>. HIDE DEF ids
<1>3. IsFiniteSet({h[j].id : j \in places})
  <2>. HIDE DEF places
  <2>. QED BY <1>1, <1>2, ImageIsFinite
<1>. HIDE DEF places
<1>4. IsFiniteSet({h[j].id : j \in places} \ {id})
  BY <1>3, FS_Subset
<1>. QED BY <1>4 DEF places

\* Who is overtaken stays so.
LEMMA OvertakenStays ==
  ASSUME NEW h \in Seq(Lines), NEW l \in Lines, NEW id, OvertakenIn(h, id)
  PROVE  OvertakenIn(Append(h, l), id)
<1> DEFINE n == Len(h)
           g == Append(h, l)
<1>1. n \in Nat /\ DOMAIN h = 1 .. n /\ DOMAIN g = 1 .. n + 1 /\ Len(g) = n + 1
      /\ \A i \in 1 .. n : g[i] = h[i]
  OBVIOUS
<1>2. PICK i \in DOMAIN h :
        /\ h[i].id = id
        /\ Cardinality({h[j].id : j \in i + 1 .. Len(h)} \ {id}) >= SIGNATURE_CAPACITY
  BY DEF OvertakenIn
<1> DEFINE few == {h[j].id : j \in i + 1 .. n} \ {id}
           more == {g[j].id : j \in i + 1 .. n + 1} \ {id}
<1>. HIDE DEF g
<1>3. i \in Nat /\ i \in 1 .. n + 1 /\ \A j \in i + 1 .. n : j \in 1 .. n /\ j \in i + 1 .. n + 1
  BY <1>1, <1>2
<1>4. few \subseteq more
  BY <1>1, <1>3
<1>5. IsFiniteSet(more)
  <2>1. n + 1 \in Nat
    BY <1>1
  <2>. HIDE DEF n
  <2>. QED BY <1>3, <2>1, BehindIsFinite
<1>6. Cardinality(few) <= Cardinality(more) /\ Cardinality(few) \in Nat /\ Cardinality(more) \in Nat
  <2>. HIDE DEF few, more
  <2>. QED BY <1>4, <1>5, FS_Subset, FS_CardinalityType
<1>7. Cardinality(few) >= SIGNATURE_CAPACITY
  BY <1>2
<1>8. Cardinality(more) >= SIGNATURE_CAPACITY
  <2>. HIDE DEF few, more
  <2>. QED BY <1>6, <1>7, SignatureAssumption
<1>9. g[i].id = id
  BY <1>1, <1>2
<1>. QED BY <1>1, <1>3, <1>8, <1>9 DEF OvertakenIn, g

\* A line more, in the file and in the history.
LEMMA InsertedIsTrue ==
  ASSUME NEW store, NEW h \in Seq(Lines), TrueTo(store, h), NEW l \in Lines
  PROVE  TrueTo(Inserted(store, l.id, l.value), Append(h, l))
<1> DEFINE n == Len(h)
           g == Append(h, l)
           T == Inserted(store, l.id, l.value)
           held == DOMAIN store.values
           m == Len(store.order)
<1>1. n \in Nat /\ DOMAIN h = 1 .. n /\ DOMAIN g = 1 .. n + 1 /\ Len(g) = n + 1
      /\ g[n + 1] = l /\ \A i \in 1 .. n : g[i] = h[i] /\ i \in 1 .. n + 1 /\ i < n + 1
  OBVIOUS
<1>2. l.id \in Nat /\ l.value \in Nat
  BY DEF Lines
<1>3. Good(store)
  BY DEF TrueTo
<1>4. /\ Good(T)
      /\ l.id \in held => T.order = store.order
      /\ l.id \notin held => T.order = Append(store.order, l.id)
      /\ DOMAIN T.values = held \cup {l.id}
      /\ T.values[l.id] = l.value
      /\ \A x \in held : x # l.id => T.values[x] = store.values[x]
  <2> DEFINE id == l.id
             v == l.value
  <2>1. Good(store) /\ id \in Nat /\ v \in Nat /\ T = Inserted(store, id, v)
    BY <1>2, <1>3
  <2>. HIDE DEF T, id, v
  <2>2. Good(T) /\ Takes(store, id, v, T)
    BY ONLY <2>1, InsertedIs
  <2>. QED BY <2>2 DEF id, v, Takes
<1>. HIDE DEF T
<1>5. /\ store.order \in Seq(Nat) /\ m \in Nat /\ DOMAIN store.order = 1 .. m
      /\ held = {store.order[i] : i \in 1 .. m}
  BY <1>3 DEF Good
<1>6. n + 1 \in 1 .. n + 1 /\ \A i \in 1 .. n + 1 : i = n + 1 \/ i \in 1 .. n
  BY <1>1
<1>. HIDE DEF g, n
<1>7. ASSUME NEW id \in DOMAIN T.values PROVE IsLast(g, id, T.values[id])
  <2>1. CASE id = l.id
    <3>1. \A j \in 1 .. n + 1 : j <= n + 1
      BY <1>1
    <3>. QED BY <1>1, <1>4, <1>6, <2>1, <3>1 DEF IsLast
  <2>2. CASE id # l.id
    <3>1. id \in held /\ T.values[id] = store.values[id]
      BY <1>4, <1>7, <2>2
    <3>2. PICK i \in DOMAIN h : /\ h[i].id = id /\ h[i].value = store.values[id]
                                /\ \A j \in DOMAIN h : h[j].id = id => j <= i
      BY <3>1 DEF TrueTo, IsLast
    <3>3. \A j \in 1 .. n + 1 : g[j].id = id => j <= i
      BY <1>1, <1>6, <2>2, <3>2
    <3>. QED BY <1>1, <3>1, <3>2, <3>3 DEF IsLast
  <2>. QED BY <2>1, <2>2
<1>8. ASSUME NEW i \in DOMAIN g, g[i].id \notin DOMAIN T.values
      PROVE  OvertakenIn(g, g[i].id)
  <2>1. i \in 1 .. n /\ g[i].id = h[i].id /\ h[i].id \notin held
    BY <1>1, <1>4, <1>6, <1>8
  <2>2. OvertakenIn(h, h[i].id)
    BY <1>1, <2>1 DEF TrueTo
  <2>. QED BY <2>1, <2>2, OvertakenStays DEF g
<1>9. ASSUME NEW k \in 1 .. m
      PROVE  \E i \in 1 .. n :
               /\ g[i].id = store.order[k]
               /\ \A q \in 1 .. m : k < q => \E j \in 1 .. n : i < j /\ g[j].id = store.order[q]
  <2>1. \E i \in 1 .. n :
          /\ h[i].id = store.order[k]
          /\ \A q \in 1 .. m : k < q => \E j \in 1 .. n : i < j /\ h[j].id = store.order[q]
    <3>1. Ordered(store.order, m, h, n)
      BY DEF TrueTo, InOrder, n
    <3>. HIDE DEF m
    <3>. QED BY <3>1 DEF Ordered
  <2>. HIDE DEF m
  <2>2. PICK i \in 1 .. n :
          /\ h[i].id = store.order[k]
          /\ \A q \in 1 .. m : k < q => \E j \in 1 .. n : i < j /\ h[j].id = store.order[q]
    BY <2>1
  <2>3. \A q \in 1 .. m : k < q => \E j \in 1 .. n : i < j /\ g[j].id = store.order[q]
    BY <1>1, <2>2
  <2>. QED BY <1>1, <2>2, <2>3
<1>10. InOrder(T, g)
  <2>1. CASE l.id \in held
    <3>1. T.order = store.order
      BY <1>4, <2>1
    <3>. HIDE DEF m
    <3>2. ASSUME NEW k \in 1 .. m
          PROVE  \E i \in 1 .. n + 1 :
                   /\ g[i].id = store.order[k]
                   /\ \A q \in 1 .. m :
                        k < q => \E j \in 1 .. n + 1 : i < j /\ g[j].id = store.order[q]
      <4>1. PICK i \in 1 .. n :
              /\ g[i].id = store.order[k]
              /\ \A q \in 1 .. m : k < q => \E j \in 1 .. n : i < j /\ g[j].id = store.order[q]
        BY <1>9
      <4>2. \A q \in 1 .. m : k < q => \E j \in 1 .. n + 1 : i < j /\ g[j].id = store.order[q]
        BY <1>1, <4>1
      <4>. QED BY <1>1, <4>1, <4>2
    <3>3. Ordered(T.order, m, g, n + 1)
      BY <3>1, <3>2 DEF Ordered
    <3>. QED BY <1>1, <3>1, <3>3 DEF InOrder, m
  <2>2. CASE l.id \notin held
    <3> DEFINE order == Append(store.order, l.id)
    <3>1. /\ T.order = order /\ DOMAIN order = 1 .. m + 1
          /\ Len(order) = m + 1 /\ order[m + 1] = l.id /\ \A k \in 1 .. m : order[k] = store.order[k]
          /\ \A k \in 1 .. m + 1 : k = m + 1 \/ k \in 1 .. m
      BY <1>2, <1>4, <1>5, <2>2
    <3>. HIDE DEF order, m
    <3>2. ASSUME NEW k \in 1 .. m + 1
          PROVE  \E i \in 1 .. n + 1 :
                   /\ g[i].id = order[k]
                   /\ \A q \in 1 .. m + 1 :
                        k < q => \E j \in 1 .. n + 1 : i < j /\ g[j].id = order[q]
      <4>1. CASE k = m + 1
        <5>1. \A q \in 1 .. m + 1 : ~(k < q)
          BY <1>5, <4>1
        <5>. QED BY <1>1, <1>6, <3>1, <4>1, <5>1
      <4>2. CASE k \in 1 .. m
        <5>1. PICK i \in 1 .. n :
               /\ g[i].id = store.order[k]
               /\ \A q \in 1 .. m : k < q => \E j \in 1 .. n : i < j /\ g[j].id = store.order[q]
          BY <1>9, <4>2
        <5>2. ASSUME NEW q \in 1 .. m + 1, k < q
              PROVE  \E j \in 1 .. n + 1 : i < j /\ g[j].id = order[q]
          <6>1. CASE q = m + 1
            BY <1>1, <1>6, <3>1, <6>1
          <6>2. CASE q \in 1 .. m
            BY <1>1, <3>1, <5>1, <5>2, <6>2
          <6>. QED BY <3>1, <6>1, <6>2
        <5>3. i \in 1 .. n + 1 /\ g[i].id = order[k]
          BY <1>1, <3>1, <4>2, <5>1
        <5>. QED BY <5>2, <5>3
      <4>. QED BY <3>1, <4>1, <4>2
    <3>3. Ordered(order, m + 1, g, n + 1)
      BY <3>2 DEF Ordered
    <3>. QED BY <1>1, <3>1, <3>3 DEF InOrder
  <2>. QED BY <2>1, <2>2
<1>. QED BY <1>4, <1>7, <1>8, <1>10 DEF TrueTo, g, T

\* A store holds as many ids as its order is long.
LEMMA HeldIsCounted ==
  ASSUME NEW store, Good(store)
  PROVE  /\ IsFiniteSet(DOMAIN store.values)
         /\ Cardinality(DOMAIN store.values) = Len(store.order)
<1> DEFINE order == store.order
           n == Len(order)
           held == DOMAIN store.values
           f == [i \in 1 .. n |-> order[i]]
<1>1. /\ n \in Nat /\ held = {order[i] : i \in 1 .. n}
      /\ \A i, j \in 1 .. n : order[i] = order[j] => i = j
  <2>1. order \in Seq(Nat) /\ DOMAIN order = 1 .. n /\ n \in Nat
    BY DEF Good
  <2>. QED BY <2>1 DEF Good
<1>. HIDE DEF order, n, held
<1>2. f \in Bijection(1 .. n, held)
  BY <1>1 DEF Bijection, Injection, Surjection, IsInjective
<1>3. IsFiniteSet(1 .. n) /\ Cardinality(1 .. n) = n
  BY <1>1, FS_Interval
<1>. HIDE DEF f
<1>4. ExistsBijection(1 .. n, held)
  BY <1>2 DEF ExistsBijection
<1>5. IsFiniteSet(held) /\ Cardinality(held) = n
  BY <1>3, <1>4, FS_Bijection
<1>. QED BY <1>5 DEF held, n, order

\* What falls out is overtaken by what stays.
LEMMA TrimmedIsTrue ==
  ASSUME NEW store, NEW h \in Seq(Lines), TrueTo(store, h)
  PROVE  TrueTo(Trimmed(store), h)
<1> DEFINE T == Trimmed(store)
           over == Over(store)
           m == Len(store.order)
           t == Len(T.order)
           n == Len(h)
<1>1. Good(store)
  BY DEF TrueTo
<1>2. /\ Good(T) /\ over \in Nat
      /\ t + over = m /\ t <= SIGNATURE_CAPACITY
      /\ over # 0 => t = SIGNATURE_CAPACITY
      /\ \A i \in 1 .. t : T.order[i] = store.order[i + over]
      /\ DOMAIN T.values \subseteq DOMAIN store.values
      /\ \A x \in DOMAIN T.values : T.values[x] = store.values[x]
  <2>1. T = Trimmed(store) /\ over = Over(store)
    OBVIOUS
  <2>. HIDE DEF T, over
  <2>. QED BY <1>1, <2>1, TrimmedIs
<1>. HIDE DEF T, over
<1>3. /\ m \in Nat /\ t \in Nat /\ n \in Nat /\ DOMAIN h = 1 .. n
      /\ DOMAIN store.values = {store.order[i] : i \in 1 .. m}
      /\ DOMAIN T.values = {T.order[i] : i \in 1 .. t}
      /\ \A i, j \in 1 .. m : store.order[i] = store.order[j] => i = j
  <2>1. store.order \in Seq(Nat) /\ T.order \in Seq(Nat)
    BY <1>1, <1>2 DEF Good
  <2>2. DOMAIN store.order = 1 .. m /\ DOMAIN T.order = 1 .. t /\ m \in Nat /\ t \in Nat
    BY <2>1
  <2>3. n \in Nat /\ DOMAIN h = 1 .. n
    OBVIOUS
  <2>. HIDE DEF m, t, n
  <2>4. DOMAIN store.values = {store.order[i] : i \in 1 .. m}
    BY <1>1, <2>2 DEF Good
  <2>5. DOMAIN T.values = {T.order[i] : i \in 1 .. t}
    BY <1>2, <2>2 DEF Good
  <2>6. \A i, j \in 1 .. m : store.order[i] = store.order[j] => i = j
    BY <1>1, <2>2 DEF Good
  <2>. QED BY <2>2, <2>3, <2>4, <2>5, <2>6
<1>4. \A k \in 1 .. m : \E i \in 1 .. n :
        /\ h[i].id = store.order[k]
        /\ \A q \in 1 .. m : k < q => \E j \in 1 .. n : i < j /\ h[j].id = store.order[q]
  BY DEF TrueTo, InOrder, Ordered
<1>. HIDE DEF m, t, n
<1>5. ASSUME NEW id \in DOMAIN T.values PROVE IsLast(h, id, T.values[id])
  BY <1>2 DEF TrueTo
<1>6. ASSUME NEW e \in DOMAIN h, h[e].id \notin DOMAIN T.values
      PROVE  OvertakenIn(h, h[e].id)
  <2>1. CASE h[e].id \notin DOMAIN store.values
    BY <2>1 DEF TrueTo
  <2>2. CASE h[e].id \in DOMAIN store.values
    <3> DEFINE id == h[e].id
    <3>1. PICK k \in 1 .. m : store.order[k] = id
      BY <1>3, <2>2
    <3>2. k <= over
      <4> SUFFICES ASSUME over < k PROVE FALSE
        BY <1>2, <1>3
      <4>1. k - over \in 1 .. t /\ (k - over) + over = k
        BY <1>2, <1>3
      <4>2. T.order[k - over] = id
        BY <1>2, <3>1, <4>1
      <4>. QED BY <1>3, <1>6, <4>1, <4>2
    <3>3. PICK i \in 1 .. n :
            /\ h[i].id = store.order[k]
            /\ \A q \in 1 .. m : k < q => \E j \in 1 .. n : i < j /\ h[j].id = store.order[q]
      BY <1>4
    <3> DEFINE behind == {h[j].id : j \in i + 1 .. n} \ {id}
               kept == DOMAIN T.values
    <3>4. kept \subseteq behind
      <4> SUFFICES ASSUME NEW p \in 1 .. t PROVE T.order[p] \in behind
        BY <1>3
      <4>1. p + over \in 1 .. m /\ k < p + over
        BY <1>2, <1>3, <3>2
      <4>2. T.order[p] = store.order[p + over]
        BY <1>2
      <4>3. PICK j \in 1 .. n : i < j /\ h[j].id = store.order[p + over]
        BY <3>3, <4>1
      <4>4. j \in i + 1 .. n
        BY <1>3, <4>3
      <4>5. T.order[p] # id
        BY <1>3, <3>1, <4>1, <4>2
      <4>. HIDE DEF id
      <4>. QED BY <4>2, <4>3, <4>4, <4>5
    <3>5. Cardinality(kept) = SIGNATURE_CAPACITY
      <4>1. over # 0
        BY <1>2, <1>3, <3>2
      <4>2. Cardinality(kept) = t
        BY <1>2, HeldIsCounted DEF t
      <4>. QED BY <1>2, <4>1, <4>2
    <3>6. IsFiniteSet(behind)
      <4>1. n \in Nat /\ i \in Nat
        BY <1>3
      <4>. HIDE DEF id
      <4>. QED BY ONLY <4>1, BehindIsFinite
    <3>7. Cardinality(behind) \in Nat /\ Cardinality(kept) <= Cardinality(behind)
      <4>. HIDE DEF behind, kept
      <4>. QED BY <3>4, <3>6, FS_Subset, FS_CardinalityType
    <3>8. Cardinality(behind) >= SIGNATURE_CAPACITY
      <4>. HIDE DEF behind, kept
      <4>. QED BY <3>5, <3>7, SignatureAssumption
    <3>9. h[i].id = id /\ i \in DOMAIN h
      BY <1>3, <3>1, <3>3
    <3>. HIDE DEF id
    <3>10. OvertakenIn(h, id)
      BY <3>8, <3>9 DEF OvertakenIn, n
    <3>. QED BY <3>10 DEF id
  <2>. QED BY <2>1, <2>2
<1>7. InOrder(T, h)
  <2>1. ASSUME NEW k \in 1 .. t
        PROVE  \E i \in 1 .. n :
                 /\ h[i].id = T.order[k]
                 /\ \A q \in 1 .. t : k < q => \E j \in 1 .. n : i < j /\ h[j].id = T.order[q]
    <3>1. k + over \in 1 .. m /\ \A q \in 1 .. t : q + over \in 1 .. m /\ (k < q => k + over < q + over)
      BY <1>2, <1>3
    <3>2. PICK i \in 1 .. n :
            /\ h[i].id = store.order[k + over]
            /\ \A q \in 1 .. m : k + over < q => \E j \in 1 .. n : i < j /\ h[j].id = store.order[q]
      BY <1>4, <3>1
    <3>3. \A q \in 1 .. t : k < q => \E j \in 1 .. n : i < j /\ h[j].id = T.order[q]
      BY <1>2, <3>1, <3>2
    <3>. QED BY <1>2, <3>2, <3>3
  <2>. QED BY <2>1 DEF InOrder, Ordered, t, n
<1>. QED BY <1>2, <1>5, <1>6, <1>7 DEF TrueTo, T

-----------------------------------------------------------------------------
(***************************************************************************)
(* The file.  As long as no writing of it was torn, its lines, or what the *)
(* one process that is about to write it holds, are true to every line     *)
(* that was written.                                                       *)
(***************************************************************************)
Between == {"truncate", "write"}

Sound(place, held, f, h) ==
    /\ \A p, q \in Processes : place[p] \in Between /\ place[q] \in Between => p = q
    /\ \A p \in Processes : place[p] = "truncate" => held[p] = load(f)
    /\ \A p \in Processes : place[p] = "write" => TrueTo(held[p], h)
    /\ (\A p \in Processes : place[p] # "write") => TrueTo(Replayed(f), h)

FileTypes ==
    /\ file \in Seq(Lines) /\ lines \in Seq(Lines)
    /\ queue \in [Processes -> Seq(Lines)] /\ recorded \in Nat
    /\ at = [p \in Processes |-> at[p]] /\ DOMAIN memory = Processes
    /\ Good(Replayed(file)) /\ \A p \in Processes : Good(memory[p])

FileInv == FileTypes /\ (~torn => Sound(at, memory, file, lines))

\* A process that is not about to write leaves what is true of the file.
LEMMA ElsewhereKeeps ==
  ASSUME FileInv, UNCHANGED <<file, lines>>, NEW p \in Processes, NEW place,
         torn => torn', at[p] # "write", place \notin Between,
         at' = [at EXCEPT ![p] = place],
         \A q \in Processes : q # p => memory'[q] = memory[q]
  PROVE  ~torn' => Sound(at', memory', file', lines')
<1> SUFFICES ASSUME ~torn' PROVE Sound(at', memory', file', lines')
  OBVIOUS
<1>1. Sound(at, memory, file, lines)
  BY DEF FileInv
<1>2. at'[p] = place /\ \A q \in Processes : q # p => at'[q] = at[q]
  BY DEF FileInv, FileTypes
<1>. QED BY <1>1, <1>2 DEF Sound, Between

\* The steps of the migration write nothing of the file.
LEMMA MigratesElsewhere ==
  ASSUME FileInv, NEW p \in Processes, migrate(p)
  PROVE  /\ at[p] \notin Between
         /\ \E place : place \notin Between /\ at' = [at EXCEPT ![p] = place]
<1>1. at = [at EXCEPT ![p] = at[p]]
  BY DEF FileInv, FileTypes
<1>. USE DEF Goto, Reads, Stops, Between
<1>2. CASE applied_versions(p)
  BY <1>2 DEF applied_versions
<1>3. CASE LooksAtCombos(p)
  BY <1>3 DEF LooksAtCombos
<1>4. CASE AddsActive(p)
  BY <1>4 DEF AddsActive
<1>5. CASE Migrates(p, "001", "002") \/ Migrates(p, "002", "columns")
  BY <1>5 DEF Migrates
<1>6. CASE LooksAtKeys(p)
  BY <1>6 DEF LooksAtKeys
<1>7. CASE AddsColumn(p)
  <2>1. at[p] = "addColumns"
    BY <1>7 DEF AddsColumn
  <2>2. \/ at' = [at EXCEPT ![p] = "migrated"] \/ at' = [at EXCEPT ![p] = "off"] \/ at' = at
    BY <1>7 DEF AddsColumn
  <2>. QED BY <1>1, <2>1, <2>2
<1>. QED BY <1>2, <1>3, <1>4, <1>5, <1>6, <1>7 DEF migrate

\* What the writer thread takes from the queue.
LEMMA QueueOfLines ==
  ASSUME NEW q \in Seq(Lines)
  PROVE  /\ \A l \in Lines : Queued(q, l) \in Seq(Lines)
         /\ q # <<>> => Head(q) \in Lines /\ Tail(q) \in Seq(Lines)
<1>1. \A l \in Lines : Queued(q, l) \in Seq(Lines)
  BY DEF Queued
<1>2. q # <<>> => Head(q) \in Lines /\ Tail(q) \in Seq(Lines)
  OBVIOUS
<1>. QED BY <1>1, <1>2

\* Recording, inserting and trimming keep a store a store (gemini.rs:171-196, 221-240).
LEMMA GoodStays ==
  ASSUME NEW store, Good(store), NEW id \in Nat, NEW value \in Nat
  PROVE  Good(Trimmed(store)) /\ Good(Inserted(store, id, value)) /\ Good(record(store, id, value))
<1>1. Good(Inserted(store, id, value))
  BY InsertedIs
<1>2. \A s : Good(s) => Good(Trimmed(s))
  BY TrimmedIs
<1>. QED BY <1>1, <1>2 DEF record

\* Every step keeps the types, and the stores that the file and the processes hold.
LEMMA FileTypesStay ==
  ASSUME FileInv, [Next]_vars
  PROVE  FileTypes'
<1>. USE DEF FileTypes
<1>0. FileTypes
  BY DEF FileInv
<1>1. CASE UNCHANGED vars
  BY <1>0, <1>1 DEF vars, migrationVars
<1>2. ASSUME NEW p \in Processes,
             \/ Start(p) \/ Proceeds(p) \/ Crash(p)
             \/ \E id \in 1..MaxRecords : Record(p, id)
      PROVE  FileTypes'
  <2>1. at' = [q \in Processes |-> at'[q]]
    <3>1. CASE Migrate(p)
      BY <1>0, <3>1, MigratesElsewhere DEF Migrate
    <3>2. CASE ~Migrate(p)
      BY <1>0, <1>2, <3>2 DEF Start, Proceeds, Crash, Record, ValidateAuthPolicy, Load, Truncate,
         Write, Bind, AppendLine, Ended, Goto, Stops, migrationVars
    <3>. QED BY <3>1, <3>2
  <2>2. ASSUME NEW store, Good(store), memory' = [memory EXCEPT ![p] = store]
        PROVE  DOMAIN memory' = Processes /\ \A q \in Processes : Good(memory'[q])
    <3>1. \A q \in Processes : memory'[q] = store \/ memory'[q] = memory[q]
      BY <1>0, <2>2
    <3>. QED BY <1>0, <2>2, <3>1
  <2>3. CASE Start(p) \/ Migrate(p) \/ ValidateAuthPolicy(p)
    <3>1. UNCHANGED <<file, lines, queue, recorded, memory>>
      BY <2>3 DEF Start, Migrate, ValidateAuthPolicy, storeVars
    <3>. QED BY <1>0, <2>1, <3>1
  <2>4. CASE Load(p)
    <3>1. memory' = [memory EXCEPT ![p] = load(file)] /\ UNCHANGED <<file, lines, queue, recorded>>
      BY <2>4 DEF Load
    <3>2. Good(load(file))
      BY <1>0, TrimmedIs DEF load
    <3>3. DOMAIN memory' = Processes /\ \A q \in Processes : Good(memory'[q])
      BY <2>2, <3>1, <3>2
    <3>. QED BY <1>0, <2>1, <3>1, <3>3
  <2>5. CASE Truncate(p)
    <3>1. file' = <<>> /\ <<>> \in Seq(Lines) /\ UNCHANGED <<lines, queue, recorded, memory>>
      BY <2>5 DEF Truncate
    <3>2. Good(Replayed(<<>>))
      BY ReplayOfNone, EmptyIsGood
    <3>. QED BY <1>0, <2>1, <3>1, <3>2
  <2>6. CASE Write(p)
    <3>1. file' = rewrite(memory[p]) /\ UNCHANGED <<lines, queue, recorded, memory>>
      BY <2>6 DEF Write
    <3>2. Good(memory[p])
      BY <1>0
    <3>3. rewrite(memory[p]) \in Seq(Lines) /\ Same(Replayed(rewrite(memory[p])), memory[p])
      BY <3>2, RewriteIsReplayed
    <3>4. Good(Replayed(rewrite(memory[p])))
      BY <3>2, <3>3, SameIsGood
    <3>. QED BY <1>0, <2>1, <3>1, <3>3, <3>4
  <2>7. CASE Bind(p) \/ Crash(p)
    <3>1. /\ UNCHANGED <<file, lines, recorded>>
          /\ \/ UNCHANGED <<queue, memory>>
             \/ queue' = [queue EXCEPT ![p] = <<>>] /\ memory' = [memory EXCEPT ![p] = Empty]
      BY <2>7 DEF Bind, Crash, Ended
    <3>2. CASE UNCHANGED <<queue, memory>>
      BY <1>0, <2>1, <3>1, <3>2
    <3>3. CASE queue' = [queue EXCEPT ![p] = <<>>] /\ memory' = [memory EXCEPT ![p] = Empty]
      <4>1. <<>> \in Seq(Lines)
        OBVIOUS
      <4>2. queue' \in [Processes -> Seq(Lines)]
        BY <1>0, <3>3, <4>1
      <4>3. DOMAIN memory' = Processes /\ \A q \in Processes : Good(memory'[q])
        BY <2>2, <3>3, EmptyIsGood
      <4>. QED BY <1>0, <2>1, <3>1, <4>2, <4>3
    <3>. QED BY <3>1, <3>2, <3>3
  <2>8. CASE AppendLine(p)
    <3> DEFINE l == Head(queue[p])
    <3>1. queue[p] \in Seq(Lines) /\ queue[p] # <<>>
      BY <1>0, <2>8 DEF AppendLine
    <3>2. l \in Lines /\ Tail(queue[p]) \in Seq(Lines)
      BY <3>1, QueueOfLines
    <3>3. /\ file' = Append(file, l) /\ lines' = Append(lines, l) /\ UNCHANGED <<recorded, memory>>
          /\ queue' = [queue EXCEPT ![p] = Tail(queue[p])]
      BY <2>8 DEF AppendLine
    <3>. HIDE DEF l
    <3>4. Append(file, l) \in Seq(Lines) /\ Append(lines, l) \in Seq(Lines)
      BY <1>0, <3>2
    <3>5. Replayed(Append(file, l)) = Inserted(Replayed(file), l.id, l.value)
      BY <1>0, <3>2, ReplayOfMore
    <3>6. l.id \in Nat /\ l.value \in Nat
      BY <3>2 DEF Lines
    <3>7. Good(Inserted(Replayed(file), l.id, l.value))
      BY <1>0, <3>6, GoodStays
    <3>8. Good(Replayed(file'))
      BY <3>3, <3>5, <3>7
    <3>9. queue' \in [Processes -> Seq(Lines)]
      BY <1>0, <3>2, <3>3
    <3>. QED BY <1>0, <2>1, <3>3, <3>4, <3>8, <3>9
  <2>9. ASSUME NEW id \in 1..MaxRecords, Record(p, id) PROVE FileTypes'
    <3> DEFINE l == Line(id, recorded')
    <3>1. /\ UNCHANGED <<file, lines>> /\ recorded' = recorded + 1
          /\ queue' = [queue EXCEPT ![p] = Queued(queue[p], l)]
          /\ memory' = [memory EXCEPT ![p] = record(memory[p], id, recorded')]
      BY <2>9 DEF Record
    <3>2. l \in Lines /\ recorded' \in Nat /\ id \in Nat
      BY <1>0, <3>1, BoundsAssumption DEF Line, Lines
    <3>. HIDE DEF l
    <3>3. Queued(queue[p], l) \in Seq(Lines)
      BY <1>0, <3>2, QueueOfLines
    <3>4. Good(record(memory[p], id, recorded'))
      <4>1. Good(memory[p])
        BY <1>0
      <4>. QED BY <3>2, <4>1, GoodStays
    <3>5. DOMAIN memory' = Processes /\ \A q \in Processes : Good(memory'[q])
      BY <2>2, <3>1, <3>4
    <3>6. queue' \in [Processes -> Seq(Lines)]
      BY <1>0, <3>1, <3>3
    <3>. QED BY <1>0, <2>1, <3>1, <3>2, <3>5, <3>6
  <2>. QED BY <1>2, <2>3, <2>4, <2>5, <2>6, <2>7, <2>8, <2>9 DEF Proceeds
<1>. QED BY <1>1, <1>2 DEF Next

\* Where nobody was about to write, what the file gives is true to the lines.
LEMMA NobodyBetween ==
  ASSUME FileInv, ~torn, \A q \in Processes : ~Rewriting(q)
  PROVE  TrueTo(Replayed(file), lines)
BY DEF FileInv, Sound, Rewriting

\* Every step that tears nothing keeps what is true of the file.
LEMMA SoundStays ==
  ASSUME FileInv, [Next]_vars
  PROVE  ~torn' => Sound(at', memory', file', lines')
<1>0. FileTypes /\ at = [q \in Processes |-> at[q]]
  BY DEF FileInv, FileTypes
<1>1. CASE UNCHANGED vars
  BY <1>1 DEF vars, migrationVars, FileInv
<1>2. ASSUME NEW p \in Processes,
             \/ Start(p) \/ Proceeds(p) \/ Crash(p)
             \/ \E id \in 1..MaxRecords : Record(p, id)
      PROVE  ~torn' => Sound(at', memory', file', lines')
  <2>1. CASE Start(p) \/ ValidateAuthPolicy(p)
    <3>1. /\ at[p] # "write" /\ UNCHANGED <<file, lines, torn, memory>>
          /\ \E place : place \notin Between /\ at' = [at EXCEPT ![p] = place]
      BY <2>1 DEF Start, ValidateAuthPolicy, Goto, Stops, storeVars, Between
    <3>. QED BY <3>1, ElsewhereKeeps
  <2>2. CASE Migrate(p)
    <3>1. UNCHANGED <<file, lines, torn, memory>> /\ migrate(p)
      BY <2>2 DEF Migrate, storeVars
    <3>2. at[p] \notin Between /\ \E place : place \notin Between /\ at' = [at EXCEPT ![p] = place]
      BY <3>1, MigratesElsewhere
    <3>. QED BY <3>1, <3>2, ElsewhereKeeps DEF Between
  <2>3. CASE Load(p)
    <3> SUFFICES ASSUME ~torn' PROVE Sound(at', memory', file', lines')
      OBVIOUS
    <3>1. /\ ~torn /\ \A q \in Processes : ~Rewriting(q)
          /\ at' = [at EXCEPT ![p] = "truncate"]
          /\ memory' = [memory EXCEPT ![p] = load(file)] /\ UNCHANGED <<file, lines>>
      BY <2>3 DEF Load, Goto
    <3>2. TrueTo(Replayed(file), lines)
      BY <3>1, NobodyBetween
    <3>3. \A q \in Processes : at[q] \notin Between
      BY <3>1 DEF Rewriting, Between
    <3>4. /\ at'[p] = "truncate" /\ \A q \in Processes : q # p => at'[q] \notin Between
          /\ memory'[p] = load(file)
      BY <1>0, <3>1, <3>3 DEF FileTypes
    <3>. QED BY <3>1, <3>2, <3>4 DEF Sound, Between
  <2>4. CASE Truncate(p)
    <3> SUFFICES ASSUME ~torn' PROVE Sound(at', memory', file', lines')
      OBVIOUS
    <3>1. /\ ~torn /\ at[p] = "truncate" /\ at' = [at EXCEPT ![p] = "write"]
          /\ UNCHANGED <<memory, lines>>
      BY <2>4 DEF Truncate, Goto
    <3>2. Sound(at, memory, file, lines)
      BY <3>1 DEF FileInv
    <3>3. \A q \in Processes : q # p => at[q] \notin Between
      BY <3>1, <3>2 DEF Sound, Between
    <3>4. TrueTo(Replayed(file), lines) /\ memory[p] = load(file)
      BY <3>1, <3>2, <3>3 DEF Sound, Between
    <3>5. TrueTo(memory[p], lines)
      <4>1. lines \in Seq(Lines)
        BY <1>0 DEF FileTypes
      <4>. QED BY <3>4, <4>1, TrimmedIsTrue DEF load
    <3>6. at'[p] = "write" /\ \A q \in Processes : q # p => at'[q] \notin Between
      BY <1>0, <3>1, <3>3
    <3>. QED BY <3>1, <3>5, <3>6 DEF Sound, Between
  <2>5. CASE Write(p)
    <3> SUFFICES ASSUME ~torn' PROVE Sound(at', memory', file', lines')
      OBVIOUS
    <3>1. /\ ~torn /\ at[p] = "write" /\ at' = [at EXCEPT ![p] = "bind"]
          /\ file' = rewrite(memory[p]) /\ UNCHANGED <<memory, lines>>
      BY <2>5 DEF Write, Goto
    <3>2. Sound(at, memory, file, lines)
      BY <3>1 DEF FileInv
    <3>3. \A q \in Processes : q # p => at[q] \notin Between
      BY <3>1, <3>2 DEF Sound, Between
    <3>4. TrueTo(memory[p], lines)
      BY <3>1, <3>2 DEF Sound
    <3>5. Same(Replayed(rewrite(memory[p])), memory[p])
      <4>1. Good(memory[p])
        BY <3>4 DEF TrueTo
      <4>. QED BY <4>1, RewriteIsReplayed
    <3>6. TrueTo(Replayed(file'), lines')
      <4>1. TrueTo(Replayed(rewrite(memory[p])), lines)
        BY <3>4, <3>5, SameIsTrue
      <4>. QED BY <3>1, <4>1
    <3>7. at'[p] = "bind" /\ \A q \in Processes : q # p => at'[q] \notin Between
      BY <1>0, <3>1, <3>3
    <3>. QED BY <3>6, <3>7 DEF Sound, Between
  <2>6. CASE Bind(p)
    <3>1. /\ at[p] # "write" /\ UNCHANGED <<file, lines, torn>>
          /\ \E place : place \notin Between /\ at' = [at EXCEPT ![p] = place]
      BY <2>6 DEF Bind, Ended, Goto, Stops, Between
    <3>2. \A q \in Processes : q # p => memory'[q] = memory[q]
      BY <1>0, <2>6 DEF Bind, Ended, FileTypes
    <3>. QED BY <3>1, <3>2, ElsewhereKeeps
  <2>7. CASE AppendLine(p)
    <3> SUFFICES ASSUME ~torn' PROVE Sound(at', memory', file', lines')
      OBVIOUS
    <3> DEFINE l == Head(queue[p])
    <3>1. /\ ~torn /\ \A q \in Processes : ~Rewriting(q)
          /\ file' = Append(file, l) /\ lines' = Append(lines, l)
          /\ UNCHANGED <<at, memory>>
      BY <2>7 DEF AppendLine, migrationVars
    <3>2. l \in Lines
      <4>1. queue[p] \in Seq(Lines) /\ queue[p] # <<>>
        BY <1>0, <2>7 DEF AppendLine, FileTypes
      <4>. QED BY <4>1, QueueOfLines
    <3>. HIDE DEF l
    <3>3. file \in Seq(Lines) /\ lines \in Seq(Lines)
      BY <1>0 DEF FileTypes
    <3>4. TrueTo(Replayed(file), lines)
      BY <3>1, NobodyBetween
    <3>5. TrueTo(Inserted(Replayed(file), l.id, l.value), Append(lines, l))
      BY <3>2, <3>3, <3>4, InsertedIsTrue
    <3>6. Replayed(Append(file, l)) = Inserted(Replayed(file), l.id, l.value)
      BY <3>2, <3>3, ReplayOfMore
    <3>7. TrueTo(Replayed(file'), lines')
      BY <3>1, <3>5, <3>6
    <3>8. \A q \in Processes : at'[q] \notin Between
      BY <3>1 DEF Rewriting, Between
    <3>. QED BY <3>7, <3>8 DEF Sound, Between
  <2>8. CASE Crash(p)
    <3>1. /\ torn' = (torn \/ at[p] = "write") /\ UNCHANGED <<file, lines>>
          /\ \E place : place \notin Between /\ at' = [at EXCEPT ![p] = place]
      BY <2>8 DEF Crash, Ended, Stops, Between
    <3>2. \A q \in Processes : q # p => memory'[q] = memory[q]
      BY <1>0, <2>8 DEF Crash, Ended, FileTypes
    <3>3. CASE at[p] # "write"
      BY <3>1, <3>2, <3>3, ElsewhereKeeps
    <3>. QED BY <3>1, <3>3
  <2>9. ASSUME NEW id \in 1..MaxRecords, Record(p, id)
        PROVE  ~torn' => Sound(at', memory', file', lines')
    <3>1. /\ at[p] = "serving" /\ UNCHANGED <<at, file, lines, torn>>
      BY <2>9 DEF Record, migrationVars
    <3>2. \A q \in Processes : q # p => memory'[q] = memory[q]
      BY <1>0, <2>9 DEF Record, FileTypes
    <3>3. at' = [at EXCEPT ![p] = "serving"] /\ "serving" \notin Between /\ at[p] # "write"
      BY <1>0, <3>1 DEF Between
    <3>. QED BY <3>1, <3>2, <3>3, ElsewhereKeeps
  <2>. QED BY <1>2, <2>1, <2>2, <2>3, <2>4, <2>5, <2>6, <2>7, <2>8, <2>9 DEF Proceeds
<1>. QED BY <1>1, <1>2 DEF Next

\* What is true of the file stays true (gemini.rs:160-222).
THEOREM FileInvariance == Spec => []FileInv
<1>1. Init => FileInv
  <2> SUFFICES ASSUME Init PROVE FileInv
    OBVIOUS
  <2>1. <<>> \in Seq(Lines) /\ 0 \in Nat
    OBVIOUS
  <2>2. Good(Replayed(<<>>)) /\ TrueTo(Replayed(<<>>), <<>>) /\ Good(Empty)
    BY ReplayOfNone, EmptyIsGood, NothingIsTrue
  <2>3. FileTypes
    BY <2>1, <2>2 DEF Init, MigrationInit, FileTypes
  <2>4. \A p \in Processes : at[p] \notin Between /\ at[p] = "off"
    BY DEF Init, MigrationInit, Between
  <2>5. Sound(at, memory, file, lines)
    BY <2>2, <2>4 DEF Init, Sound, Between
  <2>. QED BY <2>3, <2>5 DEF FileInv
<1>2. FileInv /\ [Next]_vars => FileInv'
  <2> SUFFICES ASSUME FileInv, [Next]_vars PROVE FileInv'
    OBVIOUS
  <2>1. FileTypes' /\ (~torn' => Sound(at', memory', file', lines'))
    BY FileTypesStay, SoundStays
  <2>. QED BY <2>1 DEF FileInv
<1>. QED BY <1>1, <1>2, PTL DEF Spec

\* The last line of an id is the one the property names.
LEMMA LastIsLast ==
  ASSUME NEW id, NEW value, IsLast(lines, id, value), lines \in Seq(Lines)
  PROVE  id \in Written /\ value = LastValue(id)
<1> DEFINE Final(i) == /\ i \in DOMAIN lines /\ lines[i].id = id
                       /\ \A j \in DOMAIN lines : lines[j].id = id => j <= i
           final == CHOOSE i : Final(i)
<1>1. PICK i : Final(i) /\ lines[i].value = value
  BY DEF IsLast
<1>2. Final(final)
  BY <1>1
<1>3. DOMAIN lines \subseteq Nat
  OBVIOUS
<1>4. i = final
  <2>1. i \in Nat /\ final \in Nat /\ i <= final /\ final <= i
    BY <1>1, <1>2, <1>3
  <2>. HIDE DEF final
  <2>. QED BY <2>1
<1>5. LastValue(id) = lines[final].value
  BY DEF LastValue
<1>. QED BY <1>1, <1>4, <1>5 DEF Written

\* What a start takes from the file is what was written (gemini.rs:58-66, 160-222).
THEOREM LoadedAsWritten == Spec => LoadsWhatWasWritten
<1>1. ASSUME FileInv, NEW p \in Processes, Load(p), ~torn', NEW held, held = memory'[p].values
      PROVE  /\ DOMAIN held \subseteq Written /\ Cardinality(DOMAIN held) <= SIGNATURE_CAPACITY
             /\ \A id \in DOMAIN held : held[id] = LastValue(id)
             /\ \A id \in Written \ DOMAIN held : Overtaken(id)
  <2> DEFINE S == Replayed(file)
             T == Trimmed(S)
  <2>1. TrueTo(S, lines) /\ lines \in Seq(Lines)
    <3>1. ~torn /\ \A q \in Processes : ~Rewriting(q)
      BY <1>1 DEF Load
    <3>. QED BY <1>1, <3>1, NobodyBetween DEF FileInv, FileTypes
  <2>2. TrueTo(T, lines)
    <3>. HIDE DEF S
    <3>. QED BY <2>1, TrimmedIsTrue
  <2>3. held = T.values
    BY <1>1 DEF Load, load, FileInv, FileTypes
  <2>4. Cardinality(DOMAIN held) <= SIGNATURE_CAPACITY
    <3>1. Good(S) /\ Good(T)
      BY <2>1, <2>2 DEF TrueTo
    <3>2. Len(T.order) <= SIGNATURE_CAPACITY
      <4>1. T = Trimmed(S) /\ Over(S) = Over(S)
        OBVIOUS
      <4>. HIDE DEF S, T
      <4>. QED BY <3>1, <4>1, TrimmedIs
    <3>. HIDE DEF S, T
    <3>. QED BY <2>3, <3>1, <3>2, HeldIsCounted
  <2>. HIDE DEF S, T
  <2>5. ASSUME NEW id \in DOMAIN held
        PROVE  id \in Written /\ held[id] = LastValue(id)
    <3>1. IsLast(lines, id, held[id])
      BY <2>2, <2>3 DEF TrueTo
    <3>. QED BY <2>1, <3>1, LastIsLast
  <2>6. ASSUME NEW id \in Written \ DOMAIN held
        PROVE  Overtaken(id)
    <3>1. PICK i \in DOMAIN lines : lines[i].id = id
      BY DEF Written
    <3>2. OvertakenIn(lines, id)
      BY <2>2, <2>3, <3>1 DEF TrueTo
    <3>. QED BY <3>2 DEF OvertakenIn, Overtaken
  <2>. QED BY <2>4, <2>5, <2>6
<1>2. FileInv /\ [Next]_vars =>
        [ \A p \in Processes : Load(p) /\ ~torn' =>
          LET held == memory'[p].values IN
          /\ DOMAIN held \subseteq Written /\ Cardinality(DOMAIN held) <= SIGNATURE_CAPACITY
          /\ \A id \in DOMAIN held : held[id] = LastValue(id)
          /\ \A id \in Written \ DOMAIN held : Overtaken(id) ]_vars
  BY <1>1
<1>. QED BY <1>2, FileInvariance, PTL DEF Spec, LoadsWhatWasWritten

=============================================================================
