-------------------------------- MODULE Startup --------------------------------
(***************************************************************************)
(* A gateway process from start to end, crates/heterion-router-gateway/    *)
(* src/main.rs: it migrates the database, checks that a public address is  *)
(* not open to everybody, opens its stores, takes the port and serves.     *)
(*                                                                         *)
(* A second process may start beside the first (a service and a sidecar,   *)
(* crates/../src/restart.rs and watch_parent), and does all of this before *)
(* it finds the port taken.  A process may end between any two steps.  The *)
(* supervised process is started again whenever it is not running.         *)
(***************************************************************************)
EXTENDS Migrations, ThoughtSignatures

CONSTANTS
    Supervised,     \* the process a supervisor starts again
    MaxCrashes,     \* bound: ends that are not an error of the start itself
    MaxRecords      \* bound: signatures recorded

ASSUME BoundsAssumption == MaxCrashes \in Nat /\ MaxRecords \in Nat

VARIABLES
    mayBind,        \* loopback, or require_auth, or a usable key exists
    memory,         \* the signatures each process holds
    queue,          \* the lines its writer thread has still to append
    file,           \* gemini-thought-signatures.jsonl
    crashes,
    recorded,       \* signatures recorded so far; the n-th has the value n
    given,          \* ids given so far to calls: 1, 2, ...
    lines,          \* history: every line that reached the file
    torn            \* history: a write of the whole file was cut short, or
                    \* passed a line or another such write

vars == <<migrationVars, mayBind, memory, queue, file, crashes, recorded, given, lines, torn>>
storeVars == <<memory, queue, file, recorded, given, lines, torn>>

Init ==
    /\ MigrationInit
    /\ mayBind \in BOOLEAN
    /\ memory = [p \in Processes |-> Empty]
    /\ queue = [p \in Processes |-> <<>>]
    /\ file = <<>> /\ lines = <<>>
    /\ crashes = 0 /\ recorded = 0 /\ given = 0 /\ torn = FALSE

Running(p) == at[p] # "off"
\* A process that has read the file and has not yet written it.
Rewriting(p) == at[p] \in {"truncate", "write"}

-----------------------------------------------------------------------------
Start(p) ==
    /\ at[p] = "off"
    /\ Goto(p, "ledger")
    /\ UNCHANGED <<db, seen, mayBind, crashes, storeVars>>

Migrate(p) == migrate(p) /\ UNCHANGED <<mayBind, crashes, storeVars>>

\* validate_auth_policy.
ValidateAuthPolicy(p) ==
    /\ at[p] = "migrated"
    /\ IF mayBind THEN Goto(p, "open") /\ UNCHANGED seen ELSE Stops(p)
    /\ UNCHANGED <<db, mayBind, crashes, storeVars>>

\* ThoughtSignatures::open: load.
Load(p) ==
    /\ at[p] = "open"
    /\ memory' = [memory EXCEPT ![p] = load(file)]
    /\ Goto(p, "truncate")
    /\ torn' = (torn \/ \E q \in Processes : Rewriting(q))
    /\ UNCHANGED <<db, seen, mayBind, queue, file, crashes, recorded, given, lines>>

\* rewrite: std::fs::write empties the file and then writes it.
Truncate(p) ==
    /\ at[p] = "truncate"
    /\ file' = <<>>
    /\ Goto(p, "write")
    /\ UNCHANGED <<db, seen, mayBind, memory, queue, crashes, recorded, given, lines, torn>>

Write(p) ==
    /\ at[p] = "write"
    /\ file' = rewrite(memory[p])
    /\ Goto(p, "bind")
    /\ UNCHANGED <<db, seen, mayBind, memory, queue, crashes, recorded, given, lines, torn>>

\* Everything a process holds ends with it.
Ended(p) ==
    /\ Stops(p)
    /\ memory' = [memory EXCEPT ![p] = Empty]
    /\ queue' = [queue EXCEPT ![p] = <<>>]

\* TcpListener::bind.
Bind(p) ==
    /\ at[p] = "bind"
    /\ IF \E q \in Processes : at[q] = "serving"
       THEN Ended(p)
       ELSE Goto(p, "serving") /\ UNCHANGED <<seen, memory, queue>>
    /\ UNCHANGED <<db, mayBind, file, crashes, recorded, given, lines, torn>>

-----------------------------------------------------------------------------
(***************************************************************************)
(* Serving, and the end.                                                   *)
(***************************************************************************)
\* An id that is held, or the next one that was never given.
Recordable(p, id) ==
    \/ id \in DOMAIN memory[p].values
    \/ id = given + 1

Record(p, id) ==
    /\ at[p] = "serving" /\ recorded < MaxRecords
    /\ Recordable(p, id)
    /\ recorded' = recorded + 1
    /\ given' = IF id > given THEN id ELSE given
    /\ memory' = [memory EXCEPT ![p] = record(memory[p], id, recorded')]
    /\ queue' = [queue EXCEPT ![p] = Queued(queue[p], Line(id, recorded'))]
    /\ UNCHANGED <<migrationVars, mayBind, file, crashes, lines, torn>>

\* The writer thread: append_line.
AppendLine(p) ==
    /\ Running(p) /\ queue[p] # <<>>
    /\ file' = Append(file, Head(queue[p]))
    /\ lines' = Append(lines, Head(queue[p]))
    /\ queue' = [queue EXCEPT ![p] = Tail(queue[p])]
    /\ torn' = (torn \/ \E q \in Processes : Rewriting(q))
    /\ UNCHANGED <<migrationVars, mayBind, memory, crashes, recorded, given>>

\* A crash, a restart by the dashboard, the end of the parent process.
Crash(p) ==
    /\ Running(p) /\ crashes < MaxCrashes
    /\ crashes' = crashes + 1
    /\ Ended(p)
    /\ torn' = (torn \/ at[p] = "write")
    /\ UNCHANGED <<db, mayBind, file, recorded, given, lines>>

Proceeds(p) ==
    \/ Migrate(p) \/ ValidateAuthPolicy(p) \/ Load(p) \/ Truncate(p) \/ Write(p)
    \/ Bind(p) \/ AppendLine(p)

Next == \E p \in Processes :
    \/ Start(p) \/ Proceeds(p) \/ Crash(p)
    \/ \E id \in 1..MaxRecords : Record(p, id)

\* A process that runs goes on; the supervisor starts the one it watches.
Fairness == /\ \A p \in Processes : WF_vars(Proceeds(p))
            /\ WF_vars(Start(Supervised))

Spec == Init /\ [][Next]_vars
FairSpec == Spec /\ Fairness

-----------------------------------------------------------------------------
(***************************************************************************)
(* Properties.                                                             *)
(***************************************************************************)
\* A process that serves finds every table and column its queries name, and
\* every migration recorded with its effect, whatever starts were cut short
\* before and whatever process starts beside it (migrate.rs:163-197).
ServesOnlyMigrated == \A p \in Processes : at[p] = "serving" => Migrated

Written == {lines[i].id : i \in DOMAIN lines}
LastValue(id) ==
    LET last == CHOOSE i \in DOMAIN lines :
                  lines[i].id = id /\ \A j \in DOMAIN lines : lines[j].id = id => j <= i
    IN lines[last].value

\* As many others as there is room for were written after a line of that id.
Overtaken(id) ==
    \E i \in DOMAIN lines :
      /\ lines[i].id = id
      /\ Cardinality({lines[j].id : j \in i + 1 .. Len(lines)} \ {id}) >= SIGNATURE_CAPACITY

\* What a start holds is what was written: each signature at its last value, and
\* every one, but for those that as many others as there is room for followed;
\* through any number of starts whose writing of the file nothing crossed
\* (gemini.rs:58-66, 160-222).
LoadsWhatWasWritten ==
    [][ \A p \in Processes : Load(p) /\ ~torn' =>
          LET held == memory'[p].values IN
          /\ DOMAIN held \subseteq Written /\ Cardinality(DOMAIN held) <= SIGNATURE_CAPACITY
          /\ \A id \in DOMAIN held : held[id] = LastValue(id)
          /\ \A id \in Written \ DOMAIN held : Overtaken(id) ]_vars

\* Unless the policy forbids its address, a gateway comes to serve: a start
\* that another process or a crash made fail leaves nothing that makes every
\* later start fail.
ComesToServe == mayBind ~> (\E p \in Processes : at[p] = "serving")

=============================================================================
