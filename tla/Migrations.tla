----------------------------- MODULE Migrations -----------------------------
(***************************************************************************)
(* Schema migrations (sqlite-bootstrap-migrations.ts, d1-migrate-ops.ts):  *)
(* a directory of numbered files, the table schema_migrations that records *)
(* which of them were run, and commands that apply the pending ones or     *)
(* undo the last one.  On SQLite the statements of a file and the record   *)
(* of it commit one by one, so a command may be killed between any two and *)
(* two commands may interleave; on D1 a file and its record are one batch. *)
(***************************************************************************)
EXTENDS Integers, Sequences

CONSTANTS
    Last,       \* the migrations are numbered 1..Last
    Commands,   \* processes that migrate or roll back
    Written,    \* the files the developer adds in the course of time
    Tolerant,   \* files that can be run again: IF NOT EXISTS, IF EXISTS
    Commented   \* files whose first statement follows a comment line

Migration == 1..Last
File      == [of : Migration, down : BOOLEAN]
Up(m)     == [of |-> m, down |-> FALSE]     \* 000m_name.sql
Down(m)   == [of |-> m, down |-> TRUE]      \* 000m_name.down.sql

\* The row applyCommittedSchema inserts; no file belongs to it.
Baseline == [of |-> 0, down |-> FALSE]
Name     == File \cup {Baseline}

VARIABLES
    backend,    \* "sqlite" or "d1"
    files,      \* the directory
    table,      \* schema_migrations, ORDER BY id
    effect,     \* which of its two statements are in force, for each migration
    command,    \* what each command is doing
    hurt        \* history: migrations a SQLite command was cut off in, undone by
                \* a file meant for the rollback, or handled by two commands

vars == <<backend, files, table, effect, command, hurt>>

Idle == [op |-> "idle", at |-> "exec", todo |-> {}, stale |-> {}]

TypeOK ==
    /\ backend \in {"sqlite", "d1"}
    /\ files \subseteq File
    /\ table \in Seq([name : Name, back : BOOLEAN])
    /\ \A i, j \in DOMAIN table : table[i].name = table[j].name => i = j
    /\ effect \in [Migration -> SUBSET {1, 2}]
    /\ command \in [Commands -> [op : {"idle", "migrate", "rollback"}, at : {"exec", "record"},
                                 todo : SUBSET Name, stale : SUBSET Name]]
    /\ hurt \subseteq Migration

Recorded(f) == \E i \in DOMAIN table : table[i].name = f

\* DELETE ... WHERE name = f: the row of f goes, if it is there; name is UNIQUE.
Without(f) ==
    IF ~Recorded(f) THEN table
    ELSE LET gone == CHOOSE i \in DOMAIN table : table[i].name = f
         IN [i \in 1..Len(table) - 1 |-> IF i < gone THEN table[i] ELSE table[i + 1]]

\* readdirSync().sort(): "0001_x.down.sql" comes before "0001_x.sql".
Before(f, g) == f.of < g.of \/ (f.of = g.of /\ f.down /\ ~g.down)
First(F)     == CHOOSE f \in F : \A g \in F \ {f} : Before(f, g)

\* Mutant: the SQLite filter, which takes every .sql file, on D1.
Pending_downToo == {f \in files : ~Recorded(f)}

\* Only the D1 runner leaves the .down.sql files out.
Pending == {f \in files : (backend = "d1" => ~f.down) /\ ~Recorded(f)}

-----------------------------------------------------------------------------
(* Running a file: two statements, undone in reverse order *)

Statements(f) == IF f.down THEN <<2, 1>> ELSE <<1, 2>>

\* splitSqlStatements drops a segment that begins with a comment, with the
\* statement that follows the comment in it.
Dropped(f, i) == backend = "d1" /\ f \in Commented /\ i = 1

\* The first n statements succeed: a statement that may not be repeated finds its
\* object missing, or, in a down file, there.
CanRun(f, n) ==
    \A i \in 1..n : \/ Dropped(f, i)
                    \/ f \in Tolerant
                    \/ (Statements(f)[i] \in effect[f.of]) = f.down

\* What is in force after the first n statements.
After(f, n) ==
    LET ran == {Statements(f)[i] : i \in {j \in 1..n : ~Dropped(f, j)}}
    IN IF f.down THEN effect[f.of] \ ran ELSE effect[f.of] \cup ran

\* The file a command is at, and the one it runs for it.
Current(c) == First(command[c].todo)
Script(c)  == IF command[c].op = "rollback" THEN Down(Current(c).of) ELSE Current(c)

\* Command c goes on with todo; the others no longer know the record of f.
Proceed(c, next, f) ==
    command' = [d \in Commands |->
        IF d = c THEN next
        ELSE IF command[d].op = "idle" THEN Idle
        ELSE [command[d] EXCEPT !.stale = @ \cup {f}]]

Stop(c) == command' = [command EXCEPT ![c] = Idle]

Rest(c) == LET left == command[c].todo \ {Current(c)}
           IN IF left = {} THEN Idle ELSE [command[c] EXCEPT !.at = "exec", !.todo = left]

-----------------------------------------------------------------------------
(* The commands *)

\* runAstropressMigrations, runD1Migrations: the table and the directory are read
\* once, at the start.
BeginMigrate(c) ==
    /\ command[c].op = "idle"
    /\ Pending # {}
    /\ command' = [command EXCEPT ![c] = [Idle EXCEPT !.op = "migrate", !.todo = Pending]]
    /\ UNCHANGED <<backend, files, table, effect, hurt>>

\* A rollback reads the last record.  Without rollback_sql the command gives up
\* (no_rollback_sql); the library's rollbackAstropressLastMigration, on SQLite,
\* goes on to delete the record.
BeginRollback(c) ==
    /\ command[c].op = "idle"
    /\ table # <<>>
    /\ LET last == table[Len(table)]
       IN /\ last.back \/ backend = "sqlite"
          /\ command' = [command EXCEPT ![c] =
                           [Idle EXCEPT !.op = "rollback", !.todo = {last.name},
                                        !.at = IF last.back THEN "exec" ELSE "record"]]
    /\ UNCHANGED <<backend, files, table, effect, hurt>>

\* SQLite, db.exec(sql) to its end.
Exec(c) ==
    /\ backend = "sqlite" /\ command[c].op # "idle" /\ command[c].at = "exec"
    /\ LET f == Script(c)
       IN /\ CanRun(f, 2)
          /\ effect' = [effect EXCEPT ![f.of] = After(f, 2)]
          /\ hurt' = IF \/ Current(c) \in command[c].stale
                        \/ command[c].op = "migrate" /\ f.down /\ effect' # effect
                       THEN hurt \cup {f.of} ELSE hurt
    /\ command' = [command EXCEPT ![c].at = "record"]
    /\ UNCHANGED <<backend, files, table>>

\* SQLite, the INSERT.  The down file is looked for only now; name is UNIQUE.
Record(c) ==
    /\ backend = "sqlite" /\ command[c].op = "migrate" /\ command[c].at = "record"
    /\ LET f == Current(c)
       IN /\ ~Recorded(f)
          /\ table' = Append(table, [name |-> f, back |-> ~f.down /\ Down(f.of) \in files])
          /\ Proceed(c, Rest(c), f)
          /\ hurt' = IF f \in command[c].stale THEN hurt \cup {f.of} ELSE hurt
    /\ UNCHANGED <<backend, files, effect>>

\* Mutant: the statement deletes the first record.
Delete_first(c) ==
    /\ backend = "sqlite" /\ command[c].op = "rollback" /\ command[c].at = "record"
    /\ table' = IF table = <<>> THEN table ELSE Tail(table)
    /\ Proceed(c, Idle, Current(c))
    /\ UNCHANGED <<backend, files, effect, hurt>>

\* SQLite, the DELETE that ends a rollback.  A record without rollback_sql goes
\* while its migration stays in force.
Delete(c) ==
    /\ backend = "sqlite" /\ command[c].op = "rollback" /\ command[c].at = "record"
    /\ LET f == Current(c)
       IN /\ table' = Without(f)
          /\ Proceed(c, Idle, f)
          /\ hurt' = IF f # Baseline /\ (f \in command[c].stale \/ (~f.down /\ effect[f.of] # {}))
                       THEN hurt \cup {f.of} ELSE hurt
    /\ UNCHANGED <<backend, files, effect>>

\* Mutant: the record is not part of the batch.
Batch_recordApart(c) ==
    /\ backend = "d1" /\ command[c].op = "migrate"
    /\ LET f == Current(c)
       IN /\ CanRun(f, 2)
          /\ effect' = [effect EXCEPT ![f.of] = After(f, 2)]
          /\ \/ table' = Append(table, [name |-> f, back |-> Down(f.of) \in files])
             \/ table' = table
          /\ ~Recorded(f)
          /\ Proceed(c, Rest(c), f)
    /\ UNCHANGED <<backend, files, hurt>>

\* D1, db.batch of the statements and the INSERT.
Batch(c) ==
    /\ backend = "d1" /\ command[c].op = "migrate"
    /\ LET f == Current(c)
       IN /\ CanRun(f, 2)
          /\ ~Recorded(f)
          /\ effect' = [effect EXCEPT ![f.of] = After(f, 2)]
          /\ table' = Append(table, [name |-> f, back |-> Down(f.of) \in files])
          /\ Proceed(c, Rest(c), f)
    /\ UNCHANGED <<backend, files, hurt>>

\* D1, db.batch of the rollback's statements and the DELETE.
BatchBack(c) ==
    /\ backend = "d1" /\ command[c].op = "rollback"
    /\ LET f == Script(c)
       IN /\ CanRun(f, 2)
          /\ effect' = [effect EXCEPT ![f.of] = After(f, 2)]
          /\ table' = Without(Current(c))
          /\ Proceed(c, Idle, Current(c))
    /\ UNCHANGED <<backend, files, hurt>>

\* A command ends early: killed, or an SQL error throws.  On D1 the batch is rolled
\* back; on SQLite the statements before the failing one stay.
CutExec(c) ==
    /\ command[c].op # "idle" /\ command[c].at = "exec"
    /\ \E n \in IF backend = "d1" THEN {0} ELSE {0, 1} :
         LET f == Script(c)
         IN /\ CanRun(f, n)
            /\ effect' = [effect EXCEPT ![f.of] = After(f, n)]
            /\ hurt' = IF effect' # effect THEN hurt \cup {f.of} ELSE hurt
    /\ Stop(c)
    /\ UNCHANGED <<backend, files, table>>

\* Killed between the statements and the record, or the INSERT finds the name taken.
CutRecord(c) ==
    /\ command[c].op # "idle" /\ command[c].at = "record"
    /\ Stop(c)
    /\ hurt' = IF Recorded(Current(c)) = (command[c].op = "rollback")
                 THEN hurt \cup ({Current(c).of} \cap Migration) ELSE hurt
    /\ UNCHANGED <<backend, files, table, effect>>

\* The site starts: applyCommittedSchema, INSERT OR IGNORE of the baseline.
Boot ==
    /\ backend = "sqlite"
    /\ ~Recorded(Baseline)
    /\ table' = Append(table, [name |-> Baseline, back |-> FALSE])
    /\ UNCHANGED <<backend, files, effect, command, hurt>>

\* A developer adds a file.
AddFile(f) ==
    /\ f \notin files
    /\ files' = files \cup {f}
    /\ UNCHANGED <<backend, table, effect, command, hurt>>

Init ==
    /\ backend \in {"sqlite", "d1"}
    /\ files = {}
    /\ table = <<>>
    /\ effect = [m \in Migration |-> {}]
    /\ command = [c \in Commands |-> Idle]
    /\ hurt = {}

Next ==
    \/ \E c \in Commands :
         \/ BeginMigrate(c) \/ BeginRollback(c)
         \/ Exec(c) \/ Record(c) \/ Delete(c) \/ Batch(c) \/ BatchBack(c)
         \/ CutExec(c) \/ CutRecord(c)
    \/ Boot
    \/ \E f \in Written : AddFile(f)

Spec == Init /\ [][Next]_vars

-----------------------------------------------------------------------------
(* Properties *)

Between(m) == \E c \in Commands : /\ command[c].op # "idle" /\ command[c].at = "record"
                                  /\ Current(c).of = m

\* "Applied migrations are recorded in schema_migrations so they are never re-run":
\* the table says of a migration exactly whether it is in force, whole or not at
\* all.  On D1 that holds through every failure and overlap, unless a statement
\* was dropped with the comment before it; on SQLite, for the migrations no command
\* was cut off in and no two commands met at.
RecordedIffInForce ==
    \A m \in Migration :
        \/ m \in hurt
        \/ Between(m)
        \/ backend = "d1" /\ {Up(m), Down(m)} \cap Commented # {}
        \/ effect[m] = IF Recorded(Up(m)) THEN {1, 2} ELSE {}

\* "Companion .down.sql files are read and stored in schema_migrations.rollback_sql"
\* (OPERATIONS.md), not run: a command that migrates takes no migration out of
\* force that is recorded as applied.
MigrateOnlyAdds ==
    [][\A c \in Commands, m \in Migration :
         /\ Recorded(Up(m)) /\ m \notin hurt
         /\ command[c].op = "migrate"
         /\ [command'[c] EXCEPT !.stale = {}] # [command[c] EXCEPT !.stale = {}]
         => effect[m] \subseteq effect'[m]]_vars
=============================================================================
