------------------------------ MODULE Startup ------------------------------
(***************************************************************************)
(* Processes that open the database file: the server and the command line  *)
(* tools of cmd/dmn-status/main.go (serve with bootstrap, withStore,       *)
(* setPassword, backup), with Open, migrate, applyMigration and Backup of  *)
(* internal/store/db.go and SetAdmin of internal/store/admin.go.           *)
(*                                                                         *)
(* A tool runs beside the server ("docker compose exec"), the server is    *)
(* started again when it ends, and an update or its undoing changes how    *)
(* many migrations the binary brings along.  Every transaction begins with *)
(* "immediate": one process holds the write lock of the file, the others   *)
(* wait up to busy_timeout.  What a transaction did is seen by others when *)
(* it commits and is gone when its process fails or is killed.             *)
(***************************************************************************)
EXTENDS Naturals

CONSTANTS
  Procs,   \* processes, each started again and again
  Newest,  \* number of migrations of the newest binary
  Nothing  \* no process, no file

Commands == {"serve", "set-password", "backup"}
Versions == 1 .. Newest

\* What the file holds: schema_migrations exists, the versions in it, the versions
\* whose tables are there, who wrote the admin.
File == [made : BOOLEAN, recorded : SUBSET Versions, tables : SUBSET Versions,
         admin : {"none", "environment", "tool"}]

\* The file of a backup: what it is a copy of, and whether all of it is written.
Copy == [of : File, complete : BOOLEAN]

ASSUME NewestAssumption  == Newest \in Nat
ASSUME NothingAssumption == Nothing \notin Procs \cup Copy

VARIABLES
  db,      \* the file, as committed
  backup,  \* the file of a backup, or Nothing
  lock,    \* the process that holds the write lock
  pc,      \* where a process is
  cmd,     \* what it was started for
  files,   \* number of migrations its binary has
  ver,     \* the migration it is at
  stale    \* the admin was written since the process read it

proc     == <<pc, cmd, files, ver, stale>>
fileVars == <<db, backup, lock, proc>>

GoesTo(p, there) == pc' = [pc EXCEPT ![p] = there]

\* The process ends; a transaction it had open is rolled back.
Gone(p) ==
  /\ GoesTo(p, "off")
  /\ lock' = IF lock = p THEN Nothing ELSE lock
  /\ files' = [files EXCEPT ![p] = 0]
  /\ ver' = [ver EXCEPT ![p] = 1]
  /\ stale' = [stale EXCEPT ![p] = FALSE]
  /\ UNCHANGED <<db, backup, cmd>>

-----------------------------------------------------------------------------
(* Open.                                                                   *)

Start(p, c, n) ==
  /\ pc[p] = "off"
  /\ GoesTo(p, "create")
  /\ cmd' = [cmd EXCEPT ![p] = c]
  /\ files' = [files EXCEPT ![p] = n]
  /\ UNCHANGED <<db, backup, lock, ver, stale>>

\* "create table if not exists schema_migrations", which writes if it is not there.
CreateTable(p) ==
  /\ pc[p] = "create"
  /\ db.made \/ lock = Nothing
  /\ db' = [db EXCEPT !.made = TRUE]
  /\ GoesTo(p, "begin")
  /\ UNCHANGED <<backup, lock, cmd, files, ver, stale>>

\* Mutant of Free: the transaction is not an immediate one.
FreeAlways == TRUE

\* BeginTx gets the write lock.
Free == lock = Nothing

Begin(p) ==
  /\ pc[p] = "begin"
  /\ ver[p] <= files[p]
  /\ Free
  /\ lock' = p
  /\ GoesTo(p, "query")
  /\ UNCHANGED <<db, backup, cmd, files, ver, stale>>

\* Mutant of Rollback: the transaction of a migration that is done stays open.
RollbackNot == lock' = lock

Rollback == lock' = Nothing

NextFile(p) == ver[p] + 1

\* The version is recorded: rollback, and on to the next file.
Skip(p) ==
  /\ pc[p] = "query"
  /\ ver[p] \in db.recorded
  /\ Rollback
  /\ ver' = [ver EXCEPT ![p] = NextFile(p)]
  /\ GoesTo(p, "begin")
  /\ UNCHANGED <<db, backup, cmd, files, stale>>

NotDone(p) ==
  /\ pc[p] = "query"
  /\ ver[p] \notin db.recorded
  /\ GoesTo(p, "exec")
  /\ UNCHANGED <<db, backup, lock, cmd, files, ver, stale>>

\* Mutant of Before: the statements of the file run outside the transaction.
BeforeCommit(v) == [db EXCEPT !.tables = @ \cup {v}]

\* What others see of migration v before its transaction commits.
Before(v) == db

\* The statements of the file, which fail if a table of theirs exists, and the
\* insert of the version.
Exec(p) ==
  /\ pc[p] = "exec"
  /\ ver[p] \notin db.tables
  /\ db' = Before(ver[p])
  /\ GoesTo(p, "commit")
  /\ UNCHANGED <<backup, lock, cmd, files, ver, stale>>

Commit(p) ==
  /\ pc[p] = "commit"
  /\ db' = [db EXCEPT !.tables = @ \cup {ver[p]}, !.recorded = @ \cup {ver[p]}]
  /\ lock' = Nothing
  /\ ver' = [ver EXCEPT ![p] = @ + 1]
  /\ GoesTo(p, "begin")
  /\ UNCHANGED <<backup, cmd, files, stale>>

\* Where a command goes on with the open store; set-password may refuse the name
\* and ends, or waits for its input.
Proceeds(c) == CASE c = "serve"        -> {"admin"}
                 [] c = "set-password" -> {"stdin", "close"}
                 [] c = "backup"       -> {"copy"}

\* migrate is through its files; the readers' connection answers the ping.
Opened(p) ==
  /\ pc[p] = "begin"
  /\ ver[p] > files[p]
  /\ \E there \in Proceeds(cmd[p]) : GoesTo(p, there)
  /\ UNCHANGED <<db, backup, lock, cmd, files, ver, stale>>

-----------------------------------------------------------------------------
(* What the commands do with the open store.                               *)

\* bootstrap reads the admin.  If there is one, or ADMIN_USER is not set (conf),
\* nothing is written.
Admin(p, conf) ==
  /\ pc[p] = "admin"
  /\ stale' = [stale EXCEPT ![p] = FALSE]
  /\ GoesTo(p, IF db.admin = "none" /\ conf THEN "set" ELSE "serve")
  /\ UNCHANGED <<db, backup, lock, cmd, files, ver>>

\* setPassword has read a line of its input: the password is long enough, or the
\* tool ends, as it does when reading fails.
ReadPassword(p) ==
  /\ pc[p] = "stdin"
  /\ GoesTo(p, "set") \/ GoesTo(p, "close")
  /\ UNCHANGED <<db, backup, lock, cmd, files, ver, stale>>

\* SetAdmin, an upsert in a transaction.  serve goes on, the tool ends.
SetAdmin(p) ==
  /\ pc[p] = "set"
  /\ lock = Nothing
  /\ db' = [db EXCEPT !.admin = IF cmd[p] = "serve" THEN "environment" ELSE "tool"]
  /\ stale' = [q \in Procs |-> stale[q] \/ q # p]
  /\ GoesTo(p, IF cmd[p] = "serve" THEN "serve" ELSE "close")
  /\ UNCHANGED <<backup, lock, cmd, files, ver>>

\* "vacuum into" begins to write what is committed to a new file, or fails if the
\* file exists.
Backup(p) ==
  /\ pc[p] = "copy"
  /\ IF backup = Nothing
     THEN backup' = [of |-> db, complete |-> FALSE] /\ GoesTo(p, "copying")
     ELSE backup' = backup /\ GoesTo(p, "close")
  /\ UNCHANGED <<db, lock, cmd, files, ver, stale>>

\* It has written all of it.
BackupEnds(p) ==
  /\ pc[p] = "copying"
  /\ backup' = [backup EXCEPT !.complete = TRUE]
  /\ GoesTo(p, "close")
  /\ UNCHANGED <<db, lock, cmd, files, ver, stale>>

\* withStore closes the store and the tool ends.
Close(p) ==
  /\ pc[p] = "close"
  /\ Gone(p)

-----------------------------------------------------------------------------
(* What goes wrong, and the operator.                                      *)

\* Steps that want the write lock.
Waits(p) == \/ pc[p] = "create" /\ ~db.made
            \/ pc[p] = "begin" /\ ver[p] <= files[p]
            \/ pc[p] = "set"

\* Another process holds the lock for longer than busy_timeout.
Busy(p) ==
  /\ Waits(p)
  /\ lock \notin {Nothing, p}
  /\ Gone(p)

\* Mutant of Dies: bootstrap takes any error for "there is no admin".
DiesButAdmin(p) ==
  /\ pc[p] # "off"
  /\ \/ pc[p] = "admin" /\ GoesTo(p, "set") /\ UNCHANGED <<db, backup, lock, cmd, files, ver, stale>>
     \/ pc[p] # "admin" /\ Gone(p)

\* A statement fails and the command with it, a signal ends it (not while it waits
\* for its input: the signal is caught and only cancels the context), or it is
\* killed.  A backup that had begun leaves an incomplete file.
Dies(p) ==
  /\ pc[p] # "off"
  /\ Gone(p)

\* With no process running the operator puts a complete copy in place.
Restore ==
  /\ \A p \in Procs : pc[p] = "off"
  /\ backup # Nothing
  /\ backup.complete
  /\ db' = backup.of
  /\ backup' = Nothing
  /\ UNCHANGED <<lock, proc>>

\* The operator removes what a backup has left behind.
Discard ==
  /\ backup # Nothing
  /\ \A p \in Procs : pc[p] # "copying"
  /\ backup' = Nothing
  /\ UNCHANGED <<db, lock, proc>>

\* A new file.
StartupInit ==
  /\ db = [made |-> FALSE, recorded |-> {}, tables |-> {}, admin |-> "none"]
  /\ backup = Nothing
  /\ lock = Nothing
  /\ pc = [p \in Procs |-> "off"]
  /\ cmd = [p \in Procs |-> "serve"]
  /\ files = [p \in Procs |-> 0]
  /\ ver = [p \in Procs |-> 1]
  /\ stale = [p \in Procs |-> FALSE]

\* The steps of a process that nothing but the lock holds up: all but ReadPassword,
\* whose input may never come.
Work(p) == \/ CreateTable(p) \/ Begin(p) \/ Skip(p) \/ NotDone(p) \/ Exec(p)
           \/ Commit(p) \/ Opened(p) \/ SetAdmin(p) \/ Backup(p) \/ BackupEnds(p) \/ Close(p) \/ Busy(p)
           \/ \E conf \in BOOLEAN : Admin(p, conf)

StartupNext ==
  \/ \E p \in Procs : Work(p) \/ ReadPassword(p) \/ Dies(p)
  \/ \E p \in Procs, c \in Commands, n \in Versions : Start(p, c, n)
  \/ Restore \/ Discard

StartupSpec == StartupInit /\ [][StartupNext]_fileVars

\* A process that runs takes its next step, or its wait for the lock times out.
\* Nobody has to answer set-password.
FairSpec == StartupSpec /\ \A p \in Procs : WF_fileVars(Work(p))

-----------------------------------------------------------------------------
(* Properties.                                                             *)

\* The versions in d are recorded exactly as their tables are there, and no
\* migration is there without the ones before it.
Whole(d) == /\ d.recorded = d.tables
            /\ \A v \in d.tables : 1 .. v \subseteq d.tables

\* Whatever processes of whatever binary open the file at once, fail or are
\* killed in the middle of a migration: what is committed, and what a backup
\* copies, is the schema after some number of migrations.
SchemaIsWhole == Whole(db) /\ (backup # Nothing => Whole(backup.of))

\* No migration is run on tables that are already there, or before the one it
\* builds on: no start fails on what an earlier one left behind.
RunsOnce ==
  \A p \in Procs : pc[p] = "exec" => db.tables = 1 .. (ver[p] - 1)

\* A command works on the file only when all migrations of its binary are in it.
WorksOnSchema ==
  \A p \in Procs : pc[p] \in {"admin", "stdin", "set", "copy", "copying", "serve"} => 1 .. files[p] \subseteq db.tables

\* main.go: "admin existiert schon, ADMIN_PASSWORD wird ignoriert".  A start
\* replaces an existing admin by the one from the environment only if it was
\* written after bootstrap had looked; not because looking failed.
BootstrapKeepsAdmin ==
  [][\A p \in Procs : SetAdmin(p) /\ cmd[p] = "serve" => db.admin = "none" \/ stale[p]]_fileVars

\* Every start ends in a serving process, in one that is gone or in set-password
\* waiting for its input, and once it has its input that ends too.  Nobody waits
\* for ever for the lock, not even beside a tool that nobody answers, or for the
\* only connection of the writer, which a transaction of its own still holds.
StartEnds ==
  \A p \in Procs : /\ pc[p] = "create" ~> pc[p] \in {"serve", "off", "stdin"}
                  /\ pc[p] = "set" ~> pc[p] \in {"serve", "off"}
=============================================================================
