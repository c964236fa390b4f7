------------------------------ MODULE Migration ------------------------------
(***************************************************************************)
(* store.Open on a database that may have the schema from before secure    *)
(* pairing.  Every command and the relay open the database; the decision   *)
(* to migrate, the look for a backup, the backup and the transaction that  *)
(* drops the old tables are separate steps, and other processes run in     *)
(* between.                                                                *)
(*                                                                         *)
(* SQLite and the file system are external.  A transaction is atomic.      *)
(* "vacuum into" reads the database for as long as it runs, so no other    *)
(* process commits meanwhile; it refuses a target that exists; and when it *)
(* is interrupted, the file that it was writing stays behind.  The tenants *)
(* are left alone by every step and are not modelled here.                 *)
(***************************************************************************)
EXTENDS FiniteSets

CONSTANTS
  Processes,    \* processes that open the database
  Legacy,       \* the host, device and invite rows of the old schema
  Rows,         \* the rows that are written after the migration
  Absent

Schemas == {"none", "legacy", "current"}

Backup == [rows : SUBSET Legacy, whole : BOOLEAN]

Points ==
  {"closed", "legacy", "missing", "copying", "copied", "prepared", "open"}

VARIABLES
  schema, rows,   \* the database
  backup,         \* the file with the suffix .pre-secure-pairing.bak
  copying,        \* what the process at "copying" reads
  pc,
  old,            \* history: the rows that there were at first
  written,        \* history: the rows written under the current schema
  raced           \* history: two processes were migrating at the same time

vars == <<schema, rows, backup, copying, pc, old, written, raced>>

TypeOK ==
  /\ schema \in Schemas
  /\ rows \in SUBSET (Legacy \cup Rows)
  /\ backup \in Backup \cup {Absent}
  /\ copying \in SUBSET Legacy
  /\ pc \in [Processes -> Points]
  /\ old \in SUBSET Legacy
  /\ written \in SUBSET Rows
  /\ raced \in BOOLEAN

\* A new database, or one that an earlier release has used.
Init ==
  /\ \/ schema = "none" /\ rows = {}
     \/ schema = "legacy" /\ rows = Legacy
  /\ backup = Absent
  /\ copying = {}
  /\ pc = [p \in Processes |-> "closed"]
  /\ old = rows
  /\ written = {}
  /\ raced = FALSE

database == <<schema, rows>>

history == <<old, written, raced>>

Goto(p, point) == pc' = [pc EXCEPT ![p] = point]

\* "vacuum into" of another process holds the read lock.
ReadLocked == \E p \in Processes : pc[p] = "copying"

\* p has found the old schema and not dropped it yet.
Migrating(p) == pc[p] \in {"legacy", "missing", "copying", "copied"}

\* Open goes on to migrate, or not.
Open(p, migrate) ==
  /\ pc[p] = "closed"
  /\ Goto(p, IF migrate THEN "legacy" ELSE "prepared")
  /\ raced' = (raced \/ (migrate /\ \E q \in Processes : Migrating(q)))
  /\ UNCHANGED <<database, backup, copying, old, written>>

-----------------------------------------------------------------------------
MutAlwaysLegacy(p) == Open(p, schema # "none")

\* hasLegacySecureSchema looks for the columns that only the old tables have.
HasLegacySecureSchema(p) == Open(p, schema = "legacy")

MutSkipBackup(p) ==
  /\ pc[p] = "legacy"
  /\ Goto(p, "copied")
  /\ UNCHANGED <<database, backup, copying, history>>

\* backupLegacySecureSchema: a file with the name of the backup is taken for
\* the backup.
BackupLegacySecureSchema(p) ==
  /\ pc[p] = "legacy"
  /\ Goto(p, IF backup = Absent THEN "missing" ELSE "copied")
  /\ UNCHANGED <<database, backup, copying, history>>

\* "vacuum into" starts to write the file; it fails, and Open with it, if the
\* file has appeared since os.Stat.
VacuumInto(p) ==
  /\ pc[p] = "missing"
  /\ IF backup = Absent
     THEN /\ Goto(p, "copying")
          /\ backup' = [rows |-> {}, whole |-> FALSE]
          /\ copying' = rows \cap Legacy
     ELSE /\ Goto(p, "closed")
          /\ UNCHANGED <<backup, copying>>
  /\ UNCHANGED <<database, history>>

VacuumDone(p) ==
  /\ pc[p] = "copying"
  /\ backup' = [rows |-> copying, whole |-> TRUE]
  /\ copying' = {}
  /\ Goto(p, "copied")
  /\ UNCHANGED <<database, history>>

\* The transaction: the six tables are dropped and created again, whatever
\* they hold by now.
DropLegacyTables(p) ==
  /\ pc[p] = "copied"
  /\ ~ReadLocked
  /\ schema' = "current"
  /\ rows' = {}
  /\ Goto(p, "prepared")
  /\ UNCHANGED <<backup, copying, history>>

\* The lock was not free within the busy timeout: Open fails.
Busy(p) ==
  /\ pc[p] \in {"copied", "prepared"}
  /\ ReadLocked
  /\ Goto(p, "closed")
  /\ UNCHANGED <<database, backup, copying, history>>

\* Open executes SchemaSQL (create table if not exists) and returns.
CreateSchema(p) ==
  /\ pc[p] = "prepared"
  /\ ~ReadLocked
  /\ schema' = IF schema = "none" THEN "current" ELSE schema
  /\ Goto(p, "open")
  /\ UNCHANGED <<rows, backup, copying, history>>

-----------------------------------------------------------------------------
\* A row of a table that the migration drops is inserted: a host is enrolled,
\* say (EnrollHost).
Write(p, r) ==
  /\ pc[p] = "open"
  /\ ~ReadLocked
  /\ r \notin written
  /\ rows' = rows \cup {r}
  /\ written' = written \cup {r}
  /\ UNCHANGED <<schema, backup, copying, pc, old, raced>>

Close(p) ==
  /\ pc[p] = "open"
  /\ Goto(p, "closed")
  /\ UNCHANGED <<database, backup, copying, history>>

\* A process is killed or a statement fails: the transaction rolls back, the
\* file of an unfinished backup stays.
Interrupt(p) ==
  /\ pc[p] \notin {"closed", "open"}
  /\ copying' = IF pc[p] = "copying" THEN {} ELSE copying
  /\ Goto(p, "closed")
  /\ UNCHANGED <<database, backup, history>>

\* The power fails, and with it every process; what SQLite has committed and
\* a backup that it has finished are on the disk.
PowerLoss ==
  /\ copying' = {}
  /\ pc' = [p \in Processes |-> "closed"]
  /\ UNCHANGED <<database, backup, history>>

\* The steps of store.Open in one process.
OpenStep(p) ==
  \/ HasLegacySecureSchema(p)
  \/ BackupLegacySecureSchema(p)
  \/ VacuumInto(p) \/ VacuumDone(p)
  \/ DropLegacyTables(p)
  \/ Busy(p)
  \/ CreateSchema(p)
  \/ Interrupt(p)

-----------------------------------------------------------------------------
(* Properties *)

\* The rows of the old schema are never lost: they are in the database, or
\* the backup holds them, whichever processes migrate at once.  The exception
\* is a backup that was cut short: its file is taken for the backup by
\* whoever starts next.
LegacyIsKept ==
  \/ old \subseteq rows
  \/ backup # Absent /\ (backup.whole => old \subseteq backup.rows)

\* What is written under the current schema stays, and a store that Open has
\* returned has that schema, whatever processes open the database later or
\* are still about to.  The exception is two processes that migrate at the
\* same time, of which the later drops the tables of the earlier.
CurrentRowsSurvive ==
  /\ ~raced => written \subseteq rows
  /\ \A p \in Processes : pc[p] = "open" => schema = "current"

=============================================================================
