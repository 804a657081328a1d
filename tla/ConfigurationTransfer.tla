----------------------- MODULE ConfigurationTransfer -----------------------
(***************************************************************************)
(* Importing a configuration (persistence/ConfigurationTransfer.cpp) across *)
(* the life of the process that does it (app/Application.cpp): the file     *)
(* chosen is staged beside the database, the next start snapshots the       *)
(* database, puts the staged file in its place, and decides at the end of   *)
(* startup whether the import stands.  The process may crash between any    *)
(* two file operations, and an operation may fail.                          *)
(***************************************************************************)
EXTENDS Integers

CONSTANTS
    Data,         \* what a configuration says
    Initial,      \* the configuration of the first start
    Torn,         \* what a database reads as under a log that is not its own
    MaxSchema,    \* bound: versions of the application, by plugin schemas
    NoFile,       \* a file that does not exist
    MaxFaults,    \* bound: file operations that fail
    Faulty        \* the operations that may fail

(* The file operations, named for the step that carries them out.          *)
Operations == {"recover_copy", "recover_log", "recover_pending", "recover_backup",
               "snapshot", "replace_copy", "replace_log",
               "finalize_pending", "finalize_backup",
               "rollback_copy", "rollback_log", "rollback_pending", "rollback_backup"}

Schemas == 1..MaxSchema
Content == [data: Data \cup {Torn}, schema: Schemas]

ASSUME TransferAssumption ==
    /\ Initial \in Data
    /\ MaxSchema \in Nat \ {0}
    /\ MaxFaults \in Nat
    /\ NoFile \notin Content
    /\ Torn \notin Data
    /\ NoFile \notin Data \cup {Torn}
    /\ Faulty \subseteq Operations

VARIABLES
    phase,       \* where the process is, "off" when there is none
    db,          \* slotdeck.sqlite3, with what its own log adds to it
    log,         \* its -wal and -shm: "none", its "own", or a "stale" one
    pending,     \* slotdeck-import.sqlite3
    backup,      \* slotdeck-before-import.sqlite3
    importing,   \* m_importInProgress
    staging,     \* the source stageImport is reading, NoFile when it is not
    schema,      \* PluginManager::databaseSchemaVersions of the binary
    faults       \* operations that failed so far

vars == <<phase, db, log, pending, backup, importing, staging, schema, faults>>

Phases == Operations \cup {"off", "begin", "open", "loading", "ready", "closing"}

Init ==
    /\ phase = "off"
    /\ db = [data |-> Initial, schema |-> 1]
    /\ log = "none"
    /\ pending = NoFile
    /\ backup = NoFile
    /\ importing = FALSE
    /\ staging = NoFile
    /\ schema = 1
    /\ faults = 0

-----------------------------------------------------------------------------
(* A log left beside a database it does not belong to is replayed over it. *)
Stale(l) == IF l = "none" THEN "none" ELSE "stale"

(* validateDatabase: the plugin schemas have to be the binary's own.       *)
Valid(file) == file.schema = schema

(* What the database says to whoever opens it, createSnapshot included.    *)
Reads == IF log = "stale" THEN [db EXCEPT !.data = Torn] ELSE db

Goto(next) == phase' = next
Refuse == phase' = "off"

(* An operation that fails, after which the code goes where failed says.   *)
Fails(op) == op \in Faulty /\ faults < MaxFaults /\ faults' = faults + 1
Works == faults' = faults

(* initialize up to beginPendingImport: lock, plugins, then which of the    *)
(* two files was left by the run before.                                   *)
Start ==
    /\ phase = "off"
    /\ phase' = "begin"
    /\ UNCHANGED <<db, log, pending, backup, importing, staging, schema, faults>>

Begin ==
    /\ phase = "begin"
    /\ \/ backup # NoFile /\ Valid(backup) /\ Goto("recover_copy")
       \/ backup # NoFile /\ ~Valid(backup) /\ Refuse
       \/ backup = NoFile /\ pending = NoFile /\ Goto("open")
       \/ /\ backup = NoFile /\ pending # NoFile
          /\ Valid(pending) /\ Goto("snapshot")
       \/ /\ backup = NoFile /\ pending # NoFile
          /\ ~Valid(pending) /\ Refuse
    /\ UNCHANGED <<db, log, pending, backup, importing, staging, schema, faults>>

(* beginPendingImport, an interrupted import: the backup goes back, then    *)
(* the staged file goes, and the backup last.                              *)
RecoverCopy ==
    /\ phase = "recover_copy"
    /\ \/ Works /\ Goto("recover_log") /\ db' = backup /\ log' = Stale(log)
       \/ Fails("recover_copy") /\ Refuse /\ UNCHANGED <<db, log>>
    /\ UNCHANGED <<pending, backup, importing, staging, schema>>

\* Mutant of RecoverLog: the log of the replaced database stays beside the new one.
RecoverLogKept ==
    /\ phase = "recover_log"
    /\ Works /\ Goto("recover_pending")
    /\ UNCHANGED <<db, log, pending, backup, importing, staging, schema>>

RecoverLog ==
    /\ phase = "recover_log"
    /\ \/ Works /\ Goto("recover_pending") /\ log' = "none"
       \/ Fails("recover_log") /\ log # "none" /\ Refuse /\ log' = log
    /\ UNCHANGED <<db, pending, backup, importing, staging, schema>>

RecoverPending ==
    /\ phase = "recover_pending"
    /\ \/ Works /\ Goto("recover_backup") /\ pending' = NoFile
       \/ /\ Fails("recover_pending") /\ pending # NoFile
          /\ Refuse /\ pending' = pending
    /\ UNCHANGED <<db, log, backup, importing, staging, schema>>

RecoverBackup ==
    /\ phase = "recover_backup"
    /\ \/ Works /\ Goto("open") /\ backup' = NoFile
       \/ Fails("recover_backup") /\ Refuse /\ backup' = backup
    /\ UNCHANGED <<db, log, pending, importing, staging, schema>>

(* beginPendingImport, a staged file: the database is kept aside, then     *)
(* replaced.  A replacement that fails takes the backup away again.        *)
TakeSnapshot ==
    /\ phase = "snapshot"
    /\ \/ Works /\ Goto("replace_copy") /\ backup' = Reads
       \/ Fails("snapshot") /\ Refuse /\ backup' = backup
    /\ UNCHANGED <<db, log, pending, importing, staging, schema>>

ReplaceCopy ==
    /\ phase = "replace_copy"
    /\ \/ /\ Works /\ Goto("replace_log")
          /\ db' = pending /\ log' = Stale(log) /\ backup' = backup
       \/ /\ Fails("replace_copy") /\ Refuse
          /\ backup' = NoFile /\ UNCHANGED <<db, log>>
    /\ UNCHANGED <<pending, importing, staging, schema>>

ReplaceLog ==
    /\ phase = "replace_log"
    /\ \/ /\ Works /\ Goto("open")
          /\ log' = "none" /\ importing' = TRUE /\ backup' = backup
       \/ /\ Fails("replace_log") /\ log # "none" /\ Refuse
          /\ backup' = NoFile /\ UNCHANGED <<log, importing>>
    /\ UNCHANGED <<db, pending, staging, schema>>

(* The rest of initialize: the database is opened, and marked as not       *)
(* cleanly shut down, which is the first thing its own log holds.  Whatever *)
(* of initialize fails once the store exists ends in shutdown.             *)
Open ==
    /\ phase = "open"
    /\ \/ Goto("loading") /\ db' = Reads /\ log' = "own"
       \/ Goto("closing") /\ UNCHANGED <<db, log>>
    /\ UNCHANGED <<pending, backup, importing, staging, schema, faults>>

(* completeStartup: the plugins bring their schemas to the binary's, or    *)
(* PluginManager::initialize fails.                                        *)
Load ==
    /\ phase = "loading"
    /\ db' = [db EXCEPT !.schema = schema]
    /\ Goto(IF importing THEN "finalize_pending" ELSE "ready")
    /\ UNCHANGED <<log, pending, backup, importing, staging, schema, faults>>

(* A plugin runtime or the interface that cannot be built, or a window     *)
(* closed while it was loading.                                            *)
LoadFails ==
    /\ phase = "loading"
    /\ Goto("closing")
    /\ UNCHANGED <<db, log, pending, backup, importing, staging, schema, faults>>

\* Mutant of FinalizePending: the backup goes first and the staged file after it.
FinalizeBackupFirst ==
    /\ phase = "finalize_pending"
    /\ Works /\ Goto("finalize_backup") /\ backup' = NoFile
    /\ UNCHANGED <<db, log, pending, importing, staging, schema>>

(* finalizePendingImport: the import stands once the backup is gone.       *)
FinalizePending ==
    /\ phase = "finalize_pending"
    /\ \/ Works /\ Goto("finalize_backup") /\ pending' = NoFile
       \/ /\ Fails("finalize_pending") /\ pending # NoFile
          /\ Goto("closing") /\ pending' = pending
    /\ UNCHANGED <<db, log, backup, importing, staging, schema>>

\* Mutant of FinalizeBackup: a backup that cannot be removed is left behind.
FinalizeBackupLeft ==
    /\ phase = "finalize_backup"
    /\ \/ Works /\ backup' = NoFile
       \/ Fails("finalize_backup") /\ backup' = backup
    /\ Goto("ready")
    /\ importing' = FALSE
    /\ UNCHANGED <<db, log, pending, staging, schema>>

FinalizeBackup ==
    /\ phase = "finalize_backup"
    /\ \/ Works /\ Goto("ready") /\ backup' = NoFile /\ importing' = FALSE
       \/ Fails("finalize_backup") /\ Goto("closing") /\ UNCHANGED <<backup, importing>>
    /\ UNCHANGED <<db, log, pending, staging, schema>>

-----------------------------------------------------------------------------
(* The application in use: whatever it writes, and an import it stages on  *)
(* another thread, which may still be at it when shutdown has given the    *)
(* instance lock to the next process.                                      *)
Edit(d) ==
    /\ phase = "ready"
    /\ db.data # d
    /\ db' = [db EXCEPT !.data = d]
    /\ log' = "own"
    /\ UNCHANGED <<phase, pending, backup, importing, staging, schema, faults>>

(* importConfiguration: one transfer at a time, of a file validateDatabase *)
(* accepts; the copy is committed whole or not at all.                     *)
Stage(d) ==
    /\ phase = "ready"
    /\ staging = NoFile
    /\ staging' = [data |-> d, schema |-> schema]
    /\ UNCHANGED <<phase, db, log, pending, backup, importing, schema, faults>>

FinishStage ==
    /\ staging # NoFile
    /\ pending' \in {staging, pending}
    /\ staging' = NoFile
    /\ UNCHANGED <<phase, db, log, backup, importing, schema, faults>>

Quit ==
    /\ phase = "ready"
    /\ Goto("closing")
    /\ UNCHANGED <<db, log, pending, backup, importing, staging, schema, faults>>

(* shutdown: closing the last connection folds the log into the database   *)
(* and removes it, and an import that was not decided is rolled back.      *)
Close ==
    /\ phase = "closing"
    /\ db' = Reads
    /\ log' = "none"
    /\ importing' = (importing /\ backup # NoFile)
    /\ Goto(IF importing' THEN "rollback_copy" ELSE "off")
    /\ UNCHANGED <<pending, backup, staging, schema, faults>>

(* rollbackPendingImport: what fails is logged and the process ends.       *)
RollbackCopy ==
    /\ phase = "rollback_copy"
    /\ \/ Works /\ Goto("rollback_log") /\ db' = backup /\ log' = Stale(log) /\ importing' = importing
       \/ Fails("rollback_copy") /\ Goto("off") /\ importing' = FALSE /\ UNCHANGED <<db, log>>
    /\ UNCHANGED <<pending, backup, staging, schema>>

RollbackLog ==
    /\ phase = "rollback_log"
    /\ \/ Works /\ Goto("rollback_pending") /\ log' = "none" /\ importing' = importing
       \/ Fails("rollback_log") /\ log # "none" /\ Goto("off") /\ importing' = FALSE /\ log' = log
    /\ UNCHANGED <<db, pending, backup, staging, schema>>

RollbackPending ==
    /\ phase = "rollback_pending"
    /\ \/ Works /\ Goto("rollback_backup") /\ pending' = NoFile /\ importing' = importing
       \/ /\ Fails("rollback_pending") /\ pending # NoFile
          /\ Goto("off") /\ importing' = FALSE /\ pending' = pending
    /\ UNCHANGED <<db, log, backup, staging, schema>>

RollbackBackup ==
    /\ phase = "rollback_backup"
    /\ \/ Works /\ backup' = NoFile
       \/ Fails("rollback_backup") /\ backup' = backup
    /\ Goto("off")
    /\ importing' = FALSE
    /\ UNCHANGED <<db, log, pending, staging, schema>>

-----------------------------------------------------------------------------
(* The process ends without shutdown: the files stay as they are.          *)
Crash ==
    /\ phase # "off"
    /\ Goto("off")
    /\ importing' = FALSE
    /\ staging' = NoFile
    /\ UNCHANGED <<db, log, pending, backup, schema, faults>>

(* Another version of the application, or of its plugins, is installed.    *)
Upgrade ==
    /\ phase = "off"
    /\ schema < MaxSchema
    /\ schema' = schema + 1
    /\ UNCHANGED <<phase, db, log, pending, backup, importing, staging, faults>>

Next ==
    \/ Start \/ Begin
    \/ RecoverCopy \/ RecoverLog \/ RecoverPending \/ RecoverBackup
    \/ TakeSnapshot \/ ReplaceCopy \/ ReplaceLog
    \/ Open \/ Load \/ LoadFails \/ FinalizePending \/ FinalizeBackup
    \/ (\E d \in Data : Edit(d))
    \/ (\E d \in Data : Stage(d))
    \/ FinishStage \/ Quit \/ Close
    \/ RollbackCopy \/ RollbackLog \/ RollbackPending \/ RollbackBackup
    \/ Crash \/ Upgrade

Spec == Init /\ [][Next]_vars

-----------------------------------------------------------------------------
(* Every reachable value has its type.                                     *)
TypeOK ==
    /\ phase \in Phases
    /\ db \in Content
    /\ log \in {"none", "own", "stale"}
    /\ pending \in Content \cup {NoFile}
    /\ backup \in Content \cup {NoFile}
    /\ importing \in BOOLEAN
    /\ staging \in Content \cup {NoFile}
    /\ schema \in Schemas
    /\ faults \in 0..MaxFaults

(* The configuration in force: the one the next start will come back to,   *)
(* which is the backup while there is one.                                 *)
InForce == IF backup # NoFile THEN backup.data ELSE Reads.data

(* At every instant, crashes included, the disk holds one whole            *)
(* configuration the next start comes back to: README.md:58, "transactional *)
(* import with atomic replacement".                                        *)
ConfigurationWhole == InForce \in Data

(* Nobody works on a configuration that is still undecided: a backup left  *)
(* while the application is used would undo all of it at the next start.   *)
NoUndecidedImportInUse == phase = "ready" => backup = NoFile /\ ~importing

(* What an import promises whoever uses the application.                   *)
Promise == INSTANCE AtomicImport WITH
    None <- NoFile,
    config <- InForce,
    offer <- IF importing THEN Reads.data
             ELSE IF pending # NoFile THEN pending.data ELSE NoFile,
    inUse <- phase = "ready"

ImportIsAtomic == Promise!Spec

=============================================================================
