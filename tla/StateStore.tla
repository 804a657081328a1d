------------------------------- MODULE StateStore -------------------------------
(***************************************************************************)
(* The database of the application (persistence/StateStore.cpp) from one     *)
(* start to the next: the file and the log beside it (-wal), a file that      *)
(* cannot be used set aside, and the schema of a plugin brought to what this   *)
(* build declares, or dropped and created again.  The application may end     *)
(* between any two steps, and the next start may be of another build.        *)
(*                                                                         *)
(* A schema is a version and an edition: two editions of one version differ   *)
(* in their definitions.  What was recorded is a set of rows; the last of     *)
(* them may only be in the log.                                             *)
(***************************************************************************)
EXTENDS Naturals, SequencesExt

CONSTANTS
    Builds,         \* the schemas the builds declare
    MaxRows,        \* bound: rows ever recorded
    MaxEnds         \* bound: ends, failures and damages

VARIABLES
    file,           \* the database, or None
    logRows,        \* the rows that are only in the log beside it
    backups,        \* the rows of each file set aside
    build,          \* the build that runs
    storeStep,      \* where its start is
    recorded,       \* history: every row that was committed
    rebuilt,        \* history: those a rebuild of the schema dropped
    torn,           \* history: those of a log that was parted from a file set aside
    storeFaults     \* bound: what went wrong so far

stateVars == <<file, logRows, backups, build, storeStep, recorded, rebuilt, torn, storeFaults>>

None == [version |-> 0, edition |-> 0, rows |-> {}, usable |-> FALSE]
Fresh == [version |-> 0, edition |-> 0, rows |-> {}, usable |-> TRUE]

StateInit ==
    /\ file = None /\ logRows = {} /\ backups = <<>>
    /\ build = (CHOOSE b \in Builds : TRUE) /\ storeStep = "down"
    /\ recorded = {} /\ rebuilt = {} /\ torn = {} /\ storeFaults = 0

Goes(to) == storeStep' = to
MayFail == storeFaults < MaxEnds /\ storeFaults' = storeFaults + 1

Launch ==
    /\ storeStep = "down" /\ Goes("opening")
    /\ build' \in Builds
    /\ UNCHANGED <<file, logRows, backups, recorded, rebuilt, torn, storeFaults>>

(* validateCoreDatabase finds the tables of the core as they should be.       *)
Usable == file # None /\ file.usable

(* openDatabase and initializeCoreSchema: a file that is not there is made,   *)
(* and what is left beside an empty one is not its log.                     *)
OpenDatabase ==
    /\ storeStep \in {"opening", "replacing"}
    /\ \/ /\ file = None \/ file.usable
          /\ file' = IF file = None THEN Fresh ELSE file
          /\ logRows' = IF file = None THEN {} ELSE logRows
          /\ Goes("migrating") /\ UNCHANGED storeFaults
       \/ /\ IF file = None \/ Usable THEN MayFail ELSE UNCHANGED storeFaults
          /\ Goes(IF storeStep = "opening" THEN "unusable" ELSE "refused")
          /\ UNCHANGED <<file, logRows>>
    /\ UNCHANGED <<backups, build, recorded, rebuilt, torn>>

(* replaceUnusableDatabase: the file is renamed; if it stays, so do we.      *)
SetFileAside ==
    /\ storeStep = "unusable"
    /\ \/ file = None /\ Goes("bare") /\ UNCHANGED <<file, backups, storeFaults>>
       \/ /\ file # None /\ Goes("aside")
          /\ backups' = Append(backups, file.rows) /\ file' = None
          /\ UNCHANGED storeFaults
       \/ file # None /\ MayFail /\ Goes("refused") /\ UNCHANGED <<file, backups>>
    /\ UNCHANGED <<logRows, build, recorded, rebuilt, torn>>

\* Mutant of WithItsLog: the log stays where it was.
WithoutItsLog(rows) == rows

WithItsLog(rows) == rows \cup logRows

(* What is beside it goes with it; where it cannot, or nothing was renamed, it  *)
(* is removed, or stays for OpenDatabase to drop.                            *)
SetSidecarsAside ==
    /\ storeStep \in {"aside", "bare"} /\ Goes("replacing")
    /\ \/ /\ storeStep = "aside" /\ backups' = [backups EXCEPT ![Len(backups)] = WithItsLog(@)]
          /\ logRows' = {} /\ UNCHANGED <<torn, storeFaults>>
       \/ /\ storeStep = "aside" /\ MayFail /\ torn' = torn \cup logRows
          /\ logRows' \in {{}, logRows} /\ UNCHANGED backups
       \/ /\ storeStep = "bare" /\ logRows' \in {{}, logRows}
          /\ UNCHANGED <<backups, torn, storeFaults>>
    /\ UNCHANGED <<file, build, recorded, rebuilt>>

-----------------------------------------------------------------------------
(* migratePluginDatabase drops a schema that does not match, once, and        *)
(* migrates again.                                                         *)
AfterMismatch == IF storeStep = "migrating" THEN "dropping" ELSE "refused"

(* The versions between the one that is stored and the one that runs.        *)
Migrated ==
    [file EXCEPT !.version = build.version, !.edition = IF file.version = 0 THEN build.edition ELSE @]

\* Mutant of ValidSchema: only the versions are compared.
ValidVersion(schema) == schema.version = build.version

(* validatePluginSchema: what is stored is what the plugin declares.         *)
ValidSchema(schema) == schema.version = build.version /\ schema.edition = build.edition

(* applyPluginMigrations is one transaction: a newer schema is refused, an    *)
(* older one brought up to date, and one that does not match left as it was.  *)
ApplyPluginMigrations ==
    /\ storeStep \in {"migrating", "rebuilding"}
    /\ \/ file.version > build.version /\ Goes("refused") /\ UNCHANGED <<file, storeFaults>>
       \/ /\ file.version <= build.version /\ ValidSchema(Migrated)
          /\ file' = Migrated /\ Goes("running") /\ UNCHANGED storeFaults
       \/ /\ file.version <= build.version /\ ~ValidSchema(Migrated)
          /\ Goes(AfterMismatch) /\ UNCHANGED <<file, storeFaults>>
       \/ MayFail /\ Goes("refused") /\ UNCHANGED file
    /\ UNCHANGED <<logRows, backups, build, recorded, rebuilt, torn>>

(* dropPluginSchema, a transaction of its own.                              *)
DropPluginSchema ==
    /\ storeStep = "dropping"
    /\ \/ /\ Goes("rebuilding")
          /\ file' = Fresh /\ logRows' = {} /\ rebuilt' = rebuilt \cup file.rows \cup logRows
          /\ UNCHANGED storeFaults
       \/ MayFail /\ Goes("refused") /\ UNCHANGED <<file, logRows, rebuilt>>
    /\ UNCHANGED <<backups, build, recorded, torn>>

-----------------------------------------------------------------------------
(* executePluginDatabaseTransaction commits to the log; a checkpoint brings   *)
(* it into the file.                                                       *)
Record(row) ==
    /\ storeStep = "running" /\ row \notin recorded
    /\ \A earlier \in 1..row-1 : earlier \in recorded
    /\ logRows' = logRows \cup {row} /\ recorded' = recorded \cup {row}
    /\ UNCHANGED <<file, backups, build, storeStep, rebuilt, torn, storeFaults>>

Checkpointed == [file EXCEPT !.rows = @ \cup logRows]

Checkpoint ==
    /\ storeStep = "running" /\ logRows # {}
    /\ file' = Checkpointed /\ logRows' = {}
    /\ UNCHANGED <<backups, build, storeStep, recorded, rebuilt, torn, storeFaults>>

(* The application ends: the last connection checkpoints; or it did not get   *)
(* to that, and the file may be damaged.                                    *)
End ==
    /\ storeStep \in {"running", "refused"} /\ Goes("down")
    /\ IF Usable
       THEN file' = Checkpointed /\ logRows' = {}
       ELSE UNCHANGED <<file, logRows>>
    /\ UNCHANGED <<backups, build, recorded, rebuilt, torn, storeFaults>>

Damaged == [file EXCEPT !.usable = FALSE]

(* A crash between the two renames leaves the log beside the file to come.     *)
StoreCrash ==
    /\ storeStep # "down" /\ Goes("down") /\ MayFail
    /\ file' \in {file, Damaged}
    /\ torn' = IF storeStep = "aside" THEN torn \cup logRows ELSE torn
    /\ UNCHANGED <<logRows, backups, build, recorded, rebuilt>>

StateNext ==
    \/ Launch \/ OpenDatabase \/ SetFileAside \/ SetSidecarsAside
    \/ ApplyPluginMigrations \/ DropPluginSchema
    \/ (\E row \in 1..MaxRows : Record(row)) \/ Checkpoint \/ End \/ StoreCrash

StateSpec == StateInit /\ [][StateNext]_stateVars

-----------------------------------------------------------------------------
(* What was ever committed is in the database, in a file set aside, was dropped *)
(* by a rebuild of its schema, or was in a log that the setting aside of its     *)
(* file left behind: nothing else that goes wrong, at whatever step, loses a     *)
(* row (replaceUnusableDatabase, migratePluginDatabase).                      *)
OnlyTornLogsAreLost ==
    recorded \subseteq file.rows \cup logRows \cup rebuilt \cup torn \cup UNION Range(backups)

(* "Nothing it held is destroyed by the recovery" (StateStore.cpp:195), which     *)
(* asks for more, and is not so: a crash between the two renames, or a second     *)
(* one that fails, leaves a committed row in no file that is kept.              *)
NothingHeldIsDestroyed ==
    recorded \subseteq file.rows \cup logRows \cup rebuilt \cup UNION Range(backups)

(* A plugin runs on the schema it declares, whichever builds ran before it    *)
(* and wherever they ended (validatePluginSchema).                          *)
SchemaIsTheDeclaredOne ==
    storeStep = "running" => file.version = build.version /\ file.edition = build.edition

(* "Nothing stored may keep a feature from opening" (StateStore.cpp:302).     *)
FeaturesOpen == storeStep = "refused" => storeFaults > 0
=============================================================================
