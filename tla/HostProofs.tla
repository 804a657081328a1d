------------------------------ MODULE HostProofs ------------------------------
(***************************************************************************)
(* What the application owns, for any number of starts, crashes and        *)
(* failures: an import is atomic, as long as one operation works (removing *)
(* the log of the database that was replaced); no row of the database is   *)
(* lost; a web server that was stopped stays so, and terminals have one     *)
(* each; a plugin finds those it depends on; and the browser shows what it  *)
(* keeps, and keeps what the next start accepts.                           *)
(***************************************************************************)
EXTENDS MCHost, FiniteSetTheorems, TLAPS

\* The import
(* The phases of a process that has an import to decide.                   *)
Undecided == {"open", "loading", "finalize_pending", "finalize_backup", "closing",
              "rollback_copy", "rollback_log", "rollback_pending", "rollback_backup"}

(* The phases in which the backup is the only whole configuration.         *)
Holding == {"recover_copy", "recover_log", "recover_pending", "recover_backup",
            "replace_copy", "replace_log", "finalize_pending", "finalize_backup",
            "rollback_copy", "rollback_log", "rollback_pending", "rollback_backup"}

(* Every configuration at rest is a whole one.                             *)
WholeFiles ==
    /\ db.data \in Data
    /\ pending # NoFile => pending.data \in Data
    /\ backup # NoFile => backup.data \in Data
    /\ staging # NoFile => staging.data \in Data

(* The backup exists exactly while something is undecided or being undone. *)
BackupGuards ==
    /\ importing => phase \in Undecided /\ backup # NoFile
    /\ phase \in Holding => backup # NoFile
    /\ phase \in {"finalize_pending", "finalize_backup"} => importing
    /\ phase \in {"rollback_copy", "rollback_log", "rollback_pending", "rollback_backup"} => importing
    /\ phase \in {"snapshot", "replace_copy"} => pending # NoFile
    /\ phase \in {"snapshot", "ready"} => backup = NoFile
    /\ phase \in Undecided /\ ~importing => backup = NoFile

(* Where a log may lie beside a database it does not belong to.            *)
LogGuards ==
    /\ log = "stale" => backup # NoFile
    /\ phase = "replace_copy" => log # "stale"
    /\ importing /\ phase # "rollback_log" => log # "stale"
    /\ phase = "rollback_copy" => log = "none"
    /\ phase \in {"recover_log", "recover_pending", "recover_backup", "replace_copy",
                  "rollback_log", "rollback_pending", "rollback_backup"} => db.data = backup.data
    /\ phase \in {"recover_pending", "recover_backup",
                  "rollback_pending", "rollback_backup"} => log # "stale"

ImportInv == TypeOK /\ WholeFiles /\ BackupGuards /\ LogGuards

LEMMA ImportConstants == Initial \in Data /\ MaxSchema \in Nat \ {0} /\ MaxFaults \in Nat
BY TransferAssumption DEF TransferAssumption
LEMMA FilesApart ==
    /\ \A d \in Data, s \in Schemas : [data |-> d, schema |-> s] \in Content
    /\ NoFile \notin Content
    /\ \A c \in Content : c.data \in Data \cup {Torn} /\ c.schema \in Schemas
    /\ \A c \in Content, d \in Data \cup {Torn} :
            [c EXCEPT !.data = d] \in Content /\ [c EXCEPT !.data = d].data = d
    /\ \A c \in Content, s \in Schemas : 
          [c EXCEPT !.schema = s] \in Content /\ [c EXCEPT !.schema = s].data = c.data
<1>1. NoFile \notin Content
  BY TransferAssumption DEF TransferAssumption
<1>2. \A d \in Data, s \in Schemas : [data |-> d, schema |-> s] \in Content
  BY DEF Content
<1>3. \A c \in Content : c.data \in Data \cup {Torn} /\ c.schema \in Schemas
  BY DEF Content
<1>4. ASSUME NEW c \in Content, NEW d \in Data \cup {Torn} PROVE
            [c EXCEPT !.data = d] \in Content /\ [c EXCEPT !.data = d].data = d
  BY DEF Content
<1>5. ASSUME NEW c \in Content, NEW s \in Schemas PROVE
          [c EXCEPT !.schema = s] \in Content /\ [c EXCEPT !.schema = s].data = c.data
  BY DEF Content
<1> QED BY <1>1, <1>2, <1>3, <1>4, <1>5
LEMMA Failing == ASSUME NEW op, faults \in 0..MaxFaults, Fails(op) \/ Works PROVE faults' \in 0..MaxFaults
BY ImportConstants DEF Fails, Works

LEMMA ImportInitially == Init => ImportInv
<1> SUFFICES ASSUME Init PROVE ImportInv
  OBVIOUS
<1>1. TypeOK
  <2>1. phase \in Phases
    BY DEF Init, Phases
  <2>2. schema = 1 /\ faults = 0
    BY DEF Init
  <2>3. schema \in Schemas /\ faults \in 0..MaxFaults
    BY <2>2, ImportConstants DEF Schemas
  <2>4. db \in Content
    BY <2>3, ImportConstants, FilesApart DEF Init
  <2> QED
    BY <2>1, <2>3, <2>4 DEF Init, TypeOK
<1>2. WholeFiles
  BY ImportConstants DEF Init, WholeFiles
<1>3. BackupGuards
  BY DEF Init, BackupGuards, Undecided, Holding
<1>4. LogGuards
  BY DEF Init, LogGuards
<1> QED
  BY <1>1, <1>2, <1>3, <1>4 DEF ImportInv

LEMMA ImportStep ==
    ASSUME "replace_log" \notin Faulty, ImportInv, [Next]_vars PROVE ImportInv'
<1>removable. "replace_log" \notin Faulty
  OBVIOUS
<1>1. CASE Start
  <2> USE <1>1 DEF Start, ImportInv, Goto, Refuse, Reads, Stale
  <2>1. TypeOK'
    BY FilesApart, Failing, ImportConstants DEF TypeOK, Phases, Operations, Schemas, Works
  <2>2. WholeFiles'
    BY FilesApart DEF TypeOK, WholeFiles, BackupGuards, LogGuards, Undecided, Holding
  <2>3. BackupGuards'
    BY FilesApart DEF TypeOK, BackupGuards, Undecided, Holding
  <2>4. LogGuards'
    BY FilesApart DEF TypeOK, BackupGuards, LogGuards, Undecided, Holding
  <2> QED
    BY <2>1, <2>2, <2>3, <2>4
<1>2. CASE Begin
  <2> USE <1>2 DEF Begin, Valid, ImportInv, Goto, Refuse, Reads, Stale
  <2>1. TypeOK'
    BY FilesApart, Failing, ImportConstants DEF TypeOK, Phases, Operations, Schemas, Works
  <2>2. WholeFiles'
    BY FilesApart DEF TypeOK, WholeFiles, BackupGuards, LogGuards, Undecided, Holding
  <2>3. BackupGuards'
    BY FilesApart DEF TypeOK, BackupGuards, Undecided, Holding
  <2>4. LogGuards'
    BY FilesApart DEF TypeOK, BackupGuards, LogGuards, Undecided, Holding
  <2> QED
    BY <2>1, <2>2, <2>3, <2>4
<1>3. CASE RecoverCopy
  <2> USE <1>3 DEF RecoverCopy, ImportInv, Goto, Refuse, Reads, Stale
  <2>1. TypeOK'
    BY FilesApart, Failing, ImportConstants DEF TypeOK, Phases, Operations, Schemas, Works,
       BackupGuards, Undecided, Holding
  <2>2. WholeFiles'
    BY FilesApart DEF TypeOK, WholeFiles, BackupGuards, LogGuards, Undecided, Holding
  <2>3. BackupGuards'
    BY FilesApart DEF TypeOK, BackupGuards, Undecided, Holding
  <2>4. LogGuards'
    BY FilesApart DEF TypeOK, BackupGuards, LogGuards, Undecided, Holding
  <2> QED
    BY <2>1, <2>2, <2>3, <2>4
<1>4. CASE RecoverLog
  <2> USE <1>4 DEF RecoverLog, ImportInv, Goto, Refuse, Reads, Stale
  <2>1. TypeOK'
    BY FilesApart, Failing, ImportConstants DEF TypeOK, Phases, Operations, Schemas, Works
  <2>2. WholeFiles'
    BY FilesApart DEF TypeOK, WholeFiles, BackupGuards, LogGuards, Undecided, Holding
  <2>3. BackupGuards'
    BY FilesApart DEF TypeOK, BackupGuards, Undecided, Holding
  <2>4. LogGuards'
    BY FilesApart DEF TypeOK, BackupGuards, LogGuards, Undecided, Holding
  <2> QED
    BY <2>1, <2>2, <2>3, <2>4
<1>5. CASE RecoverPending
  <2> USE <1>5 DEF RecoverPending, ImportInv, Goto, Refuse, Reads, Stale
  <2>1. TypeOK'
    BY FilesApart, Failing, ImportConstants DEF TypeOK, Phases, Operations, Schemas, Works
  <2>2. WholeFiles'
    BY FilesApart DEF TypeOK, WholeFiles, BackupGuards, LogGuards, Undecided, Holding
  <2>3. BackupGuards'
    BY FilesApart DEF TypeOK, BackupGuards, Undecided, Holding
  <2>4. LogGuards'
    BY FilesApart DEF TypeOK, BackupGuards, LogGuards, Undecided, Holding
  <2> QED
    BY <2>1, <2>2, <2>3, <2>4
<1>6. CASE RecoverBackup
  <2> USE <1>6 DEF RecoverBackup, ImportInv, Goto, Refuse, Reads, Stale
  <2>1. TypeOK'
    BY FilesApart, Failing, ImportConstants DEF TypeOK, Phases, Operations, Schemas, Works
  <2>2. WholeFiles'
    BY FilesApart DEF TypeOK, WholeFiles, BackupGuards, LogGuards, Undecided, Holding
  <2>3. BackupGuards'
    BY FilesApart DEF TypeOK, BackupGuards, Undecided, Holding
  <2>4. LogGuards'
    BY FilesApart DEF TypeOK, BackupGuards, LogGuards, Undecided, Holding
  <2> QED
    BY <2>1, <2>2, <2>3, <2>4
<1>7. CASE TakeSnapshot
  <2> USE <1>7 DEF TakeSnapshot, ImportInv, Goto, Refuse, Reads, Stale
  <2>1. TypeOK'
    BY FilesApart, Failing, ImportConstants DEF TypeOK, Phases, Operations, Schemas, Works
  <2>2. WholeFiles'
    BY FilesApart DEF TypeOK, WholeFiles, BackupGuards, LogGuards, Undecided, Holding
  <2>3. BackupGuards'
    BY FilesApart DEF TypeOK, BackupGuards, LogGuards, Undecided, Holding
  <2>4. LogGuards'
    BY FilesApart DEF TypeOK, BackupGuards, LogGuards, Undecided, Holding
  <2> QED
    BY <2>1, <2>2, <2>3, <2>4
<1>8. CASE ReplaceCopy
  <2> USE <1>8 DEF ReplaceCopy, ImportInv, Goto, Refuse, Reads, Stale
  <2>1. TypeOK'
    BY FilesApart, Failing, ImportConstants DEF TypeOK, Phases, Operations, Schemas, Works,
       BackupGuards, Undecided, Holding
  <2>2. WholeFiles'
    BY FilesApart DEF TypeOK, WholeFiles, BackupGuards, LogGuards, Undecided, Holding
  <2>3. BackupGuards'
    BY FilesApart DEF TypeOK, BackupGuards, Undecided, Holding
  <2>4. LogGuards'
    BY FilesApart DEF TypeOK, BackupGuards, LogGuards, Undecided, Holding
  <2> QED
    BY <2>1, <2>2, <2>3, <2>4
<1>9. CASE ReplaceLog
  <2> USE <1>9 DEF ReplaceLog, ImportInv, Goto, Refuse, Reads, Stale
  <2>1. TypeOK'
    BY FilesApart, Failing, ImportConstants DEF TypeOK, Phases, Operations, Schemas, Works
  <2>2. WholeFiles'
    BY FilesApart DEF TypeOK, WholeFiles, BackupGuards, LogGuards, Undecided, Holding
  <2>3. BackupGuards'
    BY FilesApart, <1>removable DEF Fails, TypeOK, BackupGuards, Undecided, Holding
  <2>4. LogGuards'
    BY FilesApart, <1>removable DEF Fails, TypeOK, BackupGuards, LogGuards, Undecided, Holding
  <2> QED
    BY <2>1, <2>2, <2>3, <2>4
<1>10. CASE Open
  <2> USE <1>10 DEF Open, ImportInv, Goto, Refuse, Reads, Stale
  <2>1. TypeOK'
    BY FilesApart, Failing, ImportConstants DEF TypeOK, Phases, Operations, Schemas, Works
  <2>2. WholeFiles'
    BY FilesApart DEF TypeOK, WholeFiles, BackupGuards, LogGuards, Undecided, Holding
  <2>3. BackupGuards'
    BY FilesApart DEF TypeOK, BackupGuards, Undecided, Holding
  <2>4. LogGuards'
    BY FilesApart DEF TypeOK, BackupGuards, LogGuards, Undecided, Holding
  <2> QED
    BY <2>1, <2>2, <2>3, <2>4
<1>11. CASE Load
  <2> USE <1>11 DEF Load, ImportInv, Goto, Refuse, Reads, Stale
  <2>1. TypeOK'
    BY FilesApart, Failing, ImportConstants DEF TypeOK, Phases, Operations, Schemas, Works
  <2>2. WholeFiles'
    BY FilesApart DEF TypeOK, WholeFiles, BackupGuards, LogGuards, Undecided, Holding
  <2>3. BackupGuards'
    BY FilesApart DEF TypeOK, BackupGuards, Undecided, Holding
  <2>4. LogGuards'
    BY FilesApart DEF TypeOK, BackupGuards, LogGuards, Undecided, Holding
  <2> QED
    BY <2>1, <2>2, <2>3, <2>4
<1>12. CASE LoadFails
  <2> USE <1>12 DEF LoadFails, ImportInv, Goto, Refuse, Reads, Stale
  <2>1. TypeOK'
    BY FilesApart, Failing, ImportConstants DEF TypeOK, Phases, Operations, Schemas, Works
  <2>2. WholeFiles'
    BY FilesApart DEF TypeOK, WholeFiles, BackupGuards, LogGuards, Undecided, Holding
  <2>3. BackupGuards'
    BY FilesApart DEF TypeOK, BackupGuards, Undecided, Holding
  <2>4. LogGuards'
    BY FilesApart DEF TypeOK, BackupGuards, LogGuards, Undecided, Holding
  <2> QED
    BY <2>1, <2>2, <2>3, <2>4
<1>13. CASE FinalizePending
  <2> USE <1>13 DEF FinalizePending, ImportInv, Goto, Refuse, Reads, Stale
  <2>1. TypeOK'
    BY FilesApart, Failing, ImportConstants DEF TypeOK, Phases, Operations, Schemas, Works
  <2>2. WholeFiles'
    BY FilesApart DEF TypeOK, WholeFiles, BackupGuards, LogGuards, Undecided, Holding
  <2>3. BackupGuards'
    BY FilesApart DEF TypeOK, BackupGuards, Undecided, Holding
  <2>4. LogGuards'
    BY FilesApart DEF TypeOK, BackupGuards, LogGuards, Undecided, Holding
  <2> QED
    BY <2>1, <2>2, <2>3, <2>4
<1>14. CASE FinalizeBackup
  <2> USE <1>14 DEF FinalizeBackup, ImportInv, Goto, Refuse, Reads, Stale
  <2>1. TypeOK'
    BY FilesApart, Failing, ImportConstants DEF TypeOK, Phases, Operations, Schemas, Works
  <2>2. WholeFiles'
    BY FilesApart DEF TypeOK, WholeFiles, BackupGuards, LogGuards, Undecided, Holding
  <2>3. BackupGuards'
    BY FilesApart DEF TypeOK, BackupGuards, Undecided, Holding
  <2>4. LogGuards'
    BY FilesApart DEF TypeOK, BackupGuards, LogGuards, Undecided, Holding
  <2> QED
    BY <2>1, <2>2, <2>3, <2>4
<1>15. ASSUME NEW d \in Data, Edit(d) PROVE ImportInv'
  <2> USE <1>15 DEF Edit, ImportInv, Goto, Refuse, Reads, Stale
  <2>1. TypeOK'
    BY FilesApart, Failing, ImportConstants DEF TypeOK, Phases, Operations, Schemas, Works
  <2>2. WholeFiles'
    BY FilesApart DEF TypeOK, WholeFiles, BackupGuards, LogGuards, Undecided, Holding
  <2>3. BackupGuards'
    BY FilesApart DEF TypeOK, BackupGuards, Undecided, Holding
  <2>4. LogGuards'
    BY FilesApart DEF TypeOK, BackupGuards, LogGuards, Undecided, Holding
  <2> QED
    BY <2>1, <2>2, <2>3, <2>4
<1>16. ASSUME NEW d \in Data, Stage(d) PROVE ImportInv'
  <2> USE <1>16 DEF Stage, ImportInv, Goto, Refuse, Reads, Stale
  <2>1. TypeOK'
    BY FilesApart, Failing, ImportConstants DEF TypeOK, Phases, Operations, Schemas, Works
  <2>2. WholeFiles'
    BY FilesApart DEF TypeOK, WholeFiles, BackupGuards, LogGuards, Undecided, Holding
  <2>3. BackupGuards'
    BY FilesApart DEF TypeOK, BackupGuards, Undecided, Holding
  <2>4. LogGuards'
    BY FilesApart DEF TypeOK, BackupGuards, LogGuards, Undecided, Holding
  <2> QED
    BY <2>1, <2>2, <2>3, <2>4
<1>17. CASE FinishStage
  <2> USE <1>17 DEF FinishStage, ImportInv, Goto, Refuse, Reads, Stale
  <2>1. TypeOK'
    BY FilesApart, Failing, ImportConstants DEF TypeOK, Phases, Operations, Schemas, Works
  <2>2. WholeFiles'
    BY FilesApart DEF TypeOK, WholeFiles, BackupGuards, LogGuards, Undecided, Holding
  <2>3. BackupGuards'
    BY FilesApart DEF TypeOK, BackupGuards, Undecided, Holding
  <2>4. LogGuards'
    BY FilesApart DEF TypeOK, BackupGuards, LogGuards, Undecided, Holding
  <2> QED
    BY <2>1, <2>2, <2>3, <2>4
<1>18. CASE Quit
  <2> USE <1>18 DEF Quit, ImportInv, Goto, Refuse, Reads, Stale
  <2>1. TypeOK'
    BY FilesApart, Failing, ImportConstants DEF TypeOK, Phases, Operations, Schemas, Works
  <2>2. WholeFiles'
    BY FilesApart DEF TypeOK, WholeFiles, BackupGuards, LogGuards, Undecided, Holding
  <2>3. BackupGuards'
    BY FilesApart DEF TypeOK, BackupGuards, Undecided, Holding
  <2>4. LogGuards'
    BY FilesApart DEF TypeOK, BackupGuards, LogGuards, Undecided, Holding
  <2> QED
    BY <2>1, <2>2, <2>3, <2>4
<1>19. CASE Close
  <2> USE <1>19 DEF Close, ImportInv, Goto, Refuse, Reads, Stale
  <2>1. TypeOK'
    BY FilesApart, Failing, ImportConstants DEF TypeOK, Phases, Operations, Schemas, Works
  <2>2. WholeFiles'
    BY FilesApart DEF TypeOK, WholeFiles, BackupGuards, LogGuards, Undecided, Holding
  <2>3. BackupGuards'
    BY FilesApart DEF TypeOK, BackupGuards, Undecided, Holding
  <2>4. LogGuards'
    BY FilesApart DEF TypeOK, BackupGuards, LogGuards, Undecided, Holding
  <2> QED
    BY <2>1, <2>2, <2>3, <2>4
<1>20. CASE RollbackCopy
  <2> USE <1>20 DEF RollbackCopy, ImportInv, Goto, Refuse, Reads, Stale
  <2>1. TypeOK'
    BY FilesApart, Failing, ImportConstants DEF TypeOK, Phases, Operations, Schemas, Works,
       BackupGuards, Undecided, Holding
  <2>2. WholeFiles'
    BY FilesApart DEF TypeOK, WholeFiles, BackupGuards, LogGuards, Undecided, Holding
  <2>3. BackupGuards'
    BY FilesApart DEF TypeOK, BackupGuards, Undecided, Holding
  <2>4. LogGuards'
    BY FilesApart DEF TypeOK, BackupGuards, LogGuards, Undecided, Holding
  <2> QED
    BY <2>1, <2>2, <2>3, <2>4
<1>21. CASE RollbackLog
  <2> USE <1>21 DEF RollbackLog, ImportInv, Goto, Refuse, Reads, Stale
  <2>1. TypeOK'
    BY FilesApart, Failing, ImportConstants DEF TypeOK, Phases, Operations, Schemas, Works
  <2>2. WholeFiles'
    BY FilesApart DEF TypeOK, WholeFiles, BackupGuards, LogGuards, Undecided, Holding
  <2>3. BackupGuards'
    BY FilesApart DEF TypeOK, BackupGuards, Undecided, Holding
  <2>4. LogGuards'
    BY FilesApart DEF TypeOK, BackupGuards, LogGuards, Undecided, Holding
  <2> QED
    BY <2>1, <2>2, <2>3, <2>4
<1>22. CASE RollbackPending
  <2> USE <1>22 DEF RollbackPending, ImportInv, Goto, Refuse, Reads, Stale
  <2>1. TypeOK'
    BY FilesApart, Failing, ImportConstants DEF TypeOK, Phases, Operations, Schemas, Works
  <2>2. WholeFiles'
    BY FilesApart DEF TypeOK, WholeFiles, BackupGuards, LogGuards, Undecided, Holding
  <2>3. BackupGuards'
    BY FilesApart DEF TypeOK, BackupGuards, Undecided, Holding
  <2>4. LogGuards'
    BY FilesApart DEF TypeOK, BackupGuards, LogGuards, Undecided, Holding
  <2> QED
    BY <2>1, <2>2, <2>3, <2>4
<1>23. CASE RollbackBackup
  <2> USE <1>23 DEF RollbackBackup, ImportInv, Goto, Refuse, Reads, Stale
  <2>1. TypeOK'
    BY FilesApart, Failing, ImportConstants DEF TypeOK, Phases, Operations, Schemas, Works
  <2>2. WholeFiles'
    BY FilesApart DEF TypeOK, WholeFiles, BackupGuards, LogGuards, Undecided, Holding
  <2>3. BackupGuards'
    BY FilesApart DEF TypeOK, BackupGuards, Undecided, Holding
  <2>4. LogGuards'
    BY FilesApart DEF TypeOK, BackupGuards, LogGuards, Undecided, Holding
  <2> QED
    BY <2>1, <2>2, <2>3, <2>4
<1>24. CASE Crash
  <2> USE <1>24 DEF Crash, ImportInv, Goto, Refuse, Reads, Stale
  <2>1. TypeOK'
    BY FilesApart, Failing, ImportConstants DEF TypeOK, Phases, Operations, Schemas, Works
  <2>2. WholeFiles'
    BY FilesApart DEF TypeOK, WholeFiles, BackupGuards, LogGuards, Undecided, Holding
  <2>3. BackupGuards'
    BY FilesApart DEF TypeOK, BackupGuards, Undecided, Holding
  <2>4. LogGuards'
    BY FilesApart DEF TypeOK, BackupGuards, LogGuards, Undecided, Holding
  <2> QED
    BY <2>1, <2>2, <2>3, <2>4
<1>25. CASE Upgrade
  <2> USE <1>25 DEF Upgrade, ImportInv, Goto, Refuse, Reads, Stale
  <2>5. schema \in 1..MaxSchema /\ schema < MaxSchema /\ schema' = schema + 1
    BY DEF TypeOK, Schemas
  <2> HIDE <1>25 DEF Upgrade, ImportInv
  <2>6. schema' \in Schemas
    BY <2>5, ImportConstants DEF Schemas
  <2> USE <1>25 DEF Upgrade, ImportInv
  <2>1. TypeOK'
    BY <2>6, FilesApart, Failing, ImportConstants DEF TypeOK, Phases, Operations, Works
  <2>2. WholeFiles'
    BY FilesApart DEF TypeOK, WholeFiles, BackupGuards, LogGuards, Undecided, Holding
  <2>3. BackupGuards'
    BY FilesApart DEF TypeOK, BackupGuards, Undecided, Holding
  <2>4. LogGuards'
    BY FilesApart DEF TypeOK, BackupGuards, LogGuards, Undecided, Holding
  <2> QED
    BY <2>1, <2>2, <2>3, <2>4
<1>26. CASE UNCHANGED vars
  <2> USE <1>26 DEF vars, ImportInv, Goto, Refuse, Reads, Stale
  <2>1. TypeOK'
    BY FilesApart, Failing, ImportConstants DEF TypeOK, Phases, Operations, Schemas, Works
  <2>2. WholeFiles'
    BY FilesApart DEF TypeOK, WholeFiles, BackupGuards, LogGuards, Undecided, Holding
  <2>3. BackupGuards'
    BY FilesApart DEF TypeOK, BackupGuards, Undecided, Holding
  <2>4. LogGuards'
    BY FilesApart DEF TypeOK, BackupGuards, LogGuards, Undecided, Holding
  <2> QED
    BY <2>1, <2>2, <2>3, <2>4
<1> QED
  BY <1>1, <1>2, <1>3, <1>4, <1>5, <1>6, <1>7, <1>8, <1>9, <1>10, <1>11, <1>12, <1>13, <1>14, <1>15, <1>16, <1>17, <1>18, <1>19, <1>20, <1>21, <1>22, <1>23, <1>24, <1>25, <1>26 DEF Next

LEMMA ImportInvariant ==
    ASSUME "replace_log" \notin Faulty PROVE Spec => []ImportInv
<1>1. ImportInv /\ [Next]_vars => ImportInv'
  BY ImportStep
<1> QED
  BY <1>1, ImportInitially, PTL DEF Spec

(* Every reachable value has its type.                                     *)
THEOREM ImportTypeCorrect ==
    ASSUME "replace_log" \notin Faulty PROVE Spec => []TypeOK
<1>1. ImportInv => TypeOK
  BY DEF ImportInv
<1> QED BY <1>1, ImportInvariant, PTL

(* No crash and no failure leaves the disk without a whole configuration   *)
(* to come back to.                                                        *)
THEOREM ConfigurationAlwaysWhole ==
    ASSUME "replace_log" \notin Faulty PROVE Spec => []ConfigurationWhole
<1>1. ImportInv => ConfigurationWhole
  BY DEF ImportInv, WholeFiles, BackupGuards, LogGuards, ConfigurationWhole, InForce, Reads
<1> QED BY <1>1, ImportInvariant, PTL

(* Nobody works on a configuration a backup could still undo.              *)
THEOREM ImportsDecidedBeforeUse ==
    ASSUME "replace_log" \notin Faulty PROVE Spec => []NoUndecidedImportInUse
<1>1. ImportInv => NoUndecidedImportInUse
  BY DEF ImportInv, BackupGuards, NoUndecidedImportInUse, Undecided
<1> QED BY <1>1, ImportInvariant, PTL

(* Every step is a step of the promise AtomicImport makes, or none at all. *)
LEMMA StepKeepsPromise ==
    ASSUME "replace_log" \notin Faulty, ImportInv, ImportInv', [Next]_vars
    PROVE  [Promise!Next]_Promise!vars
<1>removable. "replace_log" \notin Faulty
  OBVIOUS
<1> USE FilesApart DEF Promise!Next, Promise!Edit, Promise!Offer, Promise!Use, Promise!Leave, Promise!vars,
        ImportInv, TypeOK, WholeFiles, BackupGuards, LogGuards, Undecided, Holding, InForce, Reads, Stale,
        Goto, Refuse
<1>1. CASE Start
  BY <1>1 DEF Start
<1>2. CASE Begin
  BY <1>2 DEF Begin, Valid
<1>3. CASE RecoverCopy
  BY <1>3 DEF RecoverCopy
<1>4. CASE RecoverLog
  BY <1>4 DEF RecoverLog
<1>5. CASE RecoverPending
  BY <1>5 DEF RecoverPending
<1>6. CASE RecoverBackup
  BY <1>6 DEF RecoverBackup
<1>7. CASE TakeSnapshot
  BY <1>7 DEF TakeSnapshot
<1>8. CASE ReplaceCopy
  BY <1>8 DEF ReplaceCopy
<1>9. CASE ReplaceLog
  BY <1>9, <1>removable DEF ReplaceLog, Fails
<1>10. CASE Open
  BY <1>10 DEF Open
<1>11. CASE Load
  BY <1>11 DEF Load
<1>12. CASE LoadFails
  BY <1>12 DEF LoadFails
<1>13. CASE FinalizePending
  BY <1>13 DEF FinalizePending
<1>14. CASE FinalizeBackup
  <2>1. CASE phase' = "ready"
    <3>1. phase = "finalize_backup" /\ importing /\ ~importing' /\ backup' = NoFile
      BY <1>14, <2>1 DEF FinalizeBackup
    <3>2. UNCHANGED <<db, log, pending>> /\ log # "stale"
      BY <1>14, <3>1 DEF FinalizeBackup
    <3>3. InForce' = Reads.data
      BY <3>1, <3>2
    <3>4. pending' # NoFile => pending'.data \in Data
      OBVIOUS
    <3>5. Reads.data # NoFile
      BY <3>2, TransferAssumption DEF TransferAssumption
    <3>6. ~(phase = "ready")
      BY <3>1
    <3> QED
      BY <2>1, <3>1, <3>3, <3>4, <3>5, <3>6 DEF Promise!Next, Promise!Use
  <2>2. CASE phase' = "closing"
    BY <1>14, <2>2 DEF FinalizeBackup
  <2> QED
    BY <1>14, <2>1, <2>2 DEF FinalizeBackup
<1>15. ASSUME NEW d \in Data, Edit(d) PROVE [Promise!Next]_Promise!vars
  BY <1>15 DEF Edit
<1>16. ASSUME NEW d \in Data, Stage(d) PROVE [Promise!Next]_Promise!vars
  BY <1>16 DEF Stage
<1>17. CASE FinishStage
  BY <1>17 DEF FinishStage
<1>18. CASE Quit
  BY <1>18 DEF Quit
<1>19. CASE Close
  BY <1>19 DEF Close
<1>20. CASE RollbackCopy
  BY <1>20 DEF RollbackCopy
<1>21. CASE RollbackLog
  BY <1>21 DEF RollbackLog
<1>22. CASE RollbackPending
  BY <1>22 DEF RollbackPending
<1>23. CASE RollbackBackup
  BY <1>23 DEF RollbackBackup
<1>24. CASE Crash
  BY <1>24 DEF Crash
<1>25. CASE Upgrade
  BY <1>25 DEF Upgrade
<1>26. CASE UNCHANGED vars
  BY <1>26 DEF vars
<1> QED
  BY <1>1, <1>2, <1>3, <1>4, <1>5, <1>6, <1>7, <1>8, <1>9, <1>10, <1>11, <1>12, <1>13, <1>14, <1>15, <1>16, <1>17, <1>18, <1>19, <1>20, <1>21, <1>22, <1>23, <1>24, <1>25, <1>26 DEF Next

(* The whole system implements the promise: whatever crashes, failures and *)
(* upgrades happen on the way, a configuration is replaced all at once, at *)
(* the moment it comes into use, and only by one that was offered.         *)
THEOREM ImportImplementsPromise ==
    ASSUME "replace_log" \notin Faulty PROVE Spec => ImportIsAtomic
<1>1. Init => Promise!Init
  <2> SUFFICES ASSUME Init PROVE Promise!Init
    OBVIOUS
  <2>1. db = [data |-> Initial, schema |-> 1] /\ log = "none" /\ backup = NoFile
    BY DEF Init
  <2>2. InForce = Initial
    BY <2>1 DEF InForce, Reads
  <2>3. phase = "off" /\ importing = FALSE /\ pending = NoFile
    BY DEF Init
  <2>4. (phase = "ready") = FALSE
    BY <2>3
  <2> QED
    BY <2>2, <2>3, <2>4 DEF Promise!Init
<1>2. ImportInv /\ ImportInv' /\ [Next]_vars => [Promise!Next]_Promise!vars
  BY StepKeepsPromise
<1> QED
  BY <1>1, <1>2, ImportInvariant, PTL DEF Spec, ImportIsAtomic, Promise!Spec

-----------------------------------------------------------------------------
\* The database
(* The proof.  A row is always somewhere, or was torn from its file: a log is   *)
(* only let go of beside a file without rows that was never migrated, and what   *)
(* such a log holds was left there by a crash or a failure between the renames. *)
BuildsAreVersioned == Builds # {} /\ Builds \subseteq [version : Nat \ {0}, edition : Nat]

Rows == 1..MaxRows
Files == [version : Nat, edition : Nat, rows : SUBSET Rows, usable : BOOLEAN]

StateTypeOK ==
    /\ file \in Files /\ build \in Builds
    /\ logRows \subseteq Rows /\ recorded \subseteq Rows /\ rebuilt \subseteq Rows /\ torn \subseteq Rows
    /\ backups \in Seq(SUBSET Rows)

EachRowIsSomewhere ==
    \A row \in recorded : row \in file.rows \/ row \in logRows \/ row \in rebuilt \/ row \in torn
                          \/ \E i \in DOMAIN backups : row \in backups[i]

LogHasItsFile ==
    /\ file.version = 0 /\ storeStep # "aside" => logRows \subseteq torn
    /\ storeStep = "aside" => backups # <<>>
    /\ storeStep \in {"aside", "bare"} => file = None

StoreInv == StateTypeOK /\ EachRowIsSomewhere /\ LogHasItsFile /\ SchemaIsTheDeclaredOne

LEMMA StoreInitially == ASSUME BuildsAreVersioned, StateInit PROVE StoreInv
<1>1. build \in Builds
  BY DEF BuildsAreVersioned, StateInit
<1>2. file \in Files
  BY DEF StateInit, None, Files
<1> QED
  BY <1>1, <1>2 DEF StateInit, StoreInv, StateTypeOK, EachRowIsSomewhere, LogHasItsFile, SchemaIsTheDeclaredOne

(* What a build and the values of a file are.                                *)
LEMMA StoreValues ==
    ASSUME BuildsAreVersioned, StoreInv
    PROVE  /\ build.version \in Nat /\ build.version # 0 /\ build.edition \in Nat
           /\ file.version \in Nat /\ file.edition \in Nat /\ file.rows \subseteq Rows
           /\ None \in Files /\ Fresh \in Files /\ None.rows = {} /\ Fresh.rows = {}
           /\ None.version = 0 /\ Fresh.version = 0
           /\ Migrated \in Files /\ Migrated.rows = file.rows /\ Migrated.version = build.version
           /\ Checkpointed \in Files /\ Checkpointed.rows = file.rows \cup logRows
           /\ Checkpointed.version = file.version /\ Checkpointed.edition = file.edition
           /\ Damaged \in Files /\ Damaged.rows = file.rows /\ Damaged.version = file.version
BY DEF BuildsAreVersioned, StoreInv, StateTypeOK, Files, None, Fresh, Migrated, Checkpointed, Damaged

LEMMA StoreStep == ASSUME BuildsAreVersioned, StoreInv, [StateNext]_stateVars PROVE StoreInv'
<1>v. /\ build.version \in Nat /\ build.version # 0 /\ build.edition \in Nat
      /\ file.version \in Nat /\ file.edition \in Nat /\ file.rows \subseteq Rows
      /\ None \in Files /\ Fresh \in Files /\ None.rows = {} /\ Fresh.rows = {}
      /\ None.version = 0 /\ Fresh.version = 0
      /\ Migrated \in Files /\ Migrated.rows = file.rows /\ Migrated.version = build.version
      /\ Checkpointed \in Files /\ Checkpointed.rows = file.rows \cup logRows
      /\ Checkpointed.version = file.version /\ Checkpointed.edition = file.edition
      /\ Damaged \in Files /\ Damaged.rows = file.rows /\ Damaged.version = file.version
  BY StoreValues
<1> USE <1>v DEF StoreInv, Goes, MayFail
<1>1. CASE Launch
  BY <1>1 DEF Launch, StateTypeOK, EachRowIsSomewhere, LogHasItsFile, SchemaIsTheDeclaredOne
<1>2. CASE OpenDatabase
  BY <1>2 DEF OpenDatabase, StateTypeOK, EachRowIsSomewhere, LogHasItsFile, SchemaIsTheDeclaredOne
<1>3. CASE SetFileAside
  <2>1. CASE file # None /\ storeStep' = "aside"
    <3>1. /\ backups' = Append(backups, file.rows) /\ file' = None
          /\ UNCHANGED <<logRows, build, recorded, rebuilt, torn>>
      BY <1>3, <2>1 DEF SetFileAside
    <3>2. StateTypeOK' /\ backups' # <<>>
      BY <3>1 DEF StateTypeOK
    <3>3. /\ \A i \in DOMAIN backups : i \in DOMAIN backups' /\ backups'[i] = backups[i]
          /\ Len(backups) + 1 \in DOMAIN backups' /\ backups'[Len(backups) + 1] = file.rows
      BY <3>1 DEF StateTypeOK
    <3>4. EachRowIsSomewhere'
      BY <3>1, <3>3 DEF EachRowIsSomewhere
    <3> QED BY <2>1, <3>1, <3>2, <3>4 DEF LogHasItsFile, SchemaIsTheDeclaredOne
  <2>2. CASE storeStep' # "aside" \/ file = None
    BY <1>3, <2>2 DEF SetFileAside, StateTypeOK, EachRowIsSomewhere, LogHasItsFile, SchemaIsTheDeclaredOne
  <2> QED BY <2>1, <2>2
<1>4. CASE SetSidecarsAside
  <2>0. storeStep' = "replacing" /\ UNCHANGED <<file, build, recorded, rebuilt>>
    BY <1>4 DEF SetSidecarsAside
  <2>1. CASE /\ storeStep = "aside" /\ backups' = [backups EXCEPT ![Len(backups)] = WithItsLog(@)]
             /\ logRows' = {} /\ torn' = torn
    <3> DEFINE n == Len(backups)
    <3>1. backups' = [backups EXCEPT ![n] = WithItsLog(backups[n])]
      BY <2>1
    <3>2. n \in DOMAIN backups /\ WithItsLog(backups[n]) = backups[n] \cup logRows /\ backups[n] \subseteq Rows
      BY <2>1 DEF LogHasItsFile, StateTypeOK, WithItsLog
    <3>3. StateTypeOK'
      BY <2>0, <2>1, <3>1, <3>2 DEF StateTypeOK
    <3>4. /\ DOMAIN backups' = DOMAIN backups /\ backups'[n] = backups[n] \cup logRows
          /\ \A i \in DOMAIN backups : i # n => backups'[i] = backups[i]
      BY <3>1, <3>2 DEF StateTypeOK
    <3>5. EachRowIsSomewhere'
      BY <2>0, <2>1, <3>2, <3>4 DEF EachRowIsSomewhere
    <3> QED BY <2>0, <2>1, <3>3, <3>5 DEF LogHasItsFile, SchemaIsTheDeclaredOne
  <2>2. CASE /\ storeStep = "aside" /\ torn' = torn \cup logRows /\ logRows' \in {{}, logRows} /\ backups' = backups
    BY <2>0, <2>2 DEF StateTypeOK, EachRowIsSomewhere, LogHasItsFile, SchemaIsTheDeclaredOne
  <2>3. CASE storeStep = "bare" /\ logRows' \in {{}, logRows} /\ UNCHANGED <<backups, torn>>
    <3>1. logRows \subseteq torn
      BY <2>3 DEF LogHasItsFile, None
    <3> QED BY <2>0, <2>3, <3>1 DEF StateTypeOK, EachRowIsSomewhere, LogHasItsFile, SchemaIsTheDeclaredOne
  <2> QED BY <1>4, <2>1, <2>2, <2>3 DEF SetSidecarsAside
<1>5. CASE ApplyPluginMigrations
  BY <1>5 DEF ApplyPluginMigrations, ValidSchema, AfterMismatch, StateTypeOK, EachRowIsSomewhere, LogHasItsFile,
     SchemaIsTheDeclaredOne
<1>6. CASE DropPluginSchema
  BY <1>6 DEF DropPluginSchema, StateTypeOK, EachRowIsSomewhere, LogHasItsFile, SchemaIsTheDeclaredOne
<1>7. ASSUME NEW row \in Rows, Record(row) PROVE StoreInv'
  BY <1>7 DEF Record, StateTypeOK, EachRowIsSomewhere, LogHasItsFile, SchemaIsTheDeclaredOne
<1>8. CASE Checkpoint
  BY <1>8 DEF Checkpoint, StateTypeOK, EachRowIsSomewhere, LogHasItsFile, SchemaIsTheDeclaredOne
<1>9. CASE End
  BY <1>9 DEF End, StateTypeOK, EachRowIsSomewhere, LogHasItsFile, SchemaIsTheDeclaredOne
<1>10. CASE StoreCrash
  BY <1>10 DEF StoreCrash, StateTypeOK, EachRowIsSomewhere, LogHasItsFile, SchemaIsTheDeclaredOne
<1>11. CASE UNCHANGED stateVars
  BY <1>11 DEF stateVars, StateTypeOK, EachRowIsSomewhere, LogHasItsFile, SchemaIsTheDeclaredOne
<1> QED
  BY <1>1, <1>2, <1>3, <1>4, <1>5, <1>6, <1>7, <1>8, <1>9, <1>10, <1>11 DEF StateNext, Rows

(* Whatever builds there are, and however often one ends or fails, between the   *)
(* two renames too: no row is lost but those of a log that was parted from its   *)
(* file there, and a plugin that runs has the schema it declares.              *)
THEOREM NoRowIsLost ==
    ASSUME BuildsAreVersioned
    PROVE  StateSpec => [](OnlyTornLogsAreLost /\ SchemaIsTheDeclaredOne)
<1>1. StateInit => StoreInv
  BY StoreInitially
<1>2. StoreInv /\ [StateNext]_stateVars => StoreInv'
  BY StoreStep
<1>3. StoreInv => OnlyTornLogsAreLost /\ SchemaIsTheDeclaredOne
  BY DEF StoreInv, EachRowIsSomewhere, OnlyTornLogsAreLost, Range
<1> QED BY <1>1, <1>2, <1>3, PTL DEF StateSpec

-----------------------------------------------------------------------------
\* The web servers
(* The proof that a stop is kept: only a continuation starts a server behind  *)
(* its user, it goes on only if nobody cancelled, and whoever stops an         *)
(* operation cancels it.  The continuation of a row still to be written is     *)
(* one, and its operation is still pending.                                  *)
ServerRows == [terminal : Terminals \cup {Absent}, port : Ports] \cup {Absent}
Write == [kind : {"configure", "remove", "unlink"}, of : Servers, row : ServerRows]
OfEachServer(value) == value = [s \in Servers |-> value[s]]

WebTypes ==
    /\ servers \in [Servers -> ServerRows] /\ asked \in [Servers -> {"run", "stop"}]
    /\ OfEachServer(operation) /\ OfEachServer(runtime)
    /\ \A s \in Servers : operation[s].at \in {"validating", "persisting", "removing"} =>
                            operation[s].of \in ServerRows
    /\ writes \in Seq(Write)

StoppedHasNone == \A s \in Servers : asked[s] = "stop" => runtime[s] = 0

PendingUntilIdle == \A s \in Servers : operation[s].at # "idle" => s \in underway

CancelledIfStopped ==
    \A s \in Servers : operation[s].at \in {"validating", "persisting"} /\ s \notin cancelled => asked[s] = "run"

WritesOfOperations ==
    \A i \in DOMAIN writes :
        /\ writes[i].kind = "configure" => operation[writes[i].of].at = "persisting"
        /\ writes[i].kind = "remove" => operation[writes[i].of].at = "removing"
        /\ \A j \in DOMAIN writes :
               writes[i].of = writes[j].of /\ "unlink" \notin {writes[i].kind, writes[j].kind} => i = j

WebInv == WebTypes /\ StoppedHasNone /\ PendingUntilIdle /\ CancelledIfStopped /\ WritesOfOperations

LEMMA WebInitially == ASSUME WebInit PROVE WebInv
<1>1. WebTypes
  BY DEF WebInit, WebTypes, OfEachServer, ServerRows, Idle
<1> QED BY <1>1 DEF WebInit, WebInv, StoppedHasNone, PendingUntilIdle, CancelledIfStopped, WritesOfOperations, Idle

LEMMA WebStep == ASSUME IsFiniteSet(Servers), WebInv, [WebNext]_webVars PROVE WebInv'
<1> USE DEF WebInv, OfEachServer
<1>0. /\ Absent \in ServerRows
      /\ \A kind \in {"configure", "remove", "unlink"}, s \in Servers, row \in ServerRows :
             [kind |-> kind, of |-> s, row |-> row] \in Write
      /\ \A write \in Write : write.kind \in {"configure", "remove", "unlink"} /\ write.of \in Servers
                                /\ write.row \in ServerRows
      /\ \A row \in ServerRows : row # Absent => [row EXCEPT !.terminal = Absent] \in ServerRows
  BY DEF ServerRows, Write
<1>1. ASSUME NEW s \in Servers, NEW t \in Terminals \cup {Absent}, NEW p \in Ports,
              ConfigureServer(s, t, p)
      PROVE  WebInv'
  <2>1. Server(t, p) \in ServerRows
    BY DEF Server, ServerRows
  <2>2. WebTypes'
    BY <1>1, <2>1 DEF ConfigureServer, Waits, WebTypes
  <2> QED BY <1>1, <2>2 DEF ConfigureServer, Waits, WebTypes,
         StoppedHasNone, PendingUntilIdle, CancelledIfStopped, WritesOfOperations
<1>2. ASSUME NEW s \in Servers, Validated(s) PROVE WebInv'
  <2>1. CASE Ends(s) /\ UNCHANGED <<servers, writes>>
    <3>1. WebTypes'
      BY <1>2, <2>1 DEF Validated, Ends, Idle, WebTypes
    <3> QED BY <1>2, <2>1, <3>1 DEF Validated, Ends, Idle, WebTypes,
         StoppedHasNone, PendingUntilIdle, CancelledIfStopped, WritesOfOperations
  <2>2. CASE s \notin cancelled /\ ~(Ends(s) /\ UNCHANGED <<servers, writes>>)
    <3>1. /\ servers' = [servers EXCEPT ![s] = operation[s].of]
          /\ writes' = Append(writes, [kind |-> "configure", of |-> s, row |-> operation[s].of])
          /\ operation' = [operation EXCEPT ![s] = [at |-> "persisting", of |-> servers[s]]]
          /\ operation[s].at = "validating"
          /\ UNCHANGED <<underway, cancelled, runtime, runtimes, asked>>
      BY <1>2, <2>2 DEF Validated, Writes, Waits
    <3>2. operation[s].of \in ServerRows /\ servers[s] \in ServerRows
      BY <3>1 DEF WebTypes
    <3>3. WebTypes'
      <4>1. [kind |-> "configure", of |-> s, row |-> operation[s].of] \in Write
        BY <1>0, <3>2
      <4>2. writes' \in Seq(Write)
        BY <3>1, <4>1 DEF WebTypes
      <4>3. servers' \in [Servers -> ServerRows] /\ OfEachServer(operation)'
        BY <3>1, <3>2 DEF WebTypes
      <4> QED BY <3>1, <3>2, <4>2, <4>3 DEF WebTypes
    <3>4. WritesOfOperations'
      <4>1. /\ \A i \in DOMAIN writes : i \in DOMAIN writes' /\ writes'[i] = writes[i] /\ writes[i].of \in Servers
            /\ \A i \in DOMAIN writes' : i \in DOMAIN writes \/ i = Len(writes) + 1
            /\ writes'[Len(writes) + 1] = [kind |-> "configure", of |-> s, row |-> operation[s].of]
        BY <1>0, <3>1 DEF WebTypes
      <4>2. \A i \in DOMAIN writes : writes[i].kind # "unlink" => writes[i].of # s
        BY <1>0, <3>1 DEF WebTypes, WritesOfOperations
      <4> QED BY <3>1, <4>1, <4>2 DEF WebTypes, WritesOfOperations
    <3> QED BY <3>1, <3>3, <3>4 DEF WebTypes, StoppedHasNone, PendingUntilIdle, CancelledIfStopped
  <2> QED BY <1>2, <2>1, <2>2 DEF Validated
<1>3. ASSUME NEW s \in Servers, StartServer(s) PROVE WebInv'
  <2>1. /\ operation' = [operation EXCEPT ![s] = [at |-> "starting", of |-> Len(runtimes) + 1]]
        /\ runtime' = [runtime EXCEPT ![s] = Len(runtimes) + 1]
        /\ runtimes' = Append(runtimes, [port |-> servers[s].port, is |-> "asked"])
        /\ servers[s] # Absent /\ s \notin underway
        /\ underway' = underway \cup {s} /\ asked' = [asked EXCEPT ![s] = "run"]
        /\ UNCHANGED <<servers, cancelled, writes>>
    BY <1>3 DEF StartServer, StartsRuntime, Waits
  <2>2. WebTypes'
    BY <2>1 DEF WebTypes
  <2> QED BY <2>1, <2>2 DEF WebTypes,
         StoppedHasNone, PendingUntilIdle, CancelledIfStopped, WritesOfOperations
<1>4. ASSUME NEW s \in Servers, StopServer(s) PROVE WebInv'
  <2>1. WebTypes'
    BY <1>4 DEF StopServer, Cleans, WebTypes
  <2> QED BY <1>4, <2>1 DEF StopServer, Cleans, WebTypes,
         StoppedHasNone, PendingUntilIdle, CancelledIfStopped, WritesOfOperations
<1>5. ASSUME NEW s \in Servers, RemoveServer(s) PROVE WebInv'
  <2>1. /\ s \notin underway /\ underway' = underway \cup {s} /\ runtime' = [runtime EXCEPT ![s] = 0]
        /\ servers' = [servers EXCEPT ![s] = Absent]
        /\ operation' = [operation EXCEPT ![s] = [at |-> "removing", of |-> servers[s]]]
        /\ writes' = Append(writes, [kind |-> "remove", of |-> s, row |-> Absent])
        /\ asked' = [asked EXCEPT ![s] = "stop"] /\ UNCHANGED <<cancelled, runtimes>>
    BY <1>5 DEF RemoveServer, Cleans, Waits, Writes
  <2>2. WebTypes'
    <3>1. [kind |-> "remove", of |-> s, row |-> Absent] \in Write /\ servers[s] \in ServerRows
      BY <1>0 DEF WebTypes
    <3>2. writes' \in Seq(Write)
      BY <2>1, <3>1 DEF WebTypes
    <3>3. servers' \in [Servers -> ServerRows] /\ asked' \in [Servers -> {"run", "stop"}]
      BY <1>0, <2>1 DEF WebTypes
    <3>4. OfEachServer(operation)' /\ OfEachServer(runtime)'
      BY <2>1 DEF WebTypes
    <3> QED BY <2>1, <3>1, <3>2, <3>3, <3>4 DEF WebTypes
  <2>3. WritesOfOperations'
    <3>1. /\ \A i \in DOMAIN writes : i \in DOMAIN writes' /\ writes'[i] = writes[i] /\ writes[i].of \in Servers
          /\ \A i \in DOMAIN writes' : i \in DOMAIN writes \/ i = Len(writes) + 1
          /\ writes'[Len(writes) + 1] = [kind |-> "remove", of |-> s, row |-> Absent]
      BY <1>0, <2>1 DEF WebTypes
    <3>2. \A i \in DOMAIN writes : writes[i].kind # "unlink" => writes[i].of # s
      BY <1>0, <2>1 DEF WebTypes, WritesOfOperations, PendingUntilIdle
    <3>3. /\ operation'[s].at = "removing" /\ \A other \in Servers \ {s} : operation'[other] = operation[other]
          /\ writes'[Len(writes) + 1].kind = "remove" /\ writes'[Len(writes) + 1].of = s
      BY <2>1, <3>1 DEF WebTypes
    <3>4. ASSUME NEW i \in DOMAIN writes'
          PROVE  /\ writes'[i].kind = "configure" => operation'[writes'[i].of].at = "persisting"
                 /\ writes'[i].kind = "remove" => operation'[writes'[i].of].at = "removing"
      BY <3>1, <3>2, <3>3 DEF WritesOfOperations
    <3>5. ASSUME NEW i \in DOMAIN writes', NEW j \in DOMAIN writes',
                 writes'[i].of = writes'[j].of, "unlink" \notin {writes'[i].kind, writes'[j].kind}
          PROVE  i = j
      BY <3>1, <3>2, <3>3, <3>5 DEF WritesOfOperations
    <3> QED BY <3>4, <3>5 DEF WritesOfOperations
  <2> QED BY <2>1, <2>2, <2>3 DEF WebTypes, StoppedHasNone, PendingUntilIdle, CancelledIfStopped
<1>6. ASSUME NEW s \in Servers, Started(s) PROVE WebInv'
  <2>1. WebTypes'
    BY <1>6 DEF Started, Ends, Idle, Cleans, WebTypes
  <2> QED BY <1>6, <2>1 DEF Started, Ends, Idle, Cleans, WebTypes,
         StoppedHasNone, PendingUntilIdle, CancelledIfStopped, WritesOfOperations
<1>7. CASE DatabaseWrites
  <2> DEFINE write == Head(writes)
             s == write.of
  <2>1. /\ writes # <<>> /\ writes' = Tail(writes) /\ asked' = asked
        /\ write = writes[1] /\ 1 \in DOMAIN writes
        /\ write.kind \in {"configure", "remove", "unlink"} /\ s \in Servers /\ write.row \in ServerRows
    <3>1. writes # <<>> /\ writes' = Tail(writes) /\ asked' = asked
      BY <1>7 DEF DatabaseWrites
    <3>2. write = writes[1] /\ 1 \in DOMAIN writes /\ write \in Write
      BY <3>1 DEF WebTypes
    <3> QED BY <1>0, <3>1, <3>2
  <2>2. /\ Len(writes') = Len(writes) - 1
        /\ \A i \in DOMAIN writes' : i + 1 \in DOMAIN writes /\ writes'[i] = writes[i + 1] /\ i + 1 # 1
        /\ writes' \in Seq(Write)
    BY <2>1 DEF WebTypes
  <2>3. \A i \in DOMAIN writes' : write.kind # "unlink" /\ writes'[i].kind # "unlink" => writes'[i].of # s
    BY <2>1, <2>2 DEF WritesOfOperations
  <2>4. \A i, j \in DOMAIN writes' :
            writes'[i].of = writes'[j].of /\ "unlink" \notin {writes'[i].kind, writes'[j].kind} => i = j
    BY <2>2 DEF WritesOfOperations, WebTypes
  <2>5. CASE write.kind = "unlink"
    <3>1. UNCHANGED <<servers, underway, cancelled, operation, runtime, runtimes>>
      BY <1>7, <2>5 DEF DatabaseWrites
    <3> QED BY <2>1, <2>2, <2>4, <3>1 DEF WebTypes,
         StoppedHasNone, PendingUntilIdle, CancelledIfStopped, WritesOfOperations
  <2>6. CASE write.kind # "unlink" /\ Ends(s) /\ UNCHANGED <<runtime, runtimes>>
             /\ servers' \in {servers, [servers EXCEPT ![s] = operation[s].of]}
    <3>1. operation[s].at \in {"persisting", "removing"}
      BY <2>1, <2>6 DEF WritesOfOperations
    <3>2. operation[s].of \in ServerRows
      BY <2>1, <3>1 DEF WebTypes
    <3>3. WebTypes'
      BY <2>1, <2>2, <2>6, <3>2 DEF WebTypes, Ends, Idle
    <3>4. WritesOfOperations'
      BY <2>1, <2>2, <2>3, <2>4, <2>6 DEF WebTypes, Ends, WritesOfOperations
    <3> QED BY <2>1, <2>6, <3>3, <3>4 DEF WebTypes, Ends, Idle, StoppedHasNone, PendingUntilIdle, CancelledIfStopped
  <2>7. CASE write.kind = "configure" /\ s \notin cancelled /\ StartsRuntime(s, servers[s])
             /\ UNCHANGED <<servers, underway, cancelled>>
    <3>1. operation[s].at = "persisting" /\ asked[s] = "run"
      BY <2>1, <2>7 DEF WritesOfOperations, CancelledIfStopped
    <3>2. /\ operation' = [operation EXCEPT ![s] = [at |-> "starting", of |-> Len(runtimes) + 1]]
          /\ runtime' = [runtime EXCEPT ![s] = Len(runtimes) + 1]
          /\ runtimes' = Append(runtimes, [port |-> servers[s].port, is |-> "asked"])
      BY <2>7 DEF StartsRuntime, Waits
    <3>3. WebTypes'
      BY <2>1, <2>2, <2>7, <3>2 DEF WebTypes
    <3>4. WritesOfOperations'
      <4>1. \A i \in DOMAIN writes' : writes'[i].kind # "unlink" =>
                /\ writes'[i].of \in Servers \ {s} /\ operation'[writes'[i].of] = operation[writes'[i].of]
        <5>1. \A i \in DOMAIN writes' : writes'[i].of \in Servers
          BY <1>0, <2>2
        <5>2. \A other \in Servers \ {s} : operation'[other] = operation[other]
          BY <3>2 DEF WebTypes
        <5> QED BY <2>3, <2>7, <5>1, <5>2
      <4> QED BY <2>2, <2>4, <4>1 DEF WritesOfOperations
    <3> QED BY <2>1, <2>7, <3>1, <3>2, <3>3, <3>4 DEF WebTypes, StoppedHasNone, PendingUntilIdle, CancelledIfStopped
  <2> QED BY <1>7, <2>1, <2>5, <2>6, <2>7 DEF DatabaseWrites, Persisted, Removed, GoesOn
<1>8. ASSUME NEW r \in DOMAIN runtimes, Listens(r) \/ Closes(r) PROVE WebInv'
  <2>1. UNCHANGED <<servers, underway, cancelled, operation, runtime, writes, asked>>
    BY <1>8 DEF Listens, Closes
  <2> QED BY <2>1 DEF WebTypes,
         StoppedHasNone, PendingUntilIdle, CancelledIfStopped, WritesOfOperations
<1>9. CASE Hears
  <2>1. PICK gone : Unlinks(gone)
    BY <1>9 DEF Hears
  <2> DEFINE linked == {s \in Servers : servers[s] # Absent /\ servers[s].terminal \in gone}
  <2>2. servers' = [s \in Servers |-> IF s \in linked THEN [servers[s] EXCEPT !.terminal = Absent] ELSE servers[s]]
    BY <2>1 DEF Unlinks
  <2>3. servers' \in [Servers -> ServerRows]
    BY <1>0, <2>2 DEF WebTypes
  <2>4. Cardinality(linked) \in Nat
    BY FS_Subset, FS_CardinalityType
  <2>5. PICK order \in [1..Cardinality(linked) -> linked] :
            writes' = writes \o [i \in DOMAIN order |->
                                    [kind |-> "unlink", of |-> order[i], row |-> servers'[order[i]]]]
    BY <2>1 DEF Unlinks
  <2> DEFINE n == Cardinality(linked)
             added == [i \in 1..n |-> [kind |-> "unlink", of |-> order[i], row |-> servers'[order[i]]]]
  <2>6. \A i \in 1..n : order[i] \in Servers /\ servers'[order[i]] \in ServerRows
    BY <2>3, <2>5
  <2>7. /\ writes' = writes \o added
        /\ added \in Seq(Write)
        /\ Len(added) = n /\ \A i \in 1..n : added[i].kind = "unlink"
    <3>1. added \in [1..n -> Write] /\ \A i \in 1..n : added[i].kind = "unlink"
      BY <1>0, <2>6
    <3>2. writes' = writes \o added
      BY <2>5
    <3> HIDE DEF added, n
    <3>3. added \in Seq(Write) /\ Len(added) = n
      BY <2>4, <3>1 DEF n
    <3> QED BY <3>1, <3>2, <3>3
  <2> HIDE DEF added, n, linked
  <2>8. /\ writes' \in Seq(Write)
        /\ \A i \in DOMAIN writes' : (i \in DOMAIN writes /\ writes'[i] = writes[i]) \/ writes'[i].kind = "unlink"
    BY <2>4, <2>7 DEF WebTypes, n
  <2>9. UNCHANGED <<underway, cancelled, operation, runtime, runtimes, asked>>
    BY <1>9 DEF Hears
  <2>10. WritesOfOperations'
    BY <2>8, <2>9 DEF WritesOfOperations
  <2> QED BY <2>3, <2>8, <2>9, <2>10 DEF WebTypes, StoppedHasNone, PendingUntilIdle, CancelledIfStopped
<1>10. CASE UNCHANGED webVars \/ SnapshotAnswers \/ \E t \in Terminals : TerminalCloses(t)
  BY <1>10 DEF webVars, SnapshotAnswers, TerminalCloses, WebTypes, StoppedHasNone, PendingUntilIdle,
         CancelledIfStopped, WritesOfOperations
<1> QED
  BY <1>1, <1>2, <1>3, <1>4, <1>5, <1>6, <1>7, <1>8, <1>9, <1>10 DEF WebNext

(* For any finite number of servers, any terminals, ports and bounds: what the *)
(* user stopped does not run once its operation has ended (stopWebServer and   *)
(* the continuations of configureAndStartWebServer).                         *)
THEOREM StopsAreKept == ASSUME IsFiniteSet(Servers) PROVE WebSpec => []StopIsKept
<1>1. WebInit => WebInv
  BY WebInitially
<1>2. WebInv /\ [WebNext]_webVars => WebInv'
  BY WebStep
<1>3. WebInv => StopIsKept
  BY DEF WebInv, StoppedHasNone, StopIsKept
<1> QED BY <1>1, <1>2, <1>3, PTL DEF WebSpec
-----------------------------------------------------------------------------
(* The proof that terminals are kept apart.  Until the disk refuses a write,   *)
(* the writes that wait lead from the table to what is in memory, through       *)
(* tables that all keep them apart.                                          *)
Leads(over) ==
    /\ over \in Seq([Servers -> ServerRows]) /\ Len(over) = Len(writes) + 1
    /\ over[1] = stored /\ over[Len(over)] = servers
    /\ \A i \in 1..Len(writes) : over[i + 1] = [over[i] EXCEPT ![writes[i].of] = writes[i].row]
    /\ \A i \in 1..Len(over) : Apart(over[i])

ApartInv ==
    /\ stored \in [Servers -> ServerRows] /\ Apart(stored) /\ refusals \in Nat
    /\ refusals = 0 => \E over : Leads(over)

LEMMA ApartInitially == ASSUME WebInit PROVE ApartInv
<1>1. stored \in [Servers -> ServerRows] /\ Apart(stored) /\ refusals \in Nat
  BY DEF WebInit, ServerRows, Apart
<1>2. Leads(<<stored>>)
  <2> DEFINE over == <<stored>>
  <2>1. over \in Seq([Servers -> ServerRows]) /\ Len(over) = 1 /\ over[1] = stored
    BY <1>1
  <2>2. writes = <<>> /\ Len(writes) = 0 /\ servers = stored
    BY DEF WebInit
  <2> HIDE DEF over
  <2>3. Leads(over)
    BY <1>1, <2>1, <2>2 DEF Leads
  <2> QED BY <2>3 DEF over
<1> QED BY <1>1, <1>2 DEF ApartInv

LEMMA Concatenated ==
    ASSUME NEW S, NEW s \in Seq(S), NEW t \in Seq(S)
    PROVE  /\ s \o t \in Seq(S) /\ Len(s \o t) = Len(s) + Len(t)
           /\ \A i \in 1..Len(s) : (s \o t)[i] = s[i]
           /\ \A i \in 1..Len(t) : (s \o t)[Len(s) + i] = t[i]
OBVIOUS

(* Writes more, which go on from what is in memory through others that keep     *)
(* them apart.                                                               *)
LEMMA LeadsFurther ==
    ASSUME WebInv, NEW over, Leads(over), UNCHANGED stored,
           NEW n \in Nat, NEW added \in Seq(Write), Len(added) = n, writes' = writes \o added,
           NEW through \in [0..n -> [Servers -> ServerRows]], through[0] = servers, servers' = through[n],
           \A i \in 1..n : through[i] = [through[i - 1] EXCEPT ![added[i].of] = added[i].row],
           \A i \in 1..n : Apart(through[i])
    PROVE  (\E further : Leads(further))'
<1> DEFINE m == Len(writes)
           then == [i \in 1..n |-> through[i]]
           further == over \o then
<1>1. writes \in Seq(Write) /\ m \in Nat
  BY DEF WebInv, WebTypes
<1>2. then \in Seq([Servers -> ServerRows]) /\ Len(then) = n /\ \A i \in 1..n : then[i] = through[i]
  OBVIOUS
<1>3. over \in Seq([Servers -> ServerRows]) /\ Len(over) = m + 1
  BY DEF Leads
<1> HIDE DEF then
<1>4. /\ further \in Seq([Servers -> ServerRows]) /\ Len(further) = m + 1 + n
      /\ \A i \in 1..m+1 : further[i] = over[i]
      /\ \A i \in 1..n : further[m + 1 + i] = through[i]
  <2>1. /\ further \in Seq([Servers -> ServerRows]) /\ Len(further) = Len(over) + Len(then)
        /\ \A i \in 1..Len(over) : further[i] = over[i]
        /\ \A i \in 1..Len(then) : further[Len(over) + i] = then[i]
    <3> DEFINE some == [Servers -> ServerRows]
    <3>1. over \in Seq(some) /\ then \in Seq(some)
      BY <1>2, <1>3
    <3> HIDE DEF some
    <3>2. /\ further \in Seq(some) /\ Len(further) = Len(over) + Len(then)
          /\ \A i \in 1..Len(over) : further[i] = over[i]
          /\ \A i \in 1..Len(then) : further[Len(over) + i] = then[i]
      BY <3>1, Concatenated
    <3> QED BY <3>2 DEF some
  <2> HIDE DEF further
  <2> QED BY <1>1, <1>2, <1>3, <2>1
<1>5. /\ Len(writes') = m + n /\ \A i \in 1..m : writes'[i] = writes[i]
      /\ \A i \in 1..n : writes'[m + i] = added[i]
  BY <1>1
<1> HIDE DEF further, m
<1>6. over[1] = stored /\ over[m + 1] = through[0]
  BY <1>3 DEF Leads
<1>7. further[1] = stored'
  BY <1>1, <1>4, <1>6
<1>8. further[m + 1 + n] = servers'
  BY <1>1, <1>4, <1>6
<1>9. ASSUME NEW i \in 1..m+n PROVE further[i + 1] = [further[i] EXCEPT ![writes'[i].of] = writes'[i].row]
  <2>1. CASE i \in 1..m
    <3>1. over[i + 1] = [over[i] EXCEPT ![writes[i].of] = writes[i].row]
      BY <2>1 DEF Leads, m
    <3>2. i \in 1..m+1 /\ i + 1 \in 1..m+1
      BY <1>1, <2>1
    <3> QED BY <1>4, <1>5, <2>1, <3>1, <3>2
  <2>2. CASE i \notin 1..m
    <3>1. PICK k \in 1..n : i = m + k
      <4>1. i - m \in 1..n /\ i = m + (i - m)
        BY <1>1, <2>2
      <4> QED BY <4>1
    <3>2. through[k] = [through[k - 1] EXCEPT ![added[k].of] = added[k].row]
      OBVIOUS
    <3>3. further[i] = through[k - 1]
      <4>1. CASE k = 1
        BY <1>1, <1>4, <1>6, <3>1, <4>1
      <4>2. CASE k # 1
        <5>1. k - 1 \in 1..n /\ m + 1 + (k - 1) = i
          BY <1>1, <3>1, <4>2
        <5> QED BY <1>4, <5>1
      <4> QED BY <4>1, <4>2
    <3>4. further[i + 1] = through[k] /\ writes'[i] = added[k]
      <4>1. m + 1 + k = i + 1
        BY <1>1, <3>1
      <4> QED BY <1>4, <1>5, <3>1, <4>1
    <3> QED BY <3>2, <3>3, <3>4
  <2> QED BY <2>1, <2>2
<1>10. ASSUME NEW i \in 1..(m + 1 + n) PROVE Apart(further[i])
  <2>1. CASE i \in 1..m+1
    BY <1>3, <1>4, <2>1 DEF Leads
  <2>2. CASE i \notin 1..m+1
    <3>1. i - (m + 1) \in 1..n /\ i = m + 1 + (i - (m + 1))
      BY <1>1, <2>2
    <3>2. further[i] = through[i - (m + 1)]
      BY <1>4, <3>1
    <3> QED BY <3>1, <3>2
  <2> QED BY <2>1, <2>2
<1>11. Leads(further)'
  <2>1. Len(further) = Len(writes') + 1 /\ Len(writes') = m + n /\ Len(further) = m + 1 + n
    BY <1>1, <1>4, <1>5
  <2>2. further[Len(further)] = servers'
    BY <1>8, <2>1
  <2> QED BY <1>4, <1>7, <1>9, <1>10, <2>1, <2>2 DEF Leads
<1> QED BY <1>11

(* Of one write.                                                             *)
LEMMA LeadsOneFurther ==
    ASSUME WebInv, NEW over, Leads(over), UNCHANGED stored,
           NEW write \in Write, writes' = Append(writes, write),
           servers' = [servers EXCEPT ![write.of] = write.row], Apart(servers')
    PROVE  (\E further : Leads(further))'
<1> DEFINE added == <<write>>
           through == [i \in 0..1 |-> IF i = 0 THEN servers ELSE servers']
<1>1. writes \in Seq(Write) /\ servers \in [Servers -> ServerRows] /\ write.of \in Servers /\ write.row \in ServerRows
  BY DEF WebInv, WebTypes, Write
<1>2. added \in Seq(Write) /\ Len(added) = 1 /\ added[1] = write
  OBVIOUS
<1>3. writes' = writes \o added
  BY <1>1
<1>4. servers' \in [Servers -> ServerRows]
  BY <1>1
<1>5. through \in [0..1 -> [Servers -> ServerRows]] /\ through[0] = servers /\ through[1] = servers'
  BY <1>1, <1>4
<1> HIDE DEF added, through
<1>6. \A i \in 1..1 : i = 1 /\ i - 1 = 0
  OBVIOUS
<1>7. \A i \in 1..1 : through[i] = [through[i - 1] EXCEPT ![added[i].of] = added[i].row]
  BY <1>2, <1>5, <1>6
<1>8. \A i \in 1..1 : Apart(through[i])
  BY <1>5, <1>6
<1>9. 1 \in Nat
  OBVIOUS
<1> QED BY <1>2, <1>3, <1>5, <1>7, <1>8, <1>9, LeadsFurther

LEMMA ApartStep == ASSUME IsFiniteSet(Servers), WebInv, ApartInv, [WebNext]_webVars PROVE ApartInv'
<1>0. /\ Absent \in ServerRows
      /\ \A kind \in {"configure", "remove", "unlink"}, s \in Servers, row \in ServerRows :
             [kind |-> kind, of |-> s, row |-> row] \in Write
      /\ \A write \in Write : write.kind \in {"configure", "remove", "unlink"} /\ write.of \in Servers
                                /\ write.row \in ServerRows
      /\ \A row \in ServerRows : row # Absent => [row EXCEPT !.terminal = Absent] \in ServerRows
      /\ writes \in Seq(Write) /\ servers \in [Servers -> ServerRows] /\ OfEachServer(operation)
  BY DEF ServerRows, Write, WebInv, WebTypes
<1>a. ASSUME NEW over, Leads(over) PROVE Apart(servers)
  <2>1. Len(writes) \in Nat /\ Len(over) = Len(writes) + 1 /\ over[Len(over)] = servers
    BY <1>0, <1>a DEF Leads
  <2>2. Len(over) \in 1..Len(over)
    BY <2>1
  <2> QED BY <1>a, <2>1, <2>2 DEF Leads
<1>1. CASE UNCHANGED <<servers, stored, writes, refusals>>
  BY <1>1 DEF ApartInv, Leads
<1>2. ASSUME NEW s \in Servers, Validated(s), ~UNCHANGED <<servers, writes>> PROVE ApartInv'
  <2> DEFINE row == operation[s].of
             write == [kind |-> "configure", of |-> s, row |-> row]
  <2>1. /\ servers' = [servers EXCEPT ![s] = row] /\ writes' = Append(writes, write)
        /\ ~LinkedElsewhere(s, row.terminal) /\ operation[s].at = "validating" /\ UNCHANGED <<stored, refusals>>
    BY <1>2 DEF Validated, Writes
  <2>2. write \in Write /\ write.of = s /\ write.row = row
    BY <1>0, <2>1 DEF WebInv, WebTypes
  <2> HIDE DEF write
  <2>3. ASSUME Apart(servers) PROVE Apart(servers')
    BY <1>0, <2>1, <2>3 DEF Apart, LinkedElsewhere
  <2>4. refusals = 0 => (\E further : Leads(further))'
    BY <1>a, <2>1, <2>2, <2>3, LeadsOneFurther DEF ApartInv
  <2> QED BY <2>1, <2>4 DEF ApartInv
<1>3. ASSUME NEW s \in Servers, RemoveServer(s) PROVE ApartInv'
  <2> DEFINE write == [kind |-> "remove", of |-> s, row |-> Absent]
  <2>1. /\ servers' = [servers EXCEPT ![s] = Absent] /\ writes' = Append(writes, write)
        /\ UNCHANGED <<stored, refusals>>
    BY <1>3 DEF RemoveServer, Writes
  <2>2. write \in Write /\ write.of = s /\ write.row = Absent
    BY <1>0
  <2> HIDE DEF write
  <2>3. ASSUME Apart(servers) PROVE Apart(servers')
    BY <1>0, <2>1, <2>3 DEF Apart
  <2>4. refusals = 0 => (\E further : Leads(further))'
    BY <1>a, <2>1, <2>2, <2>3, LeadsOneFurther DEF ApartInv
  <2> QED BY <2>1, <2>4 DEF ApartInv
<1>4. CASE DatabaseWrites
  <2> DEFINE write == Head(writes)
             s == write.of
             row == write.row
  <2>1. /\ writes # <<>> /\ writes' = Tail(writes) /\ write = writes[1] /\ Len(writes) \in Nat \ {0}
        /\ s \in Servers /\ row \in ServerRows
    <3>1. writes # <<>> /\ writes' = Tail(writes)
      BY <1>4 DEF DatabaseWrites
    <3>2. write = writes[1] /\ write \in Write /\ Len(writes) \in Nat \ {0}
      BY <1>0, <3>1
    <3> QED BY <1>0, <3>1, <3>2
  <2>2. PICK ok \in BOOLEAN :
            /\ IF Allowed(write) THEN ok \/ refusals < MaxRefusals ELSE ~ok
            /\ refusals' = IF Allowed(write) /\ ~ok THEN refusals + 1 ELSE refusals
            /\ stored' = IF ok THEN [stored EXCEPT ![s] = row] ELSE stored
            /\ \/ write.kind = "configure" /\ Persisted(s, ok)
               \/ write.kind = "remove" /\ Removed(s, ok)
               \/ write.kind = "unlink" /\ UNCHANGED <<servers, underway, cancelled, operation, runtime, runtimes>>
    BY <1>4 DEF DatabaseWrites
  <2>3. ok => servers' = servers
    BY <2>2 DEF Persisted, Removed
  <2>4. stored' \in [Servers -> ServerRows] /\ refusals' \in Nat
    BY <2>1, <2>2 DEF ApartInv
  <2>5. Apart(stored')
    <3>1. CASE ok
      <4>1. Allowed(write) /\ stored' = [stored EXCEPT ![s] = row]
        BY <2>2, <3>1
      <4> QED BY <2>1, <4>1 DEF ApartInv, Apart, Allowed
    <3>2. CASE ~ok
      BY <2>2, <3>2 DEF ApartInv
    <3> QED BY <3>1, <3>2
  <2>6. ASSUME refusals' = 0 PROVE (\E further : Leads(further))'
    <3>1. refusals = 0
      BY <2>2, <2>6 DEF ApartInv
    <3>2. PICK over : Leads(over)
      BY <3>1 DEF ApartInv
    <3>3. /\ over \in Seq([Servers -> ServerRows]) /\ Len(over) = Len(writes) + 1
          /\ over[1] = stored /\ over[Len(over)] = servers
          /\ over[2] = [over[1] EXCEPT ![s] = row]
          /\ Apart(over[2])
      <4>1. 1 \in 1..Len(writes) /\ 2 \in 1..(Len(writes) + 1)
        BY <2>1
      <4>2. over[1 + 1] = [over[1] EXCEPT ![writes[1].of] = writes[1].row]
        BY <3>2, <4>1 DEF Leads
      <4> QED BY <2>1, <3>2, <4>1, <4>2 DEF Leads
    <3>4. Allowed(write)
      <4>1. \A other \in Servers \ {s} : over[2][other] = stored[other]
        BY <2>1, <3>3
      <4>2. over[2][s] = row
        BY <2>1, <3>3 DEF ApartInv
      <4> QED BY <2>1, <3>3, <4>1, <4>2 DEF Apart, Allowed
    <3>5. ok
      BY <2>2, <2>6, <3>1, <3>4
    <3>6. stored' = over[2] /\ servers' = servers
      BY <2>2, <2>3, <3>3, <3>5
    <3> DEFINE further == Tail(over)
    <3>7. /\ further \in Seq([Servers -> ServerRows]) /\ Len(further) = Len(writes)
          /\ \A i \in 1..Len(writes) : further[i] = over[i + 1]
      BY <2>1, <3>3
    <3>8. Len(writes') = Len(writes) - 1 /\ \A i \in 1..(Len(writes) - 1) : writes'[i] = writes[i + 1]
      BY <1>0, <2>1
    <3> HIDE DEF further
    <3>9. further[1] = stored' /\ further[Len(writes)] = servers'
      <4>1. Len(writes) \in 1..Len(writes) /\ 1 \in 1..Len(writes) /\ 1 + 1 = 2 /\ Len(over) = Len(writes) + 1
        BY <2>1, <3>3
      <4> QED BY <3>3, <3>6, <3>7, <4>1
    <3>10. ASSUME NEW i \in 1..(Len(writes) - 1)
           PROVE  further[i + 1] = [further[i] EXCEPT ![writes'[i].of] = writes'[i].row]
      <4>1. i \in 1..Len(writes) /\ i + 1 \in 1..Len(writes)
        BY <2>1
      <4>2. over[i + 1 + 1] = [over[i + 1] EXCEPT ![writes[i + 1].of] = writes[i + 1].row]
        BY <3>2, <4>1 DEF Leads
      <4> QED BY <3>7, <3>8, <4>1, <4>2
    <3>11. \A i \in 1..Len(writes) : Apart(further[i])
      <4> SUFFICES ASSUME NEW i \in 1..Len(writes) PROVE Apart(further[i])
        OBVIOUS
      <4>1. i + 1 \in 1..Len(over)
        BY <2>1, <3>3
      <4> QED BY <3>2, <3>7, <4>1 DEF Leads
    <3>12. Leads(further)'
      BY <2>1, <3>7, <3>8, <3>9, <3>10, <3>11 DEF Leads
    <3> QED BY <3>12
  <2> QED BY <2>4, <2>5, <2>6 DEF ApartInv
<1>5. CASE Hears
  <2>1. PICK gone : Unlinks(gone)
    BY <1>5 DEF Hears
  <2> DEFINE linked == {s \in Servers : servers[s] # Absent /\ servers[s].terminal \in gone}
             n == Cardinality(linked)
  <2>2. servers' = [s \in Servers |-> IF s \in linked THEN [servers[s] EXCEPT !.terminal = Absent] ELSE servers[s]]
    BY <2>1 DEF Unlinks
  <2>3. servers' \in [Servers -> ServerRows]
    BY <1>0, <2>2
  <2>4. n \in Nat
    BY FS_Subset, FS_CardinalityType
  <2>5. PICK order \in [1..n -> linked] :
            /\ \A s \in linked : \E i \in DOMAIN order : order[i] = s
            /\ writes' = writes \o [i \in DOMAIN order |->
                                       [kind |-> "unlink", of |-> order[i], row |-> servers'[order[i]]]]
    BY <2>1 DEF Unlinks
  <2> DEFINE added == [i \in 1..n |-> [kind |-> "unlink", of |-> order[i], row |-> servers'[order[i]]]]
             through == [k \in 0..n |-> [s \in Servers |-> IF \E j \in 1..k : order[j] = s THEN servers'[s]
                                                          ELSE servers[s]]]
  <2>6. \A i \in 1..n : order[i] \in Servers /\ servers'[order[i]] \in ServerRows
    BY <2>3, <2>5
  <2>7. /\ writes' = writes \o added /\ added \in Seq(Write) /\ Len(added) = n
        /\ \A i \in 1..n : added[i].of = order[i] /\ added[i].row = servers'[order[i]]
    <3>1. added \in [1..n -> Write]
      BY <1>0, <2>6
    <3>2. writes' = writes \o added
      BY <2>5
    <3>3. \A i \in 1..n : added[i].of = order[i] /\ added[i].row = servers'[order[i]]
      OBVIOUS
    <3> HIDE DEF added, n
    <3>4. added \in Seq(Write) /\ Len(added) = n
      BY <2>4, <3>1
    <3> QED BY <3>2, <3>3, <3>4
  <2>8. /\ through \in [0..n -> [Servers -> ServerRows]]
        /\ \A k \in 0..n, s \in Servers :
               through[k][s] = IF \E j \in 1..k : order[j] = s THEN servers'[s] ELSE servers[s]
    BY <1>0, <2>3
  <2>9. \A s \in Servers : servers'[s] = servers[s] \/ servers'[s].terminal = Absent
    <3>1. \A row \in ServerRows : row # Absent => [row EXCEPT !.terminal = Absent].terminal = Absent
      BY DEF ServerRows
    <3> QED BY <1>0, <2>2, <3>1
  <2>10. \A s \in Servers : servers[s] = Absent => servers'[s] = Absent
    BY <2>2
  <2>11. \A s \in Servers : s \notin linked => servers'[s] = servers[s]
    BY <2>2
  <2> HIDE DEF added, through, linked, n
  <2>12. through[0] = servers
    <3>1. ASSUME NEW s \in Servers PROVE through[0][s] = servers[s]
      BY <2>4, <2>8
    <3>2. through[0] \in [Servers -> ServerRows]
      BY <2>4, <2>8
    <3> QED BY <1>0, <3>1, <3>2
  <2>13. through[n] = servers'
    <3>1. ASSUME NEW s \in Servers PROVE through[n][s] = servers'[s]
      BY <2>4, <2>5, <2>8, <2>11
    <3>2. through[n] \in [Servers -> ServerRows]
      BY <2>4, <2>8
    <3> QED BY <2>3, <3>1, <3>2
  <2>14. ASSUME NEW i \in 1..n
         PROVE  through[i] = [through[i - 1] EXCEPT ![added[i].of] = added[i].row]
    <3>1. i \in 0..n /\ i - 1 \in 0..n /\ order[i] \in Servers
      BY <2>4, <2>6
    <3>2. through[i] \in [Servers -> ServerRows] /\ through[i - 1] \in [Servers -> ServerRows]
      BY <2>8, <3>1
    <3>3. ASSUME NEW s \in Servers
          PROVE  through[i][s] = IF s = order[i] THEN servers'[s] ELSE through[i - 1][s]
      <4>1. (\E j \in 1..i : order[j] = s) <=> (order[i] = s \/ \E j \in 1..(i - 1) : order[j] = s)
        BY <2>4
      <4> QED BY <2>8, <3>1, <4>1
    <3>4. added[i].of = order[i] /\ added[i].row = servers'[order[i]]
      BY <2>7
    <3> QED BY <3>1, <3>2, <3>3, <3>4
  <2>15. ASSUME Apart(servers), NEW i \in 1..n PROVE Apart(through[i])
    <3>1. \A s \in Servers : through[i][s] = servers[s] \/ through[i][s].terminal = Absent
      BY <2>4, <2>8, <2>9
    <3>2. \A s \in Servers : servers[s] = Absent => through[i][s] = Absent
      BY <2>4, <2>8, <2>10
    <3>3. ASSUME NEW s \in Servers, NEW other \in Servers, s # other, through[i][s] # Absent, through[i][other] # Absent,
                 through[i][s].terminal # Absent
          PROVE  through[i][s].terminal # through[i][other].terminal
      <4>1. through[i][s] = servers[s] /\ servers[s] # Absent
        BY <3>1, <3>3
      <4>2. CASE through[i][other] = servers[other]
        BY <2>15, <3>3, <4>1, <4>2 DEF Apart
      <4>3. CASE through[i][other].terminal = Absent
        BY <3>3, <4>3
      <4> QED BY <3>1, <4>2, <4>3
    <3> QED BY <3>3 DEF Apart
  <2>16. UNCHANGED <<stored, refusals>>
    BY <1>5 DEF Hears
  <2>17. refusals = 0 => (\E further : Leads(further))'
    <3> SUFFICES ASSUME refusals = 0 PROVE (\E further : Leads(further))'
      OBVIOUS
    <3>1. PICK over : Leads(over)
      BY DEF ApartInv
    <3>2. \A i \in 1..n : Apart(through[i])
      BY <1>a, <2>15, <3>1
    <3> QED BY <2>4, <2>7, <2>8, <2>12, <2>13, <2>14, <2>16, <3>1, <3>2, LeadsFurther
  <2> QED BY <2>16, <2>17 DEF ApartInv
<1>6. CASE \E s \in Servers : \/ \E t \in Terminals \cup {Absent}, p \in Ports : ConfigureServer(s, t, p)
                              \/ StartServer(s) \/ StopServer(s) \/ Started(s)
  <2>1. UNCHANGED <<servers, stored, writes, refusals>>
    BY <1>6 DEF ConfigureServer, StartServer, StopServer, Started
  <2> QED BY <1>1, <2>1
<1>7. CASE \/ UNCHANGED webVars \/ SnapshotAnswers \/ \E t \in Terminals : TerminalCloses(t)
           \/ \E r \in DOMAIN runtimes : Listens(r) \/ Closes(r)
  <2>1. UNCHANGED <<servers, stored, writes, refusals>>
    BY <1>7 DEF webVars, SnapshotAnswers, TerminalCloses, Listens, Closes
  <2> QED BY <1>1, <2>1
<1>8. ASSUME NEW s \in Servers, Validated(s) PROVE ApartInv'
  <2>1. CASE UNCHANGED <<servers, writes>>
    <3>1. UNCHANGED <<servers, stored, writes, refusals>>
      BY <1>8, <2>1 DEF Validated
    <3> QED BY <1>1, <3>1
  <2> QED BY <1>2, <1>8, <2>1
<1> QED
  BY <1>3, <1>4, <1>5, <1>6, <1>7, <1>8 DEF WebNext

LEMMA ApartMeans == ASSUME WebInv, ApartInv PROVE TerminalsAreApart
<1>1. ASSUME refusals = 0 PROVE Apart(servers) /\ (writes # <<>> => Allowed(Head(writes)))
  <2>1. PICK over : Leads(over)
    BY <1>1 DEF ApartInv
  <2>2. writes \in Seq(Write) /\ stored \in [Servers -> ServerRows]
    BY DEF WebInv, WebTypes, ApartInv
  <2>3. Apart(servers)
    <3>1. Len(over) \in 1..Len(over) /\ over[Len(over)] = servers
      BY <2>1, <2>2 DEF Leads
    <3> QED BY <2>1, <3>1 DEF Leads
  <2>4. ASSUME writes # <<>> PROVE Allowed(Head(writes))
    <3>1. Len(writes) \in Nat \ {0} /\ Head(writes) = writes[1] /\ writes[1] \in Write
      BY <2>2, <2>4
    <3>2. writes[1].of \in Servers
      BY <3>1 DEF Write
    <3>3. 1 \in 1..Len(writes) /\ 2 \in 1..Len(over)
      BY <2>1, <3>1 DEF Leads
    <3>4. over[1 + 1] = [over[1] EXCEPT ![writes[1].of] = writes[1].row]
      BY <2>1, <3>3 DEF Leads
    <3>5. Apart(over[2]) /\ over[1] = stored
      BY <2>1, <3>3 DEF Leads
    <3>6. /\ over[2][writes[1].of] = writes[1].row
          /\ \A other \in Servers \ {writes[1].of} : over[2][other] = stored[other]
      <4>1. over[2] = [stored EXCEPT ![writes[1].of] = writes[1].row]
        BY <3>4, <3>5
      <4> QED BY <2>2, <3>2, <4>1
    <3> QED BY <3>1, <3>2, <3>5, <3>6 DEF Apart, Allowed
  <2> QED BY <2>3, <2>4
<1> QED BY <1>1 DEF ApartInv, TerminalsAreApart

(* For any finite number of servers and any terminals and bounds: the table     *)
(* has no two servers of one terminal, and until a write fails nor has memory,   *)
(* and no write is refused by the index (Apart; configureAndStartWebServer,     *)
(* unlinkTerminal, and the unique index).                                     *)
THEOREM TerminalsStayApart == ASSUME IsFiniteSet(Servers) PROVE WebSpec => []TerminalsAreApart
<1>1. WebInit => WebInv /\ ApartInv
  BY WebInitially, ApartInitially
<1>2. WebInv /\ ApartInv /\ [WebNext]_webVars => WebInv' /\ ApartInv'
  BY WebStep, ApartStep
<1>3. WebInv /\ ApartInv => TerminalsAreApart
  BY ApartMeans
<1> QED BY <1>1, <1>2, <1>3, PTL DEF WebSpec
-----------------------------------------------------------------------------
\* The plugins
(* The proof that what a plugin depends on is up as long as it is.  Each comes   *)
(* after those it depends on, once, and they leave the other way round.         *)
PluginsAreApart ==
    /\ HostPlugins \in Seq(Range(HostPlugins))
    /\ \A i, j \in 1..Len(HostPlugins) : HostPlugins[i] = HostPlugins[j] => i = j

Each(s) == {s[i] : i \in 1..Len(s)}
FirstOf(s, n) == {s[i] : i \in 1..n}
Once(s) == \A i, j \in 1..Len(s) : s[i] = s[j] => i = j

RegistryTypes ==
    /\ initialized \in Seq(Range(HostPlugins)) /\ starting \in Seq(Range(HostPlugins))
    /\ leaving \in Seq(Range(HostPlugins)) /\ index \in Nat /\ index <= Len(starting)

NoneTwice ==
    /\ Once(initialized) /\ Once(starting)
    /\ \A i \in 1..Len(initialized), j \in 1..Len(starting) : initialized[i] # starting[j]

NoneBeforeItsOwn == \A i \in 1..Len(initialized) : HostDependsOn[initialized[i]] \subseteq FirstOf(initialized, i - 1)

ThoseThatAreUp ==
    /\ startStep \in {"down", "loading", "opening", "marking", "window", "unloaded"} => initialized = <<>> /\ up = {}
    /\ startStep \notin {"leaving", "unloaded"} => up = FirstOf(initialized, Len(initialized))
    /\ startStep = "leaving" =>
           /\ Len(leaving) <= Len(initialized) /\ up = FirstOf(initialized, Len(leaving))
           /\ \A k \in 1..Len(leaving) : leaving[k] = initialized[Len(leaving) + 1 - k]

RegistryInv == RegistryTypes /\ NoneTwice /\ NoneBeforeItsOwn /\ ThoseThatAreUp

LEMMA RegistryInitially == ASSUME Application!StartupInit PROVE RegistryInv
BY DEF Application!StartupInit, RegistryInv, RegistryTypes, NoneTwice, Once, NoneBeforeItsOwn, ThoseThatAreUp, FirstOf

LEMMA Shorter ==
    ASSUME NEW S, NEW s \in Seq(S), NEW n \in 1..Len(s)
    PROVE  /\ RemoveAt(s, n) \in Seq(S) /\ Len(RemoveAt(s, n)) = Len(s) - 1
           /\ \A i \in 1..(Len(s) - 1) : RemoveAt(s, n)[i] = IF i < n THEN s[i] ELSE s[i + 1]
<1> DEFINE before == SubSeq(s, 1, n - 1)
           after == SubSeq(s, n + 1, Len(s))
<1>1. /\ before \in Seq(S) /\ Len(before) = n - 1 /\ \A i \in 1..(n - 1) : before[i] = s[i]
      /\ after \in Seq(S) /\ Len(after) = Len(s) - n /\ \A i \in 1..(Len(s) - n) : after[i] = s[n + i]
  OBVIOUS
<1>2. RemoveAt(s, n) = before \o after
  BY DEF RemoveAt
<1> HIDE DEF before, after
<1>3. before \o after \in Seq(S) /\ Len(before \o after) = Len(s) - 1
  BY <1>1
<1>4. ASSUME NEW i \in 1..(Len(s) - 1) PROVE (before \o after)[i] = IF i < n THEN s[i] ELSE s[i + 1]
  <2>1. CASE i < n
    BY <1>1, <2>1
  <2>2. CASE i >= n
    <3>1. (before \o after)[i] = after[i - (n - 1)]
      BY <1>1, <2>2
    <3>2. i - (n - 1) \in 1..(Len(s) - n) /\ n + (i - (n - 1)) = i + 1
      BY <2>2
    <3>3. after[i - (n - 1)] = s[i + 1]
      BY <1>1, <3>2
    <3>4. ~(i < n)
      BY <2>2
    <3> QED BY <3>1, <3>3, <3>4
  <2>3. i < n \/ i >= n
    <3>1. Len(s) \in Nat
      OBVIOUS
    <3>2. i \in Int /\ n \in Int
      BY <3>1
    <3> QED BY <3>2
  <2> QED BY <2>1, <2>2, <2>3
<1> QED BY <1>2, <1>3, <1>4

LEMMA RegistryStep == ASSUME PluginsAreApart, RegistryInv, [Application!StartupNext]_Application!startupVars PROVE RegistryInv'
<1> USE DEF RegistryInv, Application!Goes, Application!MayFail, Application!Fails, Application!registry
<1>1. CASE Application!Launch
  BY <1>1 DEF Application!Launch, RegistryTypes, NoneTwice, NoneBeforeItsOwn, ThoseThatAreUp
<1>2. CASE Application!LoadPlugin
  BY <1>2 DEF Application!LoadPlugin, RegistryTypes, NoneTwice, NoneBeforeItsOwn, ThoseThatAreUp
<1>3. CASE Application!OpenStateStore
  BY <1>3 DEF Application!OpenStateStore, RegistryTypes, NoneTwice, NoneBeforeItsOwn, ThoseThatAreUp
<1>4. CASE Application!MarkStarted
  BY <1>4 DEF Application!MarkStarted, RegistryTypes, NoneTwice, NoneBeforeItsOwn, ThoseThatAreUp
<1>5. CASE Application!LoadInterface
  <2>1. /\ startStep = "window" /\ startStep' = "initializing" /\ starting' = [i \in DOMAIN HostPlugins |-> HostPlugins[i]]
        /\ index' = Len(HostPlugins) /\ UNCHANGED <<initialized, leaving, up>>
    BY <1>5 DEF Application!LoadInterface
  <2>2. starting' = HostPlugins
    BY <2>1 DEF PluginsAreApart
  <2>3. initialized = <<>> /\ up = {}
    BY <2>1 DEF ThoseThatAreUp
  <2> QED BY <2>1, <2>2, <2>3 DEF PluginsAreApart, RegistryTypes, NoneTwice, Once, NoneBeforeItsOwn, ThoseThatAreUp,
       FirstOf
<1>6. CASE Application!InitializePlugin
  <2> DEFINE p == starting[index]
  <2>1. index \in 1..Len(starting) /\ p \in Range(HostPlugins) /\ startStep = "initializing"
    BY <1>6 DEF Application!InitializePlugin, RegistryTypes
  <2>2. CASE UNCHANGED <<initialized, up, starting>>
    <3>1. UNCHANGED leaving /\ index' \in Nat /\ index' <= Len(starting) /\ startStep' \in {"initializing", "stopping"}
      BY <1>6, <2>1, <2>2 DEF Application!InitializePlugin, RegistryTypes
    <3> QED BY <2>1, <2>2, <3>1 DEF RegistryTypes, NoneTwice, NoneBeforeItsOwn, ThoseThatAreUp
  <2>3. CASE ~UNCHANGED <<initialized, up, starting>>
    <3>1. /\ Application!DependenciesReady(p) /\ index' = index - 1
          /\ initialized' = Append(initialized, p) /\ up' = up \cup {p}
          /\ starting' = RemoveAt(starting, index) /\ UNCHANGED <<startStep, leaving>>
      BY <1>6, <2>3 DEF Application!InitializePlugin, Application!RemoveAt, RemoveAt
    <3>2. /\ starting' \in Seq(Range(HostPlugins)) /\ Len(starting') = Len(starting) - 1
          /\ \A i \in 1..(Len(starting) - 1) : starting'[i] = IF i < index THEN starting[i] ELSE starting[i + 1]
      BY <2>1, <3>1, Shorter DEF RegistryTypes
    <3>3. /\ initialized' \in Seq(Range(HostPlugins)) /\ Len(initialized') = Len(initialized) + 1
          /\ \A i \in 1..Len(initialized) : initialized'[i] = initialized[i]
          /\ initialized'[Len(initialized) + 1] = p /\ Len(initialized) \in Nat /\ Len(starting) \in Nat
      BY <2>1, <3>1 DEF RegistryTypes
    <3>4. RegistryTypes'
      BY <2>1, <3>1, <3>2, <3>3 DEF RegistryTypes
    <3>5. NoneTwice'
      <4>1. Once(initialized)'
        BY <2>1, <3>3 DEF NoneTwice, Once
      <4>2. Once(starting)'
        BY <2>1, <3>2, <3>3 DEF NoneTwice, Once
      <4>3. ASSUME NEW i \in 1..Len(initialized'), NEW j \in 1..Len(starting') PROVE initialized'[i] # starting'[j]
        <5>1. PICK k \in 1..Len(starting) : k # index /\ starting'[j] = starting[k]
          BY <2>1, <3>2, <3>3
        <5>2. starting[k] # p
          BY <2>1, <5>1 DEF NoneTwice, Once
        <5> QED BY <3>3, <5>1, <5>2 DEF NoneTwice
      <4> QED BY <4>1, <4>2, <4>3 DEF NoneTwice
    <3>6. \A n \in 0..Len(initialized) : FirstOf(initialized', n) = FirstOf(initialized, n)
      BY <3>3 DEF FirstOf
    <3>7. HostDependsOn[p] \subseteq FirstOf(initialized, Len(initialized))
      <4>1. Range(initialized) = FirstOf(initialized, Len(initialized))
        BY DEF Range, FirstOf, RegistryTypes
      <4> QED BY <3>1, <4>1 DEF Application!DependenciesReady, Application!Range, Range
    <3>8. NoneBeforeItsOwn'
      <4> SUFFICES ASSUME NEW i \in 1..Len(initialized')
                   PROVE  HostDependsOn[initialized'[i]] \subseteq FirstOf(initialized', i - 1)
        BY DEF NoneBeforeItsOwn
      <4>1. i - 1 \in 0..Len(initialized) /\ (i \in 1..Len(initialized) \/ i = Len(initialized) + 1)
        BY <3>3
      <4> QED BY <3>3, <3>6, <3>7, <4>1 DEF NoneBeforeItsOwn
    <3>9. up' = FirstOf(initialized', Len(initialized'))
      BY <2>1, <3>1, <3>3 DEF ThoseThatAreUp, FirstOf
    <3> QED BY <2>1, <3>1, <3>4, <3>5, <3>8, <3>9 DEF ThoseThatAreUp
  <2> QED BY <2>2, <2>3
<1>7. CASE Application!NextPass
  <2>1. UNCHANGED <<initialized, starting, leaving, up>> /\ startStep = "initializing"
        /\ startStep' \in {"initializing", "building", "stopping"} /\ index' \in {index, Len(starting)}
    BY <1>7 DEF Application!NextPass
  <2> QED BY <2>1 DEF RegistryTypes, NoneTwice, NoneBeforeItsOwn, ThoseThatAreUp
<1>8. CASE Application!BuildInterface
  BY <1>8 DEF Application!BuildInterface, RegistryTypes, NoneTwice, NoneBeforeItsOwn, ThoseThatAreUp
<1>9. CASE Application!CloseWindow
  BY <1>9 DEF Application!CloseWindow, RegistryTypes, NoneTwice, NoneBeforeItsOwn, ThoseThatAreUp
<1>10. CASE Application!Shutdown
  <2>1. /\ startStep = "stopping" /\ startStep' = "leaving" /\ leaving' = Reverse(initialized)
        /\ UNCHANGED <<initialized, starting, index, up>>
    BY <1>10 DEF Application!Shutdown, Application!LeavingOrder, Application!Reverse, Reverse
  <2>2. /\ leaving' \in Seq(Range(HostPlugins)) /\ Len(leaving') = Len(initialized)
        /\ \A k \in 1..Len(initialized) : leaving'[k] = initialized[Len(initialized) + 1 - k]
    BY <2>1 DEF RegistryTypes, Reverse
  <2> QED BY <2>1, <2>2 DEF RegistryTypes, NoneTwice, NoneBeforeItsOwn, ThoseThatAreUp
<1>11. CASE Application!ShutdownPlugin
  <2> DEFINE n == Len(leaving)
  <2>1. /\ startStep = "leaving" /\ leaving # <<>> /\ up' = up \ {Head(leaving)} /\ leaving' = Tail(leaving)
        /\ UNCHANGED <<startStep, initialized, starting, index>>
    BY <1>11 DEF Application!ShutdownPlugin
  <2>2. /\ n \in 1..Len(initialized) /\ leaving' \in Seq(Range(HostPlugins)) /\ Len(leaving') = n - 1
        /\ Head(leaving) = leaving[1] /\ \A k \in 1..(n - 1) : leaving'[k] = leaving[k + 1]
    BY <2>1 DEF RegistryTypes, ThoseThatAreUp
  <2>3. \A k \in 1..n : leaving[k] = initialized[n + 1 - k]
    BY <2>1 DEF ThoseThatAreUp
  <2> HIDE DEF n
  <2>4. ASSUME NEW k \in 1..(n - 1) PROVE leaving'[k] = initialized[n - k]
    <3>1. k + 1 \in 1..n /\ n + 1 - (k + 1) = n - k
      BY <2>2
    <3> QED BY <2>2, <2>3, <3>1
  <2>5. Head(leaving) = initialized[n]
    <3>1. 1 \in 1..n /\ n + 1 - 1 = n
      BY <2>2
    <3> QED BY <2>2, <2>3, <3>1
  <2>6. up' = FirstOf(initialized, n - 1)
    <3>1. up = FirstOf(initialized, n)
      BY <2>1 DEF ThoseThatAreUp, n
    <3>2. \A i \in 1..(n - 1) : initialized[i] # initialized[n]
      BY <2>2 DEF NoneTwice, Once
    <3> QED BY <2>1, <2>2, <2>5, <3>1, <3>2 DEF FirstOf
  <2>7. \A k \in 1..(n - 1) : n - 1 + 1 - k = n - k
    BY <2>2
  <2> QED BY <2>1, <2>2, <2>4, <2>6, <2>7 DEF RegistryTypes, NoneTwice, NoneBeforeItsOwn, ThoseThatAreUp
<1>12. CASE Application!UnloadPlugins
  <2>1. up = {}
    BY <1>12 DEF Application!UnloadPlugins, ThoseThatAreUp, FirstOf
  <2> QED BY <1>12, <2>1 DEF Application!UnloadPlugins, RegistryTypes, NoneTwice, Once, NoneBeforeItsOwn, ThoseThatAreUp
<1>13. CASE Application!MarkEnded
  BY <1>13 DEF Application!MarkEnded, RegistryTypes, NoneTwice, NoneBeforeItsOwn, ThoseThatAreUp, FirstOf
<1>14. CASE Application!Crash
  BY <1>14 DEF Application!Crash, RegistryTypes, NoneTwice, Once, NoneBeforeItsOwn, ThoseThatAreUp, FirstOf
<1>15. CASE UNCHANGED Application!startupVars
  BY <1>15 DEF Application!startupVars, RegistryTypes, NoneTwice, NoneBeforeItsOwn, ThoseThatAreUp
<1> QED
  BY <1>1, <1>2, <1>3, <1>4, <1>5, <1>6, <1>7, <1>8, <1>9, <1>10, <1>11, <1>12, <1>13, <1>14, <1>15
  DEF Application!StartupNext

LEMMA RegistryMeans == ASSUME RegistryInv PROVE Application!DependenciesAreUp
<1>1. PICK n \in 0..Len(initialized) : up = FirstOf(initialized, n)
  <2>1. Len(initialized) \in Nat /\ Len(leaving) \in Nat
    BY DEF RegistryInv, RegistryTypes
  <2>2. CASE startStep = "leaving"
    BY <2>1, <2>2 DEF RegistryInv, ThoseThatAreUp
  <2>3. CASE startStep = "unloaded"
    BY <2>1, <2>3 DEF RegistryInv, ThoseThatAreUp, FirstOf
  <2>4. CASE startStep \notin {"leaving", "unloaded"}
    BY <2>1, <2>4 DEF RegistryInv, ThoseThatAreUp
  <2> QED BY <2>2, <2>3, <2>4
<1>2. ASSUME NEW p \in up PROVE HostDependsOn[p] \subseteq up
  <2>1. PICK i \in 1..n : p = initialized[i]
    BY <1>1, <1>2 DEF FirstOf
  <2>2. HostDependsOn[p] \subseteq FirstOf(initialized, i - 1)
    <3>1. i \in 1..Len(initialized)
      BY DEF RegistryInv, RegistryTypes
    <3> QED BY <2>1, <3>1 DEF RegistryInv, NoneBeforeItsOwn, RegistryTypes
  <2>3. FirstOf(initialized, i - 1) \subseteq FirstOf(initialized, n)
    BY <2>1 DEF FirstOf
  <2> QED BY <1>1, <2>2, <2>3
<1> QED BY <1>2 DEF Application!DependenciesAreUp

(* For any plugins, whatever they depend on, even on each other, and however a   *)
(* start or an end is cut short: those a plugin depends on are up as long as it  *)
(* is (PluginManager::initialize, shutdown).                                  *)
THEOREM PluginsFindTheirOwn ==
    ASSUME PluginsAreApart
    PROVE  Application!StartupInit /\ [][Application!StartupNext]_Application!startupVars
               => []Application!DependenciesAreUp
<1>1. Application!StartupInit => RegistryInv
  BY RegistryInitially
<1>2. RegistryInv /\ [Application!StartupNext]_Application!startupVars => RegistryInv'
  BY RegistryStep
<1>3. RegistryInv => Application!DependenciesAreUp
  BY RegistryMeans
<1> QED BY <1>1, <1>2, <1>3, PTL
-----------------------------------------------------------------------------
\* The browser
(* The proof that the bar shows the tabs and that the database and the next     *)
(* start accept what is written: whatever is held, is on its way, or would be    *)
(* gone back to, has one active tab and no bookmark without its group.          *)
TabRecords == [id : PageTabs, address : PageAddresses, active : BOOLEAN]
BookmarkRecords == [id : Bookmarks, group : BookmarkGroups \cup {NoGroup}, address : PageAddresses]
MarkRecords == [groups : Seq(BookmarkGroups), bookmarks : Seq(BookmarkRecords)]

OneActive(tabs) ==
    /\ \A i, j \in 1..Len(tabs) : tabs[i].active /\ tabs[j].active => i = j
    /\ tabs # <<>> => \E i \in 1..Len(tabs) : tabs[i].active

Grouped(groups, bookmarks) ==
    \A i \in 1..Len(bookmarks) :
        bookmarks[i].group = NoGroup \/ \E k \in 1..Len(groups) : groups[k] = bookmarks[i].group

SoundTabs == {tabs \in Seq(TabRecords) : OneActive(tabs)}
SoundMarks == {value \in MarkRecords : Grouped(value.groups, value.bookmarks)}
SoundTables == [tabs : SoundTabs, marks : SoundMarks]
SoundWrites ==
    [table : {"tabs"}, value : SoundTabs, revision : Nat] \cup [table : {"marks"}, value : SoundMarks, revision : Nat]
SoundResults == [write : SoundWrites, done : BOOLEAN]

Shows(tabs) == bar = Pages!Ids(tabs) /\ \A i \in 1..Len(tabs) : tabs[i].active => current = tabs[i].id

PagesInv ==
    /\ memory \in SoundTables /\ committed \in SoundTables /\ tables \in SoundTables
    /\ browserWrites \in Seq(SoundWrites) /\ results \in Seq(SoundResults)
    /\ revision \in [{"tabs", "marks"} -> Nat]
    /\ ~running => results = <<>>
    /\ running => Shows(memory.tabs)

LEMMA NothingIsSound == <<>> \in SoundTabs /\ Pages!NoMarks \in SoundMarks
<1>1. <<>> \in Seq(TabRecords) /\ OneActive(<<>>)
  BY DEF OneActive
<1>2. Pages!NoMarks \in MarkRecords /\ Grouped(Pages!NoMarks.groups, Pages!NoMarks.bookmarks)
  BY DEF Pages!NoMarks, MarkRecords, Grouped
<1> QED BY <1>1, <1>2 DEF SoundTabs, SoundMarks

LEMMA PagesInitially == ASSUME Pages!BrowserInit PROVE PagesInv
<1>1. [tabs |-> <<>>, marks |-> Pages!NoMarks] \in SoundTables
  BY NothingIsSound DEF SoundTables
<1>2. memory \in SoundTables /\ committed \in SoundTables /\ tables \in SoundTables
  BY <1>1 DEF Pages!BrowserInit
<1>3. revision \in [{"tabs", "marks"} -> Nat]
  BY DEF Pages!BrowserInit, Pages!Tables
<1> QED BY <1>2, <1>3 DEF Pages!BrowserInit, PagesInv

(* What a bar that follows the tabs shows.                                   *)
LEMMA Followed ==
    ASSUME NEW tabs \in SoundTabs, Pages!Synchronized(tabs) PROVE Shows(tabs)'
<1>1. ASSUME NEW i \in 1..Len(tabs), tabs[i].active PROVE current' = tabs[i].id
  <2>1. tabs \in Seq(TabRecords) /\ DOMAIN tabs = 1..Len(tabs) /\ OneActive(tabs)
    BY DEF SoundTabs
  <2>2. Pages!ActiveOf(tabs) = {tabs[i].id}
    BY <1>1, <2>1 DEF Pages!ActiveOf, OneActive
  <2>3. (CHOOSE id \in Pages!ActiveOf(tabs) : TRUE) = tabs[i].id
    BY <2>2
  <2> QED BY <2>2, <2>3 DEF Pages!Synchronized
<1> QED BY <1>1 DEF Pages!Synchronized, Shows

(* A change of the tabs, and one of the bookmarks.                             *)
LEMMA TabsChange ==
    ASSUME PagesInv, NEW tabs \in SoundTabs, Pages!Change, Pages!Persists("tabs", tabs), Shows(tabs)' PROVE PagesInv'
<1> DEFINE write == [table |-> "tabs", value |-> tabs, revision |-> revision["tabs"] + 1]
<1>1. /\ running /\ UNCHANGED <<running, committed, results, tables>>
      /\ memory' = [memory EXCEPT !["tabs"] = tabs] /\ revision' = [revision EXCEPT !["tabs"] = @ + 1]
      /\ browserWrites' = Append(browserWrites, write)
  BY DEF Pages!Change, Pages!keeping, Pages!Persists
<1>2. memory' \in SoundTables /\ memory'.tabs = tabs
  BY <1>1 DEF PagesInv, SoundTables
<1>3. write \in SoundWrites /\ revision' \in [{"tabs", "marks"} -> Nat]
  BY <1>1 DEF PagesInv, SoundWrites
<1> HIDE DEF write
<1>4. browserWrites' \in Seq(SoundWrites)
  BY <1>1, <1>3 DEF PagesInv
<1> QED BY <1>1, <1>2, <1>3, <1>4 DEF PagesInv

LEMMA MarksChange ==
    ASSUME PagesInv, NEW value \in SoundMarks, Pages!Change, Pages!Keeps(value) PROVE PagesInv'
<1> DEFINE write == [table |-> "marks", value |-> value, revision |-> revision["marks"] + 1]
<1>1. /\ running /\ UNCHANGED <<running, committed, results, tables, bar, current>>
      /\ memory' = [memory EXCEPT !["marks"] = value] /\ revision' = [revision EXCEPT !["marks"] = @ + 1]
      /\ browserWrites' = Append(browserWrites, write)
  BY DEF Pages!Change, Pages!keeping, Pages!Persists, Pages!Keeps, Pages!view
<1>2. memory' \in SoundTables /\ memory'.tabs = memory.tabs
  BY <1>1 DEF PagesInv, SoundTables
<1>3. write \in SoundWrites /\ revision' \in [{"tabs", "marks"} -> Nat]
  BY <1>1 DEF PagesInv, SoundWrites
<1> HIDE DEF write
<1>4. browserWrites' \in Seq(SoundWrites)
  BY <1>1, <1>3 DEF PagesInv
<1>5. Shows(memory.tabs)'
  BY <1>1, <1>2 DEF PagesInv, Shows
<1> QED BY <1>1, <1>2, <1>3, <1>4, <1>5 DEF PagesInv

(* One of a sequence elsewhere, or another in its place there.                 *)
Elsewhere(s, from, to, e) == Pages!InsertAt(Pages!RemoveAt(s, from), to, e)

MovedOnly(S, s, m, from, to, e) ==
    /\ m \in Seq(S) /\ Len(m) = Len(s)
    /\ \E was \in [1..Len(s) -> 1..Len(s)] :
           /\ \A i, j \in 1..Len(s) : was[i] = was[j] => i = j
           /\ \A i \in 1..Len(s) : \E j \in 1..Len(s) : was[j] = i
           /\ was[to] = from /\ m[to] = e /\ \A i \in 1..Len(s) : i # to => m[i] = s[was[i]]

(* `more` is a sequence with one put in at a place.                          *)
PutIn(more, S, s, n, e) ==
    /\ more \in Seq(S) /\ Len(more) = Len(s) + 1
    /\ \A i \in 1..(Len(s) + 1) : more[i] = IF i < n THEN s[i] ELSE IF i = n THEN e ELSE s[i - 1]

LEMMA Longer ==
    ASSUME NEW S, NEW s \in Seq(S), NEW n \in 1..(Len(s) + 1), NEW e \in S
    PROVE  PutIn(InsertAt(s, n, e), S, s, n, e)
<1> DEFINE before == SubSeq(s, 1, n - 1)
           after == SubSeq(s, n, Len(s))
           front == before \o <<e>>
<1>0. Len(s) \in Nat
  OBVIOUS
<1>1. /\ before \in Seq(S) /\ Len(before) = n - 1 /\ \A i \in 1..(n - 1) : before[i] = s[i]
      /\ after \in Seq(S) /\ Len(after) = Len(s) - n + 1
      /\ \A i \in 1..(Len(s) - n + 1) : after[i] = s[n - 1 + i]
  OBVIOUS
<1>2. InsertAt(s, n, e) = front \o after
  BY DEF InsertAt
<1> HIDE DEF before, after
<1>3. /\ front \in Seq(S) /\ Len(front) = n /\ front[n] = e /\ \A i \in 1..(n - 1) : front[i] = s[i]
  <2>1. <<e>> \in Seq(S) /\ Len(<<e>>) = 1 /\ <<e>>[1] = e
    OBVIOUS
  <2>2. /\ front \in Seq(S) /\ Len(front) = Len(before) + 1
        /\ \A i \in 1..Len(before) : front[i] = before[i]
        /\ \A i \in 1..1 : front[Len(before) + i] = <<e>>[i]
    BY <1>1, <2>1, Concatenated
  <2>3. Len(before) + 1 = n /\ front[Len(before) + 1] = e
    BY <1>0, <1>1, <2>1, <2>2
  <2> HIDE DEF front
  <2> QED BY <1>0, <1>1, <2>2, <2>3
<1> HIDE DEF front
<1>4. front \o after \in Seq(S) /\ Len(front \o after) = Len(s) + 1
  <2>1. front \o after \in Seq(S) /\ Len(front \o after) = Len(front) + Len(after)
    BY <1>1, <1>3, Concatenated
  <2> QED BY <1>0, <1>1, <1>3, <2>1
<1>5. ASSUME NEW i \in 1..(Len(s) + 1)
      PROVE  (front \o after)[i] = IF i < n THEN s[i] ELSE IF i = n THEN e ELSE s[i - 1]
  <2>1. CASE i <= n
    <3>1. i \in 1..n /\ (i < n => i \in 1..(n - 1)) /\ (i < n \/ i = n)
      BY <1>0, <2>1
    <3>2. (front \o after)[i] = front[i]
      BY <1>1, <1>3, <3>1
    <3> QED BY <1>3, <3>1, <3>2
  <2>2. CASE i > n
    <3>1. (front \o after)[i] = after[i - n]
      BY <1>1, <1>3, <1>4, <2>2
    <3>2. i - n \in 1..(Len(s) - n + 1) /\ n - 1 + (i - n) = i - 1 /\ ~(i < n) /\ i # n
      BY <1>0, <2>2
    <3>3. after[i - n] = s[i - 1]
      BY <1>1, <3>2
    <3> QED BY <3>1, <3>2, <3>3
  <2>3. i <= n \/ i > n
    <3>1. i \in Int /\ n \in Int
      BY <1>0
    <3> QED BY <3>1
  <2> QED BY <2>1, <2>2, <2>3
<1>6. PutIn(front \o after, S, s, n, e)
  BY <1>4, <1>5 DEF PutIn
<1> QED BY <1>2, <1>6, Zenon

LEMMA Moved ==
    ASSUME NEW S, NEW s \in Seq(S), NEW from \in 1..Len(s), NEW to \in 1..Len(s), NEW e \in S
    PROVE  MovedOnly(S, s, Elsewhere(s, from, to, e), from, to, e)
<1> DEFINE m == Elsewhere(s, from, to, e)
           rest == RemoveAt(s, from)
           n == Len(s)
           back(i) == IF i < from THEN i ELSE i + 1
           was == [i \in 1..n |-> IF i = to THEN from ELSE back(IF i < to THEN i ELSE i - 1)]
           now(i) == IF i = from THEN to ELSE LET k == IF i < from THEN i ELSE i - 1 IN IF k < to THEN k ELSE k + 1
<1>0. n \in Nat
  OBVIOUS
<1>1. /\ rest \in Seq(S) /\ Len(rest) = n - 1
      /\ \A i \in 1..(n - 1) : rest[i] = IF i < from THEN s[i] ELSE s[i + 1]
  BY Shorter
<1>2. m = InsertAt(rest, to, e)
  BY DEF Elsewhere, Pages!InsertAt, Pages!RemoveAt, InsertAt, RemoveAt
<1> HIDE DEF m, rest
<1>3. to \in 1..(Len(rest) + 1)
  BY <1>0, <1>1
<1>4. /\ m \in Seq(S) /\ Len(m) = Len(rest) + 1
      /\ \A i \in 1..(Len(rest) + 1) : m[i] = IF i < to THEN rest[i] ELSE IF i = to THEN e ELSE rest[i - 1]
  <2>1. PutIn(InsertAt(rest, to, e), S, rest, to, e)
    BY <1>1, <1>3, Longer, Zenon
  <2>2. PutIn(m, S, rest, to, e)
    BY <1>2, <2>1, Zenon
  <2> QED BY <2>2, Zenon DEF PutIn
<1> HIDE DEF n
<1>5. from \in 1..n /\ to \in 1..n
  BY DEF n
<1>6. Len(m) = n /\ \A i \in 1..n : m[i] = IF i < to THEN rest[i] ELSE IF i = to THEN e ELSE rest[i - 1]
  BY <1>0, <1>1, <1>4
<1>7. was \in [1..n -> 1..n] /\ was[to] = from /\ m[to] = e
  <2>1. ASSUME NEW i \in 1..n PROVE (IF i = to THEN from ELSE back(IF i < to THEN i ELSE i - 1)) \in 1..n
    BY <1>0, <1>5
  <2>2. m[to] = e
    BY <1>0, <1>5, <1>6
  <2>3. was \in [1..n -> 1..n]
    BY <2>1
  <2> QED BY <1>5, <2>2, <2>3
<1>8. ASSUME NEW i \in 1..n, i # to PROVE m[i] = s[was[i]]
  <2>1. was[i] = back(IF i < to THEN i ELSE i - 1)
    BY <1>8
  <2> HIDE DEF was
  <2>2. CASE i < to
    <3>1. i \in 1..(n - 1) /\ m[i] = rest[i]
      BY <1>0, <1>5, <1>6, <2>2
    <3> QED BY <1>1, <2>1, <2>2, <3>1
  <2>3. CASE ~(i < to)
    <3>1. i - 1 \in 1..(n - 1) /\ m[i] = rest[i - 1] /\ i - 1 + 1 = i
      BY <1>0, <1>5, <1>6, <1>8, <2>3
    <3> QED BY <1>1, <2>1, <2>3, <3>1
  <2> QED BY <2>2, <2>3
<1>9. \A i, j \in 1..n : was[i] = was[j] => i = j
  BY <1>0, <1>5
<1>10. ASSUME NEW i \in 1..n PROVE \E j \in 1..n : was[j] = i
  <2>1. now(i) \in 1..n
    BY <1>0, <1>5
  <2>2. was[now(i)] = i
    BY <1>0, <1>5, <2>1
  <2> QED BY <2>1, <2>2
<1> HIDE DEF was
<1>11. /\ m \in Seq(S) /\ Len(m) = n
       /\ \E other \in [1..n -> 1..n] :
              /\ \A i, j \in 1..n : other[i] = other[j] => i = j
              /\ \A i \in 1..n : \E j \in 1..n : other[j] = i
              /\ other[to] = from /\ m[to] = e /\ \A i \in 1..n : i # to => m[i] = s[other[i]]
  BY <1>4, <1>6, <1>7, <1>8, <1>9, <1>10
<1> QED BY <1>11 DEF n, m, MovedOnly

(* What is known of the tabs.                                                *)
LEMMA TabsHeld ==
    ASSUME PagesInv
    PROVE  /\ memory.tabs \in SoundTabs /\ memory.tabs \in Seq(TabRecords) /\ OneActive(memory.tabs)
           /\ DOMAIN memory.tabs = 1..Len(memory.tabs) /\ Len(memory.tabs) \in Nat
           /\ \A i \in 1..Len(memory.tabs) : memory.tabs[i] \in TabRecords
           /\ memory.tabs = <<>> <=> Len(memory.tabs) = 0
BY DEF PagesInv, SoundTables, SoundTabs

LEMMA CreateTabStep ==
    ASSUME PagesInv, NEW a \in PageAddresses, NEW activate \in BOOLEAN, Pages!CreateTab(a, activate) PROVE PagesInv'
<1>0. PICK tabs : tabs = memory.tabs
  OBVIOUS
<1> DEFINE active == activate \/ tabs = <<>>
           others == IF active THEN [i \in DOMAIN tabs |-> [tabs[i] EXCEPT !.active = FALSE]] ELSE tabs
           n == Len(tabs)
<1>1. PICK id \in PageTabs : Pages!Tells(Append(others, [id |-> id, address |-> a, active |-> active]))
  BY <1>0 DEF Pages!CreateTab
<1>2. Pages!Change
  BY <1>0 DEF Pages!CreateTab
<1> DEFINE new == [id |-> id, address |-> a, active |-> active]
           with == Append(others, new)
<1>3. new \in TabRecords /\ (active => new.active) /\ (~active => ~new.active)
  BY DEF TabRecords
<1>4. tabs \in Seq(TabRecords) /\ OneActive(tabs) /\ DOMAIN tabs = 1..n /\ n \in Nat /\ (tabs = <<>> <=> n = 0)
      /\ \A i \in 1..n : tabs[i] \in TabRecords
  BY <1>0, TabsHeld
<1>5. \A i \in 1..n : [tabs[i] EXCEPT !.active = FALSE] \in TabRecords /\ [tabs[i] EXCEPT !.active = FALSE].active = FALSE
  BY <1>4 DEF TabRecords
<1>6. /\ others \in Seq(TabRecords) /\ Len(others) = n
      /\ active => \A i \in 1..n : ~others[i].active
      /\ ~active => others = tabs
  <2>1. CASE active
    <3>1. others = [i \in 1..n |-> [tabs[i] EXCEPT !.active = FALSE]]
      BY <1>4, <2>1
    <3>2. others \in Seq(TabRecords) /\ Len(others) = n
      BY <1>4, <1>5, <3>1
    <3> QED BY <1>5, <2>1, <3>1, <3>2
  <2>2. CASE ~active
    BY <1>4, <2>2
  <2> QED BY <2>1, <2>2
<1> HIDE DEF new, others, active
<1>7. /\ with \in Seq(TabRecords) /\ Len(with) = n + 1 /\ with[n + 1] = new
      /\ \A i \in 1..n : with[i] = others[i]
  BY <1>3, <1>6
<1> HIDE DEF with, n
<1>8. OneActive(with)
  <2>1. CASE active
    <3>1. ASSUME NEW i \in 1..(n + 1), with[i].active PROVE i = n + 1
      <4>1. i \in 1..n \/ i = n + 1
        BY <1>4
      <4>2. ASSUME i \in 1..n PROVE FALSE
        <5>1. ~others[i].active
          BY <1>6, <2>1, <4>2
        <5>2. with[i] = others[i]
          BY <1>7, <4>2
        <5> QED BY <3>1, <5>1, <5>2
      <4> QED BY <4>1, <4>2
    <3>2. with[n + 1].active /\ n + 1 \in 1..(n + 1)
      BY <1>3, <1>4, <1>7, <2>1
    <3> QED BY <1>4, <1>7, <3>1, <3>2 DEF OneActive
  <2>2. CASE ~active
    <3>1. tabs # <<>>
      BY <2>2 DEF active
    <3>2. \A i \in 1..n : with[i] = tabs[i]
      BY <1>6, <1>7, <2>2
    <3>3. ~with[n + 1].active
      BY <1>3, <1>7, <2>2
    <3>4. \A i \in 1..(n + 1) : i \in 1..n \/ i = n + 1
      BY <1>4
    <3>5. \E i \in 1..(n + 1) : with[i].active
      <4>1. PICK i \in 1..n : tabs[i].active
        BY <1>4, <3>1 DEF OneActive, n
      <4> QED BY <1>4, <3>2, <4>1
    <3>6. \A i, j \in 1..(n + 1) : with[i].active /\ with[j].active => i = j
      BY <1>4, <3>2, <3>3, <3>4 DEF OneActive, n
    <3> QED BY <1>7, <3>5, <3>6 DEF OneActive
  <2> QED BY <2>1, <2>2
<1>9. with \in SoundTabs
  BY <1>7, <1>8 DEF SoundTabs
<1>10. Pages!Persists("tabs", with) /\ Pages!Synchronized(with)
  BY <1>1 DEF Pages!Tells, with, new, others, active
<1> QED BY <1>2, <1>9, <1>10, Followed, TabsChange

LEMMA CloseTabStep == ASSUME PagesInv, NEW i \in DOMAIN memory.tabs, Pages!CloseTab(i) PROVE PagesInv'
<1>0. PICK tabs : tabs = memory.tabs
  OBVIOUS
<1> DEFINE n == Len(tabs)
           rest == RemoveAt(tabs, i)
           left == Pages!Closed(tabs, i)
<1>1. tabs \in Seq(TabRecords) /\ OneActive(tabs) /\ n \in Nat /\ i \in 1..n
      /\ \A k \in 1..n : tabs[k] \in TabRecords
  BY <1>0, TabsHeld
<1>2. /\ rest \in Seq(TabRecords) /\ Len(rest) = n - 1
      /\ \A k \in 1..(n - 1) : rest[k] = IF k < i THEN tabs[k] ELSE tabs[k + 1]
  BY <1>1, Shorter
<1>3. left = IF tabs[i].active /\ rest # <<>>
             THEN [rest EXCEPT ![IF i < Len(rest) THEN i ELSE Len(rest)].active = TRUE] ELSE rest
  BY DEF Pages!Closed, Pages!RemoveAt, RemoveAt, Pages!Smallest
<1>4. Pages!Change /\ Pages!Persists("tabs", left) /\ Pages!Synchronized(left)
  BY <1>0 DEF Pages!CloseTab, Pages!Tells
<1> HIDE DEF rest, left, n
<1>5. left \in SoundTabs
  <2>1. CASE tabs[i].active /\ rest # <<>>
    <3> DEFINE k == IF i < n - 1 THEN i ELSE n - 1
    <3>1. left = [rest EXCEPT ![k].active = TRUE]
      BY <1>2, <1>3, <2>1
    <3>2. k \in 1..(n - 1)
      <4>1. Len(rest) # 0
        BY <1>2, <2>1
      <4> QED BY <1>1, <1>2, <4>1
    <3> HIDE DEF k
    <3>3. \A m \in 1..(n - 1) : ~rest[m].active /\ rest[m] \in TabRecords
      <4> SUFFICES ASSUME NEW m \in 1..(n - 1) PROVE ~rest[m].active /\ rest[m] \in TabRecords
        OBVIOUS
      <4>1. m \in 1..n /\ m + 1 \in 1..n /\ (m < i => m # i) /\ (~(m < i) => m + 1 # i)
        BY <1>1
      <4> QED BY <1>1, <1>2, <2>1, <4>1 DEF OneActive, n
    <3>4. /\ left \in Seq(TabRecords) /\ Len(left) = n - 1 /\ left[k].active
          /\ \A m \in 1..(n - 1) : m # k => left[m] = rest[m]
      <4>1. [rest[k] EXCEPT !.active = TRUE] \in TabRecords /\ [rest[k] EXCEPT !.active = TRUE].active
        BY <3>2, <3>3 DEF TabRecords
      <4>2. left = [rest EXCEPT ![k] = [rest[k] EXCEPT !.active = TRUE]]
        BY <3>1
      <4>3. DOMAIN rest = 1..(n - 1)
        BY <1>2
      <4> QED BY <1>1, <1>2, <3>2, <4>1, <4>2, <4>3
    <3>5. OneActive(left)
      BY <3>2, <3>3, <3>4 DEF OneActive
    <3> QED BY <3>4, <3>5 DEF SoundTabs
  <2>2. CASE ~(tabs[i].active /\ rest # <<>>)
    <3>1. left = rest
      BY <1>3, <2>2
    <3>2. ASSUME NEW k \in 1..(n - 1) PROVE \E m \in 1..n : m # i /\ rest[k] = tabs[m] /\ m = IF k < i THEN k ELSE k + 1
      <4>1. k \in 1..n /\ k + 1 \in 1..n /\ (k < i => k # i) /\ (~(k < i) => k + 1 # i)
        BY <1>1
      <4> QED BY <1>2, <4>1
    <3>3. \A k, l \in 1..(n - 1) : rest[k].active /\ rest[l].active => k = l
      <4> SUFFICES ASSUME NEW k \in 1..(n - 1), NEW l \in 1..(n - 1), rest[k].active, rest[l].active PROVE k = l
        OBVIOUS
      <4>1. (IF k < i THEN k ELSE k + 1) = (IF l < i THEN l ELSE l + 1)
        BY <1>1, <3>2 DEF OneActive, n
      <4> QED BY <1>1, <4>1
    <3>4. rest # <<>> => \E k \in 1..(n - 1) : rest[k].active
      <4> SUFFICES ASSUME rest # <<>> PROVE \E k \in 1..(n - 1) : rest[k].active
        OBVIOUS
      <4>1. ~tabs[i].active
        BY <2>2
      <4>2. PICK m \in 1..n : tabs[m].active
        BY <1>1 DEF OneActive, n
      <4>3. m # i
        BY <4>1, <4>2
      <4>4. CASE m < i
        <5>1. m \in 1..(n - 1) /\ rest[m] = tabs[m]
          BY <1>1, <1>2, <4>4
        <5> QED BY <4>2, <5>1
      <4>5. CASE ~(m < i)
        <5>1. m - 1 \in 1..(n - 1) /\ ~(m - 1 < i) /\ m - 1 + 1 = m
          BY <1>1, <4>3, <4>5
        <5>2. rest[m - 1] = tabs[m]
          BY <1>2, <5>1
        <5> QED BY <4>2, <5>1, <5>2
      <4> QED BY <4>4, <4>5
    <3> QED BY <1>2, <3>1, <3>3, <3>4 DEF SoundTabs, OneActive
  <2> QED BY <2>1, <2>2
<1> QED BY <1>4, <1>5, Followed, TabsChange

LEMMA ActivateTabStep == ASSUME PagesInv, NEW i \in DOMAIN memory.tabs, Pages!ActivateTab(i) PROVE PagesInv'
<1>0. PICK tabs : tabs = memory.tabs
  OBVIOUS
<1> DEFINE n == Len(tabs)
           turned == [k \in DOMAIN tabs |-> [tabs[k] EXCEPT !.active = (k = i)]]
<1>1. tabs \in Seq(TabRecords) /\ n \in Nat /\ i \in 1..n /\ DOMAIN tabs = 1..n
      /\ \A k \in 1..n : tabs[k] \in TabRecords
  BY <1>0, TabsHeld
<1>2. /\ Pages!Change /\ Pages!Persists("tabs", turned) /\ current' = bar[i] /\ bar' = bar /\ running
      /\ Shows(tabs)
  BY <1>0 DEF Pages!ActivateTab, Pages!Change, PagesInv
<1>3. ASSUME NEW k \in 1..n
      PROVE  /\ [tabs[k] EXCEPT !.active = (k = i)] \in TabRecords
             /\ [tabs[k] EXCEPT !.active = (k = i)].active = (k = i)
             /\ [tabs[k] EXCEPT !.active = (k = i)].id = tabs[k].id
  BY <1>1 DEF TabRecords
<1>4. turned = [k \in 1..n |-> [tabs[k] EXCEPT !.active = (k = i)]]
  BY <1>1
<1>5. turned \in Seq(TabRecords) /\ Len(turned) = n /\ DOMAIN turned = 1..n
  BY <1>1, <1>3, <1>4
<1>6. \A k \in 1..n : turned[k].active = (k = i) /\ turned[k].id = tabs[k].id
  BY <1>3, <1>4
<1> HIDE DEF turned, n
<1>7. OneActive(turned)
  BY <1>1, <1>5, <1>6 DEF OneActive
<1>8. turned \in SoundTabs
  BY <1>5, <1>7 DEF SoundTabs
<1>9. Pages!Ids(turned) = Pages!Ids(tabs)
  BY <1>1, <1>5, <1>6 DEF Pages!Ids
<1>10. bar[i] = tabs[i].id
  BY <1>1, <1>2 DEF Shows, Pages!Ids
<1>11. Shows(turned)'
  BY <1>2, <1>5, <1>6, <1>9, <1>10 DEF Shows
<1> QED BY <1>2, <1>8, <1>11, TabsChange

LEMMA MoveTabStep ==
    ASSUME PagesInv, NEW from \in DOMAIN memory.tabs, NEW to \in DOMAIN memory.tabs, Pages!MoveTab(from, to)
    PROVE  PagesInv'
<1>0. PICK tabs : tabs = memory.tabs
  OBVIOUS
<1> DEFINE n == Len(tabs)
           moved == Elsewhere(tabs, from, to, tabs[from])
<1>1. tabs \in Seq(TabRecords) /\ OneActive(tabs) /\ n \in Nat /\ from \in 1..n /\ to \in 1..n
      /\ tabs[from] \in TabRecords /\ (tabs = <<>> <=> n = 0)
  BY <1>0, TabsHeld
<1>2. /\ moved \in Seq(TabRecords) /\ Len(moved) = n
      /\ \E was \in [1..n -> 1..n] :
             /\ \A i, j \in 1..n : was[i] = was[j] => i = j
             /\ \A i \in 1..n : \E j \in 1..n : was[j] = i
             /\ was[to] = from /\ moved[to] = tabs[from] /\ \A i \in 1..n : i # to => moved[i] = tabs[was[i]]
  <2> DEFINE e == tabs[from]
  <2>1. e \in TabRecords /\ moved = Elsewhere(tabs, from, to, e)
    BY <1>1
  <2> HIDE DEF e
  <2>2. MovedOnly(TabRecords, tabs, Elsewhere(tabs, from, to, e), from, to, e)
    BY <1>1, <2>1, Moved
  <2> HIDE DEF moved
  <2> QED BY <2>1, <2>2 DEF MovedOnly, e, n
<1>3. /\ Pages!Change /\ Pages!Persists("tabs", moved) /\ bar' = Pages!Ids(moved) /\ UNCHANGED current
      /\ Shows(tabs)
  BY <1>0 DEF Pages!MoveTab, Pages!Follows, Pages!Change, PagesInv, Elsewhere
<1> HIDE DEF moved, n
<1>4. PICK was \in [1..n -> 1..n] :
          /\ \A i, j \in 1..n : was[i] = was[j] => i = j
          /\ \A i \in 1..n : \E j \in 1..n : was[j] = i
          /\ was[to] = from /\ moved[to] = tabs[from] /\ \A i \in 1..n : i # to => moved[i] = tabs[was[i]]
  BY <1>2
<1>5. \A i \in 1..n : moved[i] = tabs[was[i]] /\ was[i] \in 1..n
  BY <1>4
<1>6. OneActive(moved)
  <2>1. \A i, j \in 1..n : moved[i].active /\ moved[j].active => i = j
    <3>1. \A i, j \in 1..n : tabs[i].active /\ tabs[j].active => i = j
      BY <1>1 DEF OneActive, n
    <3> SUFFICES ASSUME NEW i \in 1..n, NEW j \in 1..n, moved[i].active, moved[j].active PROVE i = j
      OBVIOUS
    <3>2. was[i] = was[j]
      BY <1>5, <3>1
    <3> QED BY <1>4, <3>2
  <2>2. \E i \in 1..n : moved[i].active
    <3>1. PICK k \in 1..n : tabs[k].active
      BY <1>1 DEF OneActive, n
    <3>2. PICK j \in 1..n : was[j] = k
      BY <1>4
    <3> QED BY <1>5, <3>1, <3>2
  <2>3. Len(moved) = n
    BY <1>2
  <2>4. \A i, j \in 1..Len(moved) : moved[i].active /\ moved[j].active => i = j
    BY <2>1, <2>3, Zenon
  <2>5. \E i \in 1..Len(moved) : moved[i].active
    BY <2>2, <2>3, Zenon
  <2> QED BY <2>4, <2>5, Zenon DEF OneActive
<1>7. Shows(moved)'
  <2>1. Len(moved) = n
    BY <1>2
  <2>2. bar' = Pages!Ids(moved) /\ current' = current
    BY <1>3
  <2>3. \A i \in 1..n : tabs[i].active => current = tabs[i].id
    BY <1>3 DEF Shows, n
  <2>4. ASSUME NEW i \in 1..n, moved[i].active PROVE current' = moved[i].id
    BY <1>5, <2>2, <2>3, <2>4
  <2> QED BY <2>1, <2>2, <2>4 DEF Shows
<1>8. moved \in SoundTabs
  BY <1>2, <1>6 DEF SoundTabs
<1> QED BY <1>3, <1>7, <1>8, TabsChange

LEMMA UpdateTabUrlStep ==
    ASSUME PagesInv, NEW i \in DOMAIN memory.tabs, NEW a \in PageAddresses, Pages!UpdateTabUrl(i, a) PROVE PagesInv'
<1>0. PICK tabs : tabs = memory.tabs
  OBVIOUS
<1> DEFINE n == Len(tabs)
           there == [tabs EXCEPT ![i].address = a]
<1>1. tabs \in Seq(TabRecords) /\ OneActive(tabs) /\ n \in Nat /\ i \in 1..n /\ DOMAIN tabs = 1..n
      /\ \A k \in 1..n : tabs[k] \in TabRecords
  BY <1>0, TabsHeld
<1>2. /\ Pages!Change /\ Pages!Persists("tabs", there) /\ bar' = Pages!Ids(there) /\ UNCHANGED current
      /\ Shows(tabs)
  BY <1>0 DEF Pages!UpdateTabUrl, Pages!Follows, Pages!Change, PagesInv
<1>3. /\ [tabs[i] EXCEPT !.address = a] \in TabRecords
      /\ [tabs[i] EXCEPT !.address = a].active = tabs[i].active /\ [tabs[i] EXCEPT !.address = a].id = tabs[i].id
  BY <1>1 DEF TabRecords
<1>4. there = [tabs EXCEPT ![i] = [tabs[i] EXCEPT !.address = a]]
  OBVIOUS
<1>5. /\ there \in Seq(TabRecords) /\ Len(there) = n
      /\ \A k \in 1..n : there[k].active = tabs[k].active /\ there[k].id = tabs[k].id
  BY <1>1, <1>3, <1>4
<1> HIDE DEF there, n
<1>6. OneActive(there)
  BY <1>1, <1>5 DEF OneActive, n
<1>7. Shows(there)'
  BY <1>2, <1>5 DEF Shows, n
<1>8. there \in SoundTabs
  BY <1>5, <1>6 DEF SoundTabs
<1> QED BY <1>2, <1>7, <1>8, TabsChange

(* What is known of the bookmarks.                                            *)
LEMMA MarksHeld ==
    ASSUME PagesInv
    PROVE  /\ memory.marks.groups \in Seq(BookmarkGroups) /\ memory.marks.bookmarks \in Seq(BookmarkRecords)
           /\ Grouped(memory.marks.groups, memory.marks.bookmarks)
           /\ memory.marks = [groups |-> memory.marks.groups, bookmarks |-> memory.marks.bookmarks]
BY DEF PagesInv, SoundTables, SoundMarks, MarkRecords

LEMMA MarksOf ==
    ASSUME NEW groups \in Seq(BookmarkGroups), NEW bookmarks \in Seq(BookmarkRecords), Grouped(groups, bookmarks)
    PROVE  [groups |-> groups, bookmarks |-> bookmarks] \in SoundMarks
BY DEF SoundMarks, MarkRecords

LEMMA KnownMeans ==
    ASSUME NEW groups \in Seq(BookmarkGroups), groups = memory.marks.groups, NEW g, Pages!Known(g)
    PROVE  g = NoGroup \/ \E k \in 1..Len(groups) : groups[k] = g
<1>1. g = NoGroup \/ g \in Pages!ToSet(groups)
  BY DEF Pages!Known, Pages!marks
<1>2. DOMAIN groups = 1..Len(groups)
  OBVIOUS
<1> QED BY <1>1, <1>2 DEF Pages!ToSet, ToSet

LEMMA CreateBookmarkGroupStep == ASSUME PagesInv, Pages!CreateBookmarkGroup PROVE PagesInv'
<1>0. PICK groups, bookmarks :
          /\ groups \in Seq(BookmarkGroups) /\ bookmarks \in Seq(BookmarkRecords) /\ Grouped(groups, bookmarks)
          /\ memory.marks = [groups |-> groups, bookmarks |-> bookmarks]
  BY MarksHeld
<1>1. PICK g \in BookmarkGroups :
          Pages!Change /\ Pages!Keeps([groups |-> Append(groups, g), bookmarks |-> bookmarks])
  <2>1. PICK g \in BookmarkGroups : Pages!Change /\ Pages!Keeps([memory.marks EXCEPT !.groups = Append(@, g)])
    BY DEF Pages!CreateBookmarkGroup, Pages!marks
  <2> DEFINE more == Append(groups, g)
  <2>2. more = Append(memory.marks.groups, g)
    BY <1>0
  <2> HIDE DEF more
  <2>3. [memory.marks EXCEPT !.groups = Append(@, g)] = [memory.marks EXCEPT !.groups = more]
    BY <2>2, Zenon
  <2>4. [memory.marks EXCEPT !.groups = more] = [groups |-> more, bookmarks |-> bookmarks]
    BY <1>0
  <2> QED BY <2>1, <2>3, <2>4 DEF more
<1> DEFINE more == Append(groups, g)
<1>2. /\ more \in Seq(BookmarkGroups) /\ Len(more) = Len(groups) + 1 /\ Len(groups) \in Nat
      /\ \A k \in 1..Len(groups) : more[k] = groups[k]
  BY <1>0
<1>3. Pages!Keeps([groups |-> more, bookmarks |-> bookmarks])
  BY <1>1
<1> HIDE DEF more
<1>4. \A k \in 1..Len(groups) : k \in 1..Len(more)
  BY <1>2
<1>5. Grouped(more, bookmarks)
  BY <1>0, <1>2, <1>4 DEF Grouped
<1>6. [groups |-> more, bookmarks |-> bookmarks] \in SoundMarks
  BY <1>0, <1>2, <1>5, MarksOf
<1> QED BY <1>1, <1>3, <1>6, MarksChange

LEMMA RemoveBookmarkGroupStep ==
    ASSUME PagesInv, NEW g \in Pages!ToSet(Pages!marks.groups), Pages!RemoveBookmarkGroup(g) PROVE PagesInv'
<1>0. PICK groups, bookmarks :
          /\ groups \in Seq(BookmarkGroups) /\ bookmarks \in Seq(BookmarkRecords) /\ Grouped(groups, bookmarks)
          /\ memory.marks = [groups |-> groups, bookmarks |-> bookmarks]
  BY MarksHeld
<1>1. PICK i \in 1..Len(groups) :
          /\ groups[i] = g
          /\ Pages!Keeps([groups |-> RemoveAt(groups, i), bookmarks |-> Pages!Ungrouped(bookmarks, g)])
  <2>1. memory.marks.groups = groups /\ memory.marks.bookmarks = bookmarks /\ DOMAIN groups = 1..Len(groups)
    BY <1>0
  <2>2. \E i \in DOMAIN memory.marks.groups :
           /\ memory.marks.groups[i] = g
           /\ Pages!Keeps([groups |-> RemoveAt(memory.marks.groups, i),
                           bookmarks |-> Pages!Ungrouped(memory.marks.bookmarks, g)])
    BY DEF Pages!RemoveBookmarkGroup, Pages!marks, Pages!RemoveAt, RemoveAt
  <2> QED BY <2>1, <2>2
<1> DEFINE rest == RemoveAt(groups, i)
           loose == Pages!Ungrouped(bookmarks, g)
<1>2. /\ rest \in Seq(BookmarkGroups) /\ Len(rest) = Len(groups) - 1 /\ Len(groups) \in Nat
      /\ \A k \in 1..(Len(groups) - 1) : rest[k] = IF k < i THEN groups[k] ELSE groups[k + 1]
  BY <1>0, Shorter
<1>3. Pages!Change /\ Pages!Keeps([groups |-> rest, bookmarks |-> loose])
  BY <1>1 DEF Pages!RemoveBookmarkGroup
<1>4. /\ loose \in Seq(BookmarkRecords) /\ Len(loose) = Len(bookmarks)
      /\ \A k \in 1..Len(bookmarks) : loose[k].group = IF bookmarks[k].group = g THEN NoGroup ELSE bookmarks[k].group
  <2>1. loose = [k \in 1..Len(bookmarks) |-> [bookmarks[k] EXCEPT !.group = IF @ = g THEN NoGroup ELSE @]]
    BY <1>0 DEF Pages!Ungrouped
  <2>2. ASSUME NEW k \in 1..Len(bookmarks)
        PROVE  /\ [bookmarks[k] EXCEPT !.group = IF @ = g THEN NoGroup ELSE @] \in BookmarkRecords
               /\ [bookmarks[k] EXCEPT !.group = IF @ = g THEN NoGroup ELSE @].group
                      = IF bookmarks[k].group = g THEN NoGroup ELSE bookmarks[k].group
    <3>1. bookmarks[k] \in BookmarkRecords
      BY <1>0
    <3> QED BY <3>1 DEF BookmarkRecords
  <2>3. Len(bookmarks) \in Nat
    BY <1>0
  <2> DEFINE f == [k \in 1..Len(bookmarks) |-> [bookmarks[k] EXCEPT !.group = IF @ = g THEN NoGroup ELSE @]]
  <2>4. f \in Seq(BookmarkRecords) /\ Len(f) = Len(bookmarks)
    <3> DEFINE e(k) == [bookmarks[k] EXCEPT !.group = IF @ = g THEN NoGroup ELSE @]
    <3>1. f = [k \in 1..Len(bookmarks) |-> e(k)] /\ \A k \in 1..Len(bookmarks) : e(k) \in BookmarkRecords
      BY <2>2
    <3> HIDE DEF e, f
    <3> QED BY <2>3, <3>1
  <2> QED BY <2>1, <2>2, <2>4
<1> HIDE DEF rest, loose
<1>5. ASSUME NEW k \in 1..Len(groups), groups[k] # g PROVE \E j \in 1..Len(rest) : rest[j] = groups[k]
  <2>1. k # i
    BY <1>1, <1>5
  <2>2. CASE k < i
    <3>1. k \in 1..(Len(groups) - 1) /\ rest[k] = groups[k]
      BY <1>2, <2>2
    <3> QED BY <1>2, <3>1
  <2>3. CASE ~(k < i)
    <3>1. k - 1 \in 1..(Len(groups) - 1) /\ ~(k - 1 < i) /\ k - 1 + 1 = k
      BY <1>2, <2>1, <2>3
    <3>2. rest[k - 1] = groups[k]
      BY <1>2, <3>1
    <3> QED BY <1>2, <3>1, <3>2
  <2> QED BY <2>2, <2>3
<1>6. Grouped(rest, loose)
  <2> SUFFICES ASSUME NEW k \in 1..Len(loose), loose[k].group # NoGroup
               PROVE  \E j \in 1..Len(rest) : rest[j] = loose[k].group
    BY DEF Grouped
  <2>1. k \in 1..Len(bookmarks) /\ loose[k].group = bookmarks[k].group /\ bookmarks[k].group # g
    BY <1>4
  <2>2. PICK j \in 1..Len(groups) : groups[j] = bookmarks[k].group
    BY <1>0, <2>1 DEF Grouped
  <2> QED BY <1>5, <2>1, <2>2
<1>7. [groups |-> rest, bookmarks |-> loose] \in SoundMarks
  BY <1>2, <1>4, <1>6, MarksOf
<1> QED BY <1>3, <1>7, MarksChange

LEMMA CreateBookmarkStep ==
    ASSUME PagesInv, NEW a \in PageAddresses, NEW g \in BookmarkGroups \cup {NoGroup}, Pages!CreateBookmark(a, g)
    PROVE  PagesInv'
<1>0. PICK groups, bookmarks :
          /\ groups \in Seq(BookmarkGroups) /\ bookmarks \in Seq(BookmarkRecords) /\ Grouped(groups, bookmarks)
          /\ memory.marks = [groups |-> groups, bookmarks |-> bookmarks]
  BY MarksHeld
<1>1. PICK id \in Bookmarks :
          /\ Pages!Change
          /\ Pages!Keeps([groups |-> groups, bookmarks |-> Append(bookmarks, [id |-> id, group |-> g, address |-> a])])
  <2>1. PICK id \in Bookmarks :
            /\ Pages!Change
            /\ Pages!Keeps([memory.marks EXCEPT !.bookmarks = Append(@, [id |-> id, group |-> g, address |-> a])])
    BY DEF Pages!CreateBookmark, Pages!marks
  <2> DEFINE e == [id |-> id, group |-> g, address |-> a]
           more == Append(bookmarks, e)
  <2>2. more = Append(memory.marks.bookmarks, e)
    BY <1>0
  <2> HIDE DEF e, more
  <2>3. [memory.marks EXCEPT !.bookmarks = Append(@, e)] = [memory.marks EXCEPT !.bookmarks = more]
    BY <2>2, Zenon
  <2>4. [memory.marks EXCEPT !.bookmarks = more] = [groups |-> groups, bookmarks |-> more]
    BY <1>0
  <2> QED BY <2>1, <2>3, <2>4 DEF e, more
<1> DEFINE new == [id |-> id, group |-> g, address |-> a]
           more == Append(bookmarks, new)
<1>2. new \in BookmarkRecords /\ new.group = g
  BY DEF BookmarkRecords
<1>3. g = NoGroup \/ \E k \in 1..Len(groups) : groups[k] = g
  <2>1. groups = memory.marks.groups /\ Pages!Known(g)
    BY <1>0 DEF Pages!CreateBookmark
  <2> QED BY <1>0, <2>1, KnownMeans
<1>4. Pages!Keeps([groups |-> groups, bookmarks |-> more])
  BY <1>1
<1> HIDE DEF new
<1>5. /\ more \in Seq(BookmarkRecords) /\ Len(more) = Len(bookmarks) + 1 /\ Len(bookmarks) \in Nat
      /\ more[Len(bookmarks) + 1] = new /\ \A k \in 1..Len(bookmarks) : more[k] = bookmarks[k]
  BY <1>0, <1>2
<1> HIDE DEF more
<1>6. Grouped(groups, more)
  <2> SUFFICES ASSUME NEW k \in 1..Len(more)
               PROVE  more[k].group = NoGroup \/ \E j \in 1..Len(groups) : groups[j] = more[k].group
    BY DEF Grouped
  <2>1. k \in 1..Len(bookmarks) \/ k = Len(bookmarks) + 1
    BY <1>5
  <2> QED BY <1>0, <1>2, <1>3, <1>5, <2>1 DEF Grouped
<1>7. [groups |-> groups, bookmarks |-> more] \in SoundMarks
  BY <1>0, <1>5, <1>6, MarksOf
<1> QED BY <1>1, <1>4, <1>7, MarksChange

LEMMA UpdateBookmarkStep ==
    ASSUME PagesInv, NEW i \in DOMAIN Pages!marks.bookmarks, NEW a \in PageAddresses,
           NEW g \in BookmarkGroups \cup {NoGroup}, Pages!UpdateBookmark(i, a, g)
    PROVE  PagesInv'
<1>0. PICK groups, bookmarks :
          /\ groups \in Seq(BookmarkGroups) /\ bookmarks \in Seq(BookmarkRecords) /\ Grouped(groups, bookmarks)
          /\ memory.marks = [groups |-> groups, bookmarks |-> bookmarks]
  BY MarksHeld
<1> DEFINE new == [bookmarks[i] EXCEPT !.address = a, !.group = g]
           with == [bookmarks EXCEPT ![i] = new]
<1>1. i \in 1..Len(bookmarks) /\ bookmarks[i] \in BookmarkRecords
  BY <1>0 DEF Pages!marks
<1>2. new \in BookmarkRecords /\ new.group = g
  BY <1>1 DEF BookmarkRecords
<1>3. Pages!Change /\ Pages!Keeps([groups |-> groups, bookmarks |-> with])
  <2>1. /\ Pages!Change
        /\ Pages!Keeps([memory.marks EXCEPT !.bookmarks[i] = [memory.marks.bookmarks[i] EXCEPT !.address = a, !.group = g]])
    BY DEF Pages!UpdateBookmark, Pages!marks
  <2>2. memory.marks.bookmarks[i] = bookmarks[i]
    BY <1>0
  <2> HIDE DEF new
  <2>3. with = [memory.marks.bookmarks EXCEPT ![i] = new]
    BY <1>0
  <2> HIDE DEF with
  <2>4. [memory.marks EXCEPT !.bookmarks[i] = new] = [memory.marks EXCEPT !.bookmarks = with]
    BY <2>3, Zenon
  <2>5. [memory.marks EXCEPT !.bookmarks = with] = [groups |-> groups, bookmarks |-> with]
    BY <1>0
  <2> QED BY <2>1, <2>2, <2>4, <2>5 DEF new
<1>4. g = NoGroup \/ \E k \in 1..Len(groups) : groups[k] = g
  <2>1. groups = memory.marks.groups /\ Pages!Known(g)
    BY <1>0 DEF Pages!UpdateBookmark
  <2> QED BY <1>0, <2>1, KnownMeans
<1> HIDE DEF new
<1>5. /\ with \in Seq(BookmarkRecords) /\ Len(with) = Len(bookmarks) /\ with[i] = new
      /\ \A k \in 1..Len(bookmarks) : k # i => with[k] = bookmarks[k]
  BY <1>0, <1>1, <1>2
<1> HIDE DEF with
<1>6. Grouped(groups, with)
  <2> SUFFICES ASSUME NEW k \in 1..Len(with)
               PROVE  with[k].group = NoGroup \/ \E j \in 1..Len(groups) : groups[j] = with[k].group
    BY DEF Grouped
  <2> QED BY <1>0, <1>2, <1>4, <1>5 DEF Grouped
<1>7. [groups |-> groups, bookmarks |-> with] \in SoundMarks
  BY <1>0, <1>5, <1>6, MarksOf
<1> QED BY <1>3, <1>7, MarksChange

LEMMA RemoveBookmarkStep ==
    ASSUME PagesInv, NEW i \in DOMAIN Pages!marks.bookmarks, Pages!RemoveBookmark(i) PROVE PagesInv'
<1>0. PICK groups, bookmarks :
          /\ groups \in Seq(BookmarkGroups) /\ bookmarks \in Seq(BookmarkRecords) /\ Grouped(groups, bookmarks)
          /\ memory.marks = [groups |-> groups, bookmarks |-> bookmarks]
  BY MarksHeld
<1> DEFINE rest == RemoveAt(bookmarks, i)
<1>1. i \in 1..Len(bookmarks) /\ Len(bookmarks) \in Nat
  BY <1>0 DEF Pages!marks
<1>2. /\ rest \in Seq(BookmarkRecords) /\ Len(rest) = Len(bookmarks) - 1
      /\ \A k \in 1..(Len(bookmarks) - 1) : rest[k] = IF k < i THEN bookmarks[k] ELSE bookmarks[k + 1]
  BY <1>0, <1>1, Shorter
<1>3. Pages!Change /\ Pages!Keeps([groups |-> groups, bookmarks |-> rest])
  <2>1. Pages!Change /\ Pages!Keeps([memory.marks EXCEPT !.bookmarks = RemoveAt(@, i)])
    BY DEF Pages!RemoveBookmark, Pages!marks, Pages!RemoveAt, RemoveAt
  <2>2. [memory.marks EXCEPT !.bookmarks = RemoveAt(@, i)] = [groups |-> groups, bookmarks |-> rest]
    BY <1>0
  <2> QED BY <2>1, <2>2
<1> HIDE DEF rest
<1>4. Grouped(groups, rest)
  <2> SUFFICES ASSUME NEW k \in 1..Len(rest)
               PROVE  rest[k].group = NoGroup \/ \E j \in 1..Len(groups) : groups[j] = rest[k].group
    BY DEF Grouped
  <2>1. PICK m \in 1..Len(bookmarks) : rest[k] = bookmarks[m]
    <3>1. k \in 1..(Len(bookmarks) - 1) /\ k \in 1..Len(bookmarks) /\ k + 1 \in 1..Len(bookmarks)
      BY <1>1, <1>2
    <3> QED BY <1>2, <3>1
  <2> QED BY <1>0, <2>1 DEF Grouped
<1>5. [groups |-> groups, bookmarks |-> rest] \in SoundMarks
  BY <1>0, <1>2, <1>4, MarksOf
<1> QED BY <1>3, <1>5, MarksChange

LEMMA DropBookmarkStep ==
    ASSUME PagesInv, NEW i \in DOMAIN Pages!marks.bookmarks, NEW j \in DOMAIN Pages!marks.bookmarks,
           NEW g \in BookmarkGroups \cup {NoGroup}, Pages!DropBookmark(i, j, g)
    PROVE  PagesInv'
<1>0. PICK groups, bookmarks :
          /\ groups \in Seq(BookmarkGroups) /\ bookmarks \in Seq(BookmarkRecords) /\ Grouped(groups, bookmarks)
          /\ memory.marks = [groups |-> groups, bookmarks |-> bookmarks]
  BY MarksHeld
<1> DEFINE new == [bookmarks[i] EXCEPT !.group = g]
           dropped == Elsewhere(bookmarks, i, j, new)
<1>1. i \in 1..Len(bookmarks) /\ j \in 1..Len(bookmarks) /\ bookmarks[i] \in BookmarkRecords
  BY <1>0 DEF Pages!marks
<1>2. new \in BookmarkRecords /\ new.group = g
  BY <1>1 DEF BookmarkRecords
<1>3. Pages!Change /\ Pages!Keeps([groups |-> groups, bookmarks |-> dropped])
  BY <1>0 DEF Pages!DropBookmark, Pages!marks, Elsewhere
<1>4. g = NoGroup \/ \E k \in 1..Len(groups) : groups[k] = g
  <2>1. groups = memory.marks.groups /\ Pages!Known(g)
    BY <1>0 DEF Pages!DropBookmark
  <2> QED BY <1>0, <2>1, KnownMeans
<1> HIDE DEF new
<1>5. MovedOnly(BookmarkRecords, bookmarks, dropped, i, j, new)
  BY <1>0, <1>1, <1>2, Moved
<1> HIDE DEF dropped
<1>6. /\ dropped \in Seq(BookmarkRecords) /\ Len(dropped) = Len(bookmarks) /\ dropped[j] = new
      /\ \A k \in 1..Len(bookmarks) : k # j => \E m \in 1..Len(bookmarks) : dropped[k] = bookmarks[m]
  BY <1>5 DEF MovedOnly
<1>7. Grouped(groups, dropped)
  <2> SUFFICES ASSUME NEW k \in 1..Len(dropped)
               PROVE  dropped[k].group = NoGroup \/ \E m \in 1..Len(groups) : groups[m] = dropped[k].group
    BY DEF Grouped
  <2> QED BY <1>0, <1>2, <1>4, <1>6 DEF Grouped
<1>8. [groups |-> groups, bookmarks |-> dropped] \in SoundMarks
  BY <1>0, <1>6, <1>7, MarksOf
<1> QED BY <1>3, <1>8, MarksChange

LEMMA DropGroupStep ==
    ASSUME PagesInv, NEW i \in DOMAIN Pages!marks.groups, NEW j \in DOMAIN Pages!marks.groups, Pages!DropGroup(i, j)
    PROVE  PagesInv'
<1>0. PICK groups, bookmarks :
          /\ groups \in Seq(BookmarkGroups) /\ bookmarks \in Seq(BookmarkRecords) /\ Grouped(groups, bookmarks)
          /\ memory.marks = [groups |-> groups, bookmarks |-> bookmarks]
  BY MarksHeld
<1>1. PICK g : g = groups[i]
  OBVIOUS
<1> DEFINE dropped == Elsewhere(groups, i, j, g)
<1>2. i \in 1..Len(groups) /\ j \in 1..Len(groups) /\ g \in BookmarkGroups
  BY <1>0, <1>1 DEF Pages!marks
<1>3. Pages!Change /\ Pages!Keeps([groups |-> dropped, bookmarks |-> bookmarks])
  BY <1>0, <1>1 DEF Pages!DropGroup, Pages!marks, Elsewhere
<1>4. MovedOnly(BookmarkGroups, groups, dropped, i, j, g)
  BY <1>0, <1>2, Moved
<1> HIDE DEF dropped
<1>5. dropped \in Seq(BookmarkGroups) /\ Len(dropped) = Len(groups)
  BY <1>4 DEF MovedOnly
<1>6. PICK was \in [1..Len(groups) -> 1..Len(groups)] :
          /\ \A k \in 1..Len(groups) : \E m \in 1..Len(groups) : was[m] = k
          /\ was[j] = i /\ dropped[j] = g /\ \A k \in 1..Len(groups) : k # j => dropped[k] = groups[was[k]]
  BY <1>4 DEF MovedOnly
<1>7. \A k \in 1..Len(groups) : dropped[k] = groups[was[k]]
  BY <1>1, <1>6
<1>8. ASSUME NEW k \in 1..Len(groups) PROVE \E m \in 1..Len(dropped) : dropped[m] = groups[k]
  <2>1. PICK m \in 1..Len(groups) : was[m] = k
    BY <1>6
  <2> QED BY <1>5, <1>7, <2>1
<1>9. Grouped(dropped, bookmarks)
  <2> SUFFICES ASSUME NEW k \in 1..Len(bookmarks), bookmarks[k].group # NoGroup
               PROVE  \E m \in 1..Len(dropped) : dropped[m] = bookmarks[k].group
    BY DEF Grouped
  <2>1. PICK m \in 1..Len(groups) : groups[m] = bookmarks[k].group
    BY <1>0 DEF Grouped
  <2> QED BY <1>8, <2>1
<1>10. [groups |-> dropped, bookmarks |-> bookmarks] \in SoundMarks
  BY <1>0, <1>5, <1>9, MarksOf
<1> QED BY <1>3, <1>10, MarksChange

(* The writes and what becomes of them.                                      *)
LEMMA EitherTable ==
    ASSUME NEW write \in SoundWrites
    PROVE  \/ write.table = "tabs" /\ write.value \in SoundTabs
           \/ write.table = "marks" /\ write.value \in SoundMarks
BY DEF SoundWrites

LEMMA RunWriteStep == ASSUME PagesInv, Pages!RunWrite PROVE PagesInv'
<1>0. PICK write : write = Head(browserWrites)
  OBVIOUS
<1>1. browserWrites \in Seq(SoundWrites) /\ results \in Seq(SoundResults) /\ tables \in SoundTables
  BY DEF PagesInv
<1>2. browserWrites # <<>> /\ browserWrites' = Tail(browserWrites)
  BY DEF Pages!RunWrite
<1>3. PICK done \in BOOLEAN :
          /\ tables' = IF done THEN [tables EXCEPT ![write.table] = write.value] ELSE tables
          /\ results' = IF running THEN Append(results, [write |-> write, done |-> done]) ELSE results
  BY <1>0 DEF Pages!RunWrite
<1>4. UNCHANGED <<running, memory, committed, revision, bar, current>>
  BY DEF Pages!RunWrite, Pages!view
<1>5. write \in SoundWrites /\ browserWrites' \in Seq(SoundWrites)
  <2> HIDE DEF SoundWrites
  <2> QED BY <1>0, <1>1, <1>2
<1>6. tables' \in SoundTables
  <2>1. \/ write.table = "tabs" /\ write.value \in SoundTabs
        \/ write.table = "marks" /\ write.value \in SoundMarks
    BY <1>5, EitherTable
  <2>2. tables = [tabs |-> tables.tabs, marks |-> tables.marks] /\ tables.tabs \in SoundTabs /\ tables.marks \in SoundMarks
    BY <1>1 DEF SoundTables
  <2> QED BY <1>1, <1>3, <2>1, <2>2 DEF SoundTables
<1>7. results' \in Seq(SoundResults) /\ (~running => results' = results)
  <2> DEFINE result == [write |-> write, done |-> done]
  <2>1. result \in SoundResults
    BY <1>5 DEF SoundResults
  <2>2. results' = IF running THEN Append(results, result) ELSE results
    BY <1>3
  <2> HIDE DEF result
  <2> QED BY <1>1, <2>1, <2>2
<1>8. Shows(memory.tabs)' <=> Shows(memory.tabs)
  BY <1>4 DEF Shows
<1> QED BY <1>4, <1>5, <1>6, <1>7, <1>8 DEF PagesInv

LEMMA HearResultStep == ASSUME PagesInv, Pages!HearResult PROVE PagesInv'
<1>0. PICK result, done : result = Head(results).write /\ done = Head(results).done
  OBVIOUS
<1> DEFINE table == result.table
           newest == done /\ result.revision > committedRevision[table]
<1>1. /\ memory \in SoundTables /\ committed \in SoundTables /\ results \in Seq(SoundResults)
      /\ running \/ results = <<>>
  BY DEF PagesInv
<1>2. /\ results # <<>> /\ results' = Tail(results) /\ UNCHANGED <<running, revision, browserWrites, tables>>
      /\ committed' = IF newest THEN [committed EXCEPT ![table] = result.value] ELSE committed
  BY <1>0 DEF Pages!HearResult
<1>3. Pages!TakenBack(table) \/ UNCHANGED <<memory, bar, current>>
  BY <1>0 DEF Pages!HearResult, Pages!view
<1>4. result \in SoundWrites /\ results' \in Seq(SoundResults)
  <2>1. Head(results) \in SoundResults /\ results' \in Seq(SoundResults)
    <3> HIDE DEF SoundResults
    <3> QED BY <1>1, <1>2
  <2> QED BY <1>0, <2>1 DEF SoundResults
<1>5. \/ table = "tabs" /\ result.value \in SoundTabs
      \/ table = "marks" /\ result.value \in SoundMarks
  BY <1>4, EitherTable
<1> HIDE DEF table, newest
<1>6. committed' \in SoundTables
  BY <1>1, <1>2, <1>5 DEF SoundTables
<1>7. memory' \in SoundTables /\ Shows(memory.tabs)'
  <2>1. CASE Pages!TakenBack(table) /\ table = "tabs"
    <3>1. memory' = [memory EXCEPT !["tabs"] = committed["tabs"]] /\ Pages!Synchronized(committed.tabs)
      BY <2>1 DEF Pages!TakenBack
    <3>2. PICK tabs \in SoundTabs : tabs = committed.tabs
      BY <1>1 DEF SoundTables
    <3>3. memory' \in SoundTables /\ memory'.tabs = tabs
      BY <1>1, <3>1, <3>2 DEF SoundTables
    <3>4. Shows(tabs)'
      BY <3>1, <3>2, Followed
    <3> QED BY <3>3, <3>4 DEF Shows
  <2>2. CASE Pages!TakenBack(table) /\ table = "marks"
    <3>1. memory' = [memory EXCEPT !["marks"] = committed["marks"]] /\ UNCHANGED <<bar, current>>
      BY <2>2 DEF Pages!TakenBack, Pages!view
    <3>2. memory' \in SoundTables /\ memory'.tabs = memory.tabs
      BY <1>1, <3>1 DEF SoundTables
    <3>3. Shows(memory.tabs)
      BY <1>1, <1>2 DEF PagesInv
    <3> QED BY <3>1, <3>2, <3>3 DEF Shows
  <2>3. CASE UNCHANGED <<memory, bar, current>>
    <3>1. Shows(memory.tabs)
      BY <1>1, <1>2 DEF PagesInv
    <3> QED BY <1>1, <2>3, <3>1 DEF Shows
  <2> QED BY <1>3, <1>5, <2>1, <2>2, <2>3
<1> QED BY <1>1, <1>2, <1>4, <1>6, <1>7 DEF PagesInv

(* The plugin coming up and going down.                                      *)
LEMMA StartPagesStep == ASSUME PagesInv, Pages!Start PROVE PagesInv'
<1>0. PICK id, a : id = (CHOOSE x \in PageTabs : TRUE) /\ a = (CHOOSE x \in PageAddresses \ {} : TRUE)
  OBVIOUS
<1>1. PICK tabs : tabs = IF tables.tabs = <<>> THEN Pages!FirstTabs(id, a) ELSE tables.tabs
  OBVIOUS
<1>2. tables \in SoundTables
  BY DEF PagesInv
<1>3. /\ running' = TRUE /\ tables' = [tables EXCEPT !.tabs = tabs] /\ memory' = tables' /\ committed' = tables'
      /\ Pages!Synchronized(tabs) /\ UNCHANGED <<revision, browserWrites, results>>
  BY <1>0, <1>1 DEF Pages!Start
<1>4. tabs \in SoundTabs
  <2>1. CASE tables.tabs = <<>>
    <3>2. id \in PageTabs /\ a \in PageAddresses
      BY <1>0, PagesAssumption
    <3>3. tabs = <<[id |-> id, address |-> a, active |-> TRUE]>>
      BY <1>1, <2>1 DEF Pages!FirstTabs
    <3> DEFINE first == [id |-> id, address |-> a, active |-> TRUE]
    <3>4. first \in TabRecords /\ first.active
      BY <3>2 DEF TabRecords
    <3> HIDE DEF first
    <3>5. <<first>> \in Seq(TabRecords) /\ Len(<<first>>) = 1 /\ <<first>>[1] = first
      BY <3>4
    <3>6. OneActive(<<first>>)
      BY <3>4, <3>5 DEF OneActive
    <3> QED BY <3>3, <3>5, <3>6 DEF SoundTabs, first
  <2>2. CASE tables.tabs # <<>>
    BY <1>2, <1>1, <2>2 DEF SoundTables
  <2> QED BY <2>1, <2>2
<1>5. tables' \in SoundTables /\ tables'.tabs = tabs
  BY <1>2, <1>3, <1>4 DEF SoundTables
<1>6. Shows(tabs)'
  BY <1>3, <1>4, Followed
<1>7. Shows(memory.tabs)'
  BY <1>3, <1>5, <1>6 DEF Shows
<1> QED BY <1>3, <1>5, <1>7 DEF PagesInv

LEMMA ShutdownPagesStep == ASSUME PagesInv, Pages!Shutdown PROVE PagesInv'
<1>1. [tabs |-> <<>>, marks |-> Pages!NoMarks] \in SoundTables
  BY NothingIsSound DEF SoundTables
<1>2. /\ running' = FALSE /\ results' = <<>> /\ UNCHANGED <<revision, browserWrites, tables>>
      /\ memory' = [tabs |-> <<>>, marks |-> Pages!NoMarks] /\ committed' = memory'
  BY DEF Pages!Shutdown
<1> QED BY <1>1, <1>2 DEF PagesInv

LEMMA PagesKept == ASSUME PagesInv, UNCHANGED pageVars PROVE PagesInv'
<1>1. Shows(memory.tabs)' <=> Shows(memory.tabs)
  BY DEF pageVars, Shows
<1> QED BY <1>1 DEF pageVars, PagesInv

LEMMA PagesStep == ASSUME PagesInv, Pages!BrowserNext PROVE PagesInv'
<1>1. CASE Pages!TabSteps
  <2>1. ASSUME NEW a \in PageAddresses, NEW activate \in BOOLEAN, Pages!CreateTab(a, activate) PROVE PagesInv'
    BY <2>1, CreateTabStep
  <2>2. ASSUME NEW i \in DOMAIN memory.tabs, Pages!CloseTab(i) PROVE PagesInv'
    BY <2>2, CloseTabStep
  <2>3. ASSUME NEW i \in DOMAIN memory.tabs, Pages!ActivateTab(i) PROVE PagesInv'
    BY <2>3, ActivateTabStep
  <2>4. ASSUME NEW i \in DOMAIN memory.tabs, NEW j \in DOMAIN memory.tabs, Pages!MoveTab(i, j) PROVE PagesInv'
    BY <2>4, MoveTabStep
  <2>5. ASSUME NEW i \in DOMAIN memory.tabs, NEW a \in PageAddresses, Pages!UpdateTabUrl(i, a) PROVE PagesInv'
    BY <2>5, UpdateTabUrlStep
  <2> QED BY <1>1, <2>1, <2>2, <2>3, <2>4, <2>5 DEF Pages!TabSteps
<1>2. CASE Pages!BookmarkSteps
  <2>1. CASE Pages!CreateBookmarkGroup
    BY <2>1, CreateBookmarkGroupStep
  <2>2. ASSUME NEW g \in Pages!ToSet(Pages!marks.groups), Pages!RemoveBookmarkGroup(g) PROVE PagesInv'
    BY <2>2, RemoveBookmarkGroupStep
  <2>3. ASSUME NEW i \in DOMAIN Pages!marks.groups, NEW j \in DOMAIN Pages!marks.groups, Pages!DropGroup(i, j)
        PROVE  PagesInv'
    BY <2>3, DropGroupStep
  <2>4. ASSUME NEW a \in PageAddresses, NEW g \in BookmarkGroups \cup {NoGroup}, Pages!CreateBookmark(a, g)
        PROVE  PagesInv'
    BY <2>4, CreateBookmarkStep
  <2>5. ASSUME NEW i \in DOMAIN Pages!marks.bookmarks, Pages!RemoveBookmark(i) PROVE PagesInv'
    BY <2>5, RemoveBookmarkStep
  <2>6. ASSUME NEW i \in DOMAIN Pages!marks.bookmarks, NEW a \in PageAddresses, NEW g \in BookmarkGroups \cup {NoGroup},
               Pages!UpdateBookmark(i, a, g)
        PROVE  PagesInv'
    BY <2>6, UpdateBookmarkStep
  <2>7. ASSUME NEW i \in DOMAIN Pages!marks.bookmarks, NEW j \in DOMAIN Pages!marks.bookmarks,
               NEW g \in BookmarkGroups \cup {NoGroup}, Pages!DropBookmark(i, j, g)
        PROVE  PagesInv'
    BY <2>7, DropBookmarkStep
  <2> QED BY <1>2, <2>1, <2>2, <2>3, <2>4, <2>5, <2>6, <2>7 DEF Pages!BookmarkSteps
<1>3. CASE Pages!RunWrite
  BY <1>3, RunWriteStep
<1>4. CASE Pages!HearResult
  BY <1>4, HearResultStep
<1>5. CASE Pages!Start
  BY <1>5, StartPagesStep
<1>6. CASE Pages!Shutdown
  BY <1>6, ShutdownPagesStep
<1> QED BY <1>1, <1>2, <1>3, <1>4, <1>5, <1>6 DEF Pages!BrowserNext

(* What the invariant says of tabs, and of what the reader sees.                *)
LEMMA OneIsActive ==
    ASSUME NEW tabs \in SoundTabs
    PROVE  /\ tabs = <<>> => Pages!ActiveOf(tabs) = {}
           /\ tabs # <<>> => \E i \in 1..Len(tabs) : tabs[i].active /\ Pages!ActiveOf(tabs) = {tabs[i].id}
           /\ \A i \in 1..Len(tabs) : Pages!AsText(tabs[i].address)
<1>1. tabs \in Seq(TabRecords) /\ DOMAIN tabs = 1..Len(tabs) /\ OneActive(tabs)
  BY DEF SoundTabs
<1>2. ASSUME tabs = <<>> PROVE Pages!ActiveOf(tabs) = {}
  BY <1>1, <1>2 DEF Pages!ActiveOf
<1>3. ASSUME tabs # <<>> PROVE \E i \in 1..Len(tabs) : tabs[i].active /\ Pages!ActiveOf(tabs) = {tabs[i].id}
  <2>1. PICK i \in 1..Len(tabs) : tabs[i].active
    BY <1>1, <1>3 DEF OneActive
  <2>2. Pages!ActiveOf(tabs) = {tabs[i].id}
    BY <1>1, <2>1 DEF Pages!ActiveOf, OneActive
  <2> QED BY <2>1, <2>2
<1>4. ASSUME NEW i \in 1..Len(tabs) PROVE Pages!AsText(tabs[i].address)
  <2>1. tabs[i] \in TabRecords
    BY <1>1
  <2> QED BY <2>1 DEF TabRecords, Pages!AsText
<1> QED BY <1>2, <1>3, <1>4

LEMMA SameCount == ASSUME NEW S PROVE Pages!Cardinality(S) = Cardinality(S)
BY DEF Pages!Cardinality, Cardinality

LEMMA CountActive ==
    ASSUME NEW tabs \in SoundTabs
    PROVE  Pages!Cardinality(Pages!ActiveOf(tabs)) = IF tabs = <<>> THEN 0 ELSE 1
<1>1. CASE tabs = <<>>
  BY <1>1, OneIsActive, FS_EmptySet, SameCount
<1>2. CASE tabs # <<>>
  <2>1. PICK i \in 1..Len(tabs) : tabs[i].active /\ Pages!ActiveOf(tabs) = {tabs[i].id}
    BY <1>2, OneIsActive
  <2>2. Cardinality({tabs[i].id}) = 1
    BY FS_Singleton
  <2> QED BY <1>2, <2>1, <2>2, SameCount
<1> QED BY <1>1, <1>2

LEMMA PagesMean == ASSUME PagesInv PROVE Pages!BarShowsTheTabs /\ Pages!NoChangeIsRefused /\ Pages!SessionIsAccepted
<1>1. Pages!BarShowsTheTabs
  <2> SUFFICES ASSUME running
               PROVE /\ bar = Pages!Ids(memory.tabs)
                     /\ (IF bar = <<>> THEN {} ELSE {current}) = Pages!ActiveOf(memory.tabs)
    BY DEF Pages!BarShowsTheTabs
  <2>1. PICK tabs \in SoundTabs : tabs = memory.tabs
    BY DEF PagesInv, SoundTables
  <2>2. bar = Pages!Ids(tabs) /\ \A i \in 1..Len(tabs) : tabs[i].active => current = tabs[i].id
    BY <2>1 DEF PagesInv, Shows
  <2>3. tabs \in Seq(TabRecords) /\ bar = [i \in 1..Len(tabs) |-> tabs[i].id]
    BY <2>2 DEF SoundTabs, Pages!Ids
  <2>4. bar = <<>> <=> tabs = <<>>
    BY <2>3
  <2>5. CASE tabs = <<>>
    BY <2>1, <2>2, <2>4, <2>5, OneIsActive
  <2>6. CASE tabs # <<>>
    <3>1. PICK i \in 1..Len(tabs) : tabs[i].active /\ Pages!ActiveOf(tabs) = {tabs[i].id}
      BY <2>6, OneIsActive
    <3> QED BY <2>1, <2>2, <2>4, <2>6, <3>1
  <2> QED BY <2>5, <2>6
<1>2. Pages!NoChangeIsRefused
  <2> SUFFICES ASSUME NEW i \in DOMAIN browserWrites PROVE Pages!Allowed(browserWrites[i])
    BY DEF Pages!NoChangeIsRefused
  <2>1. PICK write \in SoundWrites : write = browserWrites[i]
    BY DEF PagesInv
  <2>2. CASE write.table = "tabs"
    <3>1. write.value \in SoundTabs
      BY <2>2 DEF SoundWrites
    <3>2. Pages!Cardinality(Pages!ActiveOf(write.value)) <= 1
      BY <3>1, CountActive
    <3> QED BY <2>1, <2>2, <3>2 DEF Pages!Allowed
  <2>3. CASE write.table = "marks"
    <3>1. write.value \in SoundMarks
      BY <2>3 DEF SoundWrites
    <3>2. PICK groups, bookmarks :
              /\ groups = write.value.groups /\ groups \in Seq(BookmarkGroups)
              /\ bookmarks = write.value.bookmarks /\ bookmarks \in Seq(BookmarkRecords) /\ Grouped(groups, bookmarks)
      BY <3>1 DEF SoundMarks, MarkRecords
    <3>3. DOMAIN bookmarks = 1..Len(bookmarks) /\ DOMAIN groups = 1..Len(groups)
      BY <3>2
    <3>4. ASSUME NEW k \in DOMAIN bookmarks PROVE bookmarks[k].group \in Pages!ToSet(groups) \cup {NoGroup}
      BY <3>2, <3>3 DEF Grouped, Pages!ToSet, ToSet
    <3> QED BY <2>1, <2>3, <3>2, <3>4 DEF Pages!Allowed
  <2> QED BY <2>2, <2>3 DEF SoundWrites
<1>3. Pages!SessionIsAccepted
  <2>1. tables.tabs \in SoundTabs /\ tables.marks \in SoundMarks
    BY DEF PagesInv, SoundTables
  <2>2. Pages!TabsAccepted(tables.tabs)
    <3>1. PICK tabs \in SoundTabs : tabs = tables.tabs
      BY <2>1
    <3>2. DOMAIN tabs = 1..Len(tabs)
      BY DEF SoundTabs
    <3>3. \A i \in 1..Len(tabs) : Pages!AsText(tabs[i].address)
      BY OneIsActive
    <3>4. tabs # <<>> => Pages!Cardinality(Pages!ActiveOf(tabs)) = 1
      BY CountActive
    <3> QED BY <3>1, <3>2, <3>3, <3>4 DEF Pages!TabsAccepted
  <2>3. Pages!MarksAccepted(tables.marks)
    <3>1. PICK bookmarks : bookmarks = tables.marks.bookmarks /\ bookmarks \in Seq(BookmarkRecords)
      BY <2>1 DEF SoundMarks, MarkRecords
    <3>2. ASSUME NEW i \in DOMAIN bookmarks PROVE Pages!AsText(bookmarks[i].address)
      <4>1. bookmarks[i] \in BookmarkRecords
        BY <3>1
      <4> QED BY <4>1 DEF BookmarkRecords, Pages!AsText
    <3> QED BY <3>1, <3>2 DEF Pages!MarksAccepted
  <2> QED BY <2>2, <2>3 DEF Pages!SessionIsAccepted, Pages!Accepted
<1> QED BY <1>1, <1>2, <1>3

(* For any tabs, groups, bookmarks and addresses and any bounds, whatever the     *)
(* reader does and whichever writes fail: the bar shows the tabs, the database     *)
(* refuses no change, and the next start accepts what was stored (persistTabs,    *)
(* persistBookmarks, synchronizeTabs and restoreState).                        *)
THEOREM BrowserShowsWhatItKeeps ==
    Pages!BrowserInit /\ [][Pages!BrowserNext]_Pages!browserVars
        => [](Pages!BarShowsTheTabs /\ Pages!NoChangeIsRefused /\ Pages!SessionIsAccepted)
<1>1. Pages!BrowserInit => PagesInv
  BY PagesInitially
<1>2. PagesInv /\ [Pages!BrowserNext]_Pages!browserVars => PagesInv'
  <2>1. UNCHANGED Pages!browserVars => UNCHANGED pageVars
    BY DEF Pages!browserVars, Pages!keeping, Pages!view, pageVars
  <2> QED BY <2>1, PagesStep, PagesKept
<1>3. PagesInv => Pages!BarShowsTheTabs /\ Pages!NoChangeIsRefused /\ Pages!SessionIsAccepted
  BY PagesMean
<1> QED BY <1>1, <1>2, <1>3, PTL

-----------------------------------------------------------------------------
\* The application
(* The parts share no state, so that the invariants of all hold together.       *)
HostInv == ImportInv /\ StoreInv /\ WebInv /\ ApartInv /\ PagesInv

LEMMA HostStep ==
    ASSUME "replace_log" \notin Faulty, BuildsAreVersioned, IsFiniteSet(Servers), HostInv, [HostNext]_hostVars
    PROVE  HostInv'
<1>1. ImportInv /\ StoreInv /\ WebInv /\ ApartInv /\ PagesInv
  BY DEF HostInv
<1>2. [Next]_vars /\ [StateNext]_stateVars /\ [WebNext]_webVars /\ (Pages!BrowserNext \/ UNCHANGED pageVars)
  BY DEF HostNext, hostVars, Importing, Storing, Starting, Serving, Answering, Browsing
<1>3. ImportInv'
  BY <1>1, <1>2, ImportStep
<1>4. StoreInv'
  BY <1>1, <1>2, StoreStep
<1>5. WebInv' /\ ApartInv'
  BY <1>1, <1>2, WebStep, ApartStep
<1>6. PagesInv'
  BY <1>1, <1>2, PagesStep, PagesKept
<1> QED BY <1>3, <1>4, <1>5, <1>6 DEF HostInv

(* What the host run checks, for every value of the constants, if removing the    *)
(* log of a replaced database works: no undecided import is in use, no two         *)
(* servers have one terminal, a plugin runs on its own schema, and the browser     *)
(* shows what it keeps.                                                     *)
THEOREM HostTypeCorrect ==
    ASSUME "replace_log" \notin Faulty, BuildsAreVersioned, IsFiniteSet(Servers)
    PROVE  HostSpec => []HostTypeOK
<1>1. HostInit => HostInv
  BY ImportInitially, StoreInitially, WebInitially, ApartInitially, PagesInitially DEF HostInit, HostInv
<1>2. HostInv /\ [HostNext]_hostVars => HostInv'
  BY HostStep
<1>3. HostInv => HostTypeOK
  <2> SUFFICES ASSUME HostInv PROVE HostTypeOK
    OBVIOUS
  <2>1. TypeOK /\ NoUndecidedImportInUse
    BY DEF HostInv, ImportInv, BackupGuards, NoUndecidedImportInUse, Undecided
  <2>2. TerminalsAreApart
    BY ApartMeans DEF HostInv
  <2>3. SchemaIsTheDeclaredOne
    BY DEF HostInv, StoreInv
  <2>4. Pages!BarShowsTheTabs /\ Pages!NoChangeIsRefused /\ Pages!SessionIsAccepted
    BY PagesMean DEF HostInv
  <2> QED BY <2>1, <2>2, <2>3, <2>4 DEF HostTypeOK
<1> QED BY <1>1, <1>2, <1>3, PTL DEF HostSpec
=============================================================================
