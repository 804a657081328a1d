--------------------------- MODULE TerminalSession ---------------------------
(***************************************************************************)
(* A terminal session (terminal/TerminalSession.cpp) over a pseudo-terminal *)
(* (terminal/platform/posix/PosixPtyBackend.cpp): the bytes a program      *)
(* writes go from the kernel to the backlog and from there to the emulator, *)
(* what the user types goes the other way, and the end of the program is   *)
(* found by a timer or by the end of its output.  A terminated program is   *)
(* handed to the process-wide ChildProcessReaper (module of that name).    *)
(*                                                                         *)
(* Bytes are counted, in units: a unit is what the sizes below count.      *)
(***************************************************************************)
EXTENDS Integers

CONSTANTS
    Processes,    \* process identifiers
    NoProcess,
    Sizes,        \* sizes of the grid and its cells
    FirstSize,    \* the size before the first resize
    ChunkSize,    \* maximumOutputChunkSize
    PauseSize,    \* maximumPendingOutputSize
    ResumeSize,   \* outputResumeSize
    BatchSize,    \* maximumOutputBatchSize, which is also what one read may bring
    InputSize,    \* maximumInputQueueSize
    KernelSize,   \* bound: what the kernel keeps unread
    MaxErrors     \* bound: reads, writes and resizes that fail

ASSUME SessionAssumption ==
    /\ NoProcess \notin Processes
    /\ FirstSize \in Sizes
    /\ ChunkSize \in Nat \ {0} /\ BatchSize \in Nat \ {0}
    /\ PauseSize \in Nat /\ ResumeSize \in Nat /\ ResumeSize < PauseSize
    /\ InputSize \in Nat /\ KernelSize \in Nat /\ MaxErrors \in Nat

VARIABLES
    exists,      \* the session is there
    status,      \* m_state.processState
    pending,     \* m_pendingOutput, its length
    paused,      \* m_outputPaused
    flushing,    \* m_outputTimer is running
    size,        \* m_columns, m_rows, m_cellWidth, m_cellHeight
    drawn,       \* the size the emulator draws
    child,       \* m_childProcessId, and m_descriptor with it
    input,       \* m_pendingInput, its length
    readOn,      \* m_readNotifier exists and is enabled
    writeOn,     \* m_writeNotifier exists and is enabled
    told,        \* the size the kernel tells the program
    kernel,      \* written by the program, not read yet
    unread,      \* what was left unread when the end of the program was reported
    os,          \* what the kernel knows of each process
    handed,      \* processes handed to the reaper
    errors       \* failures so far

session == <<exists, status, pending, paused, flushing, size, drawn>>
backend == <<child, input, readOn, writeOn, told>>
system == <<kernel, unread, os, handed, errors>>
vars == <<session, backend, system>>

Running == child # NoProcess

Init ==
    /\ exists = TRUE /\ status = "Starting"
    /\ pending = 0 /\ paused = FALSE /\ flushing = FALSE
    /\ size = FirstSize /\ drawn = FirstSize /\ told = FirstSize
    /\ child = NoProcess /\ input = 0 /\ readOn = FALSE /\ writeOn = FALSE
    /\ kernel = 0 /\ unread = 0 /\ errors = 0
    /\ os = [p \in Processes |-> "unborn"]
    /\ handed = {}

Smaller(a, b) == IF a < b THEN a ELSE b

(* A system call that fails: backendError, which processError shows.       *)
Fails == errors < MaxErrors /\ errors' = errors + 1
Works == errors' = errors

-----------------------------------------------------------------------------
(* The program and the kernel.                                             *)
Produce(n) ==
    /\ Running /\ os[child] = "running"
    /\ kernel + n <= KernelSize
    /\ kernel' = kernel + n
    /\ UNCHANGED <<session, backend, unread, os, handed, errors>>

Exit(p) ==
    /\ os[p] = "running"
    /\ os' = [os EXCEPT ![p] = "exited"]
    /\ UNCHANGED <<session, backend, kernel, unread, handed, errors>>

(* What the reaper does for this session, at any later time.               *)
Reap(p) ==
    /\ p \in handed /\ os[p] = "exited"
    /\ os' = [os EXCEPT ![p] = "reaped"]
    /\ UNCHANGED <<session, backend, kernel, unread, handed, errors>>

-----------------------------------------------------------------------------
(* terminate of both: nothing is left of the output, of the input and of   *)
(* the notifiers, and a program that was not waited for goes to the reaper. *)
Terminated ==
    /\ pending' = 0 /\ paused' = FALSE /\ flushing' = FALSE
    /\ input' = 0 /\ kernel' = 0

\* Mutant of HandOver: the process is forgotten instead of handed over.
HandOverForgotten == handed' = handed

HandOver == handed' = IF Running THEN handed \cup {child} ELSE handed

(* start: the emulator, then the process.  Either may not come to be, and  *)
(* a process whose descriptor cannot be made nonblocking is terminated.    *)
StartsNothing ==
    /\ drawn' \in {drawn, size}
    /\ child' = NoProcess /\ readOn' = FALSE /\ writeOn' = FALSE
    /\ status' = "Failed"
    /\ Fails /\ UNCHANGED <<told, unread>>

Started ==
    \/ \E p \in Processes :
          /\ os[p] = "unborn"
          /\ os' = [os EXCEPT ![p] = "running"]
          /\ child' = p /\ readOn' = TRUE /\ writeOn' = FALSE
          /\ status' = "Running" /\ drawn' = size /\ told' = size
          /\ unread' = 0
          /\ HandOver /\ Works
    \/ /\ StartsNothing
       /\ HandOver /\ UNCHANGED os
    \/ \E p \in Processes :
          /\ StartsNothing
          /\ os[p] = "unborn"
          /\ os' = [os EXCEPT ![p] = "running"]
          /\ handed' = handed \cup {p} \cup IF Running THEN {child} ELSE {}

(* The first start, which whoever creates the session calls at once.       *)
Start ==
    /\ exists /\ status = "Starting"
    /\ Started
    /\ UNCHANGED <<exists, pending, paused, flushing, size, input, kernel>>

\* Mutant of Restart: a session restarted while it is paused stays paused.
RestartStillPaused ==
    /\ exists /\ status # "Starting"
    /\ pending' = 0 /\ flushing' = FALSE /\ input' = 0 /\ kernel' = 0
    /\ Started
    /\ UNCHANGED <<exists, size, paused>>

Restart ==
    /\ exists /\ status # "Starting"
    /\ Terminated
    /\ Started
    /\ UNCHANGED <<exists, size>>

(* The session is closed: terminated, and destroyed.                       *)
Destroy ==
    /\ exists /\ status # "Starting"
    /\ exists' = FALSE
    /\ Terminated /\ HandOver
    /\ child' = NoProcess /\ readOn' = FALSE /\ writeOn' = FALSE
    /\ UNCHANGED <<status, size, drawn, told, unread, os, errors>>

-----------------------------------------------------------------------------
(* flushInput after n more units were queued: the program takes some of    *)
(* them, and the notifier waits for it to take the rest; a write that      *)
(* fails drops them all.  failed tells the handler what to show.           *)
Flushed(n, failed) ==
    \/ ~failed /\ Works /\ input' \in 0..(input + n) /\ writeOn' = (input' > 0)
    \/ failed /\ Fails /\ input' = 0 /\ writeOn' = FALSE

ShowsFailure(failed) == status' = IF failed THEN "Failed" ELSE status

(* write: nothing is queued when there is no program or no room.           *)
Refuses(n) == ~Running \/ n > InputSize - input

Written(n, failed) ==
    \/ ~Refuses(n) /\ Flushed(n, failed)
    \/ Refuses(n) /\ ~failed /\ Works /\ UNCHANGED <<input, writeOn>>

Write(n) ==
    /\ exists /\ ~Refuses(n)
    /\ \E failed \in BOOLEAN : Flushed(n, failed) /\ ShowsFailure(failed)
    /\ UNCHANGED <<exists, pending, paused, flushing, size, drawn,
                   child, readOn, told, kernel, unread, os, handed>>

\* Mutant of FlushInput: the notifier is turned off with input left.
FlushInputOnce ==
    /\ writeOn
    /\ input' \in 0..input /\ writeOn' = FALSE /\ Works
    /\ UNCHANGED <<session, child, readOn, told, kernel, unread, os, handed>>

FlushInput ==
    /\ writeOn
    /\ \E failed \in BOOLEAN : Flushed(0, failed) /\ ShowsFailure(failed)
    /\ UNCHANGED <<exists, pending, paused, flushing, size, drawn,
                   child, readOn, told, kernel, unread, os, handed>>

-----------------------------------------------------------------------------
(* finishProcess, with what is still in the kernel; processExited.         *)
\* Mutant of Finish: the process that ended is still taken for the child.
FinishKeepingChild(left) ==
    /\ os' = [os EXCEPT ![child] = "reaped"]
    /\ UNCHANGED child /\ readOn' = FALSE /\ writeOn' = FALSE
    /\ input' = 0 /\ kernel' = 0 /\ unread' = left
    /\ status' = "Exited"

Finish(left) ==
    /\ os' = [os EXCEPT ![child] = "reaped"]
    /\ child' = NoProcess /\ readOn' = FALSE /\ writeOn' = FALSE
    /\ input' = 0 /\ kernel' = 0 /\ unread' = left
    /\ status' = "Exited"

(* checkProcess from m_exitTimer, which runs as long as there is a child.  *)
CheckProcess ==
    /\ Running /\ os[child] = "exited"
    /\ Finish(kernel)
    /\ UNCHANGED <<exists, pending, paused, flushing, size, drawn, told, handed, errors>>

(* processOutput: the backlog grows, and past its size reading pauses.     *)
\* Mutant of Pauses: one unit too late.
PausesLate(n) == ~paused /\ pending + n > PauseSize

Pauses(n) == ~paused /\ pending + n >= PauseSize

Received(n) ==
    /\ pending' = pending + n
    /\ paused' = (paused \/ (n > 0 /\ Pauses(n)))
    /\ flushing' = (flushing \/ n > 0)

(* drainOutput: reads until a batch is full or the kernel has no more, and *)
(* at the end of the output looks whether the program ended with it.       *)
Batches ==
    {n \in 0..Smaller(kernel, 2 * BatchSize - 1) : n = kernel \/ n >= BatchSize}

DrainOutput ==
    /\ readOn
    /\ kernel > 0 \/ os[child] = "exited"
    /\ \E n \in Batches :
          /\ Received(n)
          /\ \/ /\ kernel' = kernel - n
                /\ readOn' = (~(n > 0 /\ Pauses(n)))
                /\ UNCHANGED <<status, child, input, writeOn, unread, os>>
             \/ /\ n = kernel /\ n < BatchSize /\ os[child] = "exited"
                /\ Finish(0)
    /\ UNCHANGED <<exists, size, drawn, told, handed, errors>>

(* A read that fails for another reason ends the batch and is shown.       *)
DrainFails ==
    /\ readOn
    /\ \E n \in 0..Smaller(kernel, BatchSize - 1) :
          /\ Received(n)
          /\ kernel' = kernel - n
          /\ readOn' = (~(n > 0 /\ Pauses(n)))
    /\ Fails /\ status' = "Failed"
    /\ UNCHANGED <<exists, size, drawn, child, input, writeOn, told, unread, os, handed>>

-----------------------------------------------------------------------------
(* flushOutput: a chunk goes to the emulator, which may answer the program *)
(* with r units, and reading resumes once the backlog is down to its half. *)
Resumes(left) == paused /\ left <= ResumeSize

\* Mutant of FlushOutput: reading resumes only at exactly half of the backlog.
FlushOutputExactly(r) ==
    /\ flushing
    /\ pending' = pending - Smaller(ChunkSize, pending)
    /\ flushing' = (pending' > 0)
    /\ paused' = (paused /\ pending' # ResumeSize)
    /\ readOn' = IF paused /\ ~paused' THEN Running ELSE readOn
    /\ Works /\ UNCHANGED <<input, writeOn>>
    /\ UNCHANGED <<exists, status, size, drawn, child, told, kernel, unread, os, handed>>

FlushOutput(r) ==
    /\ flushing
    /\ pending' = pending - Smaller(ChunkSize, pending)
    /\ flushing' = (pending' > 0)
    /\ paused' = (paused /\ ~Resumes(pending'))
    /\ readOn' = IF Resumes(pending') THEN Running ELSE readOn
    /\ \E failed \in BOOLEAN :
          /\ IF r > 0 THEN Written(r, failed)
             ELSE ~failed /\ Works /\ UNCHANGED <<input, writeOn>>
          /\ ShowsFailure(failed)
    /\ UNCHANGED <<exists, size, drawn, child, told, kernel, unread, os, handed>>

(* resize: the emulator first, then the program, and only then remembered. *)
Resize(s) ==
    /\ exists /\ s # size
    /\ \/ Works /\ drawn' = s /\ size' = s /\ told' = (IF Running THEN s ELSE told)
       \/ Fails /\ drawn' \in {drawn, s} /\ (drawn' = s => Running) /\ UNCHANGED <<size, told>>
    /\ UNCHANGED <<exists, status, pending, paused, flushing,
                   child, input, readOn, writeOn, kernel, unread, os, handed>>

Next ==
    \/ \E n \in 1..KernelSize : Produce(n)
    \/ \E p \in Processes : Exit(p) \/ Reap(p)
    \/ Start \/ Restart \/ Destroy
    \/ \E n \in 1..InputSize : Write(n)
    \/ FlushInput \/ CheckProcess \/ DrainOutput \/ DrainFails
    \/ \E r \in 0..InputSize : FlushOutput(r)
    \/ \E s \in Sizes : Resize(s)

Spec == Init /\ [][Next]_vars

-----------------------------------------------------------------------------
ProcessStates == {"unborn", "running", "exited", "reaped"}
Backlog == 0..(PauseSize + 2 * BatchSize - 2)

(* Every reachable value has its type.  The backlog never holds more than  *)
(* one batch above the size it pauses at, however the reads, the flushes,   *)
(* the exits and the restarts fall.                                        *)
TypeOK ==
    /\ exists \in BOOLEAN
    /\ status \in {"Starting", "Running", "Exited", "Failed"}
    /\ pending \in Backlog
    /\ paused \in BOOLEAN /\ flushing \in BOOLEAN
    /\ size \in Sizes /\ drawn \in Sizes /\ told \in Sizes
    /\ child \in Processes \cup {NoProcess}
    /\ input \in 0..InputSize
    /\ readOn \in BOOLEAN /\ writeOn \in BOOLEAN
    /\ kernel \in 0..KernelSize /\ unread \in 0..KernelSize
    /\ os \in [Processes -> ProcessStates]
    /\ handed \subseteq Processes
    /\ errors \in 0..MaxErrors

(* Output is never stuck: what is pending has its timer running, reading   *)
(* is off only while it is paused, and a pause always has a backlog above  *)
(* the size at which flushing it will end the pause.                       *)
OutputKeepsFlowing ==
    /\ flushing <=> pending > 0
    /\ paused => pending > ResumeSize
    /\ Running => (readOn <=> ~paused)

(* Input is never stuck: what the program did not take yet has a notifier  *)
(* waiting for it to take more, and there is none without a program.       *)
InputKeepsFlowing ==
    /\ writeOn <=> input > 0
    /\ input > 0 => Running

(* Each process is waited for by one side only, the session or the reaper, *)
(* so that no signal is ever sent to a process identifier that was already *)
(* given back to the kernel.                                               *)
WaitedForOnce ==
    Running => os[child] \in {"running", "exited"} /\ child \notin handed

(* What the session shows is about its current process: it never says a    *)
(* program is running when there is none, nor that it ended when a newer   *)
(* one runs.                                                               *)
StatusIsCurrent ==
    exists => /\ status = "Running" => Running
              /\ status \in {"Exited", "Starting"} => ~Running

(* The last thing a program wrote reaches the reader before the reader is  *)
(* told that program ended (PosixPtyBackend.cpp:397).                      *)
LastOutputIsRead == status = "Exited" => unread = 0

(* The event loop serves its timers and notifiers, and the reaper kills    *)
(* and waits for what was handed to it.                                    *)
Fairness ==
    /\ WF_vars(CheckProcess)
    /\ WF_vars(\E r \in 0..InputSize : FlushOutput(r))
    /\ \A p \in Processes : WF_vars(Reap(p)) /\ WF_vars(p \in handed /\ Exit(p))

FairSpec == Spec /\ Fairness

(* No process is left behind, neither as a zombie nor running after its    *)
(* session let go of it.                                                   *)
NoProcessLeftBehind ==
    \A p \in Processes : os[p] = "exited" \/ p \in handed ~> os[p] = "reaped"

(* Reading never stays paused.                                             *)
PauseEnds == paused ~> ~paused
=============================================================================
