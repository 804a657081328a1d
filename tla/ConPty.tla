-------------------------------- MODULE ConPty --------------------------------
(***************************************************************************)
(* The pseudo-console of Windows (terminal/platform/windows/                *)
(* ConPtyBackend.cpp): the main thread, which starts, writes, pauses and    *)
(* terminates, the thread that reads what the shell prints, and the thread *)
(* that writes what was typed.  The threads sleep on conditions, whose lock *)
(* they hold from the look at the condition to their sleep ("dozing"), and  *)
(* are waited for when the terminal ends.                                  *)
(*                                                                         *)
(* What they tell the session is queued for the main thread; of a shell     *)
(* that was replaced it may arrive when the next one runs.  The session of  *)
(* TerminalSession has one thread, as the other systems give it.            *)
(***************************************************************************)
EXTENDS Naturals, SequencesExt

CONSTANTS
    MaxShells,   \* bound: shells started
    MaxTyped,    \* bound: bytes typed at one of them
    MaxOutput    \* bound: chunks printed while the main thread has not heard of what was before

ASSUME ConAssumption == MaxShells \in Nat /\ MaxTyped \in Nat /\ MaxOutput \in Nat

VARIABLES
    main,        \* where terminate stands, "free" outside it
    restarts,    \* whether a start is what terminates
    handles,     \* m_handles
    console,     \* m_handles->pseudoConsole is open
    shell,       \* the process: "none", "alive", "dead"
    shells,      \* bound: shells so far
    running, stopping, stopRequested, outputPaused,
    reader,      \* the thread that reads: where it is
    writer,      \* the thread that writes: where it is
    batch,       \* what it writes, and how much of it is written
    queue,       \* m_pendingInput
    typed,       \* history: what write accepted for this shell
    written,     \* history: what the shell was given
    output,      \* chunks in the pipe
    events       \* what the main thread is told and has not handled

threads == <<reader, writer>>
flags == <<running, stopping, stopRequested, outputPaused>>
conVars == <<main, restarts, handles, console, shell, shells, flags, threads, batch, queue, typed, written, output, events>>

NoBatch == [bytes |-> <<>>, offset |-> 0]

ConInit ==
    /\ main = "free" /\ restarts = FALSE /\ handles = FALSE /\ console = FALSE
    /\ shell = "none" /\ shells = 0
    /\ running = FALSE /\ stopping = FALSE /\ stopRequested = FALSE /\ outputPaused = FALSE
    /\ reader = "none" /\ writer = "none" /\ batch = NoBatch
    /\ queue = <<>> /\ typed = <<>> /\ written = <<>> /\ output = 0 /\ events = <<>>

(* notify_all: who sleeps looks again.                                      *)
Awake(thread) == IF thread = "asleep" THEN "looks" ELSE thread

-----------------------------------------------------------------------------
(* start, once nothing is left of the shell before: it may fail before there *)
(* is anything to take back, or when there is, or it works.                 *)
Launch ==
    /\ restarts' = FALSE /\ typed' = <<>> /\ written' = <<>> /\ output' = 0 /\ batch' = NoBatch /\ queue' = <<>>
    /\ outputPaused' = FALSE
    /\ \/ /\ shells < MaxShells /\ shells' = shells + 1
          /\ handles' = TRUE /\ console' = TRUE /\ shell' = "alive"
          /\ running' = TRUE /\ stopping' = FALSE /\ stopRequested' = FALSE
          /\ reader' = "looks" /\ writer' = "looks"
       \/ /\ stopping' \in BOOLEAN /\ stopRequested' = TRUE
          /\ handles' = FALSE /\ console' = FALSE /\ shell' = "none" /\ running' = FALSE
          /\ reader' = "none" /\ writer' = "none"
          /\ UNCHANGED shells

StartConsole ==
    /\ main = "free" /\ ~running
    /\ IF handles THEN /\ main' = "flagged" /\ restarts' = TRUE /\ stopping' = TRUE
                       /\ UNCHANGED <<handles, console, shell, shells, running, stopRequested, outputPaused, threads,
                                      batch, queue, typed, written, output>>
       ELSE Launch /\ UNCHANGED main
    /\ UNCHANGED events

(* write: what is typed waits for the thread that writes.                   *)
WriteInput ==
    /\ main = "free" /\ running /\ Len(typed) < MaxTyped /\ writer # "dozing"
    /\ queue' = Append(queue, Len(typed) + 1) /\ typed' = Append(typed, Len(typed) + 1)
    /\ writer' = Awake(writer)
    /\ UNCHANGED <<main, restarts, handles, console, shell, shells, flags, reader, batch, written, output, events>>

SetOutputPaused(pause) ==
    /\ main = "free" /\ reader # "dozing" /\ outputPaused # pause
    /\ outputPaused' = pause
    /\ reader' = IF pause THEN reader ELSE Awake(reader)
    /\ UNCHANGED <<main, restarts, handles, console, shell, shells, running, stopping, stopRequested, writer, batch,
                   queue, typed, written, output, events>>

-----------------------------------------------------------------------------
(* terminate: in this order, between the steps of the threads.               *)
Terminate ==
    /\ main = "free"
    /\ main' = "flagged" /\ stopping' = TRUE /\ running' = FALSE
    /\ UNCHANGED <<restarts, handles, console, shell, shells, stopRequested, outputPaused, threads, batch, queue, typed,
                   written, output, events>>

\* Mutant of RequestStop: the stop is asked for without the lock of the reader.
RequestStopUnlocked ==
    /\ main = "flagged"
    /\ outputPaused' = FALSE /\ stopRequested' = TRUE /\ running' = FALSE
    /\ reader' = Awake(reader)
    /\ main' = IF handles THEN "requested" ELSE "free"
    /\ UNCHANGED <<restarts, handles, console, shell, shells, stopping, writer, batch, queue, typed, written, output, events>>

(* Under the lock of the reader, so that it does not fall asleep on it.       *)
RequestStop ==
    /\ main = "flagged" /\ reader # "dozing"
    /\ outputPaused' = FALSE /\ stopRequested' = TRUE /\ running' = FALSE
    /\ reader' = Awake(reader)
    /\ main' = IF handles THEN "requested" ELSE "free"
    /\ UNCHANGED <<restarts, handles, console, shell, shells, stopping, writer, batch, queue, typed, written, output, events>>

(* And under that of the writer; then the process ends, and the console.      *)
Kill ==
    /\ main = "requested" /\ writer # "dozing"
    /\ writer' = Awake(writer)
    /\ shell' = "dead" /\ console' = FALSE /\ output' = 0
    /\ main' = "killed"
    /\ UNCHANGED <<restarts, handles, shells, flags, reader, batch, queue, typed, written, events>>

\* Mutant of Join: the thread that writes is not waited for.
JoinReaderOnly ==
    /\ main = "killed" /\ reader \in {"none", "ended"}
    /\ main' = "free" /\ queue' = <<>> /\ handles' = FALSE /\ restarts' = FALSE
    /\ UNCHANGED <<console, shell, shells, flags, threads, batch, typed, written, output, events>>

(* The threads are waited for before the handles go.                         *)
Join ==
    /\ main = "killed" /\ reader \in {"none", "ended"} /\ writer \in {"none", "ended"}
    /\ main' = "free" /\ UNCHANGED events
    /\ IF restarts THEN Launch
       ELSE /\ queue' = <<>> /\ handles' = FALSE /\ shell' = "none"
            /\ reader' = "none" /\ writer' = "none" /\ batch' = NoBatch
            /\ UNCHANGED <<restarts, console, shells, flags, typed, written, output>>

-----------------------------------------------------------------------------
(* readOutput: where a reader that may not read on goes to wait for the end.  *)
ReaderLooks ==
    /\ reader = "looks"
    /\ reader' = IF ~running \/ stopRequested THEN "reaps" ELSE IF outputPaused THEN "dozing" ELSE "reads"
    /\ UNCHANGED <<main, restarts, handles, console, shell, shells, flags, writer, batch, queue, typed, written, output, events>>

ReaderSleeps ==
    /\ reader = "dozing" /\ reader' = "asleep"
    /\ UNCHANGED <<main, restarts, handles, console, shell, shells, flags, writer, batch, queue, typed, written, output, events>>

Read ==
    /\ reader = "reads"
    /\ \/ /\ ~running \/ stopRequested \/ ~console \/ (shell = "dead" /\ output = 0)
          /\ reader' = "reaps" /\ UNCHANGED <<output, events>>
       \/ /\ output > 0
          /\ output' = output - 1 /\ events' = Append(events, [what |-> "output", of |-> shells])
          /\ reader' = "looks"
    /\ UNCHANGED <<main, restarts, handles, console, shell, shells, flags, writer, batch, queue, typed, written>>

(* The process ended.  Whoever writes is told, without its lock: a writer     *)
(* about to sleep sleeps until terminate.                                   *)
Reaped ==
    /\ reader = "reaps" /\ shell = "dead"
    /\ running' = FALSE /\ writer' = Awake(writer)
    /\ reader' = "tells"
    /\ UNCHANGED <<main, restarts, handles, console, shell, shells, stopping, stopRequested, outputPaused, batch, queue,
                   typed, written, output, events>>

(* And the session, unless the end was asked for.                            *)
TellsEnd ==
    /\ reader = "tells"
    /\ events' = IF stopping THEN events ELSE Append(events, [what |-> "exited", of |-> shells])
    /\ reader' = "ended"
    /\ UNCHANGED <<main, restarts, handles, console, shell, shells, flags, writer, batch, queue, typed, written, output>>

-----------------------------------------------------------------------------
(* writeInput: all that waits is taken, written, and only then forgotten.     *)
WriterLooks ==
    /\ writer = "looks"
    /\ writer' = IF ~running \/ stopRequested THEN "ended" ELSE IF queue = <<>> THEN "dozing" ELSE "writes"
    /\ batch' = [bytes |-> queue, offset |-> 0]
    /\ UNCHANGED <<main, restarts, handles, console, shell, shells, flags, reader, queue, typed, written, output, events>>

WriterSleeps ==
    /\ writer = "dozing" /\ writer' = "asleep"
    /\ UNCHANGED <<main, restarts, handles, console, shell, shells, flags, reader, batch, queue, typed, written, output, events>>

(* The shell takes some of it, when it wants to.                             *)
WriteFile(n) ==
    /\ writer = "writes" /\ batch.offset < Len(batch.bytes) /\ ~stopRequested
    /\ console /\ n \in 1..Len(batch.bytes) - batch.offset
    /\ written' = written \o SubSeq(batch.bytes, batch.offset + 1, batch.offset + n)
    /\ batch' = [batch EXCEPT !.offset = @ + n]
    /\ UNCHANGED <<main, restarts, handles, console, shell, shells, flags, threads, queue, typed, output, events>>

(* A write fails, as one does whose console is gone: nobody asked for that    *)
(* unless it was stopped, or the shell was seen to end.                      *)
WriteFails ==
    /\ writer = "writes" /\ batch.offset < Len(batch.bytes) /\ ~stopRequested
    /\ ~console \/ shell = "dead"
    /\ running' = (running /\ stopping)
    /\ writer' = IF running /\ ~stopping THEN "gives up" ELSE "ended"
    /\ UNCHANGED <<main, restarts, handles, console, shell, shells, stopping, stopRequested, outputPaused, reader, batch,
                   queue, typed, written, output, events>>

(* And the shell ends with it.                                              *)
GivesUp ==
    /\ writer = "gives up"
    /\ stopping' = TRUE /\ shell' = "dead"
    /\ events' = Append(events, [what |-> "error", of |-> shells])
    /\ writer' = "ended"
    /\ UNCHANGED <<main, restarts, handles, console, shells, running, stopRequested, outputPaused, reader, batch, queue,
                   typed, written, output>>

\* Mutant of BatchWritten: what was typed meanwhile is forgotten as well.
BatchWrittenAll ==
    /\ writer = "writes" /\ (batch.offset = Len(batch.bytes) \/ stopRequested)
    /\ queue' = <<>>
    /\ writer' = "looks" /\ batch' = NoBatch
    /\ UNCHANGED <<main, restarts, handles, console, shell, shells, flags, reader, typed, written, output, events>>

BatchWritten ==
    /\ writer = "writes" /\ (batch.offset = Len(batch.bytes) \/ stopRequested)
    /\ queue' = SubSeq(queue, batch.offset + 1, Len(queue))
    /\ writer' = "looks" /\ batch' = NoBatch
    /\ UNCHANGED <<main, restarts, handles, console, shell, shells, flags, reader, typed, written, output, events>>

-----------------------------------------------------------------------------
ShellPrints ==
    /\ shell = "alive" /\ output + Len(events) < MaxOutput /\ output' = output + 1
    /\ UNCHANGED <<main, restarts, handles, console, shell, shells, flags, threads, batch, queue, typed, written, events>>

ShellExits ==
    /\ shell = "alive" /\ shell' = "dead"
    /\ UNCHANGED <<main, restarts, handles, console, shells, flags, threads, batch, queue, typed, written, output, events>>

Deliver ==
    /\ main = "free" /\ events # <<>> /\ events' = Tail(events)
    /\ UNCHANGED <<main, restarts, handles, console, shell, shells, flags, threads, batch, queue, typed, written, output>>

Terminating == RequestStop \/ Kill \/ Join
Reading == ReaderLooks \/ ReaderSleeps \/ Read \/ Reaped \/ TellsEnd
Writing == WriterLooks \/ WriterSleeps \/ WriteFails \/ GivesUp \/ BatchWritten

ConNext ==
    \/ StartConsole \/ WriteInput \/ Terminate \/ Terminating \/ Reading \/ Writing
    \/ \E pause \in BOOLEAN : SetOutputPaused(pause)
    \/ \E n \in 1..MaxTyped : WriteFile(n)
    \/ ShellPrints \/ ShellExits \/ Deliver

(* Threads run; a shell need not read what is typed, nor ever end.            *)
ConFairness == WF_conVars(Terminating) /\ WF_conVars(Reading) /\ WF_conVars(Writing)

ConSpec == ConInit /\ [][ConNext]_conVars /\ ConFairness

-----------------------------------------------------------------------------
ConTypeOK ==
    /\ main \in {"free", "flagged", "requested", "killed"}
    /\ reader \in {"none", "looks", "dozing", "asleep", "reads", "reaps", "tells", "ended"}
    /\ writer \in {"none", "looks", "dozing", "asleep", "writes", "gives up", "ended"}
    /\ shell \in {"none", "alive", "dead"}
    /\ handles \in BOOLEAN /\ running \in BOOLEAN
    /\ shells \in 0..MaxShells /\ output \in 0..MaxOutput
    /\ batch \in [bytes : Seq(Nat), offset : Nat]
    /\ queue \in Seq(Nat) /\ written \in Seq(Nat) /\ typed \in Seq(Nat)

(* What was typed and not given to the shell yet.                           *)
Waiting == SubSeq(queue, batch.offset + 1, Len(queue))

(* No thread works at handles that are gone (the handles are the threads' until *)
(* both were waited for), and without them no shell is left alive.            *)
HandlesOutliveTheirThreads ==
    /\ {reader, writer} \subseteq {"none", "ended"} \/ handles
    /\ shell = "alive" => handles

(* What is typed is given to the shell in its order, once, and what it was not  *)
(* given yet still waits, however the threads take turns.                      *)
TypedOnceInOrder ==
    /\ IsPrefix(written, typed)
    /\ running => written \o Waiting = typed

(* The threads of a console work at nothing that is gone, and what is typed     *)
(* reaches the shell.                                                       *)
ThreadsKeepTheirConsole == HandlesOutliveTheirThreads /\ TypedOnceInOrder

(* Of one shell the session hears one end: neither reader nor writer tells what *)
(* the other told.  No run checks it: it does not hold.                       *)
EndIsToldOnce ==
    LET ends == {i \in DOMAIN events : events[i].what # "output"}
    IN  \A i, j \in ends : events[i].of = events[j].of => i = j

(* A terminal that is ended does end: the main thread never waits for a thread  *)
(* that sleeps, or reads and writes, on.                                      *)
TerminationEnds == main # "free" ~> main = "free"
=============================================================================
