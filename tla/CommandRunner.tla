----------------------------- MODULE CommandRunner -----------------------------
(***************************************************************************)
(* The runner of a command (ai/AiCommandRunner.cpp): its process, what it   *)
(* prints, and its outcome told once to whoever made the runner: a command  *)
(* task, the run_command tool, or the client of a command line agent        *)
(* (AiCliChatClient.cpp), whose run is one turn.  Each runs one command.    *)
(*                                                                         *)
(* What a process prints is counted, not kept.  A process may take no       *)
(* notice of being told to end; it is killed three seconds later, by a timer *)
(* of the event loop: while the application runs.                          *)
(***************************************************************************)
EXTENDS Naturals, FiniteSets, SequencesExt

CONSTANTS
    Owners,         \* who may make a runner: "task", "tool", "client"
    MaxOutput       \* maximumOutputCharacters

VARIABLES
    owner,          \* who made this runner, "gone" once it let go
    started,        \* whether the command was started
    waiting,        \* whether the owner waits for an outcome (m_running of the client)
    process,        \* whether m_process is set
    completed, timedOut, timer, output,
    signals,        \* what the process told the runner and is not handled yet
    state,          \* of the process: "none", "starting", "running", "ended"
    printed,        \* what it printed so far
    doomed,         \* whether it will be killed if it does not end
    outcomes        \* history: what was told of the command

runnerVars == <<owner, started, waiting, process, completed, timedOut, timer, output, signals,
                state, printed, doomed, outcomes>>

RunnerInit ==
    /\ owner \in Owners /\ started = FALSE /\ waiting = FALSE
    /\ process = FALSE /\ completed = FALSE /\ timedOut = FALSE /\ timer = FALSE /\ output = 0
    /\ signals = <<>> /\ state = "none" /\ printed = 0 /\ doomed = FALSE
    /\ outcomes = <<>>

(* What an owner does when it hears an outcome: it waits no longer.         *)
Heard(outcome) == outcomes' = Append(outcomes, outcome) /\ waiting' = FALSE

(* reportFailure.                                                          *)
Failure ==
    IF completed THEN UNCHANGED <<completed, outcomes, waiting>>
    ELSE completed' = TRUE /\ Heard("failed")

\* Mutant of RequestTermination: the process is told, and nothing kills it.
RequestTerminationOnly == doomed

(* requestTermination: the process is told to end, and killed in a while.   *)
RequestTermination == doomed \/ process

(* stopProcess: nothing of the process reaches the runner any more.         *)
StopProcess ==
    /\ doomed' = RequestTermination
    /\ process' = FALSE /\ timer' = FALSE /\ signals' = <<>>

-----------------------------------------------------------------------------
(* start, startProgram, launch: without a program or a directory nothing is  *)
(* launched.  A client that lacks its program fails by itself (send).       *)
Refuses ==
    /\ Heard("failed") /\ completed' \in {TRUE, owner # "client"}
    /\ UNCHANGED <<process, timer, state>>

(* A client sets no limit.                                                  *)
Launches ==
    /\ waiting' = TRUE /\ process' = TRUE /\ state' = "starting"
    /\ timer' \in {FALSE, owner # "client"}
    /\ UNCHANGED <<completed, outcomes>>

Start ==
    /\ owner # "gone" /\ ~started
    /\ started' = TRUE
    /\ Refuses \/ Launches
    /\ UNCHANGED <<owner, timedOut, output, signals, printed, doomed>>

(* stopTask, a tool's cancel: nothing more is told.                         *)
Cancel ==
    /\ owner # "gone"
    /\ owner' = "gone" /\ completed' = TRUE /\ waiting' = FALSE
    /\ StopProcess
    /\ UNCHANGED <<started, timedOut, output, state, printed, outcomes>>

(* Whoever heard the outcome destroys the runner soon after: what it still   *)
(* runs is killed.                                                         *)
Release ==
    /\ owner # "gone" /\ started /\ ~waiting
    /\ owner' = "gone" /\ timer' = FALSE /\ process' = FALSE /\ signals' = <<>>
    /\ doomed' = (doomed \/ process)
    /\ UNCHANGED <<started, waiting, completed, timedOut, output, state, printed, outcomes>>

-----------------------------------------------------------------------------
(* m_timeout.                                                              *)
Timeout ==
    /\ timer
    /\ timedOut' = TRUE
    /\ Failure /\ StopProcess
    /\ UNCHANGED <<owner, started, output, state, printed>>

TooLarge == printed > MaxOutput

(* readOutput: all there is; too much of it is a failure.                   *)
ReadOutput ==
    /\ signals # <<>> /\ Head(signals) = "ready"
    /\ IF TooLarge
       THEN Failure /\ StopProcess /\ UNCHANGED output
       ELSE /\ output' = printed /\ signals' = Tail(signals)
            /\ UNCHANGED <<completed, outcomes, waiting, process, timer, doomed>>
    /\ UNCHANGED <<owner, started, timedOut, state, printed>>

(* errorOccurred.                                                          *)
ProcessFailed ==
    /\ signals # <<>> /\ Head(signals) = "error" /\ signals' = Tail(signals)
    /\ IF timedOut THEN UNCHANGED <<completed, outcomes, waiting>> ELSE Failure
    /\ UNCHANGED <<owner, started, process, timedOut, timer, output, state, printed, doomed>>

\* Mutant of Settles: what was told already is not looked at.
SettlesAgain(outcome) == completed' = TRUE /\ Heard(outcome)

Settles(outcome) ==
    IF completed THEN UNCHANGED <<completed, outcomes, waiting>> ELSE completed' = TRUE /\ Heard(outcome)

(* completeProcess: what is left is read.  Of a process that crashed an      *)
(* error told before.                                                      *)
CompleteProcess ==
    /\ signals # <<>> /\ Head(signals) = "finished"
    /\ Settles(IF TooLarge THEN "failed" ELSE "finished")
    /\ output' = IF TooLarge THEN output ELSE printed
    /\ process' = FALSE /\ timer' = FALSE /\ signals' = <<>>
    /\ UNCHANGED <<owner, started, timedOut, state, printed, doomed>>

-----------------------------------------------------------------------------
(* The process, which tells the runner while it is the runner's.            *)
Signals(new) ==
    LET known == ~process \/ (new = <<"ready">> /\ signals # <<>>)
    IN  signals' = IF known THEN signals ELSE signals \o new

Begins ==
    /\ state = "starting"
    /\ \/ state' = "running" /\ UNCHANGED signals
       \/ state' = "ended" /\ Signals(<<"error">>)
    /\ UNCHANGED printed

Prints ==
    /\ state = "running" /\ printed <= MaxOutput
    /\ printed' = printed + 1
    /\ Signals(<<"ready">>)
    /\ UNCHANGED state

(* It ends by itself, of a crash, or killed.                                *)
Ends ==
    /\ state = "running"
    /\ state' = "ended"
    /\ Signals(<<"finished">>) \/ Signals(<<"error", "finished">>)
    /\ UNCHANGED printed

ProcessSteps ==
    /\ Begins \/ Prints \/ Ends
    /\ UNCHANGED <<owner, started, waiting, process, completed, timedOut, timer, output, doomed, outcomes>>

RunnerNext ==
    \/ Start \/ Cancel \/ Release \/ Timeout
    \/ ReadOutput \/ ProcessFailed \/ CompleteProcess
    \/ ProcessSteps

-----------------------------------------------------------------------------
(* A command has one outcome at the most, in whatever order its limit, a     *)
(* failure, too much output, its end and a stop come; whoever waits for it   *)
(* waits for a process that runs or whose end is about to be heard, and      *)
(* what a command that finished printed was all read.                      *)
OutcomeIsToldOnce ==
    /\ Len(outcomes) <= 1
    /\ waiting => outcomes = <<>> /\ process /\ (state # "ended" \/ signals # <<>>)
    /\ outcomes = <<"finished">> => output = printed

(* A process the runner let go of has ended, or it will be killed            *)
(* (stopProcess: "Termination escalates on a timer").  Of an application that *)
(* runs: at its shutdown the timer ends with the event loop, and nobody waits  *)
(* for the process (AiPlugin::shutdown).                                   *)
NoProcessIsLeftAlone == ~process /\ state \in {"starting", "running"} => doomed
=============================================================================
