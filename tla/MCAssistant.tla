------------------------------ MODULE MCAssistant ------------------------------
(***************************************************************************)
(* The agents of the assistant, for TLC: the turns of one task              *)
(* (AgentTurn), what a model is sent and the calls it streams, the tools of *)
(* two tasks at one set of files, the skills of two directories, a server   *)
(* of tools, and a command.  They share no state in what is modelled of     *)
(* them: one of them is chosen at the start and moves alone.               *)
(***************************************************************************)
EXTENDS AgentTurn, TaskTools

CONSTANTS
    Parts,
    Transports, McpCalls, Obeys, MaxClients, MaxFaults,      \* of the server of tools
    Owners, MaxOutput,                                    \* of the command
    Workdirs, Places, SkillFiles                          \* of the skills

(* How a server is reached (McpTransport).                                  *)
ASSUME TransportsAssumption == Transports \subseteq {"stdio", "http"}

(* The home of who runs the program is nobody's working directory.           *)
ASSUME WorkdirsAssumption ==
    /\ "home" \notin Workdirs /\ Workdirs \cup {"home"} \subseteq Places
    /\ SkillFiles \subseteq [file : STRING, declares : STRING]

VARIABLES
    part,
    said, open, heard, sent,
    disk, changes, cache, scans, asks, given,
    transport, client, connected, ready, stopping, session, met, pending, out, in, posts, payloads, ignored,
    sampling, processes, greeted, catalog, results, faults,
    owner, started, waiting, process, completed, timedOut, timer, output, signals, state, printed, doomed, outcomes

-----------------------------------------------------------------------------
(* What a turn may ask for.                                                 *)
TwoAtATime == {<<"write", "read">>, <<"unlimited">>}
ReadsAlone == {<<"read">>}

(* The protocols, of the one with its instructions in a field or a turn.     *)
Services ==
    {[protocol |-> "anthropic", sees |-> TRUE, instructs |-> role] : role \in {"system", "user"}}
    \cup {[protocol |-> "openai", sees |-> TRUE, instructs |-> "system"],
          [protocol |-> "commandline", sees |-> FALSE, instructs |-> "system"]}
ModelWindows == {[size |-> 0, reserved |-> 2], [size |-> 2, reserved |-> 3], [size |-> 13, reserved |-> 2],
                 [size |-> 18, reserved |-> 3]}

Requests == INSTANCE ModelRequest WITH
    Windows <- ModelWindows, MaxSaid <- 5, MaxCalls <- 2, Fragments <- 2

(* One file that declares the name of the other.  At first they are at home, *)
(* where every directory finds them, and perhaps in the first directory.    *)
SameNames == {[file |-> "s", declares |-> "s"], [file |-> "t", declares |-> "s"]}

Skills == INSTANCE SkillCatalog WITH
    RootsOf <- [d \in Workdirs |-> <<d, "home">>],
    Entries <- SkillFiles,
    MaxAsks <- 2, MaxChanges <- 1

Mcp == INSTANCE McpClient WITH Calls <- McpCalls, running <- connected, answers <- results

Runner == INSTANCE CommandRunner

-----------------------------------------------------------------------------
requestVars == <<said, open, heard, sent>>
skillVars == <<disk, changes, cache, scans, asks, given>>
mcpVars == <<transport, client, connected, ready, stopping, session, met, pending, out, in, posts, payloads, ignored,
             sampling, processes, greeted, catalog, results, faults>>
runnerVars == <<owner, started, waiting, process, completed, timedOut, timer, output, signals, state, printed,
                doomed, outcomes>>

AssistantInit ==
    /\ part \in Parts
    /\ Init /\ Requests!RequestInit /\ ToolWork!ToolsInit /\ Skills!SkillsInit /\ Mcp!McpInit /\ Runner!RunnerInit
    /\ disk["home"] # {} /\ disk["y"] = {}
    /\ part # "skills" => disk["x"] = {}
    /\ part # "mcp" => transport = "http"
    /\ part # "runner" => owner = "task"

Turning == part = "turns" /\ Next /\ UNCHANGED <<part, requestVars, toolVars, skillVars, mcpVars, runnerVars>>
Conversing ==
    /\ part = "requests" /\ Requests!ConversationNext
    /\ UNCHANGED <<part, vars, toolVars, skillVars, mcpVars, runnerVars>>
Streaming ==
    /\ part = "streams" /\ Requests!StreamNext
    /\ UNCHANGED <<part, vars, toolVars, skillVars, mcpVars, runnerVars>>
ToolsWork == part = "tools" /\ ToolWork!ToolsNext /\ UNCHANGED <<part, vars, requestVars, skillVars, mcpVars, runnerVars>>
Discovering == part = "skills" /\ Skills!SkillsNext /\ UNCHANGED <<part, vars, requestVars, toolVars, mcpVars, runnerVars>>
Connecting == part = "mcp" /\ Mcp!McpNext /\ UNCHANGED <<part, vars, requestVars, toolVars, skillVars, runnerVars>>
CommandRuns == part = "runner" /\ Runner!RunnerNext /\ UNCHANGED <<part, vars, requestVars, toolVars, skillVars, mcpVars>>

AssistantNext == Turning \/ Conversing \/ Streaming \/ ToolsWork \/ Discovering \/ Connecting \/ CommandRuns

(* No deadline of a turn runs at the start: where the turns stand still,     *)
(* their fairness asks for nothing.                                        *)
AssistantSpec ==
    /\ AssistantInit /\ [][AssistantNext]_<<part, vars, requestVars, toolVars, skillVars, mcpVars, runnerVars>>
    /\ WF_vars(\E k \in DOMAIN calls : Deadline(k))

-----------------------------------------------------------------------------
(* Every reachable value of each of them has its type, a server of tools is     *)
(* greeted before it is asked (GreetedFirst), a run gets the skills of its own   *)
(* directory (SkillsAreOfTheDirectory, of two), and what a command came to is    *)
(* told once (OutcomeIsToldOnce).                                           *)
AssistantTypeOK ==
    /\ TypeOK /\ ToolWork!ToolsTypeOK /\ Mcp!GreetedFirst
    /\ Skills!SkillsAreOfTheDirectory /\ Runner!OutcomeIsToldOnce

(* Of the requests of a turn: a service takes them (ModelRequest; nothing is    *)
(* said or streamed while the other parts move).                             *)
RequestsAreTaken == part \in {"requests", "streams"} => Requests!RequestsAreTaken

(* Tools keep apart: those of one turn that conflict take turns (AgentTurn's   *)
(* ConflictsTakeTurns), and of two tasks, what a tool was shown of a file holds  *)
(* when it edits it, and commands end with their run (AgentTools).            *)
WhatWasSeenStillHolds ==
    ConflictsTakeTurns /\ ToolWork!WhatWasSeenStillHolds /\ ToolWork!CommandsEndWithTheirRun

(* Of what the assistant starts and asks, while the application runs: no call    *)
(* waits for a server that is gone, but for what is left to its deadline at an    *)
(* address (McpClient's NoCallWaitsForTheDead), and no command runs on that       *)
(* nobody waits for (CommandRunner's NoProcessIsLeftAlone).                     *)
ProcessesAreSeenToTheirEnd == Mcp!NoCallWaitsForTheDead /\ Runner!NoProcessIsLeftAlone
=============================================================================
