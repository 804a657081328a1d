------------------------------ MODULE AgentTools ------------------------------
(***************************************************************************)
(* What the tools of an agent do (ai/AiToolRegistry.cpp): the files they    *)
(* read and write through FileSystemService, the services they ask, the     *)
(* commands they run, and the one registry that the runs of all tasks       *)
(* share.  AgentTurn has the turns of one task; here a turn is the calls    *)
(* that start when those they conflict with have finished, and a run is a   *)
(* few turns, cut short by a stop.                                         *)
(*                                                                         *)
(* A tool that answers while it is called answers right after.  How servers *)
(* answer, and which skills there are, is in McpClient and SkillCatalog.    *)
(***************************************************************************)
EXTENDS FileSystemService

CONSTANTS
    Tasks,          \* each has a directory of its own
    RootOf,         \* the directory a task works in
    Turns,          \* the sequences of calls a model may ask a task for
    SharedIds,      \* whether a service numbers the calls of every run alike
    MaxRuns,        \* bound: runs of each task
    MaxTurns        \* bound: turns of each task

VARIABLES
    run,            \* how many runs each task had
    live,           \* the tasks whose run is active
    asked,          \* how many turns each task had
    turn,           \* toolCalls of each run
    work,           \* what a call waits for elsewhere than in the file system
    commands,       \* m_runningCommands: the call each id stands for
    running,        \* the commands that run
    context,        \* m_task: the task the registry speaks of
    told,           \* history: the task each task was told it is
    overrun         \* history: the tasks a call of which was given up at work

toolVars == <<run, live, asked, turn, work, commands, running, context, told, overrun>>

None == "none"

Call(tool, path) == [tool |-> tool, path |-> path, to |-> path, old |-> None, new |-> None, all |-> FALSE, seen |-> {}]

(* Who asks: a call of a turn of a run.  The id is the service's.           *)
Who(t, i) == [task |-> t, run |-> run[t], turn |-> asked[t], index |-> i]
IdOf(w) == IF SharedIds THEN w.index ELSE w

-----------------------------------------------------------------------------
(* What a call may touch (accessOf): what conflicts with nothing, what it   *)
(* reads or writes, and everything.                                        *)
Reading == {"read_file", "read_image", "list_directory", "describe_path", "search_files"}
Writing == {"write_file", "edit_file", "create_directory", "remove_path", "generate_image", "generate_speech"}
Pairs == {"move_path", "copy_file"}
Detached == {"fetch_url", "web_search", "list_voices", "describe_task",
             "list_skills", "search_skills", "read_skill", "read_skill_file",
             "list_mcp_resources", "read_mcp_resource", "list_mcp_prompts", "read_mcp_prompt"}

(* resolveSandboxPath, where there are no links.                            *)
Resolves(now, t, p) == now[RootOf[t]].kind = "directory" /\ IsPrefix(RootOf[t], p)

Touches(now, t, c) ==
    LET paths == {p \in {c.path, c.to} : Resolves(now, t, p)} IN
    [kind  |-> CASE c.tool \in Detached -> "none"
                 [] c.tool \in Reading \cup Writing \cup Pairs /\ paths = {} -> "none"
                 [] c.tool \in Reading -> "read"
                 [] c.tool \in Writing \cup Pairs -> "write"
                 [] OTHER -> "everything",
     paths |-> paths]

\* Mutant of Overlap: a path is compared with itself only.
OverlapSame(p, q) == p = q

(* pathsOverlap.                                                           *)
Overlap(p, q) == IsPrefix(p, q) \/ IsPrefix(q, p)

(* toolAccessesConflict.                                                   *)
Conflict(a, b) ==
    /\ "none" \notin {a.kind, b.kind}
    /\ \/ "everything" \in {a.kind, b.kind}
       \/ {a.kind, b.kind} # {"read"} /\ \E p \in a.paths, q \in b.paths : Overlap(p, q)

-----------------------------------------------------------------------------
(* How a call begins (invoke), with the files that are there now: with a    *)
(* job for the file system, or with something else it waits for; "answered" *)
(* is an answer at once.                                                   *)
Asks(job) == [stage |-> "files", job |-> job]
Awaits(stage) == [stage |-> stage, job |-> None]
Answered == Awaits("answered")

Within(now, w, c, begun) == IF Resolves(now, w.task, c.path) THEN begun ELSE Answered
WithinBoth(now, w, c, begun) == IF Resolves(now, w.task, c.path) /\ Resolves(now, w.task, c.to) THEN begun ELSE Answered

ReadingFile(now, w, c) == Within(now, w, c, Asks(Job(w, c, "read", c.path, c.path, {})))
Listing(now, w, c) == Within(now, w, c, Asks(Job(w, c, "list", c.path, c.path, {})))
Writes(now, w, c) == Within(now, w, c, Asks(Job(w, c, "write", c.path, c.path, {c.new})))
MakesDirectory(now, w, c) == Within(now, w, c, Asks(Job(w, c, "directory", c.path, c.path, {})))
Moves(now, w, c) == WithinBoth(now, w, c, Asks(Job(w, c, "move", c.path, c.to, {})))
Copies(now, w, c) == WithinBoth(now, w, c, Asks(Job(w, c, "copy", c.path, c.to, {})))

(* removePath: a directory that holds something goes only with recursive.   *)
Removes(now, w, c) ==
    Within(now, w, c,
        CASE ~Exists(now, c.path) -> Answered
          [] now[c.path].kind = "file" -> Asks(Job(w, c, "remove", c.path, c.path, {}))
          [] ~c.all /\ \E q \in Below(c.path) : Exists(now, q) -> Answered
          [] OTHER -> Asks(Job(w, c, "empty", c.path, c.path, {})))

ReadingImage(now, w, c) == ReadingFile(now, w, c)
Edits(now, w, c) == ReadingFile(now, w, c)
Describes(now, w, c) == Within(now, w, c, Answered)

Searches(now, w, c) == Within(now, w, c, Awaits("worker"))
FetchUrl == Awaits("network")
SearchWeb == Awaits("network")
ListVoices == Awaits("network")
GenerateImage(now, w, c) == Within(now, w, c, Awaits("network"))
GenerateSpeech(now, w, c) == Within(now, w, c, Awaits("network"))

(* The skills of the directory are looked for first.                       *)
ListSkills == Awaits("catalog")
SearchSkills == Awaits("catalog")
ReadSkill == Awaits("catalog")
ReadSkillFile == Awaits("catalog")

ListServerCatalog == Awaits("server")
ReadServerResource == Awaits("server")
ReadServerPrompt == Awaits("server")
CallMcpTool == Awaits("server")
DescribeTask == Answered

Commands(now, w) == IF now[RootOf[w.task]].kind = "directory" THEN Awaits("command") ELSE Answered

Begun(now, w, c) ==
    CASE c.tool = "read_file"        -> ReadingFile(now, w, c)
      [] c.tool = "read_image"       -> ReadingImage(now, w, c)
      [] c.tool = "edit_file"        -> Edits(now, w, c)
      [] c.tool = "list_directory"   -> Listing(now, w, c)
      [] c.tool = "describe_path"    -> Describes(now, w, c)
      [] c.tool = "write_file"       -> Writes(now, w, c)
      [] c.tool = "create_directory" -> MakesDirectory(now, w, c)
      [] c.tool = "move_path"        -> Moves(now, w, c)
      [] c.tool = "copy_file"        -> Copies(now, w, c)
      [] c.tool = "remove_path"      -> Removes(now, w, c)
      [] c.tool = "search_files"     -> Searches(now, w, c)
      [] c.tool = "fetch_url"        -> FetchUrl
      [] c.tool = "web_search"       -> SearchWeb
      [] c.tool = "list_voices"      -> ListVoices
      [] c.tool = "generate_image"   -> GenerateImage(now, w, c)
      [] c.tool = "generate_speech"  -> GenerateSpeech(now, w, c)
      [] c.tool = "run_command"      -> Commands(now, w)
      [] c.tool = "describe_task"    -> DescribeTask
      [] c.tool = "list_skills"      -> ListSkills
      [] c.tool = "search_skills"    -> SearchSkills
      [] c.tool = "read_skill"       -> ReadSkill
      [] c.tool = "read_skill_file"  -> ReadSkillFile
      [] c.tool \in {"list_mcp_resources", "list_mcp_prompts"} -> ListServerCatalog
      [] c.tool = "read_mcp_resource" -> ReadServerResource
      [] c.tool = "read_mcp_prompt"  -> ReadServerPrompt
      [] c.tool = "mcp_tool"         -> CallMcpTool
      [] OTHER                       -> Answered

-----------------------------------------------------------------------------
(* dispatchPendingTools: in their order, each call that conflicts with none *)
(* that runs.                                                              *)
Waiting(calls) == {i \in DOMAIN calls : ~calls[i].started}
Unfinished(calls) == {i \in DOMAIN calls : calls[i].started /\ ~calls[i].finished}
Starts(now, t, calls, starts) ==
    \A k \in Waiting(calls) :
        k \in starts <=> \A j \in Unfinished(calls) \cup {i \in starts : i < k} :
                            ~Conflict(Touches(now, t, calls[j].call), Touches(now, t, calls[k].call))

(* What there is beside what the file system is asked: the files, what is at *)
(* work, and the commands.                                                 *)
Beside == [tree |-> tree, work |-> work, commands |-> commands, running |-> running]
Leaves(beside) ==
    /\ tree' = beside.tree /\ work' = beside.work
    /\ commands' = beside.commands /\ running' = beside.running

Forgets(cs, ids) == [id \in DOMAIN cs \ ids |-> cs[id]]
Remembers(cs, shells) ==
    LET ids == {IdOf(w) : w \in shells} IN
    [id \in ids \cup DOMAIN cs |-> IF id \in ids THEN CHOOSE w \in shells : IdOf(w) = id ELSE cs[id]]

InOrder(S) ==
    {order \in [1..Cardinality(S) -> S] :
        Range(order) = S /\ \A i, j \in DOMAIN order : i < j => order[i] < order[j]}

(* invoke, for each call that starts: the registry remembers the commands   *)
(* by their ids, and tells who asks about its task what it was told last.   *)
Dispatch(t, calls, n, beside) ==
    LET who(i) == [Who(t, i) EXCEPT !.turn = n]
        begun(i) == Begun(beside.tree, who(i), calls[i].call)
    IN  \E starts \in SUBSET Waiting(calls) :
            LET at(stage) == {i \in starts : begun(i).stage = stage}
                shells == {who(i) : i \in at("command")}
            IN  /\ Starts(beside.tree, t, calls, starts)
                /\ turn' = [turn EXCEPT ![t] = [i \in DOMAIN calls |-> [calls[i] EXCEPT !.started = @ \/ i \in starts]]]
                /\ \E order \in InOrder(at("files")) : jobs' = jobs \o [i \in DOMAIN order |-> begun(order[i]).job]
                /\ Leaves([tree |-> beside.tree,
                           work |-> beside.work \cup {[who |-> who(i), stage |-> begun(i).stage, call |-> calls[i].call] :
                                                          i \in starts \ (at("files") \cup at("command"))},
                           commands |-> Remembers(beside.commands, shells),
                           running |-> beside.running \cup shells])
                /\ told' = IF \E i \in starts : calls[i].call.tool = "describe_task"
                           THEN [told EXCEPT ![t] = context] ELSE told

-----------------------------------------------------------------------------
(* startAgentExecution: the registry learns which task it works for.        *)
StartRun(t) ==
    /\ t \notin live /\ run[t] < MaxRuns
    /\ run' = [run EXCEPT ![t] = @ + 1]
    /\ live' = live \cup {t}
    /\ context' = t
    /\ UNCHANGED <<tree, jobs, answers, asked, turn, work, commands, running, told, overrun>>

AskForTools(t, calls) ==
    /\ t \in live /\ turn[t] = <<>> /\ asked[t] < MaxTurns
    /\ asked' = [asked EXCEPT ![t] = @ + 1]
    /\ Dispatch(t, [i \in DOMAIN calls |-> [call |-> calls[i], started |-> FALSE, finished |-> FALSE]], asked[t] + 1, Beside)
    /\ UNCHANGED <<answers, run, live, context, overrun>>

(* completeToolCall: the first call of the turn that has the id and waits;  *)
(* an answer nobody waits for changes nothing.                             *)
Pending(w) ==
    IF w.task \in live /\ w.run = run[w.task]
    THEN {i \in DOMAIN turn[w.task] :
             turn[w.task][i].started /\ ~turn[w.task][i].finished /\ IdOf(Who(w.task, i)) = IdOf(w)}
    ELSE {}

(* The last answer of a turn ends it; any other lets those that waited for  *)
(* it begin.                                                               *)
Complete(w, beside) ==
    LET calls == [turn[w.task] EXCEPT ![Min(Pending(w))].finished = TRUE] IN
    IF Pending(w) = {} THEN Leaves(beside) /\ UNCHANGED <<turn, jobs, told>>
    ELSE IF \A i \in DOMAIN calls : calls[i].finished
    THEN turn' = [turn EXCEPT ![w.task] = <<>>] /\ Leaves(beside) /\ UNCHANGED <<jobs, told>>
    ELSE Dispatch(w.task, calls, asked[w.task], beside)

(* applyEdit: a passage that was found is replaced, and the whole written.   *)
ApplyEdit(answer) ==
    LET call == answer.job.why
        edited == (answer.text \ {call.old}) \cup {call.new}
    IN  /\ answer.ok /\ answer.job.op = "read" /\ call.tool = "edit_file" /\ call.old \in answer.text
        /\ jobs' = Append(jobs, Job(answer.job.who, [call EXCEPT !.seen = answer.text], "write", call.path, call.to, edited))
        /\ UNCHANGED <<tree, turn, work, commands, running, told>>

(* The file system answered.                                               *)
Hear ==
    /\ answers # <<>> /\ answers' = Tail(answers)
    /\ ApplyEdit(Head(answers)) \/ Complete(Head(answers).job.who, Beside)
    /\ UNCHANGED <<run, live, asked, context, overrun>>

(* writeGeneratedFile: the file is emptied and then written, by this        *)
(* thread, and nobody looks at how much of it was.                         *)
Generated(p, text) ==
    IF tree[p].kind = "directory" \/ Blocked(tree, p) THEN Refused(tree)
    ELSE LET levels == WithLevels(tree, Above(p)) IN
         Refused(tree) \cup {Outcome(levels, FALSE, {}), Outcome([levels EXCEPT ![p] = File(text)], TRUE, {}),
                             Outcome([levels EXCEPT ![p] = File({})], TRUE, {})}

(* A service, a worker, or an answer given at once.                         *)
WorkEnds(w) ==
    /\ w \in work
    /\ LET rest == [Beside EXCEPT !.work = @ \ {w}] IN
       \/ /\ w.stage \in {"answered", "worker", "network", "catalog", "server"}
          /\ Complete(w.who, rest)
       \/ /\ w.stage = "catalog" /\ w.call.tool \in {"read_skill", "read_skill_file"}
          /\ Leaves(rest)
          /\ jobs' = Append(jobs, Job(w.who, w.call, "read", w.call.path, w.call.path, {}))
          /\ UNCHANGED <<turn, told>>
       \/ /\ w.stage = "network" /\ w.call.tool # "generate_speech"
          /\ Leaves([rest EXCEPT !.work = @ \cup {[w EXCEPT !.stage = "decoding"]}])
          /\ UNCHANGED <<turn, jobs, told>>
       \/ /\ w.stage = "decoding" /\ w.call.tool # "generate_image"
          /\ Complete(w.who, rest)
       \/ /\ \/ w.stage = "network" /\ w.call.tool = "generate_speech"
             \/ w.stage = "decoding" /\ w.call.tool = "generate_image"
          /\ \E outcome \in Generated(w.call.path, {w.call.new}) : Complete(w.who, [rest EXCEPT !.tree = outcome.tree])
    /\ UNCHANGED <<answers, run, live, asked, context, overrun>>

(* finished and failed of the runner: its id is forgotten.                  *)
CommandEnds(w) ==
    /\ w \in running
    /\ Complete(w, [Beside EXCEPT !.commands = Forgets(@, {IdOf(w)}), !.running = @ \ {w}])
    /\ UNCHANGED <<answers, run, live, asked, context, overrun>>

(* deadlineMsFor: what a call waits for is given up after five minutes; a    *)
(* command is stopped by its own limit as long before.                     *)
Deadline(t, i) ==
    /\ t \in live /\ i \in DOMAIN turn[t]
    /\ turn[t][i].started /\ ~turn[t][i].finished /\ turn[t][i].call.tool # "run_command"
    /\ Complete(Who(t, i), Beside)
    /\ overrun' = overrun \cup {t}
    /\ UNCHANGED <<answers, run, live, asked, context>>

-----------------------------------------------------------------------------
(* cancel: the command the id stands for stops, whosever it is.             *)
Stopped(ids) == {commands[id] : id \in ids \cap DOMAIN commands}

\* Mutant of EndRun: the commands of the turn run on.
EndRunOnly(t) ==
    /\ t \in live
    /\ live' = live \ {t}
    /\ turn' = [turn EXCEPT ![t] = <<>>]
    /\ overrun' = overrun \cup {t}
    /\ UNCHANGED <<tree, jobs, answers, run, asked, work, commands, running, context, told>>

(* completeExecution, after an answer, a failure or a stop: what is left of *)
(* the turn goes, its commands are cancelled, and the rest works on.        *)
(* Whoever waits for a command that stops is answered right after.          *)
EndRun(t) ==
    LET ids == {IdOf(Who(t, i)) : i \in {j \in DOMAIN turn[t] : turn[t][j].started /\ ~turn[t][j].finished}} IN
    /\ t \in live
    /\ live' = live \ {t}
    /\ turn' = [turn EXCEPT ![t] = <<>>]
    /\ Leaves([Beside EXCEPT
               !.work = @ \cup {[who |-> w, stage |-> "answered", call |-> Call("run_command", RootOf[w.task])] :
                                       w \in {v \in Stopped(ids) : v.task # t}},
               !.commands = Forgets(@, ids), !.running = @ \ Stopped(ids)])
    /\ overrun' = IF turn[t] = <<>> THEN overrun ELSE overrun \cup {t}
    /\ UNCHANGED <<jobs, answers, run, asked, context, told>>

-----------------------------------------------------------------------------
ToolsInit ==
    /\ tree = [p \in Paths |-> IF \E t \in Tasks : IsPrefix(p, RootOf[t]) THEN Directory
                               ELSE IF p = <<"w", "f">> THEN File({"x"}) ELSE Absent]
    /\ jobs = <<>> /\ answers = <<>>
    /\ run = [t \in Tasks |-> 0] /\ live = {} /\ asked = [t \in Tasks |-> 0] /\ turn = [t \in Tasks |-> <<>>]
    /\ work = {} /\ commands = <<>> /\ running = {} /\ context = None
    /\ told = [t \in Tasks |-> t] /\ overrun = {}

ToolsNext ==
    \/ \E t \in Tasks : StartRun(t) \/ EndRun(t) \/ \E calls \in Turns[t] : AskForTools(t, calls)
    \/ RunJob /\ UNCHANGED toolVars
    \/ Hear
    \/ \E w \in work : WorkEnds(w)
    \/ \E w \in running : CommandEnds(w)
    \/ \E t \in Tasks : \E i \in DOMAIN turn[t] : Deadline(t, i)

-----------------------------------------------------------------------------
(* What is at work for a call, wherever it is.                              *)
AtWork == {w.who : w \in work} \cup {jobs[i].who : i \in DOMAIN jobs}
              \cup {answers[i].job.who : i \in DOMAIN answers} \cup running

(* Type invariant: the files are a tree, every call that waits for an       *)
(* answer has something at work that will give it, and no call is at work   *)
(* twice.                                                                  *)
ToolsTypeOK ==
    /\ IsTree(tree) /\ live \subseteq Tasks
    /\ \A t \in Tasks : \A i \in DOMAIN turn[t] :
           turn[t][i].started /\ ~turn[t][i].finished => Who(t, i) \in AtWork

(* What a call looked at is still so when its job is done: an edit is        *)
(* written over the text it read, and a directory that goes without its     *)
(* contents being asked for has none.  The calls of one turn never disturb  *)
(* each other (toolAccessesConflict), unless one was given up at work.      *)
WhatWasSeenStillHolds ==
    jobs # <<>> /\ Head(jobs).who.task \notin overrun =>
        LET job == Head(jobs) IN
        /\ job.op = "write" /\ job.why.tool = "edit_file" => tree[job.path] = File(job.why.seen)
        /\ job.op = "empty" /\ ~job.why.all => \A q \in Below(job.path) : ~Exists(tree, q)

(* A command runs only for the run that started it, and no longer (cancel). *)
CommandsEndWithTheirRun == \A w \in running : w.task \in live /\ w.run = run[w.task]

(* Whoever asks about its task is told of its own (describeTask).           *)
TaskToldIsItsOwn == \A t \in Tasks : told[t] = t
=============================================================================
