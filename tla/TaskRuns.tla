------------------------------ MODULE TaskRuns ------------------------------
(***************************************************************************)
(* The task runtime of the AI plugin (ai/AiPlugin.cpp): the board of tasks, *)
(* the queue of the ones that wait for room, the runs, and the writes that  *)
(* keep both in the database (ai/AiTaskRepository.cpp).                    *)
(*                                                                         *)
(* Everything runs on the interactive thread except the writes, which one   *)
(* worker executes in the order they were asked for and whose results come  *)
(* back to the interactive thread in that order.  A write and what is done  *)
(* with its result are one step here: between the two the worker's other    *)
(* writes change nothing the result depends on.  A task's rows of history   *)
(* (executions, logs) are left out, and so is what a turn says: of a        *)
(* conversation only whether it holds a message no turn has carried.        *)
(***************************************************************************)
EXTENDS Integers, FiniteSets, SequencesExt

CONSTANTS
    Tasks,
    Agents,       \* the tasks an agent runs; the others run a command
    Scheduled,    \* the tasks with an interval or a cron schedule
    Limit,        \* parallelExecutions, 0 for no limit
    MaxOps,       \* bound: writes in flight before somebody asks for more
    MaxTroubles   \* bound: messages, failures, crashes, removed workspaces, and
                  \* requests and schedules with a write of their task in flight

ASSUME TaskAssumption ==
    /\ Agents \subseteq Tasks /\ Scheduled \subseteq Tasks
    /\ IsFiniteSet(Tasks)
    /\ Limit \in Nat /\ MaxOps \in Nat /\ MaxTroubles \in Nat

Columns == {"todo", "doing", "done"}    \* Review, which only the user moves to, is another Done
Kinds == {"note", "prompt", "enqueue", "cancel", "complete", "move", "save", "remove", "reload"}
Operations == [kind : Kinds, task : Tasks, column : Columns, timed : BOOLEAN]

(* A request with a write of its task in flight is haste, and so is a schedule *)
(* that crosses a write the user asked for; one that crosses what a run of its  *)
(* task writes by itself is a race.                                        *)
Troubles == {"message", "fault", "crash", "reload", "haste", "race"}

VARIABLES
    known,      \* m_tasks, and the rows of ai_tasks_tasks
    column,     \* the column of each task of the board
    queue,      \* m_queue
    active,     \* m_active
    workers,    \* the tasks with a client or a runner that still works
    carried,    \* the running agents that have sent a turn
    unread,     \* tasks with a message after the last one a turn carried
    due,        \* scheduled tasks whose next run has come
    ops,        \* the writes in flight
    kept,       \* the column of each in the database
    rows,       \* the rows of ai_tasks_queue
    asked,      \* history: tasks with a run asked for that has not started
    owed,       \* history: tasks whose last message has to open a turn
    raced,      \* history: tasks whose schedule came due while a run of theirs was
                \* being written down, until they leave the queue of the database
    troubles    \* history: how many there were of each kind

board == <<known, column>>
runs == <<queue, asked, active, workers, carried>>
talk == <<unread, owed>>
queues == <<queue, asked>>
disk == <<kept, rows>>
vars == <<board, runs, talk, due, ops, disk, raced, troubles>>

Init ==
    /\ known = Tasks
    /\ column = [t \in Tasks |-> "todo"] /\ kept = column
    /\ queue = <<>> /\ active = {} /\ workers = {} /\ carried = {}
    /\ unread = {} /\ asked = {} /\ owed = {} /\ due = {} /\ raced = {}
    /\ ops = <<>> /\ rows = {}
    /\ troubles = [k \in Troubles |-> 0]

Op(kind, t, c) == [kind |-> kind, task |-> t, column |-> c, timed |-> FALSE]
Waiting == ToSet(queue)

(* The elements of a queue that are in S, in their order.                   *)
Those(q, S) ==
    LET at == {i \in DOMAIN q : q[i] \in S} IN
    [n \in 1..Cardinality(at) |-> q[CHOOSE i \in at : Cardinality({j \in at : j <= i}) = n]]

Without(q, t) == Those(q, ToSet(q) \ {t})

(* runState(t) = Idle                                                      *)
Idle(t) == t \notin active /\ t \notin Waiting

Meets(kind, n) ==
    /\ troubles' = [troubles EXCEPT ![kind] = @ + n]
    /\ troubles["message"] + troubles["fault"] + troubles["crash"] + troubles["reload"] + troubles["haste"]
         + troubles["race"] + n <= MaxTroubles

(* Somebody asks for something about the tasks in S.                       *)
InFlight(S) == \E i \in DOMAIN ops : ops[i].task \in S /\ ops[i].kind # "reload"

Asks(S) ==
    /\ S \subseteq known /\ Len(ops) < MaxOps
    /\ IF InFlight(S) THEN Meets("haste", 1) ELSE UNCHANGED troubles

-----------------------------------------------------------------------------
(* dispatchQueue over a queue q while the tasks in busy run: each task that *)
(* is known and not running starts while there is room.  The ones in        *)
(* "failing" cannot start (no agent, no connection, no working directory)   *)
(* and complete at once, which leaves their room to the next one.           *)
First(q, t) == CHOOSE i \in DOMAIN q : q[i] = t /\ \A j \in 1..i-1 : q[j] # t
Ahead(q, t, u) == First(q, u) < First(q, t)
Candidates(q, busy) == {t \in ToSet(q) \cap known : t \notin busy}

\* Mutant of Chosen: room is looked for before the queue and not at each task.
ChosenAtOnce(q, busy, failing) ==
    {t \in Candidates(q, busy) : Limit = 0 \/ Cardinality(busy) < Limit}

Chosen(q, busy, failing) ==
    {t \in Candidates(q, busy) :
        Limit = 0 \/ Cardinality(busy)
          + Cardinality({u \in Candidates(q, busy) \ failing : Ahead(q, t, u)}) < Limit}

\* Mutant of DispatchQueue: what starts stays in the queue.
DispatchQueueKeeping(q, busy, alive, out) ==
    LET chosen == Chosen(q, busy, {}) IN
    /\ active' = busy \cup chosen /\ workers' = alive \cup chosen
    /\ queue' = q /\ ops' = out
    /\ asked' = asked \ chosen /\ owed' = owed \ chosen
    /\ UNCHANGED troubles

DispatchQueue(q, busy, alive, out) ==
    \E failing \in SUBSET Candidates(q, busy) :
       LET chosen == Chosen(q, busy, failing)
           inOrder == Those(q, failing) IN
       /\ failing \subseteq chosen
       /\ \A t \in failing : Cardinality({i \in DOMAIN q : q[i] = t}) = 1
       /\ Meets("fault", Cardinality(failing))
       /\ active' = busy \cup (chosen \ failing)
       /\ workers' = alive \cup (chosen \ failing)
       /\ queue' = Those(q, ToSet(q) \ chosen)
       /\ ops' = out \o [i \in DOMAIN inOrder |-> Op("complete", inOrder[i], "todo")]
       /\ asked' = asked \ chosen /\ owed' = owed \ chosen

(* completeExecution: the run and its worker are gone at once, the column   *)
(* and the queue row when the write is done.                                *)
Completed(t, target) ==
    /\ active' = active \ {t} /\ workers' = workers \ {t}
    /\ carried' = carried \ {t}
    /\ ops' = Append(ops, Op("complete", t, target))

(* enqueueRun, with a queue q of writes before it.                          *)
Enqueued(t, before, timed) ==
    /\ queue' = Append(queue, t) /\ asked' = asked \cup {t}
    /\ column' = [column EXCEPT ![t] = "doing"]
    /\ ops' = Append(before, [kind |-> "enqueue", task |-> t,
                              column |-> column[t], timed |-> timed])

-----------------------------------------------------------------------------
(* What the user asks for.                                                 *)

(* startTask: a command is queued at once; an agent's prompt is recorded    *)
(* first, and the task queued when that is written.                        *)
StartCommand(t) ==
    /\ Asks({t}) /\ Idle(t) /\ t \notin Agents
    /\ Enqueued(t, ops, FALSE)
    /\ UNCHANGED <<known, active, workers, carried, talk, due, disk, raced>>

StartAgent(t) ==
    /\ Asks({t}) /\ Idle(t) /\ t \in Agents
    /\ unread' = unread \cup {t}
    /\ ops' = Append(ops, Op("prompt", t, "todo"))
    /\ UNCHANGED <<board, runs, owed, due, disk, raced>>

(* sendMessage: opens a run of an idle task, joins the conversation of      *)
(* another.                                                                *)
SendMessage(t) ==
    /\ t \in Agents \cap known /\ Len(ops) < MaxOps
    /\ Meets("message", 1)
    /\ unread' = unread \cup {t}
    /\ ops' = Append(ops, Op(IF Idle(t) THEN "prompt" ELSE "note", t, "todo"))
    /\ UNCHANGED <<board, runs, owed, due, disk, raced>>

\* stopTask; it may be asked for whatever is in flight.
StopTask(t) ==
    /\ t \in known /\ ~Idle(t) /\ Len(ops) < MaxOps
    /\ ops' = Append(ops, Op("cancel", t, "todo"))
    /\ UNCHANGED <<board, runs, talk, due, disk, raced, troubles>>

(* moveTask; a move to Doing is a start, and that of a task that is not     *)
(* idle a stop.                                                            *)
MoveTask(t, c) ==
    /\ Asks({t}) /\ Idle(t) /\ c \notin {"doing", column[t]}
    /\ ops' = Append(ops, Op("move", t, c))
    /\ UNCHANGED <<board, runs, talk, due, disk, raced>>

(* saveTask of a task that exists.                                         *)
SaveTask(t) ==
    /\ Asks({t}) /\ Idle(t)
    /\ ops' = Append(ops, Op("save", t, column[t]))
    /\ UNCHANGED <<board, runs, talk, due, disk, raced>>

RemoveTask(t) ==
    /\ Asks({t}) /\ Idle(t)
    /\ ops' = Append(ops, Op("remove", t, "todo"))
    /\ UNCHANGED <<board, runs, talk, due, disk, raced>>

(* removeWorkspace of a workspace that holds none of the tasks.            *)
RemoveWorkspace ==
    /\ Len(ops) < MaxOps /\ Meets("reload", 1)
    /\ \E t \in Tasks : ops' = Append(ops, Op("reload", t, "todo"))
    /\ UNCHANGED <<board, runs, talk, due, disk, raced>>

-----------------------------------------------------------------------------
(* The schedule timer.                                                     *)
ComesDue(t) ==
    /\ t \in Scheduled \cap known /\ t \notin due
    /\ due' = due \cup {t}
    /\ UNCHANGED <<board, runs, talk, ops, disk, raced, troubles>>

(* The writes in flight of what the user asks for of a task that is idle.   *)
UserWrites(S) ==
    \E i \in DOMAIN ops : ops[i].task \in S /\ ops[i].kind \in {"prompt", "move", "save", "remove"}

(* processSchedules: every due task that is idle is queued, its schedule    *)
(* advanced, whatever of it is still being written (armScheduleTimer waits   *)
(* for nothing).  (Their order is that of the board.)                       *)
ProcessSchedules ==
    LET fired == {t \in due \cap known : Idle(t)}
        inOrder == SetToSeq(fired) IN
    /\ fired # {} /\ Len(ops) < MaxOps
    /\ IF UserWrites(fired) THEN Meets("haste", 1)
       ELSE IF InFlight(fired) THEN Meets("race", 1) ELSE UNCHANGED troubles
    /\ raced' = raced \cup {t \in fired : InFlight({t})}
    /\ queue' = queue \o inOrder /\ asked' = asked \cup fired
    /\ column' = [t \in Tasks |-> IF t \in fired THEN "doing" ELSE column[t]]
    /\ ops' = ops \o [i \in DOMAIN inOrder |->
                        [kind |-> "enqueue", task |-> inOrder[i],
                         column |-> column[inOrder[i]], timed |-> TRUE]]
    /\ due' = due \ fired
    /\ UNCHANGED <<known, active, workers, carried, talk, disk>>

-----------------------------------------------------------------------------
(* The runs.                                                               *)

(* continueAgent: a turn carries every message of the conversation.        *)
Turn(t) ==
    /\ t \in active \cap Agents /\ t \notin carried \ unread
    /\ unread' = unread \ {t} /\ carried' = carried \cup {t}
    /\ UNCHANGED <<board, queues, active, workers, owed, due, ops, disk, raced, troubles>>

\* Mutant of FinishCommand: the run is over, its worker is not.
FinishCommandKeepingWorker(t, target) ==
    /\ t \in active \ Agents
    /\ active' = active \ {t}
    /\ ops' = Append(ops, Op("complete", t, target))
    /\ UNCHANGED <<board, queues, workers, carried, talk, due, disk, raced, troubles>>

(* A command ends, well or not.                                            *)
FinishCommand(t, target) ==
    /\ t \in active \ Agents
    /\ Completed(t, target)
    /\ UNCHANGED <<board, queues, talk, due, disk, raced, troubles>>

(* A turn fails, or is cut, or is one too many.                             *)
EndAgent(t, target) ==
    /\ t \in active \cap Agents
    /\ Completed(t, target)
    /\ owed' = owed \ {t}
    /\ UNCHANGED <<board, queues, unread, due, disk, raced, troubles>>

(* The final answer: it is recorded, the run completed, and a message that  *)
(* came after the turn was sent opens the next one                         *)
(* (continueWhenAnswerIsPending).                                          *)
FinishAgent(t) ==
    LET answered == Append(ops, Op("note", t, "todo"))
        completed == Append(answered, Op("complete", t, "done")) IN
    /\ t \in active \cap carried
    /\ active' = active \ {t} /\ workers' = workers \ {t}
    /\ carried' = carried \ {t}
    /\ IF t \in unread /\ t \notin Waiting
       THEN /\ Enqueued(t, completed, FALSE)
            /\ owed' = IF \E i \in DOMAIN ops : ops[i] = Op("cancel", t, "todo")
                       THEN owed ELSE owed \cup {t}
       ELSE ops' = completed /\ UNCHANGED <<queues, column, owed>>
    /\ UNCHANGED <<known, unread, due, disk, raced, troubles>>

-----------------------------------------------------------------------------
(* A write is done, and its result comes back.                             *)
Result(kind) == ops # <<>> /\ Head(ops).kind = kind
Answered == Head(ops).task

Fails == Meets("fault", 1)

\* appendConversation of a message alone.
NoteStored ==
    /\ Result("note") /\ Answered \in known
    /\ ops' = Tail(ops)
    /\ UNCHANGED <<board, runs, talk, due, disk, raced, troubles>>

(* The write fails, or the task is gone: the message is taken back, and the run that goes on, if any, ends.       *)
MessageFails ==
    LET t == Answered IN
    /\ Result("note") \/ Result("prompt")
    /\ \/ t \notin known /\ UNCHANGED troubles
       \/ Fails
    /\ unread' \in {unread, unread \ {t}}
    /\ ops' = Tail(ops) \o IF t \in active THEN <<Op("complete", t, "todo")>> ELSE <<>>
    /\ active' = active \ {t} /\ workers' = IF t \in active THEN workers \ {t} ELSE workers
    /\ carried' = carried \ {t}
    /\ owed' = owed \ {t}
    /\ UNCHANGED <<board, queues, due, disk, raced>>

(* The message that opens a run is written: enqueueRun.                     *)
PromptStored ==
    LET t == Answered IN
    /\ Result("prompt") /\ t \in known
    /\ Enqueued(t, Tail(ops), FALSE)
    /\ UNCHANGED <<known, active, workers, carried, talk, due, disk, raced, troubles>>

\* Mutant of EnqueueStored: a run that starts leaves the queue of the database.
EnqueueStoredTakingRows ==
    LET t == Answered IN
    /\ Result("enqueue") /\ t \in known \ rows
    /\ kept' = [kept EXCEPT ![t] = "doing"]
    /\ DispatchQueue(queue, active, workers, Tail(ops))
    /\ rows' = (rows \cup {t}) \ active'
    /\ UNCHANGED <<board, carried, unread, due, raced>>

(* enqueueTask: a new row, refused when the task has one or is gone.        *)
EnqueueStored ==
    LET t == Answered IN
    /\ Result("enqueue") /\ t \in known \ rows
    /\ rows' = rows \cup {t} /\ kept' = [kept EXCEPT ![t] = "doing"]
    /\ DispatchQueue(queue, active, workers, Tail(ops))
    /\ UNCHANGED <<board, carried, unread, due, raced>>

EnqueueRefused ==
    LET t == Answered IN
    /\ Result("enqueue")
    /\ \/ t \notin known \ rows /\ UNCHANGED troubles
       \/ Fails
    /\ queue' = Without(queue, t) /\ asked' = asked \ {t}
    /\ column' = IF t \in known THEN [column EXCEPT ![t] = Head(ops).column] ELSE column
    /\ due' = IF Head(ops).timed THEN due \cup {t} ELSE due
    /\ ops' = Tail(ops)
    /\ UNCHANGED <<known, active, workers, carried, talk, disk, raced>>

(* The row of a task leaves the queue of the database, by the last write of it. *)
TakesItsRow(t) ==
    raced' = IF t \in active \/ \E i \in DOMAIN Tail(ops) : Tail(ops)[i].task = t THEN raced ELSE raced \ {t}

(* cancelTask: the run, if there is one, completes as cancelled.            *)
CancelStored ==
    LET t == Answered IN
    /\ Result("cancel")
    /\ rows' = rows \ {t}
    /\ kept' = IF t \in known THEN [kept EXCEPT ![t] = "todo"] ELSE kept
    /\ column' = IF t \in known THEN [column EXCEPT ![t] = "todo"] ELSE column
    /\ carried' = carried \ {t}
    /\ DispatchQueue(Without(queue, t), active \ {t},
          IF t \in active THEN workers \ {t} ELSE workers,
          Tail(ops) \o IF t \in active THEN <<Op("complete", t, "todo")>> ELSE <<>>)
    /\ TakesItsRow(t)
    /\ UNCHANGED <<known, unread, due>>

\* Mutants of CompleteStored: the row of the queue is left where it is; the
\* room of the run that ended is given to nobody.
CompleteStoredKeepingRow ==
    LET t == Answered
        target == Head(ops).column IN
    /\ Result("complete")
    /\ kept' = [kept EXCEPT ![t] = target] /\ column' = [column EXCEPT ![t] = target]
    /\ DispatchQueue(Without(queue, t), active, workers, Tail(ops))
    /\ UNCHANGED <<known, carried, unread, due, rows, raced>>

CompleteStoredQuietly ==
    LET t == Answered
        target == Head(ops).column IN
    /\ Result("complete")
    /\ kept' = [kept EXCEPT ![t] = target] /\ column' = [column EXCEPT ![t] = target]
    /\ rows' = rows \ {t} /\ queue' = Without(queue, t) /\ ops' = Tail(ops)
    /\ UNCHANGED <<known, asked, active, workers, carried, talk, due, raced, troubles>>

(* completeTask: the task leaves the queue and goes to its column.          *)
CompleteStored ==
    LET t == Answered
        target == Head(ops).column IN
    /\ Result("complete")
    /\ rows' = rows \ {t}
    /\ kept' = IF t \in known THEN [kept EXCEPT ![t] = target] ELSE kept
    /\ column' = IF t \in known THEN [column EXCEPT ![t] = target] ELSE column
    /\ DispatchQueue(Without(queue, t), active, workers, Tail(ops))
    /\ TakesItsRow(t)
    /\ UNCHANGED <<known, carried, unread, due>>

MoveStored ==
    LET t == Answered IN
    /\ Result("move")
    /\ kept' = IF t \in known THEN [kept EXCEPT ![t] = Head(ops).column] ELSE kept
    /\ column' = IF t \in known THEN [column EXCEPT ![t] = Head(ops).column] ELSE column
    /\ ops' = Tail(ops)
    /\ UNCHANGED <<known, runs, talk, due, rows, raced, troubles>>

(* saveTask deletes the row and inserts it again, which deletes the row of  *)
(* the queue that refers to it; a task that was removed comes back.         *)
SaveStored ==
    LET t == Answered IN
    /\ Result("save")
    /\ known' = known \cup {t}
    /\ kept' = [kept EXCEPT ![t] = Head(ops).column]
    /\ column' = [column EXCEPT ![t] = Head(ops).column]
    /\ rows' = rows \ {t}
    /\ ops' = Tail(ops)
    /\ TakesItsRow(t)
    /\ UNCHANGED <<runs, talk, due, troubles>>

(* removeTask and forgetTask, which ends no run.                           *)
RemoveStored ==
    LET t == Answered IN
    /\ Result("remove")
    /\ known' = known \ {t} /\ rows' = rows \ {t}
    /\ active' = active \ {t} /\ queue' = Without(queue, t) /\ asked' = asked \ {t}
    /\ carried' = carried \ {t}
    /\ unread' = unread \ {t} /\ owed' = owed \ {t} /\ due' = due \ {t}
    /\ ops' = Tail(ops)
    /\ TakesItsRow(t)
    /\ UNCHANGED <<column, workers, kept, troubles>>

(* What a read of the database finds: the tasks of the queue in some order  *)
(* and then those in Doing that the queue does not have (reloadState).      *)
Stored ==
    LET doing == {t \in known : kept[t] = "doing"} IN
    UNION {{q \o r : r \in SetToSeqs(doing \ rows)} : q \in SetToSeqs(rows)}

(* The workspace is gone: board and queue are read again, whatever runs and *)
(* whatever is not written yet.                                            *)
WorkspaceRemoved ==
    /\ Result("reload")
    /\ queue' \in Stored /\ column' = kept
    /\ ops' = Tail(ops)
    /\ UNCHANGED <<known, asked, active, workers, carried, talk, due, disk, raced, troubles>>

(* Any other write that fails is reported, and nothing else is done.        *)
OtherFails ==
    /\ ops # <<>> /\ Head(ops).kind \in {"cancel", "complete", "move", "save", "remove", "reload"}
    /\ Fails
    /\ ops' = Tail(ops)
    /\ UNCHANGED <<board, runs, talk, due, disk, raced>>

-----------------------------------------------------------------------------
(* The program dies and is started again (reloadState, then dispatchQueue): *)
(* the writes in flight are lost, what was queued or running is queued.     *)
(* A shutdown, which waits for the writes, loses none of them; it is a      *)
(* crash after their results.                                              *)
Crash ==
    LET late == {ops[i].task : i \in {j \in DOMAIN ops : ops[j].timed}} IN
    /\ column' = kept
    /\ \E all \in Stored :
          LET free == IF Limit = 0 \/ Limit > Len(all) THEN Len(all) ELSE Limit IN
          /\ active' = ToSet(SubSeq(all, 1, free)) /\ workers' = active'
          /\ queue' = SubSeq(all, free + 1, Len(all))
    /\ asked' = ToSet(queue')
    /\ carried' = {} /\ unread' = {} /\ owed' = {}
    /\ due' = (due \cup late) \cap known
    /\ ops' = <<>> /\ raced' = {}
    /\ Meets("crash", 1)
    /\ UNCHANGED <<known, disk>>

User ==
    \E t \in Tasks :
       \/ StartCommand(t) \/ StartAgent(t) \/ SendMessage(t) \/ StopTask(t)
       \/ SaveTask(t) \/ RemoveTask(t)
       \/ \E c \in {"todo", "done"} : MoveTask(t, c)

Ends(t) ==
    \/ \E target \in {"done", "todo"} : FinishCommand(t, target) \/ EndAgent(t, target)
    \/ FinishAgent(t)

Deliver ==
    \/ NoteStored \/ PromptStored \/ EnqueueStored \/ CancelStored
    \/ CompleteStored \/ MoveStored \/ SaveStored \/ RemoveStored
    \/ WorkspaceRemoved

Refuse == MessageFails \/ EnqueueRefused \/ OtherFails

Next ==
    \/ User \/ RemoveWorkspace \/ ProcessSchedules \/ Deliver \/ Refuse \/ Crash
    \/ \E t \in Tasks : ComesDue(t) \/ Turn(t) \/ Ends(t)

Spec == Init /\ [][Next]_vars

(* The worker answers every write (it executes its queue until it is empty) *)
(* and every run ends, which the user may have to see to: a command without *)
(* a time limit and an agent without a limit of turns end when they like.   *)
Fairness == WF_vars(Deliver \/ Refuse) /\ \A t \in Tasks : WF_vars(Turn(t) \/ Ends(t))

LiveSpec == Spec /\ Fairness

-----------------------------------------------------------------------------
(* Every variable has its type, and a run is one of a task of the board or  *)
(* of one that was removed under it.                                       *)
TypeOK ==
    /\ known \subseteq Tasks /\ rows \subseteq known
    /\ column \in [Tasks -> Columns] /\ kept \in [Tasks -> Columns]
    /\ queue \in Seq(Tasks) /\ ops \in Seq(Operations)
    /\ active \subseteq known /\ workers \subseteq Tasks
    /\ carried \subseteq active \cap Agents
    /\ unread \subseteq Tasks /\ asked \subseteq Tasks /\ owed \subseteq Tasks /\ due \subseteq Scheduled
    /\ raced \subseteq Scheduled

(* What follows is about a user who, for one task, waits for the writes in  *)
(* flight, while nothing failed, no message was typed, no workspace removed   *)
(* and no schedule came due in the middle of a start, a move, a save or a     *)
(* removal of its task.  Crashes, stops, other tasks and schedules that come  *)
(* due at any other time are in.                                           *)
Undisturbed == \A k \in Troubles \ {"crash", "race"} : troubles[k] = 0

(* Once every write is done, the database says what the board says: whatever *)
(* waits or runs is a row of the queue, and a task waits only when there is   *)
(* no room: no end of a run, and no stop, leaves the next one without its     *)
(* dispatch.  The other way round, every row is of what waits or runs, and     *)
(* every task is in its column: but for one whose schedule came due while a   *)
(* run of it was written down, since the result of that write takes the new   *)
(* run out of the queue and leaves its row (completeExecution, stopTask).     *)
SettlesToStorage ==
    Undisturbed /\ ops = <<>> =>
       /\ Waiting \cup active \subseteq rows /\ rows \subseteq Waiting \cup active \cup raced
       /\ \A t \in known \ raced : column[t] = kept[t]
       /\ queue # <<>> => Limit # 0 /\ Cardinality(active) >= Limit

(* A task that waits or runs is queued again after a crash, now or once the *)
(* write that queues it is done: its row goes with its last write only.     *)
RunSurvivesCrash ==
    Undisturbed => \A t \in Waiting \cup active :
       \/ t \in rows
       \/ \E i \in DOMAIN ops : ops[i].kind = "enqueue" /\ ops[i].task = t

(* No more runs at a time than the setting allows, whoever starts, stops,   *)
(* fails or is restarted.                                                  *)
WithinLimit == Limit # 0 => Cardinality(active) <= Limit

(* A run starts only for a request: one start, one schedule that came due,  *)
(* one message; AiPlugin.cpp:2451 has an occurrence leave its schedule early *)
(* so that nothing "would dispatch it once more".                           *)
StartsWhatWasAsked ==
    [][Undisturbed' /\ troubles' = troubles => active' \ active \subseteq asked]_vars

(* A task that waits starts, or is taken out of the queue.                  *)
QueueMoves ==
    \A t \in Tasks : (Undisturbed /\ t \in Waiting) ~> ~(Undisturbed /\ t \in Waiting)

(* AiPlugin.cpp:1158, "A task that is gone leaves nothing behind": what     *)
(* works, works for a run of a task of the board, or of one that TypeOK     *)
(* allows.                                                                 *)
NothingLeftBehind == TypeOK /\ (Undisturbed => workers = active)

(* Every run has its end and no more than that: a crash loses none that was  *)
(* asked for, nothing works on for a task that is gone, and no more of them  *)
(* run than the setting allows.                                             *)
RunsEndWhole == RunSurvivesCrash /\ NothingLeftBehind /\ WithinLimit

(* README.md:179, a message "that arrives while the final answer is being   *)
(* written opens the turn after it": it waits in the queue until then.      *)
MessageOpensTurn == owed \subseteq Waiting
=============================================================================
