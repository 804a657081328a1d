------------------------------ MODULE TaskViews ------------------------------
(***************************************************************************)
(* What is seen of the assistant's tasks, which are two machines beside       *)
(* each other.                                                             *)
(*                                                                         *)
(* BoardNext: the board (ai/AiTasksView.cpp, ai/AiTaskDialog.cpp), its tabs    *)
(* and its cards, over what AiPlugin.cpp holds of the workspaces and the       *)
(* tasks.  A write and its answer are one step, in the order asked.  Every      *)
(* task runs a command, and one runs at a time; TaskRuns has the rest.         *)
(*                                                                         *)
(* SurfaceNext: the window of one agent's task (ai/AiTaskInfoDialog.cpp,       *)
(* ai/AiConversationView.cpp): its runs and their logs, read again while the   *)
(* run writes them, and its conversation.  What is read is what was written    *)
(* before it was asked for, as one thread does both; TaskStore has the pages   *)
(* of a conversation.                                                      *)
(*                                                                         *)
(* Sizes, colours, and where the conversation is scrolled to are left out.     *)
(***************************************************************************)
EXTENDS Integers, FiniteSets, SequencesExt

CONSTANTS
    Items,          \* the tasks there may be
    FirstItems,     \* those there are: [place, column, timed] each
    Places,         \* the workspaces there may be, the first two of which there are, or none
    Strays,         \* whether somebody is faster than the answers, see Calm
    MaxPosted,      \* bound: writes on their way
    MaxActs,        \* bound: what the reader does on the board
    MaxTouches,     \* bound: what the reader selects and scrolls to in the window
    MaxMistakes,    \* bound: writes and reads that fail
    MaxRounds,      \* bound: runs
    MaxLogs,        \* bound: entries of a run
    MaxReads,       \* bound: reads on their way, but for the logs a list of runs asks for
    MaxTalk         \* bound: messages

VARIABLES
    places, here,   \* m_workspaces, and the one of them that is active
    table,          \* m_tasks: task -> [place, column, timed]
    filed, slips,   \* the rows of the tasks and those of the queue
    lined, going,   \* m_queue and m_active
    over,           \* the tasks a run of which has ended (hasLastExecution)
    posted,         \* the writes on their way
    tabs, tab,      \* the tabs of the board, and its current one
    cards,          \* m_cards: task -> [task, column, badge]
    question,       \* the dialog that is open
    unheard,        \* history: tasks whose end of a run was not written
    strayed,        \* history: a tab was not made active
    acts, mistakes, \* bounds
    opened,         \* the window is open
    live, current,       \* the task waits or runs; the run it does, 0 for none
    late,           \* whether its end is still to be told: "no", "asked", "lost"
    rounds,         \* its runs: [ended, logs], the oldest first
    reads,          \* the reads on their way, with their answers
    armed,          \* m_reload
    missed,         \* a read failed, and none was answered since
    shown, pick,    \* m_executions, and the current row of their grid, 0 for none
    entries, top,   \* m_logEntries: [of, n], and the row at the top of their grid
    spoken,           \* m_conversations of the task, as [role, n]
    saying,         \* the messages whose writes are on their way
    bubbles, turn,  \* the bubbles, and the one being written
    engaged         \* what the header of the window says of the run

boardVars == <<places, here, table, filed, slips, lined, going, over, posted, tabs, tab, cards, question,
               unheard, strayed>>
surfaceVars == <<opened, live, current, late, rounds, reads, armed, missed, shown, pick, entries, top, spoken, saying,
                 bubbles, turn, engaged>>

Acts == acts < MaxActs /\ acts' = acts + 1
Touches == acts < MaxTouches /\ acts' = acts + 1
Mistakes == mistakes < MaxMistakes /\ mistakes' = mistakes + 1

-----------------------------------------------------------------------------
(* The board.                                                              *)
NoItem == [place |-> "", column |-> "", timed |-> FALSE]
NoQuestion == [kind |-> "none", of |-> "", item |-> NoItem, tab |-> ""]

Idle(t) == t \notin going \cup lined

(* badgeName of a card, from what the plugin says of its task.              *)
BadgeName(t, item, running, waiting, ended) ==
    CASE t \in running -> "running"
      [] t \in waiting \ running -> "queued"
      [] t \in ended \ (waiting \cup running) -> "ended"
      [] OTHER -> IF item.timed THEN "scheduled" ELSE "idle"

(* updateRunState.                                                         *)
Badge(t, item) == BadgeName(t, item, going', lined', over')

BadgeSaysIdle(t) == cards[t].badge \notin {"running", "queued"}

\* Mutant of AdoptCard: a card stays in the column it was made for.
AdoptCardNever(t) == IF t \in DOMAIN cards THEN cards[t].column ELSE table'[t].column

(* A card goes to the column of its task, unless it is there already.       *)
AdoptCard(t) == table'[t].column

(* createCard and setTask: a card carries its task and says what it does.   *)
SetTask(t) == [task |-> table'[t], column |-> AdoptCard(t), badge |-> Badge(t, table'[t])]

(* tasksChanged: a card for each task of the active workspace.               *)
RefreshKanban == cards' = [t \in {u \in DOMAIN table' : table'[u].place = here'} |-> SetTask(t)]

(* workspacesChanged: the tabs are made again, with the cards.              *)
SynchronizeWorkspaces ==
    /\ tabs' = places' /\ tab' = here' /\ strayed' = FALSE
    /\ RefreshKanban

\* Mutant of RunStateChanged: a run that starts is told of to nobody.
RunStateChangedNever(told) == cards' = cards

(* taskRunStateChanged of the tasks told: their cards say it, if they have   *)
(* any.                                                                    *)
RunStateChanged(told) ==
    cards' = [t \in DOMAIN cards |->
                IF t \in told THEN [cards[t] EXCEPT !.badge = Badge(t, cards[t].task)] ELSE cards[t]]

BoardInit ==
    /\ places \in {<<>>, SubSeq(Places, 1, 2)} /\ here = IF places = <<>> THEN "" ELSE Places[1]
    /\ tabs = places /\ tab = here
    /\ table = [t \in IF places = <<>> THEN {} ELSE DOMAIN FirstItems |-> FirstItems[t]] /\ filed = table
    /\ slips = {} /\ lined = {} /\ going = {} /\ over = {} /\ unheard = {}
    /\ cards = [t \in {u \in DOMAIN table : table[u].place = here} |->
                  [task |-> table[t], column |-> table[t].column,
                   badge |-> IF table[t].timed THEN "scheduled" ELSE "idle"]]
    /\ posted = <<>> /\ question = NoQuestion /\ strayed = FALSE
    /\ acts = 0 /\ mistakes = 0

Write(kind, of, item) ==
    [kind |-> kind, of |-> of, item |-> item, was |-> NoItem, tab |-> "", gone |-> {}]
Posts(write) == Len(posted) < MaxPosted /\ posted' = Append(posted, write)
OnTheWay(kinds) == \E i \in DOMAIN posted : posted[i].kind \in kinds

PlaceWrites == {"create", "activate", "leave"}

(* Who is slower than the answers waits for the ones that change which cards  *)
(* there are.                                                              *)
Calm == ~Strays => ~OnTheWay(PlaceWrites \cup {"remove"})

(* What the reader does on the board, which no dialog covers.               *)
Reader == question = NoQuestion /\ Acts /\ UNCHANGED mistakes
pluginVars == <<places, here, table, filed, slips, lined, going, over, unheard>>

(* createWorkspace, and renaming one, which changes nothing here.           *)
CreateWorkspace ==
    /\ Reader /\ ~OnTheWay(PlaceWrites)
    /\ \E p \in ToSet(Places) \ ToSet(places) : Posts(Write("create", p, NoItem))
    /\ UNCHANGED <<pluginVars, tabs, tab, cards, question, strayed>>

(* currentChanged of the tabs.                                             *)
ActivateWorkspace(p) == p # tab /\ tab' = p /\ Posts(Write("activate", p, NoItem))

SelectTab(p) ==
    /\ Reader /\ p \in ToSet(tabs) /\ ~OnTheWay({"leave", "create"})
    /\ ActivateWorkspace(p)
    /\ UNCHANGED <<pluginVars, tabs, cards, question, strayed>>

(* tabCloseRequested: the tab becomes the current one, and the workspace      *)
(* that is active before anybody answered is asked about.                    *)
CloseTab(p) ==
    /\ Reader /\ p \in ToSet(tabs) /\ here # ""
    /\ ~Strays => p = here /\ ~OnTheWay({"activate"})
    /\ \/ ActivateWorkspace(p)
       \/ p = tab /\ UNCHANGED <<tab, posted>>
    /\ question' = [NoQuestion EXCEPT !.kind = "leave", !.of = here, !.tab = p]
    /\ UNCHANGED <<pluginVars, tabs, cards, strayed>>

(* enqueueRun: queued before it is written, and told of at once.              *)
Enqueue(t) ==
    /\ Posts([Write("enqueue", t, NoItem) EXCEPT !.was = table[t]])
    /\ lined' = lined \cup {t}
    /\ table' = [table EXCEPT ![t].column = "doing"]
    /\ unheard' = unheard \ {t}
    /\ UNCHANGED <<places, here, filed, slips, going, over, tabs, tab, question, strayed>>
    /\ RefreshKanban

StartTask(t) ==
    /\ Reader /\ t \in DOMAIN cards /\ BadgeSaysIdle(t)
    /\ t \in DOMAIN table /\ Idle(t) /\ Enqueue(t)

StopTask(t) ==
    /\ Reader /\ t \in DOMAIN cards /\ ~BadgeSaysIdle(t) /\ ~Idle(t)
    /\ Posts(Write("cancel", t, NoItem))
    /\ UNCHANGED <<pluginVars, tabs, tab, cards, question, strayed>>

(* A card dropped on a column: moveTask, which starts what goes to Doing and  *)
(* stops what is at work.                                                   *)
DropCard(t, c) ==
    /\ Reader /\ t \in DOMAIN cards
    /\ \/ c = "doing" /\ Idle(t) /\ Enqueue(t)
       \/ /\ c # "doing"
          /\ Posts(Write(IF Idle(t) THEN "move" ELSE "cancel", t, [table[t] EXCEPT !.column = c]))
          /\ UNCHANGED <<pluginVars, tabs, tab, cards, question, strayed>>

Opens(kind, t, item) ==
    /\ Calm /\ question' = [kind |-> kind, of |-> t, item |-> item, tab |-> tab]
    /\ UNCHANGED <<pluginVars, posted, tabs, tab, cards, strayed>>

(* The dialog of a task has what the card carries, or nothing.              *)
EditTask(t) == Reader /\ t \in DOMAIN cards /\ BadgeSaysIdle(t) /\ Opens("edit", t, cards[t].task)

(* A double click writes a task that never ran, and reads any other.         *)
DoubleClick(t) ==
    /\ t \in DOMAIN cards /\ cards[t].task.column = "todo" /\ t \notin over /\ Idle(t)
    /\ EditTask(t)

CreateTask(t) ==
    /\ Reader /\ here # "" /\ t \notin DOMAIN table /\ ~OnTheWay({"save"})
    /\ Opens("edit", t, [place |-> here, column |-> "todo", timed |-> FALSE])

AsksAbout(t) ==
    /\ Reader /\ t \in DOMAIN cards /\ BadgeSaysIdle(t)
    /\ \/ Opens("remove", t, cards[t].task)
       \/ cards[t].task.timed /\ Opens("unschedule", t, cards[t].task)

Answering == question # NoQuestion /\ UNCHANGED <<acts, mistakes, pluginVars, tabs, tab, cards, strayed>>
Cancels == Answering /\ question' = NoQuestion /\ UNCHANGED posted

(* submit of AiTaskDialog: what the dialog opened with, and what was typed    *)
(* over it, for the workspace that was active; saveTask takes it for a task    *)
(* that is idle.                                                           *)
Submit ==
    /\ question.kind = "edit" /\ Answering /\ Idle(question.of) /\ question' = NoQuestion
    /\ ~Strays /\ question.of \in DOMAIN table => table[question.of] = question.item
    /\ \E timed \in BOOLEAN :
          Posts([Write("save", question.of, [question.item EXCEPT !.timed = timed]) EXCEPT
                    !.was = [IF question.of \in DOMAIN table THEN table[question.of] ELSE question.item
                               EXCEPT !.timed = timed]])

\* Mutant of RemoveSchedule: the task is the one the question was asked about.
RemoveScheduleAsAsked ==
    /\ question.kind = "unschedule" /\ Answering /\ Idle(question.of) /\ question' = NoQuestion
    /\ Posts([Write("save", question.of, [question.item EXCEPT !.timed = FALSE])
                 EXCEPT !.was = [table[question.of] EXCEPT !.timed = FALSE]])

(* removeSchedule reads the card when the answer comes.                     *)
RemoveSchedule ==
    /\ question.kind = "unschedule" /\ Answering /\ Idle(question.of) /\ question' = NoQuestion
    /\ question.of \in DOMAIN cards
    /\ Posts([Write("save", question.of, [cards[question.of].task EXCEPT !.timed = FALSE])
                 EXCEPT !.was = [table[question.of] EXCEPT !.timed = FALSE]])

RemoveTask ==
    /\ question.kind = "remove" /\ Answering /\ Idle(question.of) /\ question' = NoQuestion
    /\ Posts(Write("remove", question.of, NoItem))

Leaves(p) ==
    /\ question.kind = "leave" /\ Answering /\ question' = NoQuestion
    /\ Len(places) > 1 /\ ~OnTheWay(PlaceWrites)
    /\ \A t \in DOMAIN table : table[t].place = p => Idle(t)
    /\ Posts([Write("leave", p, NoItem) EXCEPT
                 !.tab = question.tab, !.gone = {t \in DOMAIN table : table[t].place = p}])

\* Mutant of RemoveWorkspace: the workspace that is active once it was answered.
RemoveWorkspaceActive == Leaves(here)

(* removeWorkspace: never the last, nor one with a task at work.             *)
RemoveWorkspace == Leaves(question.of)

-----------------------------------------------------------------------------
(* A schedule comes due, and a run ends, which nobody hears of before its     *)
(* end is written.                                                         *)
ComesDue(t) ==
    /\ t \in DOMAIN table /\ table[t].timed /\ Idle(t) /\ Enqueue(t)
    /\ UNCHANGED <<acts, mistakes>>

CompleteExecution(t) ==
    /\ t \in going /\ Posts(Write("complete", t, NoItem))
    /\ going' = going \ {t} /\ over' = over \cup {t}
    /\ UNCHANGED <<places, here, table, filed, slips, lined, unheard, tabs, tab, cards, question, strayed,
                   acts, mistakes>>

-----------------------------------------------------------------------------
(* The answers.                                                            *)
Answer == Head(posted)
Answered(kind) == posted # <<>> /\ Answer.kind = kind /\ posted' = Tail(posted) /\ UNCHANGED <<question, acts>>
Stays == UNCHANGED <<tabs, tab, strayed>>
Told == RefreshKanban /\ Stays

Put(f, t, item) == [u \in DOMAIN f \cup {t} |-> IF u = t THEN item ELSE f[u]]
Moved(f, t, c) == IF t \in DOMAIN f THEN [f EXCEPT ![t].column = c] ELSE f
Without(f, S) == [u \in DOMAIN f \ S |-> f[u]]

(* dispatchQueue, after what waits and runs became so.                      *)
Dispatches(waiting, running) ==
    \E started \in SUBSET (waiting \cap DOMAIN table') :
       /\ Cardinality(started) = IF running = {} /\ waiting \cap DOMAIN table' # {} THEN 1 ELSE 0
       /\ lined' = waiting \ started /\ going' = running \cup started

WorkspaceAnswered ==
    /\ \/ /\ Answered("create")
          /\ places' = Append(places, Answer.of) /\ here' = Answer.of
       \/ /\ Answered("activate") /\ UNCHANGED places
          /\ here' = Answer.of
    /\ UNCHANGED <<table, filed, slips, lined, going, over, unheard, mistakes>>
    /\ SynchronizeWorkspaces

(* The tasks of the workspace are forgotten and the rest is read again: the   *)
(* first workspace is active when that one was.                             *)
WorkspaceLeft ==
    LET left == SelectSeq(places, LAMBDA p : p # Answer.of)
        away == {t \in DOMAIN filed : filed[t].place = Answer.of} IN
    /\ Answered("leave")
    /\ places' = left /\ here' = IF here = Answer.of THEN left[1] ELSE here
    /\ filed' = Without(filed, away) /\ table' = filed' /\ slips' = slips \ away
    /\ going' = going \ Answer.gone /\ over' = over \ Answer.gone
    /\ lined' = slips' \cup {t \in DOMAIN table' : table'[t].column = "doing"}
    /\ SynchronizeWorkspaces
    /\ UNCHANGED <<unheard, mistakes>>

TaskSaved ==
    LET t == Answer.of IN
    /\ Answered("save")
    /\ filed' = Put(filed, t, Answer.item) /\ table' = Put(table, t, Answer.item) /\ slips' = slips \ {t}
    /\ UNCHANGED <<places, here, lined, going, over, unheard, mistakes>> /\ Told

TaskMoved ==
    /\ Answered("move")
    /\ filed' = Moved(filed, Answer.of, Answer.item.column) /\ table' = Moved(table, Answer.of, Answer.item.column)
    /\ UNCHANGED <<places, here, slips, lined, going, over, unheard, mistakes>> /\ Told

TaskRemoved ==
    LET t == Answer.of IN
    /\ Answered("remove")
    /\ filed' = Without(filed, {t}) /\ table' = Without(table, {t})
    /\ slips' = slips \ {t} /\ lined' = lined \ {t} /\ going' = going \ {t} /\ over' = over \ {t}
    /\ UNCHANGED <<places, here, unheard, mistakes>> /\ Told

(* Once it is written, only the cards of what starts are told.               *)
RunQueued ==
    LET t == Answer.of IN
    /\ Answered("enqueue") /\ t \in DOMAIN filed /\ t \notin slips
    /\ slips' = slips \cup {t} /\ filed' = Moved(filed, t, "doing")
    /\ UNCHANGED <<places, here, table, over, unheard, mistakes>>
    /\ Dispatches(lined, going)
    /\ RunStateChanged(going' \ going) /\ Stays

RunRefused ==
    LET t == Answer.of IN
    /\ Answered("enqueue")
    /\ \/ t \notin DOMAIN filed \ slips /\ UNCHANGED mistakes
       \/ Mistakes
    /\ lined' = lined \ {t} /\ table' = Moved(table, t, Answer.was.column)
    /\ UNCHANGED <<places, here, filed, slips, going, over, unheard>> /\ Told

(* The end of a run is written; or its cancellation, which ends the run if     *)
(* there is one, and writes that too.                                      *)
RunCompleted ==
    LET t == Answer.of IN
    /\ Answered("complete") /\ slips' = slips \ {t}
    /\ \E c \in {"todo", "done"} : filed' = Moved(filed, t, c) /\ table' = Moved(table, t, c)
    /\ UNCHANGED <<places, here, over, unheard, mistakes>>
    /\ Dispatches(lined \ {t}, going) /\ Told

RunCancelled ==
    LET t == Answer.of IN
    /\ posted # <<>> /\ Answer.kind = "cancel" /\ UNCHANGED <<question, acts>>
    /\ posted' = Tail(posted) \o IF t \in going THEN <<Write("complete", t, NoItem)>> ELSE <<>>
    /\ slips' = slips \ {t} /\ over' = IF t \in going THEN over \cup {t} ELSE over
    /\ filed' = Moved(filed, t, "todo") /\ table' = Moved(table, t, "todo")
    /\ UNCHANGED <<places, here, unheard, mistakes>>
    /\ Dispatches(lined \ {t}, going \ {t}) /\ Told

(* A write that fails is told of in a message, which changes nothing.         *)
WriteFails ==
    /\ posted # <<>> /\ Answer.kind # "enqueue" /\ Mistakes
    /\ posted' = Tail(posted)
    /\ unheard' = IF Answer.kind = "complete" THEN unheard \cup {Answer.of} ELSE unheard
    /\ strayed' = (strayed \/ Answer.kind = "activate")
    /\ UNCHANGED <<places, here, table, filed, slips, lined, going, over, tabs, tab, cards, question, acts>>

BoardNext ==
    \/ CreateWorkspace \/ (\E p \in ToSet(Places) : SelectTab(p) \/ CloseTab(p))
    \/ \E t \in Items :
          \/ StartTask(t) \/ StopTask(t) \/ EditTask(t) \/ DoubleClick(t) \/ CreateTask(t) \/ AsksAbout(t)
          \/ \E c \in {"todo", "doing", "done"} : DropCard(t, c)
          \/ ComesDue(t) \/ CompleteExecution(t)
    \/ Cancels \/ Submit \/ RemoveSchedule \/ RemoveTask \/ RemoveWorkspace
    \/ WorkspaceAnswered \/ WorkspaceLeft \/ TaskSaved \/ TaskMoved \/ TaskRemoved
    \/ RunQueued \/ RunRefused \/ RunCompleted \/ RunCancelled \/ WriteFails

(* The board has a card for every task of the active workspace and no other,   *)
(* each with the task as it is, in its column, saying what it does, except      *)
(* that a run has ended whose end is not written; and the tab of that           *)
(* workspace, unless another was asked for (AiTasksView.cpp:622).               *)
BoardFollowsTheTasks ==
    /\ DOMAIN cards = {t \in DOMAIN table : table[t].place = here}
    /\ \A t \in DOMAIN cards :
          /\ cards[t].task = table[t] /\ cards[t].column = table[t].column
          /\ \/ cards[t].badge = BadgeName(t, table[t], going, lined, over)
             \/ t \in unheard
             \/ \E i \in DOMAIN posted : posted[i].kind = "complete" /\ posted[i].of = t
    /\ tabs = places /\ (tab = here \/ strayed \/ OnTheWay({"activate"}))

(* What a question is answered with is done to what it was asked about: the    *)
(* workspace whose tab was closed goes, a schedule is taken off the task as     *)
(* it is by then (AiTasksView.cpp:654), and its card is there to say so.        *)
AnswersFitTheQuestion ==
    /\ \A i \in DOMAIN posted :
          /\ posted[i].kind = "leave" => posted[i].of = posted[i].tab
          /\ posted[i].kind = "save" => posted[i].item = posted[i].was
    /\ question.kind = "unschedule" => question.of \in DOMAIN cards

-----------------------------------------------------------------------------
(* The window of a task.                                                   *)
Range0(n) == 0 .. n - 1
Rows == [i \in DOMAIN rounds |-> [id |-> Len(rounds) + 1 - i, ended |-> rounds[Len(rounds) + 1 - i].ended]]
NoEntries == [of |-> 0, n |-> 0]
Selected == IF pick \in DOMAIN shown THEN shown[pick].id ELSE 0

\* The entry at the top of the grid, where the newest comes first.
ReadingAt == entries.n - top

planVars == <<live, current, late, rounds, spoken, saying>>
gridVars == <<armed, reads, missed, shown, pick, entries, top>>
chatVars == <<bubbles, turn>>

SurfaceInit ==
    /\ opened = FALSE /\ live = FALSE /\ current = 0 /\ late = "no"
    /\ rounds = <<[ended |-> TRUE, logs |-> 2]>>
    /\ reads = <<>> /\ armed = FALSE /\ missed = FALSE /\ shown = <<>> /\ pick = 0
    /\ entries = NoEntries /\ top = 0
    /\ spoken = <<>> /\ saying = <<>> /\ bubbles = <<>> /\ turn = "none" /\ engaged = FALSE

Read(kind, of) ==
    [kind |-> kind, of |-> of, n |-> IF kind = "logs" THEN rounds[of].logs ELSE 0,
     rows |-> IF kind = "runs" THEN Rows ELSE <<>>]

(* rebuild: every message but the results of tools has its bubble, and only   *)
(* the first of a group has its tail.                                       *)
AppendBubble(made, m) ==
    Append(made, [n |-> m.n, role |-> m.role, grouped |-> made # <<>> /\ Last(made).role = m.role])

\* Mutant of Rebuilt: the results of tools have bubbles of their own.
RebuiltWhole(messages) == FoldLeft(AppendBubble, <<>>, messages)

Rebuilt(messages) == FoldLeft(AppendBubble, <<>>, SelectSeq(messages, LAMBDA m : m.role # "tool"))

(* updateRunState of the conversation, over the turn it shows so far.        *)
TurnAfter(so) == IF ~live' THEN "none" ELSE IF so = "none" THEN "thinking" ELSE so

\* Mutant of Rebuild: a turn that goes on is left out of what is made again.
RebuildWithoutTurn == bubbles' = Rebuilt(spoken') /\ turn' = "none"

(* conversationChanged: all of it is made again, and the turn that goes on    *)
(* opens below it.                                                         *)
Rebuild == IF opened THEN bubbles' = Rebuilt(spoken') /\ turn' = TurnAfter("none") ELSE UNCHANGED chatVars

(* taskRunStateChanged and executionActivity, as the window hears them.       *)
ScheduleReload == armed' = opened
RunStateHeard == turn' = (IF opened THEN TurnAfter(turn) ELSE "none") /\ engaged' = (opened /\ live')

(* The conversation is made, and given its task: there is no turn yet.        *)
OpenConversation == bubbles' = Rebuilt(spoken) /\ turn' = TurnAfter("none")

(* The window is made with its conversation, and reads the runs.              *)
OpenTaskSurface ==
    /\ ~opened
    /\ opened' = TRUE /\ reads' = <<Read("runs", 0)>>
    /\ UNCHANGED live /\ OpenConversation /\ engaged' = live
    /\ UNCHANGED <<current, late, rounds, spoken, saying, armed, missed, shown, pick, entries, top, acts, mistakes>>

Close ==
    /\ opened /\ opened' = FALSE
    /\ reads' = <<>> /\ armed' = FALSE /\ missed' = FALSE /\ shown' = <<>> /\ pick' = 0
    /\ entries' = NoEntries /\ top' = 0 /\ bubbles' = <<>> /\ turn' = "none" /\ engaged' = FALSE
    /\ UNCHANGED <<planVars, acts, mistakes>>

-----------------------------------------------------------------------------
(* The conversation: a message is there at once and written, and opens a run   *)
(* of a task that is idle (sendMessage, recordConversation).                  *)
Says(role) ==
    LET n == IF spoken = <<>> THEN 1 ELSE Last(spoken).n + 1 IN
    /\ n <= MaxTalk
    /\ spoken' = Append(spoken, [role |-> role, n |-> n])
    /\ saying' = Append(saying, [n |-> n, opens |-> ~live])
    /\ UNCHANGED <<opened, live, current, late, rounds, gridVars, engaged, acts, mistakes>>
    /\ Rebuild

(* The composer sends on the plain return.                                  *)
Submits == opened /\ late # "asked" /\ Says("user")
Speaks(role) == current # 0 /\ Says(role)

MessageStored ==
    /\ saying # <<>> /\ saying' = Tail(saying)
    /\ live' = (live \/ Head(saying).opens)
    /\ late' = IF Head(saying).opens /\ late = "lost" THEN "no" ELSE late
    /\ IF Head(saying).opens THEN RunStateHeard /\ armed' = opened ELSE UNCHANGED <<turn, engaged, armed>>
    /\ UNCHANGED <<opened, current, rounds, reads, missed, shown, pick, entries, top, spoken, bubbles, acts, mistakes>>

Ended == IF current = 0 THEN rounds ELSE [rounds EXCEPT ![current] = [ended |-> TRUE, logs |-> @.logs + 1]]

(* A message that cannot be written is taken back, and the run it belongs to  *)
(* ends with nobody told, and nothing logged.                               *)
MessageRefused ==
    /\ saying # <<>> /\ Mistakes /\ saying' = Tail(saying)
    /\ spoken' = SelectSeq(spoken, LAMBDA m : m.n # Head(saying).n)
    /\ IF opened THEN bubbles' = Rebuilt(spoken') /\ turn' = (IF live THEN "thinking" ELSE "none")
                 ELSE UNCHANGED chatVars
    /\ \/ /\ current = 0 /\ engaged' = (opened /\ live) /\ ScheduleReload
          /\ UNCHANGED <<live, current, late, rounds>>
       \/ /\ current # 0 /\ current' = 0 /\ rounds' = [rounds EXCEPT ![current].ended = TRUE]
          /\ live' = FALSE /\ late' = "asked" /\ UNCHANGED <<engaged, armed>>
    /\ UNCHANGED <<opened, reads, missed, shown, pick, entries, top, acts>>

(* showStreaming: the bubble of the turn is opened, if it is not, and filled.  *)
Streams ==
    /\ current # 0 /\ opened /\ turn' = "writing"
    /\ UNCHANGED <<opened, planVars, gridVars, bubbles, engaged, acts, mistakes>>

-----------------------------------------------------------------------------
(* The run.                                                                *)
StartExecution ==
    /\ live /\ current = 0 /\ Len(rounds) < MaxRounds
    /\ rounds' = Append(rounds, [ended |-> FALSE, logs |-> 1]) /\ current' = Len(rounds')
    /\ UNCHANGED live /\ RunStateHeard /\ ScheduleReload
    /\ UNCHANGED <<opened, late, spoken, saying, reads, missed, shown, pick, entries, top, bubbles, acts, mistakes>>

\* Mutant of AppendLog: the window hears nothing of what a run logs.
AppendLogQuietly ==
    /\ current # 0 /\ rounds[current].logs < MaxLogs
    /\ rounds' = [rounds EXCEPT ![current].logs = @ + 1] /\ UNCHANGED armed
    /\ UNCHANGED <<opened, live, current, late, spoken, saying, reads, missed, shown, pick, entries, top,
                   chatVars, engaged, acts, mistakes>>

AppendLog ==
    /\ current # 0 /\ rounds[current].logs < MaxLogs
    /\ rounds' = [rounds EXCEPT ![current].logs = @ + 1] /\ ScheduleReload
    /\ UNCHANGED <<opened, live, current, late, spoken, saying, reads, missed, shown, pick, entries, top,
                   chatVars, engaged, acts, mistakes>>

(* completeExecution logs the end while the run is still the task's, and tells *)
(* of no other change until that is written.                                *)
EndExecution ==
    /\ current # 0 /\ rounds' = Ended
    /\ current' = 0 /\ live' = FALSE /\ late' = "asked" /\ ScheduleReload
    /\ UNCHANGED <<opened, spoken, saying, reads, missed, shown, pick, entries, top, chatVars, engaged, acts, mistakes>>

(* What was queued meanwhile leaves the queue with it.                       *)
EndTold ==
    /\ late = "asked"
    /\ \/ late' = "no" /\ live' = (current # 0) /\ RunStateHeard /\ ScheduleReload /\ UNCHANGED mistakes
       \/ late' = "lost" /\ Mistakes /\ UNCHANGED <<live, turn, engaged, armed>>
    /\ UNCHANGED <<opened, current, rounds, spoken, saying, reads, missed, shown, pick, entries, top, bubbles, acts>>

(* The stop button: the run is cancelled, and its end told at once.           *)
StopExecution ==
    /\ engaged /\ live
    /\ rounds' = Ended /\ current' = 0 /\ live' = FALSE
    /\ late' = IF current = 0 THEN late ELSE "asked"
    /\ RunStateHeard /\ ScheduleReload
    /\ UNCHANGED <<opened, spoken, saying, reads, missed, shown, pick, entries, top, bubbles, acts, mistakes>>

-----------------------------------------------------------------------------
(* The runs and their logs.                                                *)
ReadsLeft == UNCHANGED <<opened, planVars, chatVars, engaged>>

LoadExecutions ==
    /\ armed /\ armed' = FALSE /\ Len(reads) < MaxReads /\ reads' = Append(reads, Read("runs", 0))
    /\ ReadsLeft /\ UNCHANGED <<missed, shown, pick, entries, top, acts, mistakes>>

RowOf(list, id) ==
    LET rows == {i \in DOMAIN list : list[i].id = id} IN IF rows = {} THEN 0 ELSE CHOOSE i \in rows : TRUE

\* Mutant of Wanted: the row is the one it was, of what was read.
WantedRow(list) == IF pick \in DOMAIN list THEN pick ELSE 1

(* The run that is being read, or the newest.                               *)
Wanted(list) == LET i == RowOf(list, Selected) IN IF i = 0 THEN 1 ELSE i

(* showExecutions and, for the row it ends on, showExecution.                *)
ShowExecutions ==
    LET list == Head(reads).rows IN
    /\ reads # <<>> /\ Head(reads).kind = "runs"
    /\ shown' = list /\ missed' = FALSE
    /\ pick' = IF list = <<>> THEN pick ELSE Wanted(list)
    /\ reads' = IF list = <<>> THEN Tail(reads) ELSE Append(Tail(reads), Read("logs", list[Wanted(list)].id))
    /\ ReadsLeft /\ UNCHANGED <<armed, entries, top, acts, mistakes>>

(* The reader selects a run.                                               *)
ShowExecution(row) ==
    /\ row \in DOMAIN shown /\ row # pick /\ Touches /\ Len(reads) < MaxReads
    /\ pick' = row /\ reads' = Append(reads, Read("logs", shown[row].id))
    /\ ReadsLeft /\ UNCHANGED <<armed, missed, shown, entries, top, mistakes>>

\* Mutant of IsLatest: whatever is answered is shown.
IsLatestAnyhow(rest) == TRUE

(* The answer of the newest revision: no logs were asked for after it.        *)
IsLatest(rest) == \A i \in DOMAIN rest : rest[i].kind # "logs"

\* Mutant of TopAfter: the grid stays where it is.
TopAfterInPlace(of, n) == IF top < n THEN top ELSE 0

(* The grid follows the newest while it is on it, and keeps the entry that is  *)
(* being read otherwise, if the new ones have it.                            *)
TopAfter(of, n) ==
    IF top = 0 THEN 0
    ELSE IF of = entries.of /\ ReadingAt >= 1 /\ ReadingAt <= n THEN n - ReadingAt
    ELSE IF top < n THEN top ELSE IF n = 0 THEN 0 ELSE n - 1

ShowLogs ==
    LET read == Head(reads) IN
    /\ reads # <<>> /\ read.kind = "logs" /\ reads' = Tail(reads)
    /\ IF IsLatest(reads')
       THEN entries' = [of |-> read.of, n |-> read.n] /\ top' = TopAfter(read.of, read.n)
       ELSE UNCHANGED <<entries, top>>
    /\ ReadsLeft /\ UNCHANGED <<armed, missed, shown, pick, acts, mistakes>>

(* A read that fails is told of in the header, or empties the logs.           *)
ReadFails ==
    /\ reads # <<>> /\ Mistakes /\ reads' = Tail(reads) /\ missed' = TRUE
    /\ IF Head(reads).kind = "logs" /\ IsLatest(reads') THEN entries' = NoEntries /\ top' = 0
                                                        ELSE UNCHANGED <<entries, top>>
    /\ ReadsLeft /\ UNCHANGED <<armed, shown, pick, acts>>

Scrolls(to) ==
    /\ to \in Range0(entries.n) /\ to # top /\ Touches /\ top' = to
    /\ ReadsLeft /\ UNCHANGED <<armed, reads, missed, shown, pick, entries, mistakes>>

SurfaceNext ==
    \/ OpenTaskSurface \/ Close
    \/ Submits \/ (\E role \in {"agent", "tool"} : Speaks(role))
    \/ MessageStored \/ MessageRefused \/ Streams
    \/ StartExecution \/ AppendLog \/ EndExecution \/ EndTold \/ StopExecution
    \/ LoadExecutions \/ ShowExecutions \/ (\E row \in 1..MaxRounds : ShowExecution(row))
    \/ ShowLogs \/ ReadFails \/ (\E to \in Range0(MaxLogs + 2) : Scrolls(to))

(* The window says what there is: each message in its place, a turn being      *)
(* written while the task waits or runs and, but for an end that is not told    *)
(* yet, then only (AiConversationView.cpp:493); and, once nothing is on its way, *)
(* the runs, with the logs of the one that is read (AiTaskInfoDialog.cpp:232).    *)
SurfaceFollowsTheTask ==
    opened =>
       /\ bubbles = Rebuilt(spoken)
       /\ \A i \in DOMAIN bubbles : bubbles[i].role # "tool"
       /\ live => turn # "none" /\ engaged
       /\ (turn # "none" \/ engaged) => (live \/ late # "no")
       /\ ~armed /\ reads = <<>> /\ ~missed /\ late = "no" =>
             /\ shown = Rows
             /\ shown # <<>> => entries = [of |-> Selected, n |-> rounds[Selected].logs]

(* The reader is not disturbed by what is read again meanwhile: the run that    *)
(* was selected stays so, only its logs are shown, and the entry that is being   *)
(* read, unless it is the newest, keeps its place (AiTaskInfoDialog.cpp:263,      *)
(* 330).                                                                   *)
ReaderIsNotDisturbed ==
    [][opened /\ opened' =>
          /\ Selected # 0 /\ shown' # shown => Selected' = Selected
          /\ entries' # entries => entries'.of \in {0, Selected'}
          /\ top # 0 /\ entries'.of = entries.of /\ entries' # entries => ReadingAt' = ReadingAt]_surfaceVars
=============================================================================
