------------------------------- MODULE TaskStore -------------------------------
(***************************************************************************)
(* What the assistant keeps of its board (ai/AiTaskRepository.cpp, and the  *)
(* part of AiPlugin.cpp that has it in memory): the workspaces, the tasks   *)
(* and the conversations, each operation a transaction or a query that one  *)
(* thread does in the order asked, whose answer changes memory later.       *)
(*                                                                         *)
(* Rows of a task go with it (ON DELETE CASCADE).  A message is its number  *)
(* and its sequence.  The runs are in TaskRuns; here a task is busy or not. *)
(***************************************************************************)
EXTENDS Naturals, FiniteSets, SequencesExt

CONSTANTS
    Tasks,          \* all in the first workspace
    Workspaces,     \* those there may be, the first one first
    PageSize,       \* conversationPageSize
    Patient,        \* whether nothing else is on its way while the workspaces change
    Edits,          \* whether tasks that are there are edited
    MaxOps,         \* bound: operations on their way
    MaxMessages,    \* bound: messages said
    MaxFaults       \* bound: operations that fail, and restarts

VARIABLES
    stored,         \* the rows: workspaces, tasks, messages
    workspaces,     \* m_workspaces
    tasks,          \* m_tasks
    conversation, loaded, sequence,     \* m_conversations, m_loadedConversations, m_conversationSequences
    older,          \* the tasks whose view asked for an older page (m_loadingOlder)
    busy,           \* the tasks that are queued or run
    ops,            \* what the thread of the database has not done yet
    done,           \* what it has, on its way back
    said,           \* history: messages so far
    faults          \* bound: what went wrong so far

memory == <<workspaces, tasks, conversation, loaded, sequence, older, busy>>
storeVars == <<stored, memory, ops, done, said, faults>>

Workspace(id, position, active) == [id |-> id, position |-> position, active |-> active]

StoreInit ==
    LET first == Workspace(Workspaces[1], 0, TRUE) IN
    /\ stored = [workspaces |-> {first}, tasks |-> {}, messages |-> [t \in Tasks |-> {}]]
    /\ workspaces = <<first>> /\ tasks = {}
    /\ conversation = [t \in Tasks |-> <<>>] /\ loaded = {} /\ sequence = [t \in Tasks |-> 0]
    /\ older = {} /\ busy = {} /\ ops = <<>> /\ done = <<>> /\ said = 0 /\ faults = 0

Boards == {"create", "activate", "remove"}
Free ==
    /\ Len(ops) + Len(done) < MaxOps
    /\ Patient => \A i \in DOMAIN (ops \o done) : (ops \o done)[i].kind \notin Boards
Settled == Patient => ops = <<>> /\ done = <<>>

Op(kind, of, rows) == [kind |-> kind, of |-> of, rows |-> rows]
Asks(op) == Free /\ ops' = Append(ops, op)

-----------------------------------------------------------------------------
(* The workspaces.                                                         *)
CreateWorkspace ==
    /\ Settled
    /\ \E id \in ToSet(Workspaces) :
           /\ \A w \in stored.workspaces \cup ToSet(workspaces) : w.id # id
           /\ \A i \in DOMAIN ops : ops[i].kind = "create" => ops[i].of # id
           /\ Asks(Op("create", id, {Workspace(id, Len(workspaces), TRUE)}))
    /\ UNCHANGED <<stored, memory, done, said, faults>>

ActivateWorkspace(id) ==
    /\ Settled
    /\ Asks(Op("activate", id, {}))
    /\ UNCHANGED <<stored, memory, done, said, faults>>

\* Mutant of Renumbered: the workspaces after it stay where they are.
RenumberedNever(others, id) == {others[i] : i \in DOMAIN others}

(* Those that remain, in their order; the first of them is active when the  *)
(* one that goes was.                                                      *)
Renumbered(others, id) ==
    LET gone == \E i \in DOMAIN workspaces : workspaces[i].id = id /\ workspaces[i].active IN
    {[others[i] EXCEPT !.position = i - 1, !.active = IF gone THEN i = 1 ELSE @] : i \in DOMAIN others}

(* removeWorkspace: none that is the last, or has a task at work; what it    *)
(* would leave is looked at before it is written.                           *)
RemoveWorkspace(id) ==
    LET rest == Renumbered(SelectSeq(workspaces, LAMBDA w : w.id # id), id) IN
    /\ Settled
    /\ Len(workspaces) > 1 /\ (id = Workspaces[1] => busy \cap tasks = {})
    /\ Cardinality({w \in rest : w.active}) = 1
    /\ Asks(Op("remove", id, rest))
    /\ UNCHANGED <<stored, memory, done, said, faults>>

-----------------------------------------------------------------------------
(* The tasks: neither edited nor removed while they are busy.               *)
SaveTask(t) ==
    /\ t \notin busy /\ (t \in tasks => Edits)
    /\ Asks(Op("save", t, {}))
    /\ UNCHANGED <<stored, memory, done, said, faults>>

RemoveTask(t) ==
    /\ t \in tasks \ busy
    /\ Asks(Op("forget", t, {}))
    /\ UNCHANGED <<stored, memory, done, said, faults>>

-----------------------------------------------------------------------------
(* The conversations.  A message that was asked for is said once they are    *)
(* loaded: loadConversation of the view, and that of sendMessage.           *)
LoadConversation(t, says) ==
    /\ t \in tasks /\ t \notin loaded
    /\ Asks(Op(IF says THEN "say" ELSE "load", t, {}))
    /\ UNCHANGED <<stored, memory, done, said, faults>>

LoadOlder(t) ==
    /\ t \in tasks \ older /\ conversation[t] # <<>>
    /\ older' = older \cup {t}
    /\ Asks(Op("older", t, {conversation[t][1]}))
    /\ UNCHANGED <<stored, workspaces, tasks, conversation, loaded, sequence, busy, done, said, faults>>

ResetConversation(t) ==
    /\ t \in tasks \ busy
    /\ Asks(Op("reset", t, {}))
    /\ UNCHANGED <<stored, memory, done, said, faults>>

(* buildMessage, recordConversation: in memory at once, and written.        *)
Said(t) == [id |-> said + 1, sequence |-> sequence[t] + 1]

Records(t) ==
    /\ said < MaxMessages /\ said' = said + 1
    /\ sequence' = [sequence EXCEPT ![t] = @ + 1]
    /\ conversation' = [conversation EXCEPT ![t] = Append(@, Said(t))]
    /\ ops' = Append(ops, Op("record", t, {Said(t)}))

(* sendMessage of a loaded conversation, and what a run says.               *)
Say(t) ==
    /\ t \in tasks /\ (t \in loaded \/ t \in busy)
    /\ Free /\ Records(t)
    /\ UNCHANGED <<stored, workspaces, tasks, loaded, older, busy, done, faults>>

RunEnds(t) ==
    /\ t \in busy /\ busy' = busy \ {t}
    /\ UNCHANGED <<stored, workspaces, tasks, conversation, loaded, sequence, older, ops, done, said, faults>>

-----------------------------------------------------------------------------
(* The thread of the database.                                             *)
Newest(rows) ==
    LET inOrder == SetToSortSeq(rows, LAMBDA m, n : m.sequence < n.sequence) IN
    SubSeq(inOrder, IF Len(inOrder) > PageSize THEN Len(inOrder) - PageSize + 1 ELSE 1, Len(inOrder))

Inactive(ws) == {[w EXCEPT !.active = FALSE] : w \in ws}
WithoutRows(t) == [stored.messages EXCEPT ![t] = {}]

\* Mutant of PageBefore: the page asked for begins with what is there.
PageBeforeOrAt(t, message) == Newest({m \in stored.messages[t] : m.sequence <= message.sequence})

PageBefore(t, message) == Newest({m \in stored.messages[t] : m.sequence < message.sequence})

(* createWorkspace, activateWorkspace and removeWorkspace of the repository;  *)
(* with a workspace go its tasks, and with them their messages.             *)
Inserted(op) == [stored EXCEPT !.workspaces = Inactive(@) \cup op.rows]

Activated(op) == [stored EXCEPT !.workspaces = {[w EXCEPT !.active = w.id = op.of] : w \in @}]

Deleted(op) ==
    LET here == {w.id : w \in stored.workspaces}
        updated == {v \in op.rows : v.id \in here}
        untouched == {w \in stored.workspaces : w.id # op.of /\ w.id \notin {v.id : v \in op.rows}}
        first == op.of = Workspaces[1]
    IN  [workspaces |-> untouched \cup updated,
         tasks |-> IF first THEN {} ELSE stored.tasks,
         messages |-> IF first THEN [t \in Tasks |-> {}] ELSE stored.messages]

(* saveTask writes the row of a task anew; removeTask, clearConversation,     *)
(* appendConversation.                                                     *)
Replaced(op) == [stored EXCEPT !.tasks = @ \cup {op.of}, !.messages = WithoutRows(op.of)]
Forgotten(op) == [stored EXCEPT !.tasks = @ \ {op.of}, !.messages = WithoutRows(op.of)]
Cleared(op) == [stored EXCEPT !.messages = WithoutRows(op.of)]
Appended(op) == [stored EXCEPT !.messages[op.of] = @ \cup op.rows]

Commit(op) ==
    CASE op.kind = "create" -> Inserted(op)
      [] op.kind = "activate" -> Activated(op)
      [] op.kind = "remove" -> Deleted(op)
      [] op.kind = "save" -> Replaced(op)
      [] op.kind = "forget" -> Forgotten(op)
      [] op.kind = "reset" -> Cleared(op)
      [] op.kind = "record" -> Appended(op)
      [] OTHER -> stored

Page(op) ==
    CASE op.kind \in {"load", "say"} -> Newest(stored.messages[op.of])
      [] op.kind = "older" -> PageBefore(op.of, CHOOSE m \in op.rows : TRUE)
      [] OTHER -> <<>>

(* A row whose task, or workspace, is gone is refused (the schema of          *)
(* initialize), like anything else the disk refuses.                        *)
Possible(op) ==
    /\ op.kind = "record" => op.of \in stored.tasks
    /\ op.kind = "save" => \E w \in stored.workspaces : w.id = Workspaces[1]

Execute ==
    /\ ops # <<>> /\ ops' = Tail(ops)
    /\ LET op == Head(ops) IN
       \/ /\ Possible(op)
          /\ stored' = Commit(op) /\ done' = Append(done, op @@ [ok |-> TRUE, page |-> Page(op)])
          /\ UNCHANGED faults
       \/ /\ IF Possible(op) THEN faults < MaxFaults /\ faults' = faults + 1 ELSE UNCHANGED faults
          /\ done' = Append(done, op @@ [ok |-> FALSE, page |-> <<>>])
          /\ UNCHANGED stored
    /\ UNCHANGED <<memory, said>>

-----------------------------------------------------------------------------
(* What a next start demands of the rows of the board (workspaces).         *)
Readable(ws) ==
    /\ {w.position : w \in ws} = 0..Cardinality(ws)-1
    /\ ws # {} => Cardinality({w \in ws : w.active}) = 1

LastSequence(rows) == IF rows = {} THEN 0 ELSE Max({m.sequence : m \in rows})

ReadsBoard ==
    /\ workspaces' = SetToSortSeq(stored.workspaces, LAMBDA v, w : v.position < w.position)
    /\ tasks' = stored.tasks
    /\ sequence' = [t \in Tasks |-> LastSequence(stored.messages[t])]

(* reloadState: read at once, whatever is still on its way.                 *)
Reloads == IF Readable(stored.workspaces) THEN ReadsBoard ELSE UNCHANGED <<workspaces, tasks, sequence>>

(* The answers, in their order.                                            *)
WorkspaceCreated(op) ==
    /\ workspaces' = [i \in DOMAIN workspaces |-> [workspaces[i] EXCEPT !.active = FALSE]] \o SetToSeq(op.rows)
    /\ UNCHANGED <<tasks, sequence, conversation, loaded>>

WorkspaceActivated(op) ==
    /\ workspaces' = [i \in DOMAIN workspaces |-> [workspaces[i] EXCEPT !.active = workspaces[i].id = op.of]]
    /\ UNCHANGED <<tasks, sequence, conversation, loaded>>

WorkspaceRemoved(op) ==
    LET gone == IF op.of = Workspaces[1] THEN tasks ELSE {} IN
    /\ Reloads
    /\ conversation' = [t \in Tasks |-> IF t \in gone THEN <<>> ELSE conversation[t]]
    /\ loaded' = loaded \ gone

AnswerOfBoard(op) ==
    /\ CASE ~op.ok -> UNCHANGED <<workspaces, tasks, sequence, conversation, loaded>>
         [] op.ok /\ op.kind = "create" -> WorkspaceCreated(op)
         [] op.ok /\ op.kind = "activate" -> WorkspaceActivated(op)
         [] op.ok /\ op.kind = "remove" -> WorkspaceRemoved(op)
    /\ UNCHANGED <<older, busy, ops, said>>

AnswerOfTask(op) ==
    /\ CASE ~op.ok -> UNCHANGED <<tasks, sequence, conversation, loaded>>
         [] op.kind = "save" -> tasks' = tasks \cup {op.of} /\ UNCHANGED <<sequence, conversation, loaded>>
         [] op.kind = "forget" ->
                /\ tasks' = tasks \ {op.of} /\ sequence' = [sequence EXCEPT ![op.of] = 0]
                /\ conversation' = [conversation EXCEPT ![op.of] = <<>>] /\ loaded' = loaded \ {op.of}
         [] op.kind = "reset" ->
                /\ sequence' = [sequence EXCEPT ![op.of] = 0]
                /\ conversation' = [conversation EXCEPT ![op.of] = <<>>] /\ loaded' = loaded \cup {op.of}
                /\ UNCHANGED tasks
    /\ UNCHANGED <<workspaces, older, busy, ops, said>>

(* A message that was not written is taken back, and its run stops; one that *)
(* was written queues its task.                                            *)
AnswerOfMessage(op) ==
    /\ conversation' = [conversation EXCEPT ![op.of] = IF op.ok THEN @ ELSE SelectSeq(@, LAMBDA m : m \notin op.rows)]
    /\ busy' \in IF op.ok /\ op.of \in tasks THEN {busy, busy \cup {op.of}} ELSE {busy \ {op.of}}
    /\ UNCHANGED <<workspaces, tasks, loaded, sequence, older, ops, said>>

AnswerOfPage(op) ==
    /\ op.ok
    /\ op.kind = "older" => op.page # <<>>
    /\ IF op.kind = "older"
       THEN conversation' = [conversation EXCEPT ![op.of] = op.page \o @] /\ UNCHANGED loaded
       ELSE conversation' = [conversation EXCEPT ![op.of] = op.page] /\ loaded' = loaded \cup {op.of}
    /\ UNCHANGED <<sequence, ops, said>>

(* sendMessage goes on: what was loaded, and the message after it.          *)
LoadedAndSaid(op) ==
    /\ op.ok /\ op.kind = "say" /\ op.of \in tasks /\ said < MaxMessages
    /\ loaded' = loaded \cup {op.of}
    /\ conversation' = [conversation EXCEPT ![op.of] = Append(op.page, Said(op.of))]
    /\ sequence' = [sequence EXCEPT ![op.of] = @ + 1] /\ said' = said + 1
    /\ ops' = Append(ops, Op("record", op.of, {Said(op.of)}))

Nothing(op) ==
    /\ op.ok => op.kind = "older" /\ op.page = <<>>
    /\ UNCHANGED <<conversation, loaded, sequence, ops, said>>

Answer ==
    /\ done # <<>> /\ done' = Tail(done)
    /\ LET op == Head(done) IN
       \/ op.kind \in Boards /\ AnswerOfBoard(op)
       \/ op.kind \in {"save", "forget", "reset"} /\ AnswerOfTask(op)
       \/ op.kind = "record" /\ AnswerOfMessage(op)
       \/ /\ op.kind \in {"load", "say", "older"}
          /\ \/ op.kind # "say" /\ AnswerOfPage(op)
             \/ LoadedAndSaid(op)
             \/ Nothing(op)
          /\ older' = IF op.kind = "older" THEN older \ {op.of} ELSE older
          /\ UNCHANGED <<workspaces, tasks, busy>>
    /\ UNCHANGED <<stored, faults>>

(* The application ends at any time, and starts again from what is stored.   *)
Restart ==
    /\ faults < MaxFaults /\ faults' = faults + 1
    /\ Readable(stored.workspaces) /\ ReadsBoard
    /\ conversation' = [t \in Tasks |-> <<>>] /\ loaded' = {} /\ older' = {} /\ busy' = {}
    /\ ops' = <<>> /\ done' = <<>>
    /\ UNCHANGED <<stored, said>>

StoreNext ==
    \/ CreateWorkspace \/ Execute \/ Answer \/ Restart
    \/ \E id \in {workspaces[i].id : i \in DOMAIN workspaces} : ActivateWorkspace(id) \/ RemoveWorkspace(id)
    \/ \E t \in Tasks : \/ SaveTask(t) \/ RemoveTask(t) \/ LoadOlder(t) \/ ResetConversation(t) \/ Say(t) \/ RunEnds(t)
                        \/ \E says \in BOOLEAN : LoadConversation(t, says)

-----------------------------------------------------------------------------
(* What is stored of the board is what the next start demands: each          *)
(* workspace has its place, and one of them is active, in whatever order     *)
(* they are made, chosen and removed, and whatever of it fails.  A start     *)
(* that finds anything else refuses the whole assistant (reloadState).      *)
BoardIsReadable == Readable(stored.workspaces)

(* A conversation is in the order it was said, and no message of it twice,   *)
(* whatever pages arrive while it is written, cleared and removed            *)
(* (conversation, loadOlderConversation).                                   *)
ConversationIsInOrder ==
    \A t \in Tasks : \A i \in 1..Len(conversation[t])-1 :
        conversation[t][i].sequence < conversation[t][i+1].sequence

(* "Every message is rebuilt from the stored conversation, which is the only *)
(* history there is" (AiConversationView.cpp:214): with nothing on its way,  *)
(* what a conversation shows is stored.                                     *)
WhatIsShownIsStored ==
    ops = <<>> /\ done = <<>> => \A t \in Tasks : ToSet(conversation[t]) \subseteq stored.messages[t]
=============================================================================
