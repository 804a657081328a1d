----------------------------- MODULE AgentTurn -----------------------------
(***************************************************************************)
(* The turns of an agent (ai/AiPlugin.cpp, from startAgentExecution to      *)
(* completeExecution): the runs of one task, the requests to the model, the *)
(* summary that replaces what no longer fits, and the tools a turn calls,   *)
(* with their deadlines and the answers that come too late.                *)
(*                                                                         *)
(* A message is its place in the conversation, which is also its sequence   *)
(* number.  How large a message is, and how large the window, is left to    *)
(* chance: any conversation may turn out not to fit.  When a run starts,    *)
(* and what the database does, is TaskRuns; here a run is asked for and     *)
(* starts, and every write succeeds.  A tool that answers while it is       *)
(* called answers right after, before or after anything else.              *)
(***************************************************************************)
EXTENDS Integers, FiniteSets, SequencesExt, TLAPS

CONSTANTS
    Questions,        \* the sequences of tools a turn may ask for
    MaxIterations,    \* maximumIterations of the agent, 0 for no limit
    MaxRuns,          \* bound: runs of the task
    MaxMessages,      \* bound: messages the user types
    MaxSummaries      \* bound: times the conversation does not fit

(* What a tool touches: nothing, a file it reads, a file it writes, or      *)
(* anything, as a server's tool and a command do.  All files are one.       *)
(* Commands are what a stop really stops, and one that was asked for        *)
(* without a timeout is the only tool without a deadline.                   *)
Commands == {"command", "unlimited"}
Kinds == {"detached", "read", "write", "server"} \cup Commands

ASSUME TurnAssumption ==
    /\ Questions \subseteq Seq(Kinds) /\ <<>> \notin Questions
    /\ MaxIterations \in Nat /\ MaxRuns \in Nat
    /\ MaxMessages \in Nat /\ MaxSummaries \in Nat

Roles == {"user", "calls", "results", "answer", "summary"}
Stages == {"none", "skills", "model", "summary", "tools"}
Reasons == {"answered", "limit", "budget", "repetition", "failed", "cancelled"}

VARIABLES
    conversation,   \* m_conversations: what each message is, and what it hides
    run,            \* the execution in m_active, 0 for none
    runs,           \* bound: runs so far
    queued,         \* a run was asked for
    reason,         \* m_lastStopReasons: how the last run ended
    stage,          \* what the run waits for
    iteration,      \* iteration of the run
    delivered,      \* deliveredSequence of the run
    reading,        \* runs whose skills are being read
    requests,       \* requests of the client that are not answered
    fitted,         \* what the summary under way leaves, and what it replaces
    calls,          \* toolCalls of the turn
    working,        \* tools that work, whoever waits for them
    carried,        \* history: user messages a request or a summary carried
    cut             \* history: those a summary replaced whose request had no room for them

turn == <<stage, iteration, delivered, requests, fitted, calls>>
vars == <<conversation, run, runs, queued, reason, turn, reading, working, carried, cut>>

NoFit == [kept |-> {}, dropped |-> {}, told |-> {}, until |-> 0]

Init ==
    /\ conversation = <<>> /\ run = 0 /\ runs = 0 /\ queued = FALSE /\ reason = "answered"
    /\ stage = "none" /\ iteration = 0 /\ delivered = 0
    /\ reading = {} /\ requests = 0 /\ fitted = NoFit
    /\ calls = <<>> /\ working = {} /\ carried = {} /\ cut = {}

Message(role) == [role |-> role, until |-> 0]
Asked == Max({i \in DOMAIN conversation : conversation[i].role = "calls"})   \* by the last turn that called tools
Users == {i \in DOMAIN conversation : conversation[i].role = "user"}
Summaries == {i \in DOMAIN conversation : conversation[i].role = "summary"}

-----------------------------------------------------------------------------
(* projectConversation: what no summary replaced.                          *)
Hidden(said) == Max({said[i].until : i \in DOMAIN said} \cup {0})
Projection(said) == Hidden(said) + 1..Len(said)

(* fitConversation: what the user said at the start stays, then as many      *)
(* turns as it takes are dropped, a turn with the results of its tools.     *)
IsPrompt(m) == m.role \in {"user", "summary"}
Cuts(said, from, to) == {k \in from..to : k < to => said[k + 1].role # "results"}

(* summarizeDroppedTurns: what was dropped is fitted in its turn, where two   *)
(* messages may stay at the start, and only what is left is summarized.     *)
InSummary(said, from, to) ==
    LET rest == IF ~IsPrompt(said[from]) THEN from
                ELSE IF from < to /\ IsPrompt(said[from + 1]) THEN from + 2 ELSE from + 1
    IN  {from..to} \cup {(from..to) \ (rest..k) : k \in Cuts(said, rest, to)}

(* The instructions are the other message that stays at the start of the    *)
(* conversation.  The sequence of the last one dropped is what              *)
(* projectConversation gives it: results are emitted with the message after  *)
(* them, and under its number.                                             *)
Fits(said) ==
    LET first == Hidden(said) + 1
        from == IF first <= Len(said) /\ IsPrompt(said[first]) THEN first + 1 ELSE first
        numbered(k) == IF said[k].role = "results" /\ k < Len(said) THEN k + 1 ELSE k
    IN  UNION {{[kept |-> Projection(said) \ (from..k), dropped |-> from..k, told |-> told, until |-> numbered(k)] :
                  told \in InSummary(said, from, k)} : k \in Cuts(said, from, Len(said))}

-----------------------------------------------------------------------------
(* The tools.                                                              *)
Conflict(a, b) ==
    /\ "detached" \notin {a, b}
    /\ {a, b} # {"read"}

Waiting(cs) == {k \in DOMAIN cs : ~cs[k].started}
Running(cs) == {k \in DOMAIN cs : cs[k].started /\ ~cs[k].finished}

(* dispatchPendingTools: in their order, each call that conflicts with none *)
(* that runs.                                                              *)
Dispatched(cs, starts) ==
    \A k \in Waiting(cs) :
        k \in starts <=> \A j \in Running(cs) \cup {i \in starts : i < k} : ~Conflict(cs[j].kind, cs[k].kind)

DispatchTools(cs, asked, alive) ==
    \E starts \in SUBSET Waiting(cs) :
        /\ Dispatched(cs, starts)
        /\ calls' = [k \in DOMAIN cs |-> [cs[k] EXCEPT !.started = @ \/ k \in starts]]
        /\ working' = alive \cup {[run |-> run, asked |-> asked, call |-> k,
                                   kind |-> cs[k].kind, late |-> FALSE] : k \in starts}

(* completeExecution: what is left of the turn goes with it, the commands   *)
(* stop, and any other tool works on for nobody.                           *)
Completed(why, alive) ==
    /\ reason' = why
    /\ run' = 0 /\ stage' = "none" /\ requests' = 0 /\ calls' = <<>> /\ fitted' = NoFit
    /\ working' = {[w EXCEPT !.late = TRUE] : w \in {v \in alive : v.late \/ v.kind \notin Commands}}
    /\ UNCHANGED <<iteration, delivered>>

(* continueAgent: one more turn, unless it is one too many; a conversation  *)
(* that does not fit is summarized first.                                  *)
Continue(said, alive) ==
    IF MaxIterations > 0 /\ iteration = MaxIterations
    THEN Completed("limit", alive) /\ UNCHANGED <<carried, cut>>
    ELSE /\ iteration' = iteration + 1
         /\ calls' = <<>> /\ working' = alive /\ UNCHANGED <<run, reason>>
         /\ \/ /\ stage' = "model" /\ requests' = requests + 1
               /\ delivered' = Len(said) /\ fitted' = NoFit
               /\ carried' = carried \cup (Projection(said) \cap {i \in DOMAIN said : said[i].role = "user"})
               /\ UNCHANGED cut
            \/ /\ Cardinality({i \in DOMAIN said : said[i].role = "summary"}) < MaxSummaries
               /\ fitted' \in Fits(said) /\ stage' = "summary"
               /\ UNCHANGED <<delivered, requests, carried, cut>>

-----------------------------------------------------------------------------
(* sendMessage, and the prompt of a start: a message joins the conversation *)
(* and opens a run when there is none.                                     *)
Type ==
    /\ Cardinality(Users) < MaxMessages
    /\ conversation' = Append(conversation, Message("user"))
    /\ queued' = (queued \/ run = 0)
    /\ UNCHANGED <<run, runs, reason, turn, reading, working, carried, cut>>

(* startAgentExecution: the skills of the directory are read first.         *)
Start ==
    /\ queued /\ run = 0 /\ runs < MaxRuns
    /\ queued' = FALSE /\ runs' = runs + 1 /\ run' = runs + 1
    /\ stage' = "skills" /\ reading' = reading \cup {runs + 1}
    /\ iteration' = 0 /\ delivered' = 0
    /\ UNCHANGED <<conversation, reason, requests, fitted, calls, working, carried, cut>>

\* Mutant of SkillsRead: the skills of a run that ended start the next one.
SkillsReadByAnyone(r) ==
    /\ r \in reading
    /\ reading' = reading \ {r}
    /\ IF run # 0 THEN Continue(conversation, working)
       ELSE UNCHANGED <<run, reason, turn, working, carried, cut>>
    /\ UNCHANGED <<conversation, runs, queued>>

SkillsRead(r) ==
    /\ r \in reading
    /\ reading' = reading \ {r}
    /\ IF run = r THEN Continue(conversation, working)
       ELSE UNCHANGED <<run, reason, turn, working, carried, cut>>
    /\ UNCHANGED <<conversation, runs, queued>>

\* Mutant of Summarized: the summary counts as having carried what came since.
SummarizedAsDelivered(text) ==
    /\ stage = "summary"
    /\ conversation' = IF text
         THEN Append(conversation, [role |-> "summary", until |-> fitted.until])
         ELSE conversation
    /\ carried' = carried \cup ((fitted.kept \cup IF text THEN fitted.told ELSE {}) \cap Users)
    /\ cut' = cut \cup IF text THEN (fitted.dropped \ fitted.told) \cap Users ELSE {}
    /\ stage' = "model" /\ requests' = requests + 1 /\ fitted' = NoFit
    /\ delivered' = Len(conversation)
    /\ UNCHANGED <<run, runs, queued, reason, iteration, calls, reading, working>>

(* applySummary: what fits is sent, behind the summary if there is one.     *)
Summarized(text) ==
    /\ stage = "summary"
    /\ conversation' = IF text
         THEN Append(conversation, [role |-> "summary", until |-> fitted.until])
         ELSE conversation
    /\ carried' = carried \cup ((fitted.kept \cup IF text THEN fitted.told ELSE {}) \cap Users)
    /\ cut' = cut \cup IF text THEN (fitted.dropped \ fitted.told) \cap Users ELSE {}
    /\ stage' = "model" /\ requests' = requests + 1 /\ fitted' = NoFit
    /\ UNCHANGED <<run, runs, queued, reason, iteration, delivered, calls, reading, working>>

(* handleToolCalls: the turn asks for tools.                               *)
AsksForTools(q) ==
    /\ stage = "model"
    /\ requests' = requests - 1
    /\ conversation' = Append(conversation, Message("calls"))
    /\ stage' = "tools"
    /\ DispatchTools([k \in DOMAIN q |-> [kind |-> q[k], started |-> FALSE, finished |-> FALSE]],
                     Len(conversation) + 1, working)
    /\ UNCHANGED <<run, runs, queued, reason, iteration, delivered, fitted, reading, carried, cut>>

(* The same call once too often ends the run, its calls unanswered.         *)
Repeats ==
    /\ stage = "model"
    /\ conversation' = Append(conversation, Message("calls"))
    /\ Completed("repetition", working)
    /\ UNCHANGED <<runs, queued, reading, carried, cut>>

(* The final answer, which may be empty; a message that no turn carried     *)
(* opens the next run (continueWhenAnswerIsPending).                        *)
Answers(text) ==
    /\ stage = "model"
    /\ conversation' = IF text THEN Append(conversation, Message("answer")) ELSE conversation
    /\ Completed("answered", working)
    /\ queued' = (queued \/ \E i \in Users : i > delivered)
    /\ UNCHANGED <<runs, reading, carried, cut>>

(* An answer cut at the output budget ends the run, and opens none.         *)
AnswerCut(text) ==
    /\ stage = "model"
    /\ conversation' = IF text THEN Append(conversation, Message("answer")) ELSE conversation
    /\ Completed("budget", working)
    /\ UNCHANGED <<runs, queued, reading, carried, cut>>

(* A failure, or stopTask.                                                  *)
Ends(why) ==
    /\ run # 0
    /\ Completed(why, working)
    /\ UNCHANGED <<conversation, runs, queued, reading, carried, cut>>

\* Mutant of CompleteToolCall: what waited for the call is not looked at.
CompleteToolCallAlone(k, alive) ==
    LET answered == [calls EXCEPT ![k].finished = TRUE] IN
    IF \A j \in DOMAIN answered : answered[j].finished
    THEN /\ conversation' = Append(conversation, Message("results"))
         /\ Continue(conversation', alive)
    ELSE /\ calls' = answered /\ working' = alive
         /\ UNCHANGED <<conversation, run, reason, stage, iteration, delivered, requests, fitted, carried, cut>>

(* completeToolCall: the last answer of the turn records all of them, in    *)
(* the order they were asked for, and goes on; any other looks for calls    *)
(* that may start now.                                                     *)
CompleteToolCall(k, alive) ==
    LET answered == [calls EXCEPT ![k].finished = TRUE] IN
    IF \A j \in DOMAIN answered : answered[j].finished
    THEN /\ conversation' = Append(conversation, Message("results"))
         /\ Continue(conversation', alive)
    ELSE /\ DispatchTools(answered, Asked, alive)
         /\ UNCHANGED <<conversation, run, reason, stage, iteration, delivered, requests, fitted, carried, cut>>

(* The call of this run that an answer is for, if it still waits for it.    *)
AwaitedFrom(w) ==
    stage = "tools" /\ w.run = run /\ w.asked = Asked /\ w.call \in Running(calls)

ToolAnswers(w) ==
    /\ w \in working
    /\ IF AwaitedFrom(w) THEN CompleteToolCall(w.call, working \ {w})
       ELSE /\ working' = working \ {w}
            /\ UNCHANGED <<conversation, run, reason, turn, carried, cut>>
    /\ UNCHANGED <<runs, queued, reading>>

(* The deadline of a call, which answers it and leaves its tool at work.    *)
Deadline(k) ==
    /\ stage = "tools" /\ k \in Running(calls) /\ calls[k].kind # "unlimited"
    /\ CompleteToolCall(k, {[w EXCEPT !.late = @ \/ (w.run = run /\ w.asked = Asked /\ w.call = k)] :
                            w \in working})
    /\ UNCHANGED <<runs, queued, reading>>

Tools ==
    \/ \E w \in working : ToolAnswers(w)
    \/ \E k \in DOMAIN calls : Deadline(k)

Next ==
    \/ Type \/ Start \/ Repeats \/ Tools
    \/ \E text \in BOOLEAN : Answers(text) \/ AnswerCut(text)
    \/ \E why \in {"failed", "cancelled"} : Ends(why)
    \/ \E r \in reading : SkillsRead(r)
    \/ \E text \in BOOLEAN : Summarized(text)
    \/ \E q \in Questions : AsksForTools(q)

Spec == Init /\ [][Next]_vars

(* The timers of the deadlines fire; that is all the code promises.         *)
FairSpec == Spec /\ WF_vars(\E k \in DOMAIN calls : Deadline(k))

-----------------------------------------------------------------------------
(* Every variable has its type, and what a run waits for is there.          *)
TypeOK ==
    /\ conversation \in Seq([role : Roles, until : Nat])
    /\ run \in 0..MaxRuns /\ runs \in run..MaxRuns /\ queued \in BOOLEAN /\ reason \in Reasons
    /\ stage \in Stages /\ iteration \in Nat /\ delivered \in 0..Len(conversation)
    /\ MaxIterations > 0 => iteration <= MaxIterations
    /\ reading \subseteq 1..runs /\ requests \in Nat
    /\ fitted.until <= Len(conversation) /\ carried \cup cut \subseteq Users
    /\ run = 0 <=> stage = "none"
    /\ calls # <<>> <=> stage = "tools"
    /\ fitted # NoFit <=> stage = "summary"

(* The client never gets a request while it has one (it would refuse it and *)
(* fail the run): late skills, late tools, deadlines and summaries never    *)
(* make a run go on twice.                                                 *)
OneRequestAtATime == requests = (IF stage = "model" THEN 1 ELSE 0)

(* Tools that touch the same thing never work together, unless one of them  *)
(* was given up: its deadline passed, or its run ended.                    *)
ConflictsTakeTurns ==
    \A v, w \in working : v # w /\ Conflict(v.kind, w.kind) => v.late \/ w.late

(* README.md:179, a message typed during the final answer "opens the turn  *)
(* after it": when a run answers, either the model was told everything the  *)
(* user said, in a request or in a summary, or a further run is asked for,   *)
(* but for what a request for a summary had no room for.                    *)
RunAnswers == run # 0 /\ run' = 0 /\ reason' = "answered"
EveryMessageIsAnswered == [][RunAnswers => Users \subseteq carried \cup cut \/ queued']_vars

(* "A tool that never answers would hold the turn open forever"             *)
(* (AiToolRegistry.cpp:487): a turn without unlimited commands ends, or      *)
(* goes on, whether or not its tools ever answer.                           *)
Bounded == stage = "tools" /\ \A k \in DOMAIN calls : calls[k].kind # "unlimited"
ToolsHoldNoTurn == Bounded ~> ~Bounded

(* tests/ai/AiRuntimeTests.cpp:2379, "no orphan tool result is left without *)
(* the turn that asked for it": what a summary hides, it hides with the      *)
(* results of its tools (AiPlugin.cpp:2232).                                *)
ResultsKeepTheirTurn ==
    \A i \in Projection(conversation) :
        conversation[i].role = "results" =>
            Hidden(conversation) < Max({j \in 1..i : conversation[j].role = "calls"})
-----------------------------------------------------------------------------
(* The proof that the client of a run never has two requests, for every     *)
(* agent, and however late skills, tools, deadlines and summaries arrive.   *)

(* The run whose skills are being read waits for them and for nothing else; *)
(* the skills of a run that is still to come are not being read.            *)
SkillsComeFirst ==
    /\ runs \in Nat
    /\ \A r \in reading : r \in 1..runs /\ (r = run => stage = "skills")

(* Nothing is waited for when there is no run.                              *)
NoRunNoTurn == run = 0 => stage = "none"

RequestInv == OneRequestAtATime /\ SkillsComeFirst /\ NoRunNoTurn

(* A run that waits for no answer, and whose skills were read, goes on with *)
(* one request.                                                            *)
LEMMA ContinueAsksOnce ==
    ASSUME RequestInv, stage # "model", run # 0,
           NEW said, NEW alive, Continue(said, alive),
           runs' = runs, reading' \subseteq reading, run \notin reading'
    PROVE  RequestInv'
  <1>1. requests = 0
    BY DEF RequestInv, OneRequestAtATime
  <1>2. run' \in {run, 0} /\ NoRunNoTurn'
    BY DEF Continue, Completed, NoRunNoTurn
  <1>3. SkillsComeFirst'
    <2>1. \A r \in reading' : r \in 1..runs /\ r # run'
      BY <1>2 DEF RequestInv, SkillsComeFirst
    <2> QED BY <2>1 DEF RequestInv, SkillsComeFirst
  <1>4. OneRequestAtATime'
    BY <1>1 DEF Continue, Completed, OneRequestAtATime
  <1> QED BY <1>2, <1>3, <1>4 DEF RequestInv

(* A run that ends has no request left.                                     *)
LEMMA CompletedAsksNothing ==
    ASSUME RequestInv, NEW why, NEW alive, Completed(why, alive), runs' = runs, reading' = reading
    PROVE  RequestInv'
  <1>1. run' = 0 /\ stage' = "none" /\ requests' = 0
    BY DEF Completed
  <1>2. \A r \in reading : r # 0
    BY DEF RequestInv, SkillsComeFirst
  <1> QED BY <1>1, <1>2 DEF RequestInv, OneRequestAtATime, SkillsComeFirst, NoRunNoTurn

(* An answer of a tool sends the request of the next turn, or none.         *)
LEMMA ToolCallAsksOnce ==
    ASSUME RequestInv, stage = "tools", NEW k, NEW alive, CompleteToolCall(k, alive),
           runs' = runs, reading' = reading
    PROVE  RequestInv'
  <1>1. run \notin reading /\ run # 0
    BY DEF RequestInv, SkillsComeFirst, NoRunNoTurn
  <1>2. CASE Continue(conversation', alive)
    BY <1>1, <1>2, ContinueAsksOnce
  <1>3. CASE UNCHANGED <<run, stage, requests>>
    BY <1>3 DEF RequestInv, OneRequestAtATime, SkillsComeFirst, NoRunNoTurn
  <1>4. Continue(conversation', alive) \/ UNCHANGED <<run, stage, requests>>
    BY DEF CompleteToolCall
  <1> QED BY <1>2, <1>3, <1>4

LEMMA RequestStep == RequestInv /\ [Next]_vars => RequestInv'
  <1> SUFFICES ASSUME RequestInv, [Next]_vars PROVE RequestInv'
    OBVIOUS
  <1> USE DEF RequestInv
  <1>1. CASE Type
    BY <1>1 DEF Type, turn, OneRequestAtATime, SkillsComeFirst, NoRunNoTurn
  <1>2. CASE Start
    <2>1. runs' = runs + 1 /\ run' = runs + 1 /\ stage' = "skills"
          /\ reading' = reading \cup {runs + 1} /\ requests' = requests
      BY <1>2 DEF Start
    <2>2. requests = 0
      BY <1>2 DEF Start, NoRunNoTurn, OneRequestAtATime
    <2> QED BY <2>1, <2>2 DEF OneRequestAtATime, SkillsComeFirst, NoRunNoTurn
  <1>3. CASE Repeats
    BY <1>3, CompletedAsksNothing DEF Repeats
  <1>4. ASSUME NEW text \in BOOLEAN, Answers(text) \/ AnswerCut(text) PROVE RequestInv'
    <2>1. \E why : Completed(why, working)
      BY <1>4 DEF Answers, AnswerCut
    <2>2. UNCHANGED <<runs, reading>>
      BY <1>4 DEF Answers, AnswerCut
    <2> QED BY <2>1, <2>2, CompletedAsksNothing
  <1>5. ASSUME NEW why \in {"failed", "cancelled"}, Ends(why) PROVE RequestInv'
    BY <1>5, CompletedAsksNothing DEF Ends
  <1>6. ASSUME NEW w \in working, ToolAnswers(w) PROVE RequestInv'
    <2>1. CASE AwaitedFrom(w)
      <3>1. stage = "tools" /\ runs' = runs /\ reading' = reading
            /\ CompleteToolCall(w.call, working \ {w})
        BY <1>6, <2>1 DEF ToolAnswers, AwaitedFrom
      <3> QED BY <3>1, ToolCallAsksOnce
    <2>2. CASE ~AwaitedFrom(w)
      BY <1>6, <2>2 DEF ToolAnswers, turn, OneRequestAtATime, SkillsComeFirst, NoRunNoTurn
    <2> QED BY <2>1, <2>2
  <1>7. ASSUME NEW k \in DOMAIN calls, Deadline(k) PROVE RequestInv'
    BY <1>7, ToolCallAsksOnce DEF Deadline
  <1>8. ASSUME NEW r \in reading, SkillsRead(r) PROVE RequestInv'
    <2>1. runs' = runs /\ reading' = reading \ {r}
      BY <1>8 DEF SkillsRead
    <2>2. CASE run = r
      <3>1. Continue(conversation, working)
        BY <1>8, <2>2 DEF SkillsRead
      <3>2. stage # "model" /\ run # 0 /\ run \notin reading'
        BY <2>1, <2>2 DEF SkillsComeFirst
      <3> QED BY <2>1, <3>1, <3>2, ContinueAsksOnce
    <2>3. CASE run # r
      <3>1. UNCHANGED <<run, stage, requests>>
        BY <1>8, <2>3 DEF SkillsRead, turn
      <3> QED BY <2>1, <3>1 DEF OneRequestAtATime, SkillsComeFirst, NoRunNoTurn
    <2> QED BY <2>2, <2>3
  <1>9. ASSUME NEW text \in BOOLEAN, Summarized(text) PROVE RequestInv'
    <2>1. stage = "summary" /\ stage' = "model" /\ requests' = requests + 1
          /\ UNCHANGED <<run, runs, reading>>
      BY <1>9 DEF Summarized
    <2> QED BY <2>1 DEF OneRequestAtATime, SkillsComeFirst, NoRunNoTurn
  <1>10. ASSUME NEW q \in Questions, AsksForTools(q) PROVE RequestInv'
    <2>1. stage = "model" /\ stage' = "tools" /\ requests' = requests - 1
          /\ UNCHANGED <<run, runs, reading>>
      BY <1>10 DEF AsksForTools
    <2> QED BY <2>1 DEF OneRequestAtATime, SkillsComeFirst, NoRunNoTurn
  <1>11. CASE UNCHANGED vars
    BY <1>11 DEF vars, turn, OneRequestAtATime, SkillsComeFirst, NoRunNoTurn
  <1> QED
    BY <1>1, <1>2, <1>3, <1>4, <1>5, <1>6, <1>7, <1>8, <1>9, <1>10, <1>11 DEF Next, Tools

(* The client of a run is sent a request only when it has none: the skills, *)
(* the tools and the summary of a turn, and those of a run that ended, each *)
(* make it go on once (AiPlugin.cpp, continueAgent and applySummary).       *)
THEOREM NeverTwoRequests == Spec => []OneRequestAtATime
  <1>1. Init => RequestInv
    BY DEF Init, RequestInv, OneRequestAtATime, SkillsComeFirst, NoRunNoTurn
  <1>2. RequestInv => OneRequestAtATime
    BY DEF RequestInv
  <1> QED BY <1>1, <1>2, RequestStep, PTL DEF Spec

-----------------------------------------------------------------------------
(* The proofs that a turn has its type, that its tools take turns and that  *)
(* no message is forgotten, for every conversation, window and limit.       *)
Messages == [role : Roles, until : Nat]

(* What a conversation hides, as a number that all of it agrees on.         *)
IsHidden(said, h) ==
    /\ h \in Nat /\ \A i \in DOMAIN said : said[i].until <= h
    /\ h = 0 \/ \E i \in DOMAIN said : said[i].until = h

(* The turn that called tools last.                                        *)
IsAsked(said, a) ==
    /\ a \in DOMAIN said /\ said[a].role = "calls"
    /\ \A i \in DOMAIN said : said[i].role = "calls" => i <= a

(* A message hides only what came before it.                               *)
SaidInv ==
    /\ conversation \in Seq(Messages)
    /\ \A i \in DOMAIN conversation : conversation[i].until < i
    /\ IsHidden(conversation, Hidden(conversation))

StageInv ==
    /\ run \in 0..MaxRuns /\ runs \in run..MaxRuns /\ queued \in BOOLEAN /\ reason \in Reasons
    /\ stage \in Stages /\ iteration \in Nat /\ delivered \in 0..Len(conversation)
    /\ MaxIterations > 0 => iteration <= MaxIterations
    /\ run = 0 <=> stage = "none"
    /\ fitted # NoFit <=> stage = "summary"
    /\ fitted.until \in 0..Len(conversation)

Call == [kind : Kinds, started : BOOLEAN, finished : BOOLEAN]
Work == [run : Nat, asked : Nat, call : Nat, kind : Kinds, late : BOOLEAN]

(* The tools that work in time are those the turn waits for, one for each    *)
(* call, and what was given up is waited for no more.                      *)
WorkInv ==
    /\ calls \in Seq(Call) /\ (calls # <<>> <=> stage = "tools")
    /\ \A k \in DOMAIN calls : calls[k].finished => calls[k].started
    /\ stage = "tools" => IsAsked(conversation, Asked)
    /\ working \subseteq Work
    /\ \A j, k \in Running(calls) : j # k => ~Conflict(calls[j].kind, calls[k].kind)
    /\ \A v \in working :
           /\ v.asked <= Len(conversation)
           /\ ~v.late => /\ stage = "tools" /\ v.run = run /\ v.asked = Asked
                         /\ v.call \in Running(calls) /\ v.kind = calls[v.call].kind
           /\ v.late /\ stage = "tools" /\ v.run = run /\ v.asked = Asked => v.call \notin Running(calls) \cup Waiting(calls)

(* What the user said up to what was delivered, or is hidden, was carried    *)
(* or cut; what a summary is about to hide, it carries or cuts.              *)
CarriedInv ==
    /\ carried \cup cut \subseteq Users
    /\ \A u \in Users : u <= delivered \/ u <= Hidden(conversation) => u \in carried \cup cut
    /\ stage = "summary" =>
           \A u \in Users : u <= fitted.until => u \in carried \cup cut \/ u \in fitted.kept \/ u \in fitted.dropped

TurnInv == RequestInv /\ SaidInv /\ StageInv /\ WorkInv /\ CarriedInv

LEMMA MaxIs ==
    ASSUME NEW S, S \subseteq Int, NEW m \in S, \A y \in S : m >= y
    PROVE  Max(S) = m
  <1>1. \E x \in S : \A y \in S : x >= y
    OBVIOUS
  <1>2. Max(S) \in S /\ \A y \in S : Max(S) >= y
    BY <1>1 DEF Max
  <1>3. Max(S) \in Int /\ m \in Int /\ Max(S) >= m /\ m >= Max(S)
    BY <1>2
  <1> QED BY <1>3

LEMMA HiddenIs ==
    ASSUME NEW said \in Seq(Messages), NEW h, IsHidden(said, h)
    PROVE  Hidden(said) = h
  <1> DEFINE S == {said[i].until : i \in DOMAIN said} \cup {0}
  <1>1. S \subseteq Int
    <2>1. \A i \in DOMAIN said : said[i] \in Messages
      OBVIOUS
    <2>2. \A i \in DOMAIN said : said[i].until \in Int
      BY <2>1 DEF Messages
    <2> QED BY <2>2
  <1>2. h \in S /\ \A y \in S : h >= y
    BY DEF IsHidden, Messages
  <1>3. Hidden(said) = Max(S)
    BY DEF Hidden
  <1> HIDE DEF S
  <1> QED BY <1>1, <1>2, <1>3, MaxIs

(* What one more message hides, and what it leaves as it was.               *)
LEMMA OneMore ==
    ASSUME SaidInv, NEW m \in Messages, m.until <= Len(conversation), conversation' = Append(conversation, m)
    PROVE  /\ SaidInv'
           /\ Hidden(conversation)' = IF m.until > Hidden(conversation) THEN m.until ELSE Hidden(conversation)
           /\ Len(conversation') = Len(conversation) + 1 /\ DOMAIN conversation' = 1..Len(conversation) + 1
           /\ \A i \in DOMAIN conversation : conversation'[i] = conversation[i]
           /\ conversation'[Len(conversation) + 1] = m
  <1> DEFINE h == IF m.until > Hidden(conversation) THEN m.until ELSE Hidden(conversation)
  <1>1. conversation \in Seq(Messages) /\ IsHidden(conversation, Hidden(conversation))
    BY DEF SaidInv
  <1>2. /\ conversation' \in Seq(Messages)
        /\ Len(conversation') = Len(conversation) + 1 /\ DOMAIN conversation' = 1..Len(conversation) + 1
        /\ \A i \in DOMAIN conversation : conversation'[i] = conversation[i]
        /\ conversation'[Len(conversation) + 1] = m
    BY <1>1
  <1>3. IsHidden(conversation', h)
    <2>1. Hidden(conversation) \in Nat /\ m.until \in Nat
      BY <1>1 DEF IsHidden, Messages
    <2>2. \A i \in DOMAIN conversation' : conversation'[i].until <= h
      <3> SUFFICES ASSUME NEW i \in DOMAIN conversation' PROVE conversation'[i].until <= h
        OBVIOUS
      <3>1. CASE i = Len(conversation) + 1
        BY <1>2, <2>1, <3>1
      <3>2. CASE i \in DOMAIN conversation
        <4>1. conversation[i].until <= Hidden(conversation)
          BY <1>1, <3>2 DEF IsHidden
        <4>2. conversation[i] \in Messages
          BY <1>1, <3>2
        <4>3. conversation[i].until \in Nat
          BY <4>2 DEF Messages
        <4> QED BY <1>2, <2>1, <3>2, <4>1, <4>3
      <3> QED BY <1>1, <1>2, <3>1, <3>2
    <2>3. h = 0 \/ \E i \in DOMAIN conversation' : conversation'[i].until = h
      <3>1. CASE h = m.until
        <4>1. Len(conversation) + 1 \in DOMAIN conversation'
          BY <1>1, <1>2
        <4> QED BY <1>2, <3>1, <4>1
      <3>2. CASE h = Hidden(conversation)
        <4>1. CASE Hidden(conversation) = 0
          BY <3>2, <4>1
        <4>2. CASE Hidden(conversation) # 0
          <5>1. PICK i \in DOMAIN conversation : conversation[i].until = Hidden(conversation)
            BY <1>1, <4>2 DEF IsHidden
          <5>2. i \in DOMAIN conversation' /\ conversation'[i].until = h
            BY <1>1, <1>2, <3>2, <5>1
          <5> QED BY <5>2
        <4> QED BY <4>1, <4>2
      <3> QED BY <3>1, <3>2
    <2> QED BY <2>1, <2>2, <2>3 DEF IsHidden
  <1>4. Hidden(conversation') = h
    BY <1>2, <1>3, HiddenIs
  <1>5. \A i \in DOMAIN conversation' : conversation'[i].until < i
    <2> SUFFICES ASSUME NEW i \in DOMAIN conversation' PROVE conversation'[i].until < i
      OBVIOUS
    <2>1. CASE i = Len(conversation) + 1
      BY <1>1, <1>2, <2>1 DEF Messages
    <2>2. CASE i \in DOMAIN conversation
      BY <1>2, <2>2 DEF SaidInv
    <2> QED BY <1>1, <1>2, <2>1, <2>2
  <1> QED BY <1>2, <1>3, <1>4, <1>5 DEF SaidInv

(* Nothing that is still to come is hidden.                                *)
LEMMA HiddenIsPast ==
    ASSUME NEW said \in Seq(Messages), \A i \in DOMAIN said : said[i].until < i, IsHidden(said, Hidden(said))
    PROVE  Hidden(said) \in 0..Len(said)
  <1>1. Hidden(said) \in Nat
    BY DEF IsHidden
  <1>2. CASE Hidden(said) = 0
    BY <1>1, <1>2
  <1>3. CASE Hidden(said) # 0
    <2>1. PICK i \in DOMAIN said : said[i].until = Hidden(said)
      BY <1>3 DEF IsHidden
    <2>2. Hidden(said) < i /\ i \in 1..Len(said)
      BY <2>1
    <2> QED BY <1>1, <2>2
  <1> QED BY <1>2, <1>3

LEMMA AskedIs ==
    ASSUME NEW said \in Seq(Messages), NEW a, IsAsked(said, a)
    PROVE  Max({i \in DOMAIN said : said[i].role = "calls"}) = a
  <1> DEFINE S == {i \in DOMAIN said : said[i].role = "calls"}
  <1>1. S \subseteq Int /\ a \in S /\ \A y \in S : a >= y
    BY DEF IsAsked
  <1> QED BY <1>1, MaxIs

(* What a summary leaves and what it replaces are all that is shown.        *)
LEMMA FitsWhole ==
    ASSUME NEW said \in Seq(Messages), Hidden(said) \in 0..Len(said), NEW f \in Fits(said)
    PROVE  /\ f.kept \cup f.dropped = Projection(said)
           /\ f.until \in 1..Len(said) /\ f # NoFit
  <1> DEFINE first == Hidden(said) + 1
             from == IF first <= Len(said) /\ IsPrompt(said[first]) THEN first + 1 ELSE first
             numbered(k) == IF said[k].role = "results" /\ k < Len(said) THEN k + 1 ELSE k
  <1>0. PICK k \in Cuts(said, from, Len(said)) : \E told \in InSummary(said, from, k) :
          f = [kept |-> Projection(said) \ (from..k), dropped |-> from..k, told |-> told, until |-> numbered(k)]
    BY DEF Fits
  <1>1. PICK told \in InSummary(said, from, k) :
          f = [kept |-> Projection(said) \ (from..k), dropped |-> from..k, told |-> told, until |-> numbered(k)]
    BY <1>0
  <1>2. Len(said) \in Nat /\ from \in {first, first + 1} /\ first \in Nat \ {0}
    OBVIOUS
  <1>3. k \in Nat /\ from <= k /\ k <= Len(said)
    BY <1>2 DEF Cuts
  <1> HIDE DEF first, from, numbered
  <1>4. from..k \subseteq Projection(said)
    BY <1>2, <1>3 DEF Projection, first
  <1>5. numbered(k) \in 1..Len(said)
    BY <1>2, <1>3 DEF numbered
  <1>6. f.kept = Projection(said) \ (from..k) /\ f.dropped = from..k /\ f.until = numbered(k)
    BY <1>1
  <1>7. f.until # 0
    BY <1>5, <1>6
  <1> QED BY <1>4, <1>5, <1>6, <1>7 DEF NoFit

(* A run that ends: what is under way is given up.                         *)
LEMMA CompletedIsOver ==
    ASSUME StageInv, WorkInv, NEW why \in Reasons, Completed(why, working),
           runs' = runs, queued' \in BOOLEAN,
           conversation \in Seq(Messages), conversation' \in Seq(Messages), Len(conversation) <= Len(conversation')
    PROVE  StageInv' /\ WorkInv'
  <1>1. /\ reason' = why /\ run' = 0 /\ stage' = "none" /\ calls' = <<>> /\ fitted' = NoFit
        /\ iteration' = iteration /\ delivered' = delivered
        /\ working' = {[w EXCEPT !.late = TRUE] : w \in {v \in working : v.late \/ v.kind \notin Commands}}
    BY DEF Completed
  <1>2. StageInv'
    <2>1. runs' \in 0..MaxRuns /\ delivered' \in 0..Len(conversation')
      BY <1>1, TurnAssumption DEF StageInv
    <2>2. fitted'.until \in 0..Len(conversation')
      BY <1>1 DEF NoFit
    <2> QED BY <1>1, <2>1, <2>2, TurnAssumption DEF StageInv, Stages
  <1>3. WorkInv'
    <2>1. calls' \in Seq(Call) /\ DOMAIN calls' = {} /\ Running(calls') = {}
      BY <1>1 DEF Running
    <2>2. \A v \in working' : v \in Work /\ v.late /\ v.asked <= Len(conversation')
      <3> SUFFICES ASSUME NEW v \in working' PROVE v \in Work /\ v.late /\ v.asked <= Len(conversation')
        OBVIOUS
      <3>1. PICK w \in working : v = [w EXCEPT !.late = TRUE]
        BY <1>1
      <3>2. w \in Work /\ w.asked <= Len(conversation)
        BY DEF WorkInv
      <3>3. v \in Work /\ v.late /\ v.asked = w.asked
        BY <3>1, <3>2 DEF Work
      <3> QED BY <3>2, <3>3 DEF Work
    <2> QED BY <1>1, <2>1, <2>2 DEF WorkInv
  <1> QED BY <1>2, <1>3

(* A run that goes on with one more turn, whose tools are all given up.     *)
LEMMA ContinueIsSound ==
    ASSUME StageInv, SaidInv', NEW said, said = conversation', NEW alive, Continue(said, alive),
           \A v \in alive : v \in Work /\ v.late /\ v.asked <= Len(said),
           conversation \in Seq(Messages), Len(conversation) <= Len(said), run # 0, runs' = runs, queued' = queued,
           carried \cup cut \subseteq Users', \A u \in Users' : u <= delivered \/ u <= Hidden(said) => u \in carried \cup cut
    PROVE  StageInv' /\ WorkInv' /\ CarriedInv'
  <1>1. said \in Seq(Messages) /\ Hidden(said) \in 0..Len(said)
    BY HiddenIsPast DEF SaidInv
  <1>2. Users' = {i \in DOMAIN said : said[i].role = "user"}
    BY DEF Users
  <1>3. CASE Completed("limit", alive) /\ UNCHANGED <<carried, cut>>
    <2>1. /\ reason' = "limit" /\ run' = 0 /\ stage' = "none" /\ calls' = <<>> /\ fitted' = NoFit
          /\ iteration' = iteration /\ delivered' = delivered
          /\ working' = {[w EXCEPT !.late = TRUE] : w \in {v \in alive : v.late \/ v.kind \notin Commands}}
      BY <1>3 DEF Completed
    <2>2. StageInv'
      <3>1. runs' \in 0..MaxRuns /\ delivered' \in 0..Len(said)
        BY <2>1, <1>1, TurnAssumption DEF StageInv
      <3>2. fitted'.until \in 0..Len(said)
        BY <1>1, <2>1 DEF NoFit
      <3> QED BY <2>1, <3>1, <3>2, TurnAssumption DEF StageInv, Stages, Reasons
    <2>3. WorkInv'
      <3>1. calls' \in Seq(Call) /\ DOMAIN calls' = {} /\ Running(calls') = {}
        BY <2>1 DEF Running
      <3>2. \A v \in working' : v \in Work /\ v.late /\ v.asked <= Len(said)
        BY <2>1 DEF Work
      <3> QED BY <2>1, <3>1, <3>2 DEF WorkInv
    <2>4. CarriedInv'
      BY <1>3, <2>1 DEF CarriedInv
    <2> QED BY <2>2, <2>3, <2>4
  <1>4. CASE ~(MaxIterations > 0 /\ iteration = MaxIterations)
    <2>1. /\ iteration' = iteration + 1
          /\ calls' = <<>> /\ working' = alive /\ UNCHANGED <<run, reason>>
      BY <1>4 DEF Continue
    <2>2. iteration' \in Nat /\ (MaxIterations > 0 => iteration' <= MaxIterations)
      BY <1>4, <2>1, TurnAssumption DEF StageInv
    <2>3. ASSUME stage' \in {"model", "summary"} PROVE WorkInv'
      <3>1. calls' \in Seq(Call) /\ DOMAIN calls' = {} /\ Running(calls') = {}
        BY <2>1 DEF Running
      <3> QED BY <2>1, <2>3, <3>1 DEF WorkInv
    <2>4. CASE /\ stage' = "model" /\ delivered' = Len(said) /\ fitted' = NoFit
               /\ carried' = carried \cup (Projection(said) \cap {i \in DOMAIN said : said[i].role = "user"})
               /\ UNCHANGED cut
      <3>1. StageInv'
        <4>1. delivered' \in 0..Len(said) /\ fitted'.until \in 0..Len(said)
          BY <1>1, <2>4 DEF NoFit
        <4> QED BY <2>1, <2>2, <2>4, <4>1 DEF StageInv, Stages
      <3>2. CarriedInv'
        <4>1. \A u \in Users' : u \in carried' \cup cut'
          BY <1>1, <1>2, <2>4 DEF Projection
        <4> QED BY <1>2, <2>4, <4>1 DEF CarriedInv
      <3> QED BY <2>3, <2>4, <3>1, <3>2
    <2>5. CASE fitted' \in Fits(said) /\ stage' = "summary" /\ UNCHANGED <<delivered, requests, carried, cut>>
      <3>1. /\ fitted'.kept \cup fitted'.dropped = Projection(said)
            /\ fitted'.until \in 1..Len(said) /\ fitted' # NoFit
        BY <1>1, <2>5, FitsWhole
      <3>2. StageInv'
        <4>1. delivered' \in 0..Len(said) /\ fitted'.until \in 0..Len(said)
          BY <1>1, <2>5, <3>1 DEF StageInv
        <4> QED BY <2>1, <2>2, <2>5, <3>1, <4>1 DEF StageInv, Stages
      <3>3. CarriedInv'
        <4>1. \A u \in Users' : u \in carried \cup cut \/ u \in fitted'.kept \/ u \in fitted'.dropped
          BY <1>1, <1>2, <3>1 DEF Projection
        <4> QED BY <2>5, <4>1 DEF CarriedInv
      <3> QED BY <2>3, <2>5, <3>2, <3>3
    <2> QED BY <1>4, <2>4, <2>5 DEF Continue
  <1> QED BY <1>3, <1>4 DEF Continue

(* The calls that start conflict with none that runs, nor with each other.   *)
LEMMA DispatchTakesTurns ==
    ASSUME NEW cs \in Seq(Call), cs # <<>>, \A k \in DOMAIN cs : cs[k].finished => cs[k].started,
           \A j, k \in Running(cs) : j # k => ~Conflict(cs[j].kind, cs[k].kind),
           NEW asked, NEW alive, alive \subseteq Work,
           \A v \in alive :
              /\ v.asked <= Len(conversation')
              /\ ~v.late => /\ v.run = run /\ v.asked = asked
                            /\ v.call \in Running(cs) /\ v.kind = cs[v.call].kind
              /\ v.late /\ v.run = run /\ v.asked = asked => v.call \notin Running(cs) \cup Waiting(cs),
           conversation' \in Seq(Messages), IsAsked(conversation', asked), run \in Nat,
           DispatchTools(cs, asked, alive), run' = run, stage' = "tools"
    PROVE  WorkInv'
  <1>1. PICK starts \in SUBSET Waiting(cs) :
          /\ Dispatched(cs, starts)
          /\ calls' = [k \in DOMAIN cs |-> [cs[k] EXCEPT !.started = @ \/ k \in starts]]
          /\ working' = alive \cup {[run |-> run, asked |-> asked, call |-> k,
                                     kind |-> cs[k].kind, late |-> FALSE] : k \in starts}
    BY DEF DispatchTools
  <1>2. DOMAIN cs = 1..Len(cs) /\ Len(cs) \in Nat /\ \A k \in DOMAIN cs : cs[k] \in Call
    OBVIOUS
  <1>3. /\ calls' \in Seq(Call) /\ DOMAIN calls' = DOMAIN cs /\ calls' # <<>>
        /\ \A k \in DOMAIN cs : calls'[k].kind = cs[k].kind /\ (calls'[k].finished <=> cs[k].finished)
        /\ \A k \in DOMAIN cs : calls'[k].started <=> (cs[k].started \/ k \in starts)
    <2>1. DOMAIN calls' = 1..Len(cs)
      BY <1>1, <1>2
    <2>2. ASSUME NEW k \in DOMAIN cs
          PROVE  /\ calls'[k] \in Call /\ calls'[k].kind = cs[k].kind
                 /\ calls'[k].finished <=> cs[k].finished
                 /\ calls'[k].started <=> cs[k].started \/ k \in starts
      <3>1. calls'[k] = [cs[k] EXCEPT !.started = @ \/ k \in starts] /\ cs[k] \in Call
        BY <1>1, <1>2
      <3>2. (cs[k].started \/ k \in starts) \in BOOLEAN
        OBVIOUS
      <3> QED BY <3>1, <3>2 DEF Call
    <2>3. calls' \in Seq(Call)
      <3>1. calls' = [k \in 1..Len(cs) |-> calls'[k]]
        BY <1>1, <1>2
      <3> QED BY <1>2, <2>2, <3>1
    <2>4. calls' # <<>>
      BY <1>2, <2>1
    <2> QED BY <1>2, <2>1, <2>2, <2>3, <2>4
  <1>4. Running(calls') = Running(cs) \cup starts
    BY <1>1, <1>2, <1>3 DEF Running, Waiting
  <1>5. \A k \in DOMAIN calls' : calls'[k].finished => calls'[k].started
    BY <1>3
  <1>6. \A j, k \in Running(calls') : j # k => ~Conflict(calls'[j].kind, calls'[k].kind)
    <2> SUFFICES ASSUME NEW j \in Running(calls'), NEW k \in Running(calls'), j # k
                 PROVE  ~Conflict(calls'[j].kind, calls'[k].kind)
      OBVIOUS
    <2>1. j \in DOMAIN cs /\ k \in DOMAIN cs /\ calls'[j].kind = cs[j].kind /\ calls'[k].kind = cs[k].kind
      BY <1>3 DEF Running
    <2>2. \A x, y : Conflict(x, y) <=> Conflict(y, x)
      BY DEF Conflict
    <2>3. \A x \in starts : \A y \in Running(cs) \cup {i \in starts : i < x} : ~Conflict(cs[y].kind, cs[x].kind)
      BY <1>1 DEF Dispatched
    <2>4. CASE j \in Running(cs) /\ k \in Running(cs)
      BY <2>1, <2>4
    <2>5. CASE j \in Running(cs) /\ k \in starts
      BY <2>1, <2>3, <2>5
    <2>6. CASE j \in starts /\ k \in Running(cs)
      BY <2>1, <2>2, <2>3, <2>6
    <2>7. CASE j \in starts /\ k \in starts
      <3>1. j < k \/ k < j
        BY <1>2, <2>1
      <3> QED BY <2>1, <2>2, <2>3, <2>7, <3>1
    <2> QED BY <1>4, <2>4, <2>5, <2>6, <2>7
  <1>7. Asked' = asked /\ asked \in 1..Len(conversation')
    <2>1. Asked' = Max({i \in DOMAIN conversation' : conversation'[i].role = "calls"})
      BY DEF Asked
    <2>2. Asked' = asked
      BY <2>1, AskedIs
    <2> QED BY <2>2 DEF IsAsked
  <1>8. \A v \in working' :
          /\ v \in Work /\ v.asked <= Len(conversation')
          /\ ~v.late => /\ v.run = run /\ v.asked = asked
                        /\ v.call \in Running(calls') /\ v.kind = calls'[v.call].kind
          /\ v.late /\ v.run = run /\ v.asked = asked => v.call \notin Running(calls') \cup Waiting(calls')
    <2> SUFFICES ASSUME NEW v \in working'
                 PROVE  /\ v \in Work /\ v.asked <= Len(conversation')
                        /\ ~v.late => /\ v.run = run /\ v.asked = asked
                                      /\ v.call \in Running(calls') /\ v.kind = calls'[v.call].kind
                        /\ v.late /\ v.run = run /\ v.asked = asked =>
                              v.call \notin Running(calls') \cup Waiting(calls')
      OBVIOUS
    <2>1. CASE v \in alive
      <3>1. Running(calls') \cup Waiting(calls') = Running(cs) \cup Waiting(cs)
        BY <1>1, <1>3 DEF Running, Waiting
      <3>2. ~v.late => v.kind = calls'[v.call].kind
        BY <1>3, <2>1 DEF Running
      <3> QED BY <1>4, <2>1, <3>1, <3>2
    <2>2. CASE v \notin alive
      <3>1. PICK k \in starts : v = [run |-> run, asked |-> asked, call |-> k, kind |-> cs[k].kind, late |-> FALSE]
        BY <1>1, <2>2
      <3>2. k \in DOMAIN cs /\ k \in Nat /\ cs[k].kind \in Kinds
        BY <1>2 DEF Waiting, Call
      <3>3. v \in Work
        BY <1>7, <3>1, <3>2 DEF Work
      <3> QED BY <1>3, <1>4, <1>7, <3>1, <3>2, <3>3
    <2> QED BY <2>1, <2>2
  <1> QED BY <1>3, <1>5, <1>6, <1>7, <1>8 DEF WorkInv

(* An answer, or a deadline, for call k of the turn; alive are the tools      *)
(* that go on working.                                                     *)
LEMMA ToolCallIsSound ==
    ASSUME TurnInv, stage = "tools", NEW k \in Running(calls), NEW alive, alive \subseteq Work,
           \A v \in alive :
              /\ v.asked <= Len(conversation)
              /\ ~v.late => /\ v.run = run /\ v.asked = Asked
                            /\ v.call \in Running(calls) \ {k} /\ v.kind = calls[v.call].kind
              /\ v.late /\ v.run = run /\ v.asked = Asked =>
                    v.call = k \/ v.call \notin Running(calls) \cup Waiting(calls),
           CompleteToolCall(k, alive), runs' = runs, queued' = queued
    PROVE  SaidInv' /\ StageInv' /\ WorkInv' /\ CarriedInv'
  <1> DEFINE answered == [calls EXCEPT ![k].finished = TRUE]
  <1>1. calls \in Seq(Call) /\ k \in DOMAIN calls /\ DOMAIN calls = 1..Len(calls)
    BY DEF TurnInv, WorkInv, Running
  <1>2. /\ answered \in Seq(Call) /\ DOMAIN answered = DOMAIN calls /\ answered[k].finished /\ answered[k].started
        /\ \A j \in DOMAIN calls : answered[j].kind = calls[j].kind /\ (answered[j].started <=> calls[j].started)
        /\ \A j \in DOMAIN calls : j # k => answered[j] = calls[j]
    <2>1. calls[k] \in Call /\ calls[k].started /\ k \in 1..Len(calls)
      BY <1>1 DEF Running
    <2>2. answered[k] = [calls[k] EXCEPT !.finished = TRUE] /\ \A j \in DOMAIN calls : j # k => answered[j] = calls[j]
      BY <1>1
    <2>3. answered[k] \in Call /\ answered[k].finished /\ answered[k].started /\ answered[k].kind = calls[k].kind
      <3>1. \A c \in Call : LET d == [c EXCEPT !.finished = TRUE]
                            IN  d \in Call /\ d.finished = TRUE /\ d.started = c.started /\ d.kind = c.kind
        BY DEF Call
      <3> HIDE DEF answered
      <3> QED BY <2>1, <2>2, <3>1
    <2>4. answered \in Seq(Call)
      <3>1. PICK call : call = [calls[k] EXCEPT !.finished = TRUE]
        OBVIOUS
      <3>2. answered = [calls EXCEPT ![k] = call]
        BY <3>1
      <3>3. call \in Call
        BY <2>2, <2>3, <3>1
      <3> HIDE DEF answered
      <3> QED BY <1>1, <3>2, <3>3
    <2>5. \A j \in DOMAIN calls : answered[j].kind = calls[j].kind
      BY <2>2, <2>3
    <2>6. \A j \in DOMAIN calls : answered[j].started <=> calls[j].started
      BY <2>1, <2>2, <2>3
    <2> QED BY <1>1, <2>2, <2>3, <2>4, <2>5, <2>6
  <1>3. Running(answered) = Running(calls) \ {k} /\ Waiting(answered) = Waiting(calls) /\ k \notin Waiting(calls)
    BY <1>1, <1>2 DEF Running, Waiting
  <1>4. conversation \in Seq(Messages) /\ run # 0 /\ run \in Nat
    BY TurnAssumption DEF TurnInv, SaidInv, StageInv
  <1>5. CASE \A j \in DOMAIN answered : answered[j].finished
    <2>1. conversation' = Append(conversation, Message("results")) /\ Continue(conversation', alive)
      BY <1>5 DEF CompleteToolCall
    <2>2. Message("results") \in Messages /\ Message("results").until = 0 /\ Message("results").role = "results"
      BY DEF Message, Messages, Roles
    <2>3. Message("results").until <= Len(conversation)
      BY <1>4, <2>2
    <2>4. /\ SaidInv' /\ Len(conversation') = Len(conversation) + 1
          /\ DOMAIN conversation' = 1..Len(conversation) + 1
          /\ \A i \in DOMAIN conversation : conversation'[i] = conversation[i]
          /\ conversation'[Len(conversation) + 1].role = "results"
          /\ Hidden(conversation)' = Hidden(conversation)
      <3>1. Hidden(conversation) \in Nat
        BY DEF TurnInv, SaidInv, IsHidden
      <3> QED BY <2>1, <2>2, <2>3, <3>1, OneMore DEF TurnInv
    <2>5. Users' = Users
      BY <1>4, <2>4 DEF Users
    <2>6. \A v \in alive : v \in Work /\ v.late /\ v.asked <= Len(conversation')
      <3> SUFFICES ASSUME NEW v \in alive PROVE v \in Work /\ v.late /\ v.asked <= Len(conversation')
        OBVIOUS
      <3>1. v.late
        BY <1>2, <1>3, <1>5 DEF Running
      <3> QED BY <1>4, <2>4, <3>1 DEF Work
    <2>7. carried \cup cut \subseteq Users' /\ \A u \in Users' : u <= delivered \/ u <= Hidden(conversation)' => u \in carried \cup cut
      BY <2>4, <2>5 DEF TurnInv, CarriedInv
    <2>8. Len(conversation) <= Len(conversation')
      BY <1>4, <2>4
    <2> QED BY <1>4, <2>1, <2>4, <2>6, <2>7, <2>8, ContinueIsSound DEF TurnInv
  <1>6. CASE ~\A j \in DOMAIN answered : answered[j].finished
    <2>1. /\ DispatchTools(answered, Asked, alive)
          /\ UNCHANGED <<conversation, run, reason, stage, iteration, delivered, requests, fitted, carried, cut>>
      BY <1>6 DEF CompleteToolCall
    <2>2. answered # <<>> /\ \A j \in DOMAIN answered : answered[j].finished => answered[j].started
      <3>1. \A j \in DOMAIN calls : calls[j].finished => calls[j].started
        BY DEF TurnInv, WorkInv
      <3> QED BY <1>1, <1>2, <3>1
    <2>3. \A i, j \in Running(answered) : i # j => ~Conflict(answered[i].kind, answered[j].kind)
      BY <1>2, <1>3 DEF TurnInv, WorkInv, Running
    <2>4. IsAsked(conversation', Asked) /\ conversation' \in Seq(Messages) /\ Len(conversation') = Len(conversation)
      BY <1>4, <2>1 DEF TurnInv, WorkInv
    <2>5. \A v \in alive :
              /\ v.asked <= Len(conversation')
              /\ ~v.late => /\ v.run = run /\ v.asked = Asked
                            /\ v.call \in Running(answered) /\ v.kind = answered[v.call].kind
              /\ v.late /\ v.run = run /\ v.asked = Asked => v.call \notin Running(answered) \cup Waiting(answered)
      <3> SUFFICES ASSUME NEW v \in alive
                   PROVE  /\ v.asked <= Len(conversation')
                          /\ ~v.late => /\ v.run = run /\ v.asked = Asked
                                        /\ v.call \in Running(answered) /\ v.kind = answered[v.call].kind
                          /\ v.late /\ v.run = run /\ v.asked = Asked =>
                                v.call \notin Running(answered) \cup Waiting(answered)
        OBVIOUS
      <3>1. ~v.late => v.kind = answered[v.call].kind
        BY <1>2 DEF Running
      <3> QED BY <1>3, <2>4, <3>1
    <2> HIDE DEF answered
    <2>6. WorkInv'
      BY <1>2, <1>4, <2>1, <2>2, <2>3, <2>4, <2>5, DispatchTakesTurns
    <2>7. SaidInv' /\ StageInv' /\ CarriedInv'
      BY <2>1 DEF TurnInv, SaidInv, StageInv, CarriedInv, Users
    <2> QED BY <2>6, <2>7
  <1> QED BY <1>5, <1>6

(* A message that is said, hides nothing and changes nothing else.          *)
LEMMA SaidInPassing ==
    ASSUME SaidInv, NEW role \in Roles, conversation' = Append(conversation, Message(role))
    PROVE  /\ SaidInv' /\ Len(conversation') = Len(conversation) + 1 /\ Hidden(conversation)' = Hidden(conversation)
           /\ DOMAIN conversation' = 1..Len(conversation) + 1
           /\ \A i \in DOMAIN conversation : conversation'[i] = conversation[i]
           /\ conversation'[Len(conversation) + 1].role = role
  <1>1. Message(role) \in Messages /\ Message(role).until = 0 /\ Message(role).role = role
    BY DEF Message, Messages
  <1>2. conversation \in Seq(Messages) /\ Hidden(conversation) \in Nat
    BY DEF SaidInv, IsHidden
  <1>3. Message(role).until <= Len(conversation)
    BY <1>1, <1>2
  <1> QED BY <1>1, <1>2, <1>3, OneMore

(* What is said while nothing starts and nothing ends.                     *)
LEMMA StaysCarried ==
    ASSUME SaidInv, CarriedInv, SaidInv', Len(conversation) <= Len(conversation'),
           \A i \in DOMAIN conversation : conversation'[i] = conversation[i],
           Hidden(conversation)' = Hidden(conversation), delivered <= Len(conversation), delivered \in Nat,
           delivered' \in {delivered, 0}, carried' = carried, cut' = cut,
           \/ stage' # "summary"
           \/ stage' = stage /\ fitted' = fitted /\ fitted.until \in 0..Len(conversation)
    PROVE  CarriedInv'
  <1>1. conversation \in Seq(Messages) /\ conversation' \in Seq(Messages)
        /\ Hidden(conversation) \in 0..Len(conversation)
    BY HiddenIsPast DEF SaidInv
  <1>2. \A u \in Users' : u <= Len(conversation) => u \in Users
    BY <1>1 DEF Users
  <1>3. Users \subseteq Users'
    BY <1>1 DEF Users
  <1>4. \A u \in Users' : u <= delivered' \/ u <= Hidden(conversation)' => u \in carried' \cup cut'
    <2> SUFFICES ASSUME NEW u \in Users', u <= delivered' \/ u <= Hidden(conversation)' PROVE u \in carried' \cup cut'
      OBVIOUS
    <2>1. u \in 1..Len(conversation')
      BY <1>1 DEF Users
    <2>2. u <= delivered \/ u <= Hidden(conversation)
      BY <1>1, <2>1
    <2>3. u <= Len(conversation)
      BY <1>1, <2>1, <2>2
    <2> QED BY <1>2, <2>2, <2>3 DEF CarriedInv
  <1>5. ASSUME stage' = "summary", NEW u \in Users', u <= fitted'.until
        PROVE  u \in carried' \cup cut' \/ u \in fitted'.kept \/ u \in fitted'.dropped
    <2>1. u \in 1..Len(conversation') /\ stage = "summary" /\ fitted' = fitted /\ fitted.until \in 0..Len(conversation)
      BY <1>1, <1>5 DEF Users
    <2>2. u <= Len(conversation) /\ u <= fitted.until
      BY <1>1, <1>5, <2>1
    <2> QED BY <1>2, <2>1, <2>2 DEF CarriedInv
  <1> QED BY <1>3, <1>4, <1>5 DEF CarriedInv

(* What ends a run, with or without a message.                             *)
LEMMA EndIsSound ==
    ASSUME TurnInv, NEW why \in Reasons, Completed(why, working), runs' = runs, queued' \in BOOLEAN,
           carried' = carried, cut' = cut, NEW role \in Roles,
           conversation' \in {conversation, Append(conversation, Message(role))}
    PROVE  SaidInv' /\ StageInv' /\ WorkInv' /\ CarriedInv'
  <1>1. stage' = "none" /\ delivered' = delivered
    BY DEF Completed
  <1>2. conversation \in Seq(Messages) /\ delivered \in Nat /\ delivered <= Len(conversation)
    BY DEF TurnInv, SaidInv, StageInv
  <1>3. /\ SaidInv' /\ Len(conversation) <= Len(conversation') /\ Hidden(conversation)' = Hidden(conversation)
        /\ \A i \in DOMAIN conversation : conversation'[i] = conversation[i]
    <2>1. CASE conversation' = conversation
      BY <1>2, <2>1 DEF TurnInv, SaidInv
    <2>2. CASE conversation' = Append(conversation, Message(role))
      BY <1>2, <2>2, SaidInPassing DEF TurnInv
    <2> QED BY <2>1, <2>2
  <1>4. conversation' \in Seq(Messages)
    BY <1>3 DEF SaidInv
  <1>5. StageInv' /\ WorkInv'
    BY <1>2, <1>3, <1>4, CompletedIsOver DEF TurnInv
  <1>6. CarriedInv'
    BY <1>1, <1>2, <1>3, StaysCarried DEF TurnInv
  <1> QED BY <1>3, <1>5, <1>6

LEMMA SummaryIsSound ==
    ASSUME TurnInv, NEW text \in BOOLEAN, Summarized(text)
    PROVE  SaidInv' /\ StageInv' /\ WorkInv' /\ CarriedInv'
  <1> DEFINE m == [role |-> "summary", until |-> fitted.until]
  <1>1. /\ stage = "summary" /\ stage' = "model" /\ fitted' = NoFit
        /\ conversation' = IF text THEN Append(conversation, m) ELSE conversation
        /\ carried' = carried \cup ((fitted.kept \cup IF text THEN fitted.told ELSE {}) \cap Users)
        /\ cut' = cut \cup IF text THEN (fitted.dropped \ fitted.told) \cap Users ELSE {}
        /\ UNCHANGED <<run, runs, queued, reason, iteration, delivered, calls, reading, working>>
    BY DEF Summarized
  <1>2. /\ conversation \in Seq(Messages) /\ delivered \in 0..Len(conversation) /\ fitted.until \in 0..Len(conversation)
        /\ Hidden(conversation) \in 0..Len(conversation)
    BY HiddenIsPast DEF TurnInv, SaidInv, StageInv
  <1>3. m \in Messages /\ m.until = fitted.until /\ m.role = "summary"
    BY <1>2 DEF Messages, Roles
  <1>4. /\ SaidInv' /\ Len(conversation) <= Len(conversation') /\ Users' = Users
        /\ Hidden(conversation)' = IF text /\ fitted.until > Hidden(conversation) THEN fitted.until
                                   ELSE Hidden(conversation)
    <2>1. CASE ~text
      BY <1>1, <1>2, <2>1 DEF TurnInv, SaidInv, Users
    <2>2. CASE text
      <3> HIDE DEF m
      <3>1. /\ SaidInv'
            /\ Hidden(conversation)' = IF m.until > Hidden(conversation) THEN m.until ELSE Hidden(conversation)
            /\ Len(conversation') = Len(conversation) + 1 /\ DOMAIN conversation' = 1..Len(conversation) + 1
            /\ \A i \in DOMAIN conversation : conversation'[i] = conversation[i]
            /\ conversation'[Len(conversation) + 1] = m
        BY <1>1, <1>2, <1>3, <2>2, OneMore DEF TurnInv
      <3>2. Users' = Users
        BY <1>2, <1>3, <3>1 DEF Users
      <3> QED BY <1>2, <1>3, <2>2, <3>1, <3>2
    <2> QED BY <2>1, <2>2
  <1>5. StageInv'
    <2>1. delivered' \in 0..Len(conversation') /\ fitted'.until \in 0..Len(conversation')
      BY <1>1, <1>2, <1>4 DEF NoFit, SaidInv
    <2> QED BY <1>1, <2>1 DEF TurnInv, StageInv, Stages
  <1>6. WorkInv'
    <2>1. calls = <<>> /\ \A v \in working : v.late
      BY <1>1 DEF TurnInv, WorkInv
    <2>2. Running(calls') = {}
      BY <1>1, <2>1 DEF Running
    <2>3. \A v \in working : v \in Work /\ v.asked <= Len(conversation')
      <3> SUFFICES ASSUME NEW v \in working PROVE v \in Work /\ v.asked <= Len(conversation')
        OBVIOUS
      <3>1. v \in Work /\ v.asked <= Len(conversation) /\ v.asked \in Nat
        BY DEF TurnInv, WorkInv, Work
      <3>2. Len(conversation') \in Nat /\ Len(conversation) \in Nat
        BY <1>2, <1>4 DEF SaidInv
      <3> QED BY <1>4, <3>1, <3>2
    <2>4. calls' \in Seq(Call) /\ calls' = <<>> /\ DOMAIN calls' = {}
      BY <1>1, <2>1
    <2> QED BY <1>1, <2>1, <2>2, <2>3, <2>4 DEF WorkInv
  <1>7. CarriedInv'
    <2>1. \A u \in Users' : u <= delivered' \/ u <= Hidden(conversation)' => u \in carried' \cup cut'
      <3> SUFFICES ASSUME NEW u \in Users, u <= delivered \/ u <= Hidden(conversation)' PROVE u \in carried' \cup cut'
        BY <1>1, <1>4
      <3>1. CASE u <= delivered \/ u <= Hidden(conversation)
        BY <1>1, <3>1 DEF TurnInv, CarriedInv
      <3>2. CASE text /\ u <= fitted.until
        <4>1. u \in carried \cup cut \/ u \in fitted.kept \/ u \in fitted.dropped
          BY <1>1, <3>2 DEF TurnInv, CarriedInv
        <4> QED BY <1>1, <3>2, <4>1
      <3> QED BY <1>4, <3>1, <3>2
    <2>2. carried' \cup cut' \subseteq Users'
      BY <1>1, <1>4 DEF TurnInv, CarriedInv
    <2> QED BY <1>1, <2>1, <2>2 DEF CarriedInv
  <1> QED BY <1>4, <1>5, <1>6, <1>7

LEMMA AskingIsSound ==
    ASSUME TurnInv, NEW q \in Questions, AsksForTools(q)
    PROVE  SaidInv' /\ StageInv' /\ WorkInv' /\ CarriedInv'
  <1> DEFINE cs == [k \in DOMAIN q |-> [kind |-> q[k], started |-> FALSE, finished |-> FALSE]]
             asked == Len(conversation) + 1
  <1>1. /\ stage = "model" /\ stage' = "tools" /\ conversation' = Append(conversation, Message("calls"))
        /\ DispatchTools(cs, asked, working)
        /\ UNCHANGED <<run, runs, queued, reason, iteration, delivered, fitted, reading, carried, cut>>
    BY DEF AsksForTools
  <1>2. conversation \in Seq(Messages) /\ delivered \in 0..Len(conversation) /\ fitted.until \in 0..Len(conversation)
    BY DEF TurnInv, SaidInv, StageInv
  <1>3. /\ SaidInv' /\ Len(conversation') = asked /\ Hidden(conversation)' = Hidden(conversation)
        /\ DOMAIN conversation' = 1..asked
        /\ \A i \in DOMAIN conversation : conversation'[i] = conversation[i]
        /\ conversation'[asked].role = "calls"
    BY <1>1, SaidInPassing DEF TurnInv, Roles
  <1>4. StageInv'
    <2>1. delivered' \in 0..Len(conversation') /\ fitted'.until \in 0..Len(conversation')
      BY <1>1, <1>2, <1>3
    <2> QED BY <1>1, <2>1 DEF TurnInv, StageInv, Stages
  <1>5. CarriedInv'
    <2>1. Len(conversation) <= Len(conversation') /\ delivered <= Len(conversation) /\ delivered \in Nat
      BY <1>2, <1>3
    <2> QED BY <1>1, <1>3, <2>1, StaysCarried DEF TurnInv
  <1>6. q \in Seq(Kinds) /\ q # <<>>
    BY TurnAssumption
  <1>7. /\ cs \in Seq(Call) /\ cs # <<>> /\ Running(cs) = {}
        /\ \A k \in DOMAIN cs : cs[k].finished => cs[k].started
    <2>1. DOMAIN cs = 1..Len(q) /\ Len(q) \in Nat /\ Len(q) # 0
      BY <1>6
    <2>2. \A k \in DOMAIN cs : cs[k] \in Call /\ cs[k].started = FALSE /\ cs[k].finished = FALSE
      BY <1>6 DEF Call
    <2>3. cs \in Seq(Call)
      BY <2>1, <2>2
    <2>4. cs # <<>>
      BY <2>1
    <2> HIDE DEF cs
    <2>5. Running(cs) = {}
      BY <2>2 DEF Running
    <2> QED BY <2>2, <2>3, <2>4, <2>5
  <1> HIDE DEF cs
  <1>8. \A v \in working : v \in Work /\ v.late /\ v.asked <= Len(conversation') /\ v.asked # asked
    <2> SUFFICES ASSUME NEW v \in working
                 PROVE  v \in Work /\ v.late /\ v.asked <= Len(conversation') /\ v.asked # asked
      OBVIOUS
    <2>1. v \in Work /\ v.late /\ v.asked <= Len(conversation)
      BY <1>1 DEF TurnInv, WorkInv
    <2>2. v.asked \in Nat
      BY <2>1 DEF Work
    <2> QED BY <1>2, <1>3, <2>1, <2>2
  <1>9. IsAsked(conversation', asked) /\ conversation' \in Seq(Messages) /\ run \in Nat
    BY <1>2, <1>3, TurnAssumption DEF IsAsked, SaidInv, TurnInv, StageInv
  <1> HIDE DEF asked
  <1>10. WorkInv'
    BY <1>1, <1>7, <1>8, <1>9, DispatchTakesTurns
  <1> QED BY <1>3, <1>4, <1>5, <1>10

(* A message of the user waits for the next request.                       *)
LEMMA TypingIsSound ==
    ASSUME TurnInv, Type
    PROVE  SaidInv' /\ StageInv' /\ WorkInv' /\ CarriedInv'
  <1>1. /\ conversation' = Append(conversation, Message("user")) /\ queued' \in BOOLEAN
        /\ UNCHANGED <<run, runs, reason, stage, iteration, delivered, requests, fitted, calls,
                       reading, working, carried, cut>>
    BY DEF Type, turn
  <1>2. /\ conversation \in Seq(Messages) /\ delivered \in 0..Len(conversation)
        /\ fitted.until \in 0..Len(conversation)
    BY DEF TurnInv, SaidInv, StageInv
  <1>3. /\ SaidInv' /\ Len(conversation') = Len(conversation) + 1 /\ Hidden(conversation)' = Hidden(conversation)
        /\ DOMAIN conversation' = 1..Len(conversation) + 1
        /\ \A i \in DOMAIN conversation : conversation'[i] = conversation[i]
        /\ conversation'[Len(conversation) + 1].role = "user"
    BY <1>1, SaidInPassing DEF TurnInv, Roles
  <1>4. StageInv'
    <2>1. delivered' \in 0..Len(conversation') /\ fitted'.until \in 0..Len(conversation')
      BY <1>1, <1>2, <1>3
    <2> QED BY <1>1, <2>1 DEF TurnInv, StageInv
  <1>5. CarriedInv'
    <2>1. Len(conversation) <= Len(conversation') /\ delivered <= Len(conversation) /\ delivered \in Nat
      BY <1>2, <1>3
    <2> QED BY <1>1, <1>2, <1>3, <2>1, StaysCarried DEF TurnInv
  <1>6. conversation' \in Seq(Messages)
    BY <1>3 DEF SaidInv
  <1>7. ASSUME stage = "tools" PROVE IsAsked(conversation', Asked) /\ Asked' = Asked
    <2>1. IsAsked(conversation, Asked)
      BY <1>7 DEF TurnInv, WorkInv
    <2>2. IsAsked(conversation', Asked)
      <3>1. Asked \in DOMAIN conversation' /\ conversation'[Asked].role = "calls"
        BY <1>2, <1>3, <2>1 DEF IsAsked
      <3>2. \A i \in DOMAIN conversation' : conversation'[i].role = "calls" => i <= Asked
        BY <1>2, <1>3, <2>1 DEF IsAsked
      <3> QED BY <3>1, <3>2 DEF IsAsked
    <2>3. Asked' = Max({i \in DOMAIN conversation' : conversation'[i].role = "calls"})
      BY DEF Asked
    <2> QED BY <1>6, <2>2, <2>3, AskedIs
  <1>8. WorkInv'
    <2>1. \A v \in working : v.asked <= Len(conversation')
      <3> SUFFICES ASSUME NEW v \in working PROVE v.asked <= Len(conversation')
        OBVIOUS
      <3>1. v \in Work /\ v.asked <= Len(conversation)
        BY DEF TurnInv, WorkInv
      <3> QED BY <1>2, <1>3, <3>1 DEF Work
    <2>2. stage' = "tools" => IsAsked(conversation', Asked')
      BY <1>1, <1>7
    <2>3. Running(calls') = Running(calls) /\ Waiting(calls') = Waiting(calls)
      BY <1>1
    <2>4. \A v \in working' :
            /\ v.asked <= Len(conversation')
            /\ ~v.late => /\ stage' = "tools" /\ v.run = run' /\ v.asked = Asked'
                          /\ v.call \in Running(calls') /\ v.kind = calls'[v.call].kind
            /\ v.late /\ stage' = "tools" /\ v.run = run' /\ v.asked = Asked' =>
                  v.call \notin Running(calls') \cup Waiting(calls')
      <3> SUFFICES ASSUME NEW v \in working
                   PROVE  /\ v.asked <= Len(conversation')
                          /\ ~v.late => /\ stage' = "tools" /\ v.run = run' /\ v.asked = Asked'
                                        /\ v.call \in Running(calls') /\ v.kind = calls'[v.call].kind
                          /\ v.late /\ stage' = "tools" /\ v.run = run' /\ v.asked = Asked' =>
                                v.call \notin Running(calls') \cup Waiting(calls')
        BY <1>1
      <3>1. ~v.late => /\ stage = "tools" /\ v.run = run /\ v.asked = Asked
                       /\ v.call \in Running(calls) /\ v.kind = calls[v.call].kind
        BY DEF TurnInv, WorkInv
      <3>2. v.late /\ stage = "tools" /\ v.run = run /\ v.asked = Asked => v.call \notin Running(calls) \cup Waiting(calls)
        BY DEF TurnInv, WorkInv
      <3> QED BY <1>1, <1>7, <2>1, <2>3, <3>1, <3>2
    <2>5. calls' \in Seq(Call) /\ (calls' # <<>> <=> stage' = "tools")
          /\ \A k \in DOMAIN calls' : calls'[k].finished => calls'[k].started
      BY <1>1 DEF TurnInv, WorkInv
    <2>6. \A j, k \in Running(calls') : j # k => ~Conflict(calls'[j].kind, calls'[k].kind)
      BY <1>1, <2>3 DEF TurnInv, WorkInv
    <2>7. working' \subseteq Work
      BY <1>1 DEF TurnInv, WorkInv
    <2> QED BY <2>2, <2>4, <2>5, <2>6, <2>7 DEF WorkInv
  <1> QED BY <1>3, <1>4, <1>5, <1>8

(* A run that starts finds no turn under way.                              *)
LEMMA StartIsSound ==
    ASSUME TurnInv, Start
    PROVE  SaidInv' /\ StageInv' /\ WorkInv' /\ CarriedInv'
  <1>1. /\ run = 0 /\ runs < MaxRuns /\ queued' = FALSE /\ runs' = runs + 1 /\ run' = runs + 1
        /\ stage' = "skills" /\ iteration' = 0 /\ delivered' = 0
        /\ UNCHANGED <<conversation, reason, requests, fitted, calls, working, carried, cut>>
    BY DEF Start
  <1>2. /\ conversation \in Seq(Messages) /\ delivered \in 0..Len(conversation)
        /\ fitted.until \in 0..Len(conversation) /\ runs \in Nat /\ stage = "none"
    BY <1>1, TurnAssumption DEF TurnInv, SaidInv, StageInv
  <1>3. SaidInv'
    BY <1>1 DEF TurnInv, SaidInv
  <1>4. StageInv'
    <2>1. run' \in 0..MaxRuns /\ runs' \in run'..MaxRuns /\ run' # 0
      BY <1>1, <1>2, TurnAssumption
    <2>2. delivered' \in 0..Len(conversation') /\ fitted'.until \in 0..Len(conversation')
      BY <1>1, <1>2
    <2>3. iteration' \in Nat /\ (MaxIterations > 0 => iteration' <= MaxIterations)
      BY <1>1, TurnAssumption
    <2>4. fitted' = NoFit
      BY <1>1, <1>2 DEF TurnInv, StageInv
    <2> QED BY <1>1, <2>1, <2>2, <2>3, <2>4 DEF TurnInv, StageInv, Stages
  <1>5. WorkInv'
    <2>1. calls = <<>> /\ \A v \in working : v.late
      BY <1>2 DEF TurnInv, WorkInv
    <2>2. Running(calls') = {} /\ calls' = <<>> /\ calls' \in Seq(Call) /\ DOMAIN calls' = {}
      BY <1>1, <2>1 DEF Running
    <2>3. working' \subseteq Work /\ \A v \in working' : v.late /\ v.asked <= Len(conversation')
      BY <1>1, <2>1 DEF TurnInv, WorkInv
    <2> QED BY <1>1, <2>2, <2>3 DEF WorkInv
  <1>6. CarriedInv'
    <2>1. Hidden(conversation)' = Hidden(conversation)
      BY <1>1
    <2> QED BY <1>1, <1>2, <1>3, <2>1, StaysCarried DEF TurnInv
  <1> QED BY <1>3, <1>4, <1>5, <1>6

(* The skills of a run open its first turn; those of another change nothing. *)
LEMMA SkillsAreSound ==
    ASSUME TurnInv, NEW r \in reading, SkillsRead(r)
    PROVE  SaidInv' /\ StageInv' /\ WorkInv' /\ CarriedInv'
  <1>1. UNCHANGED <<conversation, runs, queued>>
    BY DEF SkillsRead
  <1>2. SaidInv' /\ conversation \in Seq(Messages) /\ Users' = Users /\ Hidden(conversation)' = Hidden(conversation)
    BY <1>1 DEF TurnInv, SaidInv, Users
  <1>3. CASE run = r
    <2>1. Continue(conversation, working)
      BY <1>3 DEF SkillsRead
    <2>2. stage = "skills" /\ run # 0
      BY <1>3 DEF TurnInv, RequestInv, SkillsComeFirst
    <2>3. \A v \in working : v \in Work /\ v.late /\ v.asked <= Len(conversation)
      BY <2>2 DEF TurnInv, WorkInv
    <2>4. carried \cup cut \subseteq Users' /\ \A u \in Users' : u <= delivered \/ u <= Hidden(conversation) => u \in carried \cup cut
      BY <1>2 DEF TurnInv, CarriedInv
    <2>5. conversation' = conversation /\ Len(conversation) <= Len(conversation)
      BY <1>1, <1>2
    <2> QED BY <1>1, <1>2, <2>1, <2>2, <2>3, <2>4, <2>5, ContinueIsSound DEF TurnInv
  <1>4. CASE run # r
    <2>1. UNCHANGED <<run, reason, stage, iteration, delivered, requests, fitted, calls, working, carried, cut>>
      BY <1>4 DEF SkillsRead, turn
    <2>2. Asked' = Asked
      BY <1>1 DEF Asked
    <2> QED BY <1>1, <1>2, <2>1, <2>2 DEF TurnInv, StageInv, WorkInv, CarriedInv, Running, Waiting
  <1> QED BY <1>3, <1>4

(* The answer of a tool, that its turn waits for or not.                     *)
LEMMA AnswerIsSound ==
    ASSUME TurnInv, NEW w \in working, ToolAnswers(w)
    PROVE  SaidInv' /\ StageInv' /\ WorkInv' /\ CarriedInv'
  <1>1. UNCHANGED <<runs, queued>> /\ w \in Work
    BY DEF ToolAnswers, TurnInv, WorkInv
  <1>2. CASE AwaitedFrom(w)
    <2>1. /\ stage = "tools" /\ w.run = run /\ w.asked = Asked /\ w.call \in Running(calls)
          /\ CompleteToolCall(w.call, working \ {w})
      BY <1>2 DEF ToolAnswers, AwaitedFrom
    <2>2. ~w.late
      BY <2>1 DEF TurnInv, WorkInv
    <2>3. working \ {w} \subseteq Work
      BY DEF TurnInv, WorkInv
    <2>4. ASSUME NEW v \in working \ {w}
          PROVE  /\ v.asked <= Len(conversation)
                 /\ ~v.late => /\ v.run = run /\ v.asked = Asked
                               /\ v.call \in Running(calls) \ {w.call} /\ v.kind = calls[v.call].kind
                 /\ v.late /\ v.run = run /\ v.asked = Asked =>
                       v.call = w.call \/ v.call \notin Running(calls) \cup Waiting(calls)
      <3>1. v \in Work /\ v.asked <= Len(conversation)
        BY DEF TurnInv, WorkInv
      <3>2. ~v.late => /\ v.run = run /\ v.asked = Asked
                       /\ v.call \in Running(calls) /\ v.kind = calls[v.call].kind
        BY DEF TurnInv, WorkInv
      <3>3. ~w.late => w.kind = calls[w.call].kind
        BY DEF TurnInv, WorkInv
      <3>4. ~v.late => v.call # w.call
        <4> SUFFICES ASSUME ~v.late, v.call = w.call PROVE FALSE
          OBVIOUS
        <4>1. v.run = w.run /\ v.asked = w.asked /\ v.kind = w.kind /\ v.late = w.late
          BY <1>1, <2>1, <2>2, <3>1, <3>2, <3>3 DEF Work
        <4> QED BY <1>1, <3>1, <4>1 DEF Work
      <3>5. v.late /\ v.run = run /\ v.asked = Asked => v.call \notin Running(calls) \cup Waiting(calls)
        BY <2>1 DEF TurnInv, WorkInv
      <3> QED BY <3>1, <3>2, <3>4, <3>5
    <2> QED BY <1>1, <2>1, <2>3, <2>4, ToolCallIsSound
  <1>3. CASE ~AwaitedFrom(w)
    <2>1. /\ working' = working \ {w}
          /\ UNCHANGED <<conversation, run, reason, stage, iteration, delivered, requests, fitted, calls, carried, cut>>
      BY <1>3 DEF ToolAnswers, turn
    <2>2. Asked' = Asked /\ Users' = Users /\ Hidden(conversation)' = Hidden(conversation)
      BY <2>1 DEF Asked, Users
    <2>3. SaidInv' /\ StageInv' /\ CarriedInv'
      BY <1>1, <2>1, <2>2 DEF TurnInv, SaidInv, StageInv, CarriedInv
    <2>4. WorkInv'
      BY <2>1, <2>2 DEF TurnInv, WorkInv, Running, Waiting
    <2> QED BY <2>3, <2>4
  <1> QED BY <1>2, <1>3

(* A deadline gives its tool up, and answers for it.                        *)
LEMMA DeadlineIsSound ==
    ASSUME TurnInv, NEW k \in DOMAIN calls, Deadline(k)
    PROVE  SaidInv' /\ StageInv' /\ WorkInv' /\ CarriedInv'
  <1> DEFINE mine(w) == w.run = run /\ w.asked = Asked /\ w.call = k
             alive == {[w EXCEPT !.late = @ \/ mine(w)] : w \in working}
  <1>1. /\ stage = "tools" /\ k \in Running(calls) /\ UNCHANGED <<runs, queued>>
        /\ CompleteToolCall(k, alive)
    BY DEF Deadline
  <1>2. ASSUME NEW v \in alive
        PROVE  /\ v \in Work /\ v.asked <= Len(conversation)
               /\ ~v.late => /\ v.run = run /\ v.asked = Asked
                             /\ v.call \in Running(calls) \ {k} /\ v.kind = calls[v.call].kind
               /\ v.late /\ v.run = run /\ v.asked = Asked =>
                     v.call = k \/ v.call \notin Running(calls) \cup Waiting(calls)
    <2>1. PICK w \in working : v = [w EXCEPT !.late = @ \/ mine(w)]
      OBVIOUS
    <2>2. w \in Work /\ w.asked <= Len(conversation)
      BY DEF TurnInv, WorkInv
    <2>3. ~w.late => /\ w.run = run /\ w.asked = Asked
                     /\ w.call \in Running(calls) /\ w.kind = calls[w.call].kind
      BY DEF TurnInv, WorkInv
    <2>4. w.late /\ w.run = run /\ w.asked = Asked => w.call \notin Running(calls) \cup Waiting(calls)
      BY <1>1 DEF TurnInv, WorkInv
    <2>5. PICK gone \in BOOLEAN : gone <=> mine(w)
      OBVIOUS
    <2>6. v = [w EXCEPT !.late = @ \/ gone]
      BY <2>1, <2>5
    <2>7. /\ v \in Work /\ v.run = w.run /\ v.asked = w.asked /\ v.call = w.call /\ v.kind = w.kind
          /\ v.late <=> w.late \/ gone
      <3> HIDE DEF mine
      <3> QED BY <2>2, <2>6 DEF Work
    <2> QED BY <2>2, <2>3, <2>4, <2>5, <2>7
  <1> HIDE DEF alive
  <1> QED BY <1>1, <1>2, ToolCallIsSound

(* Every step of a turn keeps all of it.                                     *)
LEMMA TurnStep == TurnInv /\ [Next]_vars => TurnInv'
  <1> SUFFICES ASSUME TurnInv, [Next]_vars PROVE SaidInv' /\ StageInv' /\ WorkInv' /\ CarriedInv'
    BY RequestStep DEF TurnInv
  <1>1. CASE Type
    BY <1>1, TypingIsSound
  <1>2. CASE Start
    BY <1>2, StartIsSound
  <1>3. CASE Repeats
    <2>1. "repetition" \in Reasons /\ "calls" \in Roles /\ queued' \in BOOLEAN
      BY <1>3 DEF Repeats, Reasons, Roles, TurnInv, StageInv
    <2> QED BY <1>3, <2>1, EndIsSound DEF Repeats
  <1>4. ASSUME NEW text \in BOOLEAN, Answers(text) \/ AnswerCut(text)
        PROVE  SaidInv' /\ StageInv' /\ WorkInv' /\ CarriedInv'
    <2>1. /\ conversation' \in {conversation, Append(conversation, Message("answer"))}
          /\ UNCHANGED <<runs, carried, cut>> /\ queued' \in BOOLEAN
      BY <1>4 DEF Answers, AnswerCut, TurnInv, StageInv
    <2>2. "answer" \in Roles /\ "answered" \in Reasons /\ "budget" \in Reasons
      BY DEF Roles, Reasons
    <2>3. \E why \in Reasons : Completed(why, working)
      BY <1>4, <2>2 DEF Answers, AnswerCut
    <2> QED BY <2>1, <2>2, <2>3, EndIsSound
  <1>5. ASSUME NEW why \in {"failed", "cancelled"}, Ends(why)
        PROVE  SaidInv' /\ StageInv' /\ WorkInv' /\ CarriedInv'
    <2>1. why \in Reasons /\ "answer" \in Roles /\ Completed(why, working)
          /\ UNCHANGED <<conversation, runs, queued, carried, cut>>
      BY <1>5 DEF Ends, Reasons, Roles
    <2>2. queued' \in BOOLEAN /\ conversation' \in {conversation, Append(conversation, Message("answer"))}
      BY <2>1 DEF TurnInv, StageInv
    <2> QED BY <2>1, <2>2, EndIsSound
  <1>6. ASSUME NEW w \in working, ToolAnswers(w) PROVE SaidInv' /\ StageInv' /\ WorkInv' /\ CarriedInv'
    BY <1>6, AnswerIsSound
  <1>7. ASSUME NEW k \in DOMAIN calls, Deadline(k) PROVE SaidInv' /\ StageInv' /\ WorkInv' /\ CarriedInv'
    BY <1>7, DeadlineIsSound
  <1>8. ASSUME NEW r \in reading, SkillsRead(r) PROVE SaidInv' /\ StageInv' /\ WorkInv' /\ CarriedInv'
    BY <1>8, SkillsAreSound
  <1>9. ASSUME NEW text \in BOOLEAN, Summarized(text) PROVE SaidInv' /\ StageInv' /\ WorkInv' /\ CarriedInv'
    BY <1>9, SummaryIsSound
  <1>10. ASSUME NEW q \in Questions, AsksForTools(q) PROVE SaidInv' /\ StageInv' /\ WorkInv' /\ CarriedInv'
    BY <1>10, AskingIsSound
  <1>11. CASE UNCHANGED vars
    <2>1. UNCHANGED <<conversation, run, runs, queued, reason, stage, iteration, delivered, requests, fitted,
                      calls, reading, working, carried, cut>>
      BY <1>11 DEF vars, turn
    <2>2. Asked' = Asked /\ Users' = Users /\ Hidden(conversation)' = Hidden(conversation)
      BY <2>1 DEF Asked, Users
    <2> QED BY <2>1, <2>2 DEF TurnInv, SaidInv, StageInv, WorkInv, CarriedInv, Running, Waiting
  <1> QED
    BY <1>1, <1>2, <1>3, <1>4, <1>5, <1>6, <1>7, <1>8, <1>9, <1>10, <1>11 DEF Next, Tools

LEMMA TurnStarts == Init => TurnInv
  <1> SUFFICES ASSUME Init PROVE TurnInv
    OBVIOUS
  <1>1. /\ conversation = <<>> /\ run = 0 /\ runs = 0 /\ queued = FALSE /\ reason = "answered"
        /\ stage = "none" /\ iteration = 0 /\ delivered = 0 /\ reading = {} /\ requests = 0 /\ fitted = NoFit
        /\ calls = <<>> /\ working = {} /\ carried = {} /\ cut = {}
    BY DEF Init
  <1>2. conversation \in Seq(Messages) /\ DOMAIN conversation = {} /\ Len(conversation) = 0
    BY <1>1
  <1>3. SaidInv
    <2>1. IsHidden(conversation, 0)
      BY <1>2 DEF IsHidden
    <2>2. Hidden(conversation) = 0
      BY <1>2, <2>1, HiddenIs
    <2> QED BY <1>2, <2>1, <2>2 DEF SaidInv
  <1>4. StageInv
    <2>1. fitted.until \in 0..Len(conversation) /\ delivered \in 0..Len(conversation)
      BY <1>1, <1>2 DEF NoFit
    <2>2. run \in 0..MaxRuns /\ runs \in run..MaxRuns /\ (MaxIterations > 0 => iteration <= MaxIterations)
      BY <1>1, TurnAssumption
    <2>3. queued \in BOOLEAN /\ reason \in Reasons /\ stage \in Stages /\ iteration \in Nat
      BY <1>1 DEF Stages, Reasons
    <2>4. (run = 0 <=> stage = "none") /\ (fitted # NoFit <=> stage = "summary")
      BY <1>1
    <2> QED BY <2>1, <2>2, <2>3, <2>4 DEF StageInv
  <1>5. WorkInv
    <2>1. Running(calls) = {} /\ calls \in Seq(Call) /\ DOMAIN calls = {}
      BY <1>1 DEF Running
    <2> QED BY <1>1, <2>1 DEF WorkInv
  <1>6. CarriedInv
    BY <1>1, <1>2 DEF CarriedInv, Users
  <1>7. RequestInv
    BY <1>1 DEF RequestInv, OneRequestAtATime, SkillsComeFirst, NoRunNoTurn
  <1> QED BY <1>3, <1>4, <1>5, <1>6, <1>7 DEF TurnInv

LEMMA TurnAlways == Spec => []TurnInv
  BY TurnStarts, TurnStep, PTL DEF Spec

LEMMA TurnTyped == TurnInv => TypeOK
  <1> SUFFICES ASSUME TurnInv PROVE TypeOK
    OBVIOUS
  <1>1. conversation \in Seq([role : Roles, until : Nat])
    BY DEF TurnInv, SaidInv, Messages
  <1>2. requests \in Nat /\ reading \subseteq 1..runs
    BY DEF TurnInv, RequestInv, OneRequestAtATime, SkillsComeFirst
  <1>3. fitted.until <= Len(conversation) /\ carried \cup cut \subseteq Users
    BY <1>1 DEF TurnInv, StageInv, CarriedInv
  <1>4. calls # <<>> <=> stage = "tools"
    BY DEF TurnInv, WorkInv
  <1> QED BY <1>1, <1>2, <1>3, <1>4 DEF TurnInv, StageInv, TypeOK

(* The variables of a turn are what the code says they are, and what a run  *)
(* waits for is there: its calls while tools work, its cut while a summary  *)
(* is written (AiPlugin.cpp, ActiveExecution).                              *)
THEOREM TurnTypeCorrect == Spec => []TypeOK
  BY TurnTyped, TurnAlways, PTL

LEMMA WorkTakesTurns == TurnInv => ConflictsTakeTurns
  <1> SUFFICES ASSUME TurnInv, NEW v \in working, NEW w \in working, v # w, Conflict(v.kind, w.kind)
               PROVE  v.late \/ w.late
    BY DEF ConflictsTakeTurns
  <1> SUFFICES ASSUME ~v.late, ~w.late PROVE FALSE
    BY DEF TurnInv, WorkInv, Work
  <1>1. v \in Work /\ w \in Work
    BY DEF TurnInv, WorkInv
  <1>2. v.run = run /\ v.asked = Asked /\ v.call \in Running(calls) /\ v.kind = calls[v.call].kind
    BY DEF TurnInv, WorkInv
  <1>3. w.run = run /\ w.asked = Asked /\ w.call \in Running(calls) /\ w.kind = calls[w.call].kind
    BY DEF TurnInv, WorkInv
  <1>4. CASE v.call = w.call
    <2>1. v.run = w.run /\ v.asked = w.asked /\ v.kind = w.kind /\ v.late = w.late
      BY <1>1, <1>2, <1>3, <1>4 DEF Work
    <2> QED BY <1>1, <1>4, <2>1 DEF Work
  <1>5. CASE v.call # w.call
    BY <1>2, <1>3, <1>5 DEF TurnInv, WorkInv
  <1> QED BY <1>4, <1>5

(* Whatever the model asks for, in however many turns and runs, tools that  *)
(* touch the same thing never work together unless one was given up         *)
(* (AiPlugin.cpp, dispatchPendingTools).                                    *)
THEOREM ToolsTakeTurns == Spec => []ConflictsTakeTurns
  BY WorkTakesTurns, TurnAlways, PTL

(* README.md:179: whenever a run answers, the model was told all the user   *)
(* said, in a request or in a summary, or a further run is asked for        *)
(* (AiPlugin.cpp, continueWhenAnswerIsPending).                              *)
THEOREM NoMessageIsForgotten == Spec => EveryMessageIsAnswered
  <1>1. TurnInv /\ [Next]_vars => [RunAnswers => Users \subseteq carried \cup cut \/ queued']_vars
    <2> SUFFICES ASSUME TurnInv, Next, RunAnswers PROVE Users \subseteq carried \cup cut \/ queued'
      OBVIOUS
    <2>1. run # 0 /\ run' = 0 /\ reason' = "answered"
      BY DEF RunAnswers
    <2>2. ~Type /\ ~Start
      BY <2>1, TurnAssumption DEF Type, Start, TurnInv, StageInv
    <2>3. ~Repeats
      BY <2>1 DEF Repeats, Completed
    <2>4. \A text \in BOOLEAN : ~AnswerCut(text) /\ ~Summarized(text)
      BY <2>1 DEF AnswerCut, Completed, Summarized
    <2>5. \A why \in {"failed", "cancelled"} : ~Ends(why)
      BY <2>1 DEF Ends, Completed
    <2>6. \A said, alive : ~Continue(said, alive)
      BY <2>1 DEF Continue, Completed
    <2>7. \A k, alive : ~CompleteToolCall(k, alive)
      BY <2>1, <2>6 DEF CompleteToolCall
    <2>8. ~Tools
      BY <2>1, <2>7 DEF Tools, ToolAnswers, Deadline
    <2>9. \A r \in reading : ~SkillsRead(r)
      BY <2>1, <2>6 DEF SkillsRead
    <2>10. \A q \in Questions : ~AsksForTools(q)
      BY <2>1 DEF AsksForTools
    <2>11. PICK text \in BOOLEAN : Answers(text)
      BY <2>2, <2>3, <2>4, <2>5, <2>8, <2>9, <2>10 DEF Next
    <2>12. queued' = (queued \/ \E i \in Users : i > delivered)
      BY <2>11 DEF Answers
    <2>13. conversation \in Seq(Messages) /\ delivered \in Nat
      BY DEF TurnInv, SaidInv, StageInv
    <2>14. CASE \E i \in Users : i > delivered
      BY <2>12, <2>14
    <2>15. CASE \A i \in Users : i <= delivered
      BY <2>15 DEF TurnInv, CarriedInv
    <2>16. \A i \in Users : i \in Nat
      BY <2>13 DEF Users
    <2> QED BY <2>13, <2>14, <2>15, <2>16
  <1> QED BY <1>1, TurnAlways, PTL DEF Spec, EveryMessageIsAnswered
=============================================================================
