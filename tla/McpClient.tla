------------------------------- MODULE McpClient -------------------------------
(***************************************************************************)
(* The client of a server that publishes tools (ai/AiMcpClient.cpp,         *)
(* AiMcpTransport.cpp), with the registry that hands its tools to agents    *)
(* (AiToolRegistry.cpp) and the plugin that makes a new client whenever the *)
(* servers are saved (AiPlugin.cpp).  The server is a process, spoken to    *)
(* through its standard input and output by a thread of its own, or an      *)
(* address every message is posted to.                                     *)
(*                                                                         *)
(* A server answers every post it accepts, if with something that holds no  *)
(* message; what it does not answer, the deadline of the tool does          *)
(* (AgentTools).  Requests for the tools are one, whatever their ids.  What  *)
(* tools there are, and what they answer, is left out.                      *)
(***************************************************************************)
EXTENDS Naturals, FiniteSets, SequencesExt

CONSTANTS
    Transports,     \* how the server may be reached: "stdio", "http"
    Calls,          \* the calls agents make to the tools of the server
    Obeys,          \* whether the process of a server ends when it is told to
    MaxClients,     \* bound: times the servers are saved
    MaxFaults       \* bound: things that go wrong

VARIABLES
    transport,      \* m_descriptor.transport
    client,         \* the client in m_mcpClients, numbered, 0 for none
    running, ready, stopping,
    session,        \* m_sessionId: "none", or "known"
    met,            \* history: the server gave a session
    pending,        \* m_pending: the requests that wait, by id
    out,            \* what the process has not read yet
    in,             \* the signals of the transport that are not handled yet
    posts,          \* what was posted and is not answered
    payloads,       \* messages of answers, being parsed
    ignored,        \* history: the requests whose post was answered with something else
    sampling,       \* the clients whose server asks the model
    processes,      \* the processes that live, by client
    greeted,        \* history: the process read that it may begin
    catalog,        \* the client whose tools the registry has, 0 for none
    answers,        \* history: how often each call was answered
    faults          \* bound: things that went wrong

link == <<running, ready, stopping, session, met, pending, out, in, posts, payloads, ignored,
          sampling>>
mcpVars == <<transport, client, link, processes, greeted, catalog, answers, faults>>

McpInit ==
    /\ transport \in Transports
    /\ client = 0 /\ running = FALSE /\ ready = FALSE /\ stopping = FALSE
    /\ session = "none" /\ met = FALSE /\ pending = {} /\ out = <<>> /\ in = <<>>
    /\ posts = {} /\ payloads = {} /\ ignored = {} /\ sampling = {} /\ processes = {}
    /\ greeted = FALSE /\ catalog = 0 /\ answers = [c \in {} |-> 0] /\ faults = 0

Message(what, of) == [what |-> what, of |-> of]
Greeting == Message("initialize", 0)
CallsIn(ms) == {m.of : m \in {n \in ms : n.what = "call"}}
Answered(cs) == [c \in DOMAIN answers |-> IF c \in cs THEN answers[c] + 1 ELSE answers[c]]

(* send: queued for the thread of the transport, or posted.                 *)
Send(ms) ==
    IF transport = "http"
    THEN posts' = (IF stopping THEN posts ELSE posts \cup {[message |-> m, session |-> session] : m \in ToSet(ms)}) /\ UNCHANGED out
    ELSE out' = out \o ms /\ UNCHANGED posts

-----------------------------------------------------------------------------
(* The processes once that of the client is told to end: it has two seconds *)
(* before it is killed, by a timer of a thread that ends at once (shutdown, *)
(* requestTermination of the transport).                                   *)
RequestTermination == IF Obeys THEN processes \ {client} ELSE processes

(* stop: an address is told what it need not answer any more (cancelPending, *)
(* once the session was given up), what waits is answered, and the transport *)
(* is let go with all that it had to say.  What was posted is answered and    *)
(* heard all the same.                                                     *)
Stopped ==
    /\ stopping' = TRUE /\ ready' = FALSE /\ running' = FALSE /\ session' = "none"
    /\ pending' = {} /\ answers' = Answered(CallsIn(pending))
    /\ out' = <<>> /\ in' = <<>>
    /\ posts' = posts \cup {[message |-> Message("cancelled", 0), session |-> "none"] :
                                m \in IF transport = "http" /\ ~stopping THEN pending ELSE {}}
    /\ processes' = RequestTermination

(* start, startStdio, performInitialize: a new client greets its server.     *)
Starts ==
    /\ running' = (transport = "stdio") /\ ready' = FALSE /\ stopping' = FALSE
    /\ session' = "none" /\ pending' = {Greeting}
    /\ out' = IF transport = "stdio" THEN <<Greeting>> ELSE <<>>
    /\ posts' = IF transport = "http" THEN {[message |-> Greeting, session |-> "none"]} ELSE {}

(* restartMcpClients: the old client is stopped and deleted, with the network *)
(* that would answer its posts, and a new one starts.                      *)
Restart ==
    /\ client < MaxClients
    /\ client' = client + 1
    /\ Starts
    /\ answers' = Answered(CallsIn(pending)) /\ in' = <<>> /\ payloads' = {} /\ ignored' = {}
    /\ met' = FALSE /\ greeted' = FALSE /\ catalog' = 0
    /\ processes' = RequestTermination \cup (IF transport = "stdio" THEN {client + 1} ELSE {})
    /\ UNCHANGED <<transport, sampling, faults>>

StartTimeout ==
    /\ client # 0 /\ ~ready /\ ~stopping
    /\ Stopped
    /\ UNCHANGED <<transport, client, met, payloads, ignored, sampling, greeted, catalog, faults>>

\* Mutant of CompleteAll: the requests are answered and go on waiting.
CompleteAllAndWait == UNCHANGED pending /\ answers' = Answered(CallsIn(pending))

CompleteAll == pending' = {} /\ answers' = Answered(CallsIn(pending))

-----------------------------------------------------------------------------
(* request: a process that does not run is not asked.                       *)
Running == transport = "http" \/ running

Request(c, asks) ==
    /\ c \notin DOMAIN answers /\ catalog # 0
    /\ answers' = [x \in DOMAIN answers \cup {c} |-> IF x # c THEN answers[x] ELSE IF asks THEN 0 ELSE 1]
    /\ pending' = IF asks THEN pending \cup {Message("call", c)} ELSE pending
    /\ IF asks THEN Send(<<Message("call", c)>>) ELSE UNCHANGED <<out, posts>>
    /\ UNCHANGED <<transport, client, running, ready, stopping, session, met, in, payloads, ignored, sampling,
                   processes, greeted, catalog, faults>>

(* callMcpTool, readServerResource, readServerPrompt: of a client that is   *)
(* ready.                                                                  *)
CallTool(c) == Request(c, ready /\ Running)

(* listServerCatalog: of every client there is.                             *)
ListServerCatalog(c) == Request(c, Running)

(* dispatch: an answer to what waits, or a call of the server.  The tools   *)
(* are asked for once the server is initialized, and whenever it says they  *)
(* changed (refreshTools), and the registry takes them (setMcpClients).     *)
AskTools == Message("tools", 0)

\* Mutant of Initialized: the tools are asked for before the server is told to begin.
InitializedLast == <<AskTools, Message("initialized", 0)>>

Initialized == <<Message("initialized", 0), AskTools>>

OnInitialized(m) ==
    /\ m \in pending /\ m.what = "initialize"
    /\ ready' = TRUE /\ pending' = (pending \ {m}) \cup {AskTools} /\ ignored' = ignored \ {AskTools}
    /\ Send(Initialized)
    /\ UNCHANGED <<answers, catalog, sampling>>

(* setMcpClients takes the tools of the clients that are ready.             *)
OnTools(m) ==
    /\ m \in pending /\ m.what = "tools"
    /\ pending' = pending \ {m} /\ catalog' = (IF ready THEN client ELSE catalog)
    /\ UNCHANGED <<ready, out, posts, ignored, answers, sampling>>

HandleNotification(m) ==
    /\ m.what = "changed"
    /\ pending' = pending \cup {AskTools} /\ ignored' = ignored \ {AskTools} /\ Send(<<AskTools>>)
    /\ UNCHANGED <<ready, answers, catalog, sampling>>

HandleServerRequest(m) ==
    \/ /\ m.what = "roots"
       /\ Send(<<Message("response", 0)>>)
       /\ UNCHANGED <<ready, pending, ignored, answers, catalog, sampling>>
    \/ /\ m.what = "sampling"
       /\ sampling' = sampling \cup {client}
       /\ UNCHANGED <<ready, pending, out, posts, ignored, answers, catalog>>

(* What waits may be answered by an error as well, and an answer nobody      *)
(* waits for is dropped.                                                   *)
Dispatch(m) ==
    \/ OnInitialized(m) \/ OnTools(m)
    \/ /\ m \in pending
       /\ pending' = pending \ {m} /\ answers' = Answered(CallsIn({m}))
       /\ UNCHANGED <<ready, out, posts, ignored, catalog, sampling>>
    \/ /\ m \notin pending /\ m.what \notin {"changed", "sampling", "roots"}
       /\ UNCHANGED <<ready, pending, out, posts, ignored, answers, catalog, sampling>>
    \/ HandleNotification(m) \/ HandleServerRequest(m)

(* The model answered: the client that asked may be gone (runSampling).     *)
Sampled(c) ==
    /\ c \in sampling /\ sampling' = sampling \ {c}
    /\ IF c = client /\ ~stopping THEN Send(<<Message("response", 0)>>) ELSE UNCHANGED <<out, posts>>
    /\ UNCHANGED <<transport, client, running, ready, stopping, session, met, pending, in, payloads, ignored,
                   processes, greeted, catalog, answers, faults>>

-----------------------------------------------------------------------------
Exited ==
    /\ Head(in).what = "exited"
    /\ running' = FALSE /\ ready' = FALSE /\ CompleteAll /\ in' = Tail(in)
    /\ UNCHANGED <<stopping, session, out, posts, ignored, processes, catalog, sampling>>

(* The transport: a message, an exit, or a failure, which stops the client. *)
Hear ==
    /\ in # <<>>
    /\ \/ /\ Head(in).what \notin {"exited", "failed"}
          /\ Dispatch(Head(in)) /\ in' = Tail(in)
          /\ UNCHANGED <<running, stopping, session, processes>>
       \/ Exited
       \/ /\ Head(in).what = "failed"
          /\ Stopped /\ UNCHANGED <<ignored, catalog, sampling>>
    /\ UNCHANGED <<transport, client, met, payloads, greeted, faults>>

Fault == faults < MaxFaults /\ faults' = faults + 1

(* The process reads what it was sent, and answers a request.               *)
ServerReads ==
    /\ out # <<>> /\ client \in processes
    /\ out' = Tail(out)
    /\ greeted' = (greeted \/ Head(out).what = "initialized")
    /\ in' = IF Head(out).what \in {"initialize", "tools", "call"} THEN Append(in, Head(out)) ELSE in
    /\ UNCHANGED <<transport, client, running, ready, stopping, session, met, pending, posts, payloads, ignored, sampling,
                   processes, catalog, answers, faults>>

(* Once it may begin it calls, and at any time it may say what cannot be     *)
(* read, to a client that still listens.                                   *)
ServerSpeaks ==
    /\ client \in processes /\ running /\ Fault
    /\ \E what \in {"failed"} \cup (IF greeted THEN {"changed", "sampling", "roots"} ELSE {}) :
           in' = Append(in, Message(what, 0))
    /\ UNCHANGED <<transport, client, running, ready, stopping, session, met, pending, out, posts, payloads, ignored, sampling,
                   processes, greeted, catalog, answers>>

(* A process that ends tells the one client that still listens.             *)
ServerEnds(c) ==
    /\ c \in processes /\ Fault
    /\ processes' = processes \ {c}
    /\ in' \in IF c = client /\ running THEN {Append(in, Message(what, 0)) : what \in {"exited", "failed"}} ELSE {in}
    /\ UNCHANGED <<transport, client, running, ready, stopping, session, met, pending, out, posts, payloads, ignored, sampling,
                   greeted, catalog, answers>>

-----------------------------------------------------------------------------
(* What the body of an answer may hold: an event stream what the server has  *)
(* to say as well, in any order; a body that is empty or cannot be parsed     *)
(* nothing, not the answer either.                                         *)
AnswerTo(p) == {m \in {p.message} : m.what \in {"initialize", "tools", "call"}}
Bodies(p) ==
    {said \cup told : said \in {{}, AnswerTo(p)},
                     told \in {{}} \cup {{Message(what, 0)} : what \in {"changed", "sampling", "roots"}}}

(* post: a greeting gives a session.  An answer that is too large or failed, *)
(* or a session the server forgot, answers everything that waits; a body       *)
(* that holds no message answers nothing (consumeHttpPayload).               *)
PostAnswered(p) ==
    /\ p \in posts /\ posts' = posts \ {p}
    /\ \/ /\ \E body \in Bodies(p) :
                 /\ IF body = AnswerTo(p) THEN UNCHANGED faults ELSE Fault
                 /\ payloads' = payloads \cup body /\ ignored' = ignored \cup (AnswerTo(p) \ body)
          /\ session' = (IF p.message.what = "initialize" THEN "known" ELSE session)
          /\ met' = (met \/ p.message.what = "initialize")
          /\ UNCHANGED <<pending, answers>>
       \/ /\ Fault
          /\ session' \in {session, "none"}
          /\ CompleteAll
          /\ UNCHANGED <<payloads, ignored, met>>
    /\ UNCHANGED <<transport, client, running, ready, stopping, out, in, sampling, processes, greeted, catalog>>

(* What was parsed elsewhere is dispatched, by a client that was stopped as   *)
(* well.  A message of another protocol stops the client.                   *)
Parsed(m) ==
    /\ m \in payloads /\ payloads' = payloads \ {m}
    /\ \/ /\ Dispatch(m)
          /\ UNCHANGED <<running, stopping, session, in, processes, faults>>
       \/ /\ Fault
          /\ Stopped /\ UNCHANGED <<ignored, catalog, sampling>>
    /\ UNCHANGED <<transport, client, met, greeted>>

McpNext ==
    \/ Restart \/ StartTimeout \/ Hear \/ ServerReads \/ ServerSpeaks
    \/ \E c \in Calls : CallTool(c) \/ ListServerCatalog(c)
    \/ \E c \in sampling : Sampled(c)
    \/ \E c \in processes : ServerEnds(c)
    \/ \E p \in posts : PostAnswered(p)
    \/ \E m \in payloads : Parsed(m)

-----------------------------------------------------------------------------
(* Every call is answered once, and none waits for what will never come:    *)
(* whatever a client waits for, its process lives or its end is about to be *)
(* heard, or the answer is being sent or read (request, exited, completeAll, *)
(* stop).  Two things are left to the deadline of the tool, at an address:    *)
(* what its server answered with something else, and what a client that was  *)
(* stopped is asked for (listServerCatalog, refreshTools), which it notes and  *)
(* does not post.                                                          *)
NoCallWaitsForTheDead ==
    /\ \A c \in DOMAIN answers : answers[c] = IF Message("call", c) \in pending THEN 0 ELSE 1
    /\ \A m \in pending :
           \/ client \in processes
           \/ \E i \in DOMAIN in : in[i].what \in {"exited", "failed"}
           \/ m \in payloads \/ \E p \in posts : p.message = m
           \/ transport = "http" /\ (stopping \/ m \in ignored)

(* A process is told to begin before it is asked for anything but to        *)
(* introduce itself (performInitialize, ready).  An address is sent its posts *)
(* one by one, in whatever order they arrive.                              *)
GreetedFirst ==
    \A i \in DOMAIN out : out[i].what \in {"tools", "call"} =>
        greeted \/ \E j \in 1..i-1 : out[j].what = "initialized"

(* "a client that is started again never leaves the previous one behind"     *)
(* (AiMcpClient.cpp:202): the only process is that of the client there is.   *)
NoServerLeftBehind == processes \subseteq {client}

(* "A terminated session is restarted from a fresh initialization"           *)
(* (AiMcpClient.cpp:440): a client that is ready has the session its server  *)
(* gave it.                                                                *)
ReadyHasItsSession == ready /\ met => session # "none"
=============================================================================
