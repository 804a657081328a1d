------------------------ MODULE LanguageServerClient ------------------------
(***************************************************************************)
(* A language server and its client (LanguageServerClient.cpp), with the    *)
(* transport between them (LanguageServerTransport.cpp), which owns the     *)
(* process and lives in a thread of its own: what the client asks of it and *)
(* what it says wait in two queues.  The server may be killed, end, fail to *)
(* start and be started again while messages are on their way.              *)
(*                                                                          *)
(* One document is open or not; requests are of one kind, which the others   *)
(* follow.  The client has the text it believes the server to hold of it;    *)
(* what the server holds is what the messages make of it.  Left out: what a *)
(* server asks of its client, which is answered at once and changes nothing, *)
(* what it tells of its work, and the files of the workspace that change.    *)
(***************************************************************************)
EXTENDS Naturals, Sequences

CONSTANTS
    FileContents, (* what the document's file may say                       *)
    Words,       (* what may be typed                                       *)
    Sync,        (* how the server wants its changes                        *)
    OpenClose,   (* whether it is told what is opened and closed            *)
    MaxRestarts, (* limits().maximumRestarts                                *)
    MaxCrashes,  (* bound: times the server ends by itself                  *)
    MaxIds,      (* bound: requests sent                                    *)
    MaxVersions, (* bound: changes of a document's entry                    *)
    MaxQueue     (* bound: calls waiting for the transport, of the reader's *)

VARIABLES
    there,       (* the client is there                                     *)
    dismissed,   (* the workspace gives it to no document any more          *)
    running, ready, stopping,
    greeting,    (* m_initializeTimer runs                                  *)
    ending,      (* m_stopTimer runs                                        *)
    restarts,    (* m_restartsUsed                                          *)
    lastId,      (* m_nextRequestId                                         *)
    initializing, shuttingDown, (* the identifiers of these requests        *)
    asked,       (* m_completionRequests and the like                       *)
    copy,        (* m_documents, at the one path                            *)
    toTransport, toClient, (* the calls and the signals between the threads *)
    process,     (* the server's process                                    *)
    peer,        (* the server: how far it was greeted, what it has open     *)
                 (* and what it was asked                                   *)
    crashes      (* steps counted against their bound                       *)

-----------------------------------------------------------------------------
(* The client's copy of the document: a text is the content it was read from *)
(* and the edits typed into it.  An operation takes a copy and gives a copy    *)
(* and the messages sent.                                                    *)

(* The three ways a server can want changes (DocumentSyncKind).             *)
Syncs == {"none", "full", "incremental"}

(* No copy: the path is not among m_documents, or not open at the server.   *)
NoCopy == [of |-> "none", typed |-> {}]

Absent == [text |-> NoCopy, version |-> 0, opened |-> FALSE]

(* A path that m_documents has just made an entry of.                       *)
Entry(text) == [text |-> text, version |-> 1, opened |-> FALSE]

With(text, edits) == [text EXCEPT !.typed = @ \cup edits]

Quiet(entry) == [copy |-> entry, sent |-> <<>>]

SendOpen(entry) ==
    [copy |-> [entry EXCEPT !.opened = TRUE],
     sent |-> <<[type |-> "didOpen", version |-> entry.version, text |-> entry.text]>>]

(* "content" is what a change says, or NoContent when the server takes none. *)
NoContent == [edits |-> {}]

Heard(entry, content) == ready /\ entry.opened /\ content # NoContent
DidChange(entry, content) == <<[type |-> "didChange", version |-> entry.version, content |-> content]>>

\* Mutant of SendChange: a change is told under the version before it.
SendChangeUncounted(entry, content) ==
    [copy |-> [entry EXCEPT !.version = @ + 1],
     sent |-> IF Heard(entry, content) THEN DidChange(entry, content) ELSE <<>>]

(* A change is counted even when nobody is told of it.                      *)
SendChange(entry, content) ==
    LET counted == [entry EXCEPT !.version = @ + 1]
    IN [copy |-> counted, sent |-> IF Heard(entry, content) THEN DidChange(counted, content) ELSE <<>>]

(* openDocument: a document that is open already is not opened again.       *)
OpenDocument(entry, text) ==
    LET held == IF entry = Absent THEN Entry(text) ELSE [entry EXCEPT !.text = text]
    IN IF ready /\ ~held.opened THEN SendOpen(held) ELSE Quiet(held)

(* replaceDocument: the whole text, in every way of taking changes.         *)
ReplaceDocument(entry, text) ==
    IF entry = Absent \/ entry.text = text
    THEN Quiet(entry)
    ELSE SendChange([entry EXCEPT !.text = text], [text |-> text])

(* editDocument, of which the edits up to "fitting" fit the text the client *)
(* has.  When one does not fit, those before it have changed the text and   *)
(* nothing is sent.                                                         *)
EditDocument(entry, edits, fitting) ==
    LET applied == {edits[i] : i \in 1 .. fitting}
        text == With(entry.text, applied)
        content == CASE Sync = "incremental" -> [edits |-> applied]
                     [] Sync = "full" -> [text |-> text]
                     [] Sync = "none" -> NoContent
    IN IF entry = Absent \/ edits = <<>> THEN Quiet(entry)
       ELSE IF fitting < Len(edits) THEN Quiet([entry EXCEPT !.text = text])
       ELSE SendChange([entry EXCEPT !.text = text], content)

(* saveDocument.                                                            *)
SavedDocument(entry, text) ==
    IF entry = Absent THEN Quiet(entry)
    ELSE [copy |-> [entry EXCEPT !.text = text],
          sent |-> IF ready /\ entry.opened THEN <<[type |-> "didSave"]>> ELSE <<>>]

(* closeDocument.                                                           *)
CloseDocument(entry) ==
    [copy |-> Absent,
     sent |-> IF ready /\ entry.opened /\ OpenClose THEN <<[type |-> "didClose"]>> ELSE <<>>]

(* What the server makes of a message about the document.                   *)
Received(held, message) ==
    CASE message.type = "didOpen" -> [text |-> message.text, version |-> message.version, opened |-> TRUE]
      [] message.type = "didClose" -> Absent
      [] message.type = "didChange" /\ "text" \in DOMAIN message.content ->
            [held EXCEPT !.text = message.content.text, !.version = message.version]
      [] message.type = "didChange" /\ "edits" \in DOMAIN message.content ->
            [held EXCEPT !.text = With(@, message.content.edits), !.version = message.version]

-----------------------------------------------------------------------------
life == <<there, dismissed, running, ready, stopping>>
timers == <<greeting, ending>>
ids == <<initializing, shuttingDown, asked>>
client == <<life, timers, restarts, lastId, ids, copy>>
far == <<process, peer, crashes>>
serverVars == <<client, toTransport, toClient, far>>

NoId == 0

FreshServer == [phase |-> "fresh", held |-> Absent, asks |-> {}]

TransportCall(name) == [call |-> name]
Send(message) == [call |-> "send", message |-> message]
RequestMessage(type, id) == Send([type |-> type, id |-> id])
Notify(type) == Send([type |-> type])
Response(id, ok) == [signal |-> "message", id |-> id, ok |-> ok]
Signal(name) == [signal |-> name]

Sends(messages) == [i \in DOMAIN messages |-> Send(messages[i])]

ServerInit ==
    /\ there = TRUE /\ dismissed = FALSE
    /\ running = FALSE /\ ready = FALSE /\ stopping = FALSE
    /\ greeting = FALSE /\ ending = FALSE
    /\ restarts = 0 /\ lastId = 0 /\ initializing = NoId /\ shuttingDown = NoId
    /\ asked = {} /\ copy = Absent
    /\ toTransport = <<TransportCall("start")>> /\ toClient = <<>>
    /\ process = "none" /\ peer = FreshServer /\ crashes = 0

-----------------------------------------------------------------------------
(* What the documents of the workspace ask of the client.                   *)
Told(result) ==
    /\ copy' = result.copy
    /\ toTransport' = toTransport \o Sends(result.sent)
    /\ UNCHANGED <<life, timers, restarts, lastId, ids, toClient, far>>

Speaks == there /\ Len(toTransport) < MaxQueue
MayChange == Speaks /\ copy # Absent /\ copy.version < MaxVersions

(* setLanguageServer, of a client that is still the workspace's.            *)
SetLanguageServer ==
    /\ Speaks /\ ~dismissed
    /\ copy = Absent
    /\ \E c \in FileContents : Told(OpenDocument(copy, [of |-> c, typed |-> {}]))

(* applyDecoded: what the file says now is opened, and replaces the text.    *)
Reload ==
    /\ MayChange
    /\ \E c \in FileContents :
        LET text == [of |-> c, typed |-> {}]
            opened == OpenDocument(copy, text)
            replaced == ReplaceDocument(opened.copy, text)
        IN Told([copy |-> replaced.copy, sent |-> opened.sent \o replaced.sent])

(* synchronizeLanguageServer: an edit that does not fit the client's copy is *)
(* followed by the whole text.                                              *)
Edit ==
    /\ MayChange
    /\ \E e \in Words \ copy.text.typed :
        \/ Told(EditDocument(copy, <<e>>, 1))
        \/ Told(ReplaceDocument(EditDocument(copy, <<e>>, 0).copy, With(copy.text, {e})))

(* The end of a save: the text has what was typed during a load as well, of  *)
(* which the client was told nothing.                                       *)
Saved ==
    /\ Speaks /\ copy # Absent
    /\ \E unheard \in SUBSET Words : Told(SavedDocument(copy, With(copy.text, unheard)))

Detach == Speaks /\ copy # Absent /\ Told(CloseDocument(copy))

(* requestCompletion, and every request about a place in the document: the   *)
(* one before is cancelled (trackedRequest).                                *)
Ask ==
    /\ Speaks /\ ready
    /\ copy # Absent
    /\ lastId < MaxIds
    /\ lastId' = lastId + 1
    /\ asked' = {lastId'}
    /\ toTransport' = toTransport
            \o (IF asked = {} THEN <<>> ELSE <<RequestMessage("cancel", CHOOSE id \in asked : TRUE)>>)
            \o <<RequestMessage("request", lastId')>>
    /\ UNCHANGED <<life, timers, restarts, initializing, shuttingDown, copy, toClient, far>>

(* stop, which the workspace calls once no document has the client any more. *)
Stop ==
    /\ there /\ ~dismissed
    /\ copy = Absent
    /\ ~stopping /\ running /\ ready => lastId < MaxIds
    /\ dismissed' = TRUE /\ stopping' = TRUE
    /\ \/ stopping /\ UNCHANGED <<timers, lastId, shuttingDown, toTransport>>
       \/ /\ ~stopping
          /\ greeting' = FALSE /\ ending' = running
          /\ IF running /\ ready
             THEN /\ lastId' = lastId + 1
                  /\ shuttingDown' = lastId'
                  /\ toTransport' = Append(toTransport, RequestMessage("shutdown", lastId'))
             ELSE /\ toTransport' = IF running THEN Append(toTransport, TransportCall("requestTermination")) ELSE toTransport
                  /\ UNCHANGED <<lastId, shuttingDown>>
    /\ UNCHANGED <<there, running, ready, restarts, initializing, asked, copy, toClient, far>>

(* The client is destroyed, by the workspace that closes or that was told   *)
(* of its end; nothing it was to hear reaches anybody.                      *)
Destroy ==
    /\ there
    /\ there' = FALSE
    /\ toTransport' = Append(toTransport, TransportCall("shutdown"))
    /\ toClient' = <<>>
    /\ UNCHANGED <<dismissed, running, ready, stopping, timers, restarts, lastId, ids, copy, far>>

-----------------------------------------------------------------------------
(* What the client hears of its transport, one signal after the other.      *)
Hearing(name) == there /\ toClient # <<>> /\ Head(toClient).signal = name /\ toClient' = Tail(toClient)

(* started (processStarted): the server is greeted.                         *)
OnStarted ==
    /\ Hearing("started")
    /\ lastId < MaxIds
    /\ running' = TRUE
    /\ greeting' = TRUE
    /\ lastId' = lastId + 1
    /\ initializing' = lastId'
    /\ toTransport' = Append(toTransport, RequestMessage("initialize", lastId'))
    /\ UNCHANGED <<there, dismissed, ready, stopping, ending, restarts, shuttingDown, asked, copy, far>>

(* handleInitializeResponse, of a server that accepts: every document the    *)
(* client has is opened.                                                    *)
OnInitialized ==
    /\ Hearing("message") /\ Head(toClient).id = initializing
    /\ initializing' = NoId
    /\ greeting' = FALSE
    /\ IF Head(toClient).ok
       THEN LET opened == IF copy = Absent \/ ~OpenClose THEN Quiet(copy) ELSE SendOpen(copy)
            IN /\ ready' = TRUE
               /\ copy' = opened.copy
               /\ toTransport' = Append(toTransport, Notify("initialized")) \o Sends(opened.sent)
       ELSE UNCHANGED <<ready, copy, toTransport>>
    /\ UNCHANGED <<there, dismissed, running, stopping, ending, restarts, lastId, shuttingDown, asked, far>>

(* handleShutdownResponse.                                                  *)
OnShutdown ==
    /\ Hearing("message") /\ Head(toClient).id = shuttingDown
    /\ shuttingDown' = NoId
    /\ toTransport' = toTransport \o (IF Head(toClient).ok THEN <<Notify("exit")>> ELSE <<>>)
                                 \o <<TransportCall("requestTermination")>>
    /\ UNCHANGED <<life, timers, restarts, lastId, initializing, asked, copy, far>>

(* handleResponse, for what a document asked: an answer to a question that   *)
(* was cancelled is dropped.                                                *)
OnAnswer ==
    /\ Hearing("message") /\ Head(toClient).id \notin {initializing, shuttingDown}
    /\ asked' = asked \ {Head(toClient).id}
    /\ UNCHANGED <<life, timers, restarts, lastId, initializing, shuttingDown, copy, toTransport, far>>

(* protocolFailed: the server said what no server says, and is not started   *)
(* again; the workspace hears of it when the process has ended.             *)
OnProtocolFailed ==
    /\ Hearing("protocolFailed")
    /\ stopping' = TRUE
    /\ UNCHANGED <<there, dismissed, running, ready, timers, restarts, lastId, ids, copy, toTransport, far>>

OnStartFailed ==
    /\ Hearing("startFailed")
    /\ UNCHANGED <<client, toTransport, far>>

(* What ends with the process.                                              *)
Forgotten ==
    /\ running' = FALSE /\ ready' = FALSE
    /\ greeting' = FALSE /\ ending' = FALSE
    /\ asked' = {} /\ initializing' = NoId /\ shuttingDown' = NoId
    /\ copy' = [copy EXCEPT !.opened = FALSE]

(* exited (processFinished): what was asked is forgotten, the documents are  *)
(* open nowhere, and the server is started again unless it is stopping or    *)
(* the restarts of this window of time are used up.                         *)
OnExited ==
    /\ Hearing("exited")
    /\ Forgotten
    /\ \E used \in {0, restarts} :
        IF stopping \/ used >= MaxRestarts
        THEN UNCHANGED <<restarts, toTransport>>
        ELSE /\ restarts' = used + 1
             /\ toTransport' = Append(toTransport, TransportCall("start"))
    /\ UNCHANGED <<there, dismissed, stopping, lastId, far>>

(* m_initializeTimer and m_stopTimer.                                       *)
InitializeTimeout ==
    /\ there /\ greeting
    /\ greeting' = FALSE
    /\ toTransport' = Append(toTransport, TransportCall("kill"))
    /\ UNCHANGED <<life, ending, restarts, lastId, ids, copy, toClient, far>>

StopTimeout ==
    /\ there /\ ending
    /\ ending' = FALSE
    /\ toTransport' = Append(toTransport, TransportCall("kill"))
    /\ UNCHANGED <<life, greeting, restarts, lastId, ids, copy, toClient, far>>

-----------------------------------------------------------------------------
(* What a server makes of a message.  One that is spoken to out of turn is   *)
(* "confused" from then on.                                                 *)
InTurn(server, message) ==
    CASE message.type = "initialize" -> server.phase = "fresh"
      [] message.type = "initialized" -> server.phase = "answered"
      [] message.type = "didOpen" -> server.phase = "initialized" /\ server.held = Absent
      [] message.type = "didChange" ->
            server.phase = "initialized" /\ server.held # Absent /\ message.version > server.held.version
      [] message.type \in {"didSave", "didClose"} -> server.phase = "initialized" /\ server.held # Absent
      [] message.type \in {"request", "cancel", "shutdown"} -> server.phase = "initialized"
      [] message.type = "exit" -> server.phase = "shut"

PhaseAfter(server, message) ==
    CASE ~InTurn(server, message) -> "confused"
      [] message.type = "initialize" -> "initializing"
      [] message.type = "initialized" -> "initialized"
      [] message.type = "shutdown" -> "shut"
      [] OTHER -> server.phase

HeldAfter(server, message) ==
    IF message.type \in {"didOpen", "didChange", "didClose"} THEN Received(server.held, message) ELSE server.held

Hears(message) ==
    peer' = [phase |-> PhaseAfter(peer, message),
             held |-> HeldAfter(peer, message),
             asks |-> CASE message.type \in {"initialize", "request", "shutdown"} -> peer.asks \cup {message.id}
                        [] message.type = "cancel" -> peer.asks \ {message.id}
                        [] OTHER -> peer.asks]

(* The transport does the next call; what there is no process for is dropped. *)
DoCall ==
    /\ toTransport # <<>>
    /\ toTransport' = Tail(toTransport)
    /\ LET next == Head(toTransport)
       IN \/ next.call = "start" /\ process' = (IF process = "none" THEN "starting" ELSE process) /\ UNCHANGED peer
          \/ next.call = "send" /\ process = "none" /\ UNCHANGED <<process, peer>>
          \/ next.call = "send" /\ process # "none" /\ Hears(next.message) /\ UNCHANGED process
          \/ /\ next.call \in {"kill", "requestTermination"}
             /\ process' = IF process = "running" THEN "killed" ELSE process
             /\ UNCHANGED peer
          \/ next.call = "requestTermination" /\ UNCHANGED <<process, peer>>
          \/ next.call = "shutdown" /\ process' = "none" /\ peer' = FreshServer
    /\ UNCHANGED <<client, toClient, crashes>>

(* What becomes of the process, and what the transport says of it.           *)
Says(signal) == toClient' = IF there THEN Append(toClient, signal) ELSE <<>>

ProcessStarts ==
    /\ process = "starting"
    /\ \/ process' = "running" /\ Says(Signal("started"))
       \/ process' = "none" /\ Says(Signal("startFailed"))
    /\ UNCHANGED <<client, toTransport, peer, crashes>>

ProcessExits ==
    /\ \/ process \in {"killed", "aborted"} /\ UNCHANGED crashes
       \/ process = "running" /\ peer.phase = "shut" /\ UNCHANGED crashes
       \/ process = "running" /\ crashes < MaxCrashes /\ crashes' = crashes + 1
    /\ process' = "none"
    /\ peer' = FreshServer
    /\ Says(Signal("exited"))
    /\ UNCHANGED <<client, toTransport>>

(* The server answers, and may refuse, or answer what is no message at all   *)
(* (LanguageServerTransport::abort).                                        *)
ServerAnswers ==
    /\ process \in {"running", "killed"}
    /\ \E id \in peer.asks, ok \in BOOLEAN :
        /\ peer' = [peer EXCEPT !.asks = @ \ {id},
                               !.phase = IF @ # "initializing" THEN @ ELSE IF ok THEN "answered" ELSE "refused"]
        /\ Says(Response(id, ok))
    /\ UNCHANGED <<client, toTransport, process, crashes>>

ServerBreaksProtocol ==
    /\ process = "running"
    /\ process' = "aborted"
    /\ Says(Signal("protocolFailed"))
    /\ UNCHANGED <<client, toTransport, peer, crashes>>

ReaderStep == SetLanguageServer \/ Reload \/ Edit \/ Saved \/ Detach \/ Ask \/ Stop \/ Destroy
ClientStep ==
    \/ OnStarted \/ OnInitialized \/ OnShutdown \/ OnAnswer \/ OnProtocolFailed \/ OnStartFailed \/ OnExited
    \/ InitializeTimeout \/ StopTimeout
ServerStep == DoCall \/ ProcessStarts \/ ProcessExits \/ ServerAnswers \/ ServerBreaksProtocol

ServerNext == ReaderStep \/ ClientStep \/ ServerStep

ServerSpec == ServerInit /\ [][ServerNext]_serverVars

-----------------------------------------------------------------------------
ServerTypeOK ==
    /\ {there, dismissed, running, ready, stopping, greeting, ending} \subseteq BOOLEAN
    /\ restarts \in 0 .. MaxRestarts
    /\ lastId \in 0 .. MaxIds /\ {initializing, shuttingDown} \subseteq 0 .. lastId /\ asked \subseteq 1 .. lastId
    /\ process \in {"none", "starting", "running", "killed", "aborted"}
    /\ peer.phase \in {"fresh", "initializing", "answered", "refused", "initialized", "shut", "confused"}
    /\ peer.asks \subseteq 1 .. lastId
    /\ copy.version \in 0 .. MaxVersions /\ copy.opened \in BOOLEAN

(* Every process of the server hears what a server may hear, in that order:  *)
(* it is greeted first, by itself, and opened documents once it answered;    *)
(* what is changed or closed is open there, in growing versions; and after   *)
(* a shutdown there is only the end.  So nothing meant for a process that    *)
(* ended reaches the one after it.                                          *)
SpokenToInTurn == peer.phase # "confused"

(* ... and one that was told everything has the version of the document that *)
(* the client counts, so no change is lost between restarts, openings and    *)
(* edits that did not fit.                                                  *)
VersionsAgree ==
    /\ SpokenToInTurn
    /\ there /\ ready /\ process = "running" /\ toTransport = <<>> /\ toClient = <<>> /\ copy.opened
         => peer.held.version = copy.version

(* A server that was told everything has the text the client believes it to  *)
(* have (replaceDocument: "A reload replaces everything the server holds").  *)
ReloadsReachTheServer ==
    (there /\ ready /\ process = "running" /\ toTransport = <<>> /\ toClient = <<>> /\ copy.opened)
        => peer.held.text = copy.text
=============================================================================
