------------------------------- MODULE WebServer -------------------------------
(***************************************************************************)
(* The web servers a user configures (web-server/WebServerPlugin.cpp): each  *)
(* has a row, perhaps a terminal it belongs to, and while it runs a runtime  *)
(* with a thread of its own.  To configure and start one takes four answers: *)
(* of the disk, of the database, of the runtime; and what the user and the   *)
(* terminals do meanwhile is looked at when each of them comes.             *)
(*                                                                         *)
(* A server is absent or a record of its terminal and its port; the rest of  *)
(* its fields are written with them.                                       *)
(***************************************************************************)
EXTENDS Naturals, FiniteSets, SequencesExt

CONSTANTS
    Servers,
    Terminals,
    Ports,
    MaxRuntimes,    \* bound: runtimes ever started
    MaxWrites,      \* bound: writes on their way
    MaxRefusals,    \* bound: writes the disk refuses
    Absent,         \* no server, no terminal
    Clients,
    MaxConnections,     \* maximumConnections
    FileSizes,          \* of the files there are
    HeaderSize,         \* of what an answer begins with
    ChunkSize,          \* fileChunkSize
    MaxBuffered,        \* maximumBufferedFileBytes
    LogCapacity,        \* m_capacity
    MaxBatch,           \* maximumRequestBatch
    MaxClears           \* bound: times the log is cleared

VARIABLES
    servers,        \* m_webServers
    stored,         \* web_server_configurations
    underway, cancelled,    \* m_pendingServerOperations, m_cancelledServerOperations
    operation,      \* per server: what its operation waits for
    runtime,        \* per server: WebServer::runtime, 0 for none
    runtimes,       \* per runtime: its server's port and what its thread has done
    closing,        \* m_runtimeCleanupFutures
    writes,         \* what the database has not done yet
    live, heard, terminals, \* the terminals, what is told of them, and m_terminals
    asked,          \* history: per server, whether it was last asked to run or to stop
    refusals,       \* bound: writes refused so far
    socket,         \* per client: where its connection is
    transfer,       \* m_fileTransfers: per client, what is still to be read of its file
    buffered,       \* per client: chunks written and not sent (bytesToWrite)
    received,       \* per client: chunks it has got, and how many it was promised
    requestLog, nextSequence,   \* m_entries, m_nextSequence
    cursor, shown,  \* m_requestCursor and the rows of the table
    clearing,       \* what clearRequestLog waits for
    clears          \* bound: how often it was called

webVars == <<servers, stored, underway, cancelled, operation, runtime, runtimes, closing, writes, live, heard,
             terminals, asked, refusals>>

Idle == [at |-> "idle", of |-> Absent]
Server(terminal, port) == [terminal |-> terminal, port |-> port]

WebInit ==
    /\ servers = [s \in Servers |-> Absent] /\ stored = servers
    /\ underway = {} /\ cancelled = {}
    /\ operation = [s \in Servers |-> Idle]
    /\ runtime = [s \in Servers |-> 0] /\ runtimes = <<>> /\ closing = {}
    /\ writes = <<>> /\ live = Terminals /\ heard = <<>> /\ terminals = Terminals
    /\ asked = [s \in Servers |-> "stop"] /\ refusals = 0

Running(s) == runtime[s] # 0 /\ runtimes[runtime[s]].is = "listening"
Waits(s, at, of) == operation' = [operation EXCEPT ![s] = [at |-> at, of |-> of]]
Writes(kind, s, server) == writes' = Append(writes, [kind |-> kind, of |-> s, row |-> server])

(* What ends each operation, well or badly.                                 *)
Ends(s) ==
    /\ underway' = underway \ {s} /\ cancelled' = cancelled \ {s}
    /\ operation' = [operation EXCEPT ![s] = Idle]

(* startRuntime: a new runtime, which is asked to listen.                   *)
StartsRuntime(s, server) ==
    /\ runtimes' = Append(runtimes, [port |-> server.port, is |-> "asked"])
    /\ runtime' = [runtime EXCEPT ![s] = Len(runtimes) + 1]
    /\ Waits(s, "starting", Len(runtimes) + 1)

-----------------------------------------------------------------------------
(* configureAndStartWebServer, and its continuations.                      *)
ConfigureServer(s, terminal, port) ==
    /\ s \notin underway /\ ~Running(s)
    /\ terminal # Absent => terminal \in terminals
    /\ Len(runtimes) < MaxRuntimes /\ Len(writes) < MaxWrites
    /\ underway' = underway \cup {s} /\ Waits(s, "validating", Server(terminal, port))
    /\ asked' = [asked EXCEPT ![s] = "run"]
    /\ UNCHANGED <<servers, stored, cancelled, runtime, runtimes, closing, writes, live, heard, terminals, refusals>>

LinkedElsewhere(s, terminal) ==
    terminal # Absent /\ \E other \in Servers \ {s} : servers[other] # Absent /\ servers[other].terminal = terminal

Validated(s) ==
    LET server == operation[s].of IN
    /\ operation[s].at = "validating"
    /\ \/ Ends(s) /\ UNCHANGED <<servers, writes>>             \* the root is not one
       \/ /\ s \in cancelled \/ LinkedElsewhere(s, server.terminal)
          /\ Ends(s) /\ UNCHANGED <<servers, writes>>
       \/ /\ s \notin cancelled /\ ~LinkedElsewhere(s, server.terminal)
          /\ servers' = [servers EXCEPT ![s] = server]
          /\ Writes("configure", s, server)
          /\ Waits(s, "persisting", servers[s])
          /\ UNCHANGED <<underway, cancelled>>
    /\ UNCHANGED <<stored, runtime, runtimes, closing, live, heard, terminals, asked, refusals>>

\* Mutant of GoesOn: what was stopped meanwhile is started.
GoesOnAnyhow(s) == TRUE

GoesOn(s) == s \notin cancelled

(* The row was written, or what was there is put back.                      *)
Persisted(s, ok) ==
    \/ ~ok /\ servers' = [servers EXCEPT ![s] = operation[s].of] /\ Ends(s) /\ UNCHANGED <<runtime, runtimes>>
    \/ ok /\ ~GoesOn(s) /\ Ends(s) /\ UNCHANGED <<servers, runtime, runtimes>>
    \/ ok /\ GoesOn(s) /\ StartsRuntime(s, servers[s]) /\ UNCHANGED <<servers, underway, cancelled>>

-----------------------------------------------------------------------------
(* startWebServer, stopWebServer, removeWebServer.                         *)
StartServer(s) ==
    /\ servers[s] # Absent /\ s \notin underway /\ ~Running(s) /\ Len(runtimes) < MaxRuntimes
    /\ underway' = underway \cup {s} /\ StartsRuntime(s, servers[s])
    /\ asked' = [asked EXCEPT ![s] = "run"]
    /\ UNCHANGED <<servers, stored, cancelled, closing, writes, live, heard, terminals, refusals>>

(* The runtime is destroyed by a thread of the pool.                        *)
Cleans(s) == runtime' = [runtime EXCEPT ![s] = 0] /\ closing' = (closing \cup {runtime[s]}) \ {0}

StopServer(s) ==
    /\ s \in underway \/ runtime[s] # 0
    /\ cancelled' = IF s \in underway THEN cancelled \cup {s} ELSE cancelled
    /\ Cleans(s)
    /\ asked' = [asked EXCEPT ![s] = "stop"]
    /\ UNCHANGED <<servers, stored, underway, operation, runtimes, writes, live, heard, terminals, refusals>>

RemoveServer(s) ==
    /\ s \notin underway /\ servers[s] # Absent /\ Len(writes) < MaxWrites
    /\ Cleans(s)
    /\ underway' = underway \cup {s} /\ Waits(s, "removing", servers[s])
    /\ servers' = [servers EXCEPT ![s] = Absent]
    /\ Writes("remove", s, Absent)
    /\ asked' = [asked EXCEPT ![s] = "stop"]
    /\ UNCHANGED <<stored, cancelled, runtimes, live, heard, terminals, refusals>>

Removed(s, ok) ==
    /\ Ends(s)
    /\ servers' = IF ok THEN servers ELSE [servers EXCEPT ![s] = operation[s].of]
    /\ UNCHANGED <<runtime, runtimes>>

-----------------------------------------------------------------------------
\* Mutant of Allowed: the index on the terminal is not unique.
AllowedTwice(write) == TRUE

(* web_server_configurations_terminal_index: one row for a terminal.        *)
Allowed(write) ==
    write.row # Absent /\ write.row.terminal # Absent =>
        \A s \in Servers \ {write.of} : stored[s] = Absent \/ stored[s].terminal # write.row.terminal

(* The database does one write after another; what comes of it is told.     *)
DatabaseWrites ==
    /\ writes # <<>> /\ writes' = Tail(writes)
    /\ LET write == Head(writes) IN \E ok \in BOOLEAN :
       /\ IF Allowed(write) THEN ok \/ refusals < MaxRefusals ELSE ~ok
       /\ refusals' = IF Allowed(write) /\ ~ok THEN refusals + 1 ELSE refusals
       /\ stored' = IF ok THEN [stored EXCEPT ![write.of] = write.row] ELSE stored
       /\ \/ write.kind = "configure" /\ Persisted(write.of, ok)
          \/ write.kind = "remove" /\ Removed(write.of, ok)
          \/ write.kind = "unlink" /\ UNCHANGED <<servers, underway, cancelled, operation, runtime, runtimes>>
    /\ UNCHANGED <<closing, live, heard, terminals, asked>>

-----------------------------------------------------------------------------
(* The thread of a runtime: it listens if nobody holds the port, and stops   *)
(* when what is destroyed has come to it, after what it was asked before.    *)
Held(port) == \E r \in DOMAIN runtimes : runtimes[r].port = port /\ runtimes[r].is = "listening"

Listens(r) ==
    /\ runtimes[r].is = "asked"
    /\ runtimes' = [runtimes EXCEPT ![r].is = IF Held(runtimes[r].port) THEN "refused" ELSE "listening"]
    /\ UNCHANGED <<servers, stored, underway, cancelled, operation, runtime, closing, writes, live, heard, terminals,
                   asked, refusals>>

Closes(r) ==
    /\ r \in closing /\ runtimes[r].is # "asked"
    /\ runtimes' = [runtimes EXCEPT ![r].is = "gone"] /\ closing' = closing \ {r}
    /\ UNCHANGED <<servers, stored, underway, cancelled, operation, runtime, writes, live, heard, terminals, asked,
                   refusals>>

(* startRuntime goes on: its answer may be of a runtime that was stopped.    *)
Started(s) ==
    /\ operation[s].at = "starting"
    /\ runtimes[operation[s].of].is # "asked"
    /\ Ends(s)
    /\ IF s \notin cancelled /\ runtime[s] = operation[s].of /\ runtimes[runtime[s]].is = "refused"
       THEN Cleans(s)
       ELSE UNCHANGED <<runtime, closing>>
    /\ UNCHANGED <<servers, stored, runtimes, writes, live, heard, terminals, asked, refusals>>

-----------------------------------------------------------------------------
(* The terminals: one closes, and a snapshot of them is answered.           *)
TerminalCloses(t) ==
    /\ t \in live /\ live' = live \ {t}
    /\ heard' = Append(heard, [kind |-> "closed", of |-> {t}])
    /\ UNCHANGED <<servers, stored, underway, cancelled, operation, runtime, runtimes, closing, writes, terminals,
                   asked, refusals>>

SnapshotAnswers ==
    /\ \A i \in DOMAIN heard : heard[i].kind # "snapshot"
    /\ heard' = Append(heard, [kind |-> "snapshot", of |-> live])
    /\ UNCHANGED <<servers, stored, underway, cancelled, operation, runtime, runtimes, closing, writes, live,
                   terminals, asked, refusals>>

(* unlinkTerminal of those that are gone, each written.                     *)
Unlinks(gone) ==
    LET linked == {s \in Servers : servers[s] # Absent /\ servers[s].terminal \in gone} IN
    /\ servers' = [s \in Servers |-> IF s \in linked THEN [servers[s] EXCEPT !.terminal = Absent] ELSE servers[s]]
    /\ \E order \in [1..Cardinality(linked) -> linked] :
           /\ \A s \in linked : \E i \in DOMAIN order : order[i] = s
           /\ writes' = writes \o [i \in DOMAIN order |->
                                      [kind |-> "unlink", of |-> order[i], row |-> servers'[order[i]]]]

Hears ==
    /\ heard # <<>> /\ heard' = Tail(heard) /\ Len(writes) < MaxWrites
    /\ IF Head(heard).kind = "closed"
       THEN terminals' = terminals \ Head(heard).of /\ Unlinks(Head(heard).of)
       ELSE terminals' = Head(heard).of /\ Unlinks(Terminals \ Head(heard).of)
    /\ UNCHANGED <<stored, underway, cancelled, operation, runtime, runtimes, closing, live, asked, refusals>>

WebNext ==
    \/ \E s \in Servers : \/ \E t \in Terminals \cup {Absent}, p \in Ports : ConfigureServer(s, t, p)
                          \/ Validated(s) \/ StartServer(s) \/ StopServer(s) \/ RemoveServer(s) \/ Started(s)
    \/ DatabaseWrites
    \/ \E r \in DOMAIN runtimes : Listens(r) \/ Closes(r)
    \/ (\E t \in Terminals : TerminalCloses(t)) \/ SnapshotAnswers \/ Hears

WebSpec == WebInit /\ [][WebNext]_webVars

-----------------------------------------------------------------------------
(* What the user stopped does not run once its operation has ended, whatever *)
(* stage of its start the stop came in (stopWebServer and the continuations  *)
(* of configureAndStartWebServer).                                          *)
StopIsKept == \A s \in Servers : s \notin underway /\ asked[s] = "stop" => runtime[s] = 0

(* The rows of the servers, in the table and in memory, that keep terminals   *)
(* apart: no two belong to one (the unique index, and the look of             *)
(* configureAndStartWebServer for the linked server).                       *)
Apart(rows) ==
    \A s, other \in Servers :
        s # other /\ rows[s] # Absent /\ rows[other] # Absent /\ rows[s].terminal # Absent =>
            rows[s].terminal # rows[other].terminal

(* The table never has two servers of one terminal; until the disk refuses a  *)
(* write nor has memory, whatever is on its way, and the index itself refuses *)
(* nothing: a terminal that one server gives up and another takes is given up  *)
(* in the table first.                                                     *)
TerminalsAreApart ==
    /\ Apart(stored)
    /\ refusals = 0 => Apart(servers) /\ (writes # <<>> => Allowed(Head(writes)))

(* The same of memory, with nothing on its way, however many writes the disk   *)
(* refused: it holds of one terminal.  With two, a server that is configured    *)
(* to one that closes is unlinked behind a write that is refused, and goes back *)
(* to the terminal that another has taken, which the table allows by then.      *)
OneServerPerTerminal == writes = <<>> /\ underway = {} => Apart(servers)

(* With nothing on its way, a server belongs to a terminal that is there     *)
(* (unlinkTerminal).                                                        *)
LinksAreLive ==
    writes = <<>> /\ underway = {} /\ heard = <<>> =>
        \A s \in Servers : servers[s] # Absent /\ servers[s].terminal # Absent => servers[s].terminal \in live

-----------------------------------------------------------------------------
(* A running web server (web-server/WebServerInstance.cpp), which reads one  *)
(* request of each connection, sends a file a few chunks ahead of what has   *)
(* been written, and keeps a log that the window reads from another thread   *)
(* (RequestLogModel.cpp; refreshRequests, clearRequests of WebServerView).   *)
connectionVars == <<socket, transfer, buffered, received, requestLog, nextSequence, cursor, shown, clearing, clears>>

ConnectionsInit ==
    /\ socket = [c \in Clients |-> "none"]
    /\ transfer = [c \in Clients |-> 0] /\ buffered = [c \in Clients |-> 0]
    /\ received = [c \in Clients |-> [got |-> 0, of |-> 0]]
    /\ requestLog = <<>> /\ nextSequence = 1
    /\ cursor = 0 /\ shown = <<>> /\ clearing = "no" /\ clears = 0

Is(c, what) == socket' = [socket EXCEPT ![c] = what]
Accepted == {c \in Clients : socket[c] \in {"reading", "sending", "flushing"}}

Connect(c) ==
    /\ socket[c] = "none" /\ Is(c, "queued")
    /\ UNCHANGED <<transfer, buffered, received, requestLog, nextSequence, cursor, shown, clearing, clears>>

(* acceptConnection: those that are one too many are aborted.               *)
AcceptConnection(c) ==
    /\ socket[c] = "queued"
    /\ Is(c, IF Cardinality(Accepted) >= MaxConnections THEN "aborted" ELSE "reading")
    /\ UNCHANGED <<transfer, buffered, received, requestLog, nextSequence, cursor, shown, clearing, clears>>

(* RequestLogModel::append, the oldest making room.                         *)
Logs(c) ==
    LET kept == IF Len(requestLog) >= LogCapacity THEN Tail(requestLog) ELSE requestLog IN
    requestLog' = Append(kept, [sequence |-> nextSequence, of |-> c]) /\ nextSequence' = nextSequence + 1

Least(m, n) == IF m < n THEN m ELSE n

(* The loop of writeFileChunks adds a whole chunk while less than the limit is   *)
(* buffered: so many, or what remains of the file.                            *)
WriteFileChunks(remaining, unsent) ==
    LET chunks == IF unsent < MaxBuffered THEN (MaxBuffered - unsent + ChunkSize - 1) \div ChunkSize ELSE 0 IN
    Least(remaining, chunks * ChunkSize)

(* readRequest and respond, of a request that is whole: what an answer begins   *)
(* with, and behind it as much of a file of one of the sizes as may be          *)
(* (writeFileChunks); or an answer without a file.                           *)
ReadRequest(c) ==
    /\ socket[c] = "reading"
    /\ \/ \E size \in FileSizes :
              LET begun == WriteFileChunks(size, HeaderSize) IN
              /\ received' = [received EXCEPT ![c].of = HeaderSize + size]
              /\ buffered' = [buffered EXCEPT ![c] = HeaderSize + begun]
              /\ transfer' = [transfer EXCEPT ![c] = size - begun]
              /\ Is(c, "sending")
       \/ Is(c, "flushing") /\ UNCHANGED <<received, buffered, transfer>>
    /\ Logs(c)
    /\ UNCHANGED <<cursor, shown, clearing, clears>>

\* Mutant of Overdue: the deadline is that of an answer, which ends by itself.
OverdueOnceAnswered(c) == socket[c] = "sending"

Overdue(c) == socket[c] = "reading"

(* expireConnection, of one whose request never ends.                       *)
ExpireConnection(c) ==
    /\ Overdue(c) /\ Is(c, "aborted")
    /\ UNCHANGED <<transfer, buffered, received, requestLog, nextSequence, cursor, shown, clearing, clears>>

(* Something is sent (bytesWritten): continueFileTransfer reads on, and ends    *)
(* the connection once there is nothing left to read or to send.            *)
ContinueFileTransfer(c) ==
    \E sent \in 1..buffered[c] :
        LET more == WriteFileChunks(transfer[c], buffered[c] - sent)
            unsent == buffered[c] - sent + more IN
        /\ socket[c] = "sending"
        /\ received' = [received EXCEPT ![c].got = @ + sent]
        /\ buffered' = [buffered EXCEPT ![c] = unsent]
        /\ transfer' = [transfer EXCEPT ![c] = @ - more]
        /\ Is(c, IF unsent = 0 THEN "flushing" ELSE "sending")
        /\ UNCHANGED <<requestLog, nextSequence, cursor, shown, clearing, clears>>

(* The file is shorter than it was (an empty chunk), or the client is gone.   *)
Abort(c) ==
    /\ socket[c] \in {"reading", "sending", "flushing"} /\ Is(c, "aborted")
    /\ transfer' = [transfer EXCEPT ![c] = 0] /\ buffered' = [buffered EXCEPT ![c] = 0]
    /\ UNCHANGED <<received, requestLog, nextSequence, cursor, shown, clearing, clears>>

(* disconnectFromHost has sent what there was.                              *)
ReleaseSocket(c) ==
    /\ socket[c] = "flushing" /\ Is(c, "gone")
    /\ UNCHANGED <<transfer, buffered, received, requestLog, nextSequence, cursor, shown, clearing, clears>>

-----------------------------------------------------------------------------
\* Mutant of EntriesSince: the entry the cursor is at comes again.
EntriesFrom(at) == LET newer == SelectSeq(requestLog, LAMBDA e : e.sequence >= at) IN SubSeq(newer, 1, Least(Len(newer), MaxBatch))

EntriesSince(at) == LET newer == SelectSeq(requestLog, LAMBDA e : e.sequence > at) IN SubSeq(newer, 1, Least(Len(newer), MaxBatch))

(* refreshRequests, by the timer of the window.                             *)
RefreshRequests ==
    LET batch == EntriesSince(cursor) IN
    /\ batch # <<>>
    /\ cursor' = Last(batch).sequence /\ shown' = shown \o batch
    /\ UNCHANGED <<socket, transfer, buffered, received, requestLog, nextSequence, clearing, clears>>

(* clearRequests: asked of the thread of the server, and when it has done it *)
(* the table is emptied and filled from what came since.                    *)
ClearRequests ==
    /\ clearing = "no" /\ clears < MaxClears /\ clearing' = "asked" /\ clears' = clears + 1
    /\ UNCHANGED <<socket, transfer, buffered, received, requestLog, nextSequence, cursor, shown>>

ClearRequestLog ==
    /\ clearing = "asked" /\ clearing' = "done" /\ requestLog' = <<>>
    /\ UNCHANGED <<socket, transfer, buffered, received, nextSequence, cursor, shown, clears>>

RequestsCleared ==
    LET batch == EntriesSince(0) IN
    /\ clearing = "done" /\ clearing' = "no"
    /\ shown' = batch /\ cursor' = IF batch = <<>> THEN 0 ELSE Last(batch).sequence
    /\ UNCHANGED <<socket, transfer, buffered, received, requestLog, nextSequence, clears>>

ConnectionsNext ==
    \/ \E c \in Clients : \/ Connect(c) \/ AcceptConnection(c) \/ ReadRequest(c) \/ ExpireConnection(c)
                          \/ ContinueFileTransfer(c) \/ Abort(c) \/ ReleaseSocket(c)
    \/ RefreshRequests \/ ClearRequests \/ ClearRequestLog \/ RequestsCleared

(* The loop of the thread, the deadline, and clients that read what they get. *)
ConnectionsFairness ==
    \A c \in Clients : /\ WF_connectionVars(AcceptConnection(c)) /\ WF_connectionVars(ExpireConnection(c))
                       /\ WF_connectionVars(ContinueFileTransfer(c)) /\ WF_connectionVars(ReleaseSocket(c))

-----------------------------------------------------------------------------
(* A client whose connection is closed, and not aborted, has all of the file  *)
(* it was promised, and what is buffered for it passes the limit by less than  *)
(* a chunk (writeFileChunks, which looks at the limit before each whole chunk). *)
FilesArriveWhole ==
    \A c \in Clients : /\ socket[c] = "gone" => received[c].got = received[c].of
                       /\ socket[c] = "sending" => received[c].got + buffered[c] + transfer[c] = received[c].of
                       /\ buffered[c] < MaxBuffered + ChunkSize

(* The table shows each request once, in their order, whatever the log let go *)
(* of and whoever cleared it between two looks (entriesSince, clearRequests).  *)
RequestsAreShownOnce ==
    \A i \in 1..Len(shown)-1 : shown[i].sequence < shown[i + 1].sequence

(* A connection that was accepted gives its place back, whether its request   *)
(* ends or not, as long as its client reads what it is sent.                *)
PlacesAreGivenBack == \A c \in Clients : (socket[c] # "none") ~> (c \notin Accepted /\ socket[c] # "queued")
=============================================================================
