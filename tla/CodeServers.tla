----------------------------- MODULE CodeServers -----------------------------
(***************************************************************************)
(* The language servers of a workspace in the code editor                    *)
(* (plugins/code-editor/CodeWorkspaceView.cpp, and what CodeEditorPlugin      *)
(* finds installed), which are two machines beside each other.               *)
(*                                                                         *)
(* CodeServersNext: the clients and the problems they report.  A client is    *)
(* made by the first document that needs one, leaves when the reader turns    *)
(* servers off or another program is found, and takes its time to end.  There *)
(* is one language; what is said between a client and its process is in       *)
(* LanguageServerClient.                                                   *)
(*                                                                         *)
(* AssistNext: what a document asks a ready server about the place of the      *)
(* cursor, and what its editor makes of the answers (LanguageServerClient.cpp, *)
(* CodeDocument.cpp, CodeEditorWidget.cpp): completions with the list they are *)
(* chosen from and the documentation beside it, hovers, signatures,           *)
(* highlights, symbols, tokens and diagnostics.  What an answer says is left   *)
(* out; a list of proposals is known by the request it answers, and            *)
(* documentation by the list it was asked about.                            *)
(***************************************************************************)
EXTENDS Naturals, Sequences

CONSTANTS
    Programs,       \* the executables that may be found for the language
    Paths,          \* the files of the workspace
    MaxClients,     \* bound: clients made
    MaxChanges,      \* bound: what the reader and the machine change
    Kinds,          \* what is asked of a place: "completion", "hover" and the like
    Decoded,        \* the kinds whose answers are decoded on other threads
    Offered,        \* what applyCapabilities read the server can do
    Rows,           \* the rows of a list of proposals, from 0
    MaxRequests     \* bound: requests sent

VARIABLES
    enabled,        \* m_settings.languageServersEnabled
    found,          \* m_languageServers of the plugin
    discovering,    \* what the discovery on its way has found, or Nothing
    available,      \* m_availableLanguageServers of the view
    server,         \* m_languageServers.value(language), 0 for none
    clients,        \* every client made: [program, state]
    attached,       \* open file -> m_languageServer of its document
    diagnostics,    \* m_diagnostics of the language: the files with problems
    panel,          \* the files in m_problems
    reported,       \* history: the files the workspace's server says have problems
    changes,         \* bound
    pending,        \* the tables of requests, as one: [id, kind, row, about]
    answering,         \* requests the server has still to answer
    decodes,        \* answers that are being decoded
    lastAsked,      \* history: kind -> the newest request of it
    stale,          \* history: kinds of which a superseded answer was shown
    list,           \* m_proposals, by the request it answers; 0 for none
    docs,           \* row -> the list its documentation is about, 0 for none
    popup,          \* the list is visible
    row,            \* its current row
    lastId          \* m_nextRequestId

serversVars == <<enabled, found, discovering, available, server, clients, attached, diagnostics, panel, reported, changes>>

NoProgram == "none"
Nothing == "nothing"

CodeServersInit ==
    /\ enabled = TRUE /\ found = NoProgram /\ discovering = Nothing /\ available = NoProgram
    /\ server = 0 /\ clients = <<>> /\ attached = <<>>
    /\ diagnostics = {} /\ panel = {} /\ reported = {} /\ changes = 0

MayChange == changes < MaxChanges /\ changes' = changes + 1

State(c) == IF c = 0 THEN "none" ELSE clients[c].state

(* languageServer: the client the workspace has, or a new one of the program   *)
(* there is, for documents that need it.                                    *)
Provide(current, program, needed) ==
    IF current = 0 /\ program # NoProgram /\ needed
    THEN /\ Len(clients) < MaxClients
         /\ server' = Len(clients) + 1 /\ reported' = {}
    ELSE server' = current /\ reported' = IF current = server THEN reported ELSE {}

WithNew(made, program) ==
    IF server' > Len(made) THEN Append(made, [program |-> program, state |-> "running"]) ELSE made

(* setLanguageServers: a client whose program is not there any more leaves; the *)
(* documents are given what there is now; then the one that left is stopped.   *)
Leaves(program) == server # 0 /\ clients[server].program # program

\* Mutant of Attached: a document keeps the client it has.
AttachedOnce(files) == [p \in files |-> IF p \in DOMAIN attached /\ attached[p] # 0 THEN attached[p] ELSE server']

Attached(files) == [p \in files |-> server']

SetLanguageServers(program) ==
    LET left == Leaves(program)
        others == IF left THEN [clients EXCEPT ![server].state = "stopping"] ELSE clients
    IN /\ Provide(IF left THEN 0 ELSE server, program, attached # <<>>)
       /\ clients' = WithNew(others, program)
       /\ available' = program
       /\ attached' = Attached(DOMAIN attached)
       /\ panel' = IF program = NoProgram THEN {} ELSE panel
       /\ UNCHANGED diagnostics

Active(on, program) == IF on THEN program ELSE NoProgram

SetLanguageServersEnabled ==
    /\ MayChange /\ enabled' = ~enabled
    /\ SetLanguageServers(Active(~enabled, found))
    /\ UNCHANGED <<found, discovering>>

(* refreshLanguageServers: one discovery at a time, on another thread.        *)
RefreshLanguageServers ==
    /\ MayChange /\ discovering = Nothing
    /\ \E p \in Programs \cup {NoProgram} : discovering' = p
    /\ UNCHANGED <<enabled, found, available, server, clients, attached, diagnostics, panel, reported>>

Discovered ==
    /\ discovering # Nothing /\ discovering' = Nothing /\ found' = discovering
    /\ SetLanguageServers(Active(enabled, discovering))
    /\ UNCHANGED <<enabled, changes>>

-----------------------------------------------------------------------------
(* A document is loaded, and closed.                                        *)
OpenDocument ==
    /\ MayChange
    /\ \E p \in Paths \ DOMAIN attached :
         /\ Provide(server, available, TRUE) /\ clients' = WithNew(clients, available)
         /\ attached' = [q \in DOMAIN attached \cup {p} |-> IF q = p THEN server' ELSE attached[q]]
    /\ UNCHANGED <<enabled, found, discovering, available, diagnostics, panel>>

CloseDocument ==
    /\ \E p \in DOMAIN attached : attached' = [q \in DOMAIN attached \ {p} |-> attached[q]]
    /\ UNCHANGED <<enabled, found, discovering, available, server, clients, diagnostics, panel, reported, changes>>

(* updateDocumentPaths: the document starts over under its new name, and the   *)
(* rows of the panel are renamed.                                           *)
RenameDocument ==
    /\ MayChange
    /\ \E from \in DOMAIN attached, to \in Paths \ DOMAIN attached :
         /\ Provide(server, available, TRUE) /\ clients' = WithNew(clients, available)
         /\ attached' = [q \in (DOMAIN attached \ {from}) \cup {to} |-> IF q = to THEN server' ELSE attached[q]]
         /\ panel' = IF from \in panel THEN (panel \ {from}) \cup {to} ELSE panel
    /\ UNCHANGED <<enabled, found, discovering, available, diagnostics>>

-----------------------------------------------------------------------------
(* updateDiagnostics: what a client of the language says of a file, until it    *)
(* has ended.                                                               *)
Publish ==
    /\ \E c \in DOMAIN clients, p \in Paths, problems \in BOOLEAN :
         /\ clients[c].state # "ended"
         /\ diagnostics' = IF problems THEN diagnostics \cup {p} ELSE diagnostics \ {p}
         /\ panel' = IF diagnostics' = diagnostics THEN panel ELSE diagnostics'
         /\ diagnostics' # diagnostics \/ (c = server /\ problems # (p \in reported))
         /\ reported' = IF c # server THEN reported
                        ELSE IF problems THEN reported \cup {p} ELSE reported \ {p}
    /\ UNCHANGED <<enabled, found, discovering, available, server, clients, attached, changes>>

(* refreshProblems, when the reader narrows the panel and widens it again.     *)
FilterProblems ==
    /\ panel # diagnostics /\ panel' = diagnostics
    /\ UNCHANGED <<enabled, found, discovering, available, server, clients, attached, diagnostics, reported, changes>>

\* Mutant of Released: the workspace keeps a client that gave up.
ReleasedNever(c) == server' = server /\ reported' = reported

(* stopped: a client has ended, as it was asked to or because it gave up, and   *)
(* what its language had reported goes with it; QPointers to it are null.      *)
Released(c) ==
    /\ server' = IF server = c THEN 0 ELSE server
    /\ reported' = IF server = c THEN {} ELSE reported

Stopped ==
    /\ \E c \in DOMAIN clients :
         /\ clients[c].state = "stopping" \/ (clients[c].state = "running" /\ MayChange)
         /\ clients[c].state = "stopping" => UNCHANGED changes
         /\ clients' = [clients EXCEPT ![c].state = "ended"]
         /\ Released(c)
         /\ attached' = [p \in DOMAIN attached |-> IF attached[p] = c THEN 0 ELSE attached[p]]
    /\ diagnostics' = {} /\ panel' = IF diagnostics = {} THEN panel ELSE {}
    /\ UNCHANGED <<enabled, found, discovering, available>>

CodeServersNext ==
    \/ SetLanguageServersEnabled \/ RefreshLanguageServers \/ Discovered
    \/ OpenDocument \/ CloseDocument \/ RenameDocument
    \/ Publish \/ FilterProblems \/ Stopped

-----------------------------------------------------------------------------
(* An open document speaks to the server of its workspace or to none, and the  *)
(* workspace has no client that ended or that it is stopping, so nothing is    *)
(* said to one that will not answer (languageServer, setLanguageServers).     *)
DocumentsFollowTheServer ==
    /\ State(server) \in {"none", "running"}
    /\ \A p \in DOMAIN attached : attached[p] \in {0, server}

(* "An empty answer for a file is the server saying it has nothing left to      *)
(* report there, which is how a fixed problem disappears"                    *)
(* (CodeWorkspaceView.cpp:982): what its server reports stays in the list.     *)
ProblemsStayReported == server # 0 => reported \subseteq diagnostics

-----------------------------------------------------------------------------
assistVars == <<pending, answering, decodes, lastAsked, stale, list, docs, popup, row, lastId>>
editor == <<list, docs, popup, row>>

Undocumented == [r \in Rows |-> 0]

AssistInit ==
    /\ pending = {} /\ answering = {} /\ decodes = {} /\ lastId = 0
    /\ lastAsked = [k \in Kinds |-> 0] /\ stale = {}
    /\ list = 0 /\ docs = Undocumented /\ popup = FALSE /\ row = 0

\* Mutant of Superseded: documentation is asked for beside the one before.
SupersededAsked(kind) == {r \in pending : r.kind = kind /\ kind # "documentation"}

(* cancelPendingFor, requestCompletionDocumentation: what is asked again is     *)
(* cancelled at the server first, and forgotten.                            *)
Superseded(kind) == {r \in pending : r.kind = kind}

(* Nothing is asked that the server did not offer.                           *)
Supports(kind) == kind \in Offered

Sent(kind, forRow, about, waiting) ==
    IF ~Supports(kind) THEN pending' = waiting /\ UNCHANGED <<lastId, lastAsked>>
    ELSE LET request == [id |-> lastId + 1, kind |-> kind, row |-> forRow, about |-> about] IN
         /\ lastId < MaxRequests /\ lastId' = lastId + 1
         /\ pending' = (waiting \ Superseded(kind)) \cup {request}
         /\ lastAsked' = [k \in Kinds |-> IF k = kind THEN lastId' ELSE lastAsked[k]]

(* Completions are asked for as the reader types, the rest when the pointer    *)
(* rests or the cursor does.  A request that was cancelled may be answered all  *)
(* the same.                                                                *)
AskAt(kind) ==
    /\ Supports(kind) /\ Sent(kind, 0, 0, pending)
    /\ answering' = answering \cup pending'
    /\ UNCHANGED <<decodes, stale, editor>>

RequestCompletion == AskAt("completion")

RequestAnalysis == \E kind \in Kinds \ {"completion"} : AskAt(kind)

(* presentDocumentation: the highlighted row is asked about.                *)
Present(r, of, waiting) ==
    /\ row' = r
    /\ Sent("documentation", r, of, waiting)

HighlightRow ==
    /\ popup
    /\ \E r \in Rows \ {row} : Present(r, list, pending)
    /\ answering' = answering \cup pending'
    /\ UNCHANGED <<decodes, stale, list, docs, popup>>

(* keyPressEvent narrows the list, and hides it when nothing is left of it; a   *)
(* row is accepted, or the list dismissed.                                  *)
HideCompletions ==
    /\ popup /\ popup' = FALSE
    /\ UNCHANGED <<pending, answering, decodes, lastAsked, stale, list, docs, row, lastId>>

(* showCompletions: nothing to offer, or nothing that fits what stands before   *)
(* the cursor, hides the list; otherwise its first row is presented.          *)
ShowCompletions(request, waiting) ==
    /\ docs' = Undocumented
    /\ \/ /\ list' \in {0, request.id} /\ popup' = FALSE
          /\ pending' = waiting /\ UNCHANGED <<row, lastId, lastAsked>>
       \/ list' = request.id /\ popup' = TRUE /\ Present(0, request.id, waiting)

Shown(request) ==
    stale' = IF request.kind \in Kinds /\ request.id # lastAsked[request.kind] THEN stale \cup {request.kind} ELSE stale

(* Documentation is handed to the row that it was asked for.                 *)
SetDocumentation(request, waiting) ==
    /\ docs' = IF list = 0 THEN docs ELSE [docs EXCEPT ![request.row] = request.about]
    /\ pending' = waiting /\ UNCHANGED <<list, popup, row, lastId, lastAsked>>

Deliver(request, waiting) ==
    CASE request.kind = "completion" -> ShowCompletions(request, waiting)
      [] request.kind = "documentation" -> SetDocumentation(request, waiting)
      [] OTHER -> pending' = waiting /\ UNCHANGED <<editor, lastId, lastAsked>>

(* handleResponse: an answer to what is in no table is dropped; some are        *)
(* decoded on another thread first, whatever is asked meanwhile.              *)
Answered ==
    /\ \E r \in answering :
         LET left == pending \ {r} IN
         IF r \notin pending
         THEN answering' = answering \ {r} /\ UNCHANGED <<pending, decodes, lastAsked, stale, editor, lastId>>
         ELSE IF r.kind \in Decoded
         THEN /\ answering' = answering \ {r} /\ pending' = left /\ decodes' = decodes \cup {r}
              /\ UNCHANGED <<lastAsked, stale, editor, lastId>>
         ELSE /\ Deliver(r, left) /\ Shown(r)
              /\ answering' = (answering \ {r}) \cup pending' /\ UNCHANGED decodes

DecodedReady ==
    /\ \E r \in decodes :
         /\ decodes' = decodes \ {r}
         /\ Deliver(r, pending) /\ Shown(r)
         /\ answering' = answering \cup pending'

AssistNext == RequestCompletion \/ RequestAnalysis \/ HighlightRow \/ HideCompletions \/ Answered \/ DecodedReady

-----------------------------------------------------------------------------
(* The documentation beside a visible list is about its own rows, though the    *)
(* answers name a row and the lists change under them (setCompletionDocumentation). *)
DocumentationFitsTheList == popup => \A r \in Rows : docs[r] \in {0, list}

(* "A superseded position request is cancelled at the answering, so its answer      *)
(* never reaches a cursor that has already moved"                            *)
(* (LanguageServerClient.cpp:319).                                          *)
SupersededAreNotShown == stale = {}
=============================================================================
