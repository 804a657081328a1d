------------------------------ MODULE AiSettings ------------------------------
(***************************************************************************)
(* What the assistant is set to (ai/AiPlugin.cpp, ai/AiTaskRepository.cpp):  *)
(* the connections to models, the agents that work over them, the pace and   *)
(* the rest, one document that the plugin changes at once in memory and       *)
(* stores behind the window.  What the catalog of a release knows and can     *)
(* use is ProviderCatalog's.                                               *)
(*                                                                         *)
(* A save waits for its turn with the worker, is written or fails, and its  *)
(* result is posted.  One that is done before QFuture::then looks for its    *)
(* result is heard of at once, ahead of the results that are posted.        *)
(***************************************************************************)
EXTENDS Integers, SequencesExt

CONSTANTS
    Releases,       \* the releases that may start
    Loading,        \* those whose catalog loads
    Usable,         \* the connections validateConnection takes, of each
    Providers,      \* the providers each knows
    Documents,      \* settings that may be stored, by this release or another
    Selections,     \* the lists of connections the user may make
    Crews,          \* the sets of agents the user may make
    Paces,          \* the limits the user may set
    Sections,       \* the values of search, speech, servers and execution he may set
    Runs,           \* the tasks of agents: the agent of each
    MaxSaves,       \* bound: saves
    MaxFaults       \* bound: saves that fail, and restarts

VARIABLES
    release,        \* the release that runs; whether the plugin came up with it
    up,
    settings, committed, revision, committedRevision,
    saves,          \* on their way: what is saved, of which revision, by what, whose agent went, and
                    \* whether it is "queued", "written" or has "failed"
    stored,         \* the document
    told,           \* what the gate and the tools were told last
    clients,        \* the servers whose clients run
    running,        \* the tasks that run
    failed,         \* history: a save failed since the start
    overtaken,      \* history: the last save failed, and was heard of before a success was
    saved, faults   \* bounds

settingsVars == <<release, up, settings, committed, revision, committedRevision, saves, stored, told, clients,
                  running, failed, overtaken, saved, faults>>

-----------------------------------------------------------------------------
(* Connections: at most one for a provider and a model.                      *)
ConnectionKey(c) == <<c.provider, c.model>>
FindConnection(cs, key) == {c \in ToSet(cs) : ConnectionKey(c) = key}

Connections == UNION {ToSet(cs) : cs \in Selections}

ValidateConnection(c) == c \in Usable[release]

ValidateConnectionSet(cs) ==
    /\ \A i \in DOMAIN cs : ValidateConnection(cs[i])
    /\ \A i, j \in DOMAIN cs : ConnectionKey(cs[i]) = ConnectionKey(cs[j]) => i = j

-----------------------------------------------------------------------------
(* The document, and what is read of it: what a release cannot use is left   *)
(* out, entry by entry, and of two with one name the second.                 *)
Kept(entries, fits(_), key(_)) ==
    LET good == SelectSeq(entries, fits)
        first == SelectSeq([i \in DOMAIN good |-> i], LAMBDA i : \A j \in 1..i-1 : key(good[j]) # key(good[i])) IN
    [k \in DOMAIN first |-> good[first[k]]]

ValidateAgent(a) == a.named /\ a.key # "" /\ a.tags \subseteq {"task", "tools"}
FindAgent(as, id) == {a \in ToSet(as) : a.id = id}

ValidateAgentSet(as, cs) ==
    /\ \A i \in DOMAIN as : ValidateAgent(as[i]) /\ FindConnection(cs, as[i].key) # {}
    /\ \A i, j \in DOMAIN as : as[i].id = as[j].id => i = j

ValidateLimit(limit) == limit.provider \in Providers[release] /\ limit.pace >= 0
ValidateServer(server) == server.address /\ server.tokens >= 0

NoConnection == <<"", "">>
Declared == [connections |-> <<>>, default |-> NoConnection, servers |-> <<>>, limits |-> <<>>, agents |-> <<>>,
             execution |-> 0, search |-> "first", speech |-> "first"]

ExecutionFrom(document) == IF document.execution >= 0 THEN document.execution ELSE Declared.execution
SearchFrom(document) == IF document.search \in {"first", "second"} THEN document.search ELSE Declared.search
SpeechFrom(document) == IF document.speech \in {"first", "second"} THEN document.speech ELSE Declared.speech

\* Mutant of AgentsFrom: an agent is kept whose connection is not.
AgentsFromAlone(agents, connections) == Kept(agents, ValidateAgent, LAMBDA a : a.id)

AgentsFrom(agents, connections) ==
    Kept(agents, LAMBDA a : ValidateAgent(a) /\ FindConnection(connections, a.key) # {}, LAMBDA a : a.id)

Read(document) ==
    LET connections == Kept(document.connections, ValidateConnection, ConnectionKey) IN
    [connections |-> connections,
     default |-> IF FindConnection(connections, document.default) = {} THEN NoConnection ELSE document.default,
     servers |-> SelectSeq(document.servers, ValidateServer),
     limits |-> Kept(document.limits, ValidateLimit, LAMBDA l : l.provider),
     agents |-> AgentsFrom(document.agents, connections),
     execution |-> ExecutionFrom(document), search |-> SearchFrom(document), speech |-> SpeechFrom(document)]

-----------------------------------------------------------------------------
Told(s) == [limits |-> s.limits, search |-> s.search]

(* initialize: with a catalog that does not load the plugin stays down.      *)
Started(r) ==
    /\ release' = r /\ up' = (r \in Loading)
    /\ settings' = IF up' THEN Read(stored)' ELSE Declared
    /\ committed' = settings' /\ revision' = 0 /\ committedRevision' = 0 /\ saves' = <<>>
    /\ told' = Told(settings') /\ clients' = settings'.servers /\ running' = {}
    /\ failed' = FALSE /\ overtaken' = FALSE

SettingsInit ==
    /\ release \in Releases /\ up = (release \in Loading)
    /\ stored \in Documents
    /\ settings = IF up THEN Read(stored) ELSE Declared
    /\ committed = settings /\ revision = 0 /\ committedRevision = 0 /\ saves = <<>>
    /\ told = Told(settings) /\ clients = settings.servers /\ running = {}
    /\ failed = FALSE /\ overtaken = FALSE /\ saved = 0 /\ faults = 0

(* What is on its way is written or not, in order.                           *)
Queued == {i \in DOMAIN saves : saves[i].is = "queued"}

Restart ==
    /\ faults < MaxFaults /\ faults' = faults + 1 /\ UNCHANGED saved
    /\ \E written \in Queued \cup {0}, r \in Releases :
         /\ stored' = IF written = 0 THEN stored ELSE saves[written].candidate
         /\ Started(r)

-----------------------------------------------------------------------------
\* Mutant of Reverts: whatever was set since goes with a save that fails.
RevertsAnyhow(save) == TRUE

(* A save that fails takes memory back, unless a later one was made.          *)
Reverts(save) == save.revision = revision'

\* Mutant of Orphaned: only what its save found, whatever the agents are now.
OrphanedNever(save) == {}

Orphaned(save) == {t \in save.orphans : FindAgent(settings'.agents, Runs[t]) = {}}

\* Mutant of Refreshed: the gate is told of what was saved only.
RefreshedWhenSaved(ok) == told' = IF ok THEN Told(settings') ELSE told

Refreshed(ok) == told' = Told(settings')

(* The continuation of a save, with what is set by then.                      *)
Heard(save, ok, set) ==
    /\ IF ok /\ save.revision > committedRevision
       THEN committed' = save.candidate /\ committedRevision' = save.revision
       ELSE UNCHANGED <<committed, committedRevision>>
    /\ settings' = IF ~ok /\ Reverts(save) THEN committed ELSE set
    /\ Refreshed(ok)
    /\ clients' = IF ok /\ save.by = "servers" THEN settings'.servers ELSE clients
    /\ running' = IF ok /\ save.by = "agents" THEN running \ Orphaned(save) ELSE running

(* The worker: the first of what is queued.                                  *)
Writes(ok) ==
    IF ok THEN UNCHANGED <<failed, faults>>
    ELSE faults < MaxFaults /\ faults' = faults + 1 /\ failed' = TRUE

SaveWritten ==
    \E i \in Queued, ok \in BOOLEAN :
       /\ \A j \in Queued : i <= j
       /\ Writes(ok)
       /\ saves' = [saves EXCEPT ![i].is = IF ok THEN "written" ELSE "failed"]
       /\ stored' = IF ok THEN saves[i].candidate ELSE stored
       /\ UNCHANGED <<release, up, settings, committed, revision, committedRevision, told, clients, running, overtaken, saved>>

(* persistSettings: memory first, the document when its turn comes.  Where    *)
(* nothing waits before it, the worker may be done before then is called.    *)
AwaitsItsTurn(save) ==
    /\ settings' = save.candidate /\ saves' = Append(saves, save) /\ overtaken' = FALSE
    /\ UNCHANGED <<committed, committedRevision, stored, told, clients, running, failed, faults>>

IsDoneAtOnce(save) ==
    /\ Queued = {}
    /\ \E ok \in BOOLEAN :
         /\ Writes(ok)
         /\ Heard(save, ok, save.candidate)
         /\ stored' = IF ok THEN save.candidate ELSE stored
         /\ overtaken' = (~ok /\ \E i \in DOMAIN saves : saves[i].is = "written")
         /\ UNCHANGED saves

Persist(next, by, orphans) ==
    LET save == [candidate |-> next, revision |-> revision + 1, by |-> by, orphans |-> orphans, is |-> "queued"] IN
    /\ up /\ saved < MaxSaves /\ saved' = saved + 1
    /\ revision' = revision + 1
    /\ AwaitsItsTurn(save) \/ IsDoneAtOnce(save)
    /\ UNCHANGED <<release, up>>

(* The event loop delivers the first posted result.                          *)
Answered ==
    /\ saves # <<>> /\ Head(saves).is # "queued"
    /\ saves' = Tail(saves) /\ UNCHANGED revision
    /\ Heard(Head(saves), Head(saves).is = "written", settings)
    /\ UNCHANGED <<release, up, stored, failed, overtaken, saved, faults>>

-----------------------------------------------------------------------------
SaveConnections ==
    \E cs \in Selections :
       /\ ValidateConnectionSet(cs)
       /\ \A a \in ToSet(settings.agents) : FindConnection(cs, a.key) # {}
       /\ \E default \in {NoConnection} \cup {ConnectionKey(c) : c \in ToSet(cs)} :
            Persist([settings EXCEPT !.connections = cs, !.default = default], "connections", {})

\* Mutant of Follows: the agents stay with the key that was.
FollowsNobody(s, previous, key) == [s EXCEPT !.default = IF @ = previous THEN key ELSE @]

Follows(s, previous, key) ==
    [s EXCEPT !.default = IF @ = previous THEN key ELSE @,
              !.agents = [k \in DOMAIN @ |-> IF @[k].key = previous THEN [@[k] EXCEPT !.key = key] ELSE @[k]]]

ReplaceConnection ==
    \E c \in Connections, previous \in {ConnectionKey(k) : k \in ToSet(settings.connections)} :
       LET cs == [k \in DOMAIN settings.connections |->
                    IF ConnectionKey(settings.connections[k]) = previous THEN c ELSE settings.connections[k]] IN
       /\ ValidateConnectionSet(cs)
       /\ Persist(Follows([settings EXCEPT !.connections = cs], previous, ConnectionKey(c)), "connections", {})

SaveAgents ==
    \E crew \in Crews :
       /\ ValidateAgentSet(crew, settings.connections)
       /\ Persist([settings EXCEPT !.agents = crew], "agents", {t \in DOMAIN Runs : FindAgent(crew, Runs[t]) = {}})

SaveRateLimits ==
    \E limits \in Paces :
       /\ \A i \in DOMAIN limits : ValidateLimit(limits[i])
       /\ \A i, j \in DOMAIN limits : limits[i].provider = limits[j].provider => i = j
       /\ Persist([settings EXCEPT !.limits = limits], "limits", {})

SaveSearchSettings == \E v \in Sections.search : Persist([settings EXCEPT !.search = v], "search", {})
SaveSpeechSettings == \E v \in Sections.speech : Persist([settings EXCEPT !.speech = v], "speech", {})
SaveMcpServers == \E v \in Sections.servers : Persist([settings EXCEPT !.servers = v], "servers", {})

SaveExecutionSettings ==
    \E v \in Sections.execution : v >= 0 /\ Persist([settings EXCEPT !.execution = v], "execution", {})

(* startAgentExecution, which needs the agent and its connection; and the end. *)
StartRun ==
    \E t \in DOMAIN Runs :
       /\ up /\ t \notin running
       /\ \E a \in FindAgent(settings.agents, Runs[t]) : FindConnection(settings.connections, a.key) # {}
       /\ running' = running \cup {t}
       /\ UNCHANGED <<release, up, settings, committed, revision, committedRevision, saves, stored, told, clients, failed,
                      overtaken, saved, faults>>

EndRun ==
    \E t \in running :
       /\ running' = running \ {t}
       /\ UNCHANGED <<release, up, settings, committed, revision, committedRevision, saves, stored, told, clients, failed,
                      overtaken, saved, faults>>

SettingsNext ==
    \/ SaveConnections \/ ReplaceConnection \/ SaveAgents \/ SaveRateLimits
    \/ SaveSearchSettings \/ SaveSpeechSettings \/ SaveMcpServers \/ SaveExecutionSettings
    \/ SaveWritten \/ Answered \/ Restart \/ StartRun \/ EndRun

-----------------------------------------------------------------------------
(* Whatever is saved, refused, lost or read by another release, every agent  *)
(* has its connection, the default is one of them or none, and nothing is     *)
(* set twice: a run never meets an agent that names nothing.                  *)
SettingsAreWhole ==
    up => /\ ValidateConnectionSet(settings.connections)
          /\ ValidateAgentSet(settings.agents, settings.connections)
          /\ settings.default = NoConnection \/ FindConnection(settings.connections, settings.default) # {}
          /\ \A i, j \in DOMAIN settings.limits : settings.limits[i].provider = settings.limits[j].provider => i = j

(* With no save on its way, what a failure goes back to is what the next     *)
(* start reads, and so is what is in force, however many saves crossed and   *)
(* whichever of them failed: unless the last of them failed and was heard of *)
(* before the success of one that is stored.                               *)
WhatIsSetIsStored ==
    up /\ saves = <<>> => committed = Read(stored) /\ (settings = committed \/ overtaken)

(* What is in force is what the gate and the tools go by; while no save fails, the    *)
(* servers' clients are the ones that are set.                               *)
PaceIsTheSetOne ==
    up /\ saves = <<>> =>
       /\ told = Told(settings)
       /\ ~failed => clients = settings.servers

(* While no save fails, no task runs on without its agent once the save that  *)
(* removed it is done.                                                     *)
RunsHaveTheirAgent ==
    ~failed /\ saves = <<>> => \A t \in running : FindAgent(settings.agents, Runs[t]) # {}

=============================================================================
