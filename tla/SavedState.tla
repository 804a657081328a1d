---------------------------- MODULE SavedState ----------------------------
(***************************************************************************)
(* State that is shown at once and saved behind: the settings of the        *)
(* application (app/ApplicationSettingsStore.cpp) and those of the plugins, *)
(* the tabs and bookmarks of the browser, each with the same protocol over  *)
(* the one worker of persistence/DatabaseExecutor.cpp.  A change is shown   *)
(* and submitted, the worker executes what was submitted in its order, and  *)
(* the result comes back to the thread of the window: a success makes the   *)
(* value the committed one, a failure of the newest save goes back to it.   *)
(*                                                                         *)
(* A value is the number of the save that carried it, 0 for what the start  *)
(* read.  The result of a future that finished before QFuture::then saw it  *)
(* is delivered by then itself, ahead of results that were posted before;   *)
(* any other is posted, and posted results are delivered in their order.    *)
(***************************************************************************)
EXTENDS Integers, Sequences

CONSTANTS
    Owners,        \* owner_id of plugin_settings, and the tables of a plugin
    Counting,      \* owners that know the revision they committed last
    Loud,          \* owners that tell of every failure, of a newest one or not
    MaxSaves,      \* bound: changes of one owner between two starts
    MaxTroubles,   \* bound: saves that fail
    MaxStarts      \* bound: starts of the application

ASSUME SavesAssumption ==
    /\ Counting \subseteq Owners /\ Loud \subseteq Owners
    /\ MaxSaves \in Nat /\ MaxTroubles \in Nat /\ MaxStarts \in Nat

VARIABLES
    phase,       \* "running", "stopping": the worker finishes, or "stopped"
    shown,       \* m_settings
    revision,    \* m_revision
    committed,   \* m_committedSettings, which is also m_committedRevision
    told,        \* saves whose failure was told
    stored,      \* what the database holds
    queue,       \* calls posted to the worker
    attaching,   \* the future of a save between submit and then
    posted,      \* results posted to the thread of the window
    troubles, starts

stores == <<shown, revision, committed, told>>
bounds == <<troubles, starts>>
vars == <<phase, stores, stored, queue, attaching, posted, bounds>>

Save == [owner : Owners, revision : 1..MaxSaves]
Result == [owner : Owners, revision : 1..MaxSaves, ok : BOOLEAN]
Nothing == [save |-> <<>>, result |-> <<>>]

Fresh == [o \in Owners |-> 0]

(* ApplicationSettingsStore::initialize: what is stored is what is shown.   *)
Begun ==
    /\ phase' = "running"
    /\ shown' = Fresh /\ revision' = Fresh /\ committed' = Fresh /\ stored' = Fresh
    /\ told' = [o \in Owners |-> {}]

Init ==
    /\ phase = "running"
    /\ shown = Fresh /\ revision = Fresh /\ committed = Fresh /\ stored = Fresh
    /\ told = [o \in Owners |-> {}]
    /\ queue = <<>> /\ attaching = Nothing /\ posted = <<>>
    /\ troubles = 0 /\ starts = 1

-----------------------------------------------------------------------------
(* save: the value is shown and submitted.  The worker may begin with it,   *)
(* and end, before the result has somewhere to go.                          *)
Change(o) ==
    LET save == [owner |-> o, revision |-> revision[o] + 1] IN
    /\ phase = "running" /\ attaching = Nothing /\ revision[o] < MaxSaves
    /\ revision' = [revision EXCEPT ![o] = @ + 1]
    /\ shown' = [shown EXCEPT ![o] = revision[o] + 1]
    /\ queue' = Append(queue, save)
    /\ attaching' = [save |-> <<save>>, result |-> <<>>]
    /\ UNCHANGED <<phase, committed, told, stored, posted, bounds>>

(* DatabaseWorker: the next call.  Its result is posted where then asked    *)
(* for it, and waits in the future where it did not.                        *)
Execute(ok) ==
    LET save == Head(queue)
        result == [owner |-> save.owner, revision |-> save.revision, ok |-> ok]
    IN
    /\ queue # <<>>
    /\ ~ok => troubles < MaxTroubles
    /\ troubles' = IF ok THEN troubles ELSE troubles + 1
    /\ stored' = IF ok THEN [stored EXCEPT ![save.owner] = save.revision] ELSE stored
    /\ queue' = Tail(queue)
    /\ IF attaching = [save |-> <<save>>, result |-> <<>>]
       THEN attaching' = [save |-> <<save>>, result |-> <<result>>] /\ UNCHANGED posted
       ELSE /\ posted' = IF phase = "running" THEN Append(posted, result) ELSE posted
            /\ UNCHANGED attaching
    /\ UNCHANGED <<phase, stores, starts>>

-----------------------------------------------------------------------------
\* Mutants of Commits: a result is taken to be newer than the one before; the
\* number that is kept is the one the next save will have.
CommitsLast(o, r) == r
CommitsNext(o, r) == r + 1

(* A save that succeeded is committed unless a later one was.  The terminal *)
(* (TerminalSettingsStore::apply) and the homepage of the browser do not    *)
(* look: they commit what they hear of last.                                *)
Commits(o, r) == IF o \in Counting /\ r < committed[o] THEN committed[o] ELSE r

Newest(s) == s.revision = revision[s.owner]

\* Mutant of Tells: a failure is told where it follows what is committed.
TellsInOrder(s) == s.revision = committed[s.owner] + 1

Tells(s) == Newest(s) \/ s.owner \in Loud

(* The continuation of a save: a failure of the newest goes back to what is *)
(* committed, and is told; a failure of an older one is told only by owners *)
(* that tell of each.                                                       *)
Finished(s) ==
    IF s.ok
    THEN /\ committed' = [committed EXCEPT ![s.owner] = Commits(s.owner, s.revision)]
         /\ UNCHANGED <<shown, revision, told>>
    ELSE /\ shown' = IF Newest(s) THEN [shown EXCEPT ![s.owner] = committed[s.owner]] ELSE shown
         /\ told' = IF Tells(s) THEN [told EXCEPT ![s.owner] = @ \cup {s.revision}] ELSE told
         /\ UNCHANGED <<revision, committed>>

(* QFuture::then: a result that is there is delivered at once.              *)
Attach ==
    /\ attaching # Nothing
    /\ attaching' = Nothing
    /\ IF attaching.result = <<>> THEN UNCHANGED stores ELSE Finished(Head(attaching.result))
    /\ UNCHANGED <<phase, stored, queue, posted, bounds>>

(* The event loop delivers the first posted result.                         *)
Deliver ==
    /\ phase = "running" /\ attaching = Nothing /\ posted # <<>>
    /\ posted' = Tail(posted)
    /\ Finished(Head(posted))
    /\ UNCHANGED <<phase, stored, queue, attaching, bounds>>

-----------------------------------------------------------------------------
(* Application::shutdown: the stores go, with the results on their way,     *)
(* then the executor, which waits for what was submitted.                   *)
Shutdown ==
    /\ phase = "running" /\ attaching = Nothing
    /\ phase' = "stopping" /\ posted' = <<>>
    /\ UNCHANGED <<stores, stored, queue, attaching, bounds>>

Stopped ==
    /\ phase = "stopping" /\ queue = <<>>
    /\ phase' = "stopped"
    /\ UNCHANGED <<stores, stored, queue, attaching, posted, bounds>>

Crash ==
    /\ phase # "stopped"
    /\ phase' = "stopped" /\ queue' = <<>> /\ attaching' = Nothing /\ posted' = <<>>
    /\ UNCHANGED <<stores, stored, bounds>>

Start ==
    /\ phase = "stopped" /\ starts < MaxStarts
    /\ Begun /\ starts' = starts + 1
    /\ UNCHANGED <<queue, attaching, posted, troubles>>

Next ==
    \/ \E o \in Owners : Change(o)
    \/ \E ok \in BOOLEAN : Execute(ok)
    \/ Attach \/ Deliver \/ Shutdown \/ Stopped \/ Crash \/ Start

Spec == Init /\ [][Next]_vars

-----------------------------------------------------------------------------
TypeOK ==
    /\ phase \in {"running", "stopping", "stopped"}
    /\ shown \in [Owners -> 0..MaxSaves] /\ revision \in [Owners -> 0..MaxSaves]
    /\ committed \in [Owners -> 0..MaxSaves] /\ stored \in [Owners -> 0..MaxSaves]
    /\ told \in [Owners -> SUBSET (1..MaxSaves)]
    /\ queue \in Seq(Save) /\ posted \in Seq(Result)
    /\ attaching \in [save : {<<>>} \cup {<<s>> : s \in Save},
                      result : {<<>>} \cup {<<r>> : r \in Result}]
    /\ troubles \in 0..MaxTroubles /\ starts \in Nat

(* Nothing of an owner is on its way to the worker or back.                 *)
Settled(o) ==
    /\ phase = "running" /\ attaching = Nothing
    /\ \A i \in DOMAIN queue : queue[i].owner # o
    /\ \A i \in DOMAIN posted : posted[i].owner # o

(* What a failure goes back to is what is stored, in whatever order the     *)
(* results of overlapping saves are delivered.                              *)
CommittedIsStored == \A o \in Counting : Settled(o) => committed[o] = stored[o]

(* A change that is not what the next start will read was reported.         *)
LostChangesAreTold ==
    \A o \in Owners : Settled(o) /\ stored[o] # revision[o] => revision[o] \in told[o]

(* tests/core/CoreTests.cpp:704, "a memory that disagrees with storage is a *)
(* lie that start discovers".  It does not hold: see the project's README.   *)
MemoryAgreesWithStorage == \A o \in Owners : Settled(o) => shown[o] = stored[o]
=============================================================================
