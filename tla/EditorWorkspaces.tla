-------------------------- MODULE EditorWorkspaces --------------------------
(***************************************************************************)
(* The folders the code editor has open and the files open in them: what     *)
(* CodeEditorPlugin keeps and saves, the tabs CodeEditorView shows of it, and *)
(* the files each CodeWorkspaceView has open while entries of its folder are  *)
(* created, moved and removed behind it.                                    *)
(*                                                                         *)
(* A file is a name in a folder.  What a document holds of its file is in      *)
(* CodeDocument, its language server in LanguageServerClient.                    *)
(***************************************************************************)
EXTENDS Naturals, SequencesExt

CONSTANTS
    Folders,        \* the folders that may be opened
    Files,          \* the names of files in them
    Renames,        \* whether entries are renamed
    MaxChanges,     \* bound: what the reader does
    MaxFaults       \* bound: writes that fail

VARIABLES
    running,        \* the plugin is initialized
    workspaces,     \* m_workspaces: [root, documents, active] by position
    committed,      \* m_committedWorkspaces
    stored,         \* what the database holds
    revision, persisted,    \* m_stateRevision and m_persistedRevision
    timer,          \* m_persistenceTimer is active
    writes,         \* transactions on their way: [what, of, told]
    tabs,           \* the workspaces the view shows, in order
    documents,      \* root -> the files its view has open: [path, dirty]
    disk,           \* the files there are: <<root, file>>
    entries,        \* operations on entries that are not answered yet
    lost,           \* history: unsaved text was dropped without a question
    changes, faults \* bounds

saving == <<committed, stored, persisted, writes>>
editorVars == <<running, workspaces, revision, timer, saving, tabs, documents, disk, entries, lost, changes, faults>>

Roots(list) == [i \in DOMAIN list |-> list[i].root]
At(list, root) == CHOOSE i \in DOMAIN list : list[i].root = root
Has(list, root) == \E i \in DOMAIN list : list[i].root = root
Activated(list, root) == [i \in DOMAIN list |-> [list[i] EXCEPT !.active = list[i].root = root]]

PathsOf(docs) == [i \in DOMAIN docs |-> docs[i].path]
IsOpen(root, file) == \E i \in DOMAIN documents[root] : documents[root][i].path = file
IsDirty(root) == \E i \in DOMAIN documents[root] : documents[root][i].dirty
Clean(path) == [path |-> path, dirty |-> FALSE]

(* validateState: what the database is asked to store.                       *)
Valid(list) ==
    /\ IsInjective(Roots(list))
    /\ \A i \in DOMAIN list : IsInjective(list[i].documents)
    /\ list # <<>> => \E i \in DOMAIN list : /\ list[i].active
                                             /\ \A j \in DOMAIN list \ {i} : ~list[j].active

EditorInit ==
    /\ running = TRUE /\ workspaces = <<>> /\ committed = <<>> /\ stored = <<>>
    /\ revision = 0 /\ persisted = 0 /\ timer = FALSE /\ writes = <<>>
    /\ tabs = <<>> /\ documents = [r \in Folders |-> <<>>] /\ disk = Folders \X Files /\ entries = {}
    /\ lost = FALSE /\ changes = 0 /\ faults = 0

MayChange == running /\ changes < MaxChanges /\ changes' = changes + 1

SchedulePersistence == revision' = revision + 1 /\ timer' = TRUE

(* synchronizeWorkspaces: views that have no workspace any more are removed,  *)
(* with what their documents held; new ones open the files that are there.    *)
Restored(w) == [i \in DOMAIN SelectSeq(w.documents, LAMBDA f : <<w.root, f>> \in disk) |->
                  Clean(SelectSeq(w.documents, LAMBDA f : <<w.root, f>> \in disk)[i])]

Synchronize(list) ==
    /\ tabs' = Roots(list)
    /\ documents' = [r \in Folders |->
         IF ~Has(list, r) THEN <<>>
         ELSE IF r \in Range(tabs) THEN documents[r] ELSE Restored(list[At(list, r)])]

-----------------------------------------------------------------------------
(* openWorkspace: a folder that is open already is only activated.           *)
OpenWorkspace ==
    /\ MayChange /\ SchedulePersistence
    /\ \E root \in Folders :
         LET list == IF Has(workspaces, root) THEN workspaces
                     ELSE Append(workspaces, [root |-> root, documents |-> <<>>, active |-> TRUE])
         IN workspaces' = Activated(list, root) /\ Synchronize(list)
    /\ UNCHANGED <<running, saving, disk, entries, lost, faults>>

(* closeWorkspace, once the reader has agreed to lose unsaved work: the one   *)
(* that moves into the place of the active one is active.                    *)
CloseWorkspace ==
    /\ MayChange /\ SchedulePersistence
    /\ \E i \in DOMAIN workspaces :
         LET left == RemoveAt(workspaces, i)
             next == IF workspaces[i].active
                     THEN [k \in DOMAIN left |-> [left[k] EXCEPT !.active = k = (IF i < Len(workspaces) THEN i ELSE Len(left))]]
                     ELSE left
         IN workspaces' = next /\ Synchronize(next)
    /\ UNCHANGED <<running, saving, disk, entries, lost, faults>>

(* A tab is chosen, or dragged to another place.                             *)
ActivateTab ==
    /\ MayChange /\ SchedulePersistence
    /\ \E i \in DOMAIN tabs : workspaces' = Activated(workspaces, tabs[i])
    /\ UNCHANGED <<running, saving, tabs, documents, disk, entries, lost, faults>>

MoveTab ==
    /\ MayChange /\ SchedulePersistence
    /\ \E i \in DOMAIN tabs, j \in DOMAIN tabs :
         /\ i # j
         /\ tabs' = InsertAt(RemoveAt(tabs, i), j, tabs[i])
         /\ workspaces' = InsertAt(RemoveAt(workspaces, i), j, workspaces[i])
    /\ UNCHANGED <<running, saving, documents, disk, entries, lost, faults>>

(* stateChanged, updateWorkspace: what a view has open is kept.              *)
Update(root, docs) ==
    /\ documents' = [documents EXCEPT ![root] = docs]
    /\ workspaces' = [workspaces EXCEPT ![At(workspaces, root)].documents = PathsOf(docs)]
    /\ SchedulePersistence

(* openFile: a file that is open already is only shown.                      *)
Opened(root, file) ==
    IF IsOpen(root, file) THEN documents[root] ELSE Append(documents[root], Clean(file))

OpenFile ==
    /\ MayChange
    /\ \E root \in Range(tabs), file \in Files :
         <<root, file>> \in disk /\ Update(root, Opened(root, file))
    /\ UNCHANGED <<running, saving, tabs, disk, entries, lost, faults>>

(* Typing moves the cursor, which is part of what is kept; saving does not.   *)
Type ==
    /\ MayChange
    /\ \E root \in Range(tabs) : \E i \in DOMAIN documents[root] :
         Update(root, [documents[root] EXCEPT ![i].dirty = TRUE])
    /\ UNCHANGED <<running, saving, tabs, disk, entries, lost, faults>>

Save ==
    /\ running
    /\ \E root \in Range(tabs) : \E i \in DOMAIN documents[root] :
         /\ documents[root][i].dirty /\ documents' = [documents EXCEPT ![root][i].dirty = FALSE]
         /\ disk' = disk \cup {<<root, documents[root][i].path>>}
    /\ UNCHANGED <<running, workspaces, revision, timer, saving, tabs, entries, lost, changes, faults>>

CloseDocument ==
    /\ MayChange
    /\ \E root \in Range(tabs) : \E i \in DOMAIN documents[root] : Update(root, RemoveAt(documents[root], i))
    /\ UNCHANGED <<running, saving, tabs, disk, entries, lost, faults>>

(* externalFileRemoved: the tab of a file that others removed stays only with  *)
(* unsaved text in it.                                                      *)
FileRemovedOutside ==
    /\ MayChange
    /\ \E root \in Range(tabs) : \E i \in DOMAIN documents[root] :
         LET doc == documents[root][i] IN
         /\ <<root, doc.path>> \in disk /\ disk' = disk \ {<<root, doc.path>>}
         /\ Update(root, IF doc.dirty THEN documents[root] ELSE RemoveAt(documents[root], i))
    /\ UNCHANGED <<running, saving, tabs, entries, lost, faults>>

-----------------------------------------------------------------------------
(* createFile, renameEntry, movePath and removePath are carried out on another thread;  *)
(* only a result that was good changes what is open.                         *)
Sent(kind, root, from, to, done) ==
    entries' = {[kind |-> kind, root |-> root, from |-> from, to |-> to, done |-> done]}

CreateEntry(root, file) ==
    LET done == <<root, file>> \notin disk IN
    Sent("create", root, file, file, done) /\ disk' = IF done THEN disk \cup {<<root, file>>} ELSE disk

MoveEntry(root, from, to) ==
    LET done == <<root, to>> \notin disk IN
    /\ Renames /\ <<root, from>> \in disk
    /\ Sent("move", root, from, to, done)
    /\ disk' = IF done THEN (disk \ {<<root, from>>}) \cup {<<root, to>>} ELSE disk

RemoveEntry(root, file) ==
    /\ <<root, file>> \in disk /\ disk' = disk \ {<<root, file>>}
    /\ Sent("remove", root, file, file, TRUE)

AskEntry ==
    /\ MayChange /\ entries = {}
    /\ \E root \in Range(tabs), from \in Files, to \in Files :
         CreateEntry(root, from) \/ MoveEntry(root, from, to) \/ RemoveEntry(root, from)
    /\ UNCHANGED <<running, workspaces, revision, timer, saving, tabs, documents, lost, faults>>

Moved(root, from, to) ==
    [i \in DOMAIN documents[root] |-> IF documents[root][i].path = from THEN [documents[root][i] EXCEPT !.path = to]
                                      ELSE documents[root][i]]

(* A view that is gone hears of nothing.                                     *)
EntryAnswered ==
    /\ \E e \in entries :
         /\ entries' = entries \ {e}
         /\ IF ~running \/ e.root \notin Range(tabs) \/ ~e.done
            THEN UNCHANGED <<workspaces, documents, revision, timer>>
            ELSE Update(e.root, CASE e.kind = "create" -> Opened(e.root, e.to)
                                  [] e.kind = "move" -> Moved(e.root, e.from, e.to)
                                  [] OTHER -> SelectSeq(documents[e.root], LAMBDA d : d.path # e.from))
    /\ UNCHANGED <<running, saving, tabs, disk, lost, changes, faults>>

-----------------------------------------------------------------------------
(* persistState: one snapshot at a time; what is not valid is refused.        *)
InFlight == \E i \in DOMAIN writes : writes[i].told

PersistState ==
    /\ timer /\ running /\ timer' = FALSE
    /\ writes' = IF InFlight THEN writes ELSE Append(writes, [what |-> workspaces, of |-> revision, told |-> TRUE])
    /\ UNCHANGED <<running, workspaces, revision, committed, stored, persisted, tabs, documents, disk, entries, lost, changes, faults>>

Fails == faults < MaxFaults /\ faults' = faults + 1
Stored(write) == Valid(write.what) /\ stored' = write.what /\ UNCHANGED faults
NotStored(write) == UNCHANGED stored /\ (IF Valid(write.what) THEN Fails ELSE UNCHANGED faults)

\* Mutant of Reverted: the views are not told.
RevertedSilently(list) == UNCHANGED <<tabs, documents, lost>>

Reverted(list) ==
    /\ Synchronize(list)
    /\ lost' = (lost \/ \E r \in Range(tabs) : ~Has(list, r) /\ IsDirty(r))

Persisted ==
    /\ writes # <<>>
    /\ LET write == Head(writes) IN
         /\ writes' = Tail(writes)
         /\ \/ /\ Stored(write)
               /\ IF write.told THEN committed' = write.what /\ persisted' = write.of
                                ELSE UNCHANGED <<committed, persisted>>
               /\ timer' = (timer \/ (write.told /\ write.of # revision))
               /\ UNCHANGED <<workspaces, revision, tabs, documents, lost>>
            \/ /\ NotStored(write) /\ UNCHANGED <<committed, persisted>>
               /\ IF write.told /\ write.of = revision
                  THEN workspaces' = committed /\ revision' = persisted /\ Reverted(committed) /\ UNCHANGED timer
                  ELSE /\ timer' = (timer \/ write.told)
                       /\ UNCHANGED <<workspaces, revision, tabs, documents, lost>>
    /\ UNCHANGED <<running, disk, entries, changes>>

\* Mutant of LastWrite: not while another is on its way.
LastWriteUnlessBusy ==
    IF revision = persisted \/ InFlight THEN <<>>
    ELSE <<[what |-> workspaces, of |-> revision, told |-> FALSE]>>

LastWrite ==
    IF revision = persisted THEN <<>> ELSE <<[what |-> workspaces, of |-> revision, told |-> FALSE]>>

(* shutdown: nothing is answered any more, but what was not stored is written. *)
Shutdown ==
    /\ MayChange /\ running' = FALSE /\ timer' = FALSE
    /\ writes' = [i \in DOMAIN writes |-> [writes[i] EXCEPT !.told = FALSE]] \o LastWrite
    /\ UNCHANGED <<workspaces, committed, stored, revision, persisted, tabs, documents, disk, entries, lost, faults>>

(* initialize, once the executor has ended with all it was given.            *)
Start ==
    /\ ~running /\ writes = <<>> /\ entries = {} /\ running' = TRUE
    /\ workspaces' = stored /\ committed' = stored /\ revision' = 0 /\ persisted' = 0
    /\ tabs' = Roots(stored)
    /\ documents' = [r \in Folders |-> IF Has(stored, r) THEN Restored(stored[At(stored, r)]) ELSE <<>>]
    /\ UNCHANGED <<timer, stored, writes, disk, entries, lost, changes, faults>>

EditorNext ==
    \/ OpenWorkspace \/ CloseWorkspace \/ ActivateTab \/ MoveTab
    \/ OpenFile \/ Type \/ Save \/ CloseDocument \/ FileRemovedOutside
    \/ AskEntry \/ EntryAnswered
    \/ PersistState \/ Persisted \/ Shutdown \/ Start

-----------------------------------------------------------------------------
(* The tabs are the workspaces in their order, however changes and the writes  *)
(* that fail behind them meet, and one of them is the active one              *)
(* (CodeEditorView::synchronizeWorkspaces after persistState).               *)
TabsMatch ==
    running => /\ tabs = Roots(workspaces)
               /\ workspaces # <<>> => \E i \in DOMAIN workspaces : workspaces[i].active

(* What an end leaves to be stored is what there was, unless a write failed    *)
(* (CodeEditorPlugin::shutdown, whatever is on its way).                     *)
EndsSaved == (~running /\ writes = <<>> /\ faults = 0) => stored = workspaces

(* Every state that is to be stored is one the repository accepts              *)
(* (CodeEditorRepository.cpp:36 refuses a workspace with a path twice).       *)
SavesAreAccepted == running => Valid(workspaces)

(* Unsaved text is dropped only after a question.                            *)
UnsavedIsAskedAbout == ~lost
=============================================================================
