-------------------------------- MODULE Browser --------------------------------
(***************************************************************************)
(* The tabs and the bookmarks of the browser (plugins/browser): what the    *)
(* plugin holds, what the tab bar shows, and the tables that a start reads  *)
(* back.  A change is made in memory, and the whole of what it belongs to   *)
(* is written behind it (persistTabs, persistBookmarks); a write that fails *)
(* takes memory back to what was written last.                             *)
(*                                                                         *)
(* Names, titles, icons and times are left out, and so are pages, which     *)
(* belong to a web engine; the homepage is in SavedState.                   *)
(***************************************************************************)
EXTENDS Naturals, FiniteSets, SequencesExt

CONSTANTS
    Tabs, Groups, Marks,    \* bound: the identifiers there are
    Addresses,              \* those typed or opened, which are valid
    Spaced,                 \* those of them with an encoded space in them
    None,                   \* no group
    MaxChanges, MaxFaults   \* bound: what the reader does, writes that fail

VARIABLES
    running,    \* m_host: the plugin is initialized
    memory,     \* m_tabs; m_bookmarkGroups and m_bookmarks
    committed,  \* m_committedTabs, m_committedBookmarkGroups, m_committedBookmarks
    revision, committedRevision,
    writes,     \* statements the database has not run yet
    results,    \* what it has, on its way back
    stored,     \* the three tables
    bar,        \* the tabs of the view, in their order
    current,    \* the one it shows
    changes, faults

keeping == <<committed, committedRevision, results, stored, faults>>
view == <<bar, current>>
browserVars == <<running, memory, revision, writes, keeping, view, changes>>

Tables == {"tabs", "marks"}
Ids(s) == [i \in DOMAIN s |-> s[i].id]
At(s, id) == CHOOSE i \in DOMAIN s : s[i].id = id
ActiveOf(s) == {s[i].id : i \in {j \in DOMAIN s : s[j].active}}

(* normalizeAddress takes what was typed.  The text of a QUrl has its spaces  *)
(* decoded, and the strict reading of that text refuses them.              *)
Typed(a) == a \in Addresses
AsText(a) == a \in Addresses \ Spaced

-----------------------------------------------------------------------------
(* synchronizeTabs, which tabsChanged brings about.                         *)
Synchronized(tabs) ==
    /\ bar' = Ids(tabs)
    /\ current' = IF ActiveOf(tabs) = {} THEN None ELSE CHOOSE id \in ActiveOf(tabs) : TRUE

Change == running /\ changes < MaxChanges /\ changes' = changes + 1 /\ UNCHANGED <<running, keeping>>

(* persistTabs, persistBookmarks.                                          *)
Persists(table, value) ==
    /\ memory' = [memory EXCEPT ![table] = value]
    /\ revision' = [revision EXCEPT ![table] = @ + 1]
    /\ writes' = Append(writes, [table |-> table, value |-> value, revision |-> revision[table] + 1])

Tells(tabs) == Persists("tabs", tabs) /\ Synchronized(tabs)
Follows(tabs) == Persists("tabs", tabs) /\ bar' = Ids(tabs) /\ UNCHANGED current
Keeps(marks) == Persists("marks", marks) /\ UNCHANGED view

-----------------------------------------------------------------------------
(* The tabs.  createTab reads its address again from the text of a QUrl; an   *)
(* empty bar always activates.                                             *)
CreateTab(a, activate) ==
    LET tabs == memory.tabs
        active == activate \/ tabs = <<>>
        others == IF active THEN [i \in DOMAIN tabs |-> [tabs[i] EXCEPT !.active = FALSE]] ELSE tabs
    IN  /\ AsText(a) /\ Tabs # ToSet(Ids(tabs)) /\ Change
        /\ \E id \in Tabs \ ToSet(Ids(tabs)) : Tells(Append(others, [id |-> id, address |-> a, active |-> active]))

\* Mutant of Closed: the tab after the one that goes is activated, if there is one.
ClosedBeforeNext(tabs, i) ==
    LET rest == RemoveAt(tabs, i) IN
    IF tabs[i].active /\ i <= Len(rest) THEN [rest EXCEPT ![i].active = TRUE] ELSE rest

Smallest(m, n) == IF m < n THEN m ELSE n

(* The next tab takes the place of an active one, or the last.              *)
Closed(tabs, i) ==
    LET rest == RemoveAt(tabs, i) IN
    IF tabs[i].active /\ rest # <<>> THEN [rest EXCEPT ![Smallest(i, Len(rest))].active = TRUE] ELSE rest

CloseTab(i) == Change /\ Tells(Closed(memory.tabs, i))

(* The bar has changed already when the plugin hears of these.              *)
ActivateTab(i) ==
    LET tabs == memory.tabs IN
    /\ ~tabs[i].active /\ Change
    /\ Persists("tabs", [k \in DOMAIN tabs |-> [tabs[k] EXCEPT !.active = (k = i)]])
    /\ current' = bar[i] /\ UNCHANGED bar

MoveTab(from, to) ==
    /\ from # to /\ Change
    /\ Follows(InsertAt(RemoveAt(memory.tabs, from), to, memory.tabs[from]))

UpdateTabUrl(i, a) ==
    /\ AsText(a) /\ memory.tabs[i].address # a /\ Change
    /\ Follows([memory.tabs EXCEPT ![i].address = a])

-----------------------------------------------------------------------------
(* The bookmarks, each in a group or in none.                               *)
marks == memory.marks
Known(g) == g = None \/ g \in ToSet(marks.groups)

CreateBookmarkGroup ==
    \E g \in Groups \ ToSet(marks.groups) : Change /\ Keeps([marks EXCEPT !.groups = Append(@, g)])

\* Mutant of Ungrouped: the bookmarks stay in the group that goes.
UngroupedNever(bookmarks, g) == bookmarks

Ungrouped(bookmarks, g) ==
    [i \in DOMAIN bookmarks |-> [bookmarks[i] EXCEPT !.group = IF @ = g THEN None ELSE @]]

RemoveBookmarkGroup(g) ==
    /\ Change
    /\ \E i \in DOMAIN marks.groups :
          /\ marks.groups[i] = g
          /\ Keeps([groups |-> RemoveAt(marks.groups, i), bookmarks |-> Ungrouped(marks.bookmarks, g)])

CreateBookmark(a, g) ==
    /\ Typed(a) /\ Known(g)
    /\ \E id \in Marks \ ToSet(Ids(marks.bookmarks)) :
          Change /\ Keeps([marks EXCEPT !.bookmarks = Append(@, [id |-> id, group |-> g, address |-> a])])

UpdateBookmark(i, a, g) ==
    LET updated == [marks.bookmarks[i] EXCEPT !.address = a, !.group = g] IN
    /\ Typed(a) /\ Known(g) /\ marks.bookmarks[i] # updated
    /\ Change /\ Keeps([marks EXCEPT !.bookmarks[i] = updated])

RemoveBookmark(i) == Change /\ Keeps([marks EXCEPT !.bookmarks = RemoveAt(@, i)])

(* applyBookmarkLayout, with what the tree has after a drop: one bookmark or  *)
(* group elsewhere.  (applyTreeLayout lists those of each group together.)   *)
DropBookmark(i, j, g) ==
    LET moved == [marks.bookmarks[i] EXCEPT !.group = g] IN
    /\ Known(g) /\ <<j, moved>> # <<i, marks.bookmarks[i]>>
    /\ Change /\ Keeps([marks EXCEPT !.bookmarks = InsertAt(RemoveAt(@, i), j, moved)])

DropGroup(i, j) ==
    /\ i # j /\ Change
    /\ Keeps([marks EXCEPT !.groups = InsertAt(RemoveAt(@, i), j, marks.groups[i])])

-----------------------------------------------------------------------------
(* The constraints of the tables: one active tab at the most, and no         *)
(* bookmark in a group that is not there.                                  *)
Allowed(write) ==
    IF write.table = "tabs" THEN Cardinality(ActiveOf(write.value)) <= 1
    ELSE \A i \in DOMAIN write.value.bookmarks :
             write.value.bookmarks[i].group \in ToSet(write.value.groups) \cup {None}

(* The database runs a transaction, or refuses it, or fails.                *)
RunWrite ==
    LET write == Head(writes) IN
    /\ writes # <<>> /\ writes' = Tail(writes)
    /\ \E done \in BOOLEAN :
          /\ done => Allowed(write)
          /\ done \/ ~Allowed(write) \/ faults < MaxFaults
          /\ faults' = IF done \/ ~Allowed(write) THEN faults ELSE faults + 1
          /\ stored' = IF done THEN [stored EXCEPT ![write.table] = write.value] ELSE stored
          /\ results' = IF running THEN Append(results, [write |-> write, done |-> done]) ELSE results
    /\ UNCHANGED <<running, memory, committed, revision, committedRevision, view, changes>>

\* Mutant of TakenBack: the bar is not told.
TakenBackQuietly(table) ==
    /\ memory' = [memory EXCEPT ![table] = committed[table]]
    /\ UNCHANGED view

TakenBack(table) ==
    /\ memory' = [memory EXCEPT ![table] = committed[table]]
    /\ IF table = "tabs" THEN Synchronized(committed.tabs) ELSE UNCHANGED view

(* The continuations of persistTabs and persistBookmarks.                   *)
HearResult ==
    LET result == Head(results).write
        done == Head(results).done
        table == result.table
        newest == done /\ result.revision > committedRevision[table]
    IN  /\ results # <<>> /\ results' = Tail(results)
        /\ committed' = IF newest THEN [committed EXCEPT ![table] = result.value] ELSE committed
        /\ committedRevision' = IF newest THEN [committedRevision EXCEPT ![table] = result.revision] ELSE committedRevision
        /\ IF ~done /\ result.revision = revision[table] THEN TakenBack(table) ELSE UNCHANGED <<memory, view>>
        /\ UNCHANGED <<running, revision, writes, stored, changes, faults>>

-----------------------------------------------------------------------------
(* restoreState, restoreBookmarks: what a start accepts.                    *)
TabsAccepted(tabs) ==
    /\ tabs # <<>> => Cardinality(ActiveOf(tabs)) = 1
    /\ \A i \in DOMAIN tabs : AsText(tabs[i].address)
MarksAccepted(value) == \A i \in DOMAIN value.bookmarks : AsText(value.bookmarks[i].address)
Accepted == TabsAccepted(stored.tabs) /\ MarksAccepted(stored.marks)

FirstTabs(id, a) == <<[id |-> id, address |-> a, active |-> TRUE]>>
NoMarks == [groups |-> <<>>, bookmarks |-> <<>>]

(* initialize: an empty table gets a first tab, before anything else runs.   *)
Start ==
    LET tabs == IF stored.tabs = <<>> THEN FirstTabs(CHOOSE id \in Tabs : TRUE, CHOOSE a \in Addresses \ Spaced : TRUE)
                ELSE stored.tabs
    IN  /\ ~running /\ writes = <<>> /\ Accepted /\ running' = TRUE
        /\ stored' = [stored EXCEPT !.tabs = tabs]
        /\ memory' = stored' /\ committed' = stored' /\ Synchronized(tabs)
        /\ UNCHANGED <<revision, committedRevision, writes, results, changes, faults>>

(* shutdown: nobody hears of what is still written.                         *)
Shutdown ==
    /\ running /\ running' = FALSE /\ results' = <<>>
    /\ memory' = [tabs |-> <<>>, marks |-> NoMarks] /\ committed' = memory' /\ Synchronized(<<>>)
    /\ UNCHANGED <<revision, committedRevision, writes, stored, changes, faults>>

BrowserInit ==
    /\ running = FALSE
    /\ memory = [tabs |-> <<>>, marks |-> NoMarks] /\ committed = memory /\ stored = memory
    /\ revision = [t \in Tables |-> 0] /\ committedRevision = revision
    /\ writes = <<>> /\ results = <<>> /\ bar = <<>> /\ current = None /\ changes = 0 /\ faults = 0

TabSteps ==
    \/ \E a \in Addresses, activate \in BOOLEAN : CreateTab(a, activate)
    \/ \E i \in DOMAIN memory.tabs :
          \/ CloseTab(i) \/ ActivateTab(i)
          \/ \E j \in DOMAIN memory.tabs : MoveTab(i, j)
          \/ \E a \in Addresses : UpdateTabUrl(i, a)

BookmarkSteps ==
    \/ CreateBookmarkGroup
    \/ \E g \in ToSet(marks.groups) : RemoveBookmarkGroup(g)
    \/ \E i, j \in DOMAIN marks.groups : DropGroup(i, j)
    \/ \E a \in Addresses, g \in Groups \cup {None} : CreateBookmark(a, g)
    \/ \E i \in DOMAIN marks.bookmarks :
          \/ RemoveBookmark(i)
          \/ \E a \in Addresses, g \in Groups \cup {None} : UpdateBookmark(i, a, g)
          \/ \E j \in DOMAIN marks.bookmarks, g \in Groups \cup {None} : DropBookmark(i, j, g)

BrowserNext == TabSteps \/ BookmarkSteps \/ RunWrite \/ HearResult \/ Start \/ Shutdown

BrowserSpec == BrowserInit /\ [][BrowserNext]_browserVars

-----------------------------------------------------------------------------
(* The bar shows the tabs the plugin has, in their order, with the active    *)
(* one in front, after every change and after every write that failed behind *)
(* others (synchronizeTabs, persistTabs).                                   *)
BarShowsTheTabs ==
    running => bar = Ids(memory.tabs) /\ (IF bar = <<>> THEN {} ELSE {current}) = ActiveOf(memory.tabs)

(* The database refuses no change of its own accord: each meets the constraints  *)
(* of the tables, however the one before it came out (persistTabs,            *)
(* persistBookmarks, and the schema).                                       *)
NoChangeIsRefused == \A i \in DOMAIN writes : Allowed(writes[i])

(* "Embedded browser with persistent tabs, bookmark groups" (README.md:53):   *)
(* a start accepts what the plugin stored (restoreState, restoreBookmarks).  *)
SessionIsAccepted == Accepted
=============================================================================
