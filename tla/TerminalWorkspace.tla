------------------------- MODULE TerminalWorkspace -------------------------
(***************************************************************************)
(* The workspace of the terminal plugin (terminal/workspace): tabs, each    *)
(* with a layout of slots and a shelf, the sessions placed there, the       *)
(* runtimes behind them, and the row that keeps it all                     *)
(* (terminal/TerminalWorkspaceRepository.cpp).                              *)
(*                                                                         *)
(* Names, colours, directories and times are left out, and so is what the   *)
(* database does with two saves at once, which SavedState has: a save and   *)
(* its result are one step.  What a runtime does is TerminalSession.        *)
(***************************************************************************)
EXTENDS Integers, FiniteSets, SequencesExt

CONSTANTS
    Tabs,          \* bound: identifiers of tabs
    Sessions,      \* bound: identifiers of sessions
    Presets,       \* LayoutManager::presets
    SlotCount,     \* the slots of each
    FirstPreset,   \* the preset of a new tab, which has one slot
    None,          \* an empty slot, no focus
    MaxFaults      \* bound: saves the database refuses

VARIABLES
    tabs,       \* m_workspace.tabs
    selected,   \* m_workspace.selectedMainTabId
    current,    \* m_currentTabIndex, from 1
    sessions,   \* m_workspace.sessions
    runtimes,   \* m_runtimeSessions
    running,    \* the plugin is initialized
    stored,     \* the row of terminal_state
    faults      \* bound: saves that failed

shown == <<tabs, selected, sessions>>
vars == <<shown, current, runtimes, running, stored, faults>>

Tab == [id : Tabs, order : Nat, preset : Presets, slots : Seq(Sessions \cup {None}),
        shelf : Seq(Sessions), focus : Sessions \cup {None}]
Workspace == [tabs : Seq(Tab), selected : Tabs, sessions : SUBSET Sessions]
Shown == [tabs |-> tabs, selected |-> selected, sessions |-> sessions]

EmptyTab(id, order) ==
    [id |-> id, order |-> order, preset |-> FirstPreset,
     slots |-> <<None>>, shelf |-> <<>>, focus |-> None]

-----------------------------------------------------------------------------
(* The layout of one tab (LayoutManager).                                  *)
Visible(t) == ToSet(t.slots) \ {None}
Held(t) == Visible(t) \cup ToSet(t.shelf)
SlotOf(t, s) == {k \in DOMAIN t.slots : t.slots[k] = s}
Lowest(S) == IF S = {} THEN 0 ELSE Min(S)

Removed(t, s) ==
    [t EXCEPT !.slots = [k \in DOMAIN @ |-> IF @[k] = s THEN None ELSE @[k]],
              !.shelf = SelectSeq(@, LAMBDA x : x # s)]

\* Mutant of WithPreset: what no longer has a slot is dropped.
WithPresetDropping(t, p) ==
    [t EXCEPT !.preset = p,
              !.slots = [k \in 1..SlotCount[p] |-> IF k <= Len(@) THEN @[k] ELSE None]]

(* changePreset: what no longer has a slot goes to the shelf.               *)
WithPreset(t, p) ==
    LET overflow == SubSeq(t.slots, SlotCount[p] + 1, Len(t.slots)) IN
    [t EXCEPT !.preset = p,
              !.slots = [k \in 1..SlotCount[p] |-> IF k <= Len(@) THEN @[k] ELSE None],
              !.shelf = @ \o SelectSeq(overflow, LAMBDA s : s # None)]

(* assignToSlot: who was in the slot goes where the session came from.      *)
Assigned(t, s, k) ==
    LET displaced == t.slots[k]
        placed == [Removed(t, s) EXCEPT !.slots[k] = s]
    IN  IF displaced \in {None, s} THEN placed
        ELSE IF SlotOf(t, s) # {} THEN [placed EXCEPT !.slots[Min(SlotOf(t, s))] = displaced]
        ELSE [placed EXCEPT !.shelf = <<displaced>> \o @]

Shelved(t, s, k) ==
    [Removed(t, s) EXCEPT !.shelf = IF k \in DOMAIN @ THEN InsertAt(@, k, s) ELSE Append(@, s)]

(* normalizeFocusedSession: focus on what is visible, if anything is.       *)
Normalized(t) ==
    IF t.focus \in Visible(t) THEN t
    ELSE [t EXCEPT !.focus =
            LET taken == {k \in DOMAIN t.slots : t.slots[k] # None} IN
            IF taken = {} THEN None ELSE t.slots[Min(taken)]]

(* createTerminal and activateShelvedSession: the slot asked for if it is    *)
(* empty, or the first empty one, or else the one in focus.                 *)
Displayed(t, s, wanted) ==
    LET empty == SlotOf(t, None)
        slot == IF wanted \in empty THEN wanted
                ELSE IF empty # {} THEN Min(empty) ELSE Lowest(SlotOf(t, t.focus))
    IN  [(IF slot = 0 THEN Shelved(t, s, 0) ELSE Assigned(t, s, slot)) EXCEPT !.focus = s]

-----------------------------------------------------------------------------
(* validateWorkspace: what may be stored, and what a start accepts.  Every   *)
(* session has one place, and every place a session.                       *)
HeldOnce(t) ==
    /\ \A j, k \in DOMAIN t.slots : t.slots[j] = t.slots[k] /\ t.slots[j] # None => j = k
    /\ IsInjective(t.shelf)
    /\ Visible(t) \cap ToSet(t.shelf) = {}

Focused(t) == IF Visible(t) = {} THEN t.focus = None ELSE t.focus \in Visible(t)

Valid(w) ==
    /\ w.tabs # <<>>
    /\ \A i \in DOMAIN w.tabs :
          /\ w.tabs[i].order = i
          /\ Len(w.tabs[i].slots) = SlotCount[w.tabs[i].preset]
          /\ HeldOnce(w.tabs[i]) /\ Focused(w.tabs[i])
    /\ \A i, j \in DOMAIN w.tabs :
          i # j => w.tabs[i].id # w.tabs[j].id /\ Held(w.tabs[i]) \cap Held(w.tabs[j]) = {}
    /\ UNION {Held(w.tabs[i]) : i \in DOMAIN w.tabs} = w.sessions
    /\ w.selected \in {w.tabs[i].id : i \in DOMAIN w.tabs}

(* persist: a workspace that is not valid is refused, and so may any be by   *)
(* the database; either is told and the memory stays as it is.              *)
Persist ==
    \/ /\ stored' = IF Valid(Shown') THEN Shown' ELSE stored
       /\ UNCHANGED faults
    \/ /\ faults < MaxFaults /\ faults' = faults + 1
       /\ UNCHANGED stored

-----------------------------------------------------------------------------
IndexOf(ts, id) == Min({i \in DOMAIN ts : ts[i].id = id})
Numbered(ts) == [i \in DOMAIN ts |-> [ts[i] EXCEPT !.order = i]]
CurrentTab == tabs[current]
Changed(t) == tabs' = [tabs EXCEPT ![current] = t]

(* createDefaultWorkspace, which saveInitial stores before it is used.      *)
Init ==
    /\ \E id \in Tabs, s \in Sessions :
          /\ tabs = <<[EmptyTab(id, 1) EXCEPT !.slots = <<s>>, !.focus = s]>>
          /\ selected = id /\ sessions = {s}
    /\ current = 1 /\ runtimes = sessions
    /\ running = TRUE /\ stored = Shown /\ faults = 0

SetCurrentTabIndex(i) ==
    /\ i \in DOMAIN tabs
    /\ ~(i = current /\ selected = tabs[i].id)
    /\ current' = i /\ selected' = tabs[i].id
    /\ UNCHANGED <<tabs, sessions, runtimes>> /\ Persist

CreateTab(id) ==
    /\ \A i \in DOMAIN tabs : tabs[i].id # id
    /\ tabs' = Append(tabs, EmptyTab(id, Len(tabs) + 1))
    /\ current' = Len(tabs) + 1 /\ selected' = id
    /\ UNCHANGED <<sessions, runtimes>> /\ Persist

Moved(from, to) == Numbered(InsertAt(RemoveAt(tabs, from), to, tabs[from]))

MoveTab(from, to) ==
    /\ from \in DOMAIN tabs /\ to \in DOMAIN tabs /\ from # to
    /\ tabs' = Moved(from, to)
    /\ current' = IndexOf(tabs', selected)
    /\ UNCHANGED <<selected, sessions, runtimes>> /\ Persist

(* The last tab is replaced by a new one with a new session: two saves, of   *)
(* the tab while it is empty and of the tab with its session.  The new ones  *)
(* may have the identifiers of those that are gone.                         *)
CloseLastTab(id, s) ==
    LET empty == [tabs |-> <<EmptyTab(id, 1)>>, selected |-> id, sessions |-> {}]
    IN
    /\ Len(tabs) = 1
    /\ tabs' = <<[EmptyTab(id, 1) EXCEPT !.slots = <<s>>, !.focus = s]>>
    /\ selected' = id /\ sessions' = {s} /\ current' = 1 /\ runtimes' = {s}
    /\ \/ Persist
       \/ /\ faults < MaxFaults /\ faults' = faults + 1
          /\ stored' = empty

\* Mutant of Survivors: the runtimes of a closed tab go on.
SurvivorsAll(i) == runtimes

Survivors(i) == runtimes \ Held(tabs[i])

(* closeTab: its sessions go with it, and if it was the selected one the     *)
(* tab in its place is selected, or the last one.                           *)
CloseTab(i) ==
    /\ i \in DOMAIN tabs /\ Len(tabs) > 1
    /\ tabs' = Numbered(RemoveAt(tabs, i))
    /\ IF tabs[i].id = selected
       THEN /\ current' = IF i <= Len(tabs') THEN i ELSE Len(tabs')
            /\ selected' = tabs'[current'].id
       ELSE current' = IndexOf(tabs', selected) /\ UNCHANGED selected
    /\ sessions' = sessions \ Held(tabs[i]) /\ runtimes' = Survivors(i)
    /\ Persist

-----------------------------------------------------------------------------
CreateTerminal(s, slot) ==
    /\ s \notin sessions
    /\ Changed(Displayed(CurrentTab, s, slot))
    /\ sessions' = sessions \cup {s} /\ runtimes' = runtimes \cup {s}
    /\ UNCHANGED <<current, selected>> /\ Persist

\* Mutant of WithoutSession: the focus of the tab is left on the session.
WithoutSessionAsFocused(t, s) == Removed(t, s)

(* removeSessionFromAllTabs, for one of them.                              *)
WithoutSession(t, s) == IF t.focus = s THEN Normalized(Removed(t, s)) ELSE Removed(t, s)

CloseTerminal(s) ==
    /\ s \in runtimes
    /\ tabs' = [i \in DOMAIN tabs |-> WithoutSession(tabs[i], s)]
    /\ sessions' = sessions \ {s} /\ runtimes' = runtimes \ {s}
    /\ UNCHANGED <<current, selected>> /\ Persist

Rearranges == UNCHANGED <<current, selected, sessions, runtimes>> /\ Persist

ChangeLayout(p) ==
    /\ CurrentTab.preset # p
    /\ Changed(Normalized(WithPreset(CurrentTab, p))) /\ Rearranges

AssignToSlot(s, k) ==
    /\ s \in Held(CurrentTab) /\ k \in DOMAIN CurrentTab.slots
    /\ Changed([Assigned(CurrentTab, s, k) EXCEPT !.focus = s]) /\ Rearranges

ActivateShelvedSession(s) ==
    /\ s \in ToSet(CurrentTab.shelf)
    /\ Changed(Displayed(CurrentTab, s, 0)) /\ Rearranges

MoveToShelf(s, k) ==
    /\ s \in Held(CurrentTab)
    /\ Changed(Normalized(Shelved(CurrentTab, s, k))) /\ Rearranges

FocusSession(s) ==
    /\ s \in Visible(CurrentTab)
    /\ Changed([CurrentTab EXCEPT !.focus = s]) /\ Rearranges

(* renameTab, and persistRuntimeSession: what they change is left out, and   *)
(* all is saved.                                                           *)
Rename == UNCHANGED tabs /\ Rearranges

-----------------------------------------------------------------------------
(* shutdown: all is saved once more, and the runtimes end.                  *)
Shutdown ==
    /\ running' = FALSE /\ runtimes' = {}
    /\ UNCHANGED <<shown, current>> /\ Persist

Crash ==
    /\ running' = FALSE /\ runtimes' = {}
    /\ UNCHANGED <<shown, current, stored, faults>>

(* initialize, with a runtime for every session.                           *)
Start ==
    /\ ~running /\ running' = TRUE
    /\ tabs' = stored.tabs /\ selected' = stored.selected /\ sessions' = stored.sessions
    /\ current' = IndexOf(stored.tabs, stored.selected)
    /\ runtimes' = stored.sessions
    /\ UNCHANGED <<stored, faults>>

Layout ==
    \/ \E p \in Presets : ChangeLayout(p)
    \/ \E s \in Sessions : ActivateShelvedSession(s) \/ FocusSession(s) \/ CloseTerminal(s)
    \/ \E s \in Sessions, k \in 0..Cardinality(Sessions) :
          AssignToSlot(s, k) \/ MoveToShelf(s, k)
    \/ \E s \in Sessions, k \in 0..Len(CurrentTab.slots) : CreateTerminal(s, k)

Arrange ==
    \/ Rename
    \/ \E id \in Tabs : CreateTab(id) \/ (\E s \in Sessions : CloseLastTab(id, s))
    \/ \E i \in DOMAIN tabs : SetCurrentTabIndex(i) \/ CloseTab(i)
    \/ \E i, j \in DOMAIN tabs : MoveTab(i, j)

Next ==
    \/ running /\ UNCHANGED running /\ (Layout \/ Arrange)
    \/ running /\ (Shutdown \/ Crash)
    \/ Start

Spec == Init /\ [][Next]_vars

-----------------------------------------------------------------------------
TypeOK ==
    /\ tabs \in Seq(Tab) /\ selected \in Tabs /\ sessions \subseteq Sessions
    /\ current \in DOMAIN tabs /\ runtimes \subseteq Sessions
    /\ running \in BOOLEAN /\ stored \in Workspace /\ faults \in 0..MaxFaults

(* Whatever is moved, closed and laid out, in whatever order: the workspace  *)
(* is one that validateWorkspace accepts, so that it is never this code      *)
(* that keeps its own work from being saved, and a start finds it valid.     *)
SavesAreAccepted == TypeOK /\ Valid(Shown) /\ Valid(stored)

(* Each session of the workspace runs, and nothing runs for a session that   *)
(* is closed; the tab that is shown is the selected one; and unless a save   *)
(* failed, which is told, what is stored is what is shown (README.md:27).    *)
ShownIsWhatThereIs ==
    running =>
       /\ runtimes = sessions /\ tabs[current].id = selected
       /\ faults = 0 => stored = Shown

(* A session stays in its tab until it is closed: layouts, slots and shelf   *)
(* never lose one, and moving or closing tabs moves none.                  *)
SessionsStayInTheirTab ==
    [][running /\ running' =>
         \A i \in DOMAIN tabs, j \in DOMAIN tabs' :
            tabs[i].id = tabs'[j].id => Held(tabs[i]) \cap runtimes' \subseteq Held(tabs'[j])]_vars
=============================================================================
