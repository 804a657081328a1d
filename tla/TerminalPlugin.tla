--------------------------- MODULE TerminalPlugin ---------------------------
(***************************************************************************)
(* The reader at a terminal: the pointer and the keyboard focus, which the  *)
(* widget of its pane tells the program that runs in it                     *)
(* (src/ui/TerminalWidget.cpp, plugins/terminal/ui/TerminalPane.cpp and     *)
(* WorkspaceView.cpp) through the modes of the emulator                     *)
(* (src/terminal/GhosttyTerminalAdapter.cpp); and what the reader chose for *)
(* the terminals, on its way to their sessions (TerminalSettingsStore.cpp,  *)
(* TerminalPlugin.cpp and workspace/WorkspaceManager.cpp).                  *)
(*                                                                         *)
(* A session outlives its pane: a layout or a tab that changes retires the  *)
(* pane and may show the session in another.  Positions and modifiers other *)
(* than Shift are left out, and motion and the wheel, which say nothing     *)
(* that lasts.                                                              *)
(*                                                                         *)
(* The store of the settings tells what changes and saves it behind the     *)
(* window, a save that fails takes it back, and the manager hands it to     *)
(* every session there is and to every one it starts.  Whether a program    *)
(* may write to the clipboard is the one setting here; the theme goes the   *)
(* same way, and the fonts go to the panes.                                 *)
(***************************************************************************)
EXTENDS Naturals, FiniteSets, Sequences

CONSTANTS
    Buttons,     \* of the mouse; "left" selects
    Careful,     \* a pane is not retired while a button is held on it
    MaxPanes,    \* bound: panes the session is shown in
    MaxTurns     \* bound: times the program sets its modes, ends or is started again

ASSUME InputAssumption == Careful \in BOOLEAN /\ MaxPanes \in Nat \ {0} /\ MaxTurns \in Nat

VARIABLES
    pane,        \* m_session of the widget is this session
    focused,     \* the widget has the keyboard
    down,        \* the buttons the reader holds, which Qt gives to this widget
    clicked,     \* the buttons just released: a press of one of them is a double click
    reported,    \* m_reportedButtons
    selecting,   \* m_selecting
    selected,    \* the emulator has a selection
    modes,       \* what the program asked for: [mouse, focus]
    alive,       \* the shell runs
    heard,       \* what the program knows: [held, looked]
    missed,      \* history: the buttons whose last release the backend would not take
    panes, turns

inputVars == <<pane, focused, down, clicked, reported, selecting, selected, modes, alive, heard, missed, panes, turns>>
widgetVars == <<down, clicked, reported, selecting>>

NoModes == [mouse |-> FALSE, focus |-> FALSE]
Nothing == [held |-> {}, looked |-> FALSE]

InputInit ==
    /\ pane = TRUE /\ focused = FALSE
    /\ down = {} /\ clicked = {} /\ reported = {} /\ selecting = FALSE /\ selected = FALSE
    /\ modes = NoModes /\ alive = TRUE /\ heard = Nothing /\ missed = {}
    /\ panes = 1 /\ turns = 0

-----------------------------------------------------------------------------
ProgramWantsMouse == modes.mouse
ProgramWantsFocus == modes.focus

(* mouseBelongsToProgram: Shift takes the mouse back from it.               *)
MouseBelongsToProgram(shift) == ProgramWantsMouse /\ ~shift

(* encodeFocus and encodeMouse: nothing comes of what the program did not    *)
(* ask for.  Nothing is sent to one that ended, nor to one whose input is as  *)
(* full as it may be (sendFocus, sendMouse, the write of a backend).         *)
EncodesFocus == ProgramWantsFocus
EncodesMouse == ProgramWantsMouse
SendFocus(t, gained, taken) == IF alive /\ EncodesFocus /\ taken THEN [t EXCEPT !.looked = gained] ELSE t
SendMouse(t, held, taken) == IF alive /\ EncodesMouse /\ taken THEN [t EXCEPT !.held = held] ELSE t

(* reportFocus, reportMouse: only a program that asked is told, if what it is  *)
(* told is taken; a report that was not is not made again.                   *)
FocusTold(t, gained, taken) == IF ProgramWantsFocus THEN SendFocus(t, gained, taken) ELSE t
MouseTold(t, held, taken) == SendMouse(t, held, taken)

FocusIn ==
    /\ pane /\ ~focused /\ focused' = TRUE
    /\ \E taken \in BOOLEAN : heard' = FocusTold(heard, TRUE, taken)
    /\ UNCHANGED <<pane, widgetVars, selected, modes, alive, missed, panes, turns>>

FocusOut ==
    /\ pane /\ focused /\ focused' = FALSE
    /\ \E taken \in BOOLEAN : heard' = FocusTold(heard, FALSE, taken)
    /\ UNCHANGED <<pane, widgetVars, selected, modes, alive, missed, panes, turns>>

(* beginSelection: what was selected is dropped, and a click selects none.   *)
StartSelection(selects) == selecting' = TRUE /\ selected' = selects /\ UNCHANGED reported

(* mousePressEvent: the press takes the focus first.  A press with the       *)
(* application's modifier on an address opens it and is no press here.      *)
MousePress(b, shift) ==
    /\ pane /\ b \notin down
    /\ down' = down \cup {b} /\ clicked' = {} /\ focused' = TRUE
    /\ \E lookTaken, taken \in BOOLEAN :
       LET looked == IF focused THEN heard ELSE FocusTold(heard, TRUE, lookTaken) IN
       \/ /\ MouseBelongsToProgram(shift)
          /\ selected' = FALSE /\ reported' = reported \cup {b}
          /\ heard' = MouseTold(looked, looked.held \cup {b}, taken)
          /\ missed' = IF taken THEN missed \ {b} ELSE missed
          /\ UNCHANGED selecting
       \/ /\ ~MouseBelongsToProgram(shift)
          /\ heard' = looked /\ UNCHANGED missed
          /\ IF b = "left" THEN StartSelection(FALSE) ELSE UNCHANGED <<selecting, selected, reported>>
    /\ UNCHANGED <<pane, modes, alive, panes, turns>>

(* mouseDoubleClickEvent, which Qt sends in place of the second press: one   *)
(* that belongs to the program is ignored.                                 *)
MouseDoubleClick(b, shift) ==
    /\ pane /\ b \in clicked
    /\ down' = down \cup {b} /\ clicked' = {}
    /\ IF b = "left" /\ ~MouseBelongsToProgram(shift)
       THEN StartSelection(TRUE)
       ELSE UNCHANGED <<selecting, selected, reported>>
    /\ UNCHANGED <<pane, focused, modes, alive, heard, missed, panes, turns>>

(* mouseMoveEvent, advanceAutoscroll: the drag extends what is selected.     *)
Drag ==
    /\ pane /\ selecting /\ ~selected /\ selected' = TRUE
    /\ UNCHANGED <<pane, focused, widgetVars, modes, alive, heard, missed, panes, turns>>

\* Mutant of ReleaseIsReported: a release with Shift is the reader's again, as a press is.
ReleaseIsReportedAsPressed(b, shift) == b \in reported /\ MouseBelongsToProgram(shift)

ReleaseIsReported(b, shift) == b \in reported

(* mouseReleaseEvent: whoever was told of the press is told of the release.  *)
MouseRelease(b, shift) ==
    /\ pane /\ b \in down
    /\ down' = down \ {b} /\ clicked' = {b}
    /\ selecting' = FALSE
    /\ reported' = reported \ {b}
    /\ \/ ~ReleaseIsReported(b, shift) /\ UNCHANGED <<heard, missed>>
       \/ /\ ReleaseIsReported(b, shift)
          /\ \E taken \in BOOLEAN :
                /\ heard' = MouseTold(heard, heard.held \ {b}, taken)
                /\ missed' = IF taken THEN missed \ {b} ELSE missed \cup ({b} \cap heard.held)
    /\ UNCHANGED <<pane, focused, selected, modes, alive, panes, turns>>

(* selectAll, clearSelection, dismissFindBar, clearScrollback.              *)
Select(all) ==
    /\ pane /\ selected # all /\ selected' = all
    /\ UNCHANGED <<pane, focused, widgetVars, modes, alive, heard, missed, panes, turns>>

-----------------------------------------------------------------------------
(* retireWorkspaceHosts: the pane lets go of its session, and is hidden      *)
(* after that, so that the focus it loses and the buttons it held are        *)
(* nobody's.                                                               *)
Retire ==
    /\ pane /\ (Careful => down = {})
    /\ pane' = FALSE /\ focused' = FALSE
    /\ down' = {} /\ clicked' = {} /\ reported' = {} /\ selecting' = FALSE
    /\ UNCHANGED <<selected, modes, alive, heard, missed, panes, turns>>

(* createTerminalPane: a new pane for the session.                          *)
Attach ==
    /\ ~pane /\ panes < MaxPanes
    /\ pane' = TRUE /\ panes' = panes + 1
    /\ UNCHANGED <<focused, widgetVars, selected, modes, alive, heard, missed, turns>>

(* The program sets its modes: what it no longer asks for it forgets.        *)
ProgramTurns(m) ==
    /\ alive /\ modes # m /\ turns < MaxTurns
    /\ modes' = m /\ turns' = turns + 1
    /\ heard' = [held |-> IF m.mouse /\ modes.mouse THEN heard.held ELSE {},
                looked |-> m.focus /\ modes.focus /\ heard.looked]
    /\ missed' = IF m.mouse /\ modes.mouse THEN missed ELSE {}
    /\ UNCHANGED <<pane, focused, widgetVars, selected, alive, panes>>

(* processExited: the emulator keeps the modes of what ran.                 *)
ProgramExited ==
    /\ alive /\ alive' = FALSE /\ heard' = Nothing /\ missed' = {}
    /\ UNCHANGED <<pane, focused, widgetVars, selected, modes, panes, turns>>

(* restart: a new emulator for a new shell.                                *)
RestartProgram ==
    /\ turns < MaxTurns /\ turns' = turns + 1
    /\ alive' = TRUE /\ modes' = NoModes /\ selected' = FALSE /\ heard' = Nothing /\ missed' = {}
    /\ UNCHANGED <<pane, focused, widgetVars, panes>>

InputNext ==
    \/ FocusIn \/ FocusOut \/ Drag \/ Retire \/ Attach \/ ProgramExited \/ RestartProgram
    \/ \E b \in Buttons, shift \in BOOLEAN :
          MousePress(b, shift) \/ MouseDoubleClick(b, shift) \/ MouseRelease(b, shift)
    \/ \E all \in BOOLEAN : Select(all)
    \/ \E m \in [mouse : BOOLEAN, focus : BOOLEAN] : ProgramTurns(m)

InputSpec == InputInit /\ [][InputNext]_inputVars

-----------------------------------------------------------------------------
InputTypeOK ==
    /\ {pane, focused, selecting, selected, alive} \subseteq BOOLEAN
    /\ down \subseteq Buttons /\ clicked \subseteq Buttons /\ reported \subseteq down
    /\ modes \in [mouse : BOOLEAN, focus : BOOLEAN]
    /\ heard \in [held : SUBSET Buttons, looked : BOOLEAN] /\ missed \subseteq Buttons
    /\ panes \in 1..MaxPanes /\ turns \in 0..MaxTurns

(* A button the program was told is down is one the reader still holds, and  *)
(* one whose release it will be told of; or its release was told, and the     *)
(* backend, whose queue was full, did not take it (mouseReleaseEvent has       *)
(* forgotten the press by then).  Shift, a second button, a selection or a     *)
(* mode that changes in between leave none down for good.                    *)
NoButtonSticks == heard.held \subseteq (down \cap reported) \cup missed

(* A program that asked is told when nobody looks at it any more, which is   *)
(* what stops it from drawing a cursor nobody sees (TerminalWidget.cpp:373). *)
LookedAtIsTold == heard.looked => pane /\ focused
-----------------------------------------------------------------------------
(* The settings.                                                            *)

CONSTANTS
    Terminals,    \* sessions the workspace may have
    MaxSettings,  \* bound: times the setting is changed
    MaxStarts,    \* bound: starts of the application
    MaxFaults     \* bound: saves that fail

ASSUME SettingsAssumption ==
    /\ MaxSettings \in Nat /\ MaxStarts \in Nat \ {0} /\ MaxFaults \in Nat

VARIABLES
    storedAllowed,  \* the settings of the plugin in the database
    allowed,        \* m_settings.allowClipboardWrite
    committed,      \* m_committedSettings.allowClipboardWrite
    revision,       \* m_revision
    onTheWay,       \* saves: [value, revision], oldest first
    manager,        \* WorkspaceManager::m_clipboardWriteAllowed
    emulators,      \* m_clipboardWriteAllowed of each session that runs
    starts, troubles

settingsVars == <<storedAllowed, allowed, committed, revision, onTheWay, manager, emulators, starts, troubles>>

(* initialize and startRuntimeSessions: the store reads what is stored, and   *)
(* the manager has what it is declared with.                               *)
Opened(sessions) ==
    /\ allowed' = storedAllowed /\ committed' = storedAllowed /\ revision' = 0 /\ onTheWay' = <<>>
    /\ manager' = FALSE /\ emulators' = [t \in sessions |-> FALSE]

SettingsInit ==
    /\ storedAllowed = FALSE
    /\ allowed = storedAllowed /\ committed = storedAllowed /\ revision = 0 /\ onTheWay = <<>>
    /\ manager = FALSE
    /\ \E sessions \in SUBSET Terminals : emulators = [t \in sessions |-> FALSE]
    /\ starts = 1 /\ troubles = 0

(* setClipboardWriteAllowed, which allowClipboardWriteChanged brings about.  *)
Handed(value) == manager' = value /\ emulators' = [t \in DOMAIN emulators |-> value]

(* setAllowClipboardWrite and apply.                                       *)
SetAllowed ==
    /\ revision < MaxSettings /\ revision' = revision + 1
    /\ allowed' = ~allowed
    /\ onTheWay' = Append(onTheWay, [value |-> ~allowed, revision |-> revision + 1])
    /\ Handed(~allowed)
    /\ UNCHANGED <<storedAllowed, committed, starts, troubles>>

\* Mutant of TakenBack: what was taken back is told to the settings page alone.
TakenBackQuietly(value) == UNCHANGED <<manager, emulators>>

(* emitAll: whatever is taken back is told as a change is.                  *)
TakenBack(value) == Handed(value)

SaveSucceeds ==
    /\ onTheWay # <<>> /\ onTheWay' = Tail(onTheWay)
    /\ storedAllowed' = Head(onTheWay).value /\ committed' = Head(onTheWay).value
    /\ UNCHANGED <<allowed, revision, manager, emulators, starts, troubles>>

(* Only the failure of the last save takes anything back.                   *)
SaveFails ==
    /\ onTheWay # <<>> /\ troubles < MaxFaults /\ troubles' = troubles + 1
    /\ onTheWay' = Tail(onTheWay)
    /\ IF Head(onTheWay).revision = revision
       THEN allowed' = committed /\ TakenBack(committed)
       ELSE UNCHANGED <<allowed, manager, emulators>>
    /\ UNCHANGED <<storedAllowed, committed, revision, starts>>

(* createTerminal, closeTerminal.                                          *)
CreateTerminal(t) ==
    /\ t \notin DOMAIN emulators
    /\ emulators' = [u \in DOMAIN emulators \cup {t} |-> IF u = t THEN manager ELSE emulators[u]]
    /\ UNCHANGED <<storedAllowed, allowed, committed, revision, onTheWay, manager, starts, troubles>>

CloseTerminal(t) ==
    /\ t \in DOMAIN emulators
    /\ emulators' = [u \in DOMAIN emulators \ {t} |-> emulators[u]]
    /\ UNCHANGED <<storedAllowed, allowed, committed, revision, onTheWay, manager, starts, troubles>>

(* The application ends, its saves with it or after them, and starts again.  *)
StartAgain ==
    /\ starts < MaxStarts /\ starts' = starts + 1
    /\ Opened(DOMAIN emulators)
    /\ UNCHANGED <<storedAllowed, troubles>>

SettingsNext ==
    \/ SetAllowed \/ SaveSucceeds \/ SaveFails \/ StartAgain
    \/ \E t \in Terminals : CreateTerminal(t) \/ CloseTerminal(t)

SettingsSpec == SettingsInit /\ [][SettingsNext]_settingsVars

-----------------------------------------------------------------------------
SettingsTypeOK ==
    /\ storedAllowed \in BOOLEAN /\ allowed \in BOOLEAN /\ committed \in BOOLEAN /\ manager \in BOOLEAN
    /\ DOMAIN emulators \subseteq Terminals /\ \A t \in DOMAIN emulators : emulators[t] \in BOOLEAN
    /\ revision \in 0..MaxSettings /\ Len(onTheWay) <= MaxSettings
    /\ starts \in 1..MaxStarts /\ troubles \in 0..MaxFaults

(* A program reaches the clipboard only while the reader allows it           *)
(* (GhosttyTerminalAdapter.cpp:658), in the sessions that were there when     *)
(* that changed, those started since, and after a save that failed.          *)
OnlyWhileAllowed == \A t \in DOMAIN emulators : emulators[t] => allowed

(* The setting says that programs may write to the clipboard                 *)
(* (TerminalTranslations.h:8), and they may.                               *)
AllowedMeansAllowed == \A t \in DOMAIN emulators : allowed => emulators[t]
=============================================================================
