--------------------------- MODULE TerminalScreen ---------------------------
(***************************************************************************)
(* What a terminal holds and what is seen of it: the emulator               *)
(* (src/terminal/GhosttyTerminalAdapter.cpp, around a library that is        *)
(* external), the session that drives it (src/terminal/TerminalSession.cpp) *)
(* and the widget that draws it (src/ui/TerminalWidget.cpp), whose timers    *)
(* gather changes into one drawing and resizes into one size.               *)
(*                                                                         *)
(* A line matches what is looked for or does not.  Cells, colours and keys   *)
(* are left out, and the pty is TerminalSession's.                          *)
(***************************************************************************)
EXTENDS Integers, Sequences, FiniteSets

CONSTANTS
    GridSizes, Themes,
    ViewRows,     \* rows the viewport has, at most MaxLines
    MaxLines,     \* scrollbackMaximumLines and the viewport: the oldest lines are dropped
    MaxMatches,   \* searchMatchMaximum
    MaxChanges,   \* bound: what the program prints, and what the reader resizes and starts
    MaxMishaps     \* bound: operations of the emulator or of the pty that fail

ASSUME ScreenAssumption ==
    /\ ViewRows \in Nat \ {0} /\ MaxLines \in Nat /\ ViewRows <= MaxLines
    /\ MaxMatches \in Nat /\ MaxChanges \in Nat /\ MaxMishaps \in Nat

VARIABLES
    emulator,    \* [alive, size, theme, lines, offset, selection]
    screen,     \* m_columns and m_rows, m_theme, and whether the shell runs
    pty,         \* the size the shell sees
    chosen,      \* WorkspaceManager::m_terminalTheme
    widget,      \* [attached, visible, size, renderDue, resizeDue, fresh]
    find,        \* m_matches and m_currentMatch: [matches, current]
    asking,      \* pasteClipboard waits for the reader
    changes, faults

screenVars == <<emulator, screen, pty, chosen, widget, find, asking, changes, faults>>

Lines == {"hit", "plain"}
NoMatches == [matches |-> <<>>, current |-> 0]
Blank(size, theme) ==
    [alive |-> TRUE, size |-> size, theme |-> theme, lines |-> <<>>, offset |-> 0, selection |-> 0]
Nowhere(size) ==
    [attached |-> FALSE, visible |-> FALSE, size |-> size, renderDue |-> FALSE, resizeDue |-> FALSE, fresh |-> TRUE]

ScreenInit ==
    /\ \E size \in GridSizes, theme \in Themes :
          /\ emulator = Blank(size, theme)
          /\ screen = [size |-> size, theme |-> theme, running |-> TRUE]
          /\ pty = size /\ chosen = theme
          /\ widget = Nowhere(size)
    /\ find = NoMatches /\ asking = FALSE /\ changes = 0 /\ faults = 0

-----------------------------------------------------------------------------
(* renderChanged and scheduleSnapshotRefresh: the drawing is behind, and due *)
(* if it can be seen.                                                      *)
Behind(w) == [w EXCEPT !.fresh = FALSE, !.renderDue = @ \/ w.visible]
RenderChanged == widget' = IF widget.attached THEN Behind(widget) ELSE widget

Highest(e) == IF Len(e.lines) > ViewRows THEN Len(e.lines) - ViewRows ELSE 0
ScrolledTo(e, row) == [e EXCEPT !.offset = IF row > Highest(e) THEN Highest(e) ELSE IF row < 0 THEN 0 ELSE row]
Bottomed(e) == ScrolledTo(e, Highest(e))

(* External: a full history drops its oldest line, and a viewport at the end *)
(* stays there.  The selection stays on its text.                          *)
Printed(e, line) ==
    LET full == Len(e.lines) = MaxLines
        next == [e EXCEPT !.lines = IF full THEN Append(Tail(@), line) ELSE Append(@, line),
                          !.selection = IF full /\ @ > 0 THEN @ - 1 ELSE @]
    IN  IF e.offset = Highest(e) THEN Bottomed(next) ELSE next

(* flushOutput, GhosttyTerminalAdapter::write.                              *)
FlushLine(line) ==
    /\ screen.running /\ emulator.alive /\ changes < MaxChanges /\ changes' = changes + 1
    /\ emulator' = Printed(emulator, line)
    /\ RenderChanged
    /\ UNCHANGED <<screen, pty, chosen, find, asking, faults>>

Cleared(e) == [e EXCEPT !.lines = <<>>, !.offset = 0, !.selection = 0]
Unselected(e) == [e EXCEPT !.selection = 0]
Themed(e, theme) == [e EXCEPT !.theme = theme]
Resized(e, size) == [e EXCEPT !.size = size]

(* clearScrollback: what is looked for is not looked for again.             *)
ClearScrollback ==
    /\ widget.attached /\ emulator.lines # <<>>
    /\ emulator' = Cleared(emulator)
    /\ RenderChanged
    /\ UNCHANGED <<screen, pty, chosen, find, asking, changes, faults>>

Scrolls(e) ==
    /\ widget.attached /\ emulator.alive /\ e # emulator /\ emulator' = e
    /\ RenderChanged
    /\ UNCHANGED <<screen, pty, chosen, find, asking, changes, faults>>

ScrollViewport(rows) == Scrolls(ScrolledTo(emulator, emulator.offset + rows))
ScrollToTop == Scrolls(ScrolledTo(emulator, 0))
ScrollToRow(row) == Scrolls(ScrolledTo(emulator, row))
ClearSelection == Scrolls(Unselected(emulator))

(* advanceSelectionAutoscroll: the viewport follows a drag past its edge.     *)
Followed(e, row) ==
    ScrolledTo(e, IF row > e.offset + ViewRows THEN e.offset + 1 ELSE IF row = e.offset THEN row - 1 ELSE e.offset)

(* beginSelection, extendSelection: a row that can be seen.                  *)
SelectRow(row) ==
    /\ row \in emulator.offset..(emulator.offset + ViewRows + 1) /\ row \in DOMAIN emulator.lines
    /\ Scrolls(Followed([emulator EXCEPT !.selection = row], row))

(* Typing, pasting and dropping go to the shell from the end of the history. *)
WriteToShell == Scrolls(Bottomed(emulator))

(* pasteClipboard: lines that would run at once are asked about first, while *)
(* the program goes on.                                                    *)
AskToPaste ==
    /\ widget.attached /\ widget.visible /\ ~asking /\ asking' = TRUE
    /\ UNCHANGED <<emulator, screen, pty, chosen, widget, find, changes, faults>>

PasteAnswered(confirmed) ==
    /\ asking /\ asking' = FALSE
    /\ IF confirmed /\ widget.attached
       THEN emulator' = Bottomed(emulator) /\ RenderChanged
       ELSE UNCHANGED <<emulator, widget>>
    /\ UNCHANGED <<screen, pty, chosen, find, changes, faults>>

-----------------------------------------------------------------------------
(* search: the rows that match, from the oldest, up to a number.            *)
Search(lines) ==
    LET hits == {k \in DOMAIN lines : lines[k] = "hit"}
        found == IF Cardinality(hits) < MaxMatches THEN Cardinality(hits) ELSE MaxMatches
    IN  [n \in 1..found |-> CHOOSE k \in hits : Cardinality({j \in hits : j <= k}) = n]

(* revealMatch: the row is selected and brought to the middle.  A row that is *)
(* not there changes nothing.                                              *)
Revealed(e, row) ==
    IF row \notin DOMAIN e.lines THEN e
    ELSE ScrolledTo([e EXCEPT !.selection = row], row - 1 - ViewRows \div 2)

Reveals(matches, k) ==
    LET row == IF k = 0 THEN 0 ELSE matches[k] IN
    /\ find' = [matches |-> matches, current |-> k]
    /\ emulator' = Revealed(emulator, row)
    /\ IF row \in DOMAIN emulator.lines THEN RenderChanged ELSE UNCHANGED widget
    /\ UNCHANGED <<screen, pty, chosen, asking, changes, faults>>

RefreshMatches ==
    /\ widget.attached /\ emulator.alive
    /\ LET matches == Search(emulator.lines) IN Reveals(matches, IF matches = <<>> THEN 0 ELSE 1)

StepMatch(forward) ==
    /\ widget.attached /\ find.matches # <<>>
    /\ LET count == Len(find.matches)
           step == IF forward THEN find.current ELSE find.current - 2
       IN  Reveals(find.matches, ((step + count) % count) + 1)

DismissFindBar ==
    /\ find # NoMatches /\ find' = NoMatches
    /\ emulator' = Unselected(emulator)
    /\ RenderChanged
    /\ UNCHANGED <<screen, pty, chosen, asking, changes, faults>>

-----------------------------------------------------------------------------
(* scheduleTerminalResize.                                                 *)
Scheduled(w) == [w EXCEPT !.resizeDue = @ \/ w.visible]

(* resizeEvent, and setTerminalFont, which changes what fits.               *)
ResizeEvent(size) ==
    /\ widget.attached /\ widget.size # size /\ changes < MaxChanges /\ changes' = changes + 1
    /\ widget' = Scheduled([widget EXCEPT !.size = size])
    /\ UNCHANGED <<emulator, screen, pty, chosen, find, asking, faults>>

\* Mutant of Recorded: the size is the session's before the shell has it.
RecordedFirst(s, accepted) == [s EXCEPT !.size = widget.size]

(* m_columns and m_rows are what both the emulator and the shell took.       *)
Recorded(s, accepted) == IF accepted THEN [s EXCEPT !.size = widget.size] ELSE s

(* updateTerminalSize and TerminalSession::resize: the emulator, then the     *)
(* shell if it runs.                                                       *)
UpdateTerminalSize ==
    /\ widget.resizeDue
    /\ UNCHANGED <<chosen, find, asking, changes>>
    /\ LET settled == [widget EXCEPT !.resizeDue = FALSE] IN
       \/ /\ widget.size = screen.size
          /\ widget' = settled /\ UNCHANGED <<emulator, screen, pty, faults>>
       \/ /\ widget.size # screen.size /\ emulator.alive
          /\ emulator' = Resized(emulator, widget.size)
          /\ screen' = Recorded(screen, TRUE)
          /\ pty' = IF screen.running THEN widget.size ELSE pty
          /\ widget' = Behind(settled)
          /\ UNCHANGED faults
       \/ /\ widget.size # screen.size /\ emulator.alive /\ screen.running
          /\ faults < MaxMishaps /\ faults' = faults + 1
          /\ emulator' = Resized(emulator, widget.size)
          /\ screen' = Recorded(screen, FALSE)
          /\ widget' = [settled EXCEPT !.fresh = FALSE] /\ UNCHANGED pty
       \/ /\ widget.size # screen.size /\ ~emulator.alive
          /\ widget' = settled /\ UNCHANGED <<emulator, screen, pty, faults>>

(* refreshSnapshot.                                                        *)
RefreshSnapshot ==
    /\ widget.renderDue /\ widget' = [widget EXCEPT !.renderDue = FALSE, !.fresh = TRUE]
    /\ UNCHANGED <<emulator, screen, pty, chosen, find, asking, changes, faults>>

\* Mutant of Uncovered: a terminal that is shown again waits for the next output.
UncoveredAsItWas(w) == Scheduled([w EXCEPT !.visible = TRUE])

Uncovered(w) == [Scheduled([w EXCEPT !.visible = TRUE]) EXCEPT !.renderDue = TRUE]

ShowEvent ==
    /\ widget.attached /\ ~widget.visible /\ widget' = Uncovered(widget)
    /\ UNCHANGED <<emulator, screen, pty, chosen, find, asking, changes, faults>>

(* hideEvent: both timers stop.                                            *)
HideEvent ==
    /\ widget.visible /\ ~asking
    /\ widget' = [widget EXCEPT !.visible = FALSE, !.renderDue = FALSE, !.resizeDue = FALSE]
    /\ UNCHANGED <<emulator, screen, pty, chosen, find, asking, changes, faults>>

(* setSession, by a new pane and by one that is retired.                    *)
SetSession(size) ==
    /\ ~widget.attached /\ changes < MaxChanges /\ changes' = changes + 1
    /\ widget' = [Nowhere(size) EXCEPT !.attached = TRUE]
    /\ find' = NoMatches
    /\ UNCHANGED <<emulator, screen, pty, chosen, asking, faults>>

Deactivate ==
    /\ widget.attached /\ ~asking
    /\ widget' = Nowhere(widget.size) /\ find' = NoMatches
    /\ UNCHANGED <<emulator, screen, pty, chosen, asking, changes, faults>>

-----------------------------------------------------------------------------
(* WorkspaceManager::setTerminalTheme and TerminalSession::setTheme: an       *)
(* emulator that did not start refuses, and the session keeps its own.       *)
SetTheme(theme) ==
    /\ theme # chosen /\ chosen' = theme
    /\ IF emulator.alive
       THEN /\ emulator' = Themed(emulator, theme)
            /\ screen' = [screen EXCEPT !.theme = theme]
            /\ RenderChanged
       ELSE UNCHANGED <<emulator, screen, widget>>
    /\ UNCHANGED <<pty, find, asking, changes, faults>>

ProcessExited ==
    /\ screen.running /\ screen' = [screen EXCEPT !.running = FALSE]
    /\ RenderChanged
    /\ UNCHANGED <<emulator, pty, chosen, find, asking, changes, faults>>

(* restart, start and initialize: a new emulator of the session's size and    *)
(* theme, and a new shell; either may fail.                                *)
RestartSession ==
    /\ changes < MaxChanges /\ changes' = changes + 1
    /\ UNCHANGED <<chosen, find, asking>>
    /\ \/ /\ emulator' = Blank(screen.size, screen.theme)
          /\ screen' = [screen EXCEPT !.running = TRUE] /\ pty' = screen.size
          /\ RenderChanged /\ UNCHANGED faults
       \/ /\ faults < MaxMishaps /\ faults' = faults + 1
          /\ \E lives \in BOOLEAN :
                emulator' = [Blank(screen.size, screen.theme) EXCEPT !.alive = lives]
          /\ screen' = [screen EXCEPT !.running = FALSE]
          /\ widget' = [widget EXCEPT !.fresh = @ /\ ~widget.attached] /\ UNCHANGED pty

ScreenNext ==
    \/ ClearScrollback \/ ScrollToTop \/ ClearSelection \/ WriteToShell \/ AskToPaste
    \/ RefreshMatches \/ DismissFindBar \/ UpdateTerminalSize \/ RefreshSnapshot
    \/ ShowEvent \/ HideEvent \/ Deactivate \/ ProcessExited \/ RestartSession
    \/ \E line \in Lines : FlushLine(line)
    \/ \E rows \in {-ViewRows, -1, 1, ViewRows} : ScrollViewport(rows)
    \/ \E row \in 0..MaxLines : ScrollToRow(row) \/ SelectRow(row)
    \/ \E yes \in BOOLEAN : StepMatch(yes) \/ PasteAnswered(yes)
    \/ \E size \in GridSizes : ResizeEvent(size) \/ SetSession(size)
    \/ \E theme \in Themes : SetTheme(theme)

ScreenSpec == ScreenInit /\ [][ScreenNext]_screenVars

-----------------------------------------------------------------------------
ScreenTypeOK ==
    /\ emulator \in [alive : BOOLEAN, size : GridSizes, theme : Themes, lines : Seq(Lines),
                     offset : 0..MaxLines, selection : 0..MaxLines]
    /\ Len(emulator.lines) <= MaxLines /\ emulator.offset <= Highest(emulator)
    /\ screen \in [size : GridSizes, theme : Themes, running : BOOLEAN]
    /\ pty \in GridSizes /\ chosen \in Themes
    /\ widget \in [attached : BOOLEAN, visible : BOOLEAN, size : GridSizes,
                   renderDue : BOOLEAN, resizeDue : BOOLEAN, fresh : BOOLEAN]
    /\ Len(find.matches) <= MaxMatches /\ find.current \in 0..Len(find.matches)
    /\ asking \in BOOLEAN /\ changes \in 0..MaxChanges /\ faults \in 0..MaxMishaps

(* What can be seen is current, or is about to be drawn, and the size it has  *)
(* is the session's, or is about to be: hiding, showing and another pane in   *)
(* any order leave neither timer stopped with something to do.               *)
NothingSeenIsBehind ==
    faults = 0 /\ widget.attached /\ widget.visible =>
       /\ widget.fresh \/ widget.renderDue
       /\ widget.size = screen.size \/ widget.resizeDue

(* The shell that runs sees the size its session has written down, whatever   *)
(* failed: otherwise the session would answer that there is nothing to do,    *)
(* and never ask the shell again (TerminalSession.cpp:268).                  *)
ShellHasTheSize == screen.running => pty = screen.size

(* What is seen is the screen of the shell, and the shell has the size of what *)
(* is seen.                                                                *)
ScreenIsCurrent == NothingSeenIsBehind /\ ShellHasTheSize

(* Every session wears the theme that was chosen, and one that is started     *)
(* again does too.                                                         *)
ThemeIsWorn == faults = 0 => emulator.theme = chosen

(* Every match is marked so that the reader sees how they are spread          *)
(* (TerminalWidget.cpp:263): what is marked is a match.                      *)
MarksAreOfMatches ==
    \A k \in DOMAIN find.matches :
       /\ find.matches[k] \in DOMAIN emulator.lines
       /\ emulator.lines[find.matches[k]] = "hit"
=============================================================================
