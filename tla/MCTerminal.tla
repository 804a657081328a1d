------------------------------- MODULE MCTerminal -------------------------------
(***************************************************************************)
(* What is between a reader and a shell, for TLC: a session and its         *)
(* processes (TerminalSession), the pseudo-console and its threads where    *)
(* the system has those (ConPty), its screen, the mouse and the focus of    *)
(* the panes it is shown in, and the setting its programs depend on.  One  *)
(* of them is chosen at the start and moves alone.                         *)
(***************************************************************************)
EXTENDS TerminalSession, TerminalScreen, TerminalPlugin, ConPty

VARIABLE part

TerminalInit ==
    /\ part \in {"session", "screen", "mouse", "settings", "windows"}
    /\ Init /\ ScreenInit /\ InputInit /\ SettingsInit /\ ConInit
    /\ part # "screen" => emulator.size = 1 /\ emulator.theme = "dark"
    /\ part # "settings" => DOMAIN emulators = Terminals

Session == part = "session" /\ Next /\ UNCHANGED <<part, conVars, screenVars, inputVars, settingsVars>>
OnScreen == part = "screen" /\ ScreenNext /\ UNCHANGED <<part, conVars, vars, inputVars, settingsVars>>
AtTheMouse == part = "mouse" /\ InputNext /\ UNCHANGED <<part, conVars, vars, screenVars, settingsVars>>
InSettings == part = "settings" /\ SettingsNext /\ UNCHANGED <<part, conVars, vars, screenVars, inputVars>>
OnWindows == part = "windows" /\ ConNext /\ UNCHANGED <<part, vars, screenVars, inputVars, settingsVars>>

TerminalNext == Session \/ OnScreen \/ AtTheMouse \/ InSettings \/ OnWindows

(* At the start a session has no process and nothing pending, and a console   *)
(* no threads: where they stand still, their fairness asks for nothing.     *)
TerminalSpec ==
    /\ TerminalInit /\ [][TerminalNext]_<<part, vars, conVars, screenVars, inputVars, settingsVars>>
    /\ Fairness /\ ConFairness

-----------------------------------------------------------------------------
(* Every reachable value of each of them has its type, and no button of the    *)
(* mouse stays pressed for a program that took what it was told                *)
(* (TerminalPlugin's NoButtonSticks, of one session and two panes).            *)
TerminalTypeOK ==
    /\ TypeOK /\ ConTypeOK /\ ScreenTypeOK /\ InputTypeOK /\ SettingsTypeOK
    /\ NoButtonSticks

(* Nothing stops for good: a session whose output was paused gets it again      *)
(* (TerminalSession), and a terminal that is ended ends (ConPty).            *)
NothingStopsForGood == PauseEnds /\ TerminationEnds
=============================================================================
