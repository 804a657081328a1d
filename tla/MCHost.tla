-------------------------------- MODULE MCHost --------------------------------
(***************************************************************************)
(* What the application owns and is started with, for TLC: an import that    *)
(* waits for a start, the database itself, the plugins coming up and going     *)
(* down, the web servers and the connections of one, and the tabs and         *)
(* bookmarks of the browser.  What is modelled of them shares no state: one    *)
(* is chosen at the start and moves alone.                                  *)
(***************************************************************************)
EXTENDS ConfigurationTransfer, StateStore, WebServer

CONSTANTS
    HostPlugins, HostDependsOn, MaxStartFaults,                     \* those of Startup
    PageTabs, BookmarkGroups, Bookmarks, PageAddresses, NoGroup,    \* those of Browser
    MaxChanges, MaxBrowserFaults

ASSUME PagesAssumption == PageTabs # {} /\ PageAddresses # {}

VARIABLES
    part,
    startStep, lock, registered, starting, index, progressed, initialized, leaving, up, marker, recovered, replaced,
    window, untold, startFaults,
    running, memory, committed, revision, committedRevision, browserWrites, results, tables, bar, current, changes,
    browserFaults

(* A schema, the next one, and another definition of that.                  *)
ThreeBuilds ==
    {[version |-> 1, edition |-> 1], [version |-> 2, edition |-> 1], [version |-> 2, edition |-> 2]}

(* Removing the log of the database that an import replaced is the operation *)
(* whose failure loses the configuration (see the findings).               *)
AllButReplaceLog == Operations \ {"replace_log"}

AiLogsTerminal == <<"ai", "logs", "terminal">>
NeedLogs == [p \in {"ai", "logs", "terminal"} |-> {"logs"} \ {p}]

Application == INSTANCE Startup WITH
    Plugins <- HostPlugins, DependsOn <- HostDependsOn, Patient <- FALSE, MaxFaults <- MaxStartFaults, step <- startStep, pending <- starting, faults <- startFaults

Pages == INSTANCE Browser WITH
    Tabs <- PageTabs, Groups <- BookmarkGroups, Marks <- Bookmarks, Addresses <- PageAddresses, Spaced <- {},
    None <- NoGroup, MaxFaults <- MaxBrowserFaults, writes <- browserWrites, stored <- tables, faults <- browserFaults

startVars == <<startStep, lock, registered, starting, index, progressed, initialized, leaving, up, marker, recovered,
               replaced, window, untold, startFaults>>
pageVars == <<running, memory, committed, revision, committedRevision, browserWrites, results, tables, bar, current,
              changes, browserFaults>>
hostVars == <<part, vars, stateVars, startVars, webVars, connectionVars, pageVars>>

HostInit ==
    /\ part \in {"import", "store", "start", "web", "connections", "browser"}
    /\ Init /\ StateInit /\ Application!StartupInit /\ WebInit /\ ConnectionsInit
    /\ Pages!BrowserInit

Importing == part = "import" /\ Next /\ UNCHANGED <<part, stateVars, startVars, webVars, connectionVars, pageVars>>
Storing ==
    part = "store" /\ StateNext /\ UNCHANGED <<part, vars, startVars, webVars, connectionVars, pageVars>>
Starting ==
    part = "start" /\ Application!StartupNext /\ UNCHANGED <<part, vars, stateVars, webVars, connectionVars, pageVars>>
Serving == part = "web" /\ WebNext /\ UNCHANGED <<part, vars, stateVars, startVars, connectionVars, pageVars>>
Answering ==
    /\ part = "connections" /\ ConnectionsNext
    /\ UNCHANGED <<part, vars, stateVars, startVars, webVars, pageVars>>
Browsing == part = "browser" /\ Pages!BrowserNext /\ UNCHANGED <<part, vars, stateVars, startVars, webVars, connectionVars>>

HostNext == Importing \/ Storing \/ Starting \/ Serving \/ Answering \/ Browsing

HostSpec ==
    /\ HostInit /\ [][HostNext]_hostVars
    /\ Application!StartupFairness /\ ConnectionsFairness

-----------------------------------------------------------------------------
(* Every reachable value of the import has its type, and no undecided import is  *)
(* in use; one server belongs to a terminal (TerminalsAreApart); a plugin runs    *)
(* on the schema it declares (SchemaIsTheDeclaredOne); and the tabs that are      *)
(* shown are those of the browser, which writes nothing that the database refuses *)
(* or the next start does not accept (BarShowsTheTabs, NoChangeIsRefused,         *)
(* SessionIsAccepted).                                                     *)
HostTypeOK ==
    /\ TypeOK /\ NoUndecidedImportInUse
    /\ TerminalsAreApart /\ SchemaIsTheDeclaredOne
    /\ Pages!BarShowsTheTabs /\ Pages!NoChangeIsRefused /\ Pages!SessionIsAccepted

(* Of three plugins: those a plugin depends on are up as long as it is, and a    *)
(* start comes to an end (Startup's DependenciesAreUp and StartsComeToAnEnd).   *)
PluginsComeAndGoInOrder == []Application!DependenciesAreUp /\ Application!StartsComeToAnEnd

(* Of two clients of one server: a file arrives whole, a request is shown once,   *)
(* and a connection gives its place back (WebServer's FilesArriveWhole,       *)
(* RequestsAreShownOnce and PlacesAreGivenBack).                             *)
ConnectionsEndWhole ==
    [](FilesArriveWhole /\ RequestsAreShownOnce) /\ PlacesAreGivenBack
=============================================================================
