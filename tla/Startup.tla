-------------------------------- MODULE Startup --------------------------------
(***************************************************************************)
(* How the application comes up and goes down (app/Application.cpp, the       *)
(* lifecycle of plugins/PluginManager.cpp, ui/MainWindow.cpp), one run after  *)
(* another in one data directory: the lock, the plugins that are registered,   *)
(* initialized once what they depend on is, and shut down the other way round, *)
(* the marker of a clean end, and what a start has to tell.                  *)
(*                                                                         *)
(* The bus between the plugins is in PluginBus, an import that waits for the   *)
(* start in ConfigurationTransfer, the database itself in StateStore.         *)
(***************************************************************************)
EXTENDS Naturals, SequencesExt

CONSTANTS
    Plugins,        \* m_plugins, in the order of their files
    DependsOn,      \* PluginInterface::dependencies
    Patient,        \* whether starts that were begun are completed
    MaxFaults       \* bound: crashes, failures and replaced databases

VARIABLES
    step,           \* where the application is
    lock,           \* instance.lock: "free", "held", or "stale" after a crash
    registered,     \* how many of the plugins are registered
    pending, index, progressed,     \* the loops of PluginManager::initialize
    initialized,    \* m_initializedPlugins
    leaving,        \* those shutdown has still to shut down
    up,             \* the plugins that hold their host
    marker,         \* core_state.clean_shutdown
    recovered,      \* m_recoveredFromUncleanShutdown
    replaced,       \* m_replacedDatabasePath is set
    window,         \* "none", "loading", "ready"
    untold,         \* history: what happened and was not told
    faults          \* bound: what went wrong so far

startupVars == <<step, lock, registered, pending, index, progressed, initialized, leaving, up, marker, recovered,
                 replaced, window, untold, faults>>

registry == <<registered, pending, index, progressed, initialized, leaving, up>>

StartupInit ==
    /\ step = "down" /\ lock = "free"
    /\ registered = 0 /\ pending = <<>> /\ index = 0 /\ progressed = FALSE
    /\ initialized = <<>> /\ leaving = <<>> /\ up = {}
    /\ marker = TRUE /\ recovered = FALSE /\ replaced = FALSE
    /\ window = "none" /\ untold = {} /\ faults = 0

MayFail == faults < MaxFaults /\ faults' = faults + 1
Goes(to) == step' = to
SomeStart == {"loading", "opening", "marking", "window", "initializing", "building"}

(* A start that fails ends the process the same way a user does.            *)
Fails == ~Patient /\ MayFail /\ Goes("stopping")

-----------------------------------------------------------------------------
(* initialize: one instance; a lock that was left behind is taken over.       *)
Launch ==
    /\ step = "down" /\ lock # "held" /\ lock' = "held" /\ Goes("loading")
    /\ UNCHANGED <<registry, marker, recovered, replaced, window, untold, faults>>

(* loadPlugins, registerPlugin: all of them, or none stays.                  *)
LoadPlugin ==
    /\ step = "loading"
    /\ \/ registered < Len(Plugins) /\ registered' = registered + 1 /\ UNCHANGED <<step, faults>>
       \/ registered = Len(Plugins) /\ Goes("opening") /\ UNCHANGED <<registered, faults>>
       \/ Fails /\ registered' = 0
    /\ UNCHANGED <<lock, pending, index, progressed, initialized, leaving, up, marker, recovered, replaced, window, untold>>

(* The database is opened, and perhaps replaced by an empty one.             *)
OpenStateStore ==
    /\ step = "opening"
    /\ \/ Goes("marking") /\ UNCHANGED <<marker, replaced, untold, faults>>
       \/ /\ MayFail /\ Goes("marking")
          /\ replaced' = TRUE /\ marker' = TRUE
          /\ untold' = (untold \ {"recovered"}) \cup {"replaced"}
       \/ Fails /\ UNCHANGED <<marker, replaced, untold>>
    /\ UNCHANGED <<lock, registry, recovered, window>>

(* wasCleanShutdown, markShutdown(false).                                   *)
MarkStarted ==
    /\ step = "marking" /\ Goes("window")
    /\ recovered' = ~marker /\ marker' = FALSE
    /\ UNCHANGED <<lock, registry, replaced, window, untold, faults>>

LoadInterface ==
    /\ step = "window" /\ window' = "loading"
    /\ Goes("initializing")
    /\ pending' = [i \in DOMAIN Plugins |-> Plugins[i]] /\ index' = Len(Plugins) /\ progressed' = FALSE
    /\ UNCHANGED <<lock, registered, initialized, leaving, up, marker, recovered, replaced, untold, faults>>

-----------------------------------------------------------------------------
\* Mutant of DependenciesReady: they need only be registered.
DependenciesLoaded(p) == TRUE

DependenciesReady(p) == DependsOn[p] \subseteq Range(initialized)

(* PluginManager::initialize goes through what is pending, the last first,    *)
(* again and again; a plugin that fails takes down all of them.              *)
InitializePlugin ==
    /\ step = "initializing" /\ index > 0
    /\ LET p == pending[index] IN
       \/ /\ ~DependenciesReady(p) /\ index' = index - 1
          /\ UNCHANGED <<step, pending, progressed, initialized, up, faults>>
       \/ /\ DependenciesReady(p) /\ index' = index - 1
          /\ initialized' = Append(initialized, p) /\ up' = up \cup {p}
          /\ pending' = RemoveAt(pending, index) /\ progressed' = TRUE
          /\ UNCHANGED <<step, faults>>
       \/ DependenciesReady(p) /\ Fails /\ UNCHANGED <<pending, index, progressed, initialized, up>>
    /\ UNCHANGED <<lock, registered, leaving, marker, recovered, replaced, window, untold>>

NextPass ==
    /\ step = "initializing" /\ index = 0
    /\ CASE pending = <<>> -> Goes("building") /\ UNCHANGED <<index, progressed>>
         [] pending # <<>> /\ progressed -> index' = Len(pending) /\ progressed' = FALSE /\ UNCHANGED step
         [] OTHER -> Goes("stopping") /\ UNCHANGED <<index, progressed>>
    /\ UNCHANGED <<lock, registered, pending, initialized, leaving, up, marker, recovered, replaced, window, untold, faults>>

(* buildInterface makes a view of each; completeStartup then tells what the   *)
(* reader has to know.                                                      *)
BuildInterface ==
    /\ step = "building"
    /\ \/ /\ Goes("running") /\ window' = "ready"
          /\ untold' = untold \ ((IF recovered THEN {"recovered"} ELSE {}) \cup (IF replaced THEN {"replaced"} ELSE {}))
          /\ UNCHANGED faults
       \/ Fails /\ UNCHANGED <<window, untold>>
    /\ UNCHANGED <<lock, registry, marker, recovered, replaced>>

-----------------------------------------------------------------------------
(* The window is closed: while it loads, without a question (closeEvent).     *)
CloseWindow ==
    /\ \/ step = "running"
       \/ /\ step = "initializing" /\ up = {}
          /\ index = Len(Plugins) /\ ~Patient
    /\ Goes("stopping")
    /\ UNCHANGED <<lock, registry, marker, recovered, replaced, window, untold, faults>>

\* Mutant of LeavingOrder: in the order they came.
LeavingSame == initialized

\* Mutant of LeavingOrder: the loop ends before the first of them.
LeavingButFirst == IF initialized = <<>> THEN <<>> ELSE Reverse(Tail(initialized))

LeavingOrder == Reverse(initialized)

(* shutdown: the window, the plugins, and then the executor, whose writes are *)
(* done; the marker is the last of it.                                      *)
Shutdown ==
    /\ step = "stopping" /\ Goes("leaving")
    /\ window' = "none" /\ leaving' = LeavingOrder
    /\ UNCHANGED <<lock, registered, pending, index, progressed, initialized, up, marker, recovered, replaced, untold, faults>>

ShutdownPlugin ==
    /\ step = "leaving" /\ leaving # <<>>
    /\ up' = up \ {Head(leaving)} /\ leaving' = Tail(leaving)
    /\ UNCHANGED <<step, lock, registered, pending, index, progressed, initialized, marker, recovered, replaced, window,
                   untold, faults>>

UnloadPlugins ==
    /\ step = "leaving" /\ leaving = <<>> /\ Goes("unloaded")
    /\ initialized' = <<>> /\ pending' = <<>> /\ index' = 0 /\ progressed' = FALSE /\ registered' = 0
    /\ UNCHANGED <<lock, leaving, up, marker, recovered, replaced, window, untold, faults>>

MarkEnded ==
    /\ step = "unloaded" /\ Goes("down")
    /\ marker' = TRUE /\ lock' = "free" /\ recovered' = FALSE /\ replaced' = FALSE
    /\ UNCHANGED <<registry, window, untold, faults>>

Crash ==
    /\ step # "down" /\ MayFail /\ (step \in SomeStart => ~Patient)
    /\ Goes("down") /\ lock' = "stale"
    /\ registered' = 0 /\ pending' = <<>> /\ index' = 0 /\ progressed' = FALSE
    /\ initialized' = <<>> /\ leaving' = <<>> /\ up' = {}
    /\ recovered' = FALSE /\ replaced' = FALSE /\ window' = "none"
    /\ untold' = IF marker THEN untold ELSE untold \cup {"recovered"}
    /\ UNCHANGED marker

StartupNext ==
    \/ Launch \/ LoadPlugin \/ OpenStateStore \/ MarkStarted \/ LoadInterface
    \/ InitializePlugin \/ NextPass \/ BuildInterface
    \/ CloseWindow \/ Shutdown \/ ShutdownPlugin \/ UnloadPlugins \/ MarkEnded \/ Crash

(* Each step of a start and of an end follows from the one before.           *)
StartupFairness ==
    /\ WF_startupVars(LoadPlugin) /\ WF_startupVars(OpenStateStore) /\ WF_startupVars(MarkStarted)
    /\ WF_startupVars(LoadInterface) /\ WF_startupVars(InitializePlugin) /\ WF_startupVars(NextPass)
    /\ WF_startupVars(BuildInterface) /\ WF_startupVars(Shutdown) /\ WF_startupVars(ShutdownPlugin)
    /\ WF_startupVars(UnloadPlugins) /\ WF_startupVars(MarkEnded)

-----------------------------------------------------------------------------
(* A plugin that is up finds those it depends on up, while they come and      *)
(* while they go, however a start ends (PluginManager::initialize, shutdown). *)
DependenciesAreUp == \A p \in up : DependsOn[p] \subseteq up

(* A start comes to an end: the application runs or it is down again, with    *)
(* none of its plugins up.                                                  *)
StartsComeToAnEnd == (step = "loading") ~> (step = "running" \/ (step = "down" /\ up = {}))

(* "A database that had to be replaced is named to the reader once"           *)
(* (Application.cpp:151), and so is an end that was not clean: once the        *)
(* application runs nothing is left untold.                                 *)
NothingIsLeftUntold == step = "running" => untold = {}
=============================================================================
