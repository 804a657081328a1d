----------------------------- MODULE PluginBus -----------------------------
(***************************************************************************)
(* The requests plugins make of each other (plugins/PluginManager.cpp):      *)
(* request, the answer, its timeout, the end of the object that asked, and  *)
(* the start and the end of the plugins.                                    *)
(*                                                                         *)
(* A request is a number of m_nextRequestId.  Everything but a timeout is   *)
(* posted to the event loop and delivered later; posted calls are sets, so  *)
(* they are delivered in any order, of which Qt's is one.  The loop does    *)
(* not run while plugins are initialized or shut down.  Payloads, published *)
(* messages, which wait for no answer, and requests without a reply, which  *)
(* return at once, are left out.                                           *)
(***************************************************************************)
EXTENDS Naturals

CONSTANTS
    Plugins,
    DependsOn,    \* PluginInterface::dependencies
    Requests,     \* bound: requests made
    Contexts      \* the objects answers are called on

VARIABLES
    stage,         \* "loaded", "starting", "ready" (m_initialized) or "ended"
    initialized,   \* m_initializedPlugins
    alive,         \* the contexts that live
    context,       \* PendingPluginRequest::callbackContext, of each request made
    target,        \* the plugin each was made of
    pending,       \* m_pendingRequests
    timing,        \* those whose timeout is going
    decided,       \* those that have a result
    replies,       \* those whose reply can still be called
    arriving,      \* posted: handleRequest of the target
    handled,       \* those whose target was given them, and may answer
    results,       \* posted: completeRequest
    calls,         \* posted: the reply, to its context
    leaving,       \* posted: removeRequest
    called           \* times the reply was called

plugins == <<stage, initialized>>
askers == <<alive, context, target>>
entries == <<pending, timing, decided, replies>>
busVars == <<plugins, askers, entries, arriving, handled, results, calls, leaving, called>>

Of(c) == {r \in DOMAIN context : context[r] = c}
LoopRuns == stage \in {"ready", "ended"}

Status(r) ==
    CASE called[r] > 1 -> "called again"
      [] called[r] = 1 -> "answered"
      [] called[r] = 0 /\ r \in replies -> "asked"
      [] called[r] = 0 /\ r \notin replies -> "dropped"

Promise == INSTANCE RequestPromise WITH
    asker <- context, status <- [r \in DOMAIN context |-> Status(r)], open <- stage # "ended"

BusInit ==
    /\ stage = "loaded" /\ initialized = {}
    /\ alive = Contexts
    /\ context = [r \in {} |-> r] /\ target = [r \in {} |-> r]
    /\ pending = {} /\ timing = {} /\ decided = {} /\ replies = {}
    /\ arriving = {} /\ handled = {} /\ results = {}
    /\ calls = {} /\ leaving = {} /\ called = [r \in Requests |-> 0]

-----------------------------------------------------------------------------
\* Mutant of Removed: the reply stays with whoever holds the request.
RemovedHeld(S) ==
    /\ pending' = pending \ S /\ timing' = timing \ S /\ decided' = decided \ S
    /\ UNCHANGED replies

(* removeRequest, of some of the pending ones: the timeout is stopped and    *)
(* the reply let go, also for a call of it that is posted.                  *)
Removed(S) ==
    /\ pending' = pending \ S /\ timing' = timing \ S
    /\ decided' = decided \ S /\ replies' = replies \ S

(* respond: completeRequest is posted, whoever answers.                     *)
Respond(r) == results' = results \cup {r}

(* completeRequest: the first result counts, and the timeout is stopped.  It *)
(* is handed to a call posted to the context.                             *)
Complete(r) ==
    IF r \in pending /\ r \notin decided
    THEN IF context[r] \in alive
         THEN /\ decided' = decided \cup {r} /\ timing' = timing \ {r}
              /\ calls' = calls \cup {r}
              /\ UNCHANGED <<pending, replies>>
         ELSE Removed({r}) /\ UNCHANGED calls
    ELSE UNCHANGED <<entries, calls>>

-----------------------------------------------------------------------------
(* initialize, plugin by plugin, each after those it depends on.  Which of  *)
(* those that could be next is next is left open.                           *)
StartPlugins == stage = "loaded" /\ stage' = "starting" /\ UNCHANGED <<initialized, askers, entries, arriving, handled, results, calls, leaving, called>>

InitializePlugin(p) ==
    /\ stage = "starting" /\ p \notin initialized /\ DependsOn[p] \subseteq initialized
    /\ initialized' = initialized \cup {p}
    /\ UNCHANGED <<stage, askers, entries, arriving, handled, results, calls, leaving, called>>

PluginsReady ==
    /\ stage = "starting" /\ initialized = Plugins
    /\ stage' = "ready"
    /\ UNCHANGED <<initialized, askers, entries, arriving, handled, results, calls, leaving, called>>

(* shutdown, of a plugin manager in use or of one that could not initialize  *)
(* a plugin: cancelRequests, and the plugins in reverse.  Nothing is asked   *)
(* after it: the windows are gone before, and plugins ask nothing at their   *)
(* end.                                                                    *)
ShutdownPlugins ==
    /\ stage \in {"starting", "ready"}
    /\ stage' = "ended" /\ initialized' = {}
    /\ Removed(pending)
    /\ UNCHANGED <<askers, arriving, handled, results, calls, leaving, called>>

-----------------------------------------------------------------------------
(* request: the timeout is started before anything is looked at, so that     *)
(* what cannot be delivered is answered in the same way.                     *)
Request(r, c, p) ==
    /\ stage \in {"starting", "ready"} /\ r \notin DOMAIN context /\ c \in alive
    /\ context' = Promise!With(context, r, c) /\ target' = Promise!With(target, r, p)
    /\ pending' = pending \cup {r} /\ timing' = timing \cup {r} /\ replies' = replies \cup {r}
    /\ \/ p \in initialized /\ arriving' = arriving \cup {r} /\ UNCHANGED results
       \/ Respond(r) /\ UNCHANGED arriving      \* refused
    /\ UNCHANGED <<plugins, alive, decided, handled, calls, leaving, called>>

(* The posted call of handleRequest finds its plugin, or answers itself.     *)
HandleRequest(r) ==
    /\ LoopRuns /\ r \in arriving
    /\ arriving' = arriving \ {r}
    /\ IF stage = "ready" /\ target[r] \in initialized
       THEN handled' = handled \cup {r} /\ UNCHANGED results
       ELSE Respond(r) /\ UNCHANGED handled
    /\ UNCHANGED <<plugins, askers, entries, calls, leaving, called>>

(* The plugin that was asked answers, now or later, several times or never.  *)
Answer(r) ==
    /\ LoopRuns /\ r \in handled
    /\ Respond(r)
    /\ UNCHANGED <<plugins, askers, entries, arriving, handled, calls, leaving, called>>

DeliverResult(r) ==
    /\ LoopRuns /\ r \in results
    /\ results' = results \ {r}
    /\ Complete(r)
    /\ UNCHANGED <<plugins, askers, arriving, handled, leaving, called>>

Timeout(r) ==
    /\ LoopRuns /\ r \in timing
    /\ Complete(r)
    /\ UNCHANGED <<plugins, askers, arriving, handled, results, leaving, called>>

(* The call on the context: the reply is taken out before it is called, and  *)
(* removeRequest is posted.                                                 *)
Call(r) ==
    /\ LoopRuns /\ r \in calls
    /\ calls' = calls \ {r} /\ leaving' = leaving \cup {r}
    /\ called' = [called EXCEPT ![r] = IF r \in replies THEN @ + 1 ELSE @]
    /\ replies' = replies \ {r}
    /\ UNCHANGED <<plugins, askers, pending, timing, decided, arriving, handled, results>>

Leave(r) ==
    /\ LoopRuns /\ r \in leaving
    /\ leaving' = leaving \ {r}
    /\ Removed({r} \cap pending)
    /\ UNCHANGED <<plugins, askers, arriving, handled, results, calls, called>>

\* Mutant of Guarded: a request that has its result is not watched any more.
GuardedUndecided(c) == (pending \ decided) \cap Of(c)

Guarded(c) == pending \cap Of(c)

(* The context ends, and contextGuard hears of it; Qt drops what is posted   *)
(* to it.                                                                  *)
EndContext(c) ==
    /\ stage # "loaded" /\ c \in alive
    /\ alive' = alive \ {c}
    /\ Removed(Guarded(c))
    /\ calls' = calls \ Of(c)
    /\ UNCHANGED <<plugins, context, target, arriving, handled, results, leaving, called>>

BusNext ==
    \/ StartPlugins \/ PluginsReady \/ ShutdownPlugins
    \/ \E p \in Plugins : InitializePlugin(p)
    \/ \E r \in Requests, c \in Contexts, p \in Plugins : Request(r, c, p)
    \/ \E r \in Requests :
          HandleRequest(r) \/ Answer(r) \/ DeliverResult(r) \/ Timeout(r) \/ Call(r) \/ Leave(r)
    \/ \E c \in Contexts : EndContext(c)

BusSpec == BusInit /\ [][BusNext]_busVars

-----------------------------------------------------------------------------
BusTypeOK ==
    /\ stage \in {"loaded", "starting", "ready", "ended"} /\ initialized \subseteq Plugins
    /\ alive \subseteq Contexts
    /\ DOMAIN context \subseteq Requests /\ context \in [DOMAIN context -> Contexts]
    /\ target \in [DOMAIN context -> Plugins]
    /\ pending \subseteq Requests /\ timing \subseteq Requests
    /\ decided \subseteq Requests /\ replies \subseteq Requests
    /\ arriving \subseteq Requests /\ calls \subseteq Requests /\ leaving \subseteq Requests
    /\ handled \subseteq Requests /\ results \subseteq Requests
    /\ called \in [Requests -> Nat]

(* A request that is pending comes to an end without anybody's help: its    *)
(* timeout is going, or its reply is about to be called, or it is about to  *)
(* be removed; and what is no longer pending keeps no timeout and no reply. *)
NoRequestIsForgotten ==
    /\ pending = timing \cup (pending \cap calls) \cup (pending \cap leaving)
    /\ timing \cup decided \cup replies \subseteq pending
    /\ \A r \in pending : context[r] \in alive

(* The reply is called once at most, on a context that lives, and not after  *)
(* the context or the bus has ended, however answers, timeouts, ends of     *)
(* contexts and the shutdown meet.                                         *)
RequestsAreSettledOnce == Promise!Spec
=============================================================================
