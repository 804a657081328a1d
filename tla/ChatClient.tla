----------------------------- MODULE ChatClient -----------------------------
(***************************************************************************)
(* AiHttpChatClient (plugins/ai/AiChatClient.cpp) over RequestGate: a client *)
(* asks the gate for a place, sends when it has one, streams the answer,    *)
(* gives the place back, tries again after a transient failure, and tells   *)
(* its run how the request ended.  The clients are the gate's contexts.      *)
(*                                                                         *)
(* What a run does with its client is AiPlugin's: it sends again only after  *)
(* an answer, and is done with the client when a request fails, when it is   *)
(* stopped, and when the run ends; it then disconnects the client and has   *)
(* it deleted later.  The content of streams and the length of delays are   *)
(* left out; command line clients use no gate.                              *)
(***************************************************************************)
EXTENDS RequestGate

CONSTANTS
    ProviderOf,    \* m_providerId of each client
    MaxRetries     \* ProviderDescriptor::requestMaxRetries

VARIABLES
    inFlight,     \* clients with m_reply
    retrying,     \* clients whose m_retryTimer is going
    attempt,      \* m_attempt
    completed,    \* clients with m_completed
    leaving,      \* clients that are to be deleted later
    owed          \* the runs that wait to be told how their request ended

clients == <<inFlight, retrying, attempt, completed, leaving, owed>>
chatVars == <<vars, clients>>

ChatInit ==
    /\ Init
    /\ inFlight = {} /\ retrying = {} /\ attempt = [c \in Contexts |-> 0]
    /\ completed = {} /\ leaving = {} /\ owed = {}

Of(c) == {r \in Requests : Owner[r] = c}
Holding(c) == gate[ProviderOf[c]].held \cap Of(c)

-----------------------------------------------------------------------------
(* releaseGate: the place in the queue and the slot, of which a client has   *)
(* one at most; with no slot to give back nothing is pumped.                *)
GiveBackAt(c) ==
    LET p == ProviderOf[c] IN
    \E q \in WithoutWaiter(gate[p].waiters, c) :
        IF Holding(c) = {}
        THEN gate' = [gate EXCEPT ![p].waiters = q]
        ELSE ReleaseAt(p, [gate[p] EXCEPT !.waiters = q], c)

GiveBack(c) == GiveBackAt(c) /\ Post({}) /\ UNCHANGED alive

(* acquireAndDispatch.                                                      *)
Ask(c) ==
    \E r \in Of(c) : ~Outstanding(r) /\ AcquireAt(ProviderOf[c], r) /\ Post({}) /\ UNCHANGED alive

(* What a run does when it is told of a failure: it ends.                   *)
Told(c) == owed' = owed \ {c} /\ leaving' = leaving \cup {c}

(* reportFailure: what was told already is not told again.                  *)
Reported(c) ==
    /\ completed' = completed \cup {c}
    /\ IF c \in completed THEN UNCHANGED <<owed, leaving>> ELSE Told(c)

ReportFailure(c) == GiveBack(c) /\ Reported(c)

-----------------------------------------------------------------------------
Usable(c) == c \in alive /\ c \notin leaving /\ c \notin owed

(* send, of a request that is sound, and of one that is refused, which is    *)
(* the first of its client: the connection is the same for all of a run.     *)
Send(c) ==
    /\ Usable(c) /\ c \notin inFlight
    /\ owed' = owed \cup {c} /\ completed' = completed \ {c}
    /\ attempt' = [attempt EXCEPT ![c] = 0]
    /\ Ask(c)
    /\ UNCHANGED <<inFlight, retrying, leaving>>

Refuse(c) ==
    /\ Usable(c) /\ c \notin completed
    /\ ReportFailure(c)
    /\ UNCHANGED <<inFlight, retrying, attempt>>

(* The gate's posted admission: dispatch, of a client that was cancelled     *)
(* meanwhile too, which has a request in flight without a place until it is *)
(* deleted; or a failure, when the key of the provider cannot be read now.  *)
Dispatch(r) ==
    /\ Deliver(r)
    /\ inFlight' = inFlight \cup {Owner[r]}
    /\ UNCHANGED <<retrying, attempt, completed, leaving, owed>>

DispatchFails(r) ==
    /\ r \in posted
    /\ GiveBackAt(Owner[r]) /\ Post({r}) /\ UNCHANGED alive
    /\ Reported(Owner[r])
    /\ UNCHANGED <<inFlight, retrying, attempt>>

(* A line of the stream that cannot be read, reports an error or is too      *)
(* much: reportFailure, and then cancel.  The lines after it change nothing. *)
StreamFails(c) ==
    /\ c \in inFlight
    /\ ReportFailure(c)
    /\ inFlight' = inFlight \ {c} /\ retrying' = retrying \ {c}
    /\ UNCHANGED attempt

(* The idle timer: nothing was read for too long.                           *)
IdleTimeout(c) ==
    /\ c \in inFlight
    /\ inFlight' = inFlight \ {c}
    /\ ReportFailure(c)
    /\ UNCHANGED <<retrying, attempt>>

(* completeStream: the answer is there, or its tool calls cannot be read, or *)
(* the request failed, for good or so that it is tried again.               *)
Finish(c) ==
    /\ c \in inFlight /\ inFlight' = inFlight \ {c}
    /\ IF c \in completed THEN UNCHANGED <<owed, completed>>
       ELSE owed' = owed \ {c} /\ completed' = completed \cup {c}
    /\ GiveBack(c)
    /\ UNCHANGED <<retrying, attempt, leaving>>

Fail(c) ==
    /\ c \in inFlight /\ inFlight' = inFlight \ {c}
    /\ ReportFailure(c)
    /\ UNCHANGED <<retrying, attempt>>

\* Mutant of Retry: the place is not given back while the client waits.
RetryHolding(c) ==
    /\ c \in inFlight /\ inFlight' = inFlight \ {c}
    /\ attempt[c] < MaxRetries /\ attempt' = [attempt EXCEPT ![c] = @ + 1]
    /\ retrying' = retrying \cup {c}
    /\ UNCHANGED <<vars, completed, leaving, owed>>

Retry(c) ==
    /\ c \in inFlight /\ inFlight' = inFlight \ {c}
    /\ attempt[c] < MaxRetries /\ attempt' = [attempt EXCEPT ![c] = @ + 1]
    /\ retrying' = retrying \cup {c}
    /\ GiveBack(c)
    /\ UNCHANGED <<completed, leaving, owed>>

RetryTimeout(c) ==
    /\ c \in retrying /\ retrying' = retrying \ {c}
    /\ Ask(c)
    /\ UNCHANGED <<inFlight, attempt, completed, leaving, owed>>

(* The run is stopped: cancel, and the client is deleted later.             *)
Cancel(c) ==
    /\ c \in alive /\ c \notin leaving
    /\ completed' = IF c \in inFlight THEN completed \cup {c} ELSE completed
    /\ inFlight' = inFlight \ {c} /\ retrying' = retrying \ {c}
    /\ owed' = owed \ {c} /\ leaving' = leaving \cup {c}
    /\ GiveBack(c)
    /\ UNCHANGED attempt

(* The run ends with an answer.                                            *)
Done(c) ==
    /\ Usable(c) /\ leaving' = leaving \cup {c}
    /\ UNCHANGED <<vars, inFlight, retrying, attempt, completed, owed>>

(* The destructor gives back before the gate hears of it, and its timers and *)
(* its reply end with it.  What was posted to it before is delivered first.  *)
Delete(c) ==
    /\ c \in leaving /\ c \in alive
    /\ posted \cap Of(c) = {}
    /\ GiveBackAt(c) /\ Post({}) /\ alive' = alive \ {c}
    /\ inFlight' = inFlight \ {c} /\ retrying' = retrying \ {c}
    /\ leaving' = leaving \ {c}
    /\ UNCHANGED <<attempt, completed, owed>>

(* A run has a new client.                                                 *)
Begin(c) ==
    /\ Create(c)
    /\ completed' = completed \ {c} /\ attempt' = [attempt EXCEPT ![c] = 0]
    /\ UNCHANGED <<inFlight, retrying, leaving, owed>>

(* The gate's own steps.                                                   *)
Paced ==
    /\ UNCHANGED clients
    /\ \/ Tick
       \/ \E p \in Providers : Timeout(p)
       \/ \E limits \in [Providers -> Limits \cup {Unlimited}] : SetLimits(limits)

ChatNext ==
    \/ Paced
    \/ \E r \in Requests : Dispatch(r) \/ DispatchFails(r)
    \/ \E c \in Contexts :
          \/ Send(c) \/ Refuse(c) \/ Cancel(c) \/ Done(c) \/ Delete(c) \/ Begin(c)
          \/ StreamFails(c) \/ IdleTimeout(c) \/ Finish(c) \/ Fail(c)
          \/ Retry(c) \/ RetryTimeout(c)

ChatSpec == ChatInit /\ [][ChatNext]_chatVars

-----------------------------------------------------------------------------
ChatTypeOK ==
    /\ TypeOK
    /\ inFlight \subseteq Contexts /\ retrying \subseteq Contexts
    /\ attempt \in [Contexts -> 0..MaxRetries]
    /\ completed \subseteq Contexts /\ leaving \subseteq Contexts /\ owed \subseteq Contexts

Places(c) == {r \in Of(c) : Outstanding(r)}

(* A client in use has the place it needs and no other: one, while it waits  *)
(* for it, was given it or uses it, and none between attempts, between       *)
(* requests and once its run is over.  And a run that waits for the end of   *)
(* its request will hear of it: the request is in flight, its next attempt  *)
(* is timed, or the gate has it.                                           *)
PlacesMatchUse ==
    /\ \A c \in alive \ leaving :
          /\ Cardinality(Places(c)) = IF c \in owed /\ c \notin retrying THEN 1 ELSE 0
          /\ c \in inFlight => Holding(c) # {} /\ posted \cap Of(c) = {}
    /\ \A c \in owed :
          /\ c \in alive \ leaving
          /\ \/ c \in inFlight \cup retrying
             \/ \E r \in Of(c) : r \in posted \/ Waiting(ProviderOf[c], r)
=============================================================================
