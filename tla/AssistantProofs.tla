---------------------------- MODULE AssistantProofs ----------------------------
(***************************************************************************)
(* What the agents of the assistant promise for every bound, call, owner   *)
(* and conversation.                                                       *)
(***************************************************************************)
EXTENDS MCAssistant, SequenceTheorems, FiniteSetTheorems, TLAPS

-----------------------------------------------------------------------------
(* The runner of a command.                                                *)

(* The process signals its runner alone, and tells of its end when it has   *)
(* ended; a signal, a limit or somebody who waits belongs to a command that *)
(* was told to nobody yet, or to one whose outcome is settled.              *)
Tells(what) == \E i \in DOMAIN signals : signals[i] = what

ProcessInv ==
    /\ signals \in Seq({"ready", "error", "finished"})
    /\ state \in {"none", "starting", "running", "ended"}
    /\ ~started => ~process /\ ~waiting /\ state = "none" /\ outcomes = <<>>
    /\ process => started /\ state # "none"
    /\ ~process => signals = <<>> /\ ~timer
    /\ Tells("finished") => state = "ended"
    /\ ~process /\ state \in {"starting", "running"} => doomed

OutcomeInv ==
    /\ outcomes \in Seq({"failed", "finished"}) /\ Len(outcomes) <= 1
    /\ completed \in BOOLEAN
    /\ ~started /\ owner # "gone" => ~completed /\ ~timedOut
    /\ process /\ ~completed => outcomes = <<>>
    /\ waiting => process /\ ~completed /\ ~timedOut
    /\ timedOut => ~process
    /\ waiting /\ state = "ended" => Tells("error") \/ Tells("finished")
    /\ outcomes = <<"finished">> => output = printed /\ ~process /\ state = "ended"

RunnerInv == ProcessInv /\ OutcomeInv

LEMMA NobodyFinished ==
    /\ <<>> \in Seq({"failed", "finished"}) /\ Len(<<>>) = 0
    /\ <<>> # <<"finished">> /\ <<"failed">> # <<"finished">>
<1>1. Len(<<>>) = 0 /\ Len(<<"finished">>) = 1
  OBVIOUS
<1>2. <<"failed">>[1] = "failed" /\ <<"finished">>[1] = "finished"
  OBVIOUS
<1> QED BY <1>1, <1>2

LEMMA RunnerStarts == Runner!RunnerInit => RunnerInv
<1> SUFFICES ASSUME Runner!RunnerInit PROVE RunnerInv
  OBVIOUS
<1>1. ProcessInv
  BY DEF Runner!RunnerInit, ProcessInv, Tells
<1>2. outcomes = <<>> /\ completed = FALSE /\ completed \in BOOLEAN /\ ~waiting /\ ~process /\ ~timedOut
  BY DEF Runner!RunnerInit
<1>3. OutcomeInv
  BY <1>2, NobodyFinished DEF OutcomeInv
<1> QED BY <1>1, <1>3 DEF RunnerInv

(* What a queue of signals keeps when one is added or taken.                *)
LEMMA SignalAdded ==
    ASSUME NEW S, NEW q \in Seq(S), NEW new \in Seq(S)
    PROVE  /\ q \o new \in Seq(S)
           /\ \A i \in DOMAIN q : i \in DOMAIN (q \o new) /\ (q \o new)[i] = q[i]
           /\ \A i \in DOMAIN (q \o new) :
                 (\E j \in DOMAIN q : q[j] = (q \o new)[i]) \/ \E j \in DOMAIN new : new[j] = (q \o new)[i]
           /\ \A j \in DOMAIN new : Len(q) + j \in DOMAIN (q \o new) /\ (q \o new)[Len(q) + j] = new[j]
<1>1. q \o new \in Seq(S) /\ Len(q \o new) = Len(q) + Len(new)
  BY ConcatProperties, Zenon
<1>2. \A i \in 1..Len(q) + Len(new) : (q \o new)[i] = IF i <= Len(q) THEN q[i] ELSE new[i - Len(q)]
  BY ConcatProperties, Zenon
<1>3. /\ Len(q) \in Nat /\ Len(new) \in Nat /\ DOMAIN q = 1..Len(q) /\ DOMAIN new = 1..Len(new)
      /\ DOMAIN (q \o new) = 1..Len(q) + Len(new)
  BY <1>1, LenProperties
<1>4. ASSUME NEW i \in DOMAIN q PROVE i \in DOMAIN (q \o new) /\ (q \o new)[i] = q[i]
  BY <1>2, <1>3, <1>4
<1>5. ASSUME NEW j \in DOMAIN new
      PROVE Len(q) + j \in DOMAIN (q \o new) /\ (q \o new)[Len(q) + j] = new[j]
  BY <1>2, <1>3, <1>5
<1>6. ASSUME NEW i \in DOMAIN (q \o new)
      PROVE (\E j \in DOMAIN q : q[j] = (q \o new)[i]) \/ \E j \in DOMAIN new : new[j] = (q \o new)[i]
  <2>1. CASE i <= Len(q)
    BY <1>2, <1>3, <1>6, <2>1
  <2>2. CASE ~(i <= Len(q))
    <3>1. i - Len(q) \in DOMAIN new /\ (q \o new)[i] = new[i - Len(q)]
      BY <1>2, <1>3, <1>6, <2>2
    <3> QED BY <3>1
  <2> QED BY <2>1, <2>2
<1> QED BY <1>1, <1>4, <1>5, <1>6

LEMMA SignalTaken ==
    ASSUME NEW S, NEW q \in Seq(S), q # <<>>
    PROVE  /\ Tail(q) \in Seq(S) /\ Head(q) \in S /\ 1 \in DOMAIN q /\ Head(q) = q[1]
           /\ \A i \in DOMAIN Tail(q) : i + 1 \in DOMAIN q /\ Tail(q)[i] = q[i + 1]
           /\ \A i \in DOMAIN q : q[i] # Head(q) => i - 1 \in DOMAIN Tail(q) /\ Tail(q)[i - 1] = q[i]
BY HeadTailProperties

(* What is told once leaves nobody waiting.                                *)
LEMMA RunnerHeard ==
    ASSUME OutcomeInv, outcomes = <<>>, NEW what \in {"failed", "finished"}, Runner!Heard(what)
    PROVE  /\ outcomes' = <<what>> /\ ~waiting'
           /\ outcomes' \in Seq({"failed", "finished"}) /\ Len(outcomes') <= 1
BY DEF Runner!Heard

(* A runner that lets its process go leaves it ended, or to be killed.      *)
LEMMA RunnerLetsGo ==
    ASSUME ProcessInv, process' = FALSE, timer' = FALSE, signals' = <<>>,
           state' = state, started' = started, started,
           (process /\ state # "ended") \/ doomed => doomed'
    PROVE  ProcessInv'
<1>1. (signals \in Seq({"ready", "error", "finished"}))'
  OBVIOUS
<1>2. (state \in {"none", "starting", "running", "ended"})'
  BY DEF ProcessInv
<1>3. (~process /\ state \in {"starting", "running"} => doomed)'
  BY DEF ProcessInv
<1>4. ~Tells("finished")'
  BY DEF Tells
<1> QED BY <1>1, <1>2, <1>3, <1>4 DEF ProcessInv

LEMMA RunnerStep == RunnerInv /\ Runner!RunnerNext => RunnerInv'
<1> SUFFICES ASSUME ProcessInv, OutcomeInv, Runner!RunnerNext PROVE ProcessInv' /\ OutcomeInv'
  BY DEF RunnerInv
<1> USE DEF Tells
<1>0. (process => started) /\ (state # "none" => started)
  BY DEF ProcessInv
<1>1. CASE Runner!Start
  <2>1. /\ ~process /\ ~waiting /\ state = "none" /\ outcomes = <<>> /\ signals = <<>> /\ ~timer
        /\ started' = TRUE /\ UNCHANGED <<owner, timedOut, output, signals, printed, doomed>>
    BY <1>1 DEF Runner!Start, ProcessInv
  <2>2. CASE Runner!Refuses
    <3>1. outcomes' = <<"failed">> /\ ~waiting' /\ outcomes' \in Seq({"failed", "finished"}) /\ Len(outcomes') <= 1
      BY <2>1, <2>2, RunnerHeard DEF Runner!Refuses
    <3>2. ProcessInv'
      BY <2>1, <2>2, <3>1 DEF Runner!Refuses, ProcessInv
    <3>3. OutcomeInv'
      BY <2>1, <2>2, <3>1 DEF Runner!Refuses, OutcomeInv
    <3> QED BY <3>2, <3>3
  <2>3. CASE Runner!Launches
    <3>1. ProcessInv'
      BY <2>1, <2>3 DEF Runner!Launches, ProcessInv
    <3>2. outcomes' = <<>> /\ completed' = completed /\ process' = TRUE /\ state' = "starting" /\ timedOut' = timedOut
      BY <2>1, <2>3 DEF Runner!Launches
    <3>3. ~timedOut /\ ~completed /\ completed \in BOOLEAN
      BY <1>1 DEF Runner!Start, OutcomeInv
    <3>4. OutcomeInv'
      BY <2>1, <3>2, <3>3, NobodyFinished DEF OutcomeInv
    <3> QED BY <3>1, <3>4
  <2> QED BY <1>1, <2>2, <2>3 DEF Runner!Start
<1>2. CASE Runner!Cancel
  <2>1. ProcessInv'
    BY <1>2, RunnerLetsGo DEF Runner!Cancel, Runner!StopProcess, Runner!RequestTermination, ProcessInv
  <2>2. OutcomeInv'
    BY <1>2 DEF Runner!Cancel, Runner!StopProcess, OutcomeInv
  <2> QED BY <2>1, <2>2
<1>3. CASE Runner!Release
  <2>1. ProcessInv'
    BY <1>3, RunnerLetsGo DEF Runner!Release, ProcessInv
  <2>2. OutcomeInv'
    BY <1>3 DEF Runner!Release, OutcomeInv
  <2> QED BY <2>1, <2>2
<1>4. ASSUME process, Runner!Failure
      PROVE  /\ completed' /\ ~waiting' /\ completed' \in BOOLEAN
             /\ outcomes' \in Seq({"failed", "finished"}) /\ Len(outcomes') <= 1
             /\ outcomes' # <<"finished">>
  <2>1. CASE completed
    BY <1>4, <2>1 DEF Runner!Failure, OutcomeInv
  <2>2. CASE ~completed
    <3>1. outcomes' = <<"failed">> /\ ~waiting' /\ outcomes' \in Seq({"failed", "finished"}) /\ Len(outcomes') <= 1
      BY <1>4, <2>2, RunnerHeard DEF Runner!Failure, OutcomeInv
    <3> QED BY <1>4, <2>2, <3>1 DEF Runner!Failure
  <2> QED BY <2>1, <2>2
<1>5. CASE Runner!Timeout
  <2>1. process
    BY <1>5 DEF Runner!Timeout, ProcessInv
  <2>2. ProcessInv'
    BY <1>5, <2>1, RunnerLetsGo DEF Runner!Timeout, Runner!StopProcess, Runner!RequestTermination, ProcessInv
  <2>3. OutcomeInv'
    BY <1>0, <1>5, <2>1, <1>4 DEF Runner!Timeout, Runner!StopProcess, OutcomeInv
  <2> QED BY <2>2, <2>3
<1> DEFINE Told == {"ready", "error", "finished"}
<1>6. signals # <<>> =>
          /\ process
          /\ Tail(signals) \in Seq(Told) /\ Head(signals) = signals[1] /\ 1 \in DOMAIN signals
          /\ \A i \in DOMAIN Tail(signals) : i + 1 \in DOMAIN signals /\ Tail(signals)[i] = signals[i + 1]
          /\ \A i \in DOMAIN signals : signals[i] # Head(signals) =>
                i - 1 \in DOMAIN Tail(signals) /\ Tail(signals)[i - 1] = signals[i]
  BY SignalTaken DEF ProcessInv
<1>7. CASE Runner!ReadOutput
  <2>1. signals # <<>> /\ Head(signals) = "ready" /\ process
    BY <1>6, <1>7 DEF Runner!ReadOutput
  <2>2. CASE Runner!TooLarge
    <3>1. Runner!Failure /\ Runner!StopProcess /\ UNCHANGED <<output, owner, started, timedOut, state, printed>>
      BY <1>7, <2>2 DEF Runner!ReadOutput
    <3>2. ProcessInv'
      BY <3>1, <2>1, RunnerLetsGo DEF Runner!StopProcess, Runner!RequestTermination, ProcessInv
    <3>3. OutcomeInv'
      BY <1>0, <3>1, <2>1, <1>4 DEF Runner!StopProcess, OutcomeInv
    <3> QED BY <3>2, <3>3
  <2>3. CASE ~Runner!TooLarge
    <3>1. /\ output' = printed /\ signals' = Tail(signals)
          /\ UNCHANGED <<completed, outcomes, waiting, process, timer, doomed, owner, started, timedOut, state, printed>>
      BY <1>7, <2>3 DEF Runner!ReadOutput
    <3>2. ProcessInv'
      BY <3>1, <2>1, <1>6 DEF ProcessInv
    <3>3. OutcomeInv'
      BY <1>0, <3>1, <2>1, <1>6 DEF OutcomeInv
    <3> QED BY <3>2, <3>3
  <2> QED BY <2>2, <2>3
<1>8. CASE Runner!ProcessFailed
  <2>1. signals # <<>> /\ process /\ signals' = Tail(signals) /\ ~timedOut /\ Runner!Failure
        /\ UNCHANGED <<owner, started, process, timedOut, timer, output, state, printed, doomed>>
    BY <1>6, <1>8 DEF Runner!ProcessFailed, OutcomeInv
  <2>2. ProcessInv'
    BY <2>1, <1>6 DEF ProcessInv
  <2>3. OutcomeInv'
    BY <1>0, <2>1, <1>4 DEF OutcomeInv
  <2> QED BY <2>2, <2>3
<1>9. CASE Runner!CompleteProcess
  <2>1. /\ signals # <<>> /\ process /\ state = "ended"
        /\ process' = FALSE /\ timer' = FALSE /\ signals' = <<>>
        /\ UNCHANGED <<owner, started, timedOut, state, printed, doomed>>
    BY <1>6, <1>9 DEF Runner!CompleteProcess, ProcessInv
  <2> DEFINE what == IF Runner!TooLarge THEN "failed" ELSE "finished"
  <2>2. /\ Runner!Settles(what) /\ what \in {"failed", "finished"}
        /\ what = "finished" => output' = printed
    BY <1>9 DEF Runner!CompleteProcess
  <2> HIDE DEF what
  <2>3. ProcessInv'
    BY <2>1, RunnerLetsGo DEF ProcessInv
  <2>5. completed' /\ completed' \in BOOLEAN /\ ~waiting'
    BY <2>2 DEF Runner!Settles, Runner!Heard, OutcomeInv
  <2>4. /\ outcomes' \in Seq({"failed", "finished"}) /\ Len(outcomes') <= 1
        /\ outcomes' = <<"finished">> => output' = printed'
    <3>1. CASE completed
      BY <3>1, <2>1, <2>2 DEF Runner!Settles, OutcomeInv
    <3>2. CASE ~completed
      <4>1. /\ outcomes' = <<what>>
            /\ outcomes' \in Seq({"failed", "finished"}) /\ Len(outcomes') <= 1
        BY <3>2, <2>1, <2>2, RunnerHeard DEF Runner!Settles, OutcomeInv
      <4> QED BY <4>1, <2>1, <2>2
    <3> QED BY <3>1, <3>2
  <2>6. OutcomeInv'
    BY <1>0, <2>1, <2>4, <2>5 DEF OutcomeInv
  <2> QED BY <2>3, <2>6
<1>10. CASE Runner!ProcessSteps
  <2>1. UNCHANGED <<owner, started, waiting, process, completed, timedOut, timer, output, doomed, outcomes>>
    BY <1>10 DEF Runner!ProcessSteps
  <2>2. ASSUME NEW new \in Seq(Told), Runner!Signals(new)
        PROVE  /\ signals' \in Seq(Told)
               /\ ~process => signals' = <<>>
               /\ \A i \in DOMAIN signals : \E j \in DOMAIN signals' : signals'[j] = signals[i]
               /\ \A i \in DOMAIN signals' :
                     (\E j \in DOMAIN signals : signals[j] = signals'[i]) \/ \E j \in DOMAIN new : new[j] = signals'[i]
               /\ process /\ new # <<"ready">> =>
                     \A j \in DOMAIN new : \E k \in DOMAIN signals' : signals'[k] = new[j]
    <3>1. signals \in Seq(Told) /\ (~process => signals = <<>>)
      BY DEF ProcessInv
    <3> HIDE DEF Told
    <3>2. CASE signals' = signals
      BY <2>2, <3>1, <3>2 DEF Runner!Signals
    <3>3. CASE signals' = signals \o new /\ process
      <4>1. /\ signals \o new \in Seq(Told)
            /\ \A i \in DOMAIN signals : i \in DOMAIN (signals \o new) /\ (signals \o new)[i] = signals[i]
            /\ \A i \in DOMAIN (signals \o new) :
                  (\E j \in DOMAIN signals : signals[j] = (signals \o new)[i])
                  \/ \E j \in DOMAIN new : new[j] = (signals \o new)[i]
            /\ \A j \in DOMAIN new : Len(signals) + j \in DOMAIN (signals \o new)
                                   /\ (signals \o new)[Len(signals) + j] = new[j]
        BY <2>2, <3>1, SignalAdded
      <4>2. signals' \in Seq(Told) /\ (~process => signals' = <<>>)
        BY <4>1, <3>3
      <4>3. \A i \in DOMAIN signals : \E j \in DOMAIN signals' : signals'[j] = signals[i]
        BY <4>1, <3>3
      <4>4. \A i \in DOMAIN signals' :
                (\E j \in DOMAIN signals : signals[j] = signals'[i]) \/ \E j \in DOMAIN new : new[j] = signals'[i]
        BY <4>1, <3>3
      <4>5. \A j \in DOMAIN new : \E k \in DOMAIN signals' : signals'[k] = new[j]
        BY <4>1, <3>3
      <4> QED BY <4>2, <4>3, <4>4, <4>5
    <3> QED BY <2>2, <3>2, <3>3 DEF Runner!Signals
  <2>3. CASE Runner!Begins
    <3>1. state = "starting" /\ printed' = printed /\ ~Tells("finished")
      BY <2>3 DEF Runner!Begins, ProcessInv
    <3>2. CASE state' = "running" /\ UNCHANGED signals
      BY <3>1, <3>2, <2>1 DEF ProcessInv, OutcomeInv
    <3>3. CASE state' = "ended" /\ Runner!Signals(<<"error">>)
      <4>1. <<"error">> \in Seq(Told) /\ <<"error">> # <<"ready">> /\ 1 \in DOMAIN <<"error">> /\ <<"error">>[1] = "error"
        OBVIOUS
      <4>2. /\ signals' \in Seq(Told) /\ (~process => signals' = <<>>)
            /\ process => \E k \in DOMAIN signals' : signals'[k] = "error"
        BY <2>2, <3>3, <4>1
      <4>3. ProcessInv'
        BY <3>1, <3>3, <2>1, <4>2 DEF ProcessInv
      <4>4. OutcomeInv'
        BY <1>0, <3>1, <3>3, <2>1, <4>2 DEF OutcomeInv
      <4> QED BY <4>3, <4>4
    <3> QED BY <2>3, <3>2, <3>3 DEF Runner!Begins
  <2>4. CASE Runner!Prints
    <3>1. state = "running" /\ state' = state /\ Runner!Signals(<<"ready">>)
      BY <2>4 DEF Runner!Prints
    <3>2. <<"ready">> \in Seq(Told) /\ \A j \in DOMAIN <<"ready">> : <<"ready">>[j] = "ready"
      OBVIOUS
    <3>6. ~Tells("finished")
      BY <3>1 DEF ProcessInv
    <3>7. /\ signals' \in Seq(Told) /\ (~process => signals' = <<>>)
          /\ \A i \in DOMAIN signals' :
                (\E j \in DOMAIN signals : signals[j] = signals'[i])
                \/ \E j \in DOMAIN <<"ready">> : <<"ready">>[j] = signals'[i]
      BY <2>2, <3>1, <3>2
    <3>3. /\ signals' \in Seq(Told) /\ (~process => signals' = <<>>)
          /\ \A i \in DOMAIN signals' : signals'[i] # "finished"
      BY <3>6, <3>7, <3>2
    <3>4. ProcessInv'
      BY <3>1, <3>3, <2>1 DEF ProcessInv
    <3>5. OutcomeInv'
      BY <1>0, <3>1, <2>1 DEF OutcomeInv
    <3> QED BY <3>4, <3>5
  <2>5. CASE Runner!Ends
    <3>1. PICK new \in {<<"finished">>, <<"error", "finished">>} :
              Runner!Signals(new) /\ state = "running" /\ state' = "ended" /\ printed' = printed
      BY <2>5 DEF Runner!Ends
    <3>2. /\ new \in Seq(Told) /\ new # <<"ready">>
          /\ \E j \in DOMAIN new : new[j] = "finished"
      <4>1. CASE new = <<"finished">>
        <5>1. 1 \in DOMAIN new /\ new[1] = "finished" /\ new \in Seq(Told) /\ <<"ready">>[1] = "ready"
          BY <4>1
        <5> QED BY <5>1
      <4>2. CASE new = <<"error", "finished">>
        <5>1. 2 \in DOMAIN new /\ new[2] = "finished" /\ new[1] = "error" /\ new \in Seq(Told) /\ <<"ready">>[1] = "ready"
          BY <4>2
        <5> QED BY <5>1
      <4> QED BY <3>1, <4>1, <4>2
    <3>3. /\ signals' \in Seq(Told) /\ (~process => signals' = <<>>)
          /\ process => \E k \in DOMAIN signals' : signals'[k] = "finished"
      BY <2>2, <3>1, <3>2
    <3>4. ProcessInv'
      BY <3>1, <3>3, <2>1 DEF ProcessInv
    <3>5. OutcomeInv'
      BY <1>0, <3>1, <3>3, <2>1 DEF OutcomeInv
    <3> QED BY <3>4, <3>5
  <2> QED BY <1>10, <2>3, <2>4, <2>5 DEF Runner!ProcessSteps
<1> QED BY <1>1, <1>2, <1>3, <1>5, <1>7, <1>8, <1>9, <1>10 DEF Runner!RunnerNext

LEMMA RunnerPromises == RunnerInv => Runner!OutcomeIsToldOnce /\ Runner!NoProcessIsLeftAlone
<1> SUFFICES ASSUME RunnerInv PROVE Runner!OutcomeIsToldOnce /\ Runner!NoProcessIsLeftAlone
  OBVIOUS
<1>1. ASSUME waiting PROVE outcomes = <<>> /\ process /\ (state # "ended" \/ signals # <<>>)
  BY <1>1 DEF RunnerInv, ProcessInv, OutcomeInv, Tells
<1> QED BY <1>1 DEF RunnerInv, ProcessInv, OutcomeInv, Runner!OutcomeIsToldOnce, Runner!NoProcessIsLeftAlone
-----------------------------------------------------------------------------
(* The client of a server of tools.                                        *)

Asks == {"initialize", "tools", "call"}
Words == Asks \cup {"initialized", "response", "cancelled", "changed", "sampling", "roots", "exited", "failed"}
Spoken == [what : Words, of : McpCalls \cup {0}]

(* Everything said between a client and its server is a message, and what    *)
(* waits is something that was asked.                                       *)
SpokenInv ==
    /\ out \in Seq(Spoken) /\ in \in Seq(Spoken)
    /\ \A m \in pending : m \in Spoken /\ m.what \in Asks
    /\ \A m \in payloads : m \in Spoken
    /\ \A p \in posts : p.message \in Spoken

(* A call is answered once: when it no longer waits.                        *)
AnsweredInv ==
    /\ \A m \in pending : m.what = "call" => m.of \in DOMAIN results
    /\ \A c \in DOMAIN results : results[c] = IF Mcp!Message("call", c) \in pending THEN 0 ELSE 1

Hears(kinds) == \E i \in DOMAIN in : in[i].what \in kinds

(* A process is asked while it runs; it lives, or its end is about to be     *)
(* heard.  It tells of its end after all else, and of a process that is      *)
(* left nothing is read any more.                                          *)
ProcessLinkInv == transport # "http" =>
    /\ posts = {} /\ payloads = {}
    /\ pending # {} \/ in # <<>> => connected
    /\ connected => client \in processes \/ Hears({"exited", "failed"})
    /\ ~connected => client \notin processes \/ (stopping /\ out = <<>>)
    /\ \A i \in DOMAIN in : in[i].what = "exited" => i = Len(in) /\ client \notin processes

(* What an address is asked is posted, or its answer is being parsed, but    *)
(* for what it answered with something else and for what a client that was    *)
(* stopped does not post.                                                  *)
Due(m) == m \in payloads \/ (\E p \in posts : p.message = m) \/ stopping \/ m \in ignored
AddressLinkInv == transport = "http" =>
    /\ ~connected /\ in = <<>> /\ out = <<>> /\ processes = {}
    /\ \A m \in pending : Due(m)

(* A server whose client is ready, whose tools are known or that calls was   *)
(* told to begin.                                                          *)
ToldToBegin == greeted \/ \E i \in DOMAIN out : out[i].what = "initialized"
GreetingInv ==
    /\ connected /\ (ready \/ catalog # 0) => ToldToBegin
    /\ Hears({"changed"}) => greeted
    /\ Mcp!GreetedFirst

McpInv == transport \in {"stdio", "http"} /\ SpokenInv /\ AnsweredInv /\ ProcessLinkInv /\ AddressLinkInv /\ GreetingInv

LEMMA McpStarts == Mcp!McpInit => McpInv
<1> SUFFICES ASSUME Mcp!McpInit PROVE McpInv
  OBVIOUS
<1>1. out = <<>> /\ in = <<>> /\ pending = {} /\ payloads = {} /\ posts = {} /\ processes = {} /\ DOMAIN results = {}
      /\ connected = FALSE /\ ready = FALSE
  BY DEF Mcp!McpInit
<1>2. SpokenInv
  BY <1>1 DEF SpokenInv
<1>3. AnsweredInv
  BY <1>1 DEF AnsweredInv
<1>4. ProcessLinkInv /\ AddressLinkInv
  BY <1>1 DEF ProcessLinkInv, AddressLinkInv
<1>5. GreetingInv
  BY <1>1 DEF GreetingInv, Mcp!GreetedFirst, Hears
<1>6. transport \in {"stdio", "http"}
  BY TransportsAssumption DEF Mcp!McpInit
<1> QED BY <1>2, <1>3, <1>4, <1>5, <1>6 DEF McpInv

-----------------------------------------------------------------------------
(* A message is what it says of what it is about.                           *)
LEMMA MessageIs ==
    /\ \A m \in Spoken : m.what = "call" => m = Mcp!Message("call", m.of)
    /\ \A what, of : Mcp!Message(what, of).what = what /\ Mcp!Message(what, of).of = of
    /\ \A what \in Words : Mcp!Message(what, 0) \in Spoken
    /\ \A c \in McpCalls : Mcp!Message("call", c) \in Spoken
<1>1. ASSUME NEW m \in Spoken, m.what = "call" PROVE m = Mcp!Message("call", m.of)
  <2>1. m = [what |-> m.what, of |-> m.of]
    BY DEF Spoken
  <2> QED BY <2>1, <1>1 DEF Mcp!Message
<1>2. \A what, of : Mcp!Message(what, of).what = what /\ Mcp!Message(what, of).of = of
  BY DEF Mcp!Message
<1>3. \A what \in Words : Mcp!Message(what, 0) \in Spoken
  BY DEF Spoken, Mcp!Message
<1>4. \A c \in McpCalls : Mcp!Message("call", c) \in Spoken
  BY DEF Spoken, Mcp!Message, Words, Asks
<1> QED BY <1>1, <1>2, <1>3, <1>4

LEMMA CallsOf ==
    ASSUME NEW ms, \A m \in ms : m \in Spoken
    PROVE  \A c : c \in Mcp!CallsIn(ms) <=> Mcp!Message("call", c) \in ms
BY MessageIs DEF Mcp!CallsIn

(* Nothing that was asked is answered.                                      *)
LEMMA NothingAnswered ==
    ASSUME SpokenInv, AnsweredInv, results' = results,
           \A c : Mcp!Message("call", c) \in pending' <=> Mcp!Message("call", c) \in pending,
           \A m \in pending' : m.what = "call" => m \in pending
    PROVE  AnsweredInv'
BY DEF AnsweredInv

(* Everything that waited is answered.                                      *)
LEMMA AllAnswered ==
    ASSUME SpokenInv, AnsweredInv, results' = Mcp!Answered(Mcp!CallsIn(pending)),
           \A m \in pending' : m.what # "call"
    PROVE  AnsweredInv'
<1>1. \A c : c \in Mcp!CallsIn(pending) <=> Mcp!Message("call", c) \in pending
  BY CallsOf DEF SpokenInv
<1>2. DOMAIN results' = DOMAIN results
  BY DEF Mcp!Answered
<1>3. \A c : Mcp!Message("call", c) \notin pending'
  BY MessageIs
<1>4. \A c \in DOMAIN results : results'[c] = 1
  BY <1>1 DEF Mcp!Answered, AnsweredInv
<1> QED BY <1>2, <1>3, <1>4 DEF AnsweredInv

(* One of what waited is answered.                                          *)
LEMMA OneAnswered ==
    ASSUME SpokenInv, AnsweredInv, NEW m \in pending, pending' = pending \ {m},
           results' = Mcp!Answered(Mcp!CallsIn({m}))
    PROVE  AnsweredInv'
<1>1. m \in Spoken
  BY DEF SpokenInv
<1>2. \A c : c \in Mcp!CallsIn({m}) <=> Mcp!Message("call", c) = m
  BY <1>1, CallsOf
<1>3. DOMAIN results' = DOMAIN results
  BY DEF Mcp!Answered
<1>4. ASSUME NEW c \in DOMAIN results
      PROVE  results'[c] = IF Mcp!Message("call", c) \in pending' THEN 0 ELSE 1
  <2>1. results'[c] = IF Mcp!Message("call", c) = m THEN results[c] + 1 ELSE results[c]
    BY <1>2 DEF Mcp!Answered
  <2>2. results[c] = IF Mcp!Message("call", c) \in pending THEN 0 ELSE 1
    BY DEF AnsweredInv
  <2> QED BY <2>1, <2>2
<1>5. \A n \in pending' : n.what = "call" => n.of \in DOMAIN results'
  BY <1>3 DEF AnsweredInv
<1> QED BY <1>3, <1>4, <1>5 DEF AnsweredInv
-----------------------------------------------------------------------------
(* A message of the server, whoever heard it, answers what it is an answer   *)
(* to and nothing else, and asks for the tools at the most; the server is    *)
(* told to begin before that, unless it called, which it does once told.    *)
LEMMA WhatIsDispatched ==
    ASSUME SpokenInv, AnsweredInv, NEW m, Mcp!Dispatch(m)
    PROVE  /\ AnsweredInv'
           /\ pending' \subseteq pending \cup {Mcp!AskTools}
           /\ pending \subseteq pending' \cup {m}
           /\ m.what \in Asks => m \notin pending'
           /\ catalog' = catalog \/ ready
           /\ \E ms \in Seq(Spoken) :
                 /\ Mcp!Send(ms)
                 /\ Mcp!AskTools \in pending' \ pending => \E i \in DOMAIN ms : ms[i] = Mcp!AskTools
                 /\ \/ ignored' = ignored
                    \/ ignored' = ignored \ {Mcp!AskTools} /\ \E i \in DOMAIN ms : ms[i] = Mcp!AskTools
                 /\ ready' = ready \/ \E i \in DOMAIN ms : ms[i].what = "initialized"
                 /\ m.what = "changed" \/ \A i \in DOMAIN ms : ms[i].what \in {"tools", "call"} =>
                                              \E j \in 1..i-1 : ms[j].what = "initialized"
<1> DEFINE Begin == Mcp!Message("initialized", 0)
           Reply == Mcp!Message("response", 0)
           Ask == Mcp!AskTools
<1>1. /\ Begin \in Spoken /\ Reply \in Spoken /\ Ask \in Spoken
      /\ Begin.what = "initialized" /\ Reply.what = "response" /\ Ask.what = "tools"
  BY MessageIs DEF Mcp!AskTools, Words, Asks
<1>2. \A n \in pending : n \in Spoken /\ n.what \in Asks
  BY DEF SpokenInv
<1>3. \A c : Mcp!Message("call", c).what = "call"
  BY MessageIs
<1>4. ASSUME UNCHANGED <<out, posts>> PROVE Mcp!Send(<<>>)
  <2>1. Mcp!ToSet(<<>>) = {} /\ out \o <<>> = out
    BY DEF SpokenInv, Mcp!ToSet
  <2>2. posts \cup {[message |-> n, session |-> session] : n \in {}} = posts
    OBVIOUS
  <2> QED BY <1>4, <2>1, <2>2 DEF Mcp!Send
<1>5. <<>> \in Seq(Spoken) /\ DOMAIN <<>> = {}
  OBVIOUS
<1>6. CASE Mcp!OnInitialized(m)
  <2>1. /\ m \in pending /\ m.what = "initialize" /\ pending' = (pending \ {m}) \cup {Ask}
        /\ Mcp!Send(<<Begin, Ask>>) /\ results' = results /\ catalog' = catalog /\ ignored' = ignored \ {Ask}
    BY <1>6 DEF Mcp!OnInitialized, Mcp!Initialized
  <2>2. AnsweredInv'
    BY <1>1, <1>3, <2>1, NothingAnswered
  <2>3. /\ <<Begin, Ask>> \in Seq(Spoken) /\ 1 \in DOMAIN <<Begin, Ask>> /\ 2 \in DOMAIN <<Begin, Ask>>
        /\ <<Begin, Ask>>[1] = Begin /\ <<Begin, Ask>>[2] = Ask
        /\ \A i \in DOMAIN <<Begin, Ask>> : i = 1 \/ (i = 2 /\ 1 \in 1..i-1)
    BY <1>1
  <2> HIDE DEF Begin, Ask
  <2>4. \A i \in DOMAIN <<Begin, Ask>> : <<Begin, Ask>>[i].what \in {"tools", "call"} =>
            \E j \in 1..i-1 : <<Begin, Ask>>[j].what = "initialized"
    BY <1>1, <2>3
  <2>5. m \notin pending' /\ pending' \subseteq pending \cup {Ask} /\ pending \subseteq pending' \cup {m}
    BY <1>1, <2>1
  <2>6. /\ \E i \in DOMAIN <<Begin, Ask>> : <<Begin, Ask>>[i] = Ask
        /\ \E i \in DOMAIN <<Begin, Ask>> : <<Begin, Ask>>[i].what = "initialized"
    BY <1>1, <2>3
  <2> QED BY <2>1, <2>2, <2>3, <2>4, <2>5, <2>6 DEF Ask
<1>7. CASE Mcp!OnTools(m)
  <2>1. /\ m.what = "tools" /\ pending' = pending \ {m} /\ results' = results /\ (catalog' = catalog \/ ready)
        /\ ready' = ready /\ UNCHANGED <<out, posts, ignored>>
    BY <1>7 DEF Mcp!OnTools
  <2>2. AnsweredInv'
    BY <1>3, <2>1, NothingAnswered
  <2> QED BY <1>4, <1>5, <2>1, <2>2
<1>8. CASE m \in pending /\ pending' = pending \ {m} /\ results' = Mcp!Answered(Mcp!CallsIn({m}))
           /\ UNCHANGED <<ready, out, posts, ignored, catalog, sampling>>
  <2>1. AnsweredInv'
    BY <1>8, OneAnswered
  <2> QED BY <1>4, <1>5, <1>8, <2>1
<1>9. CASE m \notin pending /\ UNCHANGED <<ready, pending, out, posts, ignored, results, catalog, sampling>>
  <2>1. AnsweredInv'
    BY <1>9, NothingAnswered
  <2> QED BY <1>4, <1>5, <1>9, <2>1
<1>10. CASE Mcp!HandleNotification(m)
  <2>1. /\ m.what = "changed" /\ pending' = pending \cup {Ask} /\ Mcp!Send(<<Ask>>)
        /\ ready' = ready /\ results' = results /\ catalog' = catalog /\ ignored' = ignored \ {Ask}
    BY <1>10 DEF Mcp!HandleNotification
  <2>2. AnsweredInv'
    BY <1>1, <1>3, <2>1, NothingAnswered
  <2>3. <<Ask>> \in Seq(Spoken) /\ 1 \in DOMAIN <<Ask>> /\ <<Ask>>[1] = Ask
    BY <1>1
  <2>4. m.what \notin Asks
    BY <2>1 DEF Asks
  <2> HIDE DEF Ask
  <2> QED BY <2>1, <2>2, <2>3, <2>4 DEF Ask
<1>11. CASE Mcp!HandleServerRequest(m)
  <2>1. /\ m.what \notin Asks /\ pending' = pending /\ results' = results /\ ready' = ready /\ catalog' = catalog
        /\ ignored' = ignored
        /\ Mcp!Send(<<Reply>>) \/ UNCHANGED <<out, posts>>
    BY <1>11 DEF Mcp!HandleServerRequest, Asks
  <2>2. AnsweredInv'
    BY <2>1, NothingAnswered
  <2>3. <<Reply>> \in Seq(Spoken) /\ \A i \in DOMAIN <<Reply>> : <<Reply>>[i].what \notin {"tools", "call"}
    BY <1>1
  <2>4. CASE Mcp!Send(<<Reply>>)
    BY <2>1, <2>2, <2>3, <2>4
  <2>5. CASE UNCHANGED <<out, posts>>
    BY <1>4, <1>5, <2>1, <2>2, <2>5
  <2> QED BY <2>1, <2>4, <2>5
<1> QED BY <1>6, <1>7, <1>8, <1>9, <1>10, <1>11 DEF Mcp!Dispatch

(* What is sent after the rest leaves the server greeted first.             *)
LEMMA SentAfter ==
    ASSUME SpokenInv, Mcp!GreetedFirst, NEW ms \in Seq(Spoken), out' = out \o ms, greeted' = greeted,
           \/ ToldToBegin
           \/ \A i \in DOMAIN ms : ms[i].what \in {"tools", "call"} => \E j \in 1..i-1 : ms[j].what = "initialized"
    PROVE  /\ Mcp!GreetedFirst'
           /\ ToldToBegin \/ (\E i \in DOMAIN ms : ms[i].what = "initialized") => ToldToBegin'
<1>1. /\ out \in Seq(Spoken) /\ Len(out) \in Nat /\ DOMAIN out = 1..Len(out)
      /\ Len(ms) \in Nat /\ DOMAIN ms = 1..Len(ms)
  BY DEF SpokenInv
<1>2. /\ DOMAIN out' = 1..(Len(out) + Len(ms))
      /\ \A i \in 1..Len(out) : out'[i] = out[i]
      /\ \A i \in 1..Len(ms) : out'[Len(out) + i] = ms[i]
  BY <1>1
<1>3. ToldToBegin \/ (\E i \in DOMAIN ms : ms[i].what = "initialized") => ToldToBegin'
  <2>1. CASE ToldToBegin
    BY <1>1, <1>2, <2>1 DEF ToldToBegin
  <2>2. ASSUME NEW i \in DOMAIN ms, ms[i].what = "initialized" PROVE ToldToBegin'
    <3>1. Len(out) + i \in DOMAIN out' /\ out'[Len(out) + i].what = "initialized"
      BY <1>1, <1>2, <2>2
    <3> QED BY <3>1 DEF ToldToBegin
  <2> QED BY <2>1, <2>2
<1>4. ASSUME NEW i \in DOMAIN out', out'[i].what \in {"tools", "call"}
      PROVE  greeted \/ \E j \in 1..i-1 : out'[j].what = "initialized"
  <2>1. CASE i \in 1..Len(out)
    BY <1>1, <1>2, <1>4, <2>1 DEF Mcp!GreetedFirst
  <2>2. CASE i \notin 1..Len(out)
    <3>1. PICK k \in 1..Len(ms) : i = Len(out) + k
      <4>1. i - Len(out) \in 1..Len(ms) /\ i = Len(out) + (i - Len(out))
        BY <1>1, <1>2, <2>2
      <4> QED BY <4>1
    <3>2. ms[k].what \in {"tools", "call"} /\ k \in DOMAIN ms
      BY <1>1, <1>2, <1>4, <3>1
    <3>3. CASE ToldToBegin
      BY <1>1, <1>2, <3>1, <3>3 DEF ToldToBegin
    <3>4. CASE \E j \in 1..k-1 : ms[j].what = "initialized"
      <4>1. PICK j \in 1..k-1 : ms[j].what = "initialized"
        BY <3>4
      <4>2. Len(out) + j \in 1..i-1 /\ j \in 1..Len(ms)
        BY <1>1, <3>1, <4>1
      <4>3. out'[Len(out) + j].what = "initialized"
        BY <1>2, <4>1, <4>2
      <4> QED BY <4>2, <4>3
    <3> QED BY <3>2, <3>3, <3>4
  <2> QED BY <2>1, <2>2
<1> QED BY <1>3, <1>4 DEF Mcp!GreetedFirst

(* What is read goes from the front.                                        *)
LEMMA ReadFromTheFront ==
    ASSUME SpokenInv, Mcp!GreetedFirst, out # <<>>, out' = Tail(out),
           greeted' = (greeted \/ Head(out).what = "initialized")
    PROVE  Mcp!GreetedFirst' /\ (ToldToBegin => ToldToBegin')
<1>1. /\ out \in Seq(Spoken) /\ Len(out) \in Nat \ {0} /\ DOMAIN out = 1..Len(out) /\ Head(out) = out[1]
      /\ DOMAIN out' = 1..(Len(out) - 1) /\ \A i \in DOMAIN out' : out'[i] = out[i + 1]
  BY DEF SpokenInv
<1>2. \A j \in DOMAIN out : out[j].what = "initialized" => greeted' \/ (j - 1 \in DOMAIN out' /\ out'[j - 1] = out[j])
  <2>1. out[1].what = "initialized" => greeted'
    BY <1>1
  <2>2. ASSUME NEW j \in DOMAIN out, j # 1 PROVE j - 1 \in DOMAIN out' /\ out'[j - 1] = out[j]
    BY <1>1, <2>2
  <2> QED BY <2>1, <2>2
<1>3. ToldToBegin => ToldToBegin'
  BY <1>2 DEF ToldToBegin
<1>4. ASSUME NEW i \in DOMAIN out', out'[i].what \in {"tools", "call"}
      PROVE  greeted' \/ \E j \in 1..i-1 : out'[j].what = "initialized"
  <2>1. i + 1 \in DOMAIN out /\ out[i + 1].what \in {"tools", "call"}
    BY <1>1, <1>4
  <2>2. greeted \/ \E j \in 1..i : out[j].what = "initialized"
    BY <1>1, <2>1 DEF Mcp!GreetedFirst
  <2>3. ASSUME NEW j \in 1..i, out[j].what = "initialized", ~greeted'
        PROVE  j - 1 \in 1..i-1 /\ out'[j - 1].what = "initialized"
    BY <1>1, <1>2, <2>1, <2>3
  <2> QED BY <2>2, <2>3
<1> QED BY <1>3, <1>4 DEF Mcp!GreetedFirst
-----------------------------------------------------------------------------
(* What a signal that is added to those of the transport leaves as it was.   *)
LEMMA Overheard ==
    ASSUME in \in Seq(Spoken), NEW m \in Spoken, in' = Append(in, m)
    PROVE  /\ in' \in Seq(Spoken) /\ in' # <<>>
           /\ \A i \in DOMAIN in : i \in DOMAIN in' /\ in'[i] = in[i]
           /\ \A i \in DOMAIN in' : (i \in DOMAIN in /\ in'[i] = in[i]) \/ (i = Len(in') /\ in'[i] = m)
           /\ \E i \in DOMAIN in' : in'[i] = m
<1>1. /\ Len(in) \in Nat /\ DOMAIN in = 1..Len(in) /\ Len(in') = Len(in) + 1 /\ DOMAIN in' = 1..(Len(in) + 1)
      /\ in'[Len(in) + 1] = m /\ \A i \in 1..Len(in) : in'[i] = in[i]
      /\ in' \in Seq(Spoken)
  OBVIOUS
<1>2. in' # <<>> /\ Len(in) + 1 \in DOMAIN in'
  BY <1>1
<1> QED BY <1>1, <1>2

LEMMA HeardFromTheFront ==
    ASSUME in \in Seq(Spoken), in # <<>>, in' = Tail(in)
    PROVE  /\ in' \in Seq(Spoken) /\ Head(in) \in Spoken /\ 1 \in DOMAIN in /\ Head(in) = in[1]
           /\ \A i \in DOMAIN in' : i + 1 \in DOMAIN in /\ in'[i] = in[i + 1]
           /\ \A i \in DOMAIN in : in[i] # Head(in) => i - 1 \in DOMAIN in' /\ in'[i - 1] = in[i]
           /\ \A i \in DOMAIN in' : i + 1 = Len(in) => i = Len(in')
<1>1. Len(in) \in Nat \ {0} /\ DOMAIN in = 1..Len(in) /\ Len(in') = Len(in) - 1
      /\ DOMAIN in' = 1..(Len(in) - 1) /\ Head(in) = in[1] /\ in' \in Seq(Spoken) /\ in[1] \in Spoken
      /\ \A i \in DOMAIN in' : in'[i] = in[i + 1]
  OBVIOUS
<1> QED BY <1>1

(* A client that is stopped waits for nothing and has nothing to say to a    *)
(* process.                                                                *)
LEMMA McpStopped ==
    ASSUME McpInv, Mcp!Stopped, transport' = transport, client' = client, payloads' \subseteq payloads
    PROVE  McpInv'
<1> DEFINE cancelled == Mcp!Message("cancelled", 0)
<1>1. /\ stopping' = TRUE /\ connected' = FALSE /\ pending' = {} /\ out' = <<>> /\ in' = <<>>
      /\ posts' = posts \cup {[message |-> cancelled, session |-> "none"] :
                                m \in IF transport = "http" /\ ~stopping THEN pending ELSE {}}
      /\ processes' \subseteq processes
  BY DEF Mcp!Stopped, Mcp!RequestTermination
<1>2. SpokenInv'
  <2>1. cancelled \in Spoken
    BY MessageIs DEF Words
  <2> HIDE DEF cancelled
  <2>2. [message |-> cancelled, session |-> "none"].message = cancelled
    OBVIOUS
  <2>3. \A p \in posts' : p.message \in Spoken
    BY <1>1, <2>1, <2>2 DEF SpokenInv, McpInv
  <2> QED BY <1>1, <2>3 DEF SpokenInv, McpInv
<1>3. AnsweredInv'
  BY <1>1, AllAnswered DEF Mcp!Stopped, McpInv
<1>4. ProcessLinkInv'
  <2>1. ASSUME transport # "http" PROVE posts' = {} /\ payloads' = {}
    BY <1>1, <2>1 DEF McpInv, ProcessLinkInv
  <2> QED BY <1>1, <2>1 DEF ProcessLinkInv
<1>5. AddressLinkInv'
  BY <1>1 DEF AddressLinkInv, McpInv
<1>6. GreetingInv'
  BY <1>1 DEF GreetingInv, Mcp!GreetedFirst, Hears
<1> QED BY <1>2, <1>3, <1>4, <1>5, <1>6 DEF McpInv

(* A new client has asked its server to introduce itself.                   *)
LEMMA McpRestarts == McpInv /\ Mcp!Restart => McpInv'
<1> SUFFICES ASSUME McpInv, Mcp!Restart PROVE McpInv'
  OBVIOUS
<1> DEFINE Greeting == Mcp!Greeting
<1>1. Greeting \in Spoken /\ Greeting.what = "initialize"
  BY MessageIs DEF Mcp!Greeting, Words, Asks
<1>2. /\ pending' = {Greeting} /\ in' = <<>> /\ payloads' = {} /\ transport' = transport /\ stopping' = FALSE
      /\ ready' = FALSE /\ catalog' = 0
      /\ results' = Mcp!Answered(Mcp!CallsIn(pending))
      /\ client' = client + 1
      /\ transport = "stdio" => connected' = TRUE /\ out' = <<Greeting>> /\ client' \in processes'
      /\ transport # "stdio" => connected' = FALSE /\ out' = <<>> /\ processes' \subseteq processes
      /\ transport = "http" => posts' = {[message |-> Greeting, session |-> "none"]}
      /\ transport # "http" => posts' = {}
  BY DEF Mcp!Restart, Mcp!Starts, Mcp!RequestTermination
<1> HIDE DEF Greeting
<1>3. /\ <<Greeting>> \in Seq(Spoken) /\ \A i \in DOMAIN <<Greeting>> : <<Greeting>>[i] = Greeting
      /\ <<>> \in Seq(Spoken) /\ DOMAIN <<>> = {}
  BY <1>1
<1>4. Len(<<>>) = 0 /\ out' \in {<<Greeting>>, <<>>}
  BY <1>2
<1>5. SpokenInv'
  <2>1. out' \in Seq(Spoken) /\ in' \in Seq(Spoken)
    BY <1>2, <1>3, <1>4
  <2>2. \A p \in posts' : p.message \in Spoken
    BY <1>1, <1>2
  <2> QED BY <1>1, <1>2, <2>1, <2>2 DEF SpokenInv, Asks
<1>6. AnsweredInv'
  BY <1>1, <1>2, AllAnswered DEF McpInv
<1>7. transport' \in {"stdio", "http"}
  BY <1>2 DEF McpInv
<1>8. ProcessLinkInv'
  <2>1. CASE transport = "stdio"
    <3>1. /\ posts' = {} /\ payloads' = {} /\ connected' = TRUE /\ client' \in processes'
          /\ \A i \in DOMAIN in' : in'[i].what # "exited"
      BY <1>2, <1>3, <2>1
    <3> QED BY <3>1 DEF ProcessLinkInv
  <2> QED BY <1>2, <1>7, <2>1 DEF ProcessLinkInv
<1>9. AddressLinkInv'
  <2>1. CASE transport = "http"
    <3>1. \E p \in posts' : p.message = Greeting
      <4>1. [message |-> Greeting, session |-> "none"] \in posts'
        BY <1>2, <2>1
      <4>2. [message |-> Greeting, session |-> "none"].message = Greeting
        OBVIOUS
      <4> QED BY <4>1, <4>2
    <3>2. processes' = {} /\ connected' = FALSE /\ out' = <<>>
      BY <1>2, <2>1 DEF AddressLinkInv, McpInv
    <3>3. /\ pending' = {Greeting} /\ in' = <<>> /\ stopping' = FALSE
      BY <1>2
    <3>4. \A m \in pending' : \E p \in posts' : p.message = m
      BY <3>1, <3>3
    <3> QED BY <3>2, <3>3, <3>4 DEF AddressLinkInv, Due
  <2> QED BY <1>2, <2>1 DEF AddressLinkInv
<1>10. GreetingInv'
  <2>1. \A i \in DOMAIN out' : out'[i].what = "initialize"
    <3>1. CASE out' = <<Greeting>>
      BY <1>1, <1>3, <3>1
    <3>2. CASE out' = <<>>
      BY <3>2
    <3> QED BY <1>4, <3>1, <3>2
  <2>2. Mcp!GreetedFirst'
    BY <2>1 DEF Mcp!GreetedFirst
  <2>3. ready' = FALSE /\ catalog' = 0 /\ ~Hears({"changed"})'
    BY <1>2, <1>3 DEF Hears
  <2> QED BY <2>2, <2>3 DEF GreetingInv
<1> QED BY <1>5, <1>6, <1>7, <1>8, <1>9, <1>10 DEF McpInv
(* What the transport tells is an answer, a call, an end or a failure.      *)
LEMMA McpHears == McpInv /\ Mcp!Hear => McpInv'
<1> SUFFICES ASSUME McpInv, Mcp!Hear PROVE McpInv'
  OBVIOUS
<1>1. /\ in # <<>> /\ UNCHANGED <<transport, client, payloads, greeted>>
      /\ in \in Seq(Spoken) /\ SpokenInv /\ AnsweredInv
  BY DEF Mcp!Hear, McpInv, SpokenInv
<1>2. /\ transport = "stdio" /\ connected /\ posts = {} /\ payloads = {}
  BY <1>1 DEF McpInv, AddressLinkInv, ProcessLinkInv
<1> DEFINE m == Head(in)
<1>3. CASE in' = Tail(in)
  <2>1. /\ in' \in Seq(Spoken) /\ m \in Spoken /\ 1 \in DOMAIN in /\ m = in[1]
        /\ \A i \in DOMAIN in' : i + 1 \in DOMAIN in /\ in'[i] = in[i + 1]
        /\ \A i \in DOMAIN in : in[i] # m => i - 1 \in DOMAIN in' /\ in'[i - 1] = in[i]
        /\ \A i \in DOMAIN in' : i + 1 = Len(in) => i = Len(in')
    BY <1>1, <1>3, HeardFromTheFront
  <2> HIDE DEF m
  <2>2. /\ \A i \in DOMAIN in' : in'[i].what = "exited" => i = Len(in') /\ client \notin processes
        /\ Hears({"changed"})' => greeted
    <3>1. /\ \A i \in DOMAIN in : in[i].what = "exited" => i = Len(in) /\ client \notin processes
          /\ Hears({"changed"}) => greeted
      BY <1>2 DEF McpInv, ProcessLinkInv, GreetingInv
    <3>2. Hears({"changed"})' => Hears({"changed"})
      BY <2>1 DEF Hears
    <3> QED BY <2>1, <3>1, <3>2
  <2>3. CASE /\ m.what \notin {"exited", "failed"} /\ Mcp!Dispatch(m)
             /\ UNCHANGED <<connected, stopping, session, payloads, processes>>
    <3>1. /\ AnsweredInv'
          /\ pending' \subseteq pending \cup {Mcp!AskTools}
          /\ catalog' = catalog \/ ready
      BY <1>1, <2>3, WhatIsDispatched
    <3>2. PICK ms \in Seq(Spoken) :
              /\ Mcp!Send(ms)
              /\ ready' = ready \/ \E i \in DOMAIN ms : ms[i].what = "initialized"
              /\ m.what = "changed" \/ \A i \in DOMAIN ms : ms[i].what \in {"tools", "call"} =>
                                           \E j \in 1..i-1 : ms[j].what = "initialized"
      BY <1>1, <2>3, WhatIsDispatched
    <3>3. out' = out \o ms /\ posts' = posts
      BY <1>2, <3>2 DEF Mcp!Send
    <3>4. m.what = "changed" => ToldToBegin
      BY <2>1 DEF McpInv, GreetingInv, Hears, ToldToBegin
    <3>5. /\ Mcp!GreetedFirst'
          /\ ToldToBegin \/ (\E i \in DOMAIN ms : ms[i].what = "initialized") => ToldToBegin'
      BY <1>1, <3>2, <3>3, <3>4, SentAfter DEF McpInv, GreetingInv
    <3>6. SpokenInv'
      <4>1. out' \in Seq(Spoken)
        BY <1>1, <3>3 DEF SpokenInv
      <4>2. Mcp!AskTools \in Spoken /\ Mcp!AskTools.what \in Asks
        BY MessageIs DEF Mcp!AskTools, Asks, Words
      <4>3. (\A n \in pending' : n \in Spoken /\ n.what \in Asks) /\ payloads' = payloads
        BY <1>1, <2>3, <3>1, <4>2 DEF SpokenInv
      <4> QED BY <1>1, <1>2, <2>1, <3>3, <4>1, <4>3 DEF SpokenInv
    <3>7. ProcessLinkInv'
      <4>1. client \in processes \/ Hears({"exited", "failed"})'
        <5>1. client \in processes \/ Hears({"exited", "failed"})
          BY <1>2 DEF McpInv, ProcessLinkInv
        <5>2. Hears({"exited", "failed"}) => Hears({"exited", "failed"})'
          BY <2>1, <2>3 DEF Hears
        <5> QED BY <5>1, <5>2
      <4> QED BY <1>1, <1>2, <2>2, <2>3, <3>3, <4>1 DEF ProcessLinkInv
    <3>8. AddressLinkInv'
      BY <1>1, <1>2 DEF AddressLinkInv
    <3>9. GreetingInv'
      <4>1. ready' \/ catalog' # 0 => ToldToBegin'
        BY <1>2, <3>1, <3>2, <3>5 DEF McpInv, GreetingInv
      <4> QED BY <1>1, <2>2, <3>5, <4>1 DEF GreetingInv
    <3> QED BY <1>1, <1>2, <3>1, <3>6, <3>7, <3>8, <3>9 DEF McpInv
  <2>4. CASE Mcp!Exited
    <3>1. /\ m.what = "exited" /\ connected' = FALSE /\ pending' = {}
          /\ results' = Mcp!Answered(Mcp!CallsIn(pending))
          /\ UNCHANGED <<stopping, out, posts, payloads, processes>>
      BY <1>1, <2>4 DEF Mcp!Exited, Mcp!CompleteAll, m
    <3>2. client \notin processes /\ Len(in) = 1
      BY <1>2, <2>1, <3>1 DEF McpInv, ProcessLinkInv
    <3>3. in' = <<>>
      BY <1>1, <1>3, <3>2
    <3>4. SpokenInv'
      BY <1>1, <2>1, <3>1 DEF SpokenInv
    <3>5. AnsweredInv'
      BY <1>1, <3>1, AllAnswered
    <3>6. ProcessLinkInv'
      BY <1>1, <1>2, <3>1, <3>2, <3>3 DEF ProcessLinkInv
    <3>7. AddressLinkInv'
      BY <1>1, <1>2 DEF AddressLinkInv
    <3>8. GreetingInv'
      BY <1>1, <2>2, <3>1 DEF GreetingInv, Mcp!GreetedFirst, McpInv
    <3> QED BY <1>1, <1>2, <3>4, <3>5, <3>6, <3>7, <3>8 DEF McpInv
  <2>5. CASE Mcp!Stopped
    BY <1>1, <2>5, McpStopped
  <2> QED BY <1>1, <1>3, <2>3, <2>4, <2>5 DEF Mcp!Hear, m
<1>4. CASE Mcp!Stopped
  BY <1>1, <1>4, McpStopped
<1>5. in' = Tail(in) \/ Mcp!Stopped
  <2>1. Mcp!Exited => in' = Tail(in)
    BY DEF Mcp!Exited
  <2> QED BY <2>1 DEF Mcp!Hear
<1> QED BY <1>3, <1>4, <1>5

(* A call is sent to a process that runs, or posted.                        *)
LEMMA McpAsks ==
    ASSUME McpInv, NEW c \in McpCalls, NEW goes \in BOOLEAN, goes => Mcp!Running, Mcp!Request(c, goes)
    PROVE  McpInv'
<1> DEFINE call == Mcp!Message("call", c)
<1>1. /\ c \notin DOMAIN results /\ catalog # 0
      /\ DOMAIN results' = DOMAIN results \cup {c} /\ \A x \in DOMAIN results : results'[x] = results[x]
      /\ results'[c] = IF goes THEN 0 ELSE 1
      /\ pending' = IF goes THEN pending \cup {call} ELSE pending
      /\ goes => Mcp!Send(<<call>>)
      /\ ~goes => UNCHANGED <<out, posts>>
      /\ UNCHANGED <<transport, client, connected, ready, stopping, in, payloads, ignored, processes, greeted, catalog>>
  BY DEF Mcp!Request
<1>2. call \in Spoken /\ call.what = "call" /\ call.of = c /\ \A x : Mcp!Message("call", x) = call => x = c
  BY MessageIs
<1> HIDE DEF call
<1>3. SpokenInv /\ AnsweredInv /\ transport \in {"stdio", "http"}
  BY DEF McpInv
<1>4. AnsweredInv'
  <2>1. call \notin pending
    BY <1>1, <1>2, <1>3 DEF AnsweredInv
  <2>2. \A n \in pending' : n.what = "call" => n.of \in DOMAIN results'
    BY <1>1, <1>2, <1>3 DEF AnsweredInv
  <2>3. ASSUME NEW x \in DOMAIN results'
        PROVE  results'[x] = IF Mcp!Message("call", x) \in pending' THEN 0 ELSE 1
    <3>1. CASE x = c
      <4>1. Mcp!Message("call", x) = call
        BY <3>1 DEF call
      <4> QED BY <1>1, <2>1, <3>1, <4>1
    <3>2. CASE x # c
      <4>1. Mcp!Message("call", x) # call /\ x \in DOMAIN results
        BY <1>1, <1>2, <3>2
      <4> QED BY <1>1, <1>3, <4>1 DEF AnsweredInv
    <3> QED BY <3>1, <3>2
  <2> QED BY <2>2, <2>3 DEF AnsweredInv
<1>5. <<call>> \in Seq(Spoken) /\ Mcp!ToSet(<<call>>) = {call}
  <2>1. DOMAIN <<call>> = {1} /\ <<call>>[1] = call
    OBVIOUS
  <2> QED BY <1>2, <2>1 DEF Mcp!ToSet
<1>6. (\A n \in pending' : n \in Spoken /\ n.what \in Asks) /\ \A n \in payloads' : n \in Spoken
  BY <1>1, <1>2, <1>3 DEF SpokenInv, Asks
<1>7. CASE transport = "stdio"
  <2>1. posts' = posts /\ (out' = out \/ (connected /\ out' = out \o <<call>>))
    BY <1>1, <1>7 DEF Mcp!Send, Mcp!Running
  <2>2. SpokenInv'
    BY <1>1, <1>3, <1>5, <1>6, <2>1 DEF SpokenInv
  <2>3. ProcessLinkInv'
    <3>1. /\ posts = {} /\ payloads = {}
          /\ pending # {} \/ in # <<>> => connected
          /\ connected => client \in processes \/ Hears({"exited", "failed"})
          /\ ~connected => client \notin processes \/ (stopping /\ out = <<>>)
          /\ \A i \in DOMAIN in : in[i].what = "exited" => i = Len(in) /\ client \notin processes
      BY <1>7 DEF ProcessLinkInv, McpInv
    <3>2. goes => connected
      BY <1>7 DEF Mcp!Running
    <3>3. ~connected => out' = out
      BY <2>1
    <3>4. pending' # {} => connected
      BY <1>1, <3>1, <3>2
    <3>5. Hears({"exited", "failed"})' = Hears({"exited", "failed"})
      BY <1>1 DEF Hears
    <3> QED BY <1>1, <2>1, <3>1, <3>3, <3>4, <3>5 DEF ProcessLinkInv
  <2>4. GreetingInv'
    <3>1. connected => ToldToBegin
      BY <1>1 DEF McpInv, GreetingInv
    <3>2. CASE out' = out
      BY <1>1, <3>2 DEF McpInv, GreetingInv, ToldToBegin, Mcp!GreetedFirst, Hears
    <3>3. CASE connected /\ out' = out \o <<call>>
      <4>1. Mcp!GreetedFirst' /\ ToldToBegin'
        BY <1>1, <1>3, <1>5, <3>1, <3>3, SentAfter DEF McpInv, GreetingInv
      <4> QED BY <1>1, <4>1 DEF McpInv, GreetingInv, Hears
    <3> QED BY <2>1, <3>2, <3>3
  <2> QED BY <1>1, <1>3, <1>4, <1>7, <2>2, <2>3, <2>4 DEF McpInv, AddressLinkInv
<1>8. CASE transport = "http"
  <2>1. out' = out /\ posts' = IF goes /\ ~stopping THEN posts \cup {[message |-> call, session |-> session]} ELSE posts
    BY <1>1, <1>5, <1>8 DEF Mcp!Send
  <2>2. SpokenInv'
    BY <1>1, <1>2, <1>3, <1>6, <2>1 DEF SpokenInv
  <2>3. AddressLinkInv'
    <3>1. ASSUME NEW n \in pending'
          PROVE  Due(n)'
      <4>1. CASE n \in pending
        BY <1>1, <1>8, <2>1, <4>1 DEF AddressLinkInv, McpInv, Due
      <4>2. CASE n = call /\ goes
        <5>1. [message |-> call, session |-> session].message = call
          OBVIOUS
        <5> QED BY <1>1, <1>2, <2>1, <4>2, <5>1 DEF Due
      <4> QED BY <1>1, <3>1, <4>1, <4>2
    <3> QED BY <1>1, <1>8, <2>1, <3>1 DEF AddressLinkInv, McpInv
  <2>4. GreetingInv'
    BY <1>1, <2>1 DEF McpInv, GreetingInv, ToldToBegin, Mcp!GreetedFirst, Hears
  <2> QED BY <1>1, <1>3, <1>4, <1>8, <2>2, <2>3, <2>4 DEF McpInv, ProcessLinkInv
<1> QED BY <1>3, <1>7, <1>8
(* What the model said is sent to a server that asked.                      *)
LEMMA McpSamples == ASSUME McpInv, NEW c, Mcp!Sampled(c) PROVE McpInv'
<1> DEFINE reply == Mcp!Message("response", 0)
<1>1. /\ (Mcp!Send(<<reply>>) /\ ~stopping) \/ UNCHANGED <<out, posts>>
      /\ UNCHANGED <<transport, client, connected, ready, stopping, pending, in, payloads, ignored, processes,
                     greeted, catalog, results>>
  BY DEF Mcp!Sampled
<1>2. reply \in Spoken /\ reply.what = "response"
  BY MessageIs DEF Words
<1> HIDE DEF reply
<1>3. SpokenInv /\ AnsweredInv /\ transport \in {"stdio", "http"}
  BY DEF McpInv
<1>4. AnsweredInv'
  BY <1>1, <1>3, NothingAnswered
<1>5. <<reply>> \in Seq(Spoken) /\ Mcp!ToSet(<<reply>>) = {reply} /\ \A i \in DOMAIN <<reply>> : <<reply>>[i] = reply
  <2>1. DOMAIN <<reply>> = {1} /\ <<reply>>[1] = reply
    OBVIOUS
  <2> QED BY <1>2, <2>1 DEF Mcp!ToSet
<1>6. CASE UNCHANGED <<out, posts>>
  BY <1>1, <1>3, <1>4, <1>6 DEF McpInv, SpokenInv, ProcessLinkInv, AddressLinkInv, Due, GreetingInv,
                                ToldToBegin, Mcp!GreetedFirst, Hears
<1>7. CASE Mcp!Send(<<reply>>) /\ ~stopping
  <2>1. CASE transport = "stdio"
    <3>1. out' = out \o <<reply>> /\ posts' = posts
      BY <1>7, <2>1 DEF Mcp!Send
    <3>2. SpokenInv'
      BY <1>1, <1>3, <1>5, <3>1 DEF SpokenInv
    <3>3. ProcessLinkInv'
      BY <1>1, <1>7, <3>1 DEF ProcessLinkInv, McpInv, Hears
    <3>4. Mcp!GreetedFirst' /\ (ToldToBegin => ToldToBegin')
      BY <1>1, <1>2, <1>3, <1>5, <3>1, SentAfter DEF McpInv, GreetingInv
    <3>5. GreetingInv'
      BY <1>1, <3>4 DEF McpInv, GreetingInv, Hears
    <3> QED BY <1>1, <1>3, <1>4, <2>1, <3>2, <3>3, <3>5 DEF McpInv, AddressLinkInv
  <2>2. CASE transport = "http"
    <3>1. out' = out /\ posts' = posts \cup {[message |-> reply, session |-> session]}
      BY <1>5, <1>7, <2>2 DEF Mcp!Send
    <3>2. SpokenInv'
      BY <1>1, <1>2, <1>3, <3>1 DEF SpokenInv
    <3>3. AddressLinkInv'
      BY <1>1, <1>7, <2>2, <3>1 DEF AddressLinkInv, Due, McpInv
    <3>4. GreetingInv'
      BY <1>1, <3>1 DEF McpInv, GreetingInv, ToldToBegin, Mcp!GreetedFirst, Hears
    <3> QED BY <1>1, <1>3, <1>4, <2>2, <3>2, <3>3, <3>4 DEF McpInv, ProcessLinkInv
  <2> QED BY <1>3, <2>1, <2>2
<1> QED BY <1>1, <1>6, <1>7

(* The process of a server: it reads, speaks and ends.                      *)
LEMMA ServerSteps ==
    ASSUME McpInv, Mcp!ServerReads \/ Mcp!ServerSpeaks \/ \E c \in processes : Mcp!ServerEnds(c)
    PROVE  McpInv'
<1>1. /\ processes # {}
      /\ UNCHANGED <<transport, client, connected, ready, stopping, pending, posts, payloads, catalog, results>>
  BY DEF Mcp!ServerReads, Mcp!ServerSpeaks, Mcp!ServerEnds
<1>2. /\ transport = "stdio" /\ SpokenInv /\ AnsweredInv /\ posts = {} /\ payloads = {}
      /\ pending # {} \/ in # <<>> => connected
      /\ connected => client \in processes \/ Hears({"exited", "failed"})
      /\ ~connected => client \notin processes \/ (stopping /\ out = <<>>)
      /\ \A i \in DOMAIN in : in[i].what = "exited" => i = Len(in) /\ client \notin processes
  BY <1>1 DEF McpInv, AddressLinkInv, ProcessLinkInv
<1>3. AnsweredInv'
  BY <1>1, <1>2, NothingAnswered
<1>4. SUFFICES SpokenInv' /\ ProcessLinkInv' /\ GreetingInv'
  BY <1>1, <1>2, <1>3 DEF McpInv, AddressLinkInv
<1>5. in \in Seq(Spoken) /\ out \in Seq(Spoken)
  BY <1>2 DEF SpokenInv
<1>6. /\ connected /\ (ready \/ catalog # 0) => ToldToBegin
      /\ Hears({"changed"}) => greeted
      /\ Mcp!GreetedFirst
  BY DEF McpInv, GreetingInv
<1>7. CASE Mcp!ServerReads
  <2>1. /\ out # <<>> /\ client \in processes /\ out' = Tail(out) /\ processes' = processes
        /\ greeted' = (greeted \/ Head(out).what = "initialized")
        /\ in' = in \/ (Head(out).what \in Asks /\ in' = Append(in, Head(out)))
    BY <1>7 DEF Mcp!ServerReads, Asks
  <2>2. connected
    BY <1>2, <2>1
  <2>3. Head(out) \in Spoken /\ out' \in Seq(Spoken)
    BY <1>5, <2>1
  <2>4. Mcp!GreetedFirst' /\ (ToldToBegin => ToldToBegin')
    BY <1>2, <1>6, <2>1, ReadFromTheFront
  <2>5. /\ in' \in Seq(Spoken)
        /\ \A i \in DOMAIN in' : (i \in DOMAIN in /\ in'[i] = in[i]) \/ in'[i].what \in Asks
    <3>1. CASE in' = in
      BY <1>5, <3>1
    <3>2. CASE Head(out).what \in Asks /\ in' = Append(in, Head(out))
      BY <1>5, <2>3, <3>2, Overheard
    <3> QED BY <2>1, <3>1, <3>2
  <2>6. SpokenInv'
    BY <1>1, <1>2, <2>3, <2>5 DEF SpokenInv
  <2>7. ProcessLinkInv'
    <3>1. \A i \in DOMAIN in' : in'[i].what # "exited"
      BY <1>2, <2>1, <2>5 DEF Asks
    <3> QED BY <1>1, <1>2, <2>1, <2>2, <3>1 DEF ProcessLinkInv
  <2>8. GreetingInv'
    <3>1. Hears({"changed"})' => greeted'
      BY <1>6, <2>1, <2>5 DEF Hears, Asks
    <3> QED BY <1>1, <1>6, <2>4, <3>1 DEF GreetingInv
  <2> QED BY <2>6, <2>7, <2>8
<1>8. CASE Mcp!ServerSpeaks
  <2>1. PICK what \in {"failed", "changed", "sampling", "roots"} :
            (what # "failed" => greeted) /\ in' = Append(in, Mcp!Message(what, 0))
    BY <1>8 DEF Mcp!ServerSpeaks
  <2>2. client \in processes /\ connected /\ UNCHANGED <<out, processes, greeted>>
    BY <1>8 DEF Mcp!ServerSpeaks
  <2>3. Mcp!Message(what, 0) \in Spoken /\ Mcp!Message(what, 0).what = what
    BY MessageIs DEF Words
  <2>4. /\ in' \in Seq(Spoken)
        /\ \A i \in DOMAIN in' : (i \in DOMAIN in /\ in'[i] = in[i]) \/ in'[i].what = what
    BY <1>5, <2>1, <2>3, Overheard
  <2>5. SpokenInv'
    BY <1>1, <1>2, <2>2, <2>4 DEF SpokenInv
  <2>6. ProcessLinkInv'
    <3>1. \A i \in DOMAIN in' : in'[i].what # "exited"
      BY <1>2, <2>2, <2>4
    <3> QED BY <1>1, <1>2, <2>2, <3>1 DEF ProcessLinkInv
  <2>7. GreetingInv'
    <3>1. Hears({"changed"})' => greeted
      BY <1>6, <2>1, <2>4 DEF Hears
    <3> QED BY <1>1, <1>6, <2>2, <3>1 DEF GreetingInv, ToldToBegin, Mcp!GreetedFirst
  <2> QED BY <2>5, <2>6, <2>7
<1>9. ASSUME NEW c \in processes, Mcp!ServerEnds(c) PROVE SpokenInv' /\ ProcessLinkInv' /\ GreetingInv'
  <2>1. processes' = processes \ {c} /\ UNCHANGED <<out, greeted>>
    BY <1>9 DEF Mcp!ServerEnds
  <2>2. CASE c = client /\ connected
    <3>1. PICK what \in {"exited", "failed"} : in' = Append(in, Mcp!Message(what, 0))
      BY <1>9, <2>2 DEF Mcp!ServerEnds
    <3>2. Mcp!Message(what, 0) \in Spoken /\ Mcp!Message(what, 0).what = what
      BY MessageIs DEF Words
    <3>3. /\ in' \in Seq(Spoken)
          /\ \A i \in DOMAIN in' : (i \in DOMAIN in /\ in'[i] = in[i]) \/ (i = Len(in') /\ in'[i].what = what)
          /\ \E i \in DOMAIN in' : in'[i].what = what
      BY <1>5, <3>1, <3>2, Overheard
    <3>4. SpokenInv'
      BY <1>1, <1>2, <2>1, <3>3 DEF SpokenInv
    <3>5. ProcessLinkInv'
      <4>1. \A i \in DOMAIN in' : in'[i].what = "exited" => i = Len(in')
        BY <1>2, <2>2, <3>3
      <4>2. client \notin processes' /\ Hears({"exited", "failed"})'
        BY <2>1, <2>2, <3>3 DEF Hears
      <4> QED BY <1>1, <1>2, <2>1, <2>2, <4>1, <4>2 DEF ProcessLinkInv
    <3>6. GreetingInv'
      <4>1. Hears({"changed"})' => greeted
        BY <1>6, <3>3 DEF Hears
      <4> QED BY <1>1, <1>6, <2>1, <4>1 DEF GreetingInv, ToldToBegin, Mcp!GreetedFirst
    <3> QED BY <3>4, <3>5, <3>6
  <2>3. CASE ~(c = client /\ connected)
    <3>1. in' = in
      BY <1>9, <2>3 DEF Mcp!ServerEnds
    <3>2. SpokenInv'
      BY <1>1, <1>2, <2>1, <3>1 DEF SpokenInv
    <3>3. ProcessLinkInv'
      BY <1>1, <1>2, <2>1, <2>3, <3>1 DEF ProcessLinkInv, Hears
    <3>4. GreetingInv'
      BY <1>1, <1>6, <2>1, <3>1 DEF GreetingInv, ToldToBegin, Mcp!GreetedFirst, Hears
    <3> QED BY <3>2, <3>3, <3>4
  <2> QED BY <2>2, <2>3
<1> QED BY <1>7, <1>8, <1>9
(* What was posted is answered, or is noted as what was not, or everything    *)
(* that waits is answered.                                                 *)
LEMMA McpPosted == ASSUME McpInv, NEW p \in posts, Mcp!PostAnswered(p) PROVE McpInv'
<1>1. /\ posts' = posts \ {p}
      /\ UNCHANGED <<transport, client, connected, ready, stopping, out, in, processes, greeted, catalog>>
  BY DEF Mcp!PostAnswered
<1>2. /\ transport = "http" /\ SpokenInv /\ AnsweredInv
      /\ ~connected /\ in = <<>> /\ out = <<>> /\ processes = {}
      /\ \A m \in pending : Due(m)
  BY DEF McpInv, ProcessLinkInv, AddressLinkInv
<1>3. GreetingInv'
  BY <1>1 DEF McpInv, GreetingInv, ToldToBegin, Mcp!GreetedFirst, Hears
<1>4. SUFFICES AnsweredInv' /\ SpokenInv' /\ \A m \in pending' : Due(m)'
  BY <1>1, <1>2, <1>3 DEF McpInv, ProcessLinkInv, AddressLinkInv
<1>5. ASSUME NEW body \in Mcp!Bodies(p), payloads' = payloads \cup body,
             ignored' = ignored \cup (Mcp!AnswerTo(p) \ body), UNCHANGED <<pending, results>>
      PROVE  AnsweredInv' /\ SpokenInv' /\ \A m \in pending' : Due(m)'
  <2>1. AnsweredInv'
    BY <1>2, <1>5, NothingAnswered
  <2>2. p.message \in Spoken /\ \A what \in Words : Mcp!Message(what, 0) \in Spoken
    BY <1>2, MessageIs DEF SpokenInv
  <2>3. \A m \in body : m \in Spoken
    <3>1. \A what \in {"changed", "sampling", "roots"} : what \in Words
      BY DEF Words
    <3>2. \A m \in body : m = p.message \/ \E what \in {"changed", "sampling", "roots"} : m = Mcp!Message(what, 0)
      BY <1>5 DEF Mcp!Bodies, Mcp!AnswerTo
    <3> QED BY <2>2, <3>1, <3>2
  <2>4. SpokenInv'
    BY <1>1, <1>2, <1>5, <2>3 DEF SpokenInv
  <2>5. ASSUME NEW m \in pending' PROVE Due(m)'
    <3>1. m \in pending /\ m.what \in Asks /\ Due(m)
      BY <1>2, <1>5 DEF SpokenInv
    <3>2. CASE m = p.message
      <4>1. m \in Mcp!AnswerTo(p)
        BY <3>1, <3>2 DEF Mcp!AnswerTo, Asks
      <4> QED BY <1>5, <4>1 DEF Due
    <3>3. CASE m # p.message
      BY <1>1, <1>5, <3>1, <3>3 DEF Due
    <3> QED BY <3>2, <3>3
  <2> QED BY <2>1, <2>4, <2>5
<1>6. CASE Mcp!CompleteAll /\ payloads' = payloads
  <2>1. pending' = {} /\ results' = Mcp!Answered(Mcp!CallsIn(pending))
    BY <1>6 DEF Mcp!CompleteAll
  <2>2. AnsweredInv'
    BY <1>2, <2>1, AllAnswered
  <2> QED BY <1>1, <1>2, <1>6, <2>1, <2>2 DEF SpokenInv
<1>7. \/ \E body \in Mcp!Bodies(p) :
            /\ payloads' = payloads \cup body /\ ignored' = ignored \cup (Mcp!AnswerTo(p) \ body)
            /\ UNCHANGED <<pending, results>>
      \/ Mcp!CompleteAll /\ payloads' = payloads
  BY DEF Mcp!PostAnswered
<1> QED BY <1>5, <1>6, <1>7

(* What was parsed is dispatched, or stops the client.                      *)
LEMMA McpParses == ASSUME McpInv, NEW m \in payloads, Mcp!Parsed(m) PROVE McpInv'
<1>1. payloads' = payloads \ {m} /\ UNCHANGED <<transport, client, greeted>>
  BY DEF Mcp!Parsed
<1>2. /\ transport = "http" /\ SpokenInv /\ AnsweredInv
      /\ ~connected /\ in = <<>> /\ out = <<>> /\ processes = {}
      /\ \A n \in pending : Due(n)
  BY DEF McpInv, ProcessLinkInv, AddressLinkInv
<1>3. CASE Mcp!Stopped
  BY <1>1, <1>3, McpStopped
<1>4. CASE Mcp!Dispatch(m) /\ UNCHANGED <<connected, stopping, in, processes>>
  <2>1. /\ AnsweredInv' /\ (m.what \in Asks => m \notin pending')
        /\ pending' \subseteq pending \cup {Mcp!AskTools}
    BY <1>2, <1>4, WhatIsDispatched
  <2>2. PICK ms \in Seq(Spoken) :
            /\ Mcp!Send(ms)
            /\ Mcp!AskTools \in pending' \ pending => \E i \in DOMAIN ms : ms[i] = Mcp!AskTools
            /\ \/ ignored' = ignored
               \/ ignored' = ignored \ {Mcp!AskTools} /\ \E i \in DOMAIN ms : ms[i] = Mcp!AskTools
    BY <1>2, <1>4, WhatIsDispatched
  <2>3. /\ out' = out
        /\ posts' = IF stopping THEN posts
                    ELSE posts \cup {[message |-> n, session |-> session] : n \in Mcp!ToSet(ms)}
    BY <1>2, <2>2 DEF Mcp!Send
  <2>4. /\ posts \subseteq posts'
        /\ ~stopping => \A n \in Mcp!ToSet(ms) : \E q \in posts' : q.message = n
        /\ \A q \in posts' : q \in posts \/ q.message \in Mcp!ToSet(ms)
    <3>1. \A n : [message |-> n, session |-> session].message = n
      OBVIOUS
    <3> QED BY <2>3, <3>1
  <2>5. Mcp!ToSet(ms) \subseteq Spoken /\ \A i \in DOMAIN ms : ms[i] \in Mcp!ToSet(ms)
    BY DEF Mcp!ToSet
  <2>6. Mcp!AskTools \in Spoken /\ Mcp!AskTools.what \in Asks
    BY MessageIs DEF Mcp!AskTools, Asks, Words
  <2>7. \A n \in pending' : n \in Spoken /\ n.what \in Asks
    BY <1>2, <2>1, <2>6 DEF SpokenInv
  <2>8. SpokenInv'
    BY <1>1, <1>2, <1>4, <2>3, <2>4, <2>5, <2>7 DEF SpokenInv
  <2>9. ASSUME NEW n \in pending' PROVE Due(n)'
    <3>1. CASE stopping
      BY <1>4, <3>1 DEF Due
    <3>2. CASE ~stopping /\ \E i \in DOMAIN ms : ms[i] = n
      BY <2>4, <2>5, <3>2 DEF Due
    <3>3. CASE ~stopping /\ ~\E i \in DOMAIN ms : ms[i] = n
      <4>1. n \in pending /\ n # m /\ (n \in ignored => n \in ignored')
        BY <2>1, <2>2, <2>7, <3>3
      <4> QED BY <1>1, <1>2, <1>4, <2>4, <3>3, <4>1 DEF Due
    <3> QED BY <3>1, <3>2, <3>3
  <2>10. AddressLinkInv'
    BY <1>1, <1>2, <1>4, <2>3, <2>9 DEF AddressLinkInv
  <2>11. GreetingInv'
    BY <1>1, <1>2, <1>4, <2>3 DEF McpInv, GreetingInv, Mcp!GreetedFirst, Hears
  <2> QED BY <1>1, <1>2, <2>1, <2>8, <2>10, <2>11 DEF McpInv, ProcessLinkInv
<1> QED BY <1>3, <1>4 DEF Mcp!Parsed

LEMMA McpStep == McpInv /\ Mcp!McpNext => McpInv'
<1> SUFFICES ASSUME McpInv, Mcp!McpNext PROVE McpInv'
  OBVIOUS
<1>1. CASE Mcp!Restart
  BY <1>1, McpRestarts
<1>2. CASE Mcp!StartTimeout
  BY <1>2, McpStopped DEF Mcp!StartTimeout
<1>3. CASE Mcp!Hear
  BY <1>3, McpHears
<1>4. CASE Mcp!ServerReads \/ Mcp!ServerSpeaks \/ \E c \in processes : Mcp!ServerEnds(c)
  BY <1>4, ServerSteps
<1>5. ASSUME NEW c \in McpCalls, Mcp!CallTool(c) \/ Mcp!ListServerCatalog(c) PROVE McpInv'
  <2>1. CASE Mcp!CallTool(c)
    <3>1. Mcp!Request(c, ready /\ Mcp!Running) /\ (ready /\ Mcp!Running) \in BOOLEAN
      BY <2>1 DEF Mcp!CallTool
    <3> QED BY <3>1, McpAsks
  <2>2. CASE Mcp!ListServerCatalog(c)
    <3>1. Mcp!Request(c, Mcp!Running) /\ Mcp!Running \in BOOLEAN
      BY <2>2 DEF Mcp!ListServerCatalog, Mcp!Running
    <3> QED BY <3>1, McpAsks
  <2> QED BY <1>5, <2>1, <2>2
<1>6. ASSUME NEW c \in sampling, Mcp!Sampled(c) PROVE McpInv'
  BY <1>6, McpSamples
<1>7. ASSUME NEW p \in posts, Mcp!PostAnswered(p) PROVE McpInv'
  BY <1>7, McpPosted
<1>8. ASSUME NEW m \in payloads, Mcp!Parsed(m) PROVE McpInv'
  BY <1>8, McpParses
<1> QED BY <1>1, <1>2, <1>3, <1>4, <1>5, <1>6, <1>7, <1>8 DEF Mcp!McpNext

LEMMA McpPromises == McpInv => Mcp!NoCallWaitsForTheDead /\ Mcp!GreetedFirst
<1> SUFFICES ASSUME McpInv PROVE Mcp!NoCallWaitsForTheDead /\ Mcp!GreetedFirst
  OBVIOUS
<1>1. ASSUME NEW m \in pending
      PROVE  \/ client \in processes
             \/ \E i \in DOMAIN in : in[i].what \in {"exited", "failed"}
             \/ m \in payloads \/ \E p \in posts : p.message = m
             \/ transport = "http" /\ (stopping \/ m \in ignored)
  <2>1. CASE transport = "http"
    BY <2>1 DEF McpInv, AddressLinkInv, Due
  <2>2. CASE transport # "http"
    BY <2>2 DEF McpInv, ProcessLinkInv, Hears
  <2> QED BY <2>1, <2>2
<1> QED BY <1>1 DEF McpInv, AnsweredInv, GreetingInv, Mcp!NoCallWaitsForTheDead

-----------------------------------------------------------------------------
(* The skills of the directories.  What a scan has found so far is of its own *)
(* directory and then of the home, each name once, the ones of the directory  *)
(* first; so is what the catalog keeps, for the directory it is kept for, and  *)
(* what was given to a run.                                                 *)
Skill == [name : STRING, file : SkillFiles, place : Workdirs \cup {"home"}]
Found(d, skills, root) ==
    /\ skills \in Seq(Skill)
    /\ \A i \in DOMAIN skills : skills[i].place = d \/ (skills[i].place = "home" /\ root > 1)
    /\ \A i, j \in DOMAIN skills : i < j =>
           skills[i].name # skills[j].name /\ (skills[j].place = d => skills[i].place = d)
ScanIs(d, s) ==
    /\ s = [root |-> s.root, entries |-> s.entries, listed |-> s.listed, found |-> s.found, since |-> s.since]
    /\ s.root \in 1..3 /\ (s.listed => s.root < 3 /\ s.entries \subseteq SkillFiles)
    /\ Found(d, s.found, s.root)
AskIs(a) == a \in [workdir : Workdirs, starts : BOOLEAN, changes : Nat]
ScansAre(sc, as) ==
    /\ DOMAIN sc = DOMAIN as
    /\ \A n \in DOMAIN as : AskIs(as[n]) /\ (sc[n] # <<>> => sc[n] = <<sc[n][1]>> /\ ScanIs(as[n].workdir, sc[n][1]))
GivenAre(gs, as) == \A k \in DOMAIN gs : gs[k].ask \in DOMAIN as /\ Found(as[gs[k].ask].workdir, gs[k].found, 3)
IsList(q) == \E S : q \in Seq(S)
SkillsInv ==
    /\ disk \in [Places -> SUBSET SkillFiles] /\ changes \in Nat
    /\ IsList(asks)
    /\ IsList(scans)
    /\ IsList(given)
    /\ ScansAre(scans, asks) /\ GivenAre(given, asks)
    /\ cache.valid => cache.workdir \in Workdirs /\ Found(cache.workdir, cache.found, 3)

LEMMA FoundNothing == \A d, r : Found(d, <<>>, r)
BY DEF Found

LEMMA FoundAlready ==
    ASSUME NEW d, NEW skills, NEW r \in 1..3, NEW q \in 1..3, r <= q, Found(d, skills, r)
    PROVE  Found(d, skills, q)
BY DEF Found

LEMMA FoundMore ==
    ASSUME NEW d \in Workdirs, NEW r \in 1..2, NEW skills, Found(d, skills, r), NEW skill \in Skill,
           ~Skills!Claimed(skills, skill.name), skill.place = <<d, "home">>[r]
    PROVE  Found(d, Append(skills, skill), r)
<1>1. PICK more : more = Append(skills, skill)
  OBVIOUS
<1>2. PICK n : n = Len(skills) + 1
  OBVIOUS
<1>3. /\ skills \in Seq(Skill) /\ more \in Seq(Skill) /\ DOMAIN more = 1..n /\ DOMAIN skills = 1..n - 1 /\ n \in Nat \ {0}
      /\ more[n] = skill /\ \A i \in 1..n - 1 : more[i] = skills[i]
  BY <1>1, <1>2 DEF Found
<1>4. d # "home"
  BY WorkdirsAssumption
<1>5. (r = 1 /\ skill.place = d) \/ (r = 2 /\ skill.place = "home")
  <2>1. <<d, "home">>[1] = d /\ <<d, "home">>[2] = "home"
    OBVIOUS
  <2>2. r = 1 \/ r = 2
    OBVIOUS
  <2> QED BY <2>1, <2>2
<1>6. ASSUME NEW i \in DOMAIN more PROVE more[i].place = d \/ (more[i].place = "home" /\ r > 1)
  <2>1. CASE i = n
    BY <1>3, <1>5, <2>1
  <2>2. CASE i # n
    BY <1>3, <2>2 DEF Found
  <2> QED BY <2>1, <2>2
<1>7. ASSUME NEW i \in DOMAIN more, NEW j \in DOMAIN more, i < j
      PROVE  more[i].name # more[j].name /\ (more[j].place = d => more[i].place = d)
  <2>1. i \in 1..n - 1
    BY <1>3, <1>7
  <2>2. CASE j = n
    <3>1. more[i].name # skill.name
      BY <1>3, <2>1 DEF Skills!Claimed
    <3>2. skill.place = d => more[i].place = d
      BY <1>4, <1>5, <1>6
    <3> QED BY <1>3, <2>2, <3>1, <3>2
  <2>3. CASE j # n
    BY <1>3, <1>7, <2>1, <2>3 DEF Found
  <2> QED BY <2>2, <2>3
<1> QED BY <1>1, <1>3, <1>6, <1>7 DEF Found

LEMMA ScanOf ==
    ASSUME SkillsInv, NEW n \in Skills!Scanning
    PROVE  /\ n \in DOMAIN scans /\ n \in DOMAIN asks /\ AskIs(asks[n]) /\ asks[n].workdir \in Workdirs
           /\ scans[n] = <<Skills!Scan(n)>> /\ ScanIs(asks[n].workdir, Skills!Scan(n))
           /\ Skills!Roots(n) = <<asks[n].workdir, "home">> /\ Len(Skills!Roots(n)) = 2
<1>1. n \in DOMAIN scans /\ scans[n] # <<>> /\ n \in DOMAIN asks
  BY DEF Skills!Scanning, SkillsInv, ScansAre
<1>2. AskIs(asks[n]) /\ scans[n] = <<scans[n][1]>> /\ ScanIs(asks[n].workdir, scans[n][1])
  BY <1>1 DEF SkillsInv, ScansAre
<1>3. asks[n].workdir \in Workdirs
  BY <1>2 DEF AskIs
<1>4. Skills!Roots(n) = <<asks[n].workdir, "home">>
  BY <1>3 DEF Skills!Roots
<1>5. Len(<<asks[n].workdir, "home">>) = 2
  OBVIOUS
<1> QED BY <1>1, <1>2, <1>3, <1>4, <1>5 DEF Skills!Scan

(* A scan goes on, or is over.                                             *)
LEMMA ScanGoesOn ==
    ASSUME SkillsInv, NEW n \in Skills!Scanning, NEW s,
           s = <<>> \/ (s = <<s[1]>> /\ ScanIs(asks[n].workdir, s[1])),
           scans' = [scans EXCEPT ![n] = s], asks' = asks
    PROVE  ScansAre(scans', asks') /\ (IsList(asks')) /\ (IsList(scans'))
<1>1. n \in DOMAIN scans
  BY ScanOf
<1>2. IsList(scans')
  <2>1. PICK S : scans \in Seq(S)
    BY DEF SkillsInv, IsList
  <2>2. scans \in Seq(S \cup {s}) /\ s \in S \cup {s} /\ n \in 1..Len(scans)
    BY <1>1, <2>1, SeqMonotonic
  <2>3. scans' \in Seq(S \cup {s})
    BY <2>2, ExceptSeq
  <2> QED BY <2>3 DEF IsList
<1>3. ASSUME NEW k \in DOMAIN asks
      PROVE  scans'[k] # <<>> => scans'[k] = <<scans'[k][1]>> /\ ScanIs(asks[k].workdir, scans'[k][1])
  <2>1. CASE k = n
    BY <1>1, <2>1
  <2>2. CASE k # n
    BY <2>2 DEF SkillsInv, ScansAre
  <2> QED BY <2>1, <2>2
<1>4. DOMAIN scans' = DOMAIN scans
  OBVIOUS
<1> QED BY <1>2, <1>3, <1>4 DEF SkillsInv, ScansAre

Longer(q, all, e) ==
    /\ Len(q) \in Nat /\ DOMAIN q = 1..Len(q) /\ DOMAIN all = 1..Len(q) + 1
    /\ all[Len(q) + 1] = e /\ \A i \in DOMAIN q : all[i] = q[i]

LEMMA OneMoreOf ==
    ASSUME NEW q, IsList(q), NEW e, NEW all, all = Append(q, e)
    PROVE  IsList(all) /\ Longer(q, all, e)
<1>1. PICK S : q \in Seq(S)
  BY DEF IsList
<1>2. q \in Seq(S \cup {e}) /\ e \in S \cup {e}
  BY <1>1, SeqMonotonic
<1>3. all \in Seq(S \cup {e})
  BY <1>2
<1>4. Longer(q, all, e)
  BY <1>2 DEF Longer
<1> QED BY <1>3, <1>4 DEF IsList

(* Who asks is added to those who asked, with its scan.                     *)
AskedMore(as, all, n, a) ==
    /\ DOMAIN as \subseteq DOMAIN all /\ n \in DOMAIN all /\ all[n] = a /\ \A k \in DOMAIN as : all[k] = as[k]

LEMMA OneMoreAsks ==
    ASSUME SkillsInv, NEW a, AskIs(a), NEW s,
           s = <<>> \/ (s = <<s[1]>> /\ ScanIs(a.workdir, s[1])),
           asks' = Append(asks, a), scans' = Append(scans, s)
    PROVE  /\ ScansAre(scans', asks') /\ (IsList(asks')) /\ (IsList(scans'))
           /\ AskedMore(asks, asks', Len(asks) + 1, a)
<1>1. (IsList(asks)) /\ (IsList(scans)) /\ ScansAre(scans, asks)
  BY DEF SkillsInv
<1>2. PICK n : n = Len(asks)
  OBVIOUS
<1>3. /\ IsList(asks')
      /\ n \in Nat /\ DOMAIN asks = 1..n /\ DOMAIN asks' = 1..n + 1 /\ asks'[n + 1] = a /\ \A k \in DOMAIN asks : asks'[k] = asks[k]
  <2>1. IsList(asks') /\ Longer(asks, asks', a)
    BY <1>1, OneMoreOf
  <2> QED BY <1>2, <2>1 DEF Longer
<1>4. /\ IsList(scans')
      /\ Len(scans) \in Nat /\ DOMAIN scans = 1..Len(scans) /\ DOMAIN scans' = 1..Len(scans) + 1
      /\ scans'[Len(scans) + 1] = s /\ \A k \in DOMAIN scans : scans'[k] = scans[k]
  <2>1. IsList(scans') /\ Longer(scans, scans', s)
    BY <1>1, OneMoreOf
  <2> QED BY <2>1 DEF Longer
<1>5. Len(scans) = n
  <2>1. 1..Len(scans) = 1..n
    BY <1>1, <1>3, <1>4 DEF ScansAre
  <2> QED BY <1>3, <1>4, <2>1
<1>6. ASSUME NEW k \in DOMAIN asks'
      PROVE  AskIs(asks'[k]) /\ (scans'[k] # <<>> => scans'[k] = <<scans'[k][1]>> /\ ScanIs(asks'[k].workdir, scans'[k][1]))
  <2>1. CASE k = n + 1
    BY <1>3, <1>4, <1>5, <2>1
  <2>2. CASE k # n + 1
    <3>1. k \in DOMAIN asks /\ asks'[k] = asks[k] /\ scans'[k] = scans[k]
      BY <1>1, <1>3, <1>4, <1>5, <1>6, <2>2 DEF ScansAre
    <3> QED BY <1>1, <3>1 DEF ScansAre
  <2> QED BY <2>1, <2>2
<1>7. AskedMore(asks, asks', n + 1, a)
  BY <1>3 DEF AskedMore
<1> QED BY <1>2, <1>3, <1>4, <1>5, <1>6, <1>7 DEF ScansAre

LEMMA GivenStay ==
    ASSUME NEW gs, NEW as, NEW all, GivenAre(gs, as), \A k \in DOMAIN as : k \in DOMAIN all /\ all[k] = as[k]
    PROVE  GivenAre(gs, all)
BY DEF GivenAre

LEMMA OneMoreGiven ==
    ASSUME IsList(given), NEW as, GivenAre(given, as), NEW n \in DOMAIN as, NEW skills, Found(as[n].workdir, skills, 3),
           NEW since, given' = Append(given, Skills!Told(n, skills, since))
    PROVE  GivenAre(given', as) /\ IsList(given')
<1>1. PICK g : g = Skills!Told(n, skills, since)
  OBVIOUS
<1>2. g.ask = n /\ g.found = skills
  BY <1>1 DEF Skills!Told
<1>3. /\ IsList(given')
      /\ Len(given) \in Nat /\ DOMAIN given = 1..Len(given) /\ DOMAIN given' = 1..Len(given) + 1
      /\ given'[Len(given) + 1] = g /\ \A k \in DOMAIN given : given'[k] = given[k]
  <2>1. IsList(given') /\ Longer(given, given', g)
    BY <1>1, OneMoreOf
  <2> QED BY <2>1 DEF Longer
<1>4. ASSUME NEW k \in DOMAIN given' PROVE given'[k].ask \in DOMAIN as /\ Found(as[given'[k].ask].workdir, given'[k].found, 3)
  <2>1. CASE k = Len(given) + 1
    BY <1>2, <1>3, <2>1
  <2>2. CASE k # Len(given) + 1
    <3>1. k \in DOMAIN given /\ given'[k] = given[k]
      BY <1>3, <1>4, <2>2
    <3> QED BY <3>1 DEF GivenAre
  <2> QED BY <2>1, <2>2
<1> QED BY <1>3, <1>4 DEF GivenAre

LEMMA DiscoverIsSound ==
    ASSUME SkillsInv, NEW d \in Workdirs, NEW starts \in BOOLEAN, Skills!Discover(d, starts)
    PROVE  SkillsInv'
<1>1. PICK a : a = [workdir |-> d, starts |-> starts, changes |-> changes]
  OBVIOUS
<1>2. a.workdir = d /\ AskIs(a)
  BY <1>1 DEF AskIs, SkillsInv
<1>3. PICK n : n = Len(asks) + 1
  OBVIOUS
<1>4. asks' = Append(asks, a) /\ UNCHANGED <<disk, changes, cache>>
  BY <1>1 DEF Skills!Discover
<1>5. disk' \in [Places -> SUBSET SkillFiles] /\ changes' \in Nat /\ (cache'.valid => cache'.workdir \in Workdirs /\ Found(cache'.workdir, cache'.found, 3))
  BY <1>4 DEF SkillsInv
<1>6. CASE cache.valid /\ cache.workdir = d
  <2>1. scans' = Append(scans, <<>>) /\ given' = Append(given, Skills!Told(n, cache.found, cache.since))
    BY <1>3, <1>6 DEF Skills!Discover
  <2>2. /\ ScansAre(scans', asks') /\ (IsList(asks')) /\ (IsList(scans'))
        /\ AskedMore(asks, asks', n, a)
    BY <1>2, <1>3, <1>4, <2>1, OneMoreAsks
  <2>3. GivenAre(given, asks') /\ n \in DOMAIN asks' /\ asks'[n].workdir = d
    BY <1>2, <2>2, GivenStay DEF AskedMore, SkillsInv
  <2>4. Found(d, cache.found, 3) /\ (IsList(given))
    BY <1>6 DEF SkillsInv
  <2>5. GivenAre(given', asks') /\ (IsList(given'))
    BY <2>1, <2>3, <2>4, OneMoreGiven
  <2> QED BY <1>5, <2>2, <2>5 DEF SkillsInv
<1>7. CASE ~(cache.valid /\ cache.workdir = d)
  <2>1. PICK s : s = [root |-> 1, entries |-> {}, listed |-> FALSE, found |-> <<>>, since |-> changes]
    OBVIOUS
  <2>2. scans' = Append(scans, <<s>>) /\ given' = given
    BY <1>7, <2>1 DEF Skills!Discover
  <2>3. ScanIs(d, s)
    BY <2>1, FoundNothing DEF ScanIs
  <2>4. <<s>> = <<(<<s>>)[1]>> /\ (<<s>>)[1] = s
    OBVIOUS
  <2>5. /\ ScansAre(scans', asks') /\ (IsList(asks')) /\ (IsList(scans'))
        /\ AskedMore(asks, asks', n, a)
    BY <1>2, <1>3, <1>4, <2>2, <2>3, <2>4, OneMoreAsks
  <2>6. GivenAre(given', asks') /\ (IsList(given'))
    BY <2>2, <2>5, GivenStay DEF AskedMore, SkillsInv
  <2> QED BY <1>5, <2>5, <2>6 DEF SkillsInv
<1> QED BY <1>6, <1>7

LEMMA ScanIsSound ==
    ASSUME SkillsInv, NEW n \in Skills!Scanning,
           Skills!ListRoot(n) \/ Skills!NextRoot(n) \/ \E entry \in SkillFiles : Skills!ScanEntry(n, entry)
    PROVE  SkillsInv'
<1>1. PICK d : d = asks[n].workdir
  OBVIOUS
<1>2. PICK s : s = Skills!Scan(n)
  OBVIOUS
<1>3. d \in Workdirs /\ ScanIs(d, s) /\ Skills!Roots(n) = <<d, "home">> /\ Len(Skills!Roots(n)) = 2
  BY <1>1, <1>2, ScanOf
<1>4. UNCHANGED <<disk, changes, cache, asks, given>>
  BY DEF Skills!ListRoot, Skills!NextRoot, Skills!ScanEntry
<1>5. SUFFICES \E new : ScanIs(d, new) /\ scans' = [scans EXCEPT ![n] = <<new>>]
  <2>1. ASSUME NEW new, ScanIs(d, new), scans' = [scans EXCEPT ![n] = <<new>>]
        PROVE  SkillsInv'
    <3>1. <<new>> = <<(<<new>>)[1]>> /\ (<<new>>)[1] = new
      OBVIOUS
    <3>2. ScansAre(scans', asks') /\ (IsList(asks')) /\ (IsList(scans'))
      BY <1>1, <1>4, <2>1, <3>1, ScanGoesOn
    <3> QED BY <1>4, <3>2 DEF SkillsInv
  <2> QED BY <2>1
<1>6. CASE Skills!ListRoot(n)
  <2>1. PICK r \in 1..2 : r = s.root
    BY <1>2, <1>3, <1>6 DEF Skills!ListRoot, ScanIs
  <2>2. PICK place \in Places : place = Skills!Roots(n)[r]
    <3>1. <<d, "home">>[1] = d /\ <<d, "home">>[2] = "home" /\ (r = 1 \/ r = 2)
      OBVIOUS
    <3> QED BY <1>3, <3>1, WorkdirsAssumption
  <2>3. PICK new : new = [s EXCEPT !.listed = TRUE, !.entries = disk[place]]
    OBVIOUS
  <2>4. disk[place] \subseteq SkillFiles
    BY DEF SkillsInv
  <2>5. scans' = [scans EXCEPT ![n] = <<new>>]
    BY <1>2, <1>6, <2>1, <2>2, <2>3 DEF Skills!ListRoot
  <2>6. ScanIs(d, new)
    <3>1. s = [root |-> s.root, entries |-> s.entries, listed |-> s.listed, found |-> s.found, since |-> s.since]
      BY <1>3 DEF ScanIs
    <3>2. new = [root |-> s.root, entries |-> disk[place], listed |-> TRUE, found |-> s.found, since |-> s.since]
      BY <2>3, <3>1
    <3> QED BY <1>3, <2>1, <2>4, <3>2 DEF ScanIs
  <2> QED BY <2>5, <2>6
<1>7. CASE Skills!NextRoot(n)
  <2>1. PICK new : new = [s EXCEPT !.root = @ + 1, !.listed = FALSE]
    OBVIOUS
  <2>2. scans' = [scans EXCEPT ![n] = <<new>>] /\ s.listed
    BY <1>2, <1>7, <2>1 DEF Skills!NextRoot
  <2>3. s = [root |-> s.root, entries |-> s.entries, listed |-> s.listed, found |-> s.found, since |-> s.since]
        /\ s.root \in 1..2 /\ Found(d, s.found, s.root)
    BY <1>3, <2>2 DEF ScanIs
  <2>4. new = [root |-> s.root + 1, entries |-> s.entries, listed |-> FALSE, found |-> s.found, since |-> s.since]
    BY <2>1, <2>3
  <2>5. Found(d, s.found, s.root + 1)
    BY <2>3, FoundAlready
  <2>6. ScanIs(d, new)
    BY <2>3, <2>4, <2>5 DEF ScanIs
  <2> QED BY <2>2, <2>6
<1>8. ASSUME NEW entry \in SkillFiles, Skills!ScanEntry(n, entry)
      PROVE  \E new : ScanIs(d, new) /\ scans' = [scans EXCEPT ![n] = <<new>>]
  <2>1. PICK rest : rest = [s EXCEPT !.entries = @ \ {entry}]
    OBVIOUS
  <2>2. s.listed
    BY <1>2, <1>8 DEF Skills!ScanEntry
  <2>3. PICK r \in 1..2 : r = s.root
    BY <1>3, <2>2 DEF ScanIs
  <2>4. s = [root |-> s.root, entries |-> s.entries, listed |-> s.listed, found |-> s.found, since |-> s.since]
        /\ Found(d, s.found, r) /\ s.entries \subseteq SkillFiles
    BY <1>3, <2>2, <2>3 DEF ScanIs
  <2>5. rest = [root |-> r, entries |-> s.entries \ {entry}, listed |-> s.listed, found |-> s.found, since |-> s.since]
    BY <2>1, <2>3, <2>4
  <2>6. ScanIs(d, rest)
    BY <2>2, <2>4, <2>5 DEF ScanIs
  <2>7. PICK skill : skill = [name |-> entry.declares, file |-> entry, place |-> Skills!Roots(n)[r]]
    OBVIOUS
  <2>8. PICK more : more = [rest EXCEPT !.found = Append(@, skill)]
    OBVIOUS
  <2>9. \/ scans' = [scans EXCEPT ![n] = <<rest>>]
        \/ /\ ~Skills!Claimed(s.found, entry.declares)
           /\ scans' = [scans EXCEPT ![n] = <<more>>]
    BY <1>2, <1>8, <2>1, <2>3, <2>7, <2>8 DEF Skills!ScanEntry
  <2>10. CASE scans' = [scans EXCEPT ![n] = <<rest>>]
    BY <2>6, <2>10
  <2>11. CASE ~Skills!Claimed(s.found, entry.declares) /\ scans' = [scans EXCEPT ![n] = <<more>>]
    <3>1. skill.name = entry.declares /\ skill.place = <<d, "home">>[r] /\ skill \in Skill
      <4>1. entry.declares \in STRING
        BY WorkdirsAssumption
      <4>2. <<d, "home">>[1] = d /\ <<d, "home">>[2] = "home" /\ (r = 1 \/ r = 2)
        OBVIOUS
      <4>3. <<d, "home">>[r] \in Workdirs \cup {"home"}
        BY <1>3, <4>2
      <4> QED BY <1>3, <2>7, <4>1, <4>3 DEF Skill
    <3>2. Found(d, Append(s.found, skill), r)
      BY <1>3, <2>4, <2>11, <3>1, FoundMore
    <3>3. more = [root |-> r, entries |-> s.entries \ {entry}, listed |-> s.listed, found |-> Append(s.found, skill), since |-> s.since]
      BY <2>5, <2>8
    <3>4. ScanIs(d, more)
      BY <2>2, <2>4, <3>2, <3>3 DEF ScanIs
    <3> QED BY <2>11, <3>4
  <2> QED BY <2>9, <2>10, <2>11
<1> QED BY <1>6, <1>7, <1>8

LEMMA FinishIsSound ==
    ASSUME SkillsInv, NEW n \in Skills!Scanning, Skills!Finish(n)
    PROVE  SkillsInv'
<1>1. PICK d : d = asks[n].workdir
  OBVIOUS
<1>2. PICK s : s = Skills!Scan(n)
  OBVIOUS
<1>3. d \in Workdirs /\ ScanIs(d, s) /\ n \in DOMAIN asks
  BY <1>1, <1>2, ScanOf
<1>4. Found(d, s.found, 3)
  BY <1>3, FoundAlready DEF ScanIs
<1>5. /\ cache' = [valid |-> TRUE, workdir |-> d, found |-> s.found, since |-> s.since]
      /\ given' = Append(given, Skills!Told(n, s.found, s.since))
      /\ scans' = [scans EXCEPT ![n] = <<>>] /\ UNCHANGED <<disk, changes, asks>>
  BY <1>1, <1>2 DEF Skills!Finish
<1>6. cache'.workdir \in Workdirs /\ Found(cache'.workdir, cache'.found, 3)
  BY <1>3, <1>4, <1>5
<1>7. ScansAre(scans', asks') /\ (IsList(asks')) /\ (IsList(scans'))
  BY <1>5, ScanGoesOn
<1>8. GivenAre(given', asks') /\ (IsList(given'))
  <2>1. GivenAre(given, asks) /\ (IsList(given))
    BY DEF SkillsInv
  <2> QED BY <1>1, <1>3, <1>4, <1>5, <2>1, OneMoreGiven
<1> QED BY <1>5, <1>6, <1>7, <1>8 DEF SkillsInv

LEMMA SkillsStep == SkillsInv /\ (Skills!SkillsNext \/ UNCHANGED skillVars) => SkillsInv'
<1> SUFFICES ASSUME SkillsInv, Skills!SkillsNext \/ UNCHANGED skillVars PROVE SkillsInv'
  OBVIOUS
<1>1. ASSUME NEW place \in Places, Skills!Change(place) PROVE SkillsInv'
  <2>1. /\ changes' = changes + 1 /\ UNCHANGED <<cache, scans, asks, given>>
        /\ \E S \in {{}, SkillFiles} : disk' = [disk EXCEPT ![place] = S]
    BY <1>1 DEF Skills!Change
  <2>2. disk' \in [Places -> SUBSET SkillFiles] /\ changes' \in Nat
    BY <2>1 DEF SkillsInv
  <2> QED BY <2>1, <2>2 DEF SkillsInv
<1>2. CASE UNCHANGED skillVars
  BY <1>2 DEF SkillsInv, skillVars
<1> QED BY <1>1, <1>2, DiscoverIsSound, ScanIsSound, FinishIsSound DEF Skills!SkillsNext

LEMMA SkillsStart == Skills!SkillsInit => SkillsInv
<1> SUFFICES ASSUME Skills!SkillsInit PROVE SkillsInv
  OBVIOUS
<1>1. changes = 0 /\ scans = <<>> /\ asks = <<>> /\ given = <<>> /\ cache.valid = FALSE
  BY DEF Skills!SkillsInit, Skills!NoCache
<1>2. disk \in [Places -> SUBSET SkillFiles]
  BY DEF Skills!SkillsInit
<1>3. IsList(<<>>)
  BY EmptySeq DEF IsList
<1> QED BY <1>1, <1>2, <1>3 DEF SkillsInv, ScansAre, GivenAre

Apart(skills, roots) ==
    /\ \A i \in DOMAIN skills : \E r \in DOMAIN roots : roots[r] = skills[i].place
    /\ \A i, j \in DOMAIN skills : i < j =>
           /\ skills[i].name # skills[j].name
           /\ \A r, q \in DOMAIN roots : roots[r] = skills[i].place /\ roots[q] = skills[j].place => r <= q

LEMMA SkillsAreTheirs == SkillsInv => Skills!SkillsAreOfTheDirectory
<1> SUFFICES ASSUME SkillsInv PROVE Skills!SkillsAreOfTheDirectory
  OBVIOUS
<1>1. ASSUME NEW k \in DOMAIN given
      PROVE  asks[given[k].ask].workdir \in Workdirs /\ Found(asks[given[k].ask].workdir, given[k].found, 3)
  <2>1. given[k].ask \in DOMAIN asks /\ Found(asks[given[k].ask].workdir, given[k].found, 3)
    BY DEF SkillsInv, GivenAre
  <2>2. AskIs(asks[given[k].ask])
    BY <2>1 DEF SkillsInv, ScansAre
  <2> QED BY <2>1, <2>2 DEF AskIs
<1>2. ASSUME NEW d \in Workdirs, NEW skills, Found(d, skills, 3), NEW roots, roots = <<d, "home">>
      PROVE  Apart(skills, roots)
  <2>1. DOMAIN roots = {1, 2} /\ roots[1] = d /\ roots[2] = "home" /\ d # "home"
    BY <1>2, WorkdirsAssumption
  <2> QED BY <1>2, <2>1 DEF Found, Apart
<1>3. ASSUME NEW k \in DOMAIN given
      PROVE  Apart(given[k].found, [e \in Workdirs |-> <<e, "home">>][asks[given[k].ask].workdir])
  <2>1. PICK d \in Workdirs : d = asks[given[k].ask].workdir
    BY <1>1
  <2>2. [e \in Workdirs |-> <<e, "home">>][d] = <<d, "home">>
    OBVIOUS
  <2>3. Apart(given[k].found, <<d, "home">>)
    BY <1>1, <1>2, <2>1
  <2> QED BY <2>1, <2>2, <2>3
<1> QED BY <1>3 DEF Skills!SkillsAreOfTheDirectory, Apart

-----------------------------------------------------------------------------
(* What holds of them all: each part keeps what it promises while it moves,  *)
(* and while another does.                                                 *)
AgentsInv == RunnerInv /\ McpInv /\ SkillsInv /\ TurnInv /\ ToolInv

LEMMA UntouchedRunner == RunnerInv /\ UNCHANGED runnerVars => RunnerInv'
BY DEF RunnerInv, ProcessInv, OutcomeInv, Tells, runnerVars

LEMMA UntouchedServer == McpInv /\ UNCHANGED mcpVars => McpInv'
<1> SUFFICES ASSUME McpInv, UNCHANGED mcpVars PROVE McpInv'
  OBVIOUS
<1>1. SpokenInv' /\ AnsweredInv' /\ transport' \in {"stdio", "http"}
  BY DEF McpInv, SpokenInv, AnsweredInv, mcpVars
<1>2. ProcessLinkInv' /\ AddressLinkInv'
  BY DEF McpInv, ProcessLinkInv, AddressLinkInv, Due, Hears, mcpVars
<1>3. GreetingInv'
  BY DEF McpInv, GreetingInv, ToldToBegin, Mcp!GreetedFirst, Hears, mcpVars
<1> QED BY <1>1, <1>2, <1>3 DEF McpInv

LEMMA UntouchedOnes ==
    /\ SkillsInv /\ UNCHANGED skillVars => SkillsInv'
    /\ TurnInv /\ UNCHANGED vars => TurnInv'
    /\ ToolInv /\ UNCHANGED toolVars => ToolInv'
BY SkillsStep, TurnStep, ToolsKeep

LEMMA AgentsAlways == AssistantSpec => []AgentsInv
<1>1. AssistantInit => AgentsInv
  BY RunnerStarts, McpStarts, SkillsStart, TurnStarts, FirstTools DEF AssistantInit, AgentsInv
<1>2. AgentsInv /\ [AssistantNext]_<<part, vars, requestVars, toolVars, skillVars, mcpVars, runnerVars>> => AgentsInv'
  <2> SUFFICES ASSUME AgentsInv,
                      [AssistantNext]_<<part, vars, requestVars, toolVars, skillVars, mcpVars, runnerVars>>
               PROVE  AgentsInv'
    OBVIOUS
  <2>1. RunnerInv'
    BY RunnerStep, UntouchedRunner DEF AgentsInv, AssistantNext, Turning, Conversing, Streaming, ToolsWork,
                                       Discovering, Connecting, CommandRuns
  <2>2. McpInv'
    BY McpStep, UntouchedServer DEF AgentsInv, AssistantNext, Turning, Conversing, Streaming, ToolsWork,
                                    Discovering, Connecting, CommandRuns
  <2>3. SkillsInv'
    BY SkillsStep, UntouchedOnes DEF AgentsInv, AssistantNext, Turning, Conversing, Streaming, ToolsWork,
                                     Discovering, Connecting, CommandRuns
  <2>4. TurnInv'
    BY TurnStep, UntouchedOnes DEF AgentsInv, AssistantNext, Turning, Conversing, Streaming, ToolsWork,
                                   Discovering, Connecting, CommandRuns
  <2>5. ToolInv'
    BY ToolsKeep, UntouchedOnes DEF AgentsInv, AssistantNext, Turning, Conversing, Streaming, ToolsWork,
                                    Discovering, Connecting, CommandRuns
  <2> QED BY <2>1, <2>2, <2>3, <2>4, <2>5 DEF AgentsInv
<1> QED BY <1>1, <1>2, PTL DEF AssistantSpec

(* Whatever commands are run and whatever servers are called, while the      *)
(* application runs: no call waits for a server that is gone, and at an       *)
(* address none without a post or an answer on its way but for what was      *)
(* answered otherwise or a stopped client does not post; and no command runs  *)
(* on unattended (completeAll, stop, requestTermination).                   *)
THEOREM NobodyWaitsForTheDead == AssistantSpec => []ProcessesAreSeenToTheirEnd
<1>1. AgentsInv => ProcessesAreSeenToTheirEnd
  BY RunnerPromises, McpPromises DEF AgentsInv, ProcessesAreSeenToTheirEnd
<1> QED BY <1>1, AgentsAlways, PTL

(* What the turns and the tools of the tasks hold has its type, a server is   *)
(* told to begin before it is asked for anything (ready, performInitialize),  *)
(* a run gets the skills of its own directory, whatever another run is looking *)
(* for (finishScan), and what a command came to is told once.               *)
THEOREM AgentsKeepApart == AssistantSpec => []AssistantTypeOK
<1>1. AgentsInv => AssistantTypeOK
  BY TurnTyped, ToolsAreTyped, McpPromises, SkillsAreTheirs, RunnerPromises DEF AgentsInv, AssistantTypeOK
<1> QED BY <1>1, AgentsAlways, PTL

(* The tools of a turn that conflict take turns, what a tool was shown of a   *)
(* file is what the file holds when its edit is written, whatever the tools   *)
(* of other turns and tasks do meanwhile, and no command outlives the run    *)
(* that asked for it (executeTool, runWorker, terminate).                   *)
THEOREM EditsFindWhatTheySaw == AssistantSpec => []WhatWasSeenStillHolds
<1>1. AgentsInv => WhatWasSeenStillHolds
  BY WorkTakesTurns, SeenIsThere, CommandsAreTheirs DEF AgentsInv, WhatWasSeenStillHolds
<1> QED BY <1>1, AgentsAlways, PTL
=============================================================================
