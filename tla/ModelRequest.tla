--------------------------- MODULE ModelRequest ---------------------------
(***************************************************************************)
(* What a model is sent, and what it asks for (ai/AiToolContract.cpp, and   *)
(* projectConversation of ai/AiPlugin.cpp): the stored conversation in the  *)
(* messages of a protocol, shortened and cut to the window of the model,   *)
(* in the shape the protocol takes; and the calls of a turn, which arrive   *)
(* in fragments.                                                           *)
(*                                                                         *)
(* Text is how much of it there is: an envelope counts 1, a short text 1,   *)
(* a long one 3 and what pruning leaves of it 2.  A call is the place of    *)
(* the turn that made it and its index.  In AgentTurn the same conversation *)
(* is a sequence of turns that fit or do not; here is what that means.      *)
(***************************************************************************)
EXTENDS Integers, FiniteSets, SequencesExt

CONSTANTS
    Services,     \* [protocol, sees, instructs]: of the model, its pictures and the role of its instructions
    Windows,      \* [size, reserved]: of the models, and of it for tools and the answer; size 0 for no limit
    MaxSaid,      \* bound: messages of the conversation
    MaxCalls,     \* bound: calls of one turn
    Fragments     \* bound: fragments of the arguments of one call

NoLimit == -1
Long == 3
Pruned == 2
Margin == 7      \* contextSafetyMargin, in tenths

(* reservedContextTokens: of a command line agent nothing.                  *)
Reserved(service, window) == IF service.protocol = "commandline" THEN 0 ELSE window.reserved

(* fittingTokenLimit: a reservation of the whole window leaves a limit of 0. *)
TokenLimit(size, reserved) ==
    IF size = 0 THEN NoLimit ELSE (Max({size - reserved, 0}) * Margin) \div 10

Limits(service) == {TokenLimit(window.size, Reserved(service, window)) : window \in Windows}

VARIABLES
    said,      \* the stored conversation
    open,      \* calls of the last turn that are not answered
    heard,     \* m_pending: of each call of the stream, whether it is named, and its fragments
    sent       \* history: what the service sent of each call

requestVars == <<said, open, heard, sent>>

Unnamed == [named |-> FALSE, arguments |-> <<>>]

RequestInit ==
    /\ said = <<[role |-> "user", asks |-> 0, of |-> 0, call |-> 0, size |-> 1, picture |-> FALSE, until |-> 0]>>
    /\ open = 0 /\ heard = <<>> /\ sent = [index \in 1..MaxCalls |-> 0]

-----------------------------------------------------------------------------
(* One message of a protocol, of its number in the conversation.            *)
Message(role, parts, number) == [role |-> role, parts |-> parts, number |-> number]
Text(size) == [kind |-> "text", of |-> 0, call |-> 0, size |-> size, picture |-> FALSE]
Call(of, k) == [Text(1) EXCEPT !.kind = "ask", !.of = of, !.call = k]
Picture == [Text(1) EXCEPT !.kind = "picture"]

(* messageTokens and estimateTokens.                                        *)
Tokens(message) ==
    LET size(part) == part.size + IF part.picture THEN 1 ELSE 0
        total[k \in 0..Len(message.parts)] == IF k = 0 THEN 1 ELSE total[k - 1] + size(message.parts[k])
    IN  total[Len(message.parts)]
Estimate(messages) ==
    LET total[k \in 0..Len(messages)] == IF k = 0 THEN 0 ELSE total[k - 1] + Tokens(messages[k])
    IN  total[Len(messages)]

AnswersToolCalls(message) ==
    \/ message.role = "tool"
    \/ message.role = "user" /\ message.parts # <<>> /\ Head(message.parts).kind = "answer"

(* serializeAssistantTurn                                                  *)
AssistantTurn(i) ==
    Message("assistant", (IF said[i].asks = 0 THEN <<Text(said[i].size)>> ELSE <<>>)
                         \o [k \in 1..said[i].asks |-> Call(i, k)], i)

(* serializeToolResults: of one protocol a turn of the user, each picture in *)
(* the answer it belongs to; of the other a message each, the pictures in a  *)
(* turn of the user behind them.                                           *)
ToolResults(service, run, number) ==
    LET answer(i) == [kind |-> "answer", of |-> said[i].of, call |-> said[i].call, size |-> said[i].size,
                      picture |-> FALSE]
        shown == SelectSeq(run, LAMBDA i : said[i].picture /\ service.sees)
    IN  IF service.protocol = "anthropic"
        THEN <<Message("user", [k \in DOMAIN run |->
                  [answer(run[k]) EXCEPT !.picture = said[run[k]].picture /\ service.sees]], number)>>
        ELSE [k \in DOMAIN run |-> Message("tool", <<answer(run[k])>>, number)]
             \o IF shown = <<>> THEN <<>> ELSE <<Message("user", [k \in DOMAIN shown |-> Picture], number)>>

Hidden == Max({said[i].until : i \in DOMAIN said})

\* Mutant of Projected: results at the end of the conversation are held back.
ProjectedUnflushed(service) ==
    LET shown == Hidden+1..Len(said)
        first(i) == Min({j \in shown : \A k \in j..i : said[k].role = "tool"})
        emitted(i) ==
            CASE said[i].role = "user" -> <<Message("user", <<Text(said[i].size)>>, i)>>
              [] said[i].role = "assistant" -> <<AssistantTurn(i)>>
              [] said[i].role = "tool" /\ i < Len(said) /\ said[i + 1].role # "tool" ->
                     ToolResults(service, [k \in 1..i - first(i) + 1 |-> first(i) + k - 1], i + 1)
              [] OTHER -> <<>>
    IN  <<Message(service.instructs, <<Text(1)>>, 0)>>
        \o FlattenSeq([k \in 1..Len(said) - Hidden |-> emitted(Hidden + k)])

(* projectConversation: the instructions, then what no summary replaced;     *)
(* results that stand together are sent together, under the number of the   *)
(* message behind them.                                                    *)
Projected(service) ==
    LET shown == Hidden+1..Len(said)
        first(i) == Min({j \in shown : \A k \in j..i : said[k].role = "tool"})
        last(i) == i = Len(said) \/ said[i + 1].role # "tool"
        emitted(i) ==
            CASE said[i].role = "user" -> <<Message("user", <<Text(said[i].size)>>, i)>>
              [] said[i].role = "assistant" -> <<AssistantTurn(i)>>
              [] said[i].role = "tool" /\ last(i) ->
                     ToolResults(service, [k \in 1..i - first(i) + 1 |-> first(i) + k - 1], Min({i + 1, Len(said)}))
              [] OTHER -> <<>>
    IN  <<Message(service.instructs, <<Text(1)>>, 0)>>
        \o FlattenSeq([k \in 1..Len(said) - Hidden |-> emitted(Hidden + k)])

-----------------------------------------------------------------------------
(* prunedToolResult: text is shortened, and anything else is left.          *)
PrunedBlock(part) == IF part.kind = "answer" /\ part.size > Pruned THEN [part EXCEPT !.size = Pruned] ELSE part
PrunedToolResult(message) == [message EXCEPT !.parts = [k \in DOMAIN @ |-> PrunedBlock(@[k])]]

(* pruneToolResults: from the front, until what is left fits.               *)
PrunedToFit(messages, limit) ==
    LET loss(k) == IF AnswersToolCalls(messages[k])
                   THEN Tokens(messages[k]) - Tokens(PrunedToolResult(messages[k])) ELSE 0
        over(k) == Estimate(messages) - SumFunction([j \in 1..k-1 |-> loss(j)]) > limit
    IN  IF limit = NoLimit \/ Estimate(messages) <= limit THEN messages
        ELSE [k \in DOMAIN messages |->
                IF AnswersToolCalls(messages[k]) /\ over(k) THEN PrunedToolResult(messages[k]) ELSE messages[k]]

(* The instructions and the task: at most two messages that nobody answers.  *)
HeadOf(messages) ==
    Max({n \in 0..Min({2, Len(messages)}) : \A k \in 1..n : messages[k].role \in {"system", "user"}})

Cut(messages, from) ==
    [messages |-> SubSeq(messages, 1, HeadOf(messages)) \o SubSeq(messages, from + 1, Len(messages)),
     dropped |-> SubSeq(messages, HeadOf(messages) + 1, from)]

\* Mutant of Fitted: a turn is dropped, and the results of its tools are left.
FittedByMessage(messages, limit) ==
    LET cuts == HeadOf(messages)+1..Len(messages)
        fits == {k \in cuts : Estimate(Cut(messages, k).messages) <= limit}
    IN  IF limit = NoLimit \/ Estimate(messages) <= limit THEN [messages |-> messages, dropped |-> <<>>]
        ELSE Cut(messages, IF fits = {} THEN Len(messages) ELSE Min(fits))

(* fitConversation: behind the head as many turns are dropped as it takes,   *)
(* each with the results of its tools.                                     *)
Fitted(messages, limit) ==
    LET cuts == {k \in HeadOf(messages)+1..Len(messages) :
                    k < Len(messages) => ~AnswersToolCalls(messages[k + 1])}
        fits == {k \in cuts : Estimate(Cut(messages, k).messages) <= limit}
    IN  IF limit = NoLimit \/ Estimate(messages) <= limit THEN [messages |-> messages, dropped |-> <<>>]
        ELSE Cut(messages, IF fits = {} THEN Len(messages) ELSE Min(fits))

(* joinedContent                                                           *)
Joined(messages, message) ==
    [messages EXCEPT ![Len(messages)].parts = @ \o message.parts]

\* Mutant of Merged: turns of one role stay beside each other.
MergedNever(messages) == messages

Merged(messages) ==
    LET shaped[k \in 0..Len(messages)] ==
            IF k = 0 THEN <<>>
            ELSE LET before == shaped[k - 1] IN
                 IF before # <<>> /\ Last(before).role = messages[k].role
                 THEN Joined(before, messages[k]) ELSE Append(before, messages[k])
    IN  shaped[Len(messages)]

(* enforceProtocolShape: no turn nobody asked for opens the conversation,    *)
(* and turns of one role are one turn.                                     *)
Shaped(service, messages) ==
    LET system(message) == message.role = "system"
        asked == {k \in DOMAIN messages : messages[k].role = "user"}
        spoken == IF asked = {} THEN <<>> ELSE SubSeq(messages, Min(asked), Len(messages))
    IN  IF service.protocol # "anthropic" THEN messages
        ELSE SelectSeq(messages, system) \o Merged(spoken)

(* liftInstructions, of buildRequestBody: the instructions in their own field. *)
Lifted(service, messages) ==
    IF service.protocol # "anthropic" THEN messages ELSE SelectSeq(messages, LAMBDA message : message.role # "system")

(* renderConversationPrompt: of a command line agent, what is text.          *)
Prompt(messages) ==
    SelectSeq(messages, LAMBDA message : \E k \in DOMAIN message.parts : message.parts[k].kind \in {"text", "answer"})

(* continueAgent and sendMessage of the client: what is sent, of a last turn  *)
(* that is told so, and after a summary, which stands behind the head.       *)
FittedFor(service, limit) == Fitted(PrunedToFit(Projected(service), limit), limit)
Behind(fitted, summary) ==
    LET head == HeadOf(fitted.messages) IN
    SubSeq(fitted.messages, 1, head) \o <<Message("user", <<Text(summary)>>, 0)>>
    \o SubSeq(fitted.messages, head + 1, Len(fitted.messages))
Request(service, limit) ==
    LET fitted == FittedFor(service, limit)
        messages == IF fitted.dropped = <<>> THEN fitted.messages ELSE Behind(fitted, 1)
    IN  IF service.protocol = "commandline" THEN Prompt(messages) ELSE Lifted(service, Shaped(service, messages))
LastRequest(service) ==
    Lifted(service, Shaped(service, Append(Projected(service), Message("user", <<Text(1)>>, 0))))

-----------------------------------------------------------------------------
Stored(role, size) ==
    [role |-> role, asks |-> 0, of |-> 0, call |-> 0, size |-> size, picture |-> FALSE, until |-> 0]

(* The user types, at any time, the model answers, or calls tools.           *)
Type ==
    /\ Len(said) < MaxSaid
    /\ said' = Append(said, Stored("user", 1))
    /\ UNCHANGED <<open, heard, sent>>

Answer ==
    /\ Len(said) < MaxSaid /\ open = 0
    /\ said' = Append(said, Stored("assistant", 1))
    /\ UNCHANGED <<open, heard, sent>>

Ask(n) ==
    /\ Len(said) < MaxSaid /\ open = 0
    /\ said' = Append(said, [Stored("assistant", 0) EXCEPT !.asks = n])
    /\ open' = Len(said) + 1
    /\ UNCHANGED <<heard, sent>>

(* The last answer records all of the turn, or the run ends without them.    *)
Record(sizes, picture) ==
    /\ open # 0 /\ DOMAIN sizes = 1..said[open].asks /\ Len(said) + Len(sizes) <= MaxSaid
    /\ said' = said \o [k \in DOMAIN sizes |->
                          [Stored("tool", sizes[k]) EXCEPT !.of = open, !.call = k, !.picture = picture /\ k = 1]]
    /\ open' = 0
    /\ UNCHANGED <<heard, sent>>

Abandon == open # 0 /\ open' = 0 /\ UNCHANGED <<said, heard, sent>>

(* applySummary: it joins the conversation, in the place of what was dropped. *)
Summarize(service, limit) ==
    LET dropped == FittedFor(service, limit).dropped IN
    /\ Len(said) < MaxSaid /\ open = 0 /\ dropped # <<>>
    /\ said' = Append(said, [Stored("user", 1) EXCEPT !.until = Last(dropped).number])
    /\ UNCHANGED <<open, heard, sent>>

-----------------------------------------------------------------------------
(* ToolCallAccumulator::consume: a fragment belongs to the call of its index. *)
At(index) == IF index \in DOMAIN heard THEN heard[index] ELSE Unnamed

\* Mutant of Consumed: a fragment belongs to the call that was named last.
ConsumedByLast(index, fragment) ==
    LET last == Max(DOMAIN heard \cup {index}) IN
    [i \in DOMAIN heard \cup {index} |->
        IF i = last THEN IF fragment = 0 THEN [named |-> TRUE, arguments |-> <<>>]
                         ELSE [At(i) EXCEPT !.arguments = Append(@, <<index, fragment>>)]
        ELSE At(i)]

Consumed(index, fragment) ==
    [i \in DOMAIN heard \cup {index} |->
        IF i = index THEN IF fragment = 0 THEN [named |-> TRUE, arguments |-> <<>>]
                          ELSE [At(i) EXCEPT !.arguments = Append(@, <<index, fragment>>)]
        ELSE At(i)]

(* The service names a call and sends its arguments, those of one call among  *)
(* those of another.                                                       *)
Hear(index) ==
    /\ sent[index] <= Fragments
    /\ index > 1 => sent[index - 1] > 0
    /\ heard' = Consumed(index, sent[index])
    /\ sent' = [sent EXCEPT ![index] = @ + 1]
    /\ UNCHANGED <<said, open>>

(* calls: in the order of their indexes, those that are whole and named.     *)
Calls == [index \in DOMAIN heard |-> heard[index].arguments]

ConversationNext ==
    \/ Type \/ Answer \/ Abandon
    \/ \E n \in 1..MaxCalls : Ask(n) \/ \E sizes \in [1..n -> {1, Long}] : \E picture \in BOOLEAN : Record(sizes, picture)
    \/ \E service \in Services : \E limit \in Limits(service) : Summarize(service, limit)

StreamNext == \E index \in 1..MaxCalls : Hear(index)

RequestNext == ConversationNext \/ StreamNext

RequestSpec == RequestInit /\ [][RequestNext]_requestVars

-----------------------------------------------------------------------------
(* "The Anthropic API refuses a conversation that opens with an assistant     *)
(* turn or repeats a role" (AiToolContract.cpp:448): whatever was said,       *)
(* dropped or summarized, the request neither opens so nor repeats one, and  *)
(* so does the request of a turn that is told it is the last.               *)
RolesTakeTurns ==
    \A service \in Services : service.protocol = "anthropic" =>
        \A request \in {Request(service, limit) : limit \in Limits(service)} \cup {LastRequest(service)} :
            /\ request # <<>> => Head(request).role = "user"
            /\ \A k \in 1..Len(request) - 1 : request[k].role # request[k + 1].role

(* A service takes a result only right behind the turn that called for it, and *)
(* a turn that called only with its results.  However much of the conversation *)
(* is cut, what is left of it keeps to that, of the turns behind which nobody   *)
(* typed while their tools worked, until a first summary hides the beginning.   *)
(* (A command line agent is sent text, and calls no tools.)                   *)
Uninterrupted(of) == of < Len(said) /\ said[of + 1].role = "tool"
PartsOf(message) == {message.parts[k] : k \in DOMAIN message.parts}
ResultsFollowTheirCalls ==
    Hidden = 0 => \A service \in {s \in Services : s.protocol # "commandline"} : \A limit \in Limits(service) :
        LET request == Request(service, limit)
            asking(k) == {part \in PartsOf(request[k]) : part.kind = "ask" /\ Uninterrupted(part.of)}
            answering(k) == {part \in PartsOf(request[k]) : part.kind = "answer" /\ Uninterrupted(part.of)}
            same(one, other) == one.of = other.of /\ one.call = other.call
            among(j, k) == \A i \in j+1..k : AnswersToolCalls(request[i])
        IN  \A k \in DOMAIN request :
                /\ \A part \in answering(k) :
                       \E j \in 1..k-1 : among(j, k) /\ \E call \in asking(j) : same(call, part)
                /\ \A part \in asking(k) :
                       \E j \in k+1..Len(request) : among(k, j) /\ \E result \in answering(j) : same(result, part)

(* What is sent fits the window, or there is nothing left that may be dropped; *)
(* nothing is dropped that fits, and the head never goes.                     *)
SentFitsTheWindow ==
    \A service \in Services : \A limit \in Limits(service) \ {NoLimit} :
        LET all == Projected(service)
            pruned == PrunedToFit(all, limit)
            fitted == Fitted(pruned, limit)
        IN  /\ Estimate(fitted.messages) <= limit \/ Len(fitted.messages) = HeadOf(all)
            /\ Estimate(all) <= limit => pruned = all
            /\ Estimate(pruned) <= limit => fitted.dropped = <<>>
            /\ Prompt(SubSeq(fitted.messages, 1, HeadOf(all))) = SubSeq(all, 1, HeadOf(all))

(* However the fragments of the calls are mixed, a call gets its own, in       *)
(* their order, and no other's.                                              *)
CallsAreWhole ==
    \A index \in DOMAIN Calls : Calls[index] = [k \in 1..sent[index] - 1 |-> <<index, k>>]

RequestsAreTaken == RolesTakeTurns /\ ResultsFollowTheirCalls /\ SentFitsTheWindow /\ CallsAreWhole
=============================================================================
