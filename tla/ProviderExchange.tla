--------------------------- MODULE ProviderExchange ---------------------------
(***************************************************************************)
(* A conversation with tools that is carried on through hermesllm: a       *)
(* client of one API sends its history, which is converted for each        *)
(* upstream that is tried; the answer is converted back and goes into the  *)
(* history that the client, or brightstaff for it, keeps; the next request *)
(* brings the results of the tools and may go to an upstream of another    *)
(* API.  `said` is what was really said, by whom.                          *)
(***************************************************************************)
EXTENDS Conversions

CONSTANTS Clients,        \* APIs of clients
          Upstreams,      \* APIs of upstreams
          Shapes,         \* what answers are made of: sequences of kinds of blocks
          ToolChoices,    \* what clients have for tool_choice
          Keeping,        \* how a Responses conversation may be kept: by a client
                          \* that sends the items back "as issued" or "without
                          \* ids", or "by plano"
          Outputs,        \* what tools may give: "text", an "empty" text, "nothing"
          MaxTurns        \* answers in a conversation

ASSUME ExchangeAssumption ==
    /\ Clients \subseteq {"chat", "messages", "responses"}
    /\ Upstreams \subseteq {"chat", "messages", "responses", "converse"}
    /\ Shapes \subseteq Seq({"text", "thinking", "use", "broken"})
    /\ ToolChoices \subseteq {"omitted", "auto", "required", "none", "named", "unnamed", "other"}
    /\ Keeping \subseteq {"as issued", "without ids", "by plano"}
    /\ Outputs \subseteq {"text", "empty", "nothing"}
    /\ MaxTurns \in Nat

VARIABLES client,    \* the client's API
          system,    \* its instructions: at most one text
          choice,    \* its tool_choice
          hosted,    \* the hosted tools it asks for
          kept,      \* how the conversation is kept, in one of Responses
          history,   \* the conversation in the client's form
          said,      \* the conversation as it was
          awaited,   \* the calls of the last answer, whose results are due
          turn,      \* answers so far
          phase,     \* "client", "asked", "sent", "refused", "unreadable"
          request,   \* what the upstream was last sent
          answer,    \* what it answered,
          received   \* and the client got of that

vars == <<client, system, choice, hosted, kept, history, said, awaited, turn, phase, request, answer, received>>

Nothing == [api |-> "none"]

Init ==
    /\ client \in Clients
    /\ system \in {<<>>, <<<<<<"system">>>>>>}
    /\ choice \in ToolChoices /\ (choice = "unnamed" => client = "messages")
    /\ hosted \in {{}, {"file_search"}} /\ (hosted # {} => client = "responses")
    /\ kept \in IF client = "responses" THEN Keeping ELSE {"whole"}
    /\ history = <<>> /\ said = <<>> /\ awaited = <<>>
    /\ turn = 0 /\ phase = "client"
    /\ request = Nothing /\ answer = Nothing /\ received = Nothing

Question == Text(<<<<"user", turn>>>>)

-----------------------------------------------------------------------------
(* What was said, as events: of a message its results, then its texts, its *)
(* images and its calls.  A placeholder, and thinking, says nothing.       *)

Spoken(text) == Pick(text, LAMBDA s : s[1] \notin {"blank", "thinking"})
TextEvents(role, text) == Map(Spoken(text), LAMBDA s : <<role, s>>)
ImageEvents(content) == Map(OfType(content, {"image"}), LAMBDA p : <<"image", p.at>>)
CallEvents(calls) == Map(calls, LAMBDA c : <<"call", c>>)
ResultEvent(id, text) == <<"result", id, Spoken(text)>>

EventsOfBlocks(m) ==
    Map(OfType(m.blocks, {"tool_result"}), LAMBDA b : ResultEvent(b.id, FlattenSeq(b.content)))
    \o TextEvents(m.role, ExtractText(m.blocks)) \o ImageEvents(m.blocks)
    \o CallEvents(CallsIn(m.blocks))

EventsOfChat(m) ==
    IF m.role = "tool" THEN <<ResultEvent(m.result, ExtractText(m.content))>>
    ELSE TextEvents(m.role, ExtractText(m.content)) \o ImageEvents(m.content)
         \o CallEvents(m.calls)

EventsOfItem(it) ==
    CASE it.type = "message" -> TextEvents(it.role, ExtractText(it.content)) \o ImageEvents(it.content)
      [] it.type = "function_call" -> <<<<"call", it.call>>>>
      [] it.type = "function_call_output" -> <<ResultEvent(it.id, it.output)>>
      [] it.type = "item_reference" -> <<>>

\* What an upstream reads in a request, and a client in an answer.
EventsOf(r) ==
    CASE r.api = "chat"      -> FlattenSeq(Map(Turns(r.messages), EventsOfChat))
      [] r.api = "responses" -> FlattenSeq(Map(r.items, EventsOfItem))
      [] OTHER               -> FlattenSeq(Map(r.messages, EventsOfBlocks))

AnswerEvents(a) ==
    CASE a.api = "chat" ->
           TextEvents("assistant", FlattenSeq(a.content)) \o CallEvents(a.calls)
      [] a.api = "responses" -> FlattenSeq(Map(a.items, EventsOfItem))
      [] OTHER -> EventsOfBlocks(BlockMessage("assistant", a.blocks))

InstructionsOf(r) ==
    IF r.api = "chat" THEN Map(Instructions(r.messages), LAMBDA m : ExtractText(m.content))
    ELSE r.system

-----------------------------------------------------------------------------
(* The client.                                                             *)

\* The results of the calls, in the order the tools were done in.
ResultOrders == {order \in [DOMAIN awaited -> DOMAIN awaited] :
                    \A i, j \in DOMAIN awaited : order[i] = order[j] => i = j}

\* What a tool gives, as a sequence of texts: only Messages has results of no
\* text at all, elsewhere they are the empty text.  Those of a turn are alike.
TextsOf(output, id) ==
    CASE output = "text"    -> <<<<<<"output", id>>>>>>
      [] output = "empty"   -> <<<<>>>>
      [] output = "nothing" -> <<>>

Results(order, output) ==
    Map(order, LAMBDA i : LET texts == TextsOf(output, awaited[i].id)
                          IN  [id |-> awaited[i].id, texts |-> texts, output |-> FlattenSeq(texts)])

\* A user's turn in the form of each API: the results, then what is said.
UserTurn(results, content) ==
    CASE client = "chat" ->
           Map(results, LAMBDA r : ChatMessage("tool", <<Text(r.output)>>, <<>>, r.id))
           \o (IF content = <<>> THEN <<>> ELSE <<ChatMessage("user", content, <<>>, NoCall)>>)
      [] client = "messages" ->
           <<BlockMessage("user", Map(results, LAMBDA r : Result(r.id, r.texts, FALSE)) \o content)>>
      [] client = "responses" ->
           Map(results, LAMBDA r : [type |-> "function_call_output", id |-> r.id,
                                    output |-> r.output, hasId |-> FALSE])
           \o (IF content = <<>> THEN <<>>
               ELSE <<[type |-> "message", role |-> "user", content |-> content]>>)

ClientSpeaks ==
    /\ phase = "client"
    /\ \E order \in ResultOrders, output \in Outputs,
          content \in {<<>>, <<Question>>, <<Question, Image("data")>>,
                       <<Text(<<>>), Image("url")>>} :
         /\ awaited = <<>> => content # <<>>
         /\ history' = history \o UserTurn(Results(order, output), content)
         /\ said' = said \o Map(Results(order, output), LAMBDA r : ResultEvent(r.id, r.output))
                         \o TextEvents("user", ExtractText(content)) \o ImageEvents(content)
    /\ awaited' = <<>>
    /\ phase' = "asked"
    /\ answer' = Nothing /\ received' = Nothing
    /\ UNCHANGED <<client, system, choice, hosted, kept, turn, request>>

\* The request as hermesllm reads it.
ClientRequest ==
    CASE client = "chat" ->
           [api |-> "chat",
            messages |-> Map(system, SystemMessage) \o history,
            tools |-> TRUE, choice |-> choice]
      [] client = "messages" ->
           [api |-> "messages", system |-> system, messages |-> history,
            tools |-> TRUE, choice |-> choice]
      [] client = "responses" ->
           [api |-> "responses",
            system |-> system, items |-> Map(history, ReadItem),
            tools |-> TRUE, hosted |-> hosted, choice |-> choice]

\* The request is converted for an upstream that is tried.
Send ==
    /\ phase = "asked"
    /\ \E api \in IF client = "responses" THEN Upstreams ELSE Upstreams \ {"responses"} :
         IF Converts(ClientRequest, api)
         THEN phase' = "sent" /\ request' = Converted(ClientRequest, api)
         ELSE phase' = "refused" /\ request' = [api |-> api]
    /\ UNCHANGED <<client, system, choice, hosted, kept, history, said, awaited, turn, answer, received>>

\* The upstream fails, and another may be tried with the same request.
Fail ==
    /\ phase = "sent"
    /\ phase' = "asked" /\ request' = Nothing
    /\ UNCHANGED <<client, system, choice, hosted, kept, history, said, awaited, turn, answer, received>>

-----------------------------------------------------------------------------
(* The upstream's answer, and what becomes of it.                          *)

NewCall(i, arguments) == [id |-> <<"call", turn, i>>, arguments |-> arguments]

Block(kind, i) ==
    CASE kind = "text"     -> Text(<<<<"text", turn, i>>>>)
      [] kind = "thinking" -> [type |-> "thinking", text |-> <<<<"thinking", turn>>>>]
      [] kind = "use"      -> Use(NewCall(i, "json"))
      [] kind = "broken"   -> Use(NewCall(i, "broken"))

\* Of a shape, what an upstream of an API can answer: arguments are text only
\* in chat and Responses, thinking is Anthropic's.
CanSay(api, kinds) ==
    /\ "broken" \in kinds => api \in {"chat", "responses"}
    /\ "thinking" \in kinds => api = "messages"

Finishes(api, calls) ==
    LET tools == calls # <<>>
    IN  CASE api = "chat"     -> IF tools THEN {"tool_calls"} ELSE {"stop", "length", "content_filter"}
          [] api = "messages" -> IF tools THEN {"tool_use"} ELSE {"end_turn", "max_tokens", "refusal"}
          [] api = "converse" -> IF tools THEN {"tool_use"}
                                 ELSE {"stop_sequence", "max_tokens", "content_filtered"}
          [] api = "responses" -> IF tools THEN {"completed"} ELSE {"completed", "incomplete", "failed"}

AnswersOf(api, shape) ==
    LET blocks == [i \in DOMAIN shape |-> Block(shape[i], i)]
        text   == ExtractText(blocks)
        calls  == CallsIn(blocks)
        Chats(content) == {[api |-> "chat", content |-> content, calls |-> calls, finish |-> f] :
                              f \in Finishes("chat", calls)}
    IN  CASE api = "chat" -> IF text # <<>> THEN Chats(<<text>>) ELSE Chats(<<>>) \cup Chats(<<<<>>>>)
          [] api = "responses" ->
               {[api |-> "responses", finish |-> f,
                 items |-> (IF text = <<>> THEN <<>> ELSE <<OutputMessage(text)>>) \o Map(calls, OutputCall)] :
                   f \in Finishes("responses", calls)}
          [] OTHER -> {[api |-> api, blocks |-> blocks, finish |-> f] : f \in Finishes(api, calls)}

CallsOf(a) ==
    CASE a.api = "chat"      -> a.calls
      [] a.api = "responses" -> Map(OfType(a.items, {"function_call"}), LAMBDA it : it.call)
      [] OTHER               -> CallsIn(a.blocks)

\* What is kept of an answer as history.  hermesllm gives every call it issues
\* an id.
AsHistory(a) ==
    CASE client = "chat" ->
           <<ChatMessage("assistant", Map(Pick(a.content, LAMBDA t : t # <<>>), Text),
                         a.calls, NoCall)>>
      [] client = "messages" -> <<BlockMessage("assistant", a.blocks)>>
      [] client = "responses" /\ kept = "by plano" -> OutputsToInputs(a.items)
      [] OTHER ->
           Map(a.items, LAMBDA it : IF it.type = "message" THEN it
                                    ELSE [type |-> it.type, call |-> it.call, hasId |-> kept = "as issued"])

Answer ==
    /\ phase = "sent" /\ turn < MaxTurns
    /\ \E shape \in Shapes :
         /\ CanSay(request.api, ToSet(shape))
         /\ \E a \in AnswersOf(request.api, shape) :
              /\ answer' = a
              /\ said' = said \o AnswerEvents(a)
              /\ IF AnswerConverts(a, client)
                 THEN LET got == ConvertedAnswer(a, client)
                      IN  /\ received' = got
                          /\ history' = history \o AsHistory(got)
                          /\ awaited' = CallsOf(got)
                          /\ phase' = "client"
                 ELSE phase' = "unreadable" /\ UNCHANGED <<received, history, awaited>>
    /\ turn' = turn + 1
    /\ request' = Nothing
    /\ UNCHANGED <<client, system, choice, hosted, kept>>

Next == ClientSpeaks \/ Send \/ Fail \/ Answer

Spec == Init /\ [][Next]_vars

-----------------------------------------------------------------------------
(* Properties.                                                             *)

\* Bedrock is not told of images that are URLs, by a Messages client; and no
\* upstream is told of the calls that a Responses client sends back as they
\* were issued, with their ids, for they are read as references.
Dropped(api, event) ==
    \/ api = "converse" /\ client = "messages" /\ event = <<"image", "url">>
    \/ kept = "as issued" /\ event[1] = "call"

ChoiceReaches ==
    \/ request.choice = choice
    \/ request.choice = "auto" /\ choice \in {"omitted", "unnamed", "other"}
    \/ request.choice = "auto" /\ choice = "none" /\ request.api = "converse"

\* Whatever APIs the earlier answers came from, the upstream that is sent a
\* request finds in it all that was said, by the user, by the models and by
\* the tools, once and in order, with the instructions, and a tool that the
\* client demands is demanded of it.  Two things are lost, and no more: URLs of
\* images for Bedrock, and the calls of Responses items that come back with
\* the ids they were issued with, whose results are sent all the same.
RequestTellsAll ==
    phase = "sent" =>
        /\ EventsOf(request) = Pick(said, LAMBDA e : ~Dropped(request.api, e))
        /\ InstructionsOf(request) = system
        /\ ChoiceReaches

ResultIdsOf(m) ==
    IF "blocks" \in DOMAIN m THEN {b.id : b \in ToSet(OfType(m.blocks, {"tool_result"}))}
    ELSE IF m.role = "tool" THEN {m.result} ELSE {}

CallIdsOf(m) ==
    {c.id : c \in ToSet(IF "blocks" \in DOMAIN m THEN CallsIn(m.blocks) ELSE m.calls)}

\* The messages from i on that bring results, without one in between that
\* does not.
ResultRun(messages, i) ==
    {j \in i + 1..Len(messages) : \A k \in i + 1..j : ResultIdsOf(messages[k]) # {}}

\* The results that follow a message with calls are those of its calls, all
\* of them, and no result is anywhere else: the calls of an answer, which
\* Responses has as items of their own, stay one message.  It is not so of
\* items that come back as issued, whose calls are lost (see Dropped).
ResultsFollowTheirCalls ==
    (phase = "sent" /\ request.api # "responses" /\ kept # "as issued") =>
        LET messages == request.messages
        IN  /\ \A i \in DOMAIN messages :
                 CallIdsOf(messages[i]) = UNION {ResultIdsOf(messages[j]) : j \in ResultRun(messages, i)}
                 \/ ResultIdsOf(messages[i]) # {}
            /\ \A j \in DOMAIN messages :
                 ResultIdsOf(messages[j]) # {} =>
                    \E i \in 1..j - 1 : CallIdsOf(messages[i]) # {} /\ j \in ResultRun(messages, i)

\* Bedrock is sent no message without content and no text that is empty, not
\* in the results of tools either, though clients, models and tools say nothing
\* at times.  Only a Messages client's own empty result is sent as it is.
BedrockIsSentNothingEmpty ==
    (phase = "sent" /\ request.api = "converse") =>
        \A i \in DOMAIN request.messages :
            LET blocks == request.messages[i].blocks
            IN  /\ blocks # <<>>
                /\ \A k \in DOMAIN blocks :
                     /\ blocks[k].type = "text" => blocks[k].text # <<>>
                     /\ blocks[k].type = "tool_result" =>
                          /\ blocks[k].content # <<>>
                          /\ client # "messages" => <<>> \notin ToSet(blocks[k].content)

Meaning(finish) ==
    CASE finish \in {"stop", "end_turn", "stop_sequence", "completed"}     -> "done"
      [] finish \in {"length", "max_tokens", "incomplete"}                -> "cut"
      [] finish \in {"tool_calls", "tool_use"}                            -> "tools"
      [] finish \in {"content_filter", "refusal", "content_filtered", "failed"} -> "stopped"

\* What the client gets of an answer is what the model said, calls and all,
\* and it is told how the answer ended; Responses has no end of its own for
\* calls.
AnswerArrives ==
    received # Nothing =>
        /\ AnswerEvents(received) = AnswerEvents(answer)
        /\ \/ Meaning(received.finish) = Meaning(answer.finish)
           \/ client = "responses" /\ Meaning(received.finish) = "done" /\ Meaning(answer.finish) = "tools"
=============================================================================
