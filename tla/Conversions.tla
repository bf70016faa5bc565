----------------------------- MODULE Conversions -----------------------------
(***************************************************************************)
(* How hermesllm carries a conversation from one LLM API to another        *)
(* (transforms/): the requests of a client to the API its provider speaks, *)
(* and the provider's answers back to the API of the client.               *)
(*                                                                         *)
(* A text is a sequence of symbols, what was said in it; the joining of    *)
(* texts drops the separator.  Content is a sequence of parts or blocks,   *)
(* and a plain string is the content of that one text ("" of chat and      *)
(* `null` are both the empty content).  A conversion that can fail comes   *)
(* with the predicate that says when it does not.                          *)
(***************************************************************************)
EXTENDS Naturals, Sequences, SequencesExt

Blank  == <<<<"blank">>>>        \* " ", the placeholder text
NoCall == <<>>                   \* no tool_call_id

Text(t)  == [type |-> "text", text |-> t]
Image(a) == [type |-> "image", at |-> a]             \* "data" or "url"
Use(c)   == [type |-> "tool_use", call |-> c]
Result(id, content, error) ==
    [type |-> "tool_result", id |-> id, content |-> content, error |-> error]

\* Call: [id, name, arguments]; arguments are text and need not be JSON.
Parses(call) == call.arguments # "broken"

ChatMessage(role, content, calls, id) ==
    [role |-> role, content |-> content, calls |-> calls, result |-> id]

SystemMessage(text) == ChatMessage("system", <<Text(text)>>, <<>>, NoCall)

BlockMessage(role, blocks) == [role |-> role, blocks |-> blocks]

Map(seq, F(_)) == [i \in DOMAIN seq |-> F(seq[i])]

\* What of a sequence passes a test, as a flattening: filters and joins are one loop.
Pick(seq, Test(_)) == FlattenSeq(Map(seq, LAMBDA e : IF Test(e) THEN <<e>> ELSE <<>>))

OfType(seq, types) == Pick(seq, LAMBDA e : e.type \in types)

\* ExtractText::extract_text
ExtractText(content) == FlattenSeq(Map(OfType(content, {"text"}), LAMBDA p : p.text))

IsSystem(m) == m.role \in {"system", "developer"}
Instructions(messages) == Pick(messages, IsSystem)
Turns(messages) == Pick(messages, LAMBDA m : ~IsSystem(m))

-----------------------------------------------------------------------------
(* The input of the Responses API to chat messages.                        *)

\* InputItem is untagged, and the first variant that fits is taken: an item
\* with a `type` and an `id` is a reference, whatever else it has.
ReadItem(item) ==
    IF item.type # "message" /\ item.hasId THEN [item EXCEPT !.type = "item_reference"] ELSE item

\* Fault: a call is always a message of its own.
AttachNowhere(messages, call) ==
    Append(messages, ChatMessage("assistant", <<>>, <<call>>, NoCall))

\* A call joins the assistant's message before it, if there is one.
AttachCall(messages, call) ==
    IF messages # <<>> /\ Last(messages).role = "assistant"
    THEN [messages EXCEPT ![Len(messages)].calls = Append(@, call)]
    ELSE Append(messages, ChatMessage("assistant", <<>>, <<call>>, NoCall))

AddInputItem(messages, item) ==
    CASE item.type = "message" ->
           Append(messages, ChatMessage(item.role, OfType(item.content, {"text", "image"}),
                                        <<>>, NoCall))
      [] item.type = "function_call_output" ->
           Append(messages, ChatMessage("tool", <<Text(item.output)>>, <<>>, item.id))
      [] item.type = "function_call" -> AttachCall(messages, item.call)
      [] item.type = "item_reference" -> messages

\* TryFrom<ResponsesInputConverter> for Vec<Message>, the instructions being
\* none or a system message.
MessagesOfInput(instructions, items) ==
    LET upto[n \in 0..Len(items)] ==
            IF n = 0 THEN instructions ELSE AddInputItem(upto[n - 1], items[n])
    IN  upto[Len(items)]

\* tool_choice of a Responses request: "auto" for a string it does not know.
ChatChoiceOfResponses(choice) ==
    IF choice \in {"omitted", "auto", "required", "none", "named"} THEN choice ELSE "auto"

-----------------------------------------------------------------------------
(* Chat messages to blocks, of the Messages API and of Bedrock Converse.   *)

CallsParse(m) == \A i \in DOMAIN m.calls : Parses(m.calls[i])
Uses(m) == Map(m.calls, Use)

\* convert_openai_message_to_anthropic_content
AnthropicContent(m) == m.content \o Uses(m)

\* TryFrom<Message> for MessagesMessage
BecomesMessagesMessage(m) ==
    IF m.role = "tool" THEN m.result # NoCall ELSE CallsParse(m)

MessagesMessage(m) ==
    IF m.role = "tool"
    THEN BlockMessage("user", <<Result(m.result, <<ExtractText(m.content)>>, FALSE)>>)
    ELSE BlockMessage(m.role, IF AnthropicContent(m) = <<>> THEN <<Text(<<>>)>>
                              ELSE AnthropicContent(m))

\* TryFrom<ChatCompletionsRequest> for MessagesRequest: one system prompt, the
\* last.
BecomesMessages(request) ==
    \A i \in DOMAIN Turns(request.messages) : BecomesMessagesMessage(Turns(request.messages)[i])

ChatToMessages(request) ==
    LET system == Instructions(request.messages)
    IN  [api |-> "messages",
         system |-> IF system = <<>> THEN <<>> ELSE <<ExtractText(Last(system).content)>>,
         messages |-> Map(Turns(request.messages), MessagesMessage),
         tools |-> request.tools, choice |-> request.choice]

NotBlank(t) == IF t = <<>> THEN Blank ELSE t
Said(content) == Pick(content, LAMBDA p : ~(p.type = "text" /\ p.text = <<>>))

\* Bedrock wants at least one block in a message.
AtLeastOne(blocks) == IF blocks = <<>> THEN <<Text(Blank)>> ELSE blocks

\* TryFrom<Message> for BedrockMessage
BecomesBedrockMessage(m) ==
    CASE m.role = "user"      -> Image("url") \notin ToSet(m.content)
      [] m.role = "assistant" -> CallsParse(m)
      [] m.role = "tool"      -> m.result # NoCall

AssistantText(m) == IF ExtractText(m.content) = <<>> THEN <<>> ELSE <<Text(ExtractText(m.content))>>

\* Fault: the empty output of a tool is sent as it is.
BedrockMessageWithEmptyResult(m) ==
    CASE m.role = "user"      -> BlockMessage("user", AtLeastOne(Said(m.content)))
      [] m.role = "assistant" ->
           BlockMessage("assistant", AtLeastOne(AssistantText(m) \o Uses(m)))
      [] m.role = "tool"      ->
           BlockMessage("user", <<Result(m.result, <<ExtractText(m.content)>>, FALSE)>>)

BedrockMessage(m) ==
    CASE m.role = "user"      -> BlockMessage("user", AtLeastOne(Said(m.content)))
      [] m.role = "assistant" ->
           BlockMessage("assistant", AtLeastOne(AssistantText(m) \o Uses(m)))
      [] m.role = "tool"      ->
           BlockMessage("user", <<Result(m.result, <<NotBlank(ExtractText(m.content))>>, FALSE)>>)

\* Bedrock has no "none", and is told "auto" of tools without a choice.
BedrockChoice(choice, tools) ==
    CASE choice = "none"               -> "auto"
      [] choice = "omitted" /\ tools   -> "auto"
      [] OTHER                         -> choice

\* TryFrom<ChatCompletionsRequest> for ConverseRequest
BecomesConverse(request) ==
    \A i \in DOMAIN Turns(request.messages) : BecomesBedrockMessage(Turns(request.messages)[i])

ChatToConverse(request) ==
    [api |-> "converse",
     system |-> Map(Instructions(request.messages), LAMBDA m : ExtractText(m.content)),
     messages |-> Map(Turns(request.messages), BedrockMessage),
     tools |-> request.tools, choice |-> BedrockChoice(request.choice, request.tools)]

-----------------------------------------------------------------------------
(* The requests of the Messages API to chat and to Bedrock Converse.       *)

ToolResults(m) ==
    Map(OfType(m.blocks, {"tool_result", "server_result"}),
        LAMBDA b : ChatMessage("tool", <<Text(FlattenSeq(b.content))>>, <<>>, b.id))

\* Fault: the message goes before the tool results in it.
ChatMessagesResultsLast(m) ==
    LET parts == OfType(m.blocks, {"text", "image"})
        calls == Map(OfType(m.blocks, {"tool_use", "server_use"}), LAMBDA b : b.call)
    IN  (IF parts = <<>> /\ calls = <<>> THEN <<>>
         ELSE <<ChatMessage(m.role, parts, calls, NoCall)>>) \o ToolResults(m)

\* TryFrom<MessagesMessage> for Vec<Message>, by split_for_openai
ChatMessages(m) ==
    LET parts == OfType(m.blocks, {"text", "image"})
        calls == Map(OfType(m.blocks, {"tool_use", "server_use"}), LAMBDA b : b.call)
    IN  ToolResults(m) \o
        (IF parts = <<>> /\ calls = <<>> THEN <<>>
         ELSE <<ChatMessage(m.role, parts, calls, NoCall)>>)

\* tool_choice of a Messages request; a tool that is not named is no choice.
MessagesChoice(choice) == IF choice = "unnamed" THEN "auto" ELSE choice

\* TryFrom<MessagesRequest> for ChatCompletionsRequest
MessagesToChat(request) ==
    [api |-> "chat",
     messages |-> Map(request.system, SystemMessage) \o FlattenSeq(Map(request.messages, ChatMessages)),
     tools |-> request.tools, choice |-> MessagesChoice(request.choice)]

\* A block of Anthropic's for Bedrock; there is none for an image that is a
\* URL, nor for a server tool or thinking.
BedrockBlocks(block) ==
    CASE block.type = "tool_result" -> <<[block EXCEPT !.content = IF @ = <<>> THEN <<Blank>> ELSE @]>>
      [] block.type = "tool_use" \/ block = Image("data") -> <<block>>
      [] block.type = "text" /\ block.text # <<>> -> <<block>>
      [] OTHER -> <<>>

\* TryFrom<MessagesMessage> for BedrockMessage
MessagesToBedrockMessage(m) ==
    BlockMessage(m.role, AtLeastOne(FlattenSeq(Map(m.blocks, BedrockBlocks))))

\* TryFrom<MessagesRequest> for ConverseRequest
MessagesBecomeConverse(request) ==
    \A i \in DOMAIN request.messages : request.messages[i].role # "system"

MessagesToConverse(request) ==
    [api |-> "converse", system |-> request.system,
     messages |-> Map(request.messages, MessagesToBedrockMessage),
     tools |-> request.tools,
     choice |-> IF ~request.tools THEN "omitted"
                ELSE IF request.choice = "none" THEN "auto" ELSE MessagesChoice(request.choice)]

-----------------------------------------------------------------------------
(* Requests: TryFrom<(ProviderRequestType, &SupportedUpstreamAPIs)>.       *)

\* TryFrom<ResponsesAPIRequest> for ChatCompletionsRequest
HostedTools == {"file_search", "code_interpreter", "computer"}
BecomesChat(request) == request.hosted \cap HostedTools = {}

ResponsesToChat(request) ==
    [api |-> "chat",
     messages |-> MessagesOfInput(Map(request.system, SystemMessage), request.items),
     tools |-> request.tools, choice |-> ChatChoiceOfResponses(request.choice)]

Converts(request, api) ==
    CASE request.api = api -> TRUE
      [] request.api = "responses" /\ api = "chat"     -> BecomesChat(request)
      [] request.api = "responses" /\ api = "messages" ->
           BecomesChat(request) /\ BecomesMessages(ResponsesToChat(request))
      [] request.api = "responses" /\ api = "converse" ->
           BecomesChat(request) /\ BecomesConverse(ResponsesToChat(request))
      [] request.api = "chat" /\ api = "messages"      -> BecomesMessages(request)
      [] request.api = "chat" /\ api = "converse"      -> BecomesConverse(request)
      [] request.api = "messages" /\ api = "converse"  -> MessagesBecomeConverse(request)
      [] request.api = "messages" /\ api = "chat"      -> TRUE
      [] OTHER -> FALSE     \* nothing converts to the Responses API

Converted(request, api) ==
    CASE request.api = api -> request
      [] request.api = "responses" /\ api = "chat"     -> ResponsesToChat(request)
      [] request.api = "responses" /\ api = "messages" -> ChatToMessages(ResponsesToChat(request))
      [] request.api = "responses" /\ api = "converse" -> ChatToConverse(ResponsesToChat(request))
      [] request.api = "chat" /\ api = "messages"      -> ChatToMessages(request)
      [] request.api = "chat" /\ api = "converse"      -> ChatToConverse(request)
      [] request.api = "messages" /\ api = "chat"      -> MessagesToChat(request)
      [] request.api = "messages" /\ api = "converse"  -> MessagesToConverse(request)

-----------------------------------------------------------------------------
(* Answers.  Of chat: [content, calls, finish], the content a sequence of  *)
(* at most one text; of Messages and Converse: [blocks, finish].           *)

\* From<MessagesStopReason> for FinishReason
ChatFinish(reason) ==
    CASE reason \in {"end_turn", "stop_sequence", "pause_turn"} -> "stop"
      [] reason = "max_tokens" -> "length"
      [] reason = "tool_use"   -> "tool_calls"
      [] reason = "refusal"    -> "content_filter"

\* From<FinishReason> for MessagesStopReason; without a reason, end_turn.
MessagesFinish(reason) ==
    CASE reason = "length"         -> "max_tokens"
      [] reason \in {"tool_calls", "function_call"} -> "tool_use"
      [] reason = "content_filter" -> "refusal"
      [] OTHER                     -> "end_turn"

\* StopReason of Bedrock, in Converse responses for both APIs.
BedrockFinish(reason) ==
    CASE reason \in {"end_turn", "stop_sequence"} -> "end_turn"
      [] reason \in {"guardrail_intervened", "content_filtered"} -> "refusal"
      [] OTHER -> reason

CallsIn(blocks) == Map(OfType(blocks, {"tool_use", "server_use"}), LAMBDA b : b.call)

\* TryFrom<MessagesResponse> for ChatCompletionsResponse: thinking is text.
MessagesAnswerToChat(answer) ==
    [api |-> "chat",
     content |-> <<FlattenSeq(Map(OfType(answer.blocks, {"text", "thinking"}), LAMBDA b : b.text))>>,
     calls |-> CallsIn(answer.blocks), finish |-> ChatFinish(answer.finish)]

\* TryFrom<ConverseResponse> for ChatCompletionsResponse
ConverseAnswerToChat(answer) ==
    LET text == ExtractText(answer.blocks)
    IN  [api |-> "chat", content |-> IF text = <<>> THEN <<>> ELSE <<text>>,
         calls |-> Map(OfType(answer.blocks, {"tool_use"}), LAMBDA b : b.call),
         finish |-> ChatFinish(BedrockFinish(answer.finish))]

\* TryFrom<ChatCompletionsResponse> for MessagesResponse
BecomesMessagesAnswer(answer) == \A i \in DOMAIN answer.calls : Parses(answer.calls[i])

ChatAnswerToMessages(answer) ==
    [api |-> "messages",
     blocks |-> Map(Pick(answer.content, LAMBDA t : t # <<>>), Text) \o Map(answer.calls, Use),
     finish |-> MessagesFinish(answer.finish)]

\* TryFrom<ConverseResponse> for MessagesResponse
ConverseAnswerToMessages(answer) ==
    [api |-> "messages", blocks |-> answer.blocks, finish |-> BedrockFinish(answer.finish)]

OutputMessage(text) == [type |-> "message", role |-> "assistant", content |-> <<Text(text)>>]
OutputCall(call) == [type |-> "function_call", call |-> call]

\* Fault: an answer with text has no items for its calls.
ChatAnswerToResponsesTextFirst(answer) ==
    [api |-> "responses",
     items |-> IF answer.content # <<>> THEN Map(answer.content, OutputMessage)
               ELSE Map(answer.calls, OutputCall),
     finish |-> CASE answer.finish = "length"         -> "incomplete"
                  [] answer.finish = "content_filter" -> "failed"
                  [] OTHER                            -> "completed"]

\* TryFrom<ChatCompletionsResponse> for ResponsesAPIResponse
ChatAnswerToResponses(answer) ==
    [api |-> "responses",
     items |-> Map(answer.content, OutputMessage) \o Map(answer.calls, OutputCall),
     finish |-> CASE answer.finish = "length"         -> "incomplete"
                  [] answer.finish = "content_filter" -> "failed"
                  [] OTHER                            -> "completed"]

\* TryFrom<(&[u8], &SupportedAPIsFromClient, &ProviderId)> for
\* ProviderResponseType
AnswerConverts(answer, client) ==
    (answer.api = "chat" /\ client = "messages") => BecomesMessagesAnswer(answer)

ConvertedAnswer(answer, client) ==
    CASE answer.api = client -> answer
      [] answer.api = "chat" /\ client = "messages"      -> ChatAnswerToMessages(answer)
      [] answer.api = "chat" /\ client = "responses"     -> ChatAnswerToResponses(answer)
      [] answer.api = "messages" /\ client = "chat"      -> MessagesAnswerToChat(answer)
      [] answer.api = "messages" /\ client = "responses" ->
           ChatAnswerToResponses(MessagesAnswerToChat(answer))
      [] answer.api = "converse" /\ client = "chat"      -> ConverseAnswerToChat(answer)
      [] answer.api = "converse" /\ client = "messages"  -> ConverseAnswerToMessages(answer)
      [] answer.api = "converse" /\ client = "responses" ->
           ChatAnswerToResponses(ConverseAnswerToChat(answer))

-----------------------------------------------------------------------------
(* The items of an answer as input for the next request, which brightstaff *)
(* does for the conversations it keeps (output_to_input.rs).               *)

\* "Called function: ..."
Mention(call) == <<<<"called", call.id>>>>

\* outputs_to_inputs: a call becomes a text that tells of it.
OutputsToInputs(items) ==
    Map(items, LAMBDA it : IF it.type = "function_call" THEN OutputMessage(Mention(it.call)) ELSE it)
=============================================================================
