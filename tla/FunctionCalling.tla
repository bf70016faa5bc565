---------------------------- MODULE FunctionCalling ----------------------------
(***************************************************************************)
(* brightstaff's /function_calling endpoint (function_calling.rs): it      *)
(* shows a conversation and the configured functions to the Arch-Function  *)
(* model, and reduces what the model writes to an answer the prompt_gateway *)
(* filter acts upon: nothing, a question to the user, or verified calls.   *)
(* A message is its kind: what a user, the system or the assistant says,   *)
(* "nameless" of a user without content, "calls" of an assistant with tool *)
(* calls and no content, "arch" an earlier answer of Arch-Function as the  *)
(* filter hands it to the client, "tool" a tool's result and "silent" one  *)
(* without content.                                                        *)
(***************************************************************************)
EXTENDS Naturals, Sequences, SequencesExt, Functions

Message == {"system", "user", "nameless", "assistant", "calls", "arch", "tool", "silent"}

\* A call names a function and gives a kind of value to each parameter.
\* arguments that are no JSON object
NoArguments == [json |-> FALSE, values |-> <<>>]
Arguments(values) == [json |-> TRUE, values |-> values]
Call(name, arguments) == [name |-> name, arguments |-> arguments]

\* check_value_type, by the type a function declares.
TypeAccepts ==
    [int |-> {"int"}, float |-> {"int", "float"}, bool |-> {"bool"},
     str |-> {"str", "liststr"}, list |-> {"list"}, dict |-> {"dict"}]

\* convert_data_type: "liststr" is a string that holds a JSON list.
ConvertDataType(value, type) ==
    CASE type = "float" /\ value = "int" -> "float"
      [] type = "list" /\ value = "liststr" -> "list"
      [] type = "str" /\ value \notin {"str", "liststr"} -> "str"
      [] OTHER -> value

ValidateOrConvertParameter(value, type) ==
    \/ value \in TypeAccepts[type]
    \/ ConvertDataType(value, type) \in TypeAccepts[type]

\* A tool gives each parameter its type, and names the required ones.
Fits(tool, arguments) ==
    /\ arguments.json
    /\ tool.required \subseteq DOMAIN arguments.values
    /\ \A p \in DOMAIN arguments.values :
          /\ p \in DOMAIN tool.types
          /\ ValidateOrConvertParameter(arguments.values[p], tool.types[p])

\* Fault: a function that is not among the tools has nothing to be checked.
VerifyKnownOnly(tools, calls) ==
    \A i \in DOMAIN calls :
       calls[i].name \in DOMAIN tools => Fits(tools[calls[i].name], calls[i].arguments)

\* The first call that fails ends the verification, so all calls must pass.
VerifyToolCalls(tools, calls) ==
    \A i \in DOMAIN calls :
       calls[i].name \in DOMAIN tools /\ Fits(tools[calls[i].name], calls[i].arguments)

\* process_messages: the roles the model sees, or that the last is no user's.
RoleFor(message) ==
    CASE message \in {"user", "nameless", "tool", "silent"} -> "user"
      [] message \in {"assistant", "calls", "arch"} -> "assistant"
      [] message = "system" -> "system"

\* The system message, with the tools, comes first.
ProcessMessages(messages) ==
    <<"system">> \o [i \in DOMAIN messages |-> RoleFor(messages[i])]
LastIsUser(messages) == Last(ProcessMessages(messages)) = "user"

\* What Arch-Function writes: prose, or JSON that may lack brackets and holds
\* a response, required functions with a question, or tool calls.
\* fix_json_string: closes the brackets, and fails where that is not enough.
FixJsonString(reply) == [reply EXCEPT !.form = IF @ = "prose" THEN "error" ELSE "json"]

NoCalls == <<>>
ParseModelResponse(reply) ==
    LET fixed == FixJsonString(reply)
    IN  IF fixed.form = "error"
        THEN [valid |-> FALSE, response |-> FALSE, required |-> FALSE, calls |-> NoCalls]
        ELSE [valid |-> TRUE, response |-> reply.response,
              required |-> reply.required, calls |-> reply.calls]

\* The messages: one without content and without calls says that no function
\* is meant, one with content asks the user, one with calls calls.
NothingMeant == [content |-> "", calls |-> NoCalls]
AskUser == [NothingMeant EXCEPT !.content = "text"]
FunctionsCalled(calls) == [NothingMeant EXCEPT !.calls = calls]
Failure == [content |-> "error", calls |-> NoCalls]

\* The message made of a parsed reply.
ModelMessage(parsed, tools, orchestrated) ==
    CASE parsed.response -> NothingMeant
      [] ~parsed.response /\ parsed.required ->
            IF orchestrated THEN NothingMeant ELSE AskUser
      [] ~parsed.response /\ ~parsed.required /\ parsed.calls # NoCalls ->
            IF parsed.valid /\ (orchestrated \/ VerifyToolCalls(tools, parsed.calls))
            THEN FunctionsCalled(parsed.calls)
            ELSE NothingMeant
      [] OTHER -> NothingMeant

\* function_calling_chat: the model's stream fails, or ends in a reply (its own,
\* or the one it is asked for again when the tokens of its calls are
\* uncertain), from which the message is made.
FunctionCallingChat(messages, tools, orchestrated, reply) ==
    IF ~LastIsUser(messages) \/ reply.form = "failed"
    THEN Failure
    ELSE ModelMessage(ParseModelResponse(reply), tools, orchestrated)

\* The mode is read as a JSON boolean: the string "true" does not set it.
UseAgentOrchestrator(metadata) == metadata = "boolean"

\* function_calling_chat_handler
FunctionCallingChatHandler(messages, tools, metadata, reply) ==
    LET message == FunctionCallingChat(messages, tools, UseAgentOrchestrator(metadata), reply)
    IN  [status  |-> IF message = Failure THEN "500" ELSE "200",
         body    |-> "answer",
         content |-> message.content,
         calls   |-> message.calls]
================================================================================
