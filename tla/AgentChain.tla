------------------------------ MODULE AgentChain ------------------------------
(***************************************************************************)
(* A request to an agent listener (brightstaff handlers/agents):           *)
(* agent_chat parses it, merges the turn before it, has agents selected     *)
(* and runs them one after the other, each behind its own input filters;    *)
(* agent_resume returns to an agent that interrupted its turn.  Filters are *)
(* HTTP services or tools of an MCP server, in whose session they run; an   *)
(* agent is called over HTTP, or is Rig, in process.  A request's calls are *)
(* awaited one by one and nothing of it is shared but the storage.           *)
(***************************************************************************)
EXTENDS AgentSelector, FiniteSets, TLC

CONSTANTS
    AgentTypes,     \* by id, the type of every agent and filter configured
    Listeners,      \* by name: its agents' filter chains, or that it has none
    HasStorage,     \* whether state_storage is configured
    Earlier,        \* the conversation a previous_response_id stands for
    Requests,       \* requests that reach brightstaff
    Replies,        \* what the orchestrator's model may reply
    MaxRequests     \* bound: requests

\* A message has a role, the agent it is from, a length, and what filters did to it.
Messages == [role : STRING, from : STRING, bytes : Nat, trimmed : BOOLEAN, marks : Seq(STRING)]

ASSUME AgentChainAssumption ==
    /\ HasStorage \in BOOLEAN /\ MaxRequests \in Nat
    /\ Earlier \in Seq(Messages)
    /\ \A r \in Requests : r.kind = "chat" => r.messages \in Seq(Messages)
    /\ \A l \in DOMAIN Listeners :
          Listeners[l].agents \in Seq([id : STRING, filters : Seq(STRING), default : BOOLEAN])
    /\ Replies \subseteq [form : STRING, routes : Seq(STRING)]

VARIABLES
    served,     \* requests accepted
    phase,      \* "idle", then of the request: "filter", "invoke", "done"
    req,        \* the request
    turn,       \* agent_req.messages: what the client said, after what was before
    selected,   \* selected_agents
    at,         \* agent_index
    current,    \* current_messages
    body,       \* current_bytes, of the filters of this agent
    filterAt,   \* the filter of this agent that runs next
    sessions,   \* agent_id_session_map
    stored,     \* what the state storage holds of this request's response
    answer,     \* what the client got
    issued,     \* external. sessions MCP servers have opened
    calls       \* history. the calls made for this request

vars == <<served, phase, req, turn, selected, at, current, body, filterAt,
          sessions, stored, answer, issued, calls>>
handling == <<served, req, turn, selected>>

NoRequest == [kind |-> "none"]
NoAnswer == [status |-> "none", by |-> "none", body |-> "none"]
NotStored == [input |-> <<>>, by |-> "none"]
NoSession == 0

Message(role, from, bytes) == [role |-> role, from |-> from, bytes |-> bytes, trimmed |-> FALSE, marks |-> <<>>]
ReplyBytes == 8

\* A body: a conversation, other JSON, or no JSON.
Chat(messages) == [form |-> "chat", messages |-> messages]
Other == [form |-> "other", messages |-> <<>>]
NotJson == [form |-> "bytes", messages |-> <<>>]

\* A call, what was sent in it and what came of it.
Made(kind, to, session, given, gave) ==
    [kind |-> kind, to |-> to, session |-> session, given |-> given, gave |-> gave]

Init ==
    /\ served = 0 /\ phase = "idle" /\ req = NoRequest /\ turn = <<>>
    /\ selected = <<>> /\ at = 0 /\ current = <<>> /\ body = NotJson /\ filterAt = 0
    /\ sessions = <<>> /\ stored = NotStored /\ answer = NoAnswer /\ issued = 0 /\ calls = <<>>

Answered(status, by, what) ==
    /\ phase' = "done"
    /\ answer' = [status |-> status, by |-> by, body |-> what]

\* agent_chat's own answers: the status of a client error of a filter, else 400.
Refuse(status) == Answered(status, "plano", "error")
Refused == Refuse("400")

(***************************************************************************)
(* Parsing and selection.                                                  *)
(***************************************************************************)
Responses == req.api = "responses"

\* What state resolution makes of a request, by the storage's answer.
Merged(r, found) == IF found = "found" THEN Earlier \o r.messages ELSE r.messages
Lookups(r) == IF r.api = "responses" /\ r.previous /\ HasStorage
              THEN {"found", "missing", "failed"} ELSE {"none"}

Selection(r, messages, reply) ==
    LET l == Listeners[r.listener]
    IN IF ~l.serves THEN SelectionError ELSE SelectAgents(messages, l.agents, r.agent, reply)

\* A reply of the model, where it is asked.
RepliesTo(r) ==
    IF r.listener \in DOMAIN Listeners /\ Listeners[r.listener].serves
       /\ Listeners[r.listener].agents # <<>> /\ ModelDecides(Listeners[r.listener].agents, r.agent)
    THEN Replies ELSE {[form |-> "empty", routes |-> <<>>]}

Asked(r, messages, reply) ==
    IF RepliesTo(r) = Replies /\ messages # <<>>
    THEN <<Made("select", "orchestrator", NoSession, Chat(SelectedConversation(messages)),
                [form |-> reply.form, messages |-> <<>>])>>
    ELSE <<>>

FiltersOf(listener, id) ==
    LET agents == Listeners[listener].agents
        first == CHOOSE i \in DOMAIN agents :
                    agents[i].id = id /\ \A j \in 1..(i - 1) : agents[j].id # id
    IN agents[first].filters
FilterChain(id) == FiltersOf(req.listener, id)

\* The next agent: its filters get the model and current_messages.
StartAgent(r, ids, i, messages) ==
    /\ at' = i /\ current' = messages /\ body' = Chat(messages) /\ filterAt' = 1
    /\ phase' = IF FiltersOf(r.listener, ids[i]) = <<>> THEN "invoke" ELSE "filter"

NoChain == UNCHANGED <<at, current, body, filterAt>>

\* parse_agent_request: the listener, the path and the body.
Parsed(r) == r.listener \in DOMAIN Listeners /\ r.parses

\* handle_agent_chat_inner up to the chain: then the turn before is merged and
\* agents are selected.
AgentChat(r) ==
    /\ phase = "idle" /\ served < MaxRequests /\ r.kind = "chat"
    /\ served' = served + 1 /\ req' = r /\ UNCHANGED <<sessions, stored, issued>>
    /\ \/ /\ ~Parsed(r)
          /\ UNCHANGED <<turn, selected, calls>>
          /\ NoChain /\ Refused
       \/ /\ Parsed(r)
          /\ \E found \in Lookups(r), reply \in RepliesTo(r) :
               LET messages == Merged(r, found)
                   selection == Selection(r, messages, reply)
               IN /\ turn' = messages
                  /\ calls' = IF found = "missing" THEN <<>> ELSE Asked(r, messages, reply)
                  /\ selected' = IF found = "missing" THEN <<>> ELSE selection.ids
                  /\ CASE found = "missing" -> NoChain /\ Refused
                       [] found # "missing" /\ selection.kind = "error" -> NoChain /\ Refused
                       [] found # "missing" /\ selection.kind = "panic" ->
                            NoChain /\ Answered("closed", "plano", "error")
                       [] OTHER -> StartAgent(r, selection.ids, 1, messages) /\ UNCHANGED answer

(***************************************************************************)
(* The filters of an agent.                                                *)
(***************************************************************************)
AgentName == selected[at]
Filter == FilterChain(AgentName)[filterAt]
Filters == phase = "filter" /\ UNCHANGED <<handling, at, current, stored>>

Log(entry) == calls' = Append(calls, entry)

\* A filter's body becomes the next one's, and after the last the agent's
\* chat_history, which must be messages.
NextFilter(new) ==
    /\ body' = new
    /\ filterAt' = filterAt + 1
    /\ \/ filterAt < Len(FilterChain(AgentName)) /\ UNCHANGED <<phase, answer>>
       \/ filterAt = Len(FilterChain(AgentName)) /\ new.form = "chat"
          /\ phase' = "invoke" /\ UNCHANGED answer
       \/ filterAt = Len(FilterChain(AgentName)) /\ new.form # "chat" /\ Refused

\* What a filter may make of a body: it marks messages, or what it returns
\* is no conversation.
Marked(b, f) == [b EXCEPT !.messages = [i \in DOMAIN b.messages |->
                                           [b.messages[i] EXCEPT !.marks = Append(@, f)]]]
Outputs(f) == {Marked(body, f), Other}

FilterEnds(kind, session, status) ==
    /\ Log(Made(kind, Filter, session, body, [form |-> "failed", messages |-> <<>>]))
    /\ Refuse(status)
    /\ UNCHANGED <<body, filterAt>>

\* How a filter fails, and the status the client gets for it: a tool's answer
\* may also be no event, or have no result, an error for one, or no content.
FilterFailures == [client |-> "4xx", server |-> "400", unsent |-> "400"]
ToolFailures == FilterFailures @@ [f \in {"notSse", "noResult", "isError", "noContent"} |-> "400"]

FilterMissing ==
    /\ Filters /\ Filter \notin DOMAIN AgentTypes
    /\ Refused
    /\ UNCHANGED <<body, filterAt, sessions, issued, calls>>

\* The bytes go to the filter's url.  An error of the client has its status.
ExecuteRawFilter ==
    /\ Filters /\ Filter \in DOMAIN AgentTypes /\ AgentTypes[Filter] # "mcp"
    /\ UNCHANGED <<sessions, issued>>
    /\ \/ \E new \in Outputs(Filter) \cup {NotJson} :
            NextFilter(new) /\ Log(Made("filter", Filter, NoSession, body, new))
       \/ \E why \in DOMAIN FilterFailures : FilterEnds("filter", NoSession, FilterFailures[why])

McpFilter == Filters /\ Filter \in DOMAIN AgentTypes /\ AgentTypes[Filter] = "mcp"

\* A body that is no JSON is refused before a session is asked for.
McpNotJson ==
    /\ McpFilter /\ body.form = "bytes" /\ Refused
    /\ UNCHANGED <<body, filterAt, sessions, issued, calls>>

\* Fault: a session is taken for every server's.
FaultOneSession ==
    /\ McpFilter /\ body.form # "bytes" /\ Filter \notin DOMAIN sessions
    /\ issued' = issued + 1
    /\ calls' = calls \o <<Made("initialize", Filter, issued + 1, body, body),
                           Made("initialized", Filter, issued + 1, body, body)>>
    /\ sessions' = [f \in DOMAIN AgentTypes |-> issued + 1]
    /\ UNCHANGED <<body, filterAt, phase, answer>>

\* initialize, whose status is not looked at but its session header, and the
\* notification, which must be sent but whose status is not looked at either.
GetNewSessionId ==
    /\ McpFilter /\ body.form # "bytes" /\ Filter \notin DOMAIN sessions
    /\ UNCHANGED <<body, filterAt>>
    /\ \/ /\ Log(Made("initialize", Filter, NoSession, body, NotJson)) /\ Refused
          /\ UNCHANGED <<sessions, issued>>
       \/ /\ issued' = issued + 1
          /\ calls' = calls \o <<Made("initialize", Filter, issued + 1, body, body),
                                 Made("initialized", Filter, issued + 1, body, body)>>
          /\ \/ Refused /\ UNCHANGED sessions
             \/ /\ sessions' = [f \in DOMAIN sessions \cup {Filter} |->
                                   IF f = Filter THEN issued + 1 ELSE sessions[f]]
                /\ UNCHANGED <<phase, answer>>

\* tools/call in the session.  The tool's result is JSON; what cannot be read
\* of the answer, or a result that is an error, ends the request.
ExecuteMcpFilterRaw ==
    /\ McpFilter /\ body.form # "bytes" /\ Filter \in DOMAIN sessions
    /\ UNCHANGED <<sessions, issued>>
    /\ \/ \E new \in Outputs(Filter) :
            NextFilter(new) /\ Log(Made("tool", Filter, sessions[Filter], body, new))
       \/ \E why \in DOMAIN ToolFailures : FilterEnds("tool", sessions[Filter], ToolFailures[why])

(***************************************************************************)
(* The agent.                                                              *)
(***************************************************************************)
Invokes == phase = "invoke" /\ UNCHANGED <<handling, sessions, issued>>
LastAgent == at = Len(selected)

\* Fault: the reply is appended to the history.
FaultReplyLast(bytes) ==
    /\ StartAgent(req, selected, at + 1, Append(current, Message("assistant", AgentName, bytes)))
    /\ UNCHANGED answer

\* The reply goes before the last message, under the agent's name.
AddReply(bytes) ==
    IF current = <<>>
    THEN Refused /\ NoChain
    ELSE /\ StartAgent(req, selected, at + 1,
                Front(current) \o <<Message("assistant", AgentName, bytes), Last(current)>>)
         /\ UNCHANGED answer

AgentNotFound ==
    /\ Invokes /\ AgentName \notin DOMAIN AgentTypes /\ Refused
    /\ NoChain /\ UNCHANGED <<stored, calls>>

\* Rig is given the text of the last message of a user's.
LastUserText(messages) ==
    LET said == SelectSeq(messages, LAMBDA m : m.role = "user")
    IN IF said = <<>> THEN <<>> ELSE <<Last(said)>>

\* Its text as a completion, or as the events of one.
RigChatCompletionResponse == Answered("200", AgentName, "whole")

InvokeRigAgent ==
    /\ Invokes /\ AgentName \in DOMAIN AgentTypes /\ AgentTypes[AgentName] = "rig"
    /\ UNCHANGED stored
    /\ \E replied \in {"reply", "failed"} :
         /\ Log(Made("agent", AgentName, NoSession, Chat(LastUserText(body.messages)),
                     [form |-> replied, messages |-> <<>>]))
         /\ CASE replied = "failed" -> Refused /\ NoChain
              [] replied # "failed" /\ ~LastAgent -> AddReply(ReplyBytes)
              [] replied # "failed" /\ LastAgent /\ Responses -> Refused /\ NoChain
              [] OTHER -> RigChatCompletionResponse /\ NoChain

\* What may come of a call to an agent: no answer; an answer that is an error;
\* one that is whole, breaks off, or is no chat completion.
AgentAnswers == {"failed", "error", "reply", "cut", "odd"}

\* Of an intermediate agent the answer is read to its end, whatever its status.
CollectFullResponse(got) ==
    CASE got \in {"failed", "cut"} -> Refused /\ NoChain
      [] OTHER -> AddReply(ReplyBytes)

\* The last one's is passed on as it comes, without its status.
CreateStreamingResponse(got) ==
    CASE got = "failed" -> Refused
      [] got = "cut" -> Answered("200", AgentName, "cut")
      [] OTHER -> Answered("200", AgentName, got)

\* The translator and the state processor behind it: a completion becomes a
\* response; of what breaks off or is none nothing, or its first events, is left.
Translated(got) == IF got = "reply" THEN "translated" ELSE "cut"

\* For a Responses client the answer is translated, and stored when it is
\* complete; an error is passed on as it is.

\* Fault: what agents said to one another is stored as the client's input.
FaultStoresHistory(got) ==
    /\ got = "reply"
    /\ Answered("200", AgentName, "translated")
    /\ stored' = [input |-> current, by |-> AgentName]

Storing == HasStorage /\ turn # <<>>
BuildResponsesApiResponse(got) ==
    CASE got \in {"failed", "error"} -> CreateStreamingResponse(got) /\ UNCHANGED stored
      [] OTHER ->
           /\ Answered("200", AgentName, Translated(got))
           /\ stored' = IF Storing /\ Translated(got) = "translated"
                        THEN [input |-> turn, by |-> AgentName] ELSE stored

InvokeAgent ==
    /\ Invokes /\ AgentName \in DOMAIN AgentTypes /\ AgentTypes[AgentName] # "rig"
    /\ \E got \in AgentAnswers :
         /\ Log(Made("agent", AgentName, NoSession, body, [form |-> got, messages |-> <<>>]))
         /\ \/ ~LastAgent /\ CollectFullResponse(got) /\ UNCHANGED stored
            \/ LastAgent /\ Responses /\ BuildResponsesApiResponse(got) /\ NoChain
            \/ LastAgent /\ ~Responses /\ CreateStreamingResponse(got) /\ NoChain /\ UNCHANGED stored

\* agent_resume: the body as it is to the agent the header names.
AgentResume(r) ==
    /\ phase = "idle" /\ served < MaxRequests /\ r.kind = "resume"
    /\ served' = served + 1 /\ req' = r
    /\ NoChain /\ UNCHANGED <<turn, selected, sessions, stored, issued>>
    /\ \/ r.agent \notin DOMAIN AgentTypes /\ Refused /\ UNCHANGED calls
       \/ /\ r.agent \in DOMAIN AgentTypes
          /\ \E got \in AgentAnswers :
               /\ calls' = <<Made("agent", r.agent, NoSession, NotJson, [form |-> got, messages |-> <<>>])>>
               /\ IF got = "failed" THEN Refuse("500")
                  ELSE Answered("200", r.agent, got)

\* The request is over, and its processor with it.
Close ==
    /\ phase = "done" /\ phase' = "idle" /\ answer' = NoAnswer /\ calls' = <<>>
    /\ req' = NoRequest /\ turn' = <<>> /\ selected' = <<>> /\ at' = 0 /\ current' = <<>>
    /\ body' = NotJson /\ filterAt' = 0 /\ sessions' = <<>> /\ stored' = NotStored
    /\ UNCHANGED <<served, issued>>

Next ==
    \/ \E r \in Requests : AgentChat(r) \/ AgentResume(r)
    \/ FilterMissing \/ ExecuteRawFilter \/ McpNotJson \/ GetNewSessionId \/ ExecuteMcpFilterRaw
    \/ AgentNotFound \/ InvokeRigAgent \/ InvokeAgent \/ Close

Spec == Init /\ [][Next]_vars

(***************************************************************************)
(* Properties.                                                             *)
(***************************************************************************)
\* The calls that are planned for an agent.
Planned(id) == Append(FilterChain(id), id)

\* The conversation after n agents: what they replied is before its last message.
HistoryAfter(n) ==
    IF n = 0 THEN turn
    ELSE Front(turn) \o [j \in 1..n |-> Message("assistant", selected[j], ReplyBytes)] \o <<Last(turn)>>

\* What is to be done after n calls: which call of which agent, with what.
Due ==
    LET due[n \in 0..Len(calls)] ==
            IF n = 0 THEN [agent |-> 1, step |-> 1, input |-> Chat(HistoryAfter(0))]
            ELSE LET was == due[n - 1]
                     c   == calls[n]
                 IN  CASE c.kind \in {"filter", "tool"} ->
                            [was EXCEPT !.step = @ + 1, !.input = c.gave]
                       [] c.kind = "agent" ->
                            [agent |-> was.agent + 1, step |-> 1, input |-> Chat(HistoryAfter(was.agent))]
                       [] OTHER -> was
    IN  due

\* execute_agent_chain, process_raw_filter_chain: the calls of a request are
\* those of its agents' filters and agents, in that order; a filter gets what
\* the one before it made, an agent what its filters made, the first filter of
\* an agent the conversation with the replies of the agents before it in order
\* and the last message last.  Filters of one agent leave the others' alone.
EachCallGetsItsInput ==
    req.kind = "chat" =>
        \A i \in DOMAIN calls : calls[i].kind \in {"filter", "tool", "agent"} =>
            LET c == calls[i]
                due == Due[i - 1]
            IN /\ due.agent =< Len(selected)
               /\ due.step =< Len(Planned(selected[due.agent]))
               /\ c.to = Planned(selected[due.agent])[due.step]
               /\ c.kind = "agent" <=> due.step = Len(Planned(selected[due.agent]))
               /\ IF c.kind = "agent" /\ AgentTypes[c.to] = "rig"
                  THEN c.given = Chat(LastUserText(due.input.messages))
                  ELSE c.given = due.input

\* execute_mcp_filter_raw: a tool is called in the session its own server opened
\* for this request, after the server was told that it is initialized, and a
\* filter that two agents share opens one session.
SessionsAreTheirOwn ==
    /\ \A i \in DOMAIN calls : calls[i].kind = "tool" =>
         \E j \in 1..(i - 1) :
            /\ calls[j].kind = "initialized"
            /\ calls[j].to = calls[i].to /\ calls[j].session = calls[i].session
    /\ \A i, j \in DOMAIN calls :
         calls[i].kind = "initialize" /\ calls[j].kind = "initialize" /\ calls[i].to = calls[j].to => i = j

\* The tokens of the prompt, counted from the newest message back.
Spent(shown) ==
    LET sum[n \in 0..Len(shown)] ==
            IF n = 0 THEN SystemTokens ELSE sum[n - 1] + TokensOf(shown[Len(shown) - n + 1])
    IN  sum[Len(shown)]

\* generate_request: what the orchestrator's model is shown are the newest of
\* the messages that can be classified, without a gap and in order, of which
\* only the oldest is trimmed; the newest is never missing, and more than it
\* alone is shown only within the budget.
PromptKeepsIntent ==
    \A i \in DOMAIN calls : calls[i].kind = "select" =>
        LET shown == calls[i].given.messages
            all == Filtered(turn)
        IN /\ Len(shown) =< MaxRoutingTurns
           /\ all # <<>> => shown # <<>>
           /\ \A k \in DOMAIN shown :
                LET m == all[Len(all) - Len(shown) + k]
                IN shown[k] = m \/ (k = 1 /\ shown[k].trimmed /\ shown[k].from = m.from /\ shown[k].bytes > 0)
           /\ Len(shown) > 1 => Spent(shown) =< MaxTokenLength

\* build_responses_api_response, ResponsesStateProcessor: what is stored for the
\* next turn is the client's side of the conversation, without what agents said
\* to one another, and the reply that the client was given whole.
StoredIsAnswered ==
    /\ stored # NotStored =>
         /\ stored.input = turn
         /\ answer = [status |-> "200", by |-> Last(selected), body |-> "translated"]
    /\ answer.body = "translated" /\ HasStorage => (stored.by = answer.by \/ turn = <<>>)
================================================================================
