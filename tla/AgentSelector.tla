----------------------------- MODULE AgentSelector -----------------------------
(***************************************************************************)
(* Which agents answer a conversation (brightstaff handlers/agents/        *)
(* selector.rs, router/orchestrator.rs, router/orchestrator_model_v1.rs):  *)
(* what the orchestrator model is shown of the conversation and what is     *)
(* made of its reply.  A message has a role, the agent it is from, and a    *)
(* number of bytes of text.                                                 *)
(***************************************************************************)
EXTENDS Integers, SequencesExt

CONSTANTS
    MaxTokenLength,    \* max_token_length of the orchestrator's model
    SystemTokens,      \* tokens of ARCH_ORCHESTRATOR_V1_SYSTEM_PROMPT
    MaxRoutingTurns    \* MAX_ROUTING_TURNS

ASSUME AgentSelectorAssumption ==
    {MaxTokenLength, SystemTokens} \subseteq Nat /\ MaxRoutingTurns \in Nat \ {0}

TokenLengthDivisor == 4
TokensOf(m) == m.bytes \div TokenLengthDivisor

(***************************************************************************)
(* What the model is shown.                                                *)
(***************************************************************************)
Classified(m) == m.role \notin {"system", "developer", "tool"} /\ m.bytes > 0

\* The members of a list at some of its positions, in order.
Among(list, positions) ==
    LET upTo[n \in 0..Len(list)] ==
            IF n = 0 THEN <<>>
            ELSE IF n \in positions THEN Append(upTo[n - 1], list[n]) ELSE upTo[n - 1]
    IN  upTo[Len(list)]

\* Those that can be classified.
Filtered(messages) == Among(messages, {i \in DOMAIN messages : Classified(messages[i])})

\* trim_middle_utf8: head and tail of a text, of n bytes at most.
TrimMiddle(m, n) == [m EXCEPT !.bytes = n, !.trimmed = TRUE]

\* Fault: a message that does not fit is left out and older ones are tried.
FaultSkipsMessage(m, acc) ==
    IF TokensOf(m) =< MaxTokenLength - acc.tokens
    THEN [acc EXCEPT !.tokens = @ + TokensOf(m), !.kept = <<m>> \o @]
    ELSE acc

\* One message more, of those from the newest back, until the budget is spent;
\* of a user's message that exceeds it what fits is kept.
TakeMessage(m, acc) ==
    LET left == MaxTokenLength - acc.tokens
    IN CASE acc.full -> acc
         [] ~acc.full /\ TokensOf(m) =< left ->
              [acc EXCEPT !.tokens = @ + TokensOf(m), !.kept = <<m>> \o @]
         [] ~acc.full /\ TokensOf(m) > left /\ m.role = "user" /\ left > 0 ->
              [acc EXCEPT !.full = TRUE, !.kept = <<TrimMiddle(m, left * TokenLengthDivisor)>> \o @]
         [] OTHER -> [acc EXCEPT !.full = TRUE]

\* The newest messages that can be classified.
Recent(messages) ==
    LET filtered == Filtered(messages)
    IN  SubSeq(filtered, IF Len(filtered) > MaxRoutingTurns
                         THEN Len(filtered) - MaxRoutingTurns + 1 ELSE 1, Len(filtered))

\* What is taken of them, from the newest back.
Taken(recent) ==
    LET after[n \in 0..Len(recent)] ==
            IF n = 0 THEN [kept |-> <<>>, tokens |-> SystemTokens, full |-> FALSE]
            ELSE TakeMessage(recent[Len(recent) - n + 1], after[n - 1])
    IN  after[Len(recent)].kept

SelectedConversation(messages) ==
    LET recent == Recent(messages)
    IN  IF Taken(recent) = <<>> /\ recent # <<>> THEN <<Last(recent)>> ELSE Taken(recent)

(***************************************************************************)
(* What is made of its reply: the agents named, in the order of the reply, *)
(* or an error.  A listener's agents are a sequence of filter chains.       *)
(***************************************************************************)
Chosen(ids) == [kind |-> "agents", ids |-> ids]
SelectionError == [kind |-> "error", ids |-> <<>>]
SelectionPanic == [kind |-> "panic", ids |-> <<>>]

IdsOf(agents) == {agents[i].id : i \in DOMAIN agents}

\* The routes a reply names; a name that is no agent's is left out.
ParseResponse(reply, agents) ==
    IF reply.form = "routes"
    THEN Chosen(Among(reply.routes, {i \in DOMAIN reply.routes : reply.routes[i] \in IdsOf(agents)}))
    ELSE SelectionError

\* What the call to the model comes to: content, an answer without any, or an
\* error: it is not sent, has another status, or is no chat completion.
PostAndExtractContent(reply) ==
    CASE reply.form \in {"routes", "prose"} -> "content"
      [] reply.form = "empty" -> "none"
      [] OTHER -> "error"

\* Without messages or agents the model is not asked.
DetermineOrchestration(messages, agents, reply) ==
    LET got == PostAndExtractContent(reply)
    IN CASE messages = <<>> \/ agents = <<>> \/ got = "none" -> Chosen(<<>>)
         [] messages # <<>> /\ agents # <<>> /\ got = "content" -> ParseResponse(reply, agents)
         [] OTHER -> SelectionError

\* The first agent marked default, or the first: there may be none to index.
GetDefaultAgent(agents) ==
    LET marked == {i \in DOMAIN agents : agents[i].default}
    IN CASE marked # {} -> Chosen(<<agents[CHOOSE i \in marked : \A j \in marked : i =< j].id>>)
         [] marked = {} /\ agents # <<>> -> Chosen(<<agents[1].id>>)
         [] OTHER -> SelectionPanic

\* The model is asked when the client names no agent of the listener and there
\* is a choice.
ModelDecides(agents, requested) == requested \notin IdsOf(agents) /\ Len(agents) # 1

SelectAgents(messages, agents, requested, reply) ==
    LET orchestrated == DetermineOrchestration(messages, agents, reply)
    IN CASE requested \in IdsOf(agents) -> Chosen(<<requested>>)
         [] requested \notin IdsOf(agents) /\ Len(agents) = 1 -> Chosen(<<agents[1].id>>)
         [] OTHER -> IF orchestrated = Chosen(<<>>) THEN GetDefaultAgent(agents) ELSE orchestrated
================================================================================
