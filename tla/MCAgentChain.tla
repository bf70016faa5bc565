----------------------------- MODULE MCAgentChain -----------------------------
(* The agents, listeners and requests under which TLC checks AgentChain. *)
EXTENDS AgentChain

MCAgentTypes == [travel |-> "http", hotel |-> "http", helper |-> "rig",
                 guard |-> "http", rewrite |-> "mcp", context |-> "mcp"]

Agent(id, filters, default) == [id |-> id, filters |-> filters, default |-> default]
Serving(agents) == [serves |-> TRUE, agents |-> agents]

\* Agents that share a filter, one that is in process, one whose filter or that
\* itself is not configured; a single agent; none; and a listener of models.
MCListeners ==
    [many |-> Serving(<<Agent("travel", <<"rewrite", "context">>, FALSE),
                        Agent("hotel", <<"guard", "rewrite">>, TRUE),
                        Agent("helper", <<>>, FALSE),
                        Agent("broken", <<>>, FALSE)>>),
     one |-> Serving(<<Agent("travel", <<"guard", "lost">>, FALSE)>>),
     empty |-> Serving(<<>>),
     models |-> [serves |-> FALSE, agents |-> <<>>]]

Short == Message("user", "client", 8)
Long == Message("user", "client", 60)
MCEarlier == <<Message("user", "before", 12), Message("assistant", "before", 16)>>

Ask(api, listener, agent, messages) ==
    [kind |-> "chat", api |-> api, listener |-> listener, agent |-> agent, parses |-> TRUE,
     previous |-> FALSE, messages |-> messages]

Conversations ==
    {<<Short>>, <<Long, Message("assistant", "client", 12), Message("tool", "client", 8), Short>>,
     <<Short, Long>>, <<Short, Message("assistant", "client", 60)>>}

MCRequests ==
    {Ask("chat", "many", "none", m) : m \in Conversations}
    \cup {[Ask("responses", "many", "none", <<Short>>) EXCEPT !.previous = TRUE],
          Ask("chat", "many", "hotel", <<Short>>), Ask("responses", "one", "none", <<Short>>),
          Ask("chat", "empty", "none", <<Short>>), Ask("chat", "models", "none", <<Short>>),
          Ask("chat", "unknown", "none", <<Short>>), Ask("chat", "many", "none", <<>>),
          [Ask("chat", "many", "none", <<>>) EXCEPT !.parses = FALSE],
          [kind |-> "resume", agent |-> "travel"], [kind |-> "resume", agent |-> "none"]}

Routes(names) == [form |-> "routes", routes |-> names]
MCReplies ==
    {Routes(<<"travel", "hotel">>), Routes(<<"helper", "travel", "unknown">>),
     Routes(<<"hotel", "travel", "helper">>), Routes(<<"travel", "broken">>),
     Routes(<<"unknown">>)}
    \cup {[form |-> f, routes |-> <<>>] : f \in {"empty", "prose", "status"}}
===============================================================================
