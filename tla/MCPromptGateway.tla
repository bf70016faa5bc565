---------------------------- MODULE MCPromptGateway ----------------------------
(* The deployments, requests and replies under which TLC checks PromptGateway. *)
EXTENDS PromptGateway

Target(types, required, path) ==
    [default |-> FALSE, auto |-> TRUE, system |-> FALSE,
     types |-> types, required |-> required, path |-> path]

\* A function with a path, one whose path needs a list, one answered directly.
MCTargets ==
    [weather |-> Target([city |-> "str", days |-> "int"], {"city"}, {"city"}),
     report  |-> Target([hosts |-> "list"], {"hosts"}, {"hosts"}),
     reboot  |-> [Target([city |-> "str"], {}, {}) EXCEPT !.auto = FALSE, !.system = TRUE]]

Deployment(targets) ==
    [targets |-> targets, orchestrator |-> FALSE, endpoints |-> "one", system |-> FALSE]
Fallback(auto) == [Target(<<>>, {}, {}) EXCEPT !.default = TRUE, !.auto = auto]

MCConfigs ==
    [plain   |-> [Deployment(MCTargets) EXCEPT !.system = TRUE],
     default |-> Deployment([fallback |-> Fallback(TRUE)] @@ MCTargets),
     direct  |-> Deployment([fallback |-> Fallback(FALSE)] @@ MCTargets),
     agents  |-> [Deployment(MCTargets) EXCEPT !.orchestrator = TRUE],
     bare    |-> [Deployment(MCTargets) EXCEPT !.orchestrator = TRUE, !.endpoints = "none"],
     crowded |-> [Deployment(MCTargets) EXCEPT !.orchestrator = TRUE, !.endpoints = "other"],
     shared  |-> Deployment(MCTargets)]

Request(messages, streamed) ==
    [path |-> "chat", body |-> "json", messages |-> messages, stream |-> streamed, state |-> FALSE]
Ask == Request(<<"user">>, FALSE)

\* First and second turns, a tool's result last, or one without content, conversations that brightstaff
\* or the filter refuses, and what is no conversation.
EveryRequest ==
    {Request(m, b) : m \in {<<"user">>, <<"user", "arch", "tool", "assistant", "user">>,
                            <<"system", "user", "calls", "tool">>,
                            <<"user", "calls", "silent">>}, b \in BOOLEAN}
    \cup {Request(m, FALSE) : m \in {<<"user", "assistant">>, <<"user", "calls">>,
                                    <<"assistant">>, <<"user", "nameless">>}}
    \cup {[Ask EXCEPT !.path = "other"], [Ask EXCEPT !.path = "health"], [Ask EXCEPT !.state = TRUE],
          [Ask EXCEPT !.body = "malformed"], [Ask EXCEPT !.body = "empty"]}

Written(made) == [form |-> "json", response |-> FALSE, required |-> FALSE, calls |-> made]
One(name, values) == Written(<<Call(name, Arguments(values))>>)

\* Calls that are complete, converted, of a list, without a required parameter,
\* of an unknown function, of more than one, and without arguments.
EveryReply ==
    {One("weather", [city |-> "str"]), One("weather", [city |-> "int", days |-> "int"]),
     One("weather", [days |-> "int"]), One("weather", [city |-> "str", days |-> "str"]),
     One("report", [hosts |-> "liststr"]), One("report", [hosts |-> "list"]),
     One("reboot", <<>>), One("unknown", <<>>), One("reboot", [zone |-> "str"]),
     Written(<<Call("reboot", Arguments(<<>>)), Call("unknown", NoArguments)>>),
     Written(NoCalls), [Written(NoCalls) EXCEPT !.response = TRUE],
     [Written(NoCalls) EXCEPT !.required = TRUE], [Written(NoCalls) EXCEPT !.form = "prose"],
     [Written(NoCalls) EXCEPT !.form = "failed"],
     [One("weather", [city |-> "str"]) EXCEPT !.form = "unbalanced"]}

\* Few kinds of requests where only the endpoints differ, and in the last
\* deployment, which has two requests at once.
ByDeployment(every, few) ==
    [d \in DOMAIN MCConfigs |-> IF d \in {"bare", "crowded", "shared"} THEN few ELSE every]
MCRequests == ByDeployment(EveryRequest, {Ask, Request(<<"user">>, TRUE)})
MCReplies == ByDeployment(EveryReply, {One("weather", [city |-> "str"]), One("unknown", <<>>)})
MCMaxRequests == [d \in DOMAIN MCConfigs |-> IF d = "shared" THEN 3 ELSE 1]
================================================================================
