-------------------------- MODULE AgentChainProofs --------------------------
(***************************************************************************)
(* What holds of AgentChain for any agents, filters, listeners and         *)
(* requests: tools are called in sessions of their own servers, what is    *)
(* stored is what was said and answered, every filter and agent gets what  *)
(* is due to it, and the model that selects agents is shown the newest of  *)
(* the conversation, within its budget.                                    *)
(***************************************************************************)
EXTENDS AgentChain, FiniteSetTheorems, WellFoundedInduction, TLAPS

\* The entry of a call that opened session s of server f.
Opened(c, f, s) == c.kind = "initialized" /\ c.to = f /\ c.session = s

\* Every session of the map was opened by a call of this request, no server was
\* asked for one twice, and nothing is left over from the request before.
SessionsInv ==
    /\ \E S : calls \in Seq(S)
    /\ \A f \in DOMAIN sessions : \E j \in DOMAIN calls : Opened(calls[j], f, sessions[f])
    /\ \A i \in DOMAIN calls :
          calls[i].kind = "initialize" => phase = "done" \/ calls[i].to \in DOMAIN sessions
    /\ phase = "idle" => calls = <<>> /\ sessions = <<>>
    /\ SessionsAreTheirOwn

-----------------------------------------------------------------------------
(* Sequences of calls of any kind *)

LEMMA MadeFields ==
    ASSUME NEW kind, NEW to, NEW session, NEW given, NEW gave
    PROVE  LET c == Made(kind, to, session, given, gave)
           IN  c.kind = kind /\ c.to = to /\ c.session = session
BY DEF Made

LEMMA Appended ==
    ASSUME NEW S, NEW s \in Seq(S), NEW e
    PROVE  /\ Append(s, e) \in Seq(S \cup {e})
           /\ DOMAIN s = 1 .. Len(s) /\ Len(s) \in Nat
           /\ DOMAIN Append(s, e) = 1 .. Len(s) + 1
           /\ \A i \in 1 .. Len(s) : Append(s, e)[i] = s[i]
           /\ Append(s, e)[Len(s) + 1] = e
<1>1. s \in Seq(S \cup {e}) /\ e \in S \cup {e}
  OBVIOUS
<1> QED
  BY <1>1

\* Two calls at the end are one after the other.
LEMMA AppendedTwice ==
    ASSUME NEW S, NEW s \in Seq(S), NEW d, NEW e
    PROVE  /\ s \o <<d, e>> \in Seq(S \cup {d, e})
           /\ DOMAIN s = 1 .. Len(s) /\ Len(s) \in Nat
           /\ DOMAIN (s \o <<d, e>>) = 1 .. Len(s) + 2
           /\ \A i \in 1 .. Len(s) : (s \o <<d, e>>)[i] = s[i]
           /\ (s \o <<d, e>>)[Len(s) + 1] = d
           /\ (s \o <<d, e>>)[Len(s) + 2] = e
<1> DEFINE T == S \cup {d, e}
<1>1. s \in Seq(T) /\ <<d, e>> \in Seq(T) /\ Len(<<d, e>>) = 2
      /\ <<d, e>>[1] = d /\ <<d, e>>[2] = e
  OBVIOUS
<1> HIDE DEF T
<1>2. s \o <<d, e>> \in Seq(T)
  BY <1>1
<1>3. Len(s \o <<d, e>>) = Len(s) + 2 /\ Len(s) \in Nat
  BY <1>1
<1> QED
  BY <1>1, <1>2, <1>3 DEF T

-----------------------------------------------------------------------------

\* A call that opens no session, and, if it is to a tool, is made in one that
\* was opened.
LEMMA CallKeepsSessions ==
    ASSUME SessionsInv, NEW e, calls' = Append(calls, e), UNCHANGED sessions,
           phase \notin {"idle", "done"}, phase' # "idle",
           e.kind # "initialize",
           e.kind = "tool" => \E f \in DOMAIN sessions : e.to = f /\ e.session = sessions[f]
    PROVE  SessionsInv'
<1>1. PICK S : calls \in Seq(S)
  BY DEF SessionsInv
<1> DEFINE n == Len(calls)
<1>2. /\ calls' \in Seq(S \cup {e}) /\ DOMAIN calls = 1 .. n /\ n \in Nat
      /\ DOMAIN calls' = 1 .. n + 1
      /\ \A i \in 1 .. n : calls'[i] = calls[i]
      /\ calls'[n + 1] = e
  BY <1>1, Appended
<1> HIDE DEF n
<1>3. \A f \in DOMAIN sessions : \E j \in 1 .. n : Opened(calls[j], f, sessions[f])
  BY <1>2 DEF SessionsInv
<1>4. \A f \in DOMAIN sessions : \E j \in DOMAIN calls' : Opened(calls'[j], f, sessions[f])
  BY <1>2, <1>3
<1>5. \A i \in DOMAIN calls' :
         calls'[i].kind = "initialize" => i \in 1 .. n /\ calls'[i].to \in DOMAIN sessions
  BY <1>2 DEF SessionsInv
<1>6. ASSUME NEW i \in DOMAIN calls', calls'[i].kind = "tool"
      PROVE  \E j \in 1 .. (i - 1) : Opened(calls'[j], calls'[i].to, calls'[i].session)
  <2>1. CASE i \in 1 .. n
    BY <1>2, <1>6, <2>1 DEF SessionsInv, SessionsAreTheirOwn, Opened
  <2>2. CASE i = n + 1
    BY <1>2, <1>3, <1>6, <2>2
  <2> QED
    BY <1>2, <2>1, <2>2
<1>7. ASSUME NEW i \in DOMAIN calls', NEW j \in DOMAIN calls',
             calls'[i].kind = "initialize", calls'[j].kind = "initialize",
             calls'[i].to = calls'[j].to
      PROVE  i = j
  BY <1>2, <1>5, <1>7 DEF SessionsInv, SessionsAreTheirOwn
<1> QED
  BY <1>2, <1>4, <1>5, <1>6, <1>7 DEF SessionsInv, SessionsAreTheirOwn, Opened

\* initialize is refused, and with it the request.
LEMMA RefusedKeepsSessions ==
    ASSUME SessionsInv, NEW f, f \notin DOMAIN sessions, phase # "done", phase' = "done",
           NEW e, calls' = Append(calls, e), e.kind = "initialize", e.to = f,
           UNCHANGED sessions
    PROVE  SessionsInv'
<1>1. PICK S : calls \in Seq(S)
  BY DEF SessionsInv
<1> DEFINE n == Len(calls)
<1>2. /\ calls' \in Seq(S \cup {e}) /\ DOMAIN calls = 1 .. n /\ n \in Nat
      /\ DOMAIN calls' = 1 .. n + 1
      /\ \A i \in 1 .. n : calls'[i] = calls[i]
      /\ calls'[n + 1] = e
  BY <1>1, Appended
<1> HIDE DEF n
<1>3. \A g \in DOMAIN sessions : \E j \in DOMAIN calls' : Opened(calls'[j], g, sessions[g])
  BY <1>2 DEF SessionsInv
<1>4. \A i \in 1 .. n : calls[i].kind = "initialize" => calls[i].to # f
  BY <1>2 DEF SessionsInv
<1>5. SessionsAreTheirOwn'
  BY <1>2, <1>4 DEF SessionsInv, SessionsAreTheirOwn
<1> QED
  BY <1>2, <1>3, <1>5 DEF SessionsInv

\* A server opens a session and is told so; the session is kept, unless that
\* could not be told.
LEMMA OpeningKeepsSessions ==
    ASSUME SessionsInv, NEW f, f \notin DOMAIN sessions, phase \notin {"idle", "done"},
           NEW d, NEW e, calls' = calls \o <<d, e>>,
           d.kind = "initialize", d.to = f, NEW s, Opened(e, f, s),
           \/ UNCHANGED sessions /\ phase' = "done"
           \/ /\ UNCHANGED phase
              /\ sessions' = [g \in DOMAIN sessions \cup {f} |->
                                 IF g = f THEN s ELSE sessions[g]]
    PROVE  SessionsInv'
<1>1. PICK S : calls \in Seq(S)
  BY DEF SessionsInv
<1> DEFINE n == Len(calls)
<1>2. /\ calls' \in Seq(S \cup {d, e}) /\ DOMAIN calls = 1 .. n /\ n \in Nat
      /\ DOMAIN calls' = 1 .. n + 2
      /\ \A i \in 1 .. n : calls'[i] = calls[i]
      /\ calls'[n + 1] = d /\ calls'[n + 2] = e
  BY <1>1, AppendedTwice
<1> HIDE DEF n
<1>6. /\ \A g \in DOMAIN sessions : sessions'[g] = sessions[g] /\ g \in DOMAIN sessions'
      /\ \A g \in DOMAIN sessions' : g \in DOMAIN sessions \/ (g = f /\ sessions'[g] = s)
      /\ phase' = "done" \/ f \in DOMAIN sessions'
  OBVIOUS
<1>7. \A g \in DOMAIN sessions' : \E j \in DOMAIN calls' : Opened(calls'[j], g, sessions'[g])
  <2> SUFFICES ASSUME NEW g \in DOMAIN sessions'
               PROVE  \E j \in DOMAIN calls' : Opened(calls'[j], g, sessions'[g])
    OBVIOUS
  <2>1. CASE g \in DOMAIN sessions
    BY <1>2, <1>6, <2>1 DEF SessionsInv
  <2>2. CASE g = f /\ sessions'[g] = s
    BY <1>2, <2>2
  <2> QED
    BY <1>6, <2>1, <2>2
<1>8. \A i \in 1 .. n : calls[i].kind = "initialize" => calls[i].to # f
  BY <1>2 DEF SessionsInv
<1>9. \A i \in DOMAIN calls' :
         calls'[i].kind = "initialize" => phase' = "done" \/ calls'[i].to \in DOMAIN sessions'
  BY <1>2, <1>6 DEF SessionsInv, Opened
<1>10. d.kind # "tool" /\ e.kind # "tool" /\ e.kind # "initialize"
  BY DEF Opened
<1>11. ASSUME NEW i \in DOMAIN calls', calls'[i].kind = "tool"
       PROVE  \E j \in 1 .. (i - 1) : Opened(calls'[j], calls'[i].to, calls'[i].session)
  <2>1. i \in 1 .. n /\ calls'[i] = calls[i]
    BY <1>2, <1>10, <1>11
  <2>2. PICK j \in 1 .. (i - 1) : Opened(calls[j], calls[i].to, calls[i].session)
    BY <1>2, <1>11, <2>1 DEF SessionsInv, SessionsAreTheirOwn, Opened
  <2>3. calls'[j] = calls[j]
    BY <1>2, <2>1
  <2> QED
    BY <2>1, <2>2, <2>3
<1>12. ASSUME NEW i \in DOMAIN calls', NEW j \in DOMAIN calls',
              calls'[i].kind = "initialize", calls'[j].kind = "initialize",
              calls'[i].to = calls'[j].to
       PROVE  i = j
  <2>1. i \in 1 .. n + 1 /\ j \in 1 .. n + 1
    BY <1>2, <1>10, <1>12
  <2>2. CASE i \in 1 .. n /\ j \in 1 .. n
    BY <1>2, <1>12, <2>2 DEF SessionsInv, SessionsAreTheirOwn
  <2>3. CASE i = n + 1 \/ j = n + 1
    BY <1>2, <1>8, <1>12, <2>1, <2>3
  <2> QED
    BY <1>2, <2>1, <2>2, <2>3
<1>13. SessionsAreTheirOwn'
  <2>1. \A i \in DOMAIN calls' : calls'[i].kind = "tool" =>
           \E j \in 1 .. (i - 1) :
              /\ calls'[j].kind = "initialized"
              /\ calls'[j].to = calls'[i].to /\ calls'[j].session = calls'[i].session
    BY <1>11 DEF Opened
  <2> QED
    BY <1>12, <2>1 DEF SessionsAreTheirOwn
<1>14. (\E T : calls' \in Seq(T)) /\ phase' # "idle"
  BY <1>2
<1> QED
  BY <1>7, <1>9, <1>13, <1>14 DEF SessionsInv, SessionsAreTheirOwn

\* A request that has made no call, or only one that is neither to a tool nor
\* for a session.
LEMMA FirstCallKeepsSessions ==
    ASSUME sessions' = <<>>, calls' = <<>> \/ phase' # "idle",
           \/ calls' = <<>>
           \/ \E c : calls' = <<c>> /\ c.kind \notin {"tool", "initialize"}
    PROVE  SessionsInv'
<1>1. CASE calls' = <<>>
  <2>1. calls' \in Seq({})
    BY <1>1
  <2> QED
    BY <1>1, <2>1 DEF SessionsInv, SessionsAreTheirOwn
<1>2. ASSUME NEW c, calls' = <<c>>, c.kind \notin {"tool", "initialize"}, phase' # "idle"
      PROVE  SessionsInv'
  <2>1. calls' \in Seq({c})
    BY <1>2
  <2>2. DOMAIN calls' = {1} /\ calls'[1] = c /\ DOMAIN sessions' = {}
    BY <1>2
  <2> QED
    BY <1>2, <2>1, <2>2 DEF SessionsInv, SessionsAreTheirOwn
<1> QED
  BY <1>1, <1>2

LEMMA NoCallKeepsSessions ==
    ASSUME SessionsInv, phase # "done", phase' # "idle", UNCHANGED <<calls, sessions>>
    PROVE  SessionsInv'
BY DEF SessionsInv, SessionsAreTheirOwn

LEMMA SelectionKeepsSessions ==
    ASSUME SessionsInv, NEW r, AgentChat(r) \/ AgentResume(r)
    PROVE  SessionsInv'
<1>1. calls = <<>> /\ sessions' = <<>>
  BY DEF SessionsInv, AgentChat, AgentResume
<1>2. CASE AgentChat(r)
  <2>1. CASE Refused /\ UNCHANGED calls
    BY <1>1, <2>1, FirstCallKeepsSessions
  <2>2. ASSUME NEW found, NEW reply, NEW messages,
               calls' = IF found = "missing" THEN <<>> ELSE Asked(r, messages, reply),
               \/ Refused \/ Answered("closed", "plano", "error")
               \/ \E ids : StartAgent(r, ids, 1, messages)
        PROVE  SessionsInv'
    <3>1. phase' # "idle"
      BY <2>2 DEF Refused, Refuse, Answered, StartAgent
    <3>2. calls' = <<>> \/ \E c : calls' = <<c>> /\ c.kind = "select"
      BY <2>2 DEF Asked, Made
    <3> QED
      BY <1>1, <3>1, <3>2, FirstCallKeepsSessions
  <2> QED
    BY <1>2, <2>1, <2>2 DEF AgentChat
<1>3. CASE AgentResume(r)
  <2>1. phase' # "idle"
    BY <1>3 DEF AgentResume, Refused, Refuse, Answered
  <2>2. calls' = calls \/ \E c : calls' = <<c>> /\ c.kind = "agent"
    BY <1>3 DEF AgentResume, Made
  <2> QED
    BY <1>1, <2>1, <2>2, FirstCallKeepsSessions
<1> QED
  BY <1>2, <1>3

LEMMA FilterKeepsSessions ==
    ASSUME SessionsInv,
           FilterMissing \/ ExecuteRawFilter \/ McpNotJson \/ GetNewSessionId \/ ExecuteMcpFilterRaw
    PROVE  SessionsInv'
<1>1. phase = "filter"
  BY DEF FilterMissing, ExecuteRawFilter, McpNotJson, GetNewSessionId, ExecuteMcpFilterRaw,
         McpFilter, Filters
<1>2. CASE FilterMissing \/ McpNotJson
  <2>1. phase' = "done" /\ UNCHANGED <<calls, sessions>>
    BY <1>2 DEF FilterMissing, McpNotJson, Refused, Refuse, Answered
  <2> QED
    BY <1>1, <2>1, NoCallKeepsSessions
<1>3. CASE ExecuteRawFilter
  <2>1. /\ UNCHANGED sessions
        /\ \E e : calls' = Append(calls, e) /\ e.kind = "filter"
    BY <1>3, MadeFields DEF ExecuteRawFilter, FilterEnds, Log
  <2>2. phase' # "idle"
    BY <1>1, <1>3 DEF ExecuteRawFilter, NextFilter, FilterEnds, Refused, Refuse, Answered
  <2> QED
    BY <1>1, <2>1, <2>2, CallKeepsSessions
<1>4. CASE ExecuteMcpFilterRaw
  <2>1. /\ UNCHANGED sessions /\ Filter \in DOMAIN sessions
        /\ \E e : /\ calls' = Append(calls, e) /\ e.kind = "tool"
                  /\ e.to = Filter /\ e.session = sessions[Filter]
    BY <1>4, MadeFields DEF ExecuteMcpFilterRaw, FilterEnds, Log
  <2>2. phase' # "idle"
    BY <1>1, <1>4 DEF ExecuteMcpFilterRaw, NextFilter, FilterEnds, Refused, Refuse, Answered
  <2> QED
    BY <1>1, <2>1, <2>2, CallKeepsSessions
<1>5. CASE GetNewSessionId
  <2>1. Filter \notin DOMAIN sessions
    BY <1>5 DEF GetNewSessionId
  <2>2. CASE /\ Log(Made("initialize", Filter, NoSession, body, NotJson)) /\ Refused
             /\ UNCHANGED sessions
    <3>1. /\ phase' = "done"
          /\ \E e : calls' = Append(calls, e) /\ e.kind = "initialize" /\ e.to = Filter
      BY <2>2 DEF Log, Made, Refused, Refuse, Answered
    <3> QED
      BY <1>1, <2>1, <2>2, <3>1, RefusedKeepsSessions
  <2>3. CASE /\ calls' = calls \o <<Made("initialize", Filter, issued + 1, body, body),
                                    Made("initialized", Filter, issued + 1, body, body)>>
             /\ \/ Refused /\ UNCHANGED sessions
                \/ /\ sessions' = [f \in DOMAIN sessions \cup {Filter} |->
                                      IF f = Filter THEN issued + 1 ELSE sessions[f]]
                   /\ UNCHANGED <<phase, answer>>
    <3> DEFINE d == Made("initialize", Filter, issued + 1, body, body)
               e == Made("initialized", Filter, issued + 1, body, body)
    <3>1. d.kind = "initialize" /\ d.to = Filter /\ Opened(e, Filter, issued + 1)
      BY DEF Made, Opened
    <3>2. \/ UNCHANGED sessions /\ phase' = "done"
          \/ /\ UNCHANGED phase
             /\ sessions' = [g \in DOMAIN sessions \cup {Filter} |->
                                IF g = Filter THEN issued + 1 ELSE sessions[g]]
      BY <2>3 DEF Refused, Refuse, Answered
    <3>3. calls' = calls \o <<d, e>>
      BY <2>3
    <3> HIDE DEF d, e
    <3> QED
      BY <1>1, <2>1, <3>1, <3>2, <3>3, OpeningKeepsSessions
  <2> QED
    BY <1>5, <2>2, <2>3 DEF GetNewSessionId
<1> QED
  BY <1>2, <1>3, <1>4, <1>5

LEMMA AgentKeepsSessions ==
    ASSUME SessionsInv, AgentNotFound \/ InvokeRigAgent \/ InvokeAgent
    PROVE  SessionsInv'
<1>1. phase = "invoke" /\ UNCHANGED sessions
  BY DEF AgentNotFound, InvokeRigAgent, InvokeAgent, Invokes
<1>2. CASE AgentNotFound
  <2>1. phase' = "done" /\ UNCHANGED calls
    BY <1>2 DEF AgentNotFound, Refused, Refuse, Answered
  <2> QED
    BY <1>1, <2>1, NoCallKeepsSessions
<1>3. CASE InvokeRigAgent \/ InvokeAgent
  <2>1. \E e : calls' = Append(calls, e) /\ e.kind = "agent"
    <3>1. \E given, gave : Log(Made("agent", AgentName, NoSession, given, gave))
      BY <1>3 DEF InvokeRigAgent, InvokeAgent
    <3> QED
      BY <3>1, MadeFields DEF Log
  <2>2. AddReply(ReplyBytes) => phase' # "idle"
    BY DEF AddReply, StartAgent, Refused, Refuse, Answered
  <2>3. phase' # "idle"
    BY <1>1, <1>3, <2>2 DEF InvokeRigAgent, InvokeAgent, CollectFullResponse,
        BuildResponsesApiResponse, CreateStreamingResponse, RigChatCompletionResponse,
        Refused, Refuse, Answered
  <2> QED
    BY <1>1, <2>1, <2>3, CallKeepsSessions
<1> QED
  BY <1>2, <1>3

LEMMA InitSessions == Init => SessionsInv
<1> SUFFICES ASSUME Init PROVE SessionsInv
  OBVIOUS
<1>1. calls \in Seq({})
  BY DEF Init
<1> QED
  BY <1>1 DEF Init, SessionsInv, SessionsAreTheirOwn

LEMMA StepKeepsSessions == SessionsInv /\ [Next]_vars => SessionsInv'
<1> SUFFICES ASSUME SessionsInv, [Next]_vars PROVE SessionsInv'
  OBVIOUS
<1>1. ASSUME NEW r \in Requests, AgentChat(r) \/ AgentResume(r)
      PROVE  SessionsInv'
  BY <1>1, SelectionKeepsSessions
<1>2. CASE Close
  BY <1>2, FirstCallKeepsSessions DEF Close
<1>3. CASE UNCHANGED vars
  BY <1>3 DEF vars, SessionsInv, SessionsAreTheirOwn
<1> QED
  BY <1>1, <1>2, <1>3, FilterKeepsSessions, AgentKeepsSessions DEF Next

\* A tool is called in a session its own server opened for this request, and no
\* server is asked for a second one, whatever filters the agents share.
THEOREM ToolSessionsAreTheirOwn == Spec => []SessionsAreTheirOwn
<1>1. SessionsInv => SessionsAreTheirOwn
  BY DEF SessionsInv
<1> QED
  BY <1>1, InitSessions, StepKeepsSessions, PTL DEF Spec

-----------------------------------------------------------------------------

\* Nothing is answered or stored before the request is done.
AnswerInv ==
    /\ phase # "done" => answer = NoAnswer /\ stored = NotStored
    /\ StoredIsAnswered

LEMMA InitAnswer == Init => AnswerInv
BY DEF Init, AnswerInv, StoredIsAnswered, NoAnswer

\* An answer that is not translated stores nothing.
LEMMA PlainAnswer ==
    ASSUME NEW status, NEW by, NEW what, what # "translated",
           Answered(status, by, what), stored = NotStored, UNCHANGED stored
    PROVE  AnswerInv'
BY DEF AnswerInv, StoredIsAnswered, Answered

\* A request that goes on has no answer yet.
LEMMA NoAnswerYet ==
    ASSUME answer = NoAnswer, stored = NotStored, UNCHANGED <<answer, stored>>
    PROVE  AnswerInv'
BY DEF AnswerInv, StoredIsAnswered, NoAnswer

LEMMA StepKeepsAnswer == AnswerInv /\ [Next]_vars => AnswerInv'
<1> SUFFICES ASSUME AnswerInv, [Next]_vars PROVE AnswerInv'
  OBVIOUS
<1>1. CASE Close
  BY <1>1 DEF Close, AnswerInv, StoredIsAnswered, NoAnswer
<1>2. CASE UNCHANGED vars
  BY <1>2 DEF vars, AnswerInv, StoredIsAnswered
<1>3. CASE phase # "done" /\ UNCHANGED stored /\ Refused
  BY <1>3, PlainAnswer DEF AnswerInv, Refused, Refuse
<1>4. CASE phase # "done" /\ UNCHANGED <<answer, stored>>
  BY <1>4, NoAnswerYet DEF AnswerInv
<1>5. ASSUME NEW r \in Requests, AgentChat(r)
      PROVE  AnswerInv'
  <2>1. phase # "done" /\ UNCHANGED stored
    BY <1>5 DEF AgentChat
  <2>2. Refused \/ Answered("closed", "plano", "error") \/ UNCHANGED answer
    BY <1>5 DEF AgentChat
  <2> QED
    BY <1>3, <1>4, <2>1, <2>2, PlainAnswer DEF AnswerInv
<1>6. ASSUME NEW r \in Requests, AgentResume(r)
      PROVE  AnswerInv'
  <2>1. phase # "done" /\ UNCHANGED stored
    BY <1>6 DEF AgentResume
  <2>2. \/ Refused \/ Refuse("500")
        \/ \E got \in AgentAnswers : Answered("200", r.agent, got)
    BY <1>6 DEF AgentResume
  <2>3. \A got \in AgentAnswers : got # "translated"
    BY DEF AgentAnswers
  <2> QED
    BY <1>3, <2>1, <2>2, <2>3, PlainAnswer DEF AnswerInv, Refuse
<1>7. CASE FilterMissing \/ ExecuteRawFilter \/ McpNotJson \/ GetNewSessionId
           \/ ExecuteMcpFilterRaw
  <2>1. phase # "done" /\ UNCHANGED stored
    BY <1>7 DEF FilterMissing, ExecuteRawFilter, McpNotJson, GetNewSessionId,
                ExecuteMcpFilterRaw, McpFilter, Filters
  <2>2. UNCHANGED answer \/ \E status : Refuse(status)
    BY <1>7 DEF FilterMissing, ExecuteRawFilter, McpNotJson, GetNewSessionId,
                ExecuteMcpFilterRaw, NextFilter, FilterEnds, Refused
  <2> QED
    BY <1>4, <2>1, <2>2, PlainAnswer DEF AnswerInv, Refuse
<1>8. CASE AgentNotFound
  BY <1>3, <1>8 DEF AgentNotFound, Invokes
<1>9. AddReply(ReplyBytes) => Refused \/ UNCHANGED answer
  BY DEF AddReply
<1>10. CASE InvokeRigAgent
  <2>1. phase # "done" /\ UNCHANGED stored
    BY <1>10 DEF InvokeRigAgent, Invokes
  <2>2. Refused \/ UNCHANGED answer \/ Answered("200", AgentName, "whole")
    BY <1>9, <1>10 DEF InvokeRigAgent, RigChatCompletionResponse
  <2> QED
    BY <1>3, <1>4, <2>1, <2>2, PlainAnswer DEF AnswerInv
<1>11. CASE InvokeAgent
  <2>1. phase # "done" /\ UNCHANGED <<turn, selected>>
    BY <1>11 DEF InvokeAgent, Invokes, handling
  <2>2. PICK got \in AgentAnswers :
           \/ CollectFullResponse(got) /\ UNCHANGED stored
           \/ LastAgent /\ BuildResponsesApiResponse(got)
           \/ CreateStreamingResponse(got) /\ UNCHANGED stored
    BY <1>11 DEF InvokeAgent
  <2>3. got # "translated"
    BY DEF AgentAnswers
  <2>4. CASE CollectFullResponse(got) /\ UNCHANGED stored
    BY <1>3, <1>4, <1>9, <2>1, <2>4 DEF CollectFullResponse
  <2>5. CASE CreateStreamingResponse(got) /\ UNCHANGED stored
    BY <1>3, <2>1, <2>3, <2>5, PlainAnswer DEF CreateStreamingResponse, AnswerInv
  <2>6. CASE /\ LastAgent /\ got \notin {"failed", "error"}
             /\ Answered("200", AgentName, Translated(got))
             /\ stored' = IF Storing /\ Translated(got) = "translated"
                          THEN [input |-> turn, by |-> AgentName] ELSE stored
    <3>1. AgentName = Last(selected)
      BY <2>6 DEF LastAgent, AgentName, Last
    <3>2. stored = NotStored
      BY <2>1 DEF AnswerInv
    <3>3. CASE Translated(got) = "translated" /\ Storing
      BY <2>1, <2>6, <3>1, <3>3 DEF AnswerInv, StoredIsAnswered, Answered
    <3>4. CASE Translated(got) = "translated" /\ ~Storing
      BY <2>1, <2>6, <3>2, <3>4 DEF AnswerInv, StoredIsAnswered, Answered, Storing
    <3>5. CASE Translated(got) # "translated"
      BY <2>6, <3>2, <3>5, PlainAnswer
    <3> QED
      BY <3>3, <3>4, <3>5
  <2> QED
    BY <2>2, <2>4, <2>5, <2>6 DEF BuildResponsesApiResponse
<1> QED
  BY <1>1, <1>2, <1>5, <1>6, <1>7, <1>8, <1>10, <1>11 DEF Next

\* What is stored for the next turn is the client's side of the conversation,
\* and the reply the client was given whole, of the last agent selected.
THEOREM StoredWhatWasAnswered == Spec => []StoredIsAnswered
<1>1. AnswerInv => StoredIsAnswered
  BY DEF AnswerInv
<1> QED
  BY <1>1, InitAnswer, StepKeepsAnswer, PTL DEF Spec

\* Induction over the natural numbers: a set of them that is not empty has a
\* least element.
LEMMA LeastNumber ==
    ASSUME NEW T \in SUBSET Nat, T # {}
    PROVE  \E n \in T : \A m \in T : n <= m
<1> DEFINE Below(n) == {m \in Nat : m < n}
           B == {Below(n) : n \in T}
<1>1. ASSUME NEW n \in Nat PROVE IsFiniteSet(Below(n))
  <2>1. Below(n) \in SUBSET Nat /\ \A s \in Below(n) : s <= n
    OBVIOUS
  <2>2. QED BY <2>1, FS_BoundedSetOfNaturals
<1>2. B \subseteq FiniteSubsetsOf(Nat) /\ B # {}
  BY <1>1 DEF FiniteSubsetsOf
<1>3. PICK b \in B : \A y \in B : ~(<<y, b>> \in StrictSubsetOrdering(Nat))
  BY <1>2, FS_StrictSubsetOrderingWellFounded, WFMin
<1>4. PICK n \in T : b = Below(n)
  BY <1>3
<1>5. ASSUME NEW m \in T, m < n PROVE FALSE
  <2>1. Below(m) \in B
    OBVIOUS
  <2>2. Below(m) \subseteq Below(n) /\ Below(m) # Below(n)
    BY <1>5
  <2>3. <<Below(m), b>> \in StrictSubsetOrdering(Nat)
    BY <2>2, <1>4 DEF StrictSubsetOrdering
  <2>4. QED BY <2>1, <2>3, <1>3
<1>6. QED BY <1>5

\* The same as a step from n to n + 1, up to a bound: for the set of the
\* numbers that have a property.
LEMMA UpTo ==
    ASSUME NEW N \in Nat, NEW S, 0 \in S, \A n \in 0..(N - 1) : n \in S => n + 1 \in S
    PROVE  0..N \subseteq S
<1> SUFFICES ASSUME {n \in 0..N : n \notin S} # {} PROVE FALSE
  OBVIOUS
<1> DEFINE T == {k \in 0..N : k \notin S}
<1>1. PICK n \in T : \A m \in T : n <= m
  <2>1. T \in SUBSET Nat /\ T # {}
    OBVIOUS
  <2>2. QED BY <2>1, LeastNumber
<1>2. n # 0 /\ n - 1 \in 0..(N - 1)
  BY <1>1
<1>3. n - 1 \in S
  BY <1>1, <1>2
<1>4. QED BY <1>1, <1>2, <1>3

-----------------------------------------------------------------------------
\* The members at some positions are taken one by one.
LEMMA AmongIs ==
    ASSUME NEW list, Len(list) \in Nat, NEW positions
    PROVE  \E upTo :
              /\ upTo[0] = <<>> /\ Among(list, positions) = upTo[Len(list)]
              /\ \A n \in 1..Len(list) :
                    upTo[n] = IF n \in positions THEN Append(upTo[n - 1], list[n]) ELSE upTo[n - 1]
<1> DEFINE N == Len(list)
           Step(b, n) == IF n \in positions THEN Append(b, list[n]) ELSE b
           F(g, n) == [k \in 0..n |-> IF k = 0 THEN <<>> ELSE Step(g[k - 1], k)]
           IsAfter(g, n) == g = F(g, n)
           S == {n \in 0..N : \E g : IsAfter(g, n)}
<1>0. N \in Nat
  OBVIOUS
<1>a. Among(list, positions) = (CHOOSE g : g = F(g, N))[N]
  BY DEF Among
<1> HIDE DEF N, Step
<1>1. 0 \in S
  <2>1. IsAfter([k \in 0..0 |-> <<>>], 0)
    OBVIOUS
  <2>2. \E g : IsAfter(g, 0)
    BY <2>1
  <2>3. QED BY <2>2, <1>0
<1>2. ASSUME NEW n \in 0..(N - 1), n \in S PROVE n + 1 \in S
  <2>1. PICK g : IsAfter(g, n)
    BY <1>2
  <2> DEFINE h == [k \in 0..(n + 1) |-> IF k = n + 1 THEN Step(g[n], n + 1) ELSE g[k]]
  <2>2. ASSUME NEW k \in 0..(n + 1)
        PROVE  h[k] = IF k = 0 THEN <<>> ELSE Step(h[k - 1], k)
    <3>1. CASE k = n + 1
      BY <3>1, <1>0
    <3>2. CASE k \in 0..n
      BY <3>2, <2>1, <1>0
    <3>3. QED BY <3>1, <3>2, <1>0
  <2>3. IsAfter(h, n + 1)
    BY <2>2
  <2>4. \E f : IsAfter(f, n + 1)
    BY <2>3
  <2>5. QED BY <2>4, <1>0
<1>3. N \in S
  <2> HIDE DEF S
  <2>1. 0..N \subseteq S
    BY <1>0, <1>1, <1>2, UpTo
  <2>2. QED BY <2>1, <1>0
<1> DEFINE upTo == CHOOSE g : g = F(g, N)
<1>4. upTo = F(upTo, N)
  <2>1. \E g : g = F(g, N)
    BY <1>3
  <2> HIDE DEF F
  <2>2. QED BY <2>1
<1>5. upTo[0] = <<>> /\ \A n \in 1..N : upTo[n] = Step(upTo[n - 1], n)
  <2> HIDE DEF upTo
  <2>1. QED BY <1>0, <1>4
<1>6. Among(list, positions) = upTo[N]
  BY <1>a
<1> HIDE DEF upTo
<1>7. QED BY <1>5, <1>6 DEF N, Step

LEMMA AppendIn ==
    ASSUME NEW T, NEW s \in Seq(T), NEW e \in T
    PROVE  Append(s, e) \in Seq(T)
OBVIOUS

\* They are a list of what is at those positions.
LEMMA AmongIn ==
    ASSUME NEW T, NEW list, Len(list) \in Nat, NEW positions,
           \A i \in 1..Len(list) : i \in positions => list[i] \in T
    PROVE  Among(list, positions) \in Seq(T)
<1>1. PICK upTo :
        /\ upTo[0] = <<>> /\ Among(list, positions) = upTo[Len(list)]
        /\ \A n \in 1..Len(list) :
              upTo[n] = IF n \in positions THEN Append(upTo[n - 1], list[n]) ELSE upTo[n - 1]
  BY AmongIs
<1> DEFINE N == Len(list)
           S == {n \in 0..N : upTo[n] \in Seq(T)}
<1>2. 0 \in S
  <2>1. <<>> \in Seq(T) /\ 0 \in 0..N
    OBVIOUS
  <2>2. QED BY <1>1, <2>1
<1>3. ASSUME NEW n \in 0..(N - 1), n \in S PROVE n + 1 \in S
  <2>1. n + 1 \in 1..N /\ upTo[n] \in Seq(T)
    BY <1>3
  <2>2. upTo[n + 1] = IF n + 1 \in positions THEN Append(upTo[n], list[n + 1]) ELSE upTo[n]
    BY <1>1, <2>1, n + 1 - 1 = n
  <2>3. n + 1 \in positions => list[n + 1] \in T
    BY <2>1
  <2>4. upTo[n + 1] \in Seq(T)
    <3>1. CASE n + 1 \in positions
      BY <2>1, <2>2, <2>3, <3>1, AppendIn
    <3>2. CASE n + 1 \notin positions
      BY <2>1, <2>2, <3>2
    <3>3. QED BY <3>1, <3>2
  <2>5. QED BY <1>3, <2>4
<1>4. N \in S
  <2> HIDE DEF S
  <2>1. 0..N \subseteq S
    BY <1>2, <1>3, UpTo
  <2>2. QED BY <2>1
<1>5. QED BY <1>1, <1>4

-----------------------------------------------------------------------------
\* A listener's agents.
AgentsOf == Seq([id : STRING, filters : Seq(STRING), default : BOOLEAN])

\* Whatever the model replies, the agents selected are the listener's, and
\* there is one at least.
LEMMA SelectionIs ==
    ASSUME NEW messages, NEW agents \in AgentsOf, NEW requested,
           NEW reply, reply.routes \in Seq(STRING),
           SelectAgents(messages, agents, requested, reply).kind \notin {"error", "panic"}
    PROVE  LET ids == SelectAgents(messages, agents, requested, reply).ids
           IN  ids \in Seq(IdsOf(agents)) /\ ids # <<>>
<1> DEFINE selection == SelectAgents(messages, agents, requested, reply)
           Fits(c) == c.ids \in Seq(IdsOf(agents)) /\ c.ids # <<>>
<1>1. ASSUME NEW id \in IdsOf(agents) PROVE Fits(Chosen(<<id>>))
  BY <1>1 DEF Chosen
<1>2. \A i \in DOMAIN agents : agents[i].id \in IdsOf(agents)
  BY DEF IdsOf
<1>3. agents # <<>> => agents[1].id \in IdsOf(agents)
  BY <1>2 DEF AgentsOf
<1>4. CASE requested \in IdsOf(agents)
  BY <1>1, <1>4 DEF SelectAgents
<1>5. CASE requested \notin IdsOf(agents) /\ Len(agents) = 1
  <2>1. agents # <<>>
    BY <1>5 DEF AgentsOf
  <2>2. selection = Chosen(<<agents[1].id>>)
    BY <1>5 DEF SelectAgents
  <2>3. QED BY <1>1, <1>3, <2>1, <2>2
<1>6. GetDefaultAgent(agents).kind = "panic" \/ Fits(GetDefaultAgent(agents))
  <2> DEFINE marked == {i \in DOMAIN agents : agents[i].default}
  <2>1. CASE marked # {}
    <3> DEFINE k == CHOOSE i \in marked : \A j \in marked : i =< j
    <3>1. marked \in SUBSET Nat
      BY DEF AgentsOf
    <3>2. \E i \in marked : \A j \in marked : i =< j
      BY <2>1, <3>1, LeastNumber
    <3>3. k \in DOMAIN agents
      BY <3>2
    <3>4. GetDefaultAgent(agents) = Chosen(<<agents[k].id>>)
      BY <2>1 DEF GetDefaultAgent
    <3> HIDE DEF k
    <3>5. QED BY <1>1, <1>2, <3>3, <3>4
  <2>2. CASE marked = {} /\ agents # <<>>
    BY <1>1, <1>3, <2>2 DEF GetDefaultAgent
  <2>3. CASE marked = {} /\ agents = <<>>
    BY <2>3 DEF GetDefaultAgent, SelectionPanic
  <2>4. QED BY <2>1, <2>2, <2>3
<1>7. LET got == DetermineOrchestration(messages, agents, reply)
      IN  got.kind = "error" \/ got = Chosen(<<>>) \/ Fits(got)
  <2> DEFINE mine == {i \in DOMAIN reply.routes : reply.routes[i] \in IdsOf(agents)}
             names == Among(reply.routes, mine)
  <2>1. names \in Seq(IdsOf(agents))
    <3>1. Len(reply.routes) \in Nat /\ \A i \in 1..Len(reply.routes) : i \in mine => reply.routes[i] \in IdsOf(agents)
      OBVIOUS
    <3> HIDE DEF mine
    <3>2. QED BY <3>1, AmongIn
  <2>2. DetermineOrchestration(messages, agents, reply) \in {Chosen(<<>>), SelectionError, Chosen(names)}
    BY DEF DetermineOrchestration, ParseResponse, PostAndExtractContent
  <2> HIDE DEF names
  <2>3. QED BY <2>1, <2>2 DEF SelectionError, Chosen
<1>8. CASE requested \notin IdsOf(agents) /\ Len(agents) # 1
  <2>1. selection = IF DetermineOrchestration(messages, agents, reply) = Chosen(<<>>)
                    THEN GetDefaultAgent(agents) ELSE DetermineOrchestration(messages, agents, reply)
    BY <1>8 DEF SelectAgents
  <2>2. QED BY <1>6, <1>7, <2>1
<1>9. QED BY <1>4, <1>5, <1>8

\* What a list has at its positions.
LEMMA SeqAt ==
    ASSUME NEW T, NEW s \in Seq(T), NEW i \in DOMAIN s
    PROVE  s[i] \in T
OBVIOUS

\* The filters of an agent of the listener's are a list of names.
LEMMA FiltersAre ==
    ASSUME NEW l, Listeners[l].agents \in AgentsOf, NEW id \in IdsOf(Listeners[l].agents)
    PROVE  FiltersOf(l, id) \in Seq(STRING)
<1> DEFINE agents == Listeners[l].agents
           named == {i \in DOMAIN agents : agents[i].id = id}
           Is(i) == agents[i].id = id /\ \A j \in 1..(i - 1) : agents[j].id # id
<1>1. named \in SUBSET Nat /\ named # {} /\ DOMAIN agents = 1..Len(agents)
  BY DEF AgentsOf, IdsOf
<1>2. PICK k \in named : \A j \in named : k =< j
  BY <1>1, LeastNumber
<1>3. Is(k) /\ k \in DOMAIN agents
  BY <1>1, <1>2
<1> DEFINE first == CHOOSE i \in DOMAIN agents : Is(i)
<1>4. first \in DOMAIN agents
  BY <1>3
<1>5. FiltersOf(l, id) = agents[first].filters
  BY DEF FiltersOf
<1> HIDE DEF first
<1>6. agents[first] \in [id : STRING, filters : Seq(STRING), default : BOOLEAN]
  <2> HIDE DEF agents
  <2>1. agents \in Seq([id : STRING, filters : Seq(STRING), default : BOOLEAN])
    BY DEF agents, AgentsOf
  <2>2. QED BY <1>4, <2>1, SeqAt
<1>7. agents[first].filters \in Seq(STRING)
  <2> HIDE DEF agents
  <2>1. QED BY <1>6
<1>8. QED BY <1>5, <1>7

-----------------------------------------------------------------------------
\* The same as HistoryAfter, Due and EachCallGetsItsInput of a list of calls, a
\* turn and the agents selected for it.
HistoryOf(t, ids, n) ==
    IF n = 0 THEN t
    ELSE Front(t) \o [j \in 1..n |-> Message("assistant", ids[j], ReplyBytes)] \o <<Last(t)>>

Moves(was, c, t, ids) ==
    CASE c.kind \in {"filter", "tool"} -> [was EXCEPT !.step = @ + 1, !.input = c.gave]
      [] c.kind = "agent" ->
            [agent |-> was.agent + 1, step |-> 1, input |-> Chat(HistoryOf(t, ids, was.agent))]
      [] OTHER -> was

DueOf(list, t, ids) ==
    LET due[n \in 0..Len(list)] ==
            IF n = 0 THEN [agent |-> 1, step |-> 1, input |-> Chat(HistoryOf(t, ids, 0))]
            ELSE Moves(due[n - 1], list[n], t, ids)
    IN  due

PlannedOf(l, id) == Append(FiltersOf(l, id), id)

\* A call is the one that is due, and gets what it is to be given.
Fits(c, due, ids, l) ==
    /\ due.agent =< Len(ids)
    /\ due.step =< Len(PlannedOf(l, ids[due.agent]))
    /\ c.to = PlannedOf(l, ids[due.agent])[due.step]
    /\ c.kind = "agent" <=> due.step = Len(PlannedOf(l, ids[due.agent]))
    /\ IF c.kind = "agent" /\ AgentTypes[c.to] = "rig"
       THEN c.given = Chat(LastUserText(due.input.messages))
       ELSE c.given = due.input

ChainKinds == {"filter", "tool", "agent"}

AllFit(list, t, ids, l) ==
    \A i \in DOMAIN list :
        list[i].kind \in ChainKinds => Fits(list[i], DueOf(list, t, ids)[i - 1], ids, l)

LEMMA DueNow == Due = DueOf(calls, turn, selected)
BY DEF Due, DueOf, Moves, HistoryOf, HistoryAfter

LEMMA DueThen == Due' = DueOf(calls', turn', selected')
BY DEF Due, DueOf, Moves, HistoryOf, HistoryAfter

LEMMA FitNow == EachCallGetsItsInput <=> (req.kind = "chat" => AllFit(calls, turn, selected, req.listener))
BY DueNow DEF EachCallGetsItsInput, AllFit, Fits, ChainKinds, Planned, PlannedOf, FilterChain

LEMMA FitThen ==
    EachCallGetsItsInput' <=> (req'.kind = "chat" => AllFit(calls', turn', selected', req'.listener))
BY DueThen DEF EachCallGetsItsInput, AllFit, Fits, ChainKinds, Planned, PlannedOf, FilterChain

\* What is due follows call by call.
AtFirst(t, ids) == [agent |-> 1, step |-> 1, input |-> Chat(HistoryOf(t, ids, 0))]

LEMMA DueIs ==
    ASSUME NEW list, Len(list) \in Nat, NEW t, NEW ids
    PROVE  /\ DueOf(list, t, ids)[0] = AtFirst(t, ids)
           /\ \A n \in 1..Len(list) :
                 DueOf(list, t, ids)[n] = Moves(DueOf(list, t, ids)[n - 1], list[n], t, ids)
<1> DEFINE N == Len(list)
           first == AtFirst(t, ids)
           Step(b, n) == Moves(b, list[n], t, ids)
           F(g, n) == [k \in 0..n |-> IF k = 0 THEN first ELSE Step(g[k - 1], k)]
           IsAfter(g, n) == g = F(g, n)
           S == {n \in 0..N : \E g : IsAfter(g, n)}
<1>0. N \in Nat
  OBVIOUS
<1>a. DueOf(list, t, ids) = CHOOSE g : g = F(g, N)
  BY DEF DueOf, AtFirst
<1> HIDE DEF N, Step, first
<1>1. 0 \in S
  <2>1. IsAfter([k \in 0..0 |-> first], 0)
    OBVIOUS
  <2>2. \E g : IsAfter(g, 0)
    BY <2>1
  <2>3. QED BY <2>2, <1>0
<1>2. ASSUME NEW n \in 0..(N - 1), n \in S PROVE n + 1 \in S
  <2>1. PICK g : IsAfter(g, n)
    BY <1>2
  <2> DEFINE h == [k \in 0..(n + 1) |-> IF k = n + 1 THEN Step(g[n], n + 1) ELSE g[k]]
  <2>2. ASSUME NEW k \in 0..(n + 1)
        PROVE  h[k] = IF k = 0 THEN first ELSE Step(h[k - 1], k)
    <3>1. CASE k = n + 1
      BY <3>1, <1>0
    <3>2. CASE k \in 0..n
      BY <3>2, <2>1, <1>0
    <3>3. QED BY <3>1, <3>2, <1>0
  <2>3. IsAfter(h, n + 1)
    BY <2>2
  <2>4. \E f : IsAfter(f, n + 1)
    BY <2>3
  <2>5. QED BY <2>4, <1>0
<1>3. N \in S
  <2> HIDE DEF S
  <2>1. 0..N \subseteq S
    BY <1>0, <1>1, <1>2, UpTo
  <2>2. QED BY <2>1, <1>0
<1> DEFINE due == CHOOSE g : g = F(g, N)
<1>4. due = F(due, N)
  <2>1. \E g : g = F(g, N)
    BY <1>3
  <2> HIDE DEF F
  <2>2. QED BY <2>1
<1>5. due[0] = first /\ \A n \in 1..N : due[n] = Step(due[n - 1], n)
  <2> HIDE DEF due
  <2>1. QED BY <1>0, <1>4
<1>6. DueOf(list, t, ids) = due
  BY <1>a
<1> HIDE DEF due
<1>7. QED BY <1>5, <1>6 DEF N, Step, first

\* One more call leaves what was due before, and moves on by it.
LEMMA DueMore ==
    ASSUME NEW S, NEW list \in Seq(S), NEW e, NEW t, NEW ids
    PROVE  /\ \A n \in 0..Len(list) : DueOf(Append(list, e), t, ids)[n] = DueOf(list, t, ids)[n]
           /\ DueOf(Append(list, e), t, ids)[Len(list) + 1] =
                 Moves(DueOf(list, t, ids)[Len(list)], e, t, ids)
<1> DEFINE longer == Append(list, e)
           N == Len(list)
           d == DueOf(list, t, ids)
           d2 == DueOf(longer, t, ids)
           Same == {n \in 0..N : d2[n] = d[n]}
<1>1. /\ longer \in Seq(S \cup {e}) /\ N \in Nat /\ Len(longer) = N + 1
      /\ \A n \in 1..N : longer[n] = list[n]
      /\ longer[N + 1] = e
  BY Appended
<1>2. d[0] = AtFirst(t, ids) /\ \A n \in 1..N : d[n] = Moves(d[n - 1], list[n], t, ids)
  BY <1>1, DueIs
<1> HIDE DEF longer
<1>3. d2[0] = AtFirst(t, ids) /\ \A n \in 1..(N + 1) : d2[n] = Moves(d2[n - 1], longer[n], t, ids)
  BY <1>1, DueIs
<1> HIDE DEF N, d, d2
<1>4. 0 \in Same
  BY <1>1, <1>2, <1>3
<1>5. ASSUME NEW n \in 0..(N - 1), n \in Same PROVE n + 1 \in Same
  <2>1. n + 1 \in 1..N /\ n + 1 \in 1..(N + 1) /\ (n + 1) - 1 = n
    BY <1>1
  <2>2. d2[n + 1] = Moves(d2[n], longer[n + 1], t, ids) /\ d[n + 1] = Moves(d[n], list[n + 1], t, ids)
    BY <1>2, <1>3, <2>1
  <2>3. QED BY <1>1, <1>5, <2>1, <2>2
<1>6. 0..N \subseteq Same
  <2> HIDE DEF Same
  <2>1. QED BY <1>1, <1>4, <1>5, UpTo
<1>7. d2[N + 1] = Moves(d[N], e, t, ids)
  <2>1. N \in Same /\ N + 1 \in 1..(N + 1) /\ (N + 1) - 1 = N
    BY <1>1, <1>6
  <2>2. QED BY <1>1, <1>3, <2>1
<1>8. QED BY <1>6, <1>7 DEF N, d, d2, longer

\* Calls that fit stay so, and one more that fits is one of them.
LEMMA FitMore ==
    ASSUME NEW S, NEW list \in Seq(S), NEW e, NEW t, NEW ids, NEW l,
           AllFit(list, t, ids, l),
           e.kind \in ChainKinds => Fits(e, DueOf(list, t, ids)[Len(list)], ids, l)
    PROVE  /\ AllFit(Append(list, e), t, ids, l)
           /\ DueOf(Append(list, e), t, ids)[Len(Append(list, e))] =
                 Moves(DueOf(list, t, ids)[Len(list)], e, t, ids)
<1> DEFINE longer == Append(list, e)
<1>1. /\ longer \in Seq(S \cup {e}) /\ Len(list) \in Nat /\ Len(longer) = Len(list) + 1
      /\ DOMAIN list = 1..Len(list) /\ DOMAIN longer = 1..(Len(list) + 1)
      /\ \A n \in 1..Len(list) : longer[n] = list[n]
      /\ longer[Len(list) + 1] = e
  BY Appended
<1>2. /\ \A n \in 0..Len(list) : DueOf(longer, t, ids)[n] = DueOf(list, t, ids)[n]
      /\ DueOf(longer, t, ids)[Len(list) + 1] = Moves(DueOf(list, t, ids)[Len(list)], e, t, ids)
  BY DueMore
<1> HIDE DEF longer
<1>3. ASSUME NEW i \in DOMAIN longer, longer[i].kind \in ChainKinds
      PROVE  Fits(longer[i], DueOf(longer, t, ids)[i - 1], ids, l)
  <2>1. CASE i \in 1..Len(list)
    <3>1. i - 1 \in 0..Len(list)
      BY <1>1, <2>1
    <3>2. DueOf(longer, t, ids)[i - 1] = DueOf(list, t, ids)[i - 1] /\ longer[i] = list[i]
      BY <1>1, <1>2, <2>1, <3>1
    <3>3. Fits(list[i], DueOf(list, t, ids)[i - 1], ids, l)
      BY <1>1, <1>3, <2>1, <3>2 DEF AllFit
    <3>4. QED BY <3>2, <3>3
  <2>2. CASE i = Len(list) + 1
    <3>1. i - 1 = Len(list) /\ Len(list) \in 0..Len(list)
      BY <1>1, <2>2
    <3>2. QED BY <1>1, <1>2, <1>3, <2>2, <3>1
  <2>3. QED BY <1>1, <2>1, <2>2
<1>4. QED BY <1>1, <1>2, <1>3 DEF AllFit, longer

-----------------------------------------------------------------------------
\* A list and its last member.
LEMMA FrontLast ==
    ASSUME NEW S, NEW a \in Seq(S), NEW z \in S
    PROVE  /\ a \o <<z>> \in Seq(S) /\ a \o <<z>> # <<>>
           /\ Front(a \o <<z>>) = a /\ Last(a \o <<z>>) = z
<1> DEFINE s == a \o <<z>>
<1>1. /\ s \in Seq(S) /\ Len(s) = Len(a) + 1 /\ Len(a) \in Nat
      /\ s[Len(a) + 1] = z /\ \A i \in 1..Len(a) : s[i] = a[i]
  OBVIOUS
<1> HIDE DEF s
<1>2. Last(s) = z /\ s # <<>>
  BY <1>1 DEF Last
<1>3. Front(s) = a
  <2>1. Front(s) = SubSeq(s, 1, Len(a))
    BY <1>1 DEF Front
  <2>2. SubSeq(s, 1, Len(a)) \in Seq(S) /\ Len(SubSeq(s, 1, Len(a))) = Len(a)
        /\ \A i \in 1..Len(a) : SubSeq(s, 1, Len(a))[i] = a[i]
    BY <1>1
  <2>3. QED BY <2>1, <2>2
<1>4. QED BY <1>1, <1>2, <1>3 DEF s

LEMMA LastFront ==
    ASSUME NEW S, NEW t \in Seq(S), t # <<>>
    PROVE  Front(t) \in Seq(S) /\ Last(t) \in S /\ t = Front(t) \o <<Last(t)>>
<1>1. Front(t) \in Seq(S) /\ Len(Front(t)) = Len(t) - 1 /\ Len(t) \in Nat \ {0}
      /\ \A i \in 1..(Len(t) - 1) : Front(t)[i] = t[i]
  <2>1. Len(t) \in Nat \ {0} /\ Front(t) = SubSeq(t, 1, Len(t) - 1)
    BY DEF Front
  <2>2. SubSeq(t, 1, Len(t) - 1) \in Seq(S) /\ Len(SubSeq(t, 1, Len(t) - 1)) = Len(t) - 1
        /\ \A i \in 1..(Len(t) - 1) : SubSeq(t, 1, Len(t) - 1)[i] = t[i]
    <3> DEFINE k == Len(t) - 1
    <3>1. k \in Nat /\ k < Len(t) /\ \A i \in 1..k : t[i] \in S
      BY <2>1
    <3> HIDE DEF k
    <3>2. SubSeq(t, 1, k) = [i \in 1..k |-> t[i]]
      BY <3>1
    <3>3. [i \in 1..k |-> t[i]] \in Seq(S) /\ Len([i \in 1..k |-> t[i]]) = k
      BY <3>1
    <3>4. QED BY <3>2, <3>3 DEF k
  <2>3. QED BY <2>1, <2>2
<1>2. Last(t) = t[Len(t)] /\ Last(t) \in S
  BY DEF Last
<1> HIDE DEF Front, Last
<1>3. QED BY <1>1, <1>2

\* The replies of n agents and that of one more.
Replied(ids, n) == [j \in 1..n |-> Message("assistant", ids[j], ReplyBytes)]

LEMMA RepliedMore ==
    ASSUME NEW S, NEW ids, NEW n \in Nat, \A j \in 1..(n + 1) : Message("assistant", ids[j], ReplyBytes) \in S
    PROVE  /\ Replied(ids, n) \in Seq(S) /\ Replied(ids, n + 1) \in Seq(S)
           /\ Replied(ids, n + 1) = Append(Replied(ids, n), Message("assistant", ids[n + 1], ReplyBytes))
<1> DEFINE m(j) == Message("assistant", ids[j], ReplyBytes)
           r == [j \in 1..n |-> m(j)]
           r2 == [j \in 1..(n + 1) |-> m(j)]
<1> HIDE DEF m
<1>1. \A j \in 1..(n + 1) : m(j) \in S
  BY DEF m
<1>2. r \in Seq(S) /\ r2 \in Seq(S) /\ Len(r) = n /\ Len(r2) = n + 1
  BY <1>1
<1>3. Append(r, m(n + 1)) \in Seq(S) /\ Len(Append(r, m(n + 1))) = n + 1
      /\ \A i \in 1..(n + 1) : Append(r, m(n + 1))[i] = m(i)
  BY <1>1, <1>2
<1>4. r2 = Append(r, m(n + 1))
  BY <1>2, <1>3
<1>5. QED BY <1>2, <1>4 DEF Replied, m

\* An agent's reply is put before the last message of what was said before it.
LEMMA HistoryMore ==
    ASSUME NEW t \in Seq(Messages), t # <<>>, NEW ids, NEW n \in Nat
    PROVE  LET h == HistoryOf(t, ids, n)
           IN  /\ h # <<>>
               /\ Front(h) \o <<Message("assistant", ids[n + 1], ReplyBytes), Last(h)>> = HistoryOf(t, ids, n + 1)
<1> DEFINE m == Message("assistant", ids[n + 1], ReplyBytes)
           S == Messages \cup {Message("assistant", ids[j], ReplyBytes) : j \in 1..(n + 1)}
           a == Front(t)
           z == Last(t)
           h == HistoryOf(t, ids, n)
           r == Replied(ids, n)
           r2 == Replied(ids, n + 1)
<1>1. t \in Seq(S) /\ \A j \in 1..(n + 1) : Message("assistant", ids[j], ReplyBytes) \in S
  OBVIOUS
<1> HIDE DEF S
<1>2. a \in Seq(S) /\ z \in S /\ t = a \o <<z>>
  BY <1>1, LastFront
<1>3. m \in S
  BY <1>1
<1>4. r \in Seq(S) /\ r2 \in Seq(S) /\ r2 = Append(r, m)
  BY <1>1, RepliedMore
<1>5. h = (a \o r) \o <<z>>
  <2>1. CASE n = 0
    <3>1. r = <<>>
      BY <2>1 DEF Replied
    <3>2. h = t
      BY <2>1 DEF HistoryOf
    <3> HIDE DEF a, z, h, r
    <3>3. a \o r = a
      BY <1>2, <3>1
    <3>4. QED BY <1>2, <3>2, <3>3
  <2>2. CASE n # 0
    BY <2>2 DEF HistoryOf, Replied
  <2>3. QED BY <2>1, <2>2
<1>6. HistoryOf(t, ids, n + 1) = (a \o r2) \o <<z>>
  BY DEF HistoryOf, Replied
<1> HIDE DEF a, z, h, r, r2, m
<1>7. a \o r \in Seq(S)
  BY <1>2, <1>4
<1>8. Front(h) = a \o r /\ Last(h) = z /\ h # <<>>
  BY <1>2, <1>5, <1>7, FrontLast
<1>9. (a \o r) \o <<m, z>> = (a \o r2) \o <<z>>
  <2>1. a \o r2 = Append(a \o r, m)
    BY <1>2, <1>3, <1>4
  <2> DEFINE b == a \o r
  <2> HIDE DEF b
  <2>2. ASSUME b \in Seq(S) PROVE b \o <<m, z>> = Append(b, m) \o <<z>>
    BY <1>2, <1>3, <2>2
  <2>3. QED BY <1>7, <2>1, <2>2 DEF b
<1>10. QED BY <1>6, <1>8, <1>9 DEF h, m

-----------------------------------------------------------------------------
\* A request on its way through its chain: the agent and the filter it has come
\* to are those that are due, what it holds is what these are to be given, and
\* the conversation is what the agents before have made of it.
On(r, t, ids, list, ph, i, cur, b, f) ==
    LET filters == FiltersOf(r.listener, ids[i])
    IN  /\ r.kind = "chat" /\ r.listener \in DOMAIN Listeners
        /\ t \in Seq(Messages) /\ ids \in Seq(IdsOf(Listeners[r.listener].agents))
        /\ i \in 1..Len(ids) /\ (t = <<>> => i = 1)
        /\ cur = HistoryOf(t, ids, i - 1)
        /\ ph = "filter" => f \in 1..Len(filters)
        /\ DueOf(list, t, ids)[Len(list)] =
              [agent |-> i, step |-> IF ph = "filter" THEN f ELSE Len(filters) + 1, input |-> b]

OnItsWay == On(req, turn, selected, calls, phase, at, current, body, filterAt)

ChainInv ==
    /\ \E S : calls \in Seq(S)
    /\ phase = "idle" => calls = <<>>
    /\ phase \in {"filter", "invoke"} => OnItsWay
    /\ EachCallGetsItsInput

\* The agents of the listeners are as configured.
LEMMA ListenersAre ==
    ASSUME NEW l \in DOMAIN Listeners
    PROVE  Listeners[l].agents \in AgentsOf
BY AgentChainAssumption DEF AgentsOf

\* The filters of an agent that is selected.
LEMMA FiltersOn ==
    ASSUME NEW r, NEW t, NEW ids, NEW list, NEW ph, NEW i, NEW cur, NEW b, NEW f,
           On(r, t, ids, list, ph, i, cur, b, f)
    PROVE  LET filters == FiltersOf(r.listener, ids[i])
           IN  /\ filters \in Seq(STRING) /\ Len(filters) \in Nat
               /\ PlannedOf(r.listener, ids[i]) = Append(filters, ids[i])
               /\ Len(PlannedOf(r.listener, ids[i])) = Len(filters) + 1
               /\ \A k \in 1..Len(filters) : PlannedOf(r.listener, ids[i])[k] = filters[k]
               /\ PlannedOf(r.listener, ids[i])[Len(filters) + 1] = ids[i]
<1> DEFINE filters == FiltersOf(r.listener, ids[i])
<1>1. ids[i] \in IdsOf(Listeners[r.listener].agents) /\ r.listener \in DOMAIN Listeners
  BY SeqAt DEF On
<1>2. filters \in Seq(STRING)
  BY <1>1, ListenersAre, FiltersAre
<1>3. PlannedOf(r.listener, ids[i]) = Append(filters, ids[i])
  BY DEF PlannedOf
<1> HIDE DEF filters
<1>4. /\ Len(filters) \in Nat /\ Len(Append(filters, ids[i])) = Len(filters) + 1
      /\ \A k \in 1..Len(filters) : Append(filters, ids[i])[k] = filters[k]
      /\ Append(filters, ids[i])[Len(filters) + 1] = ids[i]
  <2>1. /\ Append(filters, ids[i]) \in Seq(STRING \cup {ids[i]}) /\ Len(filters) \in Nat
        /\ DOMAIN Append(filters, ids[i]) = 1..Len(filters) + 1
        /\ \A k \in 1..Len(filters) : Append(filters, ids[i])[k] = filters[k]
        /\ Append(filters, ids[i])[Len(filters) + 1] = ids[i]
    BY <1>2, Appended
  <2>2. QED BY <1>2, <2>1
<1>5. QED BY <1>2, <1>3, <1>4 DEF filters

\* An agent's turn begins with its first filter, or with itself.
LEMMA Started ==
    ASSUME NEW r, NEW t, NEW ids, NEW i, NEW cur, StartAgent(r, ids, i, cur),
           req' = r, turn' = t, selected' = ids, r.kind = "chat", r.listener \in DOMAIN Listeners,
           t \in Seq(Messages), ids \in Seq(IdsOf(Listeners[r.listener].agents)),
           i \in 1..Len(ids), t = <<>> => i = 1, cur = HistoryOf(t, ids, i - 1),
           DueOf(calls', t, ids)[Len(calls')] = [agent |-> i, step |-> 1, input |-> Chat(cur)]
    PROVE  OnItsWay' /\ phase' \in {"filter", "invoke"}
<1> DEFINE filters == FiltersOf(r.listener, ids[i])
<1>1. filters \in Seq(STRING)
  <2>1. ids[i] \in IdsOf(Listeners[r.listener].agents)
    BY SeqAt
  <2>2. QED BY <2>1, ListenersAre, FiltersAre
<1>2. /\ at' = i /\ current' = cur /\ body' = Chat(cur) /\ filterAt' = 1
      /\ phase' = IF filters = <<>> THEN "invoke" ELSE "filter"
  BY DEF StartAgent
<1> HIDE DEF filters
<1>3. /\ phase' = "filter" => 1 \in 1..Len(filters)
      /\ 1 = IF phase' = "filter" THEN 1 ELSE Len(filters) + 1
  BY <1>1, <1>2
<1>4. On(r, t, ids, calls', phase', i, cur, Chat(cur), 1)
  BY <1>3 DEF On, filters
<1>5. QED BY <1>2, <1>4 DEF OnItsWay

\* A request that is over keeps the calls it made.
LEMMA NoMoreCalls ==
    ASSUME ChainInv, phase' = "done", UNCHANGED <<handling, calls>>
    PROVE  ChainInv'
<1>1. EachCallGetsItsInput'
  BY FitNow, FitThen DEF ChainInv, handling
<1>2. QED BY <1>1 DEF ChainInv

\* What is due for a request on its way.
DueHere ==
    [agent |-> at, step |-> IF phase = "filter" THEN filterAt ELSE Len(FilterChain(AgentName)) + 1,
     input |-> body]

\* One more call, which is due if it is one of the chain.
LEMMA OneMoreCall ==
    ASSUME ChainInv, OnItsWay, UNCHANGED handling, NEW e, calls' = Append(calls, e),
           e.kind \in ChainKinds => Fits(e, DueHere, selected, req.listener)
    PROVE  /\ \E S : calls' \in Seq(S)
           /\ EachCallGetsItsInput'
           /\ DueOf(calls', turn, selected)[Len(calls')] = Moves(DueHere, e, turn, selected)
<1>1. PICK S : calls \in Seq(S)
  BY DEF ChainInv
<1>2. calls' \in Seq(S \cup {e})
  BY <1>1, Appended
<1>3. DueOf(calls, turn, selected)[Len(calls)] = DueHere
  BY DEF OnItsWay, On, DueHere, FilterChain, AgentName
<1>4. AllFit(calls, turn, selected, req.listener)
  BY FitNow DEF ChainInv, OnItsWay, On
<1>5. /\ AllFit(calls', turn, selected, req.listener)
      /\ DueOf(calls', turn, selected)[Len(calls')] = Moves(DueHere, e, turn, selected)
  <2>1. e.kind \in ChainKinds => Fits(e, DueOf(calls, turn, selected)[Len(calls)], selected, req.listener)
    BY <1>3
  <2>2. /\ AllFit(Append(calls, e), turn, selected, req.listener)
        /\ DueOf(Append(calls, e), turn, selected)[Len(Append(calls, e))] =
              Moves(DueOf(calls, turn, selected)[Len(calls)], e, turn, selected)
    BY <1>1, <1>4, <2>1, FitMore
  <2>3. QED BY <1>3, <2>2
<1>6. EachCallGetsItsInput'
  BY <1>5, FitThen DEF handling
<1>7. QED BY <1>2, <1>5, <1>6

\* A request that made its last call is over.
LEMMA LastCall ==
    ASSUME ChainInv, OnItsWay, UNCHANGED handling, NEW e, calls' = Append(calls, e),
           e.kind \in ChainKinds => Fits(e, DueHere, selected, req.listener), phase' = "done"
    PROVE  ChainInv'
BY OneMoreCall DEF ChainInv

\* A call that is none of the chain changes nothing of what is due.
LEMMA OtherCall ==
    ASSUME NEW S, NEW list \in Seq(S), NEW e, NEW t, NEW ids, NEW l,
           AllFit(list, t, ids, l), e.kind \notin ChainKinds
    PROVE  /\ AllFit(Append(list, e), t, ids, l)
           /\ DueOf(Append(list, e), t, ids)[Len(Append(list, e))] = DueOf(list, t, ids)[Len(list)]
<1>1. e.kind \in ChainKinds => Fits(e, DueOf(list, t, ids)[Len(list)], ids, l)
  OBVIOUS
<1>2. /\ AllFit(Append(list, e), t, ids, l)
      /\ DueOf(Append(list, e), t, ids)[Len(Append(list, e))] =
            Moves(DueOf(list, t, ids)[Len(list)], e, t, ids)
  BY <1>1, FitMore
<1>3. QED BY <1>2 DEF Moves, ChainKinds

\* Calls for a session are none of the chain.
LEMMA SessionCalls ==
    ASSUME ChainInv, OnItsWay, phase = "filter", UNCHANGED <<handling, at, current, body, filterAt>>,
           NEW d, NEW e, calls' = calls \o <<d, e>>, d.kind \notin ChainKinds, e.kind \notin ChainKinds,
           phase' \in {"filter", "done"}
    PROVE  ChainInv'
<1>1. PICK S : calls \in Seq(S)
  BY DEF ChainInv
<1> DEFINE list == Append(calls, d)
<1>2. calls' = Append(list, e) /\ list \in Seq(S \cup {d}) /\ calls' \in Seq(S \cup {d, e})
  <2>1. calls' = Append(list, e) /\ list \in Seq(S \cup {d})
    BY <1>1
  <2>2. QED BY <1>1, <2>1, AppendedTwice
<1>3. AllFit(calls, turn, selected, req.listener)
  BY FitNow DEF ChainInv, OnItsWay, On
<1>4. /\ AllFit(list, turn, selected, req.listener)
      /\ DueOf(list, turn, selected)[Len(list)] = DueOf(calls, turn, selected)[Len(calls)]
  BY <1>1, <1>3, OtherCall
<1> HIDE DEF list
<1>5. /\ AllFit(Append(list, e), turn, selected, req.listener)
      /\ DueOf(Append(list, e), turn, selected)[Len(Append(list, e))] = DueOf(list, turn, selected)[Len(list)]
  BY <1>2, <1>4, OtherCall
<1>6. EachCallGetsItsInput'
  BY <1>2, <1>5, FitThen DEF handling
<1>7. phase' = "filter" => On(req, turn, selected, calls', phase', at, current, body, filterAt)
  BY <1>2, <1>4, <1>5 DEF OnItsWay, On
<1>8. phase' = "filter" => OnItsWay'
  BY <1>7 DEF OnItsWay, handling
<1>9. QED BY <1>2, <1>6, <1>8 DEF ChainInv

\* A call to the filter that is next, with the body as it is, is due.
LEMMA FilterFits ==
    ASSUME OnItsWay, phase = "filter", NEW e,
           e.kind \in {"filter", "tool"}, e.to = Filter, e.given = body
    PROVE  Fits(e, DueHere, selected, req.listener)
<1> DEFINE filters == FilterChain(AgentName)
           planned == PlannedOf(req.listener, AgentName)
<1>1. /\ Len(filters) \in Nat /\ Len(planned) = Len(filters) + 1
      /\ \A k \in 1..Len(filters) : planned[k] = filters[k]
  BY FiltersOn DEF OnItsWay, FilterChain, AgentName
<1>2. filterAt \in 1..Len(filters) /\ at \in 1..Len(selected)
  BY DEF OnItsWay, On, FilterChain, AgentName
<1>3. at =< Len(selected)
  BY <1>2, SeqAt DEF OnItsWay, On
<1>4. DueHere.agent = at /\ DueHere.step = filterAt /\ DueHere.input = body
  BY DEF DueHere
<1>5. e.to = filters[filterAt]
  BY DEF Filter
<1> HIDE DEF filters, planned
<1>6. filterAt =< Len(planned) /\ filterAt # Len(planned) /\ e.to = planned[filterAt]
  BY <1>1, <1>2, <1>5
<1>7. e.kind # "agent"
  OBVIOUS
<1>8. QED BY <1>3, <1>4, <1>6, <1>7 DEF Fits, planned, AgentName

\* A filter was called: the next is due, or the agent, or the request is over.
LEMMA FilterCall ==
    ASSUME ChainInv, Filters, NEW e, calls' = Append(calls, e),
           e.kind \in {"filter", "tool"}, e.to = Filter, e.given = body,
           NextFilter(e.gave) \/ phase' = "done"
    PROVE  ChainInv'
<1>1. phase = "filter" /\ UNCHANGED handling /\ UNCHANGED <<at, current>> /\ OnItsWay
  BY DEF Filters, ChainInv
<1>2. Fits(e, DueHere, selected, req.listener)
  BY <1>1, FilterFits
<1>3. CASE phase' = "done"
  BY <1>1, <1>2, <1>3, LastCall
<1>4. CASE NextFilter(e.gave) /\ phase' # "done"
  <2> DEFINE filters == FilterChain(AgentName)
  <2>1. Len(filters) \in Nat
    BY <1>1, FiltersOn DEF OnItsWay, FilterChain, AgentName
  <2>2. filterAt \in 1..Len(filters)
    BY <1>1 DEF OnItsWay, On, FilterChain, AgentName
  <2>3. /\ body' = e.gave /\ filterAt' = filterAt + 1
        /\ \/ filterAt < Len(filters) /\ phase' = "filter"
           \/ filterAt = Len(filters) /\ phase' = "invoke"
    BY <1>1, <1>4 DEF NextFilter, Refused, Refuse, Answered
  <2>4. /\ \E S : calls' \in Seq(S)
        /\ EachCallGetsItsInput'
        /\ DueOf(calls', turn, selected)[Len(calls')] = Moves(DueHere, e, turn, selected)
    BY <1>1, <1>2, OneMoreCall
  <2>5. Moves(DueHere, e, turn, selected) = [agent |-> at, step |-> filterAt + 1, input |-> e.gave]
    BY <1>1 DEF Moves, DueHere
  <2> HIDE DEF filters
  <2>6. /\ phase' = "filter" => filterAt + 1 \in 1..Len(filters)
        /\ filterAt + 1 = IF phase' = "filter" THEN filterAt + 1 ELSE Len(filters) + 1
    BY <2>1, <2>2, <2>3
  <2>7. On(req, turn, selected, calls', phase', at, current, e.gave, filterAt + 1)
    BY <1>1, <2>4, <2>5, <2>6 DEF OnItsWay, On, filters, FilterChain, AgentName
  <2>8. OnItsWay'
    BY <1>1, <2>3, <2>7 DEF OnItsWay, handling
  <2>9. QED BY <2>3, <2>4, <2>8 DEF ChainInv
<1>5. QED BY <1>3, <1>4

\* The agent, with what its filters made of the conversation.
LEMMA AgentFits ==
    ASSUME OnItsWay, phase = "invoke", NEW e, e.kind = "agent", e.to = AgentName,
           e.given = IF AgentTypes[AgentName] = "rig" THEN Chat(LastUserText(body.messages)) ELSE body
    PROVE  Fits(e, DueHere, selected, req.listener)
<1> DEFINE filters == FilterChain(AgentName)
           planned == PlannedOf(req.listener, AgentName)
<1>1. /\ Len(filters) \in Nat /\ Len(planned) = Len(filters) + 1
      /\ planned[Len(filters) + 1] = AgentName
  BY FiltersOn DEF OnItsWay, FilterChain, AgentName
<1>3. at =< Len(selected)
  BY SeqAt DEF OnItsWay, On
<1>4. DueHere.agent = at /\ DueHere.step = Len(filters) + 1 /\ DueHere.input = body
  BY DEF DueHere
<1> HIDE DEF filters, planned
<1>6. Len(filters) + 1 =< Len(planned) /\ Len(filters) + 1 = Len(planned) /\ e.to = planned[Len(filters) + 1]
  BY <1>1
<1>7. IF e.kind = "agent" /\ AgentTypes[e.to] = "rig"
      THEN e.given = Chat(LastUserText(DueHere.input.messages)) ELSE e.given = DueHere.input
  BY <1>4
<1>8. QED BY <1>3, <1>4, <1>6, <1>7 DEF Fits, planned, AgentName

\* An agent was called: the next one's turn begins, or the request is over.
LEMMA AgentCall ==
    ASSUME ChainInv, phase = "invoke", UNCHANGED handling, NEW e, calls' = Append(calls, e),
           e.kind = "agent", e.to = AgentName,
           e.given = IF AgentTypes[AgentName] = "rig" THEN Chat(LastUserText(body.messages)) ELSE body,
           phase' = "done" \/ (~LastAgent /\ AddReply(ReplyBytes))
    PROVE  ChainInv'
<1>1. OnItsWay
  BY DEF ChainInv
<1>2. Fits(e, DueHere, selected, req.listener)
  BY <1>1, AgentFits
<1>3. CASE phase' = "done"
  BY <1>1, <1>2, <1>3, LastCall
<1>4. CASE ~LastAgent /\ AddReply(ReplyBytes) /\ phase' # "done"
  <2> DEFINE history == HistoryOf(turn, selected, at)
  <2>1. /\ current # <<>>
        /\ StartAgent(req, selected, at + 1,
              Front(current) \o <<Message("assistant", AgentName, ReplyBytes), Last(current)>>)
    BY <1>4 DEF AddReply, Refused, Refuse, Answered
  <2>2. /\ turn \in Seq(Messages) /\ at \in 1..Len(selected) /\ (turn = <<>> => at = 1)
        /\ current = HistoryOf(turn, selected, at - 1) /\ Len(selected) \in Nat
        /\ req.kind = "chat" /\ req.listener \in DOMAIN Listeners
        /\ selected \in Seq(IdsOf(Listeners[req.listener].agents))
    BY <1>1, SeqAt DEF OnItsWay, On
  <2>3. turn # <<>>
    BY <2>1, <2>2 DEF HistoryOf
  <2>4. Front(current) \o <<Message("assistant", AgentName, ReplyBytes), Last(current)>> = history
    <3>1. at - 1 \in Nat /\ (at - 1) + 1 = at
      BY <2>2
    <3>2. Front(current) \o <<Message("assistant", selected[(at - 1) + 1], ReplyBytes), Last(current)>>
             = HistoryOf(turn, selected, (at - 1) + 1)
      BY <2>2, <2>3, <3>1, HistoryMore
    <3>3. QED BY <3>1, <3>2 DEF AgentName
  <2>5. /\ \E S : calls' \in Seq(S)
        /\ EachCallGetsItsInput'
        /\ DueOf(calls', turn, selected)[Len(calls')] = Moves(DueHere, e, turn, selected)
    BY <1>1, <1>2, OneMoreCall
  <2>6. Moves(DueHere, e, turn, selected) = [agent |-> at + 1, step |-> 1, input |-> Chat(history)]
    BY DEF Moves, DueHere
  <2>7. at + 1 \in 1..Len(selected) /\ (at + 1) - 1 = at
    BY <1>4, <2>2 DEF LastAgent
  <2> HIDE DEF history
  <2>8. StartAgent(req, selected, at + 1, history)
    BY <2>1, <2>4
  <2>9. history = HistoryOf(turn, selected, (at + 1) - 1)
    BY <2>7 DEF history
  <2>10. req' = req /\ turn' = turn /\ selected' = selected
    BY DEF handling
  <2>11. OnItsWay' /\ phase' \in {"filter", "invoke"}
    BY <2>2, <2>3, <2>5, <2>6, <2>7, <2>8, <2>9, <2>10, Started
  <2>12. QED BY <2>5, <2>11 DEF ChainInv
<1>5. QED BY <1>3, <1>4

LEMMA FilterKeepsChain ==
    ASSUME ChainInv,
           FilterMissing \/ ExecuteRawFilter \/ McpNotJson \/ GetNewSessionId \/ ExecuteMcpFilterRaw
    PROVE  ChainInv'
<1>1. Filters
  BY DEF FilterMissing, ExecuteRawFilter, McpNotJson, GetNewSessionId, ExecuteMcpFilterRaw, McpFilter
<1>2. phase = "filter" /\ UNCHANGED handling /\ OnItsWay
  BY <1>1 DEF Filters, ChainInv
<1>3. CASE FilterMissing \/ McpNotJson
  <2>1. phase' = "done" /\ UNCHANGED calls
    BY <1>3 DEF FilterMissing, McpNotJson, Refused, Refuse, Answered
  <2>2. QED BY <1>2, <2>1, NoMoreCalls
<1>4. ASSUME NEW kind \in {"filter", "tool"}, NEW session, NEW new,
             NextFilter(new) /\ Log(Made(kind, Filter, session, body, new))
      PROVE  ChainInv'
  <2> DEFINE e == Made(kind, Filter, session, body, new)
  <2>1. calls' = Append(calls, e) /\ NextFilter(new)
    BY <1>4 DEF Log
  <2>2. e.kind \in {"filter", "tool"} /\ e.to = Filter /\ e.given = body /\ e.gave = new
    BY DEF Made
  <2> HIDE DEF e
  <2>3. NextFilter(e.gave)
    BY <2>1, <2>2
  <2>4. QED BY <1>1, <2>1, <2>2, <2>3, FilterCall
<1>5. ASSUME NEW kind \in {"filter", "tool"}, NEW session, NEW status, FilterEnds(kind, session, status)
      PROVE  ChainInv'
  <2> DEFINE e == Made(kind, Filter, session, body, [form |-> "failed", messages |-> <<>>])
  <2>1. calls' = Append(calls, e) /\ phase' = "done"
    BY <1>5 DEF FilterEnds, Log, Refuse, Answered
  <2>2. e.kind \in {"filter", "tool"} /\ e.to = Filter /\ e.given = body
    BY DEF Made
  <2> HIDE DEF e
  <2>3. QED BY <1>1, <2>1, <2>2, FilterCall
<1>6. CASE ExecuteRawFilter
  BY <1>4, <1>5, <1>6 DEF ExecuteRawFilter
<1>7. CASE ExecuteMcpFilterRaw
  BY <1>4, <1>5, <1>7 DEF ExecuteMcpFilterRaw
<1>8. CASE GetNewSessionId
  <2>1. UNCHANGED <<handling, at, current, body, filterAt>>
    BY <1>1, <1>8 DEF GetNewSessionId, Filters
  <2>2. CASE Log(Made("initialize", Filter, NoSession, body, NotJson)) /\ Refused
    <3> DEFINE e == Made("initialize", Filter, NoSession, body, NotJson)
    <3>1. calls' = Append(calls, e) /\ phase' = "done" /\ e.kind = "initialize"
      BY <2>2 DEF Log, Refused, Refuse, Answered, Made
    <3>2. e.kind \in ChainKinds => Fits(e, DueHere, selected, req.listener)
      BY <3>1 DEF ChainKinds
    <3> HIDE DEF e
    <3>3. QED BY <1>2, <3>1, <3>2, LastCall
  <2>3. CASE /\ calls' = calls \o <<Made("initialize", Filter, issued + 1, body, body),
                                    Made("initialized", Filter, issued + 1, body, body)>>
             /\ Refused \/ UNCHANGED <<phase, answer>>
    <3> DEFINE d == Made("initialize", Filter, issued + 1, body, body)
               e == Made("initialized", Filter, issued + 1, body, body)
    <3>1. d.kind \notin ChainKinds /\ e.kind \notin ChainKinds /\ calls' = calls \o <<d, e>>
      BY <2>3 DEF Made, ChainKinds
    <3>2. phase' \in {"filter", "done"}
      BY <1>2, <2>3 DEF Refused, Refuse, Answered
    <3> HIDE DEF d, e
    <3>3. QED BY <1>2, <2>1, <3>1, <3>2, SessionCalls
  <2>4. QED BY <1>8, <2>2, <2>3 DEF GetNewSessionId
<1>9. QED BY <1>3, <1>6, <1>7, <1>8

LEMMA AgentKeepsChain ==
    ASSUME ChainInv, AgentNotFound \/ InvokeRigAgent \/ InvokeAgent
    PROVE  ChainInv'
<1>1. phase = "invoke" /\ UNCHANGED handling
  BY DEF AgentNotFound, InvokeRigAgent, InvokeAgent, Invokes
<1>2. CASE AgentNotFound
  <2>1. phase' = "done" /\ UNCHANGED calls
    BY <1>2 DEF AgentNotFound, Refused, Refuse, Answered
  <2>2. QED BY <1>1, <2>1, NoMoreCalls
<1>3. CASE InvokeRigAgent
  <2>1. PICK replied :
           /\ Log(Made("agent", AgentName, NoSession, Chat(LastUserText(body.messages)),
                       [form |-> replied, messages |-> <<>>]))
           /\ Refused \/ (~LastAgent /\ AddReply(ReplyBytes)) \/ RigChatCompletionResponse
    BY <1>3 DEF InvokeRigAgent
  <2> DEFINE e == Made("agent", AgentName, NoSession, Chat(LastUserText(body.messages)),
                       [form |-> replied, messages |-> <<>>])
  <2>2. calls' = Append(calls, e) /\ (phase' = "done" \/ (~LastAgent /\ AddReply(ReplyBytes)))
    BY <2>1 DEF Log, Refused, Refuse, Answered, RigChatCompletionResponse
  <2>3. e.kind = "agent" /\ e.to = AgentName /\ e.given = Chat(LastUserText(body.messages))
    BY DEF Made
  <2> HIDE DEF e
  <2>4. e.given = IF AgentTypes[AgentName] = "rig" THEN Chat(LastUserText(body.messages)) ELSE body
    BY <1>3, <2>3 DEF InvokeRigAgent
  <2>5. QED BY <1>1, <2>2, <2>3, <2>4, AgentCall
<1>4. CASE InvokeAgent
  <2>1. PICK got \in AgentAnswers :
           /\ Log(Made("agent", AgentName, NoSession, body, [form |-> got, messages |-> <<>>]))
           /\ \/ ~LastAgent /\ CollectFullResponse(got)
              \/ BuildResponsesApiResponse(got)
              \/ CreateStreamingResponse(got)
    BY <1>4 DEF InvokeAgent
  <2> DEFINE e == Made("agent", AgentName, NoSession, body, [form |-> got, messages |-> <<>>])
  <2>2. CreateStreamingResponse(got) => phase' = "done"
    BY DEF CreateStreamingResponse, Refused, Refuse, Answered
  <2>3. BuildResponsesApiResponse(got) => phase' = "done"
    BY <2>2 DEF BuildResponsesApiResponse, Answered
  <2>4. CollectFullResponse(got) => phase' = "done" \/ AddReply(ReplyBytes)
    BY DEF CollectFullResponse, Refused, Refuse, Answered
  <2>5. calls' = Append(calls, e) /\ (phase' = "done" \/ (~LastAgent /\ AddReply(ReplyBytes)))
    BY <2>1, <2>2, <2>3, <2>4 DEF Log
  <2>6. e.kind = "agent" /\ e.to = AgentName /\ e.given = body
    BY DEF Made
  <2> HIDE DEF e
  <2>7. e.given = IF AgentTypes[AgentName] = "rig" THEN Chat(LastUserText(body.messages)) ELSE body
    BY <1>4, <2>6 DEF InvokeAgent
  <2>8. QED BY <1>1, <2>5, <2>6, <2>7, AgentCall
<1>5. QED BY <1>2, <1>3, <1>4

\* The first call of a request is none of the chain.
LEMMA FirstCall ==
    ASSUME calls' = <<>> \/ \E c : calls' = <<c>> /\ c.kind = "select"
    PROVE  /\ \E S : calls' \in Seq(S)
           /\ \A t, ids, l : /\ AllFit(calls', t, ids, l)
                             /\ DueOf(calls', t, ids)[Len(calls')] = AtFirst(t, ids)
<1>1. /\ <<>> \in Seq({}) /\ Len(<<>>) = 0
      /\ \A t, ids, l : AllFit(<<>>, t, ids, l) /\ DueOf(<<>>, t, ids)[0] = AtFirst(t, ids)
  <2> DEFINE none == <<>>
  <2>1. none \in Seq({}) /\ Len(none) = 0 /\ DOMAIN none = {}
    OBVIOUS
  <2> HIDE DEF none
  <2>2. ASSUME NEW t, NEW ids PROVE DueOf(none, t, ids)[0] = AtFirst(t, ids)
    <3>1. Len(none) \in Nat
      BY <2>1
    <3>2. QED BY <3>1, DueIs
  <2>3. \A t, ids, l : AllFit(none, t, ids, l)
    BY <2>1 DEF AllFit
  <2>4. QED BY <2>1, <2>2, <2>3 DEF none
<1>2. CASE calls' = <<>>
  BY <1>1, <1>2
<1>3. ASSUME NEW c, calls' = <<c>>, c.kind = "select"
      PROVE  /\ calls' \in Seq({c})
             /\ \A t, ids, l : /\ AllFit(calls', t, ids, l)
                               /\ DueOf(calls', t, ids)[Len(calls')] = AtFirst(t, ids)
  <2> DEFINE none == <<>>
  <2>1. none \in Seq({}) /\ Len(none) = 0 /\ calls' = Append(none, c) /\ calls' \in Seq({c})
    BY <1>3
  <2>2. \A t, ids, l : AllFit(none, t, ids, l) /\ DueOf(none, t, ids)[0] = AtFirst(t, ids)
    BY <1>1
  <2> HIDE DEF none
  <2>3. c.kind \notin ChainKinds
    BY <1>3 DEF ChainKinds
  <2>4. ASSUME NEW t, NEW ids, NEW l
        PROVE  /\ AllFit(Append(none, c), t, ids, l)
               /\ DueOf(Append(none, c), t, ids)[Len(Append(none, c))] = DueOf(none, t, ids)[Len(none)]
    <3>1. AllFit(none, t, ids, l)
      BY <2>2
    <3> DEFINE S == {}
    <3>2. none \in Seq(S)
      BY <2>1
    <3> HIDE DEF S
    <3>3. QED BY <2>3, <3>1, <3>2, OtherCall
  <2>5. QED BY <2>1, <2>2, <2>4
<1>4. QED BY <1>2, <1>3

\* A request that is refused before its chain has made none of its calls.
LEMMA RefusedChain ==
    ASSUME calls' = <<>> \/ \E c : calls' = <<c>> /\ c.kind = "select", phase' = "done"
    PROVE  ChainInv'
<1>1. EachCallGetsItsInput'
  BY FirstCall, FitThen
<1>2. QED BY <1>1, FirstCall DEF ChainInv

\* The chain begins with the first agent and the turn.
LEMMA ChatKeepsChain ==
    ASSUME ChainInv, NEW r \in Requests, AgentChat(r)
    PROVE  ChainInv'
<1>1. calls = <<>> /\ req' = r /\ r.kind = "chat"
  BY DEF ChainInv, AgentChat
<1>2. CASE ~Parsed(r)
  <2>1. calls' = <<>> /\ phase' = "done"
    BY <1>1, <1>2 DEF AgentChat, Refused, Refuse, Answered
  <2>2. QED BY <2>1, RefusedChain
<1>3. CASE Parsed(r)
  <2>1. PICK found \in Lookups(r), reply \in RepliesTo(r) :
           LET messages == Merged(r, found)
               selection == Selection(r, messages, reply)
           IN /\ turn' = messages
              /\ calls' = IF found = "missing" THEN <<>> ELSE Asked(r, messages, reply)
              /\ selected' = IF found = "missing" THEN <<>> ELSE selection.ids
              /\ \/ Refused \/ Answered("closed", "plano", "error")
                 \/ /\ found # "missing" /\ selection.kind \notin {"error", "panic"}
                    /\ StartAgent(r, selection.ids, 1, messages)
    BY <1>3 DEF AgentChat
  <2> DEFINE messages == Merged(r, found)
             selection == Selection(r, messages, reply)
             ids == selection.ids
  <2>2. calls' = <<>> \/ \E c : calls' = <<c>> /\ c.kind = "select"
    BY <2>1 DEF Asked, Made
  <2>3. CASE phase' = "done"
    BY <2>2, <2>3, RefusedChain
  <2>4. CASE phase' # "done"
    <3>1. /\ turn' = messages /\ selected' = ids /\ selection.kind \notin {"error", "panic"}
          /\ StartAgent(r, ids, 1, messages)
      BY <2>1, <2>4 DEF Refused, Refuse, Answered
    <3>2. messages \in Seq(Messages)
      <4>1. Earlier \in Seq(Messages) /\ r.messages \in Seq(Messages)
        BY <1>1, AgentChainAssumption
      <4>2. Earlier \o r.messages \in Seq(Messages)
        BY <4>1
      <4>3. QED BY <4>1, <4>2 DEF Merged
    <3>3. r.listener \in DOMAIN Listeners
      BY <1>3 DEF Parsed
    <3>4. reply.routes \in Seq(STRING)
      <4>1. reply \in Replies \/ reply = [form |-> "empty", routes |-> <<>>]
        BY <2>1 DEF RepliesTo
      <4>2. \A a \in Replies : a.routes \in Seq(STRING)
        BY AgentChainAssumption
      <4>3. [form |-> "empty", routes |-> <<>>].routes \in Seq(STRING)
        OBVIOUS
      <4>4. CASE reply \in Replies
        BY <4>2, <4>4
      <4>5. CASE reply = [form |-> "empty", routes |-> <<>>]
        BY <4>3, <4>5
      <4>6. QED BY <4>1, <4>4, <4>5
    <3>5. ids \in Seq(IdsOf(Listeners[r.listener].agents)) /\ ids # <<>>
      <4> DEFINE agents == Listeners[r.listener].agents
      <4>1. selection = SelectAgents(messages, agents, r.agent, reply)
        BY <3>1 DEF Selection, SelectionError
      <4>2. agents \in AgentsOf
        BY <3>3, ListenersAre
      <4> HIDE DEF agents, messages, selection
      <4>3. SelectAgents(messages, agents, r.agent, reply).kind \notin {"error", "panic"}
        BY <3>1, <4>1
      <4>4. /\ SelectAgents(messages, agents, r.agent, reply).ids \in Seq(IdsOf(agents))
            /\ SelectAgents(messages, agents, r.agent, reply).ids # <<>>
        BY <3>4, <4>2, <4>3, SelectionIs
      <4>5. QED BY <4>1, <4>4 DEF agents, ids
    <3> HIDE DEF messages, ids, selection
    <3>6. 1 \in 1..Len(ids) /\ 1 - 1 = 0
      BY <3>5
    <3>7. messages = HistoryOf(messages, ids, 1 - 1)
      BY <3>6 DEF HistoryOf
    <3>8. DueOf(calls', messages, ids)[Len(calls')] = [agent |-> 1, step |-> 1, input |-> Chat(messages)]
      BY <2>2, FirstCall DEF AtFirst, HistoryOf
    <3>9. OnItsWay' /\ phase' \in {"filter", "invoke"}
      BY <1>1, <3>1, <3>2, <3>3, <3>5, <3>6, <3>7, <3>8, Started
    <3>10. (\E S : calls' \in Seq(S)) /\ EachCallGetsItsInput'
      BY <2>2, FirstCall, FitThen
    <3>11. QED BY <3>9, <3>10 DEF ChainInv
  <2>5. QED BY <2>3, <2>4
<1>4. QED BY <1>2, <1>3

\* A request that is not a chat has no chain.
LEMMA NoChainKept ==
    ASSUME req'.kind # "chat", phase' \in {"idle", "done"}, phase' = "idle" => calls' = <<>>,
           calls' = <<>> \/ \E c : calls' = <<c>>
    PROVE  ChainInv'
<1>1. \E S : calls' \in Seq(S)
  <2>1. CASE calls' = <<>>
    <3>1. calls' \in Seq({})
      BY <2>1
    <3>2. QED BY <3>1
  <2>2. ASSUME NEW c, calls' = <<c>> PROVE \E S : calls' \in Seq(S)
    <3>1. calls' \in Seq({c})
      BY <2>2
    <3>2. QED BY <3>1
  <2>3. QED BY <2>1, <2>2
<1>2. QED BY <1>1 DEF ChainInv, EachCallGetsItsInput

LEMMA InitChain == Init => ChainInv
<1> SUFFICES ASSUME Init PROVE ChainInv
  OBVIOUS
<1>1. calls \in Seq({})
  BY DEF Init
<1>2. QED BY <1>1 DEF Init, ChainInv, EachCallGetsItsInput, NoRequest

LEMMA StepKeepsChain == ChainInv /\ [Next]_vars => ChainInv'
<1> SUFFICES ASSUME ChainInv, [Next]_vars PROVE ChainInv'
  OBVIOUS
<1>1. ASSUME NEW r \in Requests, AgentChat(r) PROVE ChainInv'
  BY <1>1, ChatKeepsChain
<1>2. ASSUME NEW r \in Requests, AgentResume(r) PROVE ChainInv'
  <2>1. calls = <<>> /\ req' = r /\ r.kind # "chat"
    BY <1>2 DEF ChainInv, AgentResume
  <2>2. phase' = "done" /\ (calls' = <<>> \/ \E c : calls' = <<c>>)
    BY <1>2, <2>1 DEF AgentResume, Refused, Refuse, Answered
  <2>3. QED BY <2>1, <2>2, NoChainKept
<1>3. CASE Close
  <2>1. req'.kind # "chat" /\ phase' = "idle" /\ calls' = <<>>
    BY <1>3 DEF Close, NoRequest
  <2>2. QED BY <2>1, NoChainKept
<1>4. CASE UNCHANGED vars
  <2>1. OnItsWay' <=> OnItsWay
    BY <1>4 DEF vars, OnItsWay
  <2>2. EachCallGetsItsInput' <=> EachCallGetsItsInput
    BY <1>4, FitNow, FitThen DEF vars
  <2>3. UNCHANGED <<phase, calls>>
    BY <1>4 DEF vars
  <2>4. QED BY <2>1, <2>2, <2>3 DEF ChainInv
<1>5. QED BY <1>1, <1>2, <1>3, <1>4, FilterKeepsChain, AgentKeepsChain DEF Next

\* Filters and agents are called in the order they are configured and selected
\* in, each with what the one before it made, an agent's filters with the
\* replies of all agents before it in the conversation, and the last message
\* last; for any listeners, agents, filters, replies and requests.
THEOREM EachCallAlwaysGetsItsInput == Spec => []EachCallGetsItsInput
<1>1. ChainInv => EachCallGetsItsInput
  BY DEF ChainInv
<1>2. QED BY <1>1, InitChain, StepKeepsChain, PTL DEF Spec

\* What the model is shown is taken message by message, from the newest back.
TakenNothing == [kept |-> <<>>, tokens |-> SystemTokens, full |-> FALSE]

LEMMA TakenIs ==
    ASSUME NEW recent, Len(recent) \in Nat
    PROVE  \E after :
              /\ after[0] = TakenNothing /\ Taken(recent) = after[Len(recent)].kept
              /\ \A n \in 1..Len(recent) :
                    after[n] = TakeMessage(recent[Len(recent) - n + 1], after[n - 1])
<1> DEFINE N == Len(recent)
           first == TakenNothing
           Step(b, n) == TakeMessage(recent[N - n + 1], b)
           F(g, n) == [k \in 0..n |-> IF k = 0 THEN first ELSE Step(g[k - 1], k)]
           IsAfter(g, n) == g = F(g, n)
           S == {n \in 0..N : \E g : IsAfter(g, n)}
<1>0. N \in Nat
  OBVIOUS
<1>a. Taken(recent) = (CHOOSE g : g = F(g, N))[N].kept
  BY DEF Taken, TakenNothing
<1> HIDE DEF N, Step, first
<1>1. 0 \in S
  <2>1. IsAfter([k \in 0..0 |-> first], 0)
    OBVIOUS
  <2>2. \E g : IsAfter(g, 0)
    BY <2>1
  <2>3. QED BY <2>2, <1>0
<1>2. ASSUME NEW n \in 0..(N - 1), n \in S PROVE n + 1 \in S
  <2>1. PICK g : IsAfter(g, n)
    BY <1>2
  <2> DEFINE h == [k \in 0..(n + 1) |-> IF k = n + 1 THEN Step(g[n], n + 1) ELSE g[k]]
  <2>2. ASSUME NEW k \in 0..(n + 1)
        PROVE  h[k] = IF k = 0 THEN first ELSE Step(h[k - 1], k)
    <3>1. CASE k = n + 1
      BY <3>1, <1>0
    <3>2. CASE k \in 0..n
      BY <3>2, <2>1, <1>0
    <3>3. QED BY <3>1, <3>2, <1>0
  <2>3. IsAfter(h, n + 1)
    BY <2>2
  <2>4. \E f : IsAfter(f, n + 1)
    BY <2>3
  <2>5. QED BY <2>4, <1>0
<1>3. N \in S
  <2> HIDE DEF S
  <2>1. 0..N \subseteq S
    BY <1>0, <1>1, <1>2, UpTo
  <2>2. QED BY <2>1, <1>0
<1> DEFINE after == CHOOSE g : g = F(g, N)
<1>4. after = F(after, N)
  <2>1. \E g : g = F(g, N)
    BY <1>3
  <2> HIDE DEF F
  <2>2. QED BY <2>1
<1>5. after[0] = first /\ \A n \in 1..N : after[n] = Step(after[n - 1], n)
  <2> HIDE DEF after
  <2>1. QED BY <1>0, <1>4
<1>6. Taken(recent) = after[N].kept
  BY <1>a
<1> HIDE DEF after
<1>7. QED BY <1>5, <1>6 DEF N, Step, first

\* Its tokens are counted the same way.
LEMMA SpentIs ==
    ASSUME NEW shown, Len(shown) \in Nat
    PROVE  \E sum :
              /\ sum[0] = SystemTokens /\ Spent(shown) = sum[Len(shown)]
              /\ \A n \in 1..Len(shown) : sum[n] = sum[n - 1] + TokensOf(shown[Len(shown) - n + 1])
<1> DEFINE N == Len(shown)
           Step(b, n) == b + TokensOf(shown[N - n + 1])
           F(g, n) == [k \in 0..n |-> IF k = 0 THEN SystemTokens ELSE Step(g[k - 1], k)]
           IsAfter(g, n) == g = F(g, n)
           S == {n \in 0..N : \E g : IsAfter(g, n)}
<1>0. N \in Nat
  OBVIOUS
<1>a. Spent(shown) = (CHOOSE g : g = F(g, N))[N]
  BY DEF Spent
<1> HIDE DEF N, Step
<1>1. 0 \in S
  <2>1. IsAfter([k \in 0..0 |-> SystemTokens], 0)
    OBVIOUS
  <2>2. \E g : IsAfter(g, 0)
    BY <2>1
  <2>3. QED BY <2>2, <1>0
<1>2. ASSUME NEW n \in 0..(N - 1), n \in S PROVE n + 1 \in S
  <2>1. PICK g : IsAfter(g, n)
    BY <1>2
  <2> DEFINE h == [k \in 0..(n + 1) |-> IF k = n + 1 THEN Step(g[n], n + 1) ELSE g[k]]
  <2>2. ASSUME NEW k \in 0..(n + 1)
        PROVE  h[k] = IF k = 0 THEN SystemTokens ELSE Step(h[k - 1], k)
    <3>1. CASE k = n + 1
      BY <3>1, <1>0
    <3>2. CASE k \in 0..n
      BY <3>2, <2>1, <1>0
    <3>3. QED BY <3>1, <3>2, <1>0
  <2>3. IsAfter(h, n + 1)
    BY <2>2
  <2>4. \E f : IsAfter(f, n + 1)
    BY <2>3
  <2>5. QED BY <2>4, <1>0
<1>3. N \in S
  <2> HIDE DEF S
  <2>1. 0..N \subseteq S
    BY <1>0, <1>1, <1>2, UpTo
  <2>2. QED BY <2>1, <1>0
<1> DEFINE sum == CHOOSE g : g = F(g, N)
<1>4. sum = F(sum, N)
  <2>1. \E g : g = F(g, N)
    BY <1>3
  <2> HIDE DEF F
  <2>2. QED BY <2>1
<1>5. sum[0] = SystemTokens /\ \A n \in 1..N : sum[n] = Step(sum[n - 1], n)
  <2> HIDE DEF sum
  <2>1. QED BY <1>0, <1>4
<1>6. Spent(shown) = sum[N]
  BY <1>a
<1> HIDE DEF sum
<1>7. QED BY <1>5, <1>6 DEF N, Step

\* A message put before others.
LEMMA Prepended ==
    ASSUME NEW S, NEW s \in Seq(S), NEW m \in S
    PROVE  /\ <<m>> \o s \in Seq(S) /\ Len(<<m>> \o s) = Len(s) + 1 /\ Len(s) \in Nat
           /\ (<<m>> \o s)[1] = m /\ \A j \in 2..(Len(s) + 1) : (<<m>> \o s)[j] = s[j - 1]
<1> DEFINE one == <<m>>
<1>1. one \in Seq(S) /\ Len(one) = 1 /\ one[1] = m
  OBVIOUS
<1> HIDE DEF one
<1>2. QED BY <1>1 DEF one

\* One message more costs its tokens.
LEMMA SpentMore ==
    ASSUME NEW S, NEW s \in Seq(S), NEW m \in S
    PROVE  Spent(<<m>> \o s) = Spent(s) + TokensOf(m)
<1> DEFINE longer == <<m>> \o s
           N == Len(s)
<1>1. /\ longer \in Seq(S) /\ Len(longer) = N + 1 /\ N \in Nat
      /\ longer[1] = m /\ \A j \in 2..(N + 1) : longer[j] = s[j - 1]
  BY Prepended
<1> HIDE DEF longer
<1>2. PICK a : /\ a[0] = SystemTokens /\ Spent(s) = a[N]
               /\ \A n \in 1..N : a[n] = a[n - 1] + TokensOf(s[N - n + 1])
  BY <1>1, SpentIs
<1>3. PICK b : /\ b[0] = SystemTokens /\ Spent(longer) = b[Len(longer)]
               /\ \A n \in 1..Len(longer) : b[n] = b[n - 1] + TokensOf(longer[Len(longer) - n + 1])
  <2>1. Len(longer) \in Nat
    BY <1>1
  <2>2. QED BY <2>1, SpentIs
<1> HIDE DEF N
<1> DEFINE Same == {n \in 0..N : a[n] = b[n]}
<1>4. 0 \in Same
  BY <1>1, <1>2, <1>3
<1>5. ASSUME NEW n \in 0..(N - 1), n \in Same PROVE n + 1 \in Same
  <2>1. /\ n + 1 \in 1..N /\ n + 1 \in 1..Len(longer) /\ (n + 1) - 1 = n
        /\ N - (n + 1) + 1 = N - n /\ Len(longer) - (n + 1) + 1 = N - n + 1
        /\ N - n + 1 \in 2..(N + 1) /\ (N - n + 1) - 1 = N - n
    BY <1>1
  <2>2. longer[N - n + 1] = s[N - n]
    BY <1>1, <2>1
  <2>3. a[n + 1] = a[n] + TokensOf(s[N - n]) /\ b[n + 1] = b[n] + TokensOf(longer[N - n + 1])
    BY <1>2, <1>3, <2>1
  <2>4. QED BY <1>5, <2>1, <2>2, <2>3
<1>6. N \in Same
  <2> HIDE DEF Same
  <2>1. 0..N \subseteq Same
    BY <1>1, <1>4, <1>5, UpTo
  <2>2. QED BY <1>1, <2>1
<1>7. b[N + 1] = b[N] + TokensOf(m)
  <2>1. N + 1 \in 1..Len(longer) /\ (N + 1) - 1 = N /\ Len(longer) - (N + 1) + 1 = 1
    BY <1>1
  <2>2. QED BY <1>1, <1>3, <2>1
<1>8. QED BY <1>1, <1>2, <1>3, <1>6, <1>7 DEF longer

\* What is shown of a message: itself or, of the oldest, what fits of it.
Shows(shown, j, m) ==
    shown[j] = m \/ (j = 1 /\ shown[j].trimmed /\ shown[j].from = m.from /\ shown[j].bytes > 0)

\* What is kept of the n newest messages: the newest of them, within the budget.
Keeps(acc, recent, n) ==
    /\ acc \in [kept : Seq(Messages), tokens : Nat, full : BOOLEAN]
    /\ Len(acc.kept) =< n
    /\ ~acc.full => Len(acc.kept) = n /\ Spent(acc.kept) = acc.tokens
    /\ \A j \in 1..Len(acc.kept) : Shows(acc.kept, j, recent[Len(recent) - Len(acc.kept) + j])
    /\ ~acc.full => \A j \in 1..Len(acc.kept) : acc.kept[j] = recent[Len(recent) - Len(acc.kept) + j]
    /\ acc.kept # <<>> => Spent(acc.kept) =< MaxTokenLength

LEMMA Budget == MaxTokenLength \in Nat /\ SystemTokens \in Nat /\ MaxRoutingTurns \in Nat \ {0}
BY AgentSelectorAssumption

LEMMA Tokens == \A m \in Messages : TokensOf(m) \in Nat
<1>1. \A b \in Nat : b \div 4 \in Nat
  OBVIOUS
<1>2. \A m \in Messages : m.bytes \in Nat
  BY DEF Messages
<1>3. QED BY <1>1, <1>2 DEF TokensOf, TokenLengthDivisor

\* What fits of a message takes what is left of the budget.
LEMMA Trimmed ==
    ASSUME NEW m \in Messages, NEW left \in Nat \ {0}
    PROVE  LET t == TrimMiddle(m, left * TokenLengthDivisor)
           IN  /\ t \in Messages /\ t.trimmed /\ t.from = m.from /\ t.bytes > 0
               /\ TokensOf(t) = left
<1> DEFINE t == [m EXCEPT !.bytes = left * 4, !.trimmed = TRUE]
<1>1. left * 4 \in Nat /\ left * 4 > 0 /\ (left * 4) \div 4 = left
  OBVIOUS
<1>2. t \in Messages /\ t.trimmed /\ t.from = m.from /\ t.bytes = left * 4
  BY <1>1 DEF Messages
<1>3. QED BY <1>1, <1>2 DEF TrimMiddle, TokensOf, TokenLengthDivisor

\* kept is the n newest messages of recent, as they are.
TheNewest(kept, recent, n) ==
    /\ kept \in Seq(Messages) /\ Len(kept) = n
    /\ \A j \in 1..n : kept[j] = recent[Len(recent) - n + j]

\* m is the message old, or what was left of it.
Stands(m, old) == m = old \/ (m.trimmed /\ m.from = old.from /\ m.bytes > 0)

\* The n messages more show the n newest of recent.
Shown(more, recent, n) ==
    /\ more \in Seq(Messages) /\ Len(more) = n /\ more # <<>>
    /\ \A j \in 1..Len(more) : Shows(more, j, recent[Len(recent) - Len(more) + j])

\* A message kept before the ones that are.
LEMMA OneKept ==
    ASSUME NEW recent \in Seq(Messages), NEW n \in 0..(Len(recent) - 1),
           NEW kept, TheNewest(kept, recent, n),
           NEW m \in Messages, Stands(m, recent[Len(recent) - n]),
           NEW more, more = <<m>> \o kept
    PROVE  /\ Shown(more, recent, n + 1)
           /\ m = recent[Len(recent) - n] => TheNewest(more, recent, n + 1)
<1> DEFINE N == Len(recent)
<1>0. kept \in Seq(Messages) /\ Len(kept) = n /\ \A j \in 1..n : kept[j] = recent[N - n + j]
  BY DEF TheNewest
<1>1. /\ more \in Seq(Messages) /\ Len(more) = n + 1
      /\ more[1] = m /\ \A j \in 2..(n + 1) : more[j] = kept[j - 1]
  BY <1>0, Prepended
<1>2. more # <<>> /\ N \in Nat /\ n \in Nat
  BY <1>1
<1> HIDE DEF N
<1>3. \A j \in 2..(n + 1) : more[j] = recent[N - (n + 1) + j]
  <2> SUFFICES ASSUME NEW j \in 2..(n + 1) PROVE more[j] = recent[N - (n + 1) + j]
    OBVIOUS
  <2>1. j - 1 \in 1..n /\ N - n + (j - 1) = N - (n + 1) + j
    BY <1>2
  <2>2. kept[j - 1] = recent[N - n + (j - 1)]
    BY <1>0, <2>1
  <2>3. QED BY <1>1, <2>1, <2>2
<1>4. N - (n + 1) + 1 = N - n
  BY <1>2
<1>5. Shows(more, 1, recent[N - (n + 1) + 1])
  <2>1. Stands(m, recent[N - n])
    BY DEF N
  <2>2. QED BY <1>1, <1>4, <2>1 DEF Shows, Stands
<1>6. \A j \in 1..(n + 1) : Shows(more, j, recent[N - (n + 1) + j])
  <2> SUFFICES ASSUME NEW j \in 1..(n + 1) PROVE Shows(more, j, recent[N - (n + 1) + j])
    OBVIOUS
  <2>1. CASE j = 1
    BY <1>5, <2>1
  <2>2. CASE j \in 2..(n + 1)
    BY <1>3, <2>2 DEF Shows
  <2>3. j = 1 \/ j \in 2..(n + 1)
    BY <1>2
  <2>4. QED BY <2>1, <2>2, <2>3
<1>7. m = recent[N - n] => \A j \in 1..(n + 1) : more[j] = recent[N - (n + 1) + j]
  <2> SUFFICES ASSUME m = recent[N - n], NEW j \in 1..(n + 1) PROVE more[j] = recent[N - (n + 1) + j]
    OBVIOUS
  <2>1. CASE j = 1
    BY <1>1, <1>4, <2>1
  <2>2. CASE j \in 2..(n + 1)
    BY <1>3, <2>2
  <2>3. j = 1 \/ j \in 2..(n + 1)
    BY <1>2
  <2>4. QED BY <2>1, <2>2, <2>3
<1>8. Len(more) = n + 1
  BY <1>1
<1>9. /\ \A j \in 1..Len(more) : Shows(more, j, recent[N - Len(more) + j])
      /\ m = recent[N - n] => \A j \in 1..Len(more) : more[j] = recent[N - Len(more) + j]
  BY <1>6, <1>7, <1>8
<1>10. Shown(more, recent, n + 1)
  BY <1>1, <1>2, <1>9 DEF Shown, N
<1>11. m = recent[N - n] => TheNewest(more, recent, n + 1)
  BY <1>1, <1>7 DEF TheNewest, N
<1>12. QED BY <1>10, <1>11 DEF N

LEMMA TakeKeeps ==
    ASSUME NEW recent \in Seq(Messages), NEW n \in 0..(Len(recent) - 1), NEW acc, Keeps(acc, recent, n)
    PROVE  Keeps(TakeMessage(recent[Len(recent) - n], acc), recent, n + 1)
<1> DEFINE m == recent[Len(recent) - n]
           left == MaxTokenLength - acc.tokens
           cost == TokensOf(m)
           next == TakeMessage(m, acc)
<1>1. Len(recent) - n \in 1..Len(recent) /\ n \in Nat /\ Len(recent) \in Nat
  OBVIOUS
<1>2. m \in Messages
  BY <1>1
<1>3. cost \in Nat /\ MaxTokenLength \in Nat
  BY <1>2, Tokens, Budget
<1>4. acc \in [kept : Seq(Messages), tokens : Nat, full : BOOLEAN]
  BY DEF Keeps
<1>5. acc.tokens \in Nat /\ left \in Int /\ acc.full \in BOOLEAN /\ acc.kept \in Seq(Messages)
      /\ Len(acc.kept) \in Nat
  BY <1>3, <1>4
<1>6. CASE acc.full
  <2>1. next = acc
    BY <1>6 DEF TakeMessage
  <2>2. QED BY <1>1, <1>5, <1>6, <2>1 DEF Keeps
<1>7. CASE ~acc.full /\ cost =< left
  <2> DEFINE kept == acc.kept
             more == <<m>> \o kept
  <2>1. next = [acc EXCEPT !.tokens = acc.tokens + cost, !.kept = more]
    BY <1>3, <1>5, <1>7 DEF TakeMessage
  <2>2. /\ kept \in Seq(Messages) /\ Len(kept) = n /\ Spent(kept) = acc.tokens
        /\ \A j \in 1..n : kept[j] = recent[Len(recent) - n + j]
    BY <1>5, <1>7 DEF Keeps
  <2>3. m = recent[Len(recent) - n] /\ Stands(m, recent[Len(recent) - n]) /\ TheNewest(kept, recent, n)
    BY <2>2 DEF Stands, TheNewest
  <2> HIDE DEF m, kept
  <2>4. /\ more \in Seq(Messages) /\ Len(more) = n + 1 /\ more # <<>>
        /\ \A j \in 1..Len(more) : Shows(more, j, recent[Len(recent) - Len(more) + j])
        /\ \A j \in 1..Len(more) : more[j] = recent[Len(recent) - Len(more) + j]
    <3>1. more = <<m>> \o kept
      OBVIOUS
    <3> HIDE DEF more
    <3>2. Shown(more, recent, n + 1) /\ TheNewest(more, recent, n + 1)
      BY <1>2, <2>3, <3>1, OneKept
    <3>3. QED BY <3>2 DEF Shown, TheNewest
  <2>5. Spent(more) = acc.tokens + cost
    BY <1>2, <2>2, SpentMore
  <2> HIDE DEF more, cost, left
  <2>6. next = [kept |-> more, tokens |-> acc.tokens + cost, full |-> FALSE]
    BY <1>4, <1>7, <2>1
  <2>7. acc.tokens + cost =< MaxTokenLength /\ acc.tokens + cost \in Nat
    BY <1>3, <1>5, <1>7 DEF left
  <2> HIDE DEF next
  <2>8. /\ next \in [kept : Seq(Messages), tokens : Nat, full : BOOLEAN]
        /\ next.kept = more /\ next.tokens = Spent(more) /\ ~next.full
        /\ Spent(more) =< MaxTokenLength /\ Len(more) =< n + 1
    BY <1>1, <2>4, <2>5, <2>6, <2>7
  <2>9. Keeps(next, recent, n + 1)
    BY <1>1, <2>4, <2>8 DEF Keeps
  <2>10. QED BY <2>9 DEF next, m
<1>8. CASE ~acc.full /\ cost > left /\ m.role = "user" /\ left > 0
  <2> DEFINE kept == acc.kept
             trimmed == TrimMiddle(m, left * TokenLengthDivisor)
             more == <<trimmed>> \o kept
  <2>1. next = [acc EXCEPT !.full = TRUE, !.kept = more]
    BY <1>3, <1>5, <1>8 DEF TakeMessage
  <2>2. /\ kept \in Seq(Messages) /\ Len(kept) = n /\ Spent(kept) = acc.tokens
        /\ \A j \in 1..n : kept[j] = recent[Len(recent) - n + j]
    BY <1>5, <1>8 DEF Keeps
  <2>3. /\ trimmed \in Messages /\ trimmed.trimmed /\ trimmed.from = m.from /\ trimmed.bytes > 0
        /\ TokensOf(trimmed) = left
    <3>1. left \in Nat \ {0}
      BY <1>5, <1>8
    <3> HIDE DEF left
    <3>2. QED BY <1>2, <3>1, Trimmed
  <2> HIDE DEF trimmed
  <2>4. Stands(trimmed, recent[Len(recent) - n]) /\ TheNewest(kept, recent, n)
    BY <2>2, <2>3 DEF Stands, TheNewest
  <2> HIDE DEF m, kept
  <2>5. /\ more \in Seq(Messages) /\ Len(more) = n + 1 /\ more # <<>>
        /\ \A j \in 1..Len(more) : Shows(more, j, recent[Len(recent) - Len(more) + j])
    <3>1. more = <<trimmed>> \o kept
      OBVIOUS
    <3> HIDE DEF more
    <3>2. Shown(more, recent, n + 1)
      BY <2>3, <2>4, <3>1, OneKept
    <3>3. QED BY <3>2 DEF Shown
  <2>6. Spent(more) = acc.tokens + left
    BY <2>2, <2>3, SpentMore
  <2> HIDE DEF more
  <2>7. next = [kept |-> more, tokens |-> acc.tokens, full |-> TRUE]
    BY <1>4, <2>1
  <2>8. acc.tokens + left = MaxTokenLength
    BY <1>3, <1>5
  <2> HIDE DEF next, left
  <2>9. /\ next \in [kept : Seq(Messages), tokens : Nat, full : BOOLEAN]
        /\ next.kept = more /\ next.full /\ Spent(more) =< MaxTokenLength /\ Len(more) =< n + 1
    BY <1>1, <1>3, <1>5, <2>5, <2>6, <2>7, <2>8
  <2>10. Keeps(next, recent, n + 1)
    BY <1>1, <2>5, <2>9 DEF Keeps
  <2>11. QED BY <2>10 DEF next, m
<1>9. CASE ~acc.full /\ cost > left /\ ~(m.role = "user" /\ left > 0)
  <2>1. next = [acc EXCEPT !.full = TRUE]
    BY <1>3, <1>5, <1>9 DEF TakeMessage
  <2> HIDE DEF m, cost, left, next
  <2>2. next = [kept |-> acc.kept, tokens |-> acc.tokens, full |-> TRUE]
    BY <1>4, <2>1
  <2>3. Keeps(next, recent, n + 1)
    BY <1>1, <1>5, <2>2 DEF Keeps
  <2>4. QED BY <2>3 DEF next, m
<1>10. cost =< left \/ cost > left
  BY <1>3, <1>5
<1>11. QED BY <1>5, <1>6, <1>7, <1>8, <1>9, <1>10

\* What is taken of the newest messages is kept of them.
LEMMA TakenKeeps ==
    ASSUME NEW recent \in Seq(Messages)
    PROVE  \E acc : Keeps(acc, recent, Len(recent)) /\ Taken(recent) = acc.kept
<1> DEFINE N == Len(recent)
<1>1. N \in Nat
  OBVIOUS
<1>2. PICK after : /\ after[0] = TakenNothing /\ Taken(recent) = after[N].kept
                   /\ \A n \in 1..N : after[n] = TakeMessage(recent[N - n + 1], after[n - 1])
  BY TakenIs
<1> DEFINE S == {n \in 0..N : Keeps(after[n], recent, n)}
<1>3. 0 \in S
  <2>1. Spent(<<>>) = SystemTokens
    <3> DEFINE none == <<>>
    <3>1. Len(none) = 0 /\ Len(none) \in Nat
      OBVIOUS
    <3> HIDE DEF none
    <3>2. PICK sum : sum[0] = SystemTokens /\ Spent(none) = sum[Len(none)]
      BY <3>1, SpentIs
    <3>3. QED BY <3>1, <3>2 DEF none
  <2>2. /\ TakenNothing \in [kept : Seq(Messages), tokens : Nat, full : BOOLEAN]
        /\ TakenNothing.kept = <<>> /\ TakenNothing.tokens = SystemTokens /\ ~TakenNothing.full
        /\ Len(<<>>) = 0
    BY Budget DEF TakenNothing
  <2>3. Keeps(TakenNothing, recent, 0)
    BY <2>1, <2>2 DEF Keeps
  <2>4. QED BY <1>1, <1>2, <2>3
<1>4. ASSUME NEW n \in 0..(N - 1), n \in S PROVE n + 1 \in S
  <2>1. n + 1 \in 1..N /\ (n + 1) - 1 = n /\ N - (n + 1) + 1 = N - n
    BY <1>1
  <2>2. after[n + 1] = TakeMessage(recent[N - n], after[n])
    BY <1>2, <2>1
  <2>3. Keeps(after[n], recent, n)
    BY <1>4
  <2>4. Keeps(TakeMessage(recent[N - n], after[n]), recent, n + 1)
    BY <2>3, TakeKeeps
  <2>5. QED BY <2>1, <2>2, <2>4
<1>5. N \in S
  <2> HIDE DEF S
  <2>1. 0..N \subseteq S
    BY <1>1, <1>3, <1>4, UpTo
  <2>2. QED BY <1>1, <2>1
<1>6. QED BY <1>2, <1>5

\* The newest members of a list.
LEMMA Newest ==
    ASSUME NEW T, NEW all \in Seq(T), NEW i \in 1..(Len(all) + 1)
    PROVE  LET newest == SubSeq(all, i, Len(all))
           IN  /\ newest \in Seq(T) /\ Len(newest) = Len(all) - i + 1
               /\ \A j \in 1..Len(newest) : newest[j] = all[Len(all) - Len(newest) + j]
<1> DEFINE newest == SubSeq(all, i, Len(all))
           k == Len(all) - i + 1
<1>1. /\ k \in Nat /\ Len(all) \in Nat /\ i \in Nat /\ i = Len(all) - k + 1
      /\ \A j \in 1..k : i + j - 1 \in 1..Len(all) /\ i + j - 1 = Len(all) - k + j
  OBVIOUS
<1>2. newest = [j \in 1..k |-> all[i + j - 1]]
  BY <1>1
<1> HIDE DEF newest, k
<1>3. \A j \in 1..k : all[i + j - 1] \in T
  BY <1>1
<1>4. newest \in Seq(T) /\ Len(newest) = k
  BY <1>1, <1>2, <1>3
<1>5. \A j \in 1..k : newest[j] = all[Len(all) - k + j]
  BY <1>1, <1>2
<1>6. QED BY <1>4, <1>5 DEF newest, k

\* The newest messages that can be classified.
LEMMA RecentIs ==
    ASSUME NEW messages \in Seq(Messages)
    PROVE  LET all == Filtered(messages)
               recent == Recent(messages)
           IN  /\ all \in Seq(Messages) /\ recent \in Seq(Messages)
               /\ Len(recent) =< MaxRoutingTurns
               /\ all # <<>> => recent # <<>>
               /\ \A j \in 1..Len(recent) : recent[j] = all[Len(all) - Len(recent) + j]
<1> DEFINE all == Filtered(messages)
           first == IF Len(all) > MaxRoutingTurns THEN Len(all) - MaxRoutingTurns + 1 ELSE 1
           recent == SubSeq(all, first, Len(all))
<1>1. all \in Seq(Messages)
  <2> DEFINE positions == {i \in DOMAIN messages : Classified(messages[i])}
  <2>1. Len(messages) \in Nat /\ \A i \in 1..Len(messages) : i \in positions => messages[i] \in Messages
    BY SeqAt
  <2> HIDE DEF positions
  <2>2. Among(messages, positions) \in Seq(Messages)
    BY <2>1, AmongIn
  <2>3. QED BY <2>2 DEF Filtered, positions
<1>2. Recent(messages) = recent
  BY DEF Recent
<1> HIDE DEF all
<1>3. /\ first \in 1..(Len(all) + 1) /\ Len(all) \in Nat
      /\ Len(all) - first + 1 =< MaxRoutingTurns
      /\ all # <<>> => Len(all) - first + 1 > 0
  <2>1. Len(all) \in Nat /\ (all # <<>> => Len(all) > 0)
    BY <1>1
  <2>2. MaxRoutingTurns \in Nat \ {0}
    BY Budget
  <2>3. CASE Len(all) > MaxRoutingTurns
    BY <2>1, <2>2, <2>3
  <2>4. CASE ~(Len(all) > MaxRoutingTurns)
    BY <2>1, <2>2, <2>4
  <2>5. QED BY <2>3, <2>4
<1> HIDE DEF first
<1>4. /\ recent \in Seq(Messages) /\ Len(recent) = Len(all) - first + 1
      /\ \A j \in 1..Len(recent) : recent[j] = all[Len(all) - Len(recent) + j]
  BY <1>1, <1>3, Newest
<1> HIDE DEF recent
<1>5. all # <<>> => recent # <<>>
  BY <1>3, <1>4
<1>6. QED BY <1>1, <1>2, <1>3, <1>4, <1>5 DEF all

\* What is shown of a conversation whose messages that can be classified are all.
ShowsNewest(shown, all) ==
    /\ Len(shown) =< MaxRoutingTurns
    /\ all # <<>> => shown # <<>>
    /\ \A k \in DOMAIN shown : Shows(shown, k, all[Len(all) - Len(shown) + k])
    /\ Len(shown) > 1 => Spent(shown) =< MaxTokenLength

LEMMA ConversationShows ==
    ASSUME NEW messages \in Seq(Messages)
    PROVE  ShowsNewest(SelectedConversation(messages), Filtered(messages))
<1> DEFINE all == Filtered(messages)
           recent == Recent(messages)
           kept == Taken(recent)
           shown == SelectedConversation(messages)
<1>1. /\ all \in Seq(Messages) /\ recent \in Seq(Messages)
      /\ Len(recent) =< MaxRoutingTurns
      /\ all # <<>> => recent # <<>>
      /\ \A j \in 1..Len(recent) : recent[j] = all[Len(all) - Len(recent) + j]
  BY RecentIs
<1>2. shown = IF kept = <<>> /\ recent # <<>> THEN <<Last(recent)>> ELSE kept
  BY DEF SelectedConversation
<1> HIDE DEF all, shown
<1>3. PICK acc : Keeps(acc, recent, Len(recent)) /\ kept = acc.kept
  <2> HIDE DEF recent
  <2>1. QED BY <1>1, TakenKeeps
<1> HIDE DEF kept, recent
<1>4. /\ kept \in Seq(Messages) /\ Len(kept) =< Len(recent)
      /\ \A j \in 1..Len(kept) : Shows(kept, j, recent[Len(recent) - Len(kept) + j])
      /\ kept # <<>> => Spent(kept) =< MaxTokenLength
  <2>1. acc.kept \in Seq(Messages)
    BY <1>3 DEF Keeps
  <2>2. QED BY <1>3, <2>1 DEF Keeps
<1>5. Len(kept) \in Nat /\ Len(recent) \in Nat /\ Len(all) \in Nat
  BY <1>1, <1>4
<1>6. CASE kept = <<>> /\ recent # <<>>
  <2> DEFINE z == Last(recent)
  <2>1. Len(recent) \in 1..Len(recent) /\ z = recent[Len(recent)]
    BY <1>1, <1>5, <1>6 DEF Last
  <2>2. z = all[Len(all) - Len(recent) + Len(recent)]
    BY <1>1, <2>1
  <2>3. z = all[Len(all) - 1 + 1]
    BY <1>5, <2>2
  <2> HIDE DEF z
  <2>4. shown = <<z>>
    BY <1>2, <1>6 DEF z
  <2>5. Len(shown) = 1 /\ DOMAIN shown = {1} /\ shown[1] = z /\ shown # <<>>
    BY <2>4
  <2>6. \A k \in DOMAIN shown : Shows(shown, k, all[Len(all) - Len(shown) + k])
    <3>1. shown[1] = all[Len(all) - Len(shown) + 1]
      BY <2>3, <2>5
    <3>2. Shows(shown, 1, all[Len(all) - Len(shown) + 1])
      BY <3>1 DEF Shows
    <3>3. QED BY <2>5, <3>2
  <2>7. Len(shown) =< MaxRoutingTurns /\ ~(Len(shown) > 1)
    BY <2>5, Budget
  <2>8. ShowsNewest(shown, all)
    BY <2>5, <2>6, <2>7 DEF ShowsNewest
  <2>9. QED BY <2>8 DEF shown, all
<1>7. CASE ~(kept = <<>> /\ recent # <<>>)
  <2>1. shown = kept /\ (recent # <<>> => kept # <<>>)
    BY <1>2, <1>7
  <2>2. Len(kept) =< MaxRoutingTurns /\ (all # <<>> => kept # <<>>) /\ DOMAIN kept = 1..Len(kept)
    BY <1>1, <1>4, <1>5, <2>1, Budget
  <2>3. \A k \in 1..Len(kept) : Shows(kept, k, all[Len(all) - Len(kept) + k])
    <3> SUFFICES ASSUME NEW k \in 1..Len(kept) PROVE Shows(kept, k, all[Len(all) - Len(kept) + k])
      OBVIOUS
    <3>1. /\ Len(recent) - Len(kept) + k \in 1..Len(recent)
          /\ Len(all) - Len(recent) + (Len(recent) - Len(kept) + k) = Len(all) - Len(kept) + k
      BY <1>4, <1>5
    <3>2. recent[Len(recent) - Len(kept) + k] = all[Len(all) - Len(recent) + (Len(recent) - Len(kept) + k)]
      BY <1>1, <3>1
    <3>3. QED BY <1>4, <3>1, <3>2
  <2>4. Len(kept) > 1 => Spent(kept) =< MaxTokenLength
    <3>1. Len(kept) > 1 => kept # <<>>
      BY <1>4
    <3>2. QED BY <1>4, <3>1
  <2>5. \A k \in DOMAIN kept : Shows(kept, k, all[Len(all) - Len(kept) + k])
    BY <2>2, <2>3
  <2>6. ShowsNewest(kept, all)
    BY <2>2, <2>4, <2>5 DEF ShowsNewest
  <2>7. QED BY <2>1, <2>6 DEF shown, all
<1>8. QED BY <1>6, <1>7

\* The model is asked about the turn as it is.
PromptInv ==
    /\ \E S : calls \in Seq(S)
    /\ phase = "idle" => calls = <<>>
    /\ \A i \in DOMAIN calls : calls[i].kind = "select" =>
          turn \in Seq(Messages) /\ calls[i].given = Chat(SelectedConversation(turn))

\* A call that is no question to the model.
LEMMA CallKeepsPrompt ==
    ASSUME PromptInv, phase' # "idle", UNCHANGED turn,
           NEW e, calls' = Append(calls, e), e.kind # "select"
    PROVE  PromptInv'
<1>1. PICK S : calls \in Seq(S)
  BY DEF PromptInv
<1> DEFINE n == Len(calls)
<1>2. /\ calls' \in Seq(S \cup {e}) /\ DOMAIN calls = 1 .. n /\ n \in Nat
      /\ DOMAIN calls' = 1 .. n + 1
      /\ \A i \in 1 .. n : calls'[i] = calls[i]
      /\ calls'[n + 1] = e
  BY <1>1, Appended
<1> HIDE DEF n
<1>3. \A i \in DOMAIN calls' : calls'[i].kind = "select" => i \in DOMAIN calls /\ calls'[i] = calls[i]
  BY <1>2
<1>4. QED BY <1>2, <1>3 DEF PromptInv

LEMMA CallsKeepPrompt ==
    ASSUME PromptInv, phase' # "idle", UNCHANGED turn,
           NEW d, NEW e, calls' = calls \o <<d, e>>, d.kind # "select", e.kind # "select"
    PROVE  PromptInv'
<1>1. PICK S : calls \in Seq(S)
  BY DEF PromptInv
<1> DEFINE n == Len(calls)
<1>2. /\ calls' \in Seq(S \cup {d, e}) /\ DOMAIN calls = 1 .. n /\ n \in Nat
      /\ DOMAIN calls' = 1 .. n + 2
      /\ \A i \in 1 .. n : calls'[i] = calls[i]
      /\ calls'[n + 1] = d /\ calls'[n + 2] = e
  BY <1>1, AppendedTwice
<1> HIDE DEF n
<1>3. \A i \in DOMAIN calls' : calls'[i].kind = "select" => i \in DOMAIN calls /\ calls'[i] = calls[i]
  BY <1>2
<1>4. QED BY <1>2, <1>3 DEF PromptInv

LEMMA NoCallKeepsPrompt ==
    ASSUME PromptInv, phase' # "idle", UNCHANGED <<turn, calls>>
    PROVE  PromptInv'
BY DEF PromptInv

\* The first call of a request, if it has made one.
LEMMA FirstCallKeepsPrompt ==
    ASSUME calls' = <<>> \/ phase' # "idle",
           \/ calls' = <<>>
           \/ \E c : /\ calls' = <<c>>
                     /\ c.kind = "select" =>
                           turn' \in Seq(Messages) /\ c.given = Chat(SelectedConversation(turn'))
    PROVE  PromptInv'
<1>1. CASE calls' = <<>>
  <2>1. calls' \in Seq({})
    BY <1>1
  <2>2. QED BY <1>1, <2>1 DEF PromptInv
<1>2. ASSUME NEW c, calls' = <<c>>, phase' # "idle",
             c.kind = "select" =>
                turn' \in Seq(Messages) /\ c.given = Chat(SelectedConversation(turn'))
      PROVE  PromptInv'
  <2>1. calls' \in Seq({c}) /\ DOMAIN calls' = {1} /\ calls'[1] = c
    BY <1>2
  <2>2. QED BY <1>2, <2>1 DEF PromptInv
<1>3. QED BY <1>1, <1>2

LEMMA RequestKeepsPrompt ==
    ASSUME PromptInv, NEW r \in Requests, AgentChat(r) \/ AgentResume(r)
    PROVE  PromptInv'
<1>1. calls = <<>>
  BY DEF PromptInv, AgentChat, AgentResume
<1>2. CASE AgentChat(r)
  <2>1. CASE ~Parsed(r)
    <3>1. calls' = <<>>
      BY <1>1, <1>2, <2>1 DEF AgentChat
    <3>2. QED BY <3>1, FirstCallKeepsPrompt
  <2>2. CASE Parsed(r)
    <3>1. PICK found \in Lookups(r), reply \in RepliesTo(r) :
             LET messages == Merged(r, found)
             IN /\ turn' = messages
                /\ calls' = IF found = "missing" THEN <<>> ELSE Asked(r, messages, reply)
                /\ \/ Refused \/ Answered("closed", "plano", "error")
                   \/ \E ids : StartAgent(r, ids, 1, messages)
      BY <1>2, <2>2 DEF AgentChat
    <3> DEFINE messages == Merged(r, found)
    <3>2. phase' # "idle"
      BY <3>1 DEF Refused, Refuse, Answered, StartAgent
    <3>3. messages \in Seq(Messages)
      <4>1. Earlier \in Seq(Messages) /\ r.messages \in Seq(Messages)
        BY <1>2, AgentChainAssumption DEF AgentChat
      <4>2. Earlier \o r.messages \in Seq(Messages)
        BY <4>1
      <4>3. QED BY <4>1, <4>2 DEF Merged
    <3>4. calls' = <<>> \/ calls' = Asked(r, messages, reply)
      BY <3>1
    <3>5. turn' = messages
      BY <3>1
    <3> HIDE DEF messages
    <3>6. \/ calls' = <<>>
          \/ \E c : calls' = <<c>> /\ c.given = Chat(SelectedConversation(messages))
      BY <3>4 DEF Asked, Made
    <3>7. QED BY <3>2, <3>3, <3>5, <3>6, FirstCallKeepsPrompt
  <2>3. QED BY <2>1, <2>2
<1>3. CASE AgentResume(r)
  <2>1. phase' # "idle"
    BY <1>3 DEF AgentResume, Refused, Refuse, Answered
  <2>2. calls' = <<>> \/ \E c : calls' = <<c>> /\ c.kind = "agent"
    BY <1>1, <1>3 DEF AgentResume, Made
  <2>3. QED BY <2>1, <2>2, FirstCallKeepsPrompt
<1>4. QED BY <1>2, <1>3

LEMMA FilterKeepsPrompt ==
    ASSUME PromptInv,
           FilterMissing \/ ExecuteRawFilter \/ McpNotJson \/ GetNewSessionId \/ ExecuteMcpFilterRaw
    PROVE  PromptInv'
<1>1. phase = "filter" /\ UNCHANGED turn
  BY DEF FilterMissing, ExecuteRawFilter, McpNotJson, GetNewSessionId, ExecuteMcpFilterRaw,
         McpFilter, Filters, handling
<1>2. phase' # "idle"
  BY <1>1 DEF FilterMissing, ExecuteRawFilter, McpNotJson, GetNewSessionId, ExecuteMcpFilterRaw,
         NextFilter, FilterEnds, Refused, Refuse, Answered
<1>3. CASE FilterMissing \/ McpNotJson
  BY <1>1, <1>2, <1>3, NoCallKeepsPrompt DEF FilterMissing, McpNotJson
<1>4. CASE ExecuteRawFilter \/ ExecuteMcpFilterRaw
  <2>1. \E e : calls' = Append(calls, e) /\ e.kind # "select"
    BY <1>4, MadeFields DEF ExecuteRawFilter, ExecuteMcpFilterRaw, FilterEnds, Log
  <2>2. QED BY <1>1, <1>2, <2>1, CallKeepsPrompt
<1>5. CASE GetNewSessionId
  <2> DEFINE d == Made("initialize", Filter, issued + 1, body, body)
             e == Made("initialized", Filter, issued + 1, body, body)
             c == Made("initialize", Filter, NoSession, body, NotJson)
  <2>1. calls' = Append(calls, c) \/ calls' = calls \o <<d, e>>
    BY <1>5 DEF GetNewSessionId, Log
  <2>2. c.kind # "select" /\ d.kind # "select" /\ e.kind # "select"
    BY DEF Made
  <2> HIDE DEF c, d, e
  <2>3. QED BY <1>1, <1>2, <2>1, <2>2, CallKeepsPrompt, CallsKeepPrompt
<1>6. QED BY <1>3, <1>4, <1>5

LEMMA AgentKeepsPrompt ==
    ASSUME PromptInv, AgentNotFound \/ InvokeRigAgent \/ InvokeAgent
    PROVE  PromptInv'
<1>1. phase = "invoke" /\ UNCHANGED turn
  BY DEF AgentNotFound, InvokeRigAgent, InvokeAgent, Invokes, handling
<1>2. AddReply(ReplyBytes) => phase' # "idle"
  BY DEF AddReply, StartAgent, Refused, Refuse, Answered
<1>3. phase' # "idle"
  BY <1>1, <1>2 DEF AgentNotFound, InvokeRigAgent, InvokeAgent, CollectFullResponse,
      BuildResponsesApiResponse, CreateStreamingResponse, RigChatCompletionResponse,
      Refused, Refuse, Answered
<1>4. CASE AgentNotFound
  BY <1>1, <1>3, <1>4, NoCallKeepsPrompt DEF AgentNotFound
<1>5. CASE InvokeRigAgent \/ InvokeAgent
  <2>1. \E given, gave : Log(Made("agent", AgentName, NoSession, given, gave))
    BY <1>5 DEF InvokeRigAgent, InvokeAgent
  <2>2. \E e : calls' = Append(calls, e) /\ e.kind # "select"
    BY <2>1, MadeFields DEF Log
  <2>3. QED BY <1>1, <1>3, <2>2, CallKeepsPrompt
<1>6. QED BY <1>4, <1>5

LEMMA StepKeepsPrompt == PromptInv /\ [Next]_vars => PromptInv'
<1> SUFFICES ASSUME PromptInv, [Next]_vars PROVE PromptInv'
  OBVIOUS
<1>1. ASSUME NEW r \in Requests, AgentChat(r) \/ AgentResume(r) PROVE PromptInv'
  BY <1>1, RequestKeepsPrompt
<1>2. CASE Close
  BY <1>2, FirstCallKeepsPrompt DEF Close
<1>3. CASE UNCHANGED vars
  BY <1>3 DEF vars, PromptInv
<1>4. QED BY <1>1, <1>2, <1>3, FilterKeepsPrompt, AgentKeepsPrompt DEF Next

\* The model that selects agents is shown the newest messages that can be
\* classified, in order and without a gap, only the oldest of them trimmed, and
\* more than the newest alone only within the budget; whatever the conversation,
\* the budget and the turns.
THEOREM PromptAlwaysKeepsIntent == Spec => []PromptKeepsIntent
<1>1. Init => PromptInv
  <2> SUFFICES ASSUME Init PROVE PromptInv
    OBVIOUS
  <2>1. calls \in Seq({})
    BY DEF Init
  <2>2. QED BY <2>1 DEF Init, PromptInv
<1>2. PromptInv => PromptKeepsIntent
  <2> SUFFICES ASSUME PromptInv, NEW i \in DOMAIN calls, calls[i].kind = "select"
               PROVE  ShowsNewest(calls[i].given.messages, Filtered(turn))
    BY DEF PromptKeepsIntent, ShowsNewest, Shows
  <2>1. turn \in Seq(Messages) /\ calls[i].given = Chat(SelectedConversation(turn))
    BY DEF PromptInv
  <2>2. calls[i].given.messages = SelectedConversation(turn)
    BY <2>1 DEF Chat
  <2>3. QED BY <2>1, <2>2, ConversationShows
<1>3. QED BY <1>1, <1>2, StepKeepsPrompt, PTL DEF Spec

=============================================================================
