------------------------------ MODULE Signals ------------------------------
(***************************************************************************)
(* The signal analyzer of brightstaff (signals/): when an answer has been  *)
(* passed on, detectors look through the messages of the request for       *)
(* trouble between user and agent, failing tools and loops of tool calls,  *)
(* and the trace gets a score, a quality and, for trouble, a flag.         *)
(*                                                                         *)
(* A text is what the detectors tell apart: the pattern families it        *)
(* matches (its marks), what it is about and how it is worded.             *)
(***************************************************************************)
EXTENDS Integers, SequencesExt

CONSTANTS
    Dialogues,       \* conversations: the messages they are made of, how long
    BaselineTurns,   \* user turns a conversation may take: baseline_turns
    MaxMessages,     \* rows that are analysed: max_messages
    NoTopic          \* of a text too short to be compared with another

EmptyText == [marks |-> {}, topic |-> NoTopic, wording |-> 0]

\* A message of a request: its role, a text and a list of calls.
IsMessage(m) ==
    /\ m = [role |-> m.role, text |-> m.text, calls |-> m.calls]
    /\ m.text = [marks |-> m.text.marks, topic |-> m.text.topic, wording |-> m.text.wording]
    /\ m.calls \in Seq(Range(m.calls))

ASSUME SignalsAssumption ==
    /\ BaselineTurns \in Nat /\ MaxMessages \in Nat
    /\ \A d \in Dialogues : \A m \in d.made_of : IsMessage(m)

VARIABLES
    dialogue,    \* the conversation being held
    messages,    \* its messages so far
    report       \* what the trace was given for them, if it was

signalsVars == <<dialogue, messages, report>>

NoReport == [quality |-> "none"]

\* The first of the pattern families of order that a text matches, if any.
FirstOf(order, marks) ==
    {order[k] : k \in {k \in DOMAIN order :
        order[k] \in marks /\ \A j \in 1 .. k - 1 : order[j] \notin marks}}

-----------------------------------------------------------------------------
(* Rows: messages_to_sharegpt, analyze_sharegpt *)

\* An assistant's calls are rows of their own after its text.
RowsOf(m) ==
    CASE m.role = "user" -> <<[from |-> "human", text |-> m.text]>>
      [] m.role = "assistant" ->
            (IF m.text = EmptyText THEN <<>> ELSE <<[from |-> "gpt", text |-> m.text]>>)
            \o [k \in DOMAIN m.calls |->
                    [from |-> "function_call", tool |-> m.calls[k].tool, args |-> m.calls[k].args]]
      [] m.role = "tool" -> <<[from |-> "observation", text |-> m.text]>>
      [] OTHER -> <<>>

AllRows(msgs) ==
    LET upto[n \in 0 .. Len(msgs)] == IF n = 0 THEN <<>> ELSE upto[n - 1] \o RowsOf(msgs[n])
    IN  upto[Len(msgs)]

\* Only the last MaxMessages rows are looked at.
Slice(rows) == SubSeq(rows, 1 + Max({0, Len(rows) - MaxMessages}), Len(rows))

Turns(rows) == {i \in DOMAIN rows : rows[i].from = "human"}

\* What user or agent said: normalized messages.
Said(rows, who) == {i \in DOMAIN rows : rows[i].from = who /\ rows[i].text # EmptyText}

-----------------------------------------------------------------------------
(* Interaction *)

SimilarRephrase(text, earlier) ==
    /\ text.topic # NoTopic
    /\ text.topic = earlier.topic
    /\ "confirms" \notin text.marks

\* A user's message says the one before again, at most three rows later.
RestatesLast(rows, i) ==
    \E j \in Said(rows, "human") :
        /\ j < i /\ i - j <= 3
        /\ \A k \in Said(rows, "human") : ~(j < k /\ k < i)
        /\ SimilarRephrase(rows[i].text, rows[j].text)

\* At most one signal for a turn: analyze_misalignment.
Misaligned(rows, i) ==
    LET explicit == FirstOf(<<"correction", "rephrase", "clarification">>, rows[i].text.marks)
    IN  IF explicit # {} THEN explicit
        ELSE IF RestatesLast(rows, i) THEN {"restated"}
        ELSE {}

\* Dragging: the efficiency, 1 / (1 + excess / 4), is below one half.
Dragging(rows) ==
    IF Cardinality(Turns(rows)) - BaselineTurns > 4 THEN {[kind |-> "dragging", row |-> Len(rows)]}
    ELSE {}

\* Fault: the two texts to compare with are the last of the whole conversation.
RepeatedLately(rows, i) ==
    LET said == Said(rows, rows[i].from)
    IN  \E j \in said :
            /\ j < i
            /\ Cardinality({k \in said : j <= k}) <= 3
            /\ rows[i].text.topic # NoTopic
            /\ rows[j].text.topic = rows[i].text.topic
            /\ rows[j].text.wording = rows[i].text.wording

\* A text repeats one of the speaker's last two: the near-duplicate test.
Repeated(rows, i) ==
    LET said == Said(rows, rows[i].from)
    IN  \E j \in said :
            /\ j < i
            /\ Cardinality({k \in said : j <= k /\ k < i}) <= 2
            /\ rows[i].text.topic # NoTopic
            /\ rows[j].text.topic = rows[i].text.topic
            /\ rows[j].text.wording = rows[i].text.wording

\* A user's yes or thanks may be repeated.
Repetition(rows) ==
    {[kind |-> "repetition", row |-> i] :
        i \in {i \in Said(rows, "human") \cup Said(rows, "gpt") :
                  /\ ~(rows[i].from = "human" /\ "positive" \in rows[i].text.marks)
                  /\ Repeated(rows, i)}}

\* Fault: a shouted message is not looked at any further.
DisengagedUnlessShouting(marks) ==
    IF "shouting" \in marks THEN {"shouting"}
    ELSE (marks \cap {"escalation", "quit", "profanity", "complaint", "punctuation"})

\* Independent checks, but a complaint only counts for want of anything
\* stronger, and punctuation not after a yes: analyze_disengagement.
Disengaged(marks) ==
    (marks \cap {"shouting", "escalation", "quit", "profanity"})
    \cup (IF "positive" \in marks THEN {} ELSE marks \cap {"punctuation"})
    \cup (IF marks \cap {"escalation", "profanity"} # {} THEN {} ELSE marks \cap {"complaint"})

Satisfied(marks) == FirstOf(<<"gratitude", "confirmation", "success">>, marks)

-----------------------------------------------------------------------------
(* Tools *)

\* An answer of a tool counts as one failure of the agent: analyze_failure.
Failed(marks) ==
    FirstOf(<<"invalid_args", "tool_not_found", "auth_misuse", "state_error", "bad_query">>, marks)

\* ... and as one of the environment: analyze_exhaustion.
Exhausted(marks) ==
    FirstOf(<<"rate_limit", "api_error", "timeout", "network", "malformed_response",
              "context_overflow">>, marks)

RetryThreshold == 3
ParameterDriftThreshold == 3
OscillationCyclesThreshold == 3

Calls(rows) ==
    LET upTo[n \in 0 .. Len(rows)] ==
            IF n = 0 THEN <<>>
            ELSE IF rows[n].from = "function_call" THEN Append(upTo[n - 1], rows[n])
            ELSE upTo[n - 1]
    IN  upTo[Len(rows)]

\* The last of the calls from i on that are like call i.
RunEnd(calls, i, Like(_, _)) ==
    Max({j \in i .. Len(calls) : \A k \in i .. j : Like(calls[k], calls[i])})

SameCall(c, d) == c.tool = d.tool /\ c.args = d.args
SameTool(c, d) == c.tool = d.tool

\* Where a scan of n calls stops: going on from call to call, and after a stop
\* behind its reach, at each call that has one.
Stops(n, reach) ==
    LET upTo[k \in 0 .. n] ==
            IF k = 0 THEN {}
            ELSE IF reach[k] # 0 /\ \A stop \in upTo[k - 1] : reach[stop] < k
            THEN upTo[k - 1] \cup {k}
            ELSE upTo[k - 1]
    IN  upTo[n]

\* Patterns are given by their last call for each first call.
Scan(end, reach) == [i \in Stops(Len(end), reach) |-> end[i]]

\* The end of a run of the same call from i on.
RetryEnd(calls, i) ==
    LET end == RunEnd(calls, i, SameCall)
    IN  IF end - i + 1 >= RetryThreshold THEN end ELSE 0

\* Fault: the scan goes on one call too late.
DetectRetryAndSkip(calls) ==
    LET end == [i \in DOMAIN calls |-> RetryEnd(calls, i)]
    IN  Scan(end, [i \in DOMAIN end |-> IF end[i] = 0 THEN 0 ELSE end[i] + 1])

DetectRetry(calls) ==
    LET end == [i \in DOMAIN calls |-> RetryEnd(calls, i)] IN Scan(end, end)

\* The end of a run of one tool with different arguments.
DriftEnd(calls, i) ==
    LET end == RunEnd(calls, i, SameTool)
    IN  IF /\ end - i + 1 >= ParameterDriftThreshold
           /\ \E k \in i .. end : calls[k].args # calls[i].args
        THEN end ELSE 0

DetectParameterDrift(calls) ==
    LET end == [i \in DOMAIN calls |-> DriftEnd(calls, i)] IN Scan(end, end)

\* How often the names of the p calls from i on come in a row.
Cycles(calls, i, p) ==
    Max({c \in 1 .. (Len(calls) - i + 1) \div p :
            \A k \in i .. i + (c - 1) * p - 1 : calls[k].tool = calls[k + p].tool})

\* The lengths of patterns of several tools that come three times in a row.
Periods(calls, i) ==
    {p \in 2 .. Min({5, Len(calls) - i + 1}) :
        /\ \E k \in i .. i + p - 1 : calls[k].tool # calls[i].tool
        /\ Cycles(calls, i, p) >= OscillationCyclesThreshold}

Period(calls, i) == IF Periods(calls, i) = {} THEN 0 ELSE Min(Periods(calls, i))

OscillationEnd(calls, i) ==
    IF Period(calls, i) = 0 THEN 0
    ELSE i + Cycles(calls, i, Period(calls, i)) * Period(calls, i) - 1

\* The shortest pattern from each call; the scan goes on in its last cycle.
FindOscillations(calls) ==
    LET end == [i \in DOMAIN calls |-> OscillationEnd(calls, i)]
    IN  Scan(end, [i \in DOMAIN end |-> end[i] - Period(calls, i)])

\* Of patterns that overlap the first stays.
DeduplicatePatterns(calls, found) ==
    LET end == [i \in DOMAIN calls |-> IF i \in DOMAIN found THEN found[i] ELSE 0]
    IN  Scan(end, end)

Patterns(kind, found) ==
    {[kind |-> kind, first |-> i, last |-> found[i]] : i \in DOMAIN found}

Overlap(l, o) == l.first <= o.last /\ o.first <= l.last

\* Drift that overlaps a retry is the retry's.
Loops(calls) ==
    LET retries == Patterns("retry", DetectRetry(calls))
        drifts == Patterns("parameter_drift", DetectParameterDrift(calls))
        oscillations == DeduplicatePatterns(calls, FindOscillations(calls))
    IN  IF Len(calls) < RetryThreshold THEN {}
        ELSE retries
             \cup {d \in drifts : \A r \in retries : ~Overlap(d, r)}
             \cup Patterns("oscillation", oscillations)

-----------------------------------------------------------------------------
(* The report *)

\* A signal for every kind that a row is of.
Signs(kinds) == UNION {{[kind |-> k, row |-> i] : k \in kinds[i]} : i \in DOMAIN kinds}

Groups(rows) ==
    LET said == Said(rows, "human")
        results == {i \in DOMAIN rows : rows[i].from = "observation"}
    IN  [misalignment |-> Signs([i \in said |-> Misaligned(rows, i)]),
         stagnation |-> Dragging(rows) \cup Repetition(rows),
         disengagement |-> Signs([i \in said |-> Disengaged(rows[i].text.marks)]),
         satisfaction |-> Signs([i \in said |-> Satisfied(rows[i].text.marks)]),
         failure |-> Signs([i \in results |-> Failed(rows[i].text.marks)]),
         loops |-> Loops(Calls(rows)),
         exhaustion |-> Signs([i \in results |-> Exhausted(rows[i].text.marks)])]

Severity(count) ==
    IF count = 0 THEN 0 ELSE IF count <= 2 THEN 1 ELSE IF count <= 4 THEN 2 ELSE 3

\* The score, from 0 to 100: assess_quality.
Score(groups, userTurns) ==
    LET count(g) == Cardinality(groups[g])
        weight(n) == CASE n = 0 -> 0 [] n = 1 -> 12 [] n = 2 -> 16 [] OTHER -> 19
        leaves == \E s \in groups.disengagement : s.kind \in {"escalation", "quit"}
        unclear == 10 * count("misalignment") > 3 * Max({userTurns, 1})
        stuck == count("stagnation") > 2
        sum == 50 + weight(count("satisfaction"))
                  - 10 * Severity(count("disengagement"))
                  - (IF unclear THEN 15 ELSE 0)
                  - (IF stuck THEN 8 * Severity(count("stagnation")) ELSE 0)
                  - 8 * count("failure") - 5 * count("loops") - 3 * count("exhaustion")
    IN  IF leaves \/ Severity(count("disengagement")) = 3 \/ Severity(count("stagnation")) = 3
        THEN 0
        ELSE Max({0, Min({100, sum})})

QualityOf(score) ==
    CASE score >= 75 -> "excellent"
      [] score >= 60 /\ score < 75 -> "good"
      [] score >= 40 /\ score < 60 -> "neutral"
      [] score >= 25 /\ score < 40 -> "poor"
      [] OTHER -> "severe"

\* What gets the flag in the trace.
IsConcerning(groups, quality) ==
    \/ quality \in {"poor", "severe"}
    \/ groups.disengagement # {}
    \/ Cardinality(groups.stagnation) > 2
    \/ groups.failure # {} \/ groups.loops # {}

Report(msgs) ==
    LET rows == Slice(AllRows(msgs))
        groups == Groups(rows)
        score == Score(groups, Cardinality(Turns(rows)))
        quality == QualityOf(score)
    IN  [quality |-> quality, score |-> score, groups |-> groups,
         flag |-> IsConcerning(groups, quality)]

-----------------------------------------------------------------------------
(* The conversation *)

SignalsInit ==
    /\ dialogue \in Dialogues
    /\ messages = <<>>
    /\ report = NoReport

\* The next message of the conversation.
Continue ==
    /\ Len(messages) < dialogue.length
    /\ \E m \in dialogue.made_of : messages' = Append(messages, m)
    /\ report' = NoReport
    /\ UNCHANGED dialogue

\* The answer to these messages has been streamed: on_complete.
Analyze ==
    /\ messages # <<>>
    /\ report = NoReport
    /\ report' = Report(messages)
    /\ UNCHANGED <<dialogue, messages>>

SignalsNext == Continue \/ Analyze

SignalsSpec == SignalsInit /\ [][SignalsNext]_signalsVars

-----------------------------------------------------------------------------
(* Properties *)

\* What the documentation calls a loop, of the calls from a to b.
IsLoop(calls, a, b) ==
    \/ /\ b - a + 1 >= 3
       /\ \A k \in a .. b : calls[k].tool = calls[a].tool
    \/ \E p \in 2 .. 5 :
          /\ b - a + 1 >= 3 * p /\ (b - a + 1) % p = 0
          /\ \A k \in a .. b - p : calls[k].tool = calls[k + p].tool
          /\ \E k \in a .. b : calls[k].tool # calls[a].tool

Stretches(calls) == [first : DOMAIN calls, last : DOMAIN calls]

\* The scans, which skip what they have reported, hide no loop that stands by
\* itself: whatever stretch of calls is a loop shares a call with a reported
\* one, or with a loop that a reported one overlaps (a drift that has a retry
\* in it, a pattern that starts within another).  And what is reported is a
\* loop; no two reports of a kind, nor a retry and a drift, count the same call.
LoopsFound ==
    report # NoReport =>
        LET calls == Calls(Slice(AllRows(messages)))
            found == report.groups.loops
            loops == {l \in Stretches(calls) : l.last - l.first >= 2 /\ IsLoop(calls, l.first, l.last)}
            hiding == {o \in loops : \E l \in found : Overlap(o, l)}
        IN  /\ \A s \in loops : \E o \in hiding : Overlap(s, o)
            /\ \A l \in found : IsLoop(calls, l.first, l.last)
            /\ \A l, o \in found :
                  /\ l # o
                  /\ l.kind = o.kind \/ {l.kind, o.kind} = {"retry", "parameter_drift"}
                  => ~Overlap(l, o)

\* Signs of trouble, and of content.
TroubleMarks == {"correction", "rephrase", "clarification", "escalation", "quit", "profanity",
        "complaint", "punctuation", "shouting", "invalid_args", "tool_not_found",
        "auth_misuse", "state_error", "bad_query", "rate_limit", "timeout", "context_overflow"}
ContentMarks == {"gratitude", "confirmation", "success", "positive", "confirms"}

\* However the detectors shadow each other within a message and across them:
\* one more sign of trouble in any message never raises the score and never
\* takes the flag away, and one more sign of content never lowers it.
SignsMoveTheScore ==
    report # NoReport =>
        \A i \in DOMAIN messages : messages[i].text # EmptyText =>
            \A mark \in TroubleMarks \cup ContentMarks :
                LET other == Report([messages EXCEPT ![i].text.marks = @ \cup {mark}])
                IN  /\ mark \in TroubleMarks => other.score <= report.score /\ (report.flag => other.flag)
                    /\ mark \in ContentMarks => other.score >= report.score /\ (other.flag => report.flag)

\* As long as no row has left the window, what a conversation gets into only
\* adds up: the next message never makes fewer signals of a category.
EvidenceAccumulates ==
    [][messages' # messages /\ Len(AllRows(messages')) <= MaxMessages =>
          LET before == Groups(AllRows(messages))
              after == Groups(AllRows(messages'))
          IN  \A g \in DOMAIN before : Cardinality(before[g]) <= Cardinality(after[g])]_signalsVars

=============================================================================
