----------------------------- MODULE MCSignals -----------------------------
(***************************************************************************)
(* Small instances of Signals: conversations of tool calls only, one or    *)
(* several at a time, of remarks of every kind, of long repetition, and of *)
(* all together.                                                           *)
(***************************************************************************)
EXTENDS Signals

Text(marks, topic) == [marks |-> marks, topic |-> topic, wording |-> 1]

User(marks, topic) == [role |-> "user", text |-> Text(marks, topic), calls |-> <<>>]
Agent(text, calls) == [role |-> "assistant", text |-> text, calls |-> calls]
Tool(marks) == [role |-> "tool", text |-> Text(marks, NoTopic), calls |-> <<>>]

Call(tool, args) == Agent(EmptyText, <<[tool |-> tool, args |-> args]>>)

\* A round of tools, in calls of one message.
Round(tools) == Agent(EmptyText, [k \in DOMAIN tools |-> [tool |-> tools[k], args |-> 1]])

MCDialogues == {
    [length |-> 7, made_of |-> {Call("a", 1), Call("a", 2), Call("b", 1)}],
    [length |-> 9, made_of |-> {Call("a", 1), Call("b", 1)}],
    [length |-> 7, made_of |-> {Round(<<"a", "b">>), Round(<<"a", "b", "c">>)}],
    [length |-> 7, made_of |-> {User({}, 1), Agent(Text({}, 1), <<>>)}],
    [length |-> 3, made_of |->
        {User({"gratitude", "positive"}, 1), User({"correction"}, 1), User({"shouting"}, NoTopic),
         User({"complaint"}, 1), User({"quit"}, NoTopic), Tool({"bad_query"}), Tool({"timeout"})}],
    [length |-> 4, made_of |->
        {[role |-> "system", text |-> Text({}, 1), calls |-> <<>>],
         User({}, 1), User({"complaint"}, NoTopic), Tool({"state_error"}),
         Agent(Text({}, 2), [k \in 1 .. 4 |-> [tool |-> "a", args |-> 1]])}]}

=============================================================================
