------------------------------ MODULE Messages ------------------------------
(***************************************************************************)
(* The records a thread is made of (internal/message, internal/state).     *)
(* A record keeps what the properties tell apart: its kind, the tokens it  *)
(* counts, whether it renders to text for a summary, the tool calls it     *)
(* asks for (a tool_call record) or the one it answers (a tool_output      *)
(* record), and the turns whose prompts or replies it stands for: one turn *)
(* for an ordinary record, all of those it replaced for a summary.         *)
(***************************************************************************)
EXTENDS Integers, Sequences

CONSTANTS Turns,      \* the turns handed to Agent.Run
          CallIds,    \* the ids the model gives to its tool calls
          NoCall      \* the "call" of a record that answers no call

ASSUME NoCallAssumption == NoCall \notin CallIds

Kinds == {"summary", "human", "assistant", "tool_call", "tool_output"}

Record ==
  [kind : Kinds, tokens : Nat \ {0}, text : BOOLEAN, turns : SUBSET Turns,
   calls : Seq(CallIds), call : CallIds \cup {NoCall}]

Plain(kind, turns, tokens) ==
  [kind |-> kind, tokens |-> tokens, text |-> TRUE, turns |-> turns,
   calls |-> <<>>, call |-> NoCall]

Human(t, tokens)        == Plain("human", {t}, tokens)
Assistant(t, tokens)    == Plain("assistant", {t}, tokens)
Summary(turns, tokens)  == Plain("summary", turns, tokens)
ToolCall(t, ids, tokens) ==
  [Plain("tool_call", {t}, tokens) EXCEPT !.calls = ids]
ToolOutput(t, id, tokens) ==
  [Plain("tool_output", {t}, tokens) EXCEPT !.call = id]

-----------------------------------------------------------------------------
TurnsIn(ms) == UNION {ms[i].turns : i \in DOMAIN ms}

\* ms[i] is the output of the k-th call of the tool_call record k places before.
Answers(ms, i, k) ==
  /\ ms[i].kind = "tool_output"
  /\ ms[i].call = ms[i - k].calls[k]

\* No output stands without the call it answers.
OutputsHaveCalls(ms) ==
  \A i \in DOMAIN ms : ms[i].kind = "tool_output" =>
    \E k \in 1..(i - 1) : /\ ms[i - k].kind = "tool_call"
                          /\ k \in DOMAIN ms[i - k].calls
                          /\ ms[i].call = ms[i - k].calls[k]

\* What directly follows a tool_call record is its outputs, in call order.
CallsAreFollowed(ms) ==
  \A i \in DOMAIN ms : ms[i].kind = "tool_call" =>
    \A k \in DOMAIN ms[i].calls : i + k \in DOMAIN ms => Answers(ms, i + k, k)

\* Every call of the record ms[i] has room for its output.
Answered(ms, i) == i + Len(ms[i].calls) <= Len(ms)

\* A history the model API accepts: every call answered, no stray output.
Paired(ms) ==
  /\ OutputsHaveCalls(ms)
  /\ CallsAreFollowed(ms)
  /\ \A i \in DOMAIN ms : ms[i].kind = "tool_call" => Answered(ms, i)
=============================================================================
