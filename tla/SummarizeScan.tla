---------------------------- MODULE SummarizeScan ----------------------------
(***************************************************************************)
(* Summarizer.Summarize as it runs: the sum, the backward scan, the walk   *)
(* back over tool outputs, the call to the model.  Go's keepIndex counts   *)
(* from 0, so keepIndex is the length of the part that is summarized.      *)
(***************************************************************************)
EXTENDS Summarize

CONSTANTS Inputs,         \* the histories Summarize is called with
          SummaryTokens   \* the sizes the reply of the model may have

ASSUME ScanAssumption == Inputs \subseteq Seq(Record) /\ SummaryTokens \subseteq Nat \ {0}

VARIABLES messages, pc, i, keptTokens, keepIndex, result
vars == <<messages, pc, i, keptTokens, keepIndex, result>>

Unchanged == [messages |-> messages, performed |-> FALSE, newContextCount |-> 0]
NoResult == [messages |-> <<>>, performed |-> FALSE, newContextCount |-> 0]

\* Lines 77-94: nothing to do for a history that is empty or short enough.
Init ==
  /\ messages \in Inputs
  /\ i = Len(messages)
  /\ keptTokens = 0
  /\ keepIndex = Len(messages)
  /\ IF Len(messages) = 0 \/ SuffixTokens(messages, 1) <= MaxTokens
       THEN pc = "done" /\ result = Unchanged
       ELSE pc = "scan" /\ result = NoResult

\* Mutant of Scan: the tail must exceed KeepTokens.
ScanPast ==
  /\ pc = "scan"
  /\ keptTokens' = keptTokens + messages[i].tokens
  /\ keepIndex' = i - 1
  /\ IF keptTokens' > KeepTokens \/ i = 1
       THEN pc' = "check" /\ UNCHANGED i
       ELSE i' = i - 1 /\ UNCHANGED pc
  /\ UNCHANGED <<messages, result>>

Scan ==
  /\ pc = "scan"
  /\ keptTokens' = keptTokens + messages[i].tokens
  /\ keepIndex' = i - 1
  /\ IF keptTokens' >= KeepTokens \/ i = 1
       THEN pc' = "check" /\ UNCHANGED i
       ELSE i' = i - 1 /\ UNCHANGED pc
  /\ UNCHANGED <<messages, result>>

Check ==
  /\ pc = "check"
  /\ IF keepIndex <= 0
       THEN pc' = "done" /\ result' = Unchanged
       ELSE pc' = "walk" /\ UNCHANGED result
  /\ UNCHANGED <<messages, i, keptTokens, keepIndex>>

\* Mutant of Walk: it goes back over the call, too.
WalkTooFar ==
  /\ pc = "walk"
  /\ IF keepIndex > 0 /\ messages[keepIndex + 1].kind \in {"tool_output", "tool_call"}
       THEN keepIndex' = keepIndex - 1 /\ UNCHANGED pc
       ELSE pc' = "render" /\ UNCHANGED keepIndex
  /\ UNCHANGED <<messages, i, keptTokens, result>>

Walk ==
  /\ pc = "walk"
  /\ IF keepIndex > 0 /\ messages[keepIndex + 1].kind = "tool_output"
       THEN keepIndex' = keepIndex - 1 /\ UNCHANGED pc
       ELSE pc' = "render" /\ UNCHANGED keepIndex
  /\ UNCHANGED <<messages, i, keptTokens, result>>

Render ==
  /\ pc = "render"
  /\ IF Renders(SubSeq(messages, 1, keepIndex))
       THEN pc' = "call" /\ UNCHANGED result
       ELSE pc' = "done" /\ result' = Unchanged
  /\ UNCHANGED <<messages, i, keptTokens, keepIndex>>

\* Mutant of CallModelForSummary: the tail loses its first record.
SummaryDropsOne ==
  LET older == SubSeq(messages, 1, keepIndex)
      kept  == SubSeq(messages, keepIndex + 2, Len(messages))
  IN  /\ pc = "call"
      /\ \E n \in SummaryTokens :
           result' = [messages |-> <<SummaryOf(older, n)>> \o kept,
                      performed |-> TRUE, newContextCount |-> Len(kept)]
      /\ pc' = "done"
      /\ UNCHANGED <<messages, i, keptTokens, keepIndex>>

CallModelForSummary ==
  LET older == SubSeq(messages, 1, keepIndex)
      kept  == SubSeq(messages, keepIndex + 1, Len(messages))
  IN  /\ pc = "call"
      /\ \E n \in SummaryTokens :
           result' = [messages |-> <<SummaryOf(older, n)>> \o kept,
                      performed |-> TRUE, newContextCount |-> Len(kept)]
      /\ pc' = "done"
      /\ UNCHANGED <<messages, i, keptTokens, keepIndex>>

\* The call fails, or the model answers with nothing.
SummaryFails ==
  /\ pc = "call"
  /\ pc' = "error"
  /\ UNCHANGED <<messages, i, keptTokens, keepIndex, result>>

Next == Scan \/ Check \/ Walk \/ Render \/ CallModelForSummary \/ SummaryFails

Spec == Init /\ [][Next]_vars /\ WF_vars(Next)

-----------------------------------------------------------------------------
\* What Summarize returns: summarized exactly when NeedsSummary holds, and then
\* cut at KeepIndex.
MatchesClosedForm ==
  /\ result.performed <=> NeedsSummary(messages)
  /\ ~result.performed => result.messages = messages
  /\ result.performed =>
       /\ \E n \in SummaryTokens : result.messages = Summarized(messages, n)
       /\ result.newContextCount = Len(Kept(messages))

\* The part that is kept is the least that will do: it carries KeepTokens, and
\* dropping more would leave less than KeepTokens or begin inside a group of
\* tool outputs (summarize.go:92-112).
KeptIsLeast ==
  result.performed =>
    LET first == Len(messages) - result.newContextCount + 1
        Whole(j) == j > Len(messages) \/ messages[j].kind # "tool_output"
    IN  /\ SuffixTokens(messages, first) >= KeepTokens
        /\ \A j \in (first + 1)..(Len(messages) + 1) :
             Whole(j) => SuffixTokens(messages, j) < KeepTokens

\* Every record that has text is either kept or among those the model was given
\* to summarize, never dropped between the two (summarize.go:111-149).
NothingForgotten ==
  pc = "done" =>
    \A j \in DOMAIN messages :
      messages[j].text => messages[j].turns \subseteq TurnsIn(result.messages)

\* Summarize always returns, and unless the model fails with what the closed form
\* says, which the turns of AgentLoop use (summarize.go:77-162).
ReturnsClosedForm == <>(pc = "error" \/ (pc = "done" /\ MatchesClosedForm))
=============================================================================
