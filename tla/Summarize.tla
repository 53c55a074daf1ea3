------------------------------ MODULE Summarize ------------------------------
(***************************************************************************)
(* What Summarizer.Summarize (internal/summarize) computes, in closed      *)
(* form: where a history that outgrew MaxTokens is cut, and what replaces  *)
(* it.  Indices are those of TLA+, one more than in the code.  Module      *)
(* SummarizeScan takes the code's loops step by step to the same result.   *)
(***************************************************************************)
EXTENDS Messages, FiniteSetsExt

CONSTANTS KeepTokens, MaxTokens

\* summarize.New replaces values <= 0 by its defaults and rejects keep > max.
ASSUME TokenAssumption ==
  /\ KeepTokens \in Nat \ {0}
  /\ MaxTokens \in Nat \ {0}
  /\ KeepTokens <= MaxTokens

SuffixTokens(ms, i) ==
  LET sum[k \in Nat] == IF k > Len(ms) THEN 0 ELSE ms[k].tokens + sum[k + 1]
  IN  sum[i]

\* The first record of the shortest tail that carries KeepTokens.
ScanIndex(ms) ==
  Max({i \in DOMAIN ms : i = 1 \/ SuffixTokens(ms, i) >= KeepTokens})

\* The same, walked back so that the tail does not begin with a tool output.
KeepIndex(ms) ==
  Max({i \in 1..ScanIndex(ms) : i = 1 \/ ms[i].kind # "tool_output"})

Renders(ms) == \E i \in DOMAIN ms : ms[i].text

Older(ms) == SubSeq(ms, 1, KeepIndex(ms) - 1)
Kept(ms)  == SubSeq(ms, KeepIndex(ms), Len(ms))

\* Summarize calls the model only then, and leaves the history alone otherwise.
NeedsSummary(ms) ==
  /\ Len(ms) > 0
  /\ SuffixTokens(ms, 1) > MaxTokens
  /\ KeepIndex(ms) > 1
  /\ Renders(Older(ms))

\* The summary stands for the records that rendered to text.
SummaryOf(older, tokens) ==
  Summary(UNION {older[i].turns : i \in {j \in DOMAIN older : older[j].text}}, tokens)

Summarized(ms, tokens) == <<SummaryOf(Older(ms), tokens)>> \o Kept(ms)

\* Mutant of AdjustLoadedMessageCount: the summary itself is not counted.
AdjustWithoutSummary(previousCount, previousLoaded, newContextCount, newTotal) ==
  LET newMessages == previousCount - previousLoaded
  IN  IF newTotal = newContextCount THEN previousLoaded
      ELSE Min({Max({0, newContextCount - newMessages}), newTotal})

\* adjustLoadedMessageCount: how many records of the summarized history come
\* from before this turn.
AdjustLoadedMessageCount(previousCount, previousLoaded, newContextCount, newTotal) ==
  LET newMessages  == previousCount - previousLoaded
      oldKeptCount == Max({0, newContextCount - newMessages})
      adjusted     == 1 + oldKeptCount
  IN  IF newTotal = newContextCount THEN previousLoaded
      ELSE Min({adjusted, newTotal})
=============================================================================
