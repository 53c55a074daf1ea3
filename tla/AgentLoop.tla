------------------------------ MODULE AgentLoop ------------------------------
(***************************************************************************)
(* Agent.Run (internal/loop/agent.go) on the stage machine Loop.Run        *)
(* (internal/loop/types.go): turns that run at the same time, each over    *)
(* its own State, and share the thread store.                              *)
(*                                                                         *)
(* turn[t] is the State of turn t with the locals of Loop.Run (stage,      *)
(* steps) and, for the caller, its outcome.  Three fields are there for    *)
(* the properties only: base, the thread as the turn loaded it; replied,   *)
(* whether the caller was given a text; cancelled stands for ctx.Done().   *)
(* A reducer is one action; callTools, which waits for one tool after      *)
(* another, is one action per tool.  Load and Save of the store are one    *)
(* atomic step each here (the file system is not modelled in this module). *)
(***************************************************************************)
EXTENDS Summarize

CONSTANTS Threads,
          MaxSteps, MaxRestrictAttempts,
          Replies,     \* the lists of tool calls the model may ask for
          Sizes        \* the token counts a record may have

\* NewAgent rejects MaxSteps <= 0 and replaces MaxRestrictAttempts <= 0.
ASSUME LoopAssumption ==
  /\ Threads # {}
  /\ MaxSteps \in Nat \ {0}
  /\ MaxRestrictAttempts \in Nat \ {0}
  /\ Replies \subseteq Seq(CallIds)
  /\ Sizes \subseteq Nat \ {0}

VARIABLES store, turn
vars == <<store, turn>>

Stages == {"load", "summarize", "call_model", "route", "call_tools", "save"}

NewState ==
  [stage |-> "idle", steps |-> 0, outcome |-> "none", cancelled |-> FALSE,
   thread |-> CHOOSE th \in Threads : TRUE, restricted |-> FALSE,
   msgs |-> <<>>, base |-> <<>>, loaded |-> 0, pending |-> <<>>, answered |-> 0,
   attempts |-> 0, force |-> FALSE, replied |-> FALSE]

\* Run returns and its State is gone; the caller keeps the outcome.
Ended(s, outcome) ==
  [NewState EXCEPT !.stage = "ended", !.outcome = outcome, !.thread = s.thread,
                   !.restricted = s.restricted]

Failed(s) == Ended(s, "failed")

\* What Loop.Run does with the next stage: done ends the turn even at the last
\* step, any other stage is an error once MaxSteps stages have run.
Advance(s, next) ==
  IF next = "done" THEN Ended(s, "ok")
  ELSE IF s.steps + 1 >= MaxSteps THEN Failed(s)
  ELSE [s EXCEPT !.stage = next, !.steps = @ + 1]

Set(t, s) == turn' = [turn EXCEPT ![t] = s]

-----------------------------------------------------------------------------
Init ==
  /\ store = [th \in Threads |-> <<>>]
  /\ turn = [t \in Turns |-> NewState]

\* Agent.Run with a prompt that is not blank.
Run(t) ==
  /\ turn[t].stage = "idle"
  /\ \E th \in Threads, restricted \in BOOLEAN :
       Set(t, [turn[t] EXCEPT !.stage = "load", !.thread = th,
                              !.restricted = restricted])
  /\ UNCHANGED store

\* The caller's context ends: an interrupt, a shutdown, a deadline.
Cancel(t) ==
  /\ turn[t].stage \in Stages
  /\ ~turn[t].cancelled
  /\ Set(t, [turn[t] EXCEPT !.cancelled = TRUE])
  /\ UNCHANGED store

\* The store, the token counter, the model, a tool or its provider reports an
\* error: the stage returns it and Loop.Run gives the turn up.  route calls
\* nothing that fails, summarize only when it has something to summarize.
StageFails(t) ==
  /\ turn[t].stage \in Stages \ {"route"}
  /\ turn[t].stage = "summarize" => NeedsSummary(turn[t].msgs)
  /\ Set(t, Failed(turn[t]))
  /\ UNCHANGED store

\* Mutant of Load: a thread that cannot be read is taken for a new one.
LoadElseNew(t) ==
  LET th == turn[t].thread IN
  /\ turn[t].stage = "load"
  /\ ~turn[t].cancelled
  /\ \E n \in Sizes, old \in {store[th], <<>>} :
       Set(t, Advance([turn[t] EXCEPT !.msgs = Append(old, Human(t, n)),
                                      !.base = store[th],
                                      !.loaded = Len(old)],
                      "summarize"))
  /\ UNCHANGED store

\* store.Load checks ctx; a thread that was never saved loads as an empty one.
Load(t) ==
  LET th == turn[t].thread IN
  /\ turn[t].stage = "load"
  /\ ~turn[t].cancelled
  /\ \E n \in Sizes :
       Set(t, Advance([turn[t] EXCEPT !.msgs = Append(store[th], Human(t, n)),
                                      !.base = store[th],
                                      !.loaded = Len(store[th])],
                      "summarize"))
  /\ UNCHANGED store

SummarizeThread(t) ==
  LET s == turn[t] IN
  /\ s.stage = "summarize"
  /\ IF NeedsSummary(s.msgs)
       THEN \E n \in Sizes :
              LET msgs == Summarized(s.msgs, n) IN
              Set(t, Advance([s EXCEPT !.msgs = msgs,
                                       !.loaded = AdjustLoadedMessageCount(
                                          Len(s.msgs), s.loaded, Len(Kept(s.msgs)), Len(msgs))],
                             "call_model"))
       ELSE Set(t, Advance(s, "call_model"))
  /\ UNCHANGED store

\* The records one reply of the model adds: its text, then its tool calls.
ReplyRecords(t, text, ids, n) ==
  (IF text THEN <<Assistant(t, n)>> ELSE <<>>) \o
  (IF ids # <<>> THEN <<ToolCall(t, ids, n)>> ELSE <<>>)

\* Mutant of CallModel: LastAssistant is overwritten by a reply without text.
CallModelOverwrites(t) ==
  LET s == turn[t] IN
  /\ s.stage = "call_model"
  /\ \E text \in BOOLEAN, ids \in Replies, n \in Sizes :
       Set(t, Advance([s EXCEPT !.msgs = @ \o ReplyRecords(t, text, ids, n),
                                !.pending = IF ids # <<>> THEN ids ELSE @,
                                !.replied = text,
                                !.force = FALSE],
                      "route"))
  /\ UNCHANGED store

\* The reply may have text, tool calls, both, or neither, whatever tool_choice
\* asked for; tools can be called only if some are configured.
CallModel(t) ==
  LET s == turn[t] IN
  /\ s.stage = "call_model"
  /\ \E text \in BOOLEAN, ids \in Replies, n \in Sizes :
       Set(t, Advance([s EXCEPT !.msgs = @ \o ReplyRecords(t, text, ids, n),
                                !.pending = IF ids # <<>> THEN ids ELSE @,
                                !.replied = @ \/ text,
                                !.force = FALSE],
                      "route"))
  /\ UNCHANGED store

RouteCancelled(t) ==
  /\ turn[t].stage = "route"
  /\ turn[t].cancelled
  /\ Set(t, Failed(turn[t]))
  /\ UNCHANGED store

RouteToTools(t) ==
  /\ turn[t].stage = "route"
  /\ ~turn[t].cancelled
  /\ turn[t].pending # <<>>
  /\ Set(t, Advance(turn[t], "call_tools"))
  /\ UNCHANGED store

\* Mutant of RouteRestricted: a turn out of attempts is saved as it is.
RouteRestrictedSaves(t) ==
  LET s == [turn[t] EXCEPT !.attempts = @ + 1] IN
  /\ turn[t].stage = "route"
  /\ ~turn[t].cancelled
  /\ turn[t].pending = <<>>
  /\ turn[t].restricted
  /\ Set(t, IF s.attempts > MaxRestrictAttempts THEN Advance(turn[t], "save")
            ELSE Advance([s EXCEPT !.force = TRUE], "call_model"))
  /\ UNCHANGED store

RouteRestricted(t) ==
  LET s == [turn[t] EXCEPT !.attempts = @ + 1] IN
  /\ turn[t].stage = "route"
  /\ ~turn[t].cancelled
  /\ turn[t].pending = <<>>
  /\ turn[t].restricted
  /\ Set(t, IF s.attempts > MaxRestrictAttempts THEN Failed(s)
            ELSE Advance([s EXCEPT !.force = TRUE], "call_model"))
  /\ UNCHANGED store

\* Mutant of RouteToSave: the select of route has no default, so that it waits
\* for the context to end.
RouteToSaveWaits(t) ==
  /\ turn[t].stage = "route"
  /\ turn[t].cancelled
  /\ turn[t].pending = <<>>
  /\ ~turn[t].restricted
  /\ Set(t, Advance(turn[t], "save"))
  /\ UNCHANGED store

RouteToSave(t) ==
  /\ turn[t].stage = "route"
  /\ ~turn[t].cancelled
  /\ turn[t].pending = <<>>
  /\ ~turn[t].restricted
  /\ Set(t, Advance(turn[t], "save"))
  /\ UNCHANGED store

\* Mutant of ExecuteTool: the model is called after every tool.
ExecuteToolOnly(t) ==
  LET s == turn[t] IN
  /\ s.stage = "call_tools"
  /\ \E n \in Sizes :
       LET msgs == Append(s.msgs, ToolOutput(t, s.pending[1], n)) IN
       Set(t, Advance([s EXCEPT !.msgs = msgs, !.pending = <<>>], "call_model"))
  /\ UNCHANGED store

\* One round of callTools; the last one clears PendingToolCalls.
ExecuteTool(t) ==
  LET s == turn[t]
      k == s.answered + 1
  IN
  /\ s.stage = "call_tools"
  /\ \E n \in Sizes :
       LET msgs == Append(s.msgs, ToolOutput(t, s.pending[k], n)) IN
       Set(t, IF k < Len(s.pending)
                THEN [s EXCEPT !.msgs = msgs, !.answered = k]
                ELSE Advance([s EXCEPT !.msgs = msgs, !.answered = 0, !.pending = <<>>],
                             "call_model"))
  /\ UNCHANGED store

\* Mutant of Save: the context is looked at after the write.
SaveThenCheck(t) ==
  /\ turn[t].stage = "save"
  /\ store' = [store EXCEPT ![turn[t].thread] = turn[t].msgs]
  /\ Set(t, IF turn[t].cancelled THEN Failed(turn[t]) ELSE Advance(turn[t], "done"))

\* store.Save checks ctx, then replaces the whole thread.
Save(t) ==
  /\ turn[t].stage = "save"
  /\ ~turn[t].cancelled
  /\ store' = [store EXCEPT ![turn[t].thread] = turn[t].msgs]
  /\ Set(t, Advance(turn[t], "done"))

\* What the goroutine of a turn does by itself.
Step(t) ==
  \/ Load(t) \/ SummarizeThread(t) \/ CallModel(t) \/ ExecuteTool(t) \/ Save(t)
  \/ RouteCancelled(t) \/ RouteToTools(t) \/ RouteRestricted(t) \/ RouteToSave(t)
  \/ StageFails(t)

Next == \E t \in Turns : Run(t) \/ Cancel(t) \/ Step(t)

Spec == Init /\ [][Next]_vars

\* The model, the tools and the store answer every call, if only with an error.
FairSpec == Spec /\ \A t \in Turns : WF_vars(Step(t))

-----------------------------------------------------------------------------
State ==
  [stage : Stages \cup {"idle", "ended"}, steps : 0..(MaxSteps - 1),
   outcome : {"none", "ok", "failed"}, cancelled : BOOLEAN, thread : Threads,
   restricted : BOOLEAN, msgs : Seq(Record), base : Seq(Record), loaded : Nat,
   pending : Seq(CallIds), answered : Nat, attempts : 0..MaxRestrictAttempts,
   force : BOOLEAN, replied : BOOLEAN]

\* Types, with the bounds the loop keeps its counters in.
TypeOK ==
  /\ store \in [Threads -> Seq(Record)]
  /\ turn \in [Turns -> State]

\* A thread on disk is a history the model API accepts again: every tool call
\* answered, in order, before anything else, and no output without its call,
\* through tool rounds, failures and summaries (agent.go:260-459,
\* summarize.go:104-112).
StoredThreadsPaired == \A th \in Threads : Paired(store[th])

\* So is the context of every model call (agent.go:260-292, 477-492).
ContextPaired ==
  \A t \in Turns : turn[t].stage = "call_model" => Paired(turn[t].msgs)

\* LoadedMessageCount splits the context into what the thread had and what this
\* turn added, beginning with its prompt, also after a summary moved everything
\* (agent.go:203-258, 533-547: the is_new mark of a traced context item).
NewMarkExact ==
  \A t \in Turns : LET s == turn[t] IN
    s.stage \in Stages \ {"load"} =>
      /\ s.loaded < Len(s.msgs)
      /\ s.msgs[s.loaded + 1].kind = "human"
      /\ \A i \in DOMAIN s.msgs : i > s.loaded <=> s.msgs[i].turns = {t}

\* The caller is given a text exactly when the turn it saves holds a reply of
\* its own (agent.go:318-326, 200).
ReplyIsRecorded ==
  \A t \in Turns : LET s == turn[t] IN
    s.stage = "save" =>
      (s.replied <=> \E i \in DOMAIN s.msgs : i > s.loaded /\ s.msgs[i].kind = "assistant")

\* A turn that has not succeeded has left nothing on any thread, whatever tools
\* it ran: its caller may hand the message over again (agent.go:194-200).  The
\* transaction below says so too; this is the invariant behind it.
UnfinishedTurnsLeaveNoTrace ==
  \A t \in Turns : turn[t].outcome # "ok" =>
    \A th \in Threads : t \notin TurnsIn(store[th])

\* A turn with RestrictOutput is saved by no path of the loop: it calls tools
\* until its attempts or steps run out (agent.go:395-402).
RestrictedTurnsNeverSucceed ==
  \A t \in Turns : turn[t].restricted => turn[t].outcome # "ok"

\* A thread changes only by the save of one turn on it, and a save that finds
\* the thread as the turn loaded it keeps every turn the thread stood for.  (A
\* save over another turn's save does not: see the README.)
Commits(t, th) ==
  /\ turn[t].stage = "save" /\ turn[t].thread = th
  /\ turn'[t].outcome = "ok"
  /\ t \in TurnsIn(store'[th])
  /\ turn[t].base = store[th] => TurnsIn(store[th]) \subseteq TurnsIn(store'[th])

SavesKeepHistory ==
  [][\A th \in Threads : store'[th] # store[th] => \E t \in Turns : Commits(t, th)]_vars

\* Every turn that was started ends: no routing cycle outlives MaxSteps.
TurnsEnd == \A t \in Turns : turn[t].stage # "idle" ~> turn[t].stage = "ended"

-----------------------------------------------------------------------------
Phase(s) == CASE s.stage = "idle"  -> "idle"
              [] s.stage \in Stages -> "running"
              [] s.stage = "ended" -> s.outcome

\* A turn is a transaction on its thread: it commits a whole history with its
\* own prompt in it, or changes nothing (module TurnTransaction).
Transaction == INSTANCE TurnTransaction WITH phase <- [t \in Turns |-> Phase(turn[t])]
ImplementsTransaction == Transaction!Spec
=============================================================================
