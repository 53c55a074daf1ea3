------------------------------- MODULE ShellTool -------------------------------
(***************************************************************************)
(* One call of the shell tool (internal/mcp/shell.go): the goroutine of    *)
(* executeShellCommand, the two goroutines that copy the command's output  *)
(* into the outputCollector, and the one of the idle timer.                *)
(*                                                                         *)
(* A stream is the number of its bytes: those still in the pipe, and those *)
(* the collector has taken, kept for the result, and written to the output *)
(* file.  Time is left out: a timer that runs may expire at any moment.    *)
(*                                                                         *)
(* External: the command writes, exits, and may leave children that hold   *)
(* its pipes open and write on; os/exec kills the command, not them, when  *)
(* the context ends, and cmd.Wait closes the pipes as soon as the command  *)
(* itself has ended (which is why its documentation wants all reads done   *)
(* before).                                                                *)
(***************************************************************************)
EXTENDS Integers

CONSTANTS MaxOutput,   \* ShellToolConfig.MaxOutput; 0 keeps everything
          MaxWritten   \* bound: the bytes a command and its children write

ASSUME ShellAssumption == MaxOutput \in Nat /\ MaxWritten \in Nat

VARIABLES cmd, pipe, copier, collector, ctx, idle, main
vars == <<cmd, pipe, copier, collector, ctx, idle, main>>

Streams == {"stdout", "stderr"}
Nothing == [s \in Streams |-> 0]

\* pipe.by is what the command itself has written, pipe.unread what waits.
Init ==
  /\ cmd = [state |-> "none", children |-> FALSE]
  /\ pipe = [by |-> Nothing, unread |-> Nothing, open |-> TRUE]
  /\ copier = [s \in Streams |-> "reading"]
  /\ collector = [taken |-> Nothing, kept |-> Nothing, combined |-> Nothing,
                  file |-> Nothing, truncated |-> FALSE]
  /\ ctx = [ended |-> "no", timeout |-> FALSE]
  /\ idle = [timer |-> "off", triggered |-> FALSE]
  /\ main = [at |-> "start", outcome |-> "none"]

\* The arguments are good; each of the two timeouts is set or zero.
Start ==
  /\ main.at = "start"
  /\ ctx.ended = "no"
  /\ cmd' = [cmd EXCEPT !.state = "running"]
  /\ \E timeout \in BOOLEAN : ctx' = [ctx EXCEPT !.timeout = timeout]
  /\ \E timer \in {"off", "armed"} : idle' = [idle EXCEPT !.timer = timer]
  /\ main' = [main EXCEPT !.at = "wait"]
  /\ UNCHANGED <<pipe, copier, collector>>

\* The arguments are rejected, the context has ended, the shell cannot be run.
StartFails ==
  /\ main.at = "start"
  /\ main' = [at |-> "returned", outcome |-> "not_started"]
  /\ UNCHANGED <<cmd, pipe, copier, collector, ctx, idle>>

-----------------------------------------------------------------------------
(* The command, external *)

Writers == cmd.state = "running" \/ cmd.children

Written == pipe.unread["stdout"] + pipe.unread["stderr"]
           + collector.taken["stdout"] + collector.taken["stderr"]

CommandWrites(s) ==
  /\ Writers /\ pipe.open
  /\ Written < MaxWritten
  /\ pipe' = [pipe EXCEPT !.unread[s] = @ + 1,
                          !.by[s] = IF cmd.state = "running" THEN @ + 1 ELSE @]
  /\ UNCHANGED <<cmd, copier, collector, ctx, idle, main>>

CommandForks ==
  /\ cmd.state = "running"
  /\ ~cmd.children
  /\ cmd' = [cmd EXCEPT !.children = TRUE]
  /\ UNCHANGED <<pipe, copier, collector, ctx, idle, main>>

CommandExits ==
  /\ cmd.state = "running"
  /\ cmd' = [cmd EXCEPT !.state = "exited"]
  /\ UNCHANGED <<pipe, copier, collector, ctx, idle, main>>

ChildrenExit ==
  /\ cmd.children
  /\ cmd' = [cmd EXCEPT !.children = FALSE]
  /\ UNCHANGED <<pipe, copier, collector, ctx, idle, main>>

\* os/exec, watching the context given to CommandContext.
Kill ==
  /\ ctx.ended # "no"
  /\ cmd.state = "running"
  /\ cmd' = [cmd EXCEPT !.state = "killed"]
  /\ UNCHANGED <<pipe, copier, collector, ctx, idle, main>>

-----------------------------------------------------------------------------
(* execCtx and the idle timer *)

EndContext(why) == ctx' = [ctx EXCEPT !.ended = IF @ = "no" THEN why ELSE @]

\* The deadline of WithTimeout passes, or the context of the turn ends.
ContextEnds ==
  /\ ctx.ended = "no"
  /\ main.at # "returned"
  /\ \/ ctx.timeout /\ EndContext("deadline")
     \/ EndContext("cancelled")
  /\ UNCHANGED <<cmd, pipe, copier, collector, idle, main>>

IdleTimeout ==
  /\ idle.timer = "armed"
  /\ idle' = [timer |-> "ended", triggered |-> TRUE]
  /\ EndContext("cancelled")
  /\ UNCHANGED <<cmd, pipe, copier, collector, main>>

\* ctx.Done() or the channel that stopIdle closes.
IdleStops ==
  /\ idle.timer = "armed"
  /\ ctx.ended # "no" \/ main.at = "stopping"
  /\ idle' = [idle EXCEPT !.timer = "ended"]
  /\ UNCHANGED <<cmd, pipe, copier, collector, ctx, main>>

-----------------------------------------------------------------------------
(* The copiers and the collector *)

Total(c) == c.taken["stdout"] + c.taken["stderr"]

Lesser(m, n) == IF m < n THEN m ELSE n

\* Mutants of Collect: the part that still fits is dropped; what was collected
\* before the limit is not copied to the file.
CollectNothingAtLimit(c, s, n) ==
  LET took == [c EXCEPT !.taken[s] = @ + n] IN
  IF c.truncated THEN [took EXCEPT !.file[s] = @ + n]
  ELSE IF MaxOutput = 0 THEN [took EXCEPT !.kept[s] = @ + n]
  ELSE IF Total(took) > MaxOutput
    THEN [took EXCEPT !.truncated = TRUE,
                      !.file = [x \in Streams |->
                                  c.combined[x] + (IF x = s THEN n ELSE 0)],
                      !.combined = Nothing]
  ELSE [took EXCEPT !.kept[s] = @ + n, !.combined[s] = @ + n]

CollectRestOnly(c, s, n) ==
  LET took == [c EXCEPT !.taken[s] = @ + n] IN
  IF c.truncated THEN [took EXCEPT !.file[s] = @ + n]
  ELSE IF MaxOutput = 0 THEN [took EXCEPT !.kept[s] = @ + n]
  ELSE IF Total(took) > MaxOutput
    THEN [took EXCEPT !.truncated = TRUE,
                      !.kept[s] = @ + (MaxOutput - Total(c)),
                      !.file[s] = n,
                      !.combined = Nothing]
  ELSE [took EXCEPT !.kept[s] = @ + n, !.combined[s] = @ + n]

\* outputCollector.write of n bytes of s: the chunk that passes the limit opens
\* the file, with all that was collected before it.
Collect(c, s, n) ==
  LET took == [c EXCEPT !.taken[s] = @ + n] IN
  IF c.truncated THEN [took EXCEPT !.file[s] = @ + n]
  ELSE IF MaxOutput = 0 THEN [took EXCEPT !.kept[s] = @ + n]
  ELSE IF Total(took) > MaxOutput
    THEN [took EXCEPT !.truncated = TRUE,
                      !.kept[s] = @ + (MaxOutput - Total(c)),
                      !.file = [x \in Streams |->
                                  c.combined[x] + (IF x = s THEN n ELSE 0)],
                      !.combined = Nothing]
  ELSE [took EXCEPT !.kept[s] = @ + n, !.combined[s] = @ + n]

\* io.Copy reads a chunk, of any size, and the collector takes it.
Copy(s) ==
  /\ copier[s] = "reading" /\ pipe.open
  /\ \E n \in 1..pipe.unread[s] :
       /\ pipe' = [pipe EXCEPT !.unread[s] = @ - n]
       /\ collector' = Collect(collector, s, n)
  /\ UNCHANGED <<cmd, copier, ctx, idle, main>>

\* The output file cannot be created or written: the copier gives up.
CopyFails(s) ==
  /\ copier[s] = "reading" /\ pipe.open
  /\ MaxOutput > 0
  /\ \E n \in 1..pipe.unread[s] :
       /\ collector.truncated \/ Total(collector) + n > MaxOutput
       /\ pipe' = [pipe EXCEPT !.unread[s] = @ - n]
  /\ copier' = [copier EXCEPT ![s] = "failed"]
  /\ UNCHANGED <<cmd, collector, ctx, idle, main>>

\* The end of the stream, or os.ErrClosed: normalizePipeError makes them one.
CopyEnds(s) ==
  /\ copier[s] = "reading" /\ main.at # "start"
  /\ ~pipe.open \/ (~Writers /\ pipe.unread[s] = 0)
  /\ copier' = [copier EXCEPT ![s] = "ended"]
  /\ UNCHANGED <<cmd, pipe, collector, ctx, idle, main>>

-----------------------------------------------------------------------------
(* executeShellCommand *)

\* Mutant of Wait: the pipes stay open, as with an os.Pipe given to the command.
WaitLeavesPipes ==
  /\ main.at = "wait"
  /\ cmd.state \in {"exited", "killed"}
  /\ main' = [main EXCEPT !.at = "collect"]
  /\ UNCHANGED <<cmd, pipe, copier, collector, ctx, idle>>

Wait ==
  /\ main.at = "wait"
  /\ cmd.state \in {"exited", "killed"}
  /\ pipe' = [pipe EXCEPT !.open = FALSE]
  /\ main' = [main EXCEPT !.at = "collect"]
  /\ UNCHANGED <<cmd, copier, collector, ctx, idle>>

\* Mutant of Outcome: the exit of the command counts before the context.
OutcomeOfExit ==
  IF \E s \in Streams : copier[s] = "failed" THEN "io_error"
  ELSE IF cmd.state # "running" THEN "ok"
  ELSE "cancelled"

Outcome ==
  IF \E s \in Streams : copier[s] = "failed" THEN "io_error"
  ELSE IF ctx.ended = "no" THEN "ok"
  ELSE IF idle.triggered THEN "idle_timeout"
  ELSE IF ctx.ended = "deadline" THEN "timeout"
  ELSE "cancelled"

\* Both copiers have reported; then the deferred stopIdle runs.
Decide ==
  /\ main.at = "collect"
  /\ \A s \in Streams : copier[s] # "reading"
  /\ main' = [at |-> "stopping", outcome |-> Outcome]
  /\ UNCHANGED <<cmd, pipe, copier, collector, ctx, idle>>

\* Wait says something else than how the command ended.
WaitFails ==
  /\ main.at = "collect"
  /\ \A s \in Streams : copier[s] # "reading"
  /\ Outcome = "ok"
  /\ main' = [at |-> "stopping", outcome |-> "wait_error"]
  /\ UNCHANGED <<cmd, pipe, copier, collector, ctx, idle>>

\* collector.Close reports an error of the output file.
CloseFails ==
  /\ main.at = "collect"
  /\ \A s \in Streams : copier[s] # "reading"
  /\ collector.truncated
  /\ main' = [at |-> "stopping", outcome |-> "io_error"]
  /\ UNCHANGED <<cmd, pipe, copier, collector, ctx, idle>>

\* stopIdle has waited for its goroutine; the deferred cancel ends execCtx.
Return ==
  /\ main.at = "stopping"
  /\ idle.timer # "armed"
  /\ main' = [main EXCEPT !.at = "returned"]
  /\ EndContext("cancelled")
  /\ UNCHANGED <<cmd, pipe, copier, collector, idle>>

MainStep == Start \/ StartFails \/ Wait \/ Decide \/ WaitFails \/ CloseFails \/ Return
CopyStep(s) == Copy(s) \/ CopyFails(s) \/ CopyEnds(s)

Next ==
  \/ \E s \in Streams : CommandWrites(s) \/ CopyStep(s)
  \/ CommandForks \/ CommandExits \/ ChildrenExit \/ Kill
  \/ ContextEnds \/ IdleTimeout \/ IdleStops
  \/ MainStep

Spec == Init /\ [][Next]_vars

\* Goroutines that can run do, and a killed command ends.
FairSpec ==
  /\ Spec
  /\ WF_vars(MainStep) /\ WF_vars(IdleTimeout \/ IdleStops) /\ WF_vars(Kill)
  /\ \A s \in Streams : WF_vars(CopyStep(s))

-----------------------------------------------------------------------------
Counts == [Streams -> Nat]

TypeOK ==
  /\ cmd \in [state : {"none", "running", "exited", "killed"}, children : BOOLEAN]
  /\ pipe \in [by : Counts, unread : Counts, open : BOOLEAN]
  /\ copier \in [Streams -> {"reading", "ended", "failed"}]
  /\ collector \in [taken : Counts, kept : Counts, combined : Counts, file : Counts,
                    truncated : BOOLEAN]
  /\ ctx \in [ended : {"no", "deadline", "cancelled"}, timeout : BOOLEAN]
  /\ idle \in [timer : {"off", "armed", "ended"}, triggered : BOOLEAN]
  /\ main \in [at : {"start", "wait", "collect", "stopping", "returned"},
               outcome : {"none", "not_started", "ok", "io_error", "wait_error",
                          "idle_timeout", "timeout", "cancelled"}]

\* The result holds as much of the two streams together as the limit allows,
\* whatever chunk passed the limit, and never more (shell.go:361-396).
KeptUpToLimit ==
  collector.kept["stdout"] + collector.kept["stderr"] =
    IF MaxOutput = 0 THEN Total(collector) ELSE Lesser(Total(collector), MaxOutput)

\* Once the output is truncated, the output file holds every byte the collector
\* has taken of either stream, those from before it existed too, and each once
\* (shell.go:353-359, 369-389).
FileHoldsAll ==
  collector.truncated => collector.file = collector.taken

\* A command that was killed is never reported as one that finished, whichever
\* of deadline, idle timer and turn ended it, and whenever (shell.go:180-184,
\* 206-229).
KilledIsNotOk ==
  main.outcome = "ok" => cmd.state = "exited"

\* echo hello gives "hello\n" (shell_test.go:34): what a command wrote before
\* it exited is in the result it succeeded with.  It need not be: Wait closes
\* the pipes, the copier gets os.ErrClosed with bytes unread, and
\* normalizePipeError drops that error.
OutputComplete ==
  main.outcome = "ok" => \A s \in Streams : collector.taken[s] >= pipe.by[s]

\* The call returns once the command has ended or the context has, also when
\* children of the command hold its pipes open (shell.go:180-210).
CallReturns ==
  (cmd.state \in {"exited", "killed"} \/ ctx.ended # "no") ~> main.at = "returned"
===============================================================================
