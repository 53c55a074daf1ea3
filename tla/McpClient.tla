------------------------------- MODULE McpClient -------------------------------
(***************************************************************************)
(* mcp.Client (internal/mcp/client.go): the goroutines of the turns that   *)
(* call one MCP server at the same time, each inside sendRequest, and the  *)
(* goroutine of readLoop that hands every line of the server to the call   *)
(* it answers.                                                             *)
(*                                                                         *)
(* External: the MCP server.  It answers the requests it was sent in any   *)
(* order, each any number of times or never, makes requests of its own,    *)
(* whose ids it chooses, writes other lines too, and may exit or stop      *)
(* reading, after which its stdin is full.  Answers and JSON-RPC errors    *)
(* are one: both end a call with what the server said.                     *)
(***************************************************************************)
EXTENDS Integers, Sequences, FiniteSets

CONSTANTS Calls,     \* the calls of sendRequest in a behaviour
          NoCall,
          Asks,      \* the ids under which the server makes requests of its own
          MaxLines   \* bound: lines of the server that wait in its stdout

ASSUME ClientAssumption == /\ NoCall \notin Calls /\ IsFiniteSet(Calls)
                           /\ Asks \subseteq Nat /\ MaxLines \in Nat \ {0}

VARIABLES call, chan, pending, nextID, sent, stdout, reader, full, exited, closed, panicked
vars == <<call, chan, pending, nextID, sent, stdout, reader, full, exited, closed, panicked>>

Ids == 1..Cardinality(Calls)
\* The id of a line, and the call whose request it answers, if it answers one.
Lines == [id : Ids \cup {0}, of : Calls \cup {NoCall}]

\* A line that answers no request: a notification, a log line, an empty line.
Noise == [id |-> 0, of |-> NoCall]

\* readLoop between two lines.
Idle == [at |-> "scan", chan |-> NoCall, of |-> NoCall]

Init ==
  /\ call = [c \in Calls |-> [pc |-> "idle", id |-> 0, cancelled |-> FALSE,
                              outcome |-> "none", answer |-> NoCall]]
  /\ chan = [c \in Calls |-> [open |-> TRUE, buffer |-> <<>>]]
  /\ pending = [id \in Ids |-> NoCall]
  /\ nextID = 0
  /\ sent = {}
  /\ stdout = <<>>
  /\ reader = Idle
  /\ full = FALSE
  /\ exited = FALSE
  /\ closed = FALSE
  /\ panicked = FALSE

-----------------------------------------------------------------------------
(* sendRequest *)

\* The deferred close of the channel is part of every return.
Returns(c, outcome, answer) ==
  /\ call' = [call EXCEPT ![c] = [@ EXCEPT !.pc = "returned", !.outcome = outcome,
                                           !.answer = answer]]
  /\ chan' = [chan EXCEPT ![c] = [open |-> FALSE, buffer |-> <<>>]]

\* Mutant of Register: nextID is read and written without atomic.AddInt64, so
\* that an increment may be lost.
RegisterRacing(c) ==
  /\ call[c].pc = "idle"
  /\ \E id \in {nextID, nextID + 1} \cap Ids :
       /\ nextID' = id
       /\ pending' = [pending EXCEPT ![id] = c]
       /\ call' = [call EXCEPT ![c] = [@ EXCEPT !.pc = "registered", !.id = id]]
  /\ UNCHANGED <<chan, sent, stdout, reader, exited, closed, panicked, full>>

Register(c) ==
  /\ call[c].pc = "idle"
  /\ nextID' = nextID + 1
  /\ pending' = [pending EXCEPT ![nextID'] = c]
  /\ call' = [call EXCEPT ![c] = [@ EXCEPT !.pc = "registered", !.id = nextID']]
  /\ UNCHANGED <<chan, sent, stdout, reader, exited, closed, panicked, full>>

\* The server may answer before Write has returned.
Write(c) ==
  /\ call[c].pc = "registered"
  /\ ~full
  /\ sent' = sent \cup {[id |-> call[c].id, of |-> c]}
  /\ call' = [call EXCEPT ![c] = [@ EXCEPT !.pc = "written"]]
  /\ UNCHANGED <<chan, pending, nextID, stdout, reader, exited, closed, panicked, full>>

WriteReturns(c) ==
  /\ call[c].pc = "written"
  /\ call' = [call EXCEPT ![c] = [@ EXCEPT !.pc = "waiting"]]
  /\ UNCHANGED <<chan, pending, nextID, sent, stdout, reader, exited, closed, panicked, full>>

\* The arguments do not marshal; the entry in pending stays.
MarshalFails(c) ==
  /\ call[c].pc = "registered"
  /\ Returns(c, "failed", NoCall)
  /\ UNCHANGED <<pending, nextID, sent, stdout, reader, exited, closed, panicked, full>>

\* The server's stdin breaks or is closed, also under a write that waits for room.
\* No context is looked at (client.go:178).
WriteFails(c) ==
  /\ call[c].pc = "registered"
  /\ full => exited \/ closed
  /\ Returns(c, "failed", NoCall)
  /\ UNCHANGED <<pending, nextID, sent, stdout, reader, exited, closed, panicked, full>>

\* The two cases of the select; if both are ready either may be taken.
GiveUp(c) ==
  /\ call[c].pc = "waiting"
  /\ call[c].cancelled
  /\ Returns(c, "cancelled", NoCall)
  /\ UNCHANGED <<pending, nextID, sent, stdout, reader, exited, closed, panicked, full>>

Receive(c) ==
  /\ call[c].pc = "waiting"
  /\ chan[c].buffer # <<>>
  /\ Returns(c, "answered", Head(chan[c].buffer))
  /\ UNCHANGED <<pending, nextID, sent, stdout, reader, exited, closed, panicked, full>>

CallerStep(c) ==
  Write(c) \/ WriteReturns(c) \/ WriteFails(c) \/ GiveUp(c) \/ Receive(c)

\* The turn of the call is interrupted, or the process is told to stop.
Cancel(c) ==
  /\ call[c].pc \in {"registered", "written", "waiting"}
  /\ ~call[c].cancelled
  /\ call' = [call EXCEPT ![c] = [@ EXCEPT !.cancelled = TRUE]]
  /\ UNCHANGED <<chan, pending, nextID, sent, stdout, reader, exited, closed, panicked, full>>

-----------------------------------------------------------------------------
(* readLoop *)

\* Mutants of ReadLine: the entry is not deleted; a channel that was not found is
\* sent to all the same.
ReadLineKeeps ==
  /\ reader.at = "scan"
  /\ stdout # <<>>
  /\ LET line == Head(stdout)
         c    == IF line.id = 0 THEN NoCall ELSE pending[line.id]
     IN  reader' = IF closed \/ c = NoCall
                     THEN [reader EXCEPT !.at = IF closed THEN "ended" ELSE "scan"]
                     ELSE [at |-> "deliver", chan |-> c, of |-> line.of]
  /\ stdout' = Tail(stdout)
  /\ UNCHANGED <<call, chan, pending, nextID, sent, exited, closed, panicked, full>>

ReadLineNilChannel ==
  /\ reader.at = "scan"
  /\ stdout # <<>>
  /\ LET line == Head(stdout)
         c    == IF line.id = 0 THEN NoCall ELSE pending[line.id]
     IN  IF closed
           THEN /\ reader' = [reader EXCEPT !.at = "ended"]
                /\ UNCHANGED pending
           ELSE /\ reader' = [at |-> "deliver", chan |-> c, of |-> line.of]
                /\ pending' = [id \in Ids |-> IF id = line.id THEN NoCall ELSE pending[id]]
  /\ stdout' = Tail(stdout)
  /\ UNCHANGED <<call, chan, nextID, sent, exited, closed, panicked, full>>

\* One line: dropped with the loop after Close, skipped if it answers nothing
\* that is pending, else its channel is taken out of pending.
ReadLine ==
  /\ reader.at = "scan"
  /\ stdout # <<>>
  /\ LET line == Head(stdout)
         c    == IF line.id = 0 THEN NoCall ELSE pending[line.id]
     IN  IF closed \/ c = NoCall
           THEN /\ reader' = [reader EXCEPT !.at = IF closed THEN "ended" ELSE "scan"]
                /\ UNCHANGED pending
           ELSE /\ reader' = [at |-> "deliver", chan |-> c, of |-> line.of]
                /\ pending' = [pending EXCEPT ![line.id] = NoCall]
  /\ stdout' = Tail(stdout)
  /\ UNCHANGED <<call, chan, nextID, sent, exited, closed, panicked, full>>

\* Mutant of Deliver: the send gives up when nobody waits in the select yet.
DeliverIfWaiting ==
  /\ reader.at = "deliver"
  /\ IF call[reader.chan].pc = "waiting"
       THEN chan' = [chan EXCEPT ![reader.chan].buffer = Append(@, reader.of)]
       ELSE UNCHANGED chan
  /\ reader' = Idle
  /\ UNCHANGED <<call, pending, nextID, sent, stdout, exited, closed, panicked, full>>

\* ch <- resp: a send on a closed channel panics, which ends the process.
Deliver ==
  LET ch == chan[reader.chan] IN
  /\ reader.at = "deliver"
  /\ \/ /\ ~ch.open
        /\ panicked' = TRUE
        /\ UNCHANGED <<chan, reader, full>>
     \/ /\ ch.open
        /\ ch.buffer = <<>>
        /\ chan' = [chan EXCEPT ![reader.chan].buffer = <<reader.of>>]
        /\ reader' = Idle
        /\ UNCHANGED panicked
  /\ UNCHANGED <<call, pending, nextID, sent, stdout, exited, closed, full>>

\* Scan returns false: the output has ended, or a line is longer than 10 MiB.
\* readLoop returns without a word to the calls that wait.
ScanEnds ==
  /\ reader.at = "scan"
  /\ stdout = <<>> => exited
  /\ reader' = [reader EXCEPT !.at = "ended"]
  /\ UNCHANGED <<call, chan, pending, nextID, sent, stdout, exited, closed, panicked, full>>

ReaderStep == ReadLine \/ Deliver \/ ScanEnds

-----------------------------------------------------------------------------
(* The owner of the client, and the MCP server *)

\* cleanup of buildAgent, once.
Close ==
  /\ ~closed
  /\ closed' = TRUE
  /\ UNCHANGED <<call, chan, pending, nextID, sent, stdout, reader, exited, panicked, full>>

ServerWrites ==
  /\ ~exited
  /\ Len(stdout) < MaxLines
  /\ \E line \in sent \cup {Noise} : stdout' = Append(stdout, line)
  /\ UNCHANGED <<call, chan, pending, nextID, sent, reader, exited, closed, panicked, full>>

\* A request of the server, under an id of its choice at a time of its choice.
\* readLoop looks at the id and at no method (client.go:203-215): to it this is an
\* answer.
ServerAsks ==
  /\ ~exited
  /\ Len(stdout) < MaxLines
  /\ \E id \in Asks \cap Ids : stdout' = Append(stdout, [id |-> id, of |-> NoCall])
  /\ UNCHANGED <<call, chan, pending, nextID, sent, reader, exited, closed, panicked, full>>

ServerExits ==
  /\ ~exited
  /\ exited' = TRUE
  /\ UNCHANGED <<call, chan, pending, nextID, sent, stdout, reader, closed, panicked, full>>

ServerStopsReading ==
  /\ ~full
  /\ full' = TRUE
  /\ UNCHANGED <<call, chan, pending, nextID, sent, stdout, reader, exited, closed, panicked>>

Next ==
  /\ ~panicked
  /\ \/ \E c \in Calls : Register(c) \/ MarshalFails(c) \/ CallerStep(c) \/ Cancel(c)
     \/ ReaderStep
     \/ Close \/ ServerWrites \/ ServerAsks \/ ServerExits \/ ServerStopsReading

Spec == Init /\ [][Next]_vars

\* Goroutines that can run do; what waits in a pipe is read in order.
FairSpec ==
  /\ Spec
  /\ WF_vars(~panicked /\ ReaderStep)
  /\ \A c \in Calls : WF_vars(~panicked /\ CallerStep(c))

-----------------------------------------------------------------------------
TypeOK ==
  /\ call \in [Calls ->
       [pc : {"idle", "registered", "written", "waiting", "returned"},
        id : Ids \cup {0}, cancelled : BOOLEAN,
        outcome : {"none", "answered", "cancelled", "failed"},
        answer : Calls \cup {NoCall}]]
  /\ chan \in [Calls -> [open : BOOLEAN, buffer : Seq(Calls \cup {NoCall})]]
  /\ pending \in [Ids -> Calls \cup {NoCall}]
  /\ nextID \in Nat
  /\ sent \subseteq Lines
  /\ stdout \in Seq(Lines)
  /\ \/ reader \in [at : {"scan", "ended"}, chan : {NoCall}, of : {NoCall}]
     \/ reader \in [at : {"deliver"}, chan : Calls, of : Calls \cup {NoCall}]
  /\ full \in BOOLEAN
  /\ exited \in BOOLEAN
  /\ closed \in BOOLEAN
  /\ panicked \in BOOLEAN

\* A call never returns the answer of another, however calls and answers overlap.
\* What it does return instead of its own is a request of the server, and only one
\* under the id of the call (client.go:163-170, 209-220).
AnswersMatch ==
  \A c \in Calls : call[c].outcome = "answered" =>
    \/ call[c].answer = c
    \/ call[c].answer = NoCall /\ call[c].id \in Asks

\* The send of readLoop never waits, although the channel has room for one
\* answer only, the server may repeat itself and a line may answer nothing: one
\* call that is slow to look, or gone, cannot stop the answers of all others
\* (client.go:165, 213-220).
ReaderNeverBlocks ==
  reader.at = "deliver" =>
    /\ reader.chan # NoCall
    /\ chan[reader.chan].open => chan[reader.chan].buffer = <<>>

\* The process dies of a send on a closed channel only for a call that was given up:
\* by its answer when it was cancelled while that was on the way, or by a request of
\* the server under its id, then also when it could not be marshalled or written.
\* Never by a repeated answer, and never by what meets a call that was answered
\* (client.go:163-183, 214-220).
PanicsOnlyOnAbandonedCalls ==
  panicked =>
    LET u == call[reader.chan] IN
    \/ u.outcome = "cancelled" /\ reader.of = reader.chan
    \/ u.outcome \in {"cancelled", "failed"} /\ reader.of = NoCall /\ u.id \in Asks

\* A call that is cancelled returns, answered or not, also after Close and after
\* the server has gone: without that a call outlives its server for good.  Only
\* one that waits in its write to a server which does not read does not, until
\* that server ends or is closed (client.go:178-184, 194).
CancelledCallsReturn ==
  \A c \in Calls : call[c].cancelled
    ~> \/ call[c].pc = "returned" \/ panicked
       \/ call[c].pc = "registered" /\ full /\ ~exited /\ ~closed

\* A call whose answer has been written returns, even when the answer was there
\* before the call had come to its select, unless readLoop ends before (Close, a
\* line beyond its buffer) or a panic does (client.go:165-190, 194-220).
AnsweredCallsReturn ==
  \A c \in Calls :
    (\E i \in DOMAIN stdout : stdout[i].of = c)
      ~> (call[c].pc = "returned" \/ reader.at = "ended" \/ panicked)

\* Both: what a turn may rely on when it calls a tool.
CallsReturn == CancelledCallsReturn /\ AnsweredCallsReturn
===============================================================================
