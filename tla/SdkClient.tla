------------------------------- MODULE SdkClient -------------------------------
(***************************************************************************)
(* sdk.Client (sdk/client.go): a program that drives agn serve.  Its       *)
(* goroutines are each inside one call (Turn, Resume, Cancel, ThreadList   *)
(* or ThreadRead); readLoop hands answers to the calls and events to the   *)
(* handlers the turns have registered, and runs the handlers itself.       *)
(*                                                                         *)
(* A call is named by its request id, the number atomic.AddInt64 gave it.  *)
(* stdin holds every line written so far, stdout those that wait.          *)
(* External: the program, which calls as it likes, also from a handler.    *)
(***************************************************************************)
EXTENDS Integers, Sequences

CONSTANT MaxCalls   \* bound: the calls of a behaviour

ASSUME SdkAssumption == MaxCalls \in Nat \ {0}

VARIABLES call, chan, pending, handlers, seen, stdin, stdout, reader, closed, panicked
client == <<call, chan, pending, handlers, seen, stdin, stdout, reader, closed, panicked>>

Calls == 1..MaxCalls
NoCall == 0

Scanning == [at |-> "scan", of |-> NoCall, outcome |-> "none", waits |-> NoCall]

\* target is the request an interrupt names, told whether an event of it had
\* been handled when it was made; seen counts the events handled.
ClientInit ==
  /\ call = [c \in Calls |-> [pc |-> "idle", kind |-> "query", target |-> NoCall,
                              told |-> FALSE, handler |-> FALSE, outcome |-> "none"]]
  /\ chan = [c \in Calls |-> "empty"]
  /\ pending = [c \in Calls |-> FALSE]
  /\ handlers = [c \in Calls |-> FALSE]
  /\ seen = [c \in Calls |-> 0]
  /\ stdin = <<>>
  /\ stdout = <<>>
  /\ reader = Scanning
  /\ closed = FALSE
  /\ panicked = FALSE

-----------------------------------------------------------------------------
(* runTurn, Cancel, ThreadList, ThreadRead *)

\* The next id, by a goroutine of the program or by a handler, for which
\* readLoop then waits.
Register(c) ==
  /\ call[c].pc = "idle"
  /\ \A b \in 1..(c - 1) : call[b].pc # "idle"
  /\ \E kind \in {"turn", "interrupt", "query"}, target \in Calls, handler \in BOOLEAN :
       /\ handler => kind = "turn"
       /\ kind # "interrupt" => target = c
       /\ call' = [call EXCEPT ![c] =
            [@ EXCEPT !.pc = "registered", !.kind = kind, !.target = target,
                      !.told = seen[target] > 0, !.handler = handler]]
       /\ handlers' = [handlers EXCEPT ![c] = handler]
  /\ pending' = [pending EXCEPT ![c] = TRUE]
  /\ reader' \in {reader} \cup
       (IF reader.at = "handling" /\ reader.waits = NoCall
          THEN {[reader EXCEPT !.waits = c]} ELSE {})
  /\ UNCHANGED <<chan, seen, stdin, stdout, closed, panicked>>

\* sendRequest, while the server lives to read.
Write(c) ==
  /\ call[c].pc = "registered"
  /\ stdin' = Append(stdin, [id |-> c, kind |-> call[c].kind, target |-> call[c].target])
  /\ call' = [call EXCEPT ![c] = [@ EXCEPT !.pc = "waiting"]]
  /\ UNCHANGED <<chan, pending, handlers, seen, stdout, reader, closed, panicked>>

\* The deferred close of the channel is part of every return; what the call left
\* in pending and handlers stays.
Returns(c, outcome) ==
  /\ call' = [call EXCEPT ![c] = [@ EXCEPT !.pc = "returned", !.outcome = outcome]]
  /\ chan' = [chan EXCEPT ![c] = "closed"]
  /\ UNCHANGED <<pending, handlers, seen, stdin, stdout, reader, closed, panicked>>

\* The pipe is closed, by Close or by the end of the server.
WriteFails(c) ==
  /\ call[c].pc = "registered"
  /\ Returns(c, "failed")

\* The context of the call has ended.  The server is not told.
GiveUp(c) ==
  /\ call[c].pc = "waiting"
  /\ Returns(c, "cancelled")

Receive(c) ==
  /\ call[c].pc = "waiting"
  /\ chan[c] \in {"ok", "error"}
  /\ Returns(c, chan[c])

\* Mutant of Close: the calls that wait are woken by closing their channels.
CloseWakesCalls ==
  /\ ~closed
  /\ closed' = TRUE
  /\ chan' = [c \in Calls |-> IF call[c].pc = "waiting" THEN "closed" ELSE chan[c]]
  /\ UNCHANGED <<call, pending, handlers, seen, stdin, stdout, reader, panicked>>

\* The process of the server is killed with it (module Session).  No call is told.
Close ==
  /\ ~closed
  /\ closed' = TRUE
  /\ UNCHANGED <<call, chan, pending, handlers, seen, stdin, stdout, reader, panicked>>

-----------------------------------------------------------------------------
(* readLoop *)

\* Mutant of TakeAnswer: the channel is looked up after the entry is deleted.
TakeAnswerDeleted(line) ==
  /\ pending' = [pending EXCEPT ![line.id] = FALSE]
  /\ handlers' = [handlers EXCEPT ![line.id] = FALSE]
  /\ reader' = IF pending'[line.id]
                 THEN [reader EXCEPT !.at = "deliver", !.of = line.id, !.outcome = line.outcome]
                 ELSE reader

\* An answer is to go to its channel, and ends the events of its request.
TakeAnswer(line) ==
  /\ pending' = [pending EXCEPT ![line.id] = FALSE]
  /\ handlers' = [handlers EXCEPT ![line.id] = FALSE]
  /\ reader' = IF pending[line.id]
                 THEN [reader EXCEPT !.at = "deliver", !.of = line.id, !.outcome = line.outcome]
                 ELSE reader

\* An event is handled by readLoop itself, after the lock is released.
TakeEvent(line) ==
  /\ reader' = IF handlers[line.id]
                 THEN [reader EXCEPT !.at = "handling", !.of = line.id]
                 ELSE reader
  /\ UNCHANGED <<pending, handlers>>

ReadLine ==
  /\ reader.at = "scan"
  /\ stdout # <<>>
  /\ stdout' = Tail(stdout)
  /\ \/ /\ closed
        /\ reader' = [reader EXCEPT !.at = "ended"]
        /\ UNCHANGED <<pending, handlers>>
     \/ ~closed /\ Head(stdout).kind = "answer" /\ TakeAnswer(Head(stdout))
     \/ ~closed /\ Head(stdout).kind = "event" /\ TakeEvent(Head(stdout))
  /\ UNCHANGED <<call, chan, seen, stdin, closed, panicked>>

\* A send on the channel of a call that has returned panics.
Deliver ==
  /\ reader.at = "deliver"
  /\ \/ /\ chan[reader.of] = "closed"
        /\ panicked' = TRUE
        /\ UNCHANGED <<chan, reader>>
     \/ /\ chan[reader.of] = "empty"
        /\ chan' = [chan EXCEPT ![reader.of] = reader.outcome]
        /\ reader' = Scanning
        /\ UNCHANGED panicked
  /\ UNCHANGED <<call, pending, handlers, seen, stdin, stdout, closed>>

\* The handler returns once the call it made, if any, has.
HandlerReturns ==
  /\ reader.at = "handling"
  /\ reader.waits # NoCall => call[reader.waits].pc = "returned"
  /\ seen' = [seen EXCEPT ![reader.of] = @ + 1]
  /\ reader' = Scanning
  /\ UNCHANGED <<call, chan, pending, handlers, stdin, stdout, closed, panicked>>

\* The output of the server has ended, or its next line is too long.
ScanEnds ==
  /\ reader.at = "scan"
  /\ reader' = [reader EXCEPT !.at = "ended"]
  /\ UNCHANGED <<call, chan, pending, handlers, seen, stdin, stdout, closed, panicked>>
===============================================================================
