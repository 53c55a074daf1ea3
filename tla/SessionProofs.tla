---------------------------- MODULE SessionProofs ----------------------------
(***************************************************************************)
(* Theorems about Session, for any number of calls and of events: the      *)
(* server of a session is a Server, so what ServerProofs says of one holds *)
(* of it; what a call returns is what was done for its request; a turn's   *)
(* handler has handled all its events when the turn returns; and only a    *)
(* call that gave up can make readLoop panic.                              *)
(***************************************************************************)
EXTENDS Session, FiniteSetTheorems, SequenceTheorems, TLAPS

\* The theorems about Server, of the server in this session.
Proved == INSTANCE ServerProofs WITH MaxRequests <- MaxCalls, Ids <- 1..MaxCalls

\* The request of call c has had the answer o.
Answered(c, o) ==
  \E r \in Calls : r \in DOMAIN stdin /\ stdin[r].id = c /\ req[r].outcome = o

\* The request of call c is a turn that has been started.
Began(c) ==
  \E r \in Calls : r \in DOMAIN stdin /\ stdin[r].id = c /\ r \in Proved!Turns

Delivers(c)  == reader.at = "deliver" /\ reader.of = c
Handles(c)   == reader.at = "handling" /\ reader.of = c
Delivered(c) == chan[c] \in {"ok", "error"} \/ call[c].outcome \in {"ok", "error"}

EventsIn(s, c) == {k \in DOMAIN s : s[k].kind = "event" /\ s[k].id = c}

Kinds == {"turn", "interrupt", "query"}
CallType ==
  [pc : {"idle", "registered", "waiting", "returned"}, kind : Kinds,
   target : Calls \cup {NoCall}, told : BOOLEAN, handler : BOOLEAN,
   outcome : {"none", "failed", "cancelled", "ok", "error"}]
InLine == [id : Calls, kind : Kinds, target : Calls \cup {NoCall}]
OutLine == [kind : {"answer", "event"}, id : Calls, outcome : {"none", "ok", "error"}]
ReaderType ==
  [at : {"scan", "deliver", "handling", "ended"}, of : Calls \cup {NoCall},
   outcome : {"none", "ok", "error"}, waits : Calls \cup {NoCall}]

ClientTypes ==
  /\ call \in [Calls -> CallType]
  /\ chan \in [Calls -> {"empty", "ok", "error", "closed"}]
  /\ pending \in [Calls -> BOOLEAN] /\ handlers \in [Calls -> BOOLEAN]
  /\ seen \in [Calls -> Nat] /\ sent \in [Calls -> Nat]
  /\ stdin \in Seq(InLine) /\ stdout \in Seq(OutLine)
  /\ reader \in ReaderType
  /\ reader.at \in {"deliver", "handling"} => reader.of \in Calls
  /\ closed \in BOOLEAN /\ panicked \in BOOLEAN

\* The server's own invariant; its pipe does not break while it lives.
ServerInv ==
  /\ Proved!IInv
  /\ server.output = "open"
  /\ \A r \in Calls : req[r].outcome # "unwritten"

\* Each line is that of a call of its own, and each request that of its line.
LineInv ==
  /\ \A r \in DOMAIN stdin :
       /\ call[stdin[r].id].pc \in {"waiting", "returned"}
       /\ call[stdin[r].id].outcome # "failed"
       /\ stdin[r].kind = call[stdin[r].id].kind
       /\ stdin[r].target = call[stdin[r].id].target
  /\ \A r, q \in DOMAIN stdin : stdin[r].id = stdin[q].id => r = q
  /\ \A r \in Calls : req[r].pc # "unread" =>
       /\ r \in DOMAIN stdin
       /\ req[r].kind = stdin[r].kind
       /\ req[r].kind = "turn" => req[r].id = stdin[r].id
       /\ req[r].kind = "interrupt" => req[r].target = stdin[r].target

\* Ids are not used twice, so an interrupt finds a turn until it is done.
EntryInv ==
  \A t \in Proved!Turns :
    ~req[t].cancelled /\ req[t].pc # "done" => inFlight[req[t].id] = t

\* What the program has seen of a turn has happened, and what it knew when it
\* made an interrupt is so when the interrupt is looked up.
ToldInv ==
  /\ \A c \in Calls : seen[c] > 0 \/ sent[c] > 0 \/ Handles(c) => Began(c)
  /\ \A k \in DOMAIN stdout : stdout[k].kind = "event" => Began(stdout[k].id)
  /\ \A c \in Calls : call[c].told => Began(call[c].target)
  /\ \A r \in Calls :
       /\ req[r].kind = "interrupt" /\ req[r].pc \in {"looked_up", "done"}
       /\ req[r].found = Proved!NoRequest
       /\ call[stdin[r].id].told
       => \A t \in Calls : t \in DOMAIN stdin /\ stdin[t].id = call[stdin[r].id].target =>
            req[t].cancelled \/ req[t].pc = "done"

\* Wherever an answer is, it is the one the server gave to that call.
AnswerInv ==
  /\ \A k \in DOMAIN stdout : stdout[k].kind = "answer" =>
       stdout[k].outcome \in {"ok", "error"} /\ Answered(stdout[k].id, stdout[k].outcome)
  /\ reader.at = "deliver" =>
       reader.outcome \in {"ok", "error"} /\ Answered(reader.of, reader.outcome)
  /\ \A c \in Calls :
       /\ chan[c] \in {"ok", "error"} => Answered(c, chan[c])
       /\ call[c].outcome \in {"ok", "error"} => Answered(c, call[c].outcome)

\* One answer is delivered to a call, and a channel closed only by its return.
OnceOf(c) ==
  /\ pending[c] => ~Delivers(c)
  /\ pending[c] \/ Delivers(c) => ~Delivered(c)
  /\ handlers[c] <=> pending[c] /\ call[c].handler
  /\ call[c].pc = "idle" => ~pending[c]
  /\ chan[c] = "closed" => call[c].pc = "returned"
  /\ call[c].pc = "returned" <=> call[c].outcome # "none"

OnceInv ==
  /\ \A c \in Calls : OnceOf(c)
  /\ panicked => reader.at = "deliver" /\ chan[reader.of] = "closed"

\* The answer to a call is written after its events.
OrderInv ==
  \A k, l \in DOMAIN stdout :
    stdout[k].kind = "answer" /\ stdout[l].kind = "event" /\ stdout[k].id = stdout[l].id
    => l < k

\* The events that were written are those that were handled, the one that is
\* being handled and those that wait; once the answer is taken all were handled.
EventsOf(c) ==
  /\ Delivers(c) \/ Delivered(c) =>
       /\ EventsIn(stdout, c) = {} /\ ~Handles(c)
       /\ call[c].handler => seen[c] = sent[c]
  /\ handlers[c] /\ reader.at # "ended" =>
       sent[c] = seen[c] + Cardinality(EventsIn(stdout, c)) + (IF Handles(c) THEN 1 ELSE 0)

EventInv == \A c \in Calls : EventsOf(c)

SessionInv ==
  /\ ClientTypes /\ ServerInv /\ LineInv /\ EntryInv /\ ToldInv /\ AnswerInv /\ OnceInv
  /\ OrderInv /\ EventInv

-----------------------------------------------------------------------------
(* The server of a session is a Server *)

LEMMA Served == Proved!ServerAssumption /\ Proved!Requests = Calls
BY SdkAssumption DEF Proved!ServerAssumption, Proved!Requests, Calls

\* Srv and Proved are the same module.
LEMMA SrvInit == Srv!Init => Proved!Init
BY DEF Srv!Init, Proved!Init, Srv!NewRequest, Proved!NewRequest, Srv!Requests,
       Proved!Requests, Srv!NoRequest, Proved!NoRequest

LEMMA SrvRead == ASSUME NEW r \in Calls, Srv!Read(r) PROVE Proved!Read(r)
BY DEF Srv!Read, Proved!Read, Srv!Kinds, Proved!Kinds

LEMMA SrvExit == Srv!Exit => Proved!Exit
BY DEF Srv!Exit, Proved!Exit, Srv!Running, Proved!Running

LEMMA SrvStep == ASSUME NEW r \in Calls, Srv!Step(r) PROVE Proved!Step(r)
BY DEF Srv!Step, Proved!Step, Srv!AnswerAtOnce, Proved!AnswerAtOnce, Srv!Answer,
   Proved!Answer, Srv!StoreCancel, Proved!StoreCancel, Srv!PassCheck, Proved!PassCheck,
   Srv!TurnSaves, Proved!TurnSaves, Srv!TurnFails, Proved!TurnFails,
   Srv!NotificationFails, Proved!NotificationFails, Srv!AnswerTurn, Proved!AnswerTurn,
   Srv!RemoveCancel, Proved!RemoveCancel, Srv!Interrupt, Proved!Interrupt,
   Srv!AnswerInterrupt, Proved!AnswerInterrupt, Srv!Running, Proved!Running,
   Srv!Enters, Proved!Enters, Srv!Ended, Proved!Ended, Srv!NoRequest, Proved!NoRequest,
   Srv!Requests, Proved!Requests

(***************************************************************************)
(* A session leads its server only through steps of module Server: all     *)
(* that ServerProofs proves of a server holds of this one.                 *)
(***************************************************************************)
THEOREM SessionRunsServer == Spec => Srv!Spec
<1>1. Init => Srv!Init
  BY DEF Init
<1>2. [Next]_vars => [Srv!Next]_(Srv!vars)
  <2> SUFFICES ASSUME [Next]_vars PROVE [Srv!Next]_(Srv!vars)
    OBVIOUS
  <2>1. ASSUME NEW c \in Calls, ServerReads(c) PROVE Srv!Next
    BY <2>1 DEF ServerReads, Srv!Next, Srv!Requests, Calls
  <2>2. ASSUME NEW c \in Calls, ServerStep(c) PROVE Srv!Next
    BY <2>2 DEF ServerStep, Srv!Next, Srv!Requests, Calls
  <2>3. CASE CloseAndKill
    BY <2>3 DEF CloseAndKill, Srv!Next, Srv!vars
  <2>4. CASE ServerExits
    BY <2>4 DEF ServerExits, Srv!Next
  <2>5. CASE UNCHANGED serving
    BY <2>5 DEF serving, Srv!vars
  <2> QED BY <2>1, <2>2, <2>3, <2>4, <2>5 DEF Next, CallerStep, ReaderStep, ServerNotifies, vars
<1> QED BY <1>1, <1>2, PTL DEF Spec, Srv!Spec

-----------------------------------------------------------------------------
(* What the steps do *)

\* Nothing that a request has gone through is undone.
Progress ==
  /\ \A r \in Calls : req[r].pc # "unread" =>
       /\ req'[r].pc # "unread"
       /\ req'[r].kind = req[r].kind /\ req'[r].id = req[r].id
       /\ req'[r].target = req[r].target
  /\ Proved!Turns \subseteq Proved!Turns'
  /\ \A r \in Calls :
       /\ req[r].cancelled => req'[r].cancelled
       /\ req[r].pc = "done" => req'[r].pc = "done"
       /\ req[r].outcome # "none" => req'[r].outcome = req[r].outcome

Grows == DOMAIN stdin \subseteq DOMAIN stdin' /\ \A k \in DOMAIN stdin : stdin'[k] = stdin[k]

\* A call returns: its write failed, it gave up, or it has its answer.
Ends(c, outcome) ==
  /\ \/ outcome = "failed" /\ call[c].pc = "registered"
     \/ outcome = "cancelled" /\ call[c].pc = "waiting"
     \/ outcome = chan[c] /\ outcome \in {"ok", "error"} /\ call[c].pc = "waiting"
  /\ Returns(c, outcome)

Outcomes == {"failed", "cancelled", "ok", "error"}

\* Only the server, or that the client is closed, changes.
Quiet ==
  /\ UNCHANGED <<call, chan, pending, handlers, seen, stdin, stdout, reader, panicked, sent>>
  /\ UNCHANGED <<req, inFlight>>
  /\ closed' \in {closed, TRUE}

LEMMA StepCases ==
  ASSUME [Next]_vars
  PROVE  \/ \E c \in Calls : Register(c) /\ UNCHANGED <<serving, sent>>
         \/ \E c \in Calls, outcome \in Outcomes :
              Ends(c, outcome) /\ UNCHANGED <<serving, sent>>
         \/ \E c \in Calls : Write(c) /\ UNCHANGED <<serving, sent>>
         \/ \E r \in Calls : ServerReads(r) \/ ServerStep(r) \/ ServerNotifies(r)
         \/ ReadLine /\ UNCHANGED <<serving, sent>>
         \/ Deliver /\ ~panicked /\ UNCHANGED <<serving, sent>>
         \/ HandlerReturns /\ ~panicked /\ UNCHANGED <<serving, sent>>
         \/ ScanEnds /\ ~panicked /\ UNCHANGED <<serving, sent>>
         \/ Quiet
<1>1. CASE UNCHANGED vars
  BY <1>1 DEF vars, client, serving, Quiet
<1>2. ASSUME ~panicked, CloseAndKill \/ ServerExits PROVE Quiet
  BY <1>2, SrvExit DEF CloseAndKill, ServerExits, Close, client, Quiet, Proved!Exit, Srv!Exit
<1>3. ASSUME NEW c \in Calls, GiveUp(c) PROVE Ends(c, "cancelled")
  BY <1>3 DEF GiveUp, Ends
<1>4. ASSUME NEW c \in Calls, WriteFails(c) PROVE Ends(c, "failed")
  BY <1>4 DEF WriteFails, Ends
<1>5. ASSUME NEW c \in Calls, Receive(c) PROVE chan[c] \in Outcomes /\ Ends(c, chan[c])
  BY <1>5 DEF Receive, Ends, Outcomes
<1> QED BY <1>1, <1>2, <1>3, <1>4, <1>5 DEF Next, CallerStep, ReaderStep, Outcomes

\* The next id, and what the program then knew.
LEMMA RegisterEffect ==
  ASSUME ClientTypes, NEW c \in Calls, Register(c)
  PROVE  /\ call' \in [Calls -> CallType]
         /\ \A b \in Calls \ {c} : call'[b] = call[b]
         /\ call[c].pc = "idle" /\ call'[c].pc = "registered"
         /\ call'[c].outcome = call[c].outcome
         /\ call'[c].target \in Calls /\ (call'[c].told <=> seen[call'[c].target] > 0)
         /\ handlers' = [handlers EXCEPT ![c] = call'[c].handler]
         /\ pending' = [pending EXCEPT ![c] = TRUE]
         /\ reader' \in ReaderType
         /\ reader'.at = reader.at /\ reader'.of = reader.of /\ reader'.outcome = reader.outcome
         /\ UNCHANGED <<chan, seen, stdin, stdout, closed, panicked>>
<1>1. PICK kind \in Kinds, target \in Calls, handler \in BOOLEAN :
        /\ call' = [call EXCEPT ![c] =
             [@ EXCEPT !.pc = "registered", !.kind = kind, !.target = target,
                       !.told = seen[target] > 0, !.handler = handler]]
        /\ handlers' = [handlers EXCEPT ![c] = handler]
  BY DEF Register, Kinds
<1> DEFINE known == seen[target] > 0
           d == [call[c] EXCEPT !.pc = "registered", !.kind = kind, !.target = target,
                                !.told = known, !.handler = handler]
<1>0. known \in BOOLEAN /\ (known <=> seen[target] > 0)
  OBVIOUS
<1>2. call[c] \in CallType /\ seen[target] \in Nat /\ call \in [Calls -> CallType]
  BY DEF ClientTypes
<1>5. call' = [call EXCEPT ![c] = d]
  BY <1>1
<1> HIDE DEF known
<1>3. d \in CallType
  BY <1>0, <1>2 DEF CallType
<1>4. /\ d.pc = "registered" /\ d.outcome = call[c].outcome /\ d.target = target
      /\ d.told <=> seen[target] > 0
      /\ d.handler = handler
  BY <1>0, <1>2 DEF CallType
<1> HIDE DEF d
<1>6. /\ reader' \in ReaderType
      /\ reader'.at = reader.at /\ reader'.of = reader.of /\ reader'.outcome = reader.outcome
  <2>1. reader \in ReaderType
    BY DEF ClientTypes
  <2>2. reader' = reader \/ reader' = [reader EXCEPT !.waits = c]
    BY DEF Register
  <2> QED BY <2>1, <2>2 DEF ReaderType
<1>7. /\ call' \in [Calls -> CallType] /\ call'[c] = d
      /\ \A b \in Calls \ {c} : call'[b] = call[b]
  BY <1>2, <1>3, <1>5
<1>8. /\ call[c].pc = "idle" /\ pending' = [pending EXCEPT ![c] = TRUE]
      /\ UNCHANGED <<chan, seen, stdin, stdout, closed, panicked>>
  BY DEF Register
<1>9. handlers' = [handlers EXCEPT ![c] = d.handler]
  BY <1>1, <1>4
<1> QED BY <1>4, <1>6, <1>7, <1>8, <1>9

\* A return closes the channel of the call.
LEMMA EndsEffect ==
  ASSUME ClientTypes, NEW c \in Calls, NEW outcome \in Outcomes, Ends(c, outcome)
  PROVE  /\ call' \in [Calls -> CallType]
         /\ \A b \in Calls \ {c} : call'[b] = call[b]
         /\ call'[c].pc = "returned" /\ call'[c].outcome = outcome
         /\ call'[c].kind = call[c].kind /\ call'[c].target = call[c].target
         /\ call'[c].told = call[c].told /\ call'[c].handler = call[c].handler
         /\ chan' = [chan EXCEPT ![c] = "closed"]
         /\ UNCHANGED <<pending, handlers, seen, stdin, stdout, reader, closed, panicked>>
<1> DEFINE d == [call[c] EXCEPT !.pc = "returned", !.outcome = outcome]
<1>1. call[c] \in CallType /\ call \in [Calls -> CallType]
  BY DEF ClientTypes
<1>2. call' = [call EXCEPT ![c] = d]
  BY DEF Ends, Returns
<1>3. d \in CallType
  BY <1>1 DEF CallType, Outcomes
<1>4. /\ d.pc = "returned" /\ d.outcome = outcome
      /\ d.kind = call[c].kind /\ d.target = call[c].target
      /\ d.told = call[c].told /\ d.handler = call[c].handler
  BY <1>1 DEF CallType
<1> HIDE DEF d
<1> QED BY <1>1, <1>2, <1>3, <1>4 DEF Ends, Returns

\* A line for the server.
LEMMA WriteEffect ==
  ASSUME ClientTypes, NEW c \in Calls, Write(c)
  PROVE  /\ call' \in [Calls -> CallType]
         /\ \A b \in Calls \ {c} : call'[b] = call[b]
         /\ call[c].pc = "registered" /\ call'[c].pc = "waiting"
         /\ call'[c].outcome = call[c].outcome
         /\ call'[c].kind = call[c].kind /\ call'[c].target = call[c].target
         /\ call'[c].told = call[c].told /\ call'[c].handler = call[c].handler
         /\ stdin' \in Seq(InLine) /\ Grows
         /\ \A k \in DOMAIN stdin' : k \in DOMAIN stdin \/ k = Len(stdin) + 1
         /\ stdin'[Len(stdin) + 1] =
              [id |-> c, kind |-> call[c].kind, target |-> call[c].target]
         /\ UNCHANGED <<chan, pending, handlers, seen, stdout, reader, closed, panicked>>
<1> DEFINE d == [call[c] EXCEPT !.pc = "waiting"]
           line == [id |-> c, kind |-> call[c].kind, target |-> call[c].target]
<1>1. call[c] \in CallType /\ call \in [Calls -> CallType] /\ stdin \in Seq(InLine)
  BY DEF ClientTypes
<1>2. call' = [call EXCEPT ![c] = d] /\ stdin' = Append(stdin, line)
  BY DEF Write
<1>3. d \in CallType /\ line \in InLine
  BY <1>1 DEF CallType, InLine
<1>4. /\ d.pc = "waiting" /\ d.outcome = call[c].outcome
      /\ d.kind = call[c].kind /\ d.target = call[c].target
      /\ d.told = call[c].told /\ d.handler = call[c].handler
  BY <1>1 DEF CallType
<1> HIDE DEF d, line
<1>5. /\ stdin' \in Seq(InLine) /\ stdin'[Len(stdin) + 1] = line
      /\ \A k \in DOMAIN stdin' : k \in DOMAIN stdin \/ k = Len(stdin) + 1
      /\ \A k \in DOMAIN stdin : k \in DOMAIN stdin' /\ stdin'[k] = stdin[k]
  BY <1>1, <1>2, <1>3
<1> QED BY <1>1, <1>2, <1>3, <1>4, <1>5 DEF Write, Grows, line

\* A line for the client.
LEMMA OutLineEffect ==
  ASSUME ClientTypes, NEW line \in OutLine, stdout' = Append(stdout, line)
  PROVE  /\ stdout' \in Seq(OutLine)
         /\ Len(stdout) \in Nat /\ Len(stdout') = Len(stdout) + 1
         /\ DOMAIN stdout = 1..Len(stdout) /\ DOMAIN stdout' = 1..(Len(stdout) + 1)
         /\ stdout'[Len(stdout) + 1] = line
         /\ \A k \in DOMAIN stdout : stdout'[k] = stdout[k]
<1>1. stdout \in Seq(OutLine)
  BY DEF ClientTypes
<1> QED BY <1>1

\* The first line is taken.
LEMMA TailEffect ==
  ASSUME ClientTypes, stdout # <<>>, stdout' = Tail(stdout)
  PROVE  /\ stdout' \in Seq(OutLine)
         /\ Head(stdout) = stdout[1] /\ stdout[1] \in OutLine /\ 1 \in DOMAIN stdout
         /\ Len(stdout) \in Nat \ {0} /\ Len(stdout') = Len(stdout) - 1
         /\ DOMAIN stdout = 1..Len(stdout) /\ DOMAIN stdout' = 1..(Len(stdout) - 1)
         /\ \A k \in DOMAIN stdout' : k + 1 \in DOMAIN stdout /\ stdout'[k] = stdout[k + 1]
<1>1. stdout \in Seq(OutLine)
  BY DEF ClientTypes
<1> QED BY <1>1

-----------------------------------------------------------------------------
(* The server's part of the invariant *)

LEMMA ServerSteps == [Next]_vars => [Proved!Next]_(Proved!vars)
<1> SUFFICES ASSUME [Next]_vars PROVE Proved!Next \/ UNCHANGED serving
  BY DEF serving, Proved!vars
<1> USE Served
<1>1. ASSUME NEW c \in Calls, ServerReads(c) PROVE Proved!Next
  BY <1>1, SrvRead DEF ServerReads, Proved!Next
<1>2. ASSUME NEW c \in Calls, ServerStep(c) PROVE Proved!Next
  BY <1>2, SrvStep DEF ServerStep, Proved!Next
<1>3. CASE CloseAndKill
  BY <1>3, SrvExit DEF CloseAndKill, Proved!Next, serving
<1>4. CASE ServerExits
  BY <1>4, SrvExit DEF ServerExits, Proved!Next
<1> QED BY <1>1, <1>2, <1>3, <1>4 DEF Next, CallerStep, ReaderStep, ServerNotifies, vars

\* What a request's goroutine does.
LEMMA ServerEffect ==
  ASSUME ServerInv, NEW r \in Calls, Srv!Step(r)
  PROVE  (\E t : Proved!LooksUp(r, t)) \/ Proved!Moves(r) \/ UNCHANGED <<req, inFlight>>
<1> USE Served
<1>1. Proved!TypeOK /\ Proved!EntryInv
  BY DEF ServerInv, Proved!IInv
<1>2. Proved!Step(r)
  BY SrvStep
<1>3. CASE Proved!Interrupt(r)
  BY <1>1, <1>3, Proved!InterruptEffect
<1>4. CASE ~Proved!Interrupt(r)
  BY <1>1, <1>2, <1>4, Proved!StepEffect
<1> QED BY <1>3, <1>4

\* A line is read as what it is.
LEMMA ReadsEffect ==
  ASSUME ServerInv, NEW r \in Calls, ServerReads(r)
  PROVE  /\ r \in DOMAIN stdin
         /\ \A x \in Calls \ {r} : req'[x] = req[x]
         /\ req[r].pc = "unread" /\ req'[r].pc = "started"
         /\ req'[r].cancelled = req[r].cancelled /\ req'[r].found = req[r].found
         /\ req'[r].saved = req[r].saved /\ req'[r].outcome = req[r].outcome
         /\ req'[r].kind = stdin[r].kind
         /\ req'[r].kind = "turn" => req'[r].id = stdin[r].id
         /\ req'[r].kind = "interrupt" => req'[r].target = stdin[r].target
         /\ UNCHANGED <<client, inFlight, sent>>
<1> USE Served
<1>1. Proved!TypeOK /\ Proved!Read(r)
  BY SrvRead DEF ServerInv, Proved!IInv, ServerReads
<1>2. /\ \A x \in Calls \ {r} : req'[x] = req[x]
      /\ req[r].pc = "unread" /\ req'[r].pc = "started"
      /\ req'[r].cancelled = req[r].cancelled /\ req'[r].found = req[r].found
      /\ req'[r].saved = req[r].saved /\ req'[r].outcome = req[r].outcome
      /\ UNCHANGED inFlight
  BY <1>1, Proved!ReadEffect
<1> QED BY <1>2 DEF ServerReads

\* The pipe from the server holds as long as the session does: no write fails.
LEMMA ServerStays == ServerInv /\ [Next]_vars => ServerInv'
<1> SUFFICES ASSUME ServerInv, [Next]_vars PROVE ServerInv'
  OBVIOUS
<1> USE Served
<1>1. Proved!IInv'
  BY ServerSteps, Proved!InvariantStep DEF ServerInv
<1>2. /\ server.output = "open"
      /\ server \in [serve : {"reading", "writing", "returned", "exited"},
                     output : {"open", "broken"}, down : BOOLEAN]
  BY DEF ServerInv, Proved!IInv, Proved!TypeOK
<1>3. server'.output = "open"
  <2>1. ASSUME NEW r \in Calls, NEW pc, NEW outcome, Proved!Answer(r, pc, outcome)
        PROVE  server'.output = "open"
    BY <1>2, <2>1 DEF Proved!Answer
  <2>2. ASSUME NEW r \in Calls, ServerStep(r) PROVE server'.output = "open"
    <3>1. Proved!Step(r)
      BY <2>2, SrvStep DEF ServerStep
    <3> QED
      BY <1>2, <2>1, <3>1 DEF Proved!Step, Proved!AnswerAtOnce, Proved!StoreCancel,
         Proved!PassCheck, Proved!TurnSaves, Proved!TurnFails, Proved!NotificationFails,
         Proved!AnswerTurn, Proved!RemoveCancel, Proved!Interrupt, Proved!AnswerInterrupt
  <2>3. ASSUME NEW r \in Calls, ServerReads(r) PROVE server'.output = "open"
    BY <1>2, <2>3 DEF ServerReads, Srv!Read
  <2>4. CASE CloseAndKill \/ ServerExits
    BY <1>2, <2>4 DEF CloseAndKill, ServerExits, Srv!Exit
  <2>5. CASE UNCHANGED serving
    BY <1>2, <2>5 DEF serving
  <2> QED BY <2>2, <2>3, <2>4, <2>5 DEF Next, CallerStep, ReaderStep, ServerNotifies, vars
<1>4. \A r \in Calls : req'[r].outcome # "unwritten"
  <2>1. ASSUME NEW r \in Calls, ServerStep(r)
        PROVE  \A x \in Calls : req'[x].outcome # "unwritten"
    <3>1. Srv!Step(r)
      BY <2>1 DEF ServerStep
    <3>2. ASSUME NEW t, Proved!LooksUp(r, t)
          PROVE  \A x \in Calls : req'[x].outcome # "unwritten"
      BY <3>2 DEF ServerInv, Proved!LooksUp, Proved!Same
    <3>3. CASE Proved!Moves(r)
      BY <1>2, <3>3 DEF ServerInv, Proved!Moves, Proved!Keeps, Proved!Runs, Proved!Told,
         Proved!Same
    <3> QED BY <3>1, <3>2, <3>3, ServerEffect DEF ServerInv
  <2>2. ASSUME NEW r \in Calls, ServerReads(r)
        PROVE  \A x \in Calls : req'[x].outcome # "unwritten"
    BY <2>2, ReadsEffect DEF ServerInv
  <2>3. CASE UNCHANGED req
    BY <2>3 DEF ServerInv
  <2> QED BY <2>1, <2>2, <2>3, StepCases DEF ServerNotifies, serving, Quiet
<1> QED BY <1>1, <1>3, <1>4 DEF ServerInv

\* No step undoes what a request has gone through, or a line that is written.
LEMMA Onwards ==
  ASSUME ClientTypes, ServerInv, [Next]_vars
  PROVE  Progress /\ Grows
<1> USE Served
<1>1. Grows
  <2>1. ASSUME NEW c \in Calls, Write(c) PROVE Grows
    BY <2>1, WriteEffect
  <2>2. CASE UNCHANGED stdin
    BY <2>2 DEF Grows
  <2> QED BY <2>1, <2>2, StepCases, RegisterEffect, EndsEffect DEF ServerReads, ServerStep, ServerNotifies,
          ClientKeeps, client, ReadLine, Deliver, HandlerReturns, ScanEnds, Quiet
<1>2. \A r \in Calls : Proved!StageOf(r)
  BY DEF ServerInv, Proved!IInv, Proved!StageInv
<1>3. ASSUME NEW r \in Calls, ServerReads(r) PROVE Progress
  BY <1>2, <1>3, ReadsEffect DEF Progress, Proved!Turns, Proved!StageOf
<1>4. ASSUME NEW r \in Calls, ServerStep(r) PROVE Progress
  <2>1. ASSUME NEW t, Proved!LooksUp(r, t) PROVE Progress
    BY <2>1 DEF Progress, Proved!LooksUp, Proved!Same, Proved!Turns
  <2>2. CASE Proved!Moves(r)
    <3>1. \A x \in Calls \ {r} : req'[x] = req[x]
      BY <2>2 DEF Proved!Moves, Proved!Keeps
    <3>2. /\ req[r].pc # "unread" /\ req'[r].pc # "unread"
          /\ req'[r].kind = req[r].kind /\ req'[r].id = req[r].id
          /\ req'[r].target = req[r].target /\ req'[r].cancelled = req[r].cancelled
          /\ req[r].pc # "done" /\ req'[r].pc # "started"
          /\ req[r].outcome # "none" => req'[r].outcome = req[r].outcome
      BY <1>2, <2>2 DEF Proved!Moves, Proved!Keeps, Proved!Runs, Proved!Told, Proved!Same,
         Proved!Answers, Proved!StageOf
    <3> QED BY <3>1, <3>2 DEF Progress, Proved!Turns
  <2>3. CASE UNCHANGED req
    BY <2>3 DEF Progress, Proved!Turns
  <2> QED BY <1>4, <2>1, <2>2, <2>3, ServerEffect DEF ServerStep
<1>5. ASSUME UNCHANGED req PROVE Progress
  BY <1>5 DEF Progress, Proved!Turns
<1>6. Progress
  BY <1>3, <1>4, <1>5, StepCases DEF ServerNotifies, serving, Quiet
<1> QED BY <1>1, <1>6

\* What was so of a call's request stays so.
LEMMA Stable ==
  ASSUME ClientTypes, ServerInv, [Next]_vars, NEW c
  PROVE  /\ Began(c) => Began(c)'
         /\ \A o \in {"ok", "error"} : Answered(c, o) => Answered(c, o)'
<1>1. Progress /\ Grows
  BY Onwards
<1>2. Began(c) => Began(c)'
  BY <1>1 DEF Began, Progress, Grows
<1>3. ASSUME NEW o \in {"ok", "error"}, Answered(c, o) PROVE Answered(c, o)'
  BY <1>1, <1>3 DEF Answered, Progress, Grows
<1> QED BY <1>2, <1>3

-----------------------------------------------------------------------------
(* What is written and what is read *)

\* The answer to a request is written when it is given.
LEMMA AnswersEffect ==
  ASSUME ClientTypes, ServerInv, LineInv, NEW r \in Calls, ServerStep(r), [Next]_vars
  PROVE  /\ \/ UNCHANGED stdout
            \/ \E o \in {"ok", "error"} :
                 /\ r \in DOMAIN stdin /\ stdin[r].id \in Calls
                 /\ req[r].outcome = "none" /\ req'[r].outcome = o
                 /\ req'[r].pc \in {"answered", "done"}
                 /\ stdout' = Append(stdout, [kind |-> "answer", id |-> stdin[r].id,
                                              outcome |-> o])
         /\ UNCHANGED <<call, chan, pending, handlers, seen, stdin, reader, closed,
                        panicked, sent>>
<1> USE Served
<1>1. UNCHANGED <<call, chan, pending, handlers, seen, stdin, reader, closed, panicked, sent>>
  BY DEF ServerStep, ClientKeeps
<1>2. CASE req'[r].outcome = req[r].outcome
  BY <1>1, <1>2 DEF ServerStep
<1>3. CASE req'[r].outcome # req[r].outcome
  <2>1. Proved!Moves(r)
    <3>1. \A t : ~Proved!LooksUp(r, t)
      BY <1>3 DEF Proved!LooksUp, Proved!Same
    <3>2. Srv!Step(r)
      BY DEF ServerStep
    <3> QED BY <1>3, <3>1, <3>2, ServerEffect
  <2>2. Proved!StageOf(r)
    BY DEF ServerInv, Proved!IInv, Proved!StageInv
  <2>3. /\ req[r].pc # "unread" /\ req[r].outcome = "none" /\ req'[r].outcome # "none"
        /\ req'[r].pc \in {"answered", "done"}
    BY <1>3, <2>1, <2>2 DEF Proved!Moves, Proved!Runs, Proved!Told, Proved!Same,
       Proved!Answers, Proved!StageOf
  <2>4. req'[r].outcome \in {"ok", "error"}
    <3>1. req'[r].outcome \in {"none", "ok", "error", "unwritten"}
      BY <2>1 DEF Proved!Moves, Proved!Keeps, Proved!Request, Proved!Outcomes
    <3>2. req'[r].outcome # "unwritten"
      BY ServerStays DEF ServerInv
    <3> QED BY <2>3, <3>1, <3>2
  <2>5. r \in DOMAIN stdin /\ stdin[r].id \in Calls
    <3>1. r \in DOMAIN stdin
      BY <2>3 DEF LineInv
    <3>2. stdin[r] \in InLine
      BY <3>1 DEF ClientTypes
    <3> QED BY <3>1, <3>2 DEF InLine
  <2>6. stdout' = Append(stdout, [kind |-> "answer", id |-> stdin[r].id,
                                  outcome |-> req'[r].outcome])
    BY <1>3 DEF ServerStep
  <2> QED BY <1>1, <2>3, <2>4, <2>5, <2>6
<1> QED BY <1>2, <1>3

\* An event is written for a turn that runs.
LEMMA NotifiesEffect ==
  ASSUME ClientTypes, ServerInv, LineInv, NEW r \in Calls, ServerNotifies(r)
  PROVE  /\ r \in DOMAIN stdin /\ stdin[r].id \in Calls
         /\ r \in Proved!Turns /\ req[r].outcome = "none"
         /\ sent' = [sent EXCEPT ![stdin[r].id] = @ + 1]
         /\ stdout' = Append(stdout, [kind |-> "event", id |-> stdin[r].id,
                                      outcome |-> "none"])
         /\ UNCHANGED <<call, chan, pending, handlers, seen, stdin, reader, closed, panicked>>
         /\ UNCHANGED <<req, inFlight, server>>
<1> USE Served
<1>1. req[r].pc \in {"running", "saving", "saved", "failed"}
  BY DEF ServerNotifies
<1>2. Proved!StageOf(r)
  BY DEF ServerInv, Proved!IInv, Proved!StageInv
<1>3. r \in Proved!Turns /\ req[r].outcome = "none"
  BY <1>1, <1>2 DEF Proved!Turns, Proved!StageOf
<1>4. r \in DOMAIN stdin
  BY <1>1 DEF LineInv
<1>5. stdin[r].id \in Calls
  <2>1. stdin[r] \in InLine
    BY <1>4 DEF ClientTypes
  <2> QED BY <2>1 DEF InLine
<1> QED BY <1>3, <1>4, <1>5 DEF ServerNotifies, ClientKeeps, serving

\* A line is taken: by a client that was closed, as an answer, or as an event.
TakesAnswer(line) ==
  /\ line.kind = "answer" /\ line.id \in Calls
  /\ pending' = [pending EXCEPT ![line.id] = FALSE]
  /\ handlers' = [handlers EXCEPT ![line.id] = FALSE]
  /\ \/ /\ pending[line.id]
        /\ reader'.at = "deliver" /\ reader'.of = line.id /\ reader'.outcome = line.outcome
     \/ ~pending[line.id] /\ reader' = reader

TakesEvent(line) ==
  /\ line.kind = "event" /\ line.id \in Calls
  /\ \/ handlers[line.id] /\ reader'.at = "handling" /\ reader'.of = line.id
     \/ ~handlers[line.id] /\ reader' = reader
  /\ UNCHANGED <<pending, handlers>>

LEMMA ReadLineEffect ==
  ASSUME ClientTypes, ReadLine
  PROVE  /\ reader.at = "scan" /\ stdout # <<>> /\ stdout' = Tail(stdout)
         /\ \/ reader'.at = "ended" /\ UNCHANGED <<pending, handlers>>
            \/ TakesAnswer(stdout[1])
            \/ TakesEvent(stdout[1])
         /\ reader' \in ReaderType
         /\ UNCHANGED <<call, chan, seen, stdin, closed, panicked>>
<1>1. /\ reader.at = "scan" /\ stdout # <<>> /\ stdout' = Tail(stdout)
      /\ UNCHANGED <<call, chan, seen, stdin, closed, panicked>>
  BY DEF ReadLine
<1>2. /\ Head(stdout) = stdout[1] /\ stdout[1] \in OutLine
      /\ stdout[1].id \in Calls /\ stdout[1].kind \in {"answer", "event"}
      /\ stdout[1].outcome \in {"none", "ok", "error"}
  BY <1>1, TailEffect DEF OutLine
<1>3. reader \in ReaderType
  BY DEF ClientTypes
<1>4. CASE closed
  <2>1. reader' = [reader EXCEPT !.at = "ended"] /\ UNCHANGED <<pending, handlers>>
    BY <1>4 DEF ReadLine
  <2> QED BY <1>1, <1>3, <2>1 DEF ReaderType
<1>5. CASE ~closed /\ stdout[1].kind = "answer"
  <2> DEFINE line == stdout[1]
             taken == [reader EXCEPT !.at = "deliver", !.of = line.id,
                                     !.outcome = line.outcome]
  <2>1. TakeAnswer(line)
    BY <1>2, <1>5 DEF ReadLine
  <2>2. /\ taken \in ReaderType
        /\ taken.at = "deliver" /\ taken.of = line.id /\ taken.outcome = line.outcome
    BY <1>2, <1>3 DEF ReaderType
  <2>3. reader' = IF pending[line.id] THEN taken ELSE reader
    BY <2>1 DEF TakeAnswer
  <2> HIDE DEF taken
  <2>4. reader' \in ReaderType /\ TakesAnswer(line)
    BY <1>2, <1>3, <1>5, <2>1, <2>2, <2>3 DEF TakeAnswer, TakesAnswer
  <2> QED BY <1>1, <2>4
<1>6. CASE ~closed /\ stdout[1].kind = "event"
  <2> DEFINE line == stdout[1]
             taken == [reader EXCEPT !.at = "handling", !.of = line.id]
  <2>1. TakeEvent(line)
    BY <1>2, <1>6 DEF ReadLine
  <2>2. taken \in ReaderType /\ taken.at = "handling" /\ taken.of = line.id
    BY <1>2, <1>3 DEF ReaderType
  <2>3. reader' = IF handlers[line.id] THEN taken ELSE reader
    BY <2>1 DEF TakeEvent
  <2> HIDE DEF taken
  <2>4. reader' \in ReaderType /\ TakesEvent(line)
    BY <1>2, <1>3, <1>6, <2>1, <2>2, <2>3 DEF TakeEvent, TakesEvent
  <2> QED BY <1>1, <2>4
<1> QED BY <1>2, <1>4, <1>5, <1>6

LEMMA ScanningTyped == Scanning \in ReaderType /\ Scanning.at = "scan"
BY DEF Scanning, ReaderType

-----------------------------------------------------------------------------
(* The types of the client *)

LEMMA TypesStay ==
  ASSUME ClientTypes, ServerInv, LineInv, AnswerInv, [Next]_vars
  PROVE  ClientTypes'
<1>1. ASSUME NEW c \in Calls, Register(c), UNCHANGED <<serving, sent>> PROVE ClientTypes'
  <2>1. CallType = CallType' /\ call'[c] \in CallType
    BY <1>1, RegisterEffect DEF CallType
  <2>2. call'[c].handler \in BOOLEAN
    BY <2>1 DEF CallType
  <2>3. handlers' \in [Calls -> BOOLEAN] /\ pending' \in [Calls -> BOOLEAN]
    <3>1. /\ handlers \in [Calls -> BOOLEAN] /\ pending \in [Calls -> BOOLEAN]
      BY DEF ClientTypes
    <3>2. /\ handlers' = [handlers EXCEPT ![c] = call'[c].handler]
          /\ pending' = [pending EXCEPT ![c] = TRUE]
      BY <1>1, RegisterEffect
    <3> QED BY <2>2, <3>1, <3>2, Zenon
  <2> QED BY <1>1, <2>3, RegisterEffect DEF ClientTypes
<1>2. ASSUME NEW c \in Calls, NEW outcome \in Outcomes, Ends(c, outcome),
             UNCHANGED <<serving, sent>>
      PROVE  ClientTypes'
  <2>1. chan' \in [Calls -> {"empty", "ok", "error", "closed"}]
    BY <1>2, EndsEffect DEF ClientTypes
  <2> QED BY <1>2, <2>1, EndsEffect DEF ClientTypes
<1>3. ASSUME NEW c \in Calls, Write(c), UNCHANGED <<serving, sent>> PROVE ClientTypes'
  BY <1>3, WriteEffect DEF ClientTypes
<1>4. ASSUME NEW r \in Calls, ServerReads(r) PROVE ClientTypes'
  BY <1>4 DEF ServerReads, client, ClientTypes
<1>5. ASSUME NEW r \in Calls, ServerStep(r) PROVE ClientTypes'
  <2>1. stdout' \in Seq(OutLine)
    <3>1. CASE UNCHANGED stdout
      BY <3>1 DEF ClientTypes
    <3>2. ASSUME NEW o \in {"ok", "error"}, stdin[r].id \in Calls,
                 stdout' = Append(stdout, [kind |-> "answer", id |-> stdin[r].id,
                                           outcome |-> o])
          PROVE  stdout' \in Seq(OutLine)
      <4>1. [kind |-> "answer", id |-> stdin[r].id, outcome |-> o] \in OutLine
        BY <3>2 DEF OutLine
      <4> QED BY <3>2, <4>1, OutLineEffect
    <3> QED BY <1>5, <3>1, <3>2, AnswersEffect
  <2> QED BY <1>5, <2>1, AnswersEffect DEF ClientTypes
<1>6. ASSUME NEW r \in Calls, ServerNotifies(r) PROVE ClientTypes'
  <2>1. [kind |-> "event", id |-> stdin[r].id, outcome |-> "none"] \in OutLine
    BY <1>6, NotifiesEffect DEF OutLine
  <2>2. stdout' \in Seq(OutLine)
    BY <1>6, <2>1, NotifiesEffect, OutLineEffect
  <2>3. sent' \in [Calls -> Nat]
    <3>1. sent \in [Calls -> Nat]
      BY DEF ClientTypes
    <3>2. sent' = [sent EXCEPT ![stdin[r].id] = @ + 1] /\ stdin[r].id \in Calls
      BY <1>6, NotifiesEffect
    <3> QED BY <3>1, <3>2
  <2> QED BY <1>6, <2>2, <2>3, NotifiesEffect DEF ClientTypes
<1>7. ASSUME ReadLine, UNCHANGED <<serving, sent>> PROVE ClientTypes'
  <2>1. stdout' \in Seq(OutLine)
    BY <1>7, ReadLineEffect, TailEffect
  <2>2. pending' \in [Calls -> BOOLEAN] /\ handlers' \in [Calls -> BOOLEAN]
    BY <1>7, ReadLineEffect DEF TakesAnswer, TakesEvent, ClientTypes
  <2>3. reader'.at \in {"deliver", "handling"} => reader'.of \in Calls
    BY <1>7, ReadLineEffect DEF TakesAnswer, TakesEvent
  <2> QED BY <1>7, <2>1, <2>2, <2>3, ReadLineEffect DEF ClientTypes
<1>8. ASSUME Deliver, UNCHANGED <<serving, sent>> PROVE ClientTypes'
  <2>1. reader.of \in Calls /\ reader.outcome \in {"ok", "error"}
    BY <1>8 DEF Deliver, ClientTypes, AnswerInv
  <2>2. CASE panicked' = TRUE /\ UNCHANGED <<chan, reader>>
    BY <1>8, <2>2 DEF Deliver, ClientTypes
  <2>3. CASE /\ chan' = [chan EXCEPT ![reader.of] = reader.outcome]
             /\ reader' = Scanning /\ UNCHANGED panicked
    <3>1. chan' \in [Calls -> {"empty", "ok", "error", "closed"}]
      BY <2>1, <2>3 DEF ClientTypes
    <3> QED BY <1>8, <2>3, <3>1, ScanningTyped DEF Deliver, ClientTypes
  <2> QED BY <1>8, <2>2, <2>3 DEF Deliver
<1>9. ASSUME HandlerReturns, UNCHANGED <<serving, sent>> PROVE ClientTypes'
  <2>1. seen' \in [Calls -> Nat]
    BY <1>9 DEF HandlerReturns, ClientTypes
  <2> QED BY <1>9, <2>1, ScanningTyped DEF HandlerReturns, ClientTypes
<1>10. ASSUME ScanEnds, UNCHANGED <<serving, sent>> PROVE ClientTypes'
  BY <1>10 DEF ScanEnds, ClientTypes, ReaderType
<1>11. ASSUME Quiet PROVE ClientTypes'
  BY <1>11 DEF Quiet, ClientTypes
<1> QED BY <1>1, <1>2, <1>3, <1>4, <1>5, <1>6, <1>7, <1>8, <1>9, <1>10, <1>11, StepCases

-----------------------------------------------------------------------------
(* Lines and requests *)

\* A request leaves "unread" only when its line is read.
LEMMA OnlyRead ==
  ASSUME ServerInv, [Next]_vars, NEW x \in Calls, req[x].pc = "unread", req'[x].pc # "unread"
  PROVE  ServerReads(x)
<1> USE Served
<1>1. ASSUME NEW r \in Calls, ServerStep(r) PROVE FALSE
  <2>1. \A t : ~Proved!LooksUp(r, t)
    BY DEF Proved!LooksUp, Proved!Same
  <2>2. ~Proved!Moves(r)
    BY DEF Proved!Moves, Proved!Keeps, Proved!Runs, Proved!Told, Proved!Answers
  <2> QED BY <1>1, <2>1, <2>2, ServerEffect DEF ServerStep
<1>2. ASSUME NEW r \in Calls, ServerReads(r) PROVE r = x
  BY <1>2, ReadsEffect
<1> QED BY <1>1, <1>2, StepCases DEF ServerNotifies, serving, Quiet

LEMMA LinesStay ==
  ASSUME ClientTypes, ServerInv, LineInv, OnceInv, [Next]_vars
  PROVE  LineInv'
<1>1. Progress /\ Grows
  BY Onwards
<1>2. \A k \in DOMAIN stdin : stdin[k].id \in Calls
  <2>1. \A k \in DOMAIN stdin : stdin[k] \in InLine
    BY DEF ClientTypes
  <2> QED BY <2>1 DEF InLine
<1> DEFINE OfCalls ==
             \A r \in DOMAIN stdin :
               /\ call[stdin[r].id].pc \in {"waiting", "returned"}
               /\ call[stdin[r].id].outcome # "failed"
               /\ stdin[r].kind = call[stdin[r].id].kind
               /\ stdin[r].target = call[stdin[r].id].target
           Unique == \A r, q \in DOMAIN stdin : stdin[r].id = stdin[q].id => r = q
<1>3. OfCalls /\ Unique
  BY DEF LineInv
<1>4. OfCalls' /\ Unique'
  <2>1. ASSUME NEW c \in Calls, Register(c) PROVE OfCalls' /\ Unique'
    <3>1. \A k \in DOMAIN stdin : stdin[k].id # c
      BY <1>3, <2>1, RegisterEffect
    <3> QED BY <1>2, <1>3, <2>1, <3>1, RegisterEffect
  <2>2. ASSUME NEW c \in Calls, NEW outcome \in Outcomes, Ends(c, outcome)
        PROVE  OfCalls' /\ Unique'
    <3>1. call[c].pc = "registered" => \A k \in DOMAIN stdin : stdin[k].id # c
      BY <1>3
    <3>2. outcome = "failed" => call[c].pc = "registered"
      BY <2>2 DEF Ends
    <3> QED BY <1>2, <1>3, <2>2, <3>1, <3>2, EndsEffect
  <2>3. ASSUME NEW c \in Calls, Write(c) PROVE OfCalls' /\ Unique'
    <3> DEFINE n == Len(stdin) + 1
    <3>1. \A k \in DOMAIN stdin : stdin[k].id # c
      BY <1>3, <2>3, WriteEffect
    <3>2. /\ stdin'[n].id = c /\ stdin'[n].kind = call[c].kind
          /\ stdin'[n].target = call[c].target
      <4>1. stdin'[n] = [id |-> c, kind |-> call[c].kind, target |-> call[c].target]
        BY <2>3, WriteEffect
      <4> QED BY <4>1
    <3>3. call[c].outcome # "failed"
      BY <2>3, WriteEffect DEF OnceInv, OnceOf
    <3>4. ASSUME NEW r \in DOMAIN stdin'
          PROVE  \/ r = n
                 \/ r \in DOMAIN stdin /\ stdin'[r] = stdin[r] /\ stdin[r].id # c
      BY <1>1, <2>3, <3>1, WriteEffect DEF Grows
    <3> HIDE DEF n
    <3>5. OfCalls'
      <4>1. /\ call'[c].pc = "waiting" /\ call'[c].outcome = call[c].outcome
            /\ call'[c].kind = call[c].kind /\ call'[c].target = call[c].target
            /\ \A b \in Calls \ {c} : call'[b] = call[b]
        BY <2>3, WriteEffect
      <4> QED BY <1>2, <1>3, <3>2, <3>3, <3>4, <4>1
    <3>6. Unique'
      BY <1>3, <3>2, <3>4
    <3> QED BY <3>5, <3>6
  <2>4. ASSUME UNCHANGED <<call, stdin>> PROVE OfCalls' /\ Unique'
    BY <1>3, <2>4
  <2> HIDE DEF OfCalls, Unique
  <2>5. ASSUME NEW r \in Calls, ServerReads(r) \/ ServerStep(r) \/ ServerNotifies(r)
        PROVE  UNCHANGED <<call, stdin>>
    BY <2>5 DEF ServerReads, ServerStep, ServerNotifies, ClientKeeps, client
  <2> QED BY <2>1, <2>2, <2>3, <2>4, <2>5, StepCases
          DEF ReadLine, Deliver, HandlerReturns, ScanEnds, Quiet
<1>5. ASSUME NEW r \in Calls, req'[r].pc # "unread"
      PROVE  /\ r \in DOMAIN stdin'
             /\ req'[r].kind = stdin'[r].kind
             /\ req'[r].kind = "turn" => req'[r].id = stdin'[r].id
             /\ req'[r].kind = "interrupt" => req'[r].target = stdin'[r].target
  <2>1. CASE req[r].pc # "unread"
    BY <1>1, <2>1 DEF LineInv, Progress, Grows
  <2>2. CASE req[r].pc = "unread"
    <3>1. ServerReads(r)
      BY <1>5, <2>2, OnlyRead
    <3> QED BY <1>1, <3>1, ReadsEffect DEF Grows
  <2> QED BY <2>1, <2>2
<1> QED BY <1>4, <1>5 DEF LineInv

\* An id stands for one turn, so that its entry is there until it is done.
LEMMA EntriesStay ==
  ASSUME ClientTypes, ServerInv, LineInv, EntryInv, [Next]_vars
  PROVE  EntryInv'
<1> USE Served
<1>1. /\ \A r \in Calls : Proved!StageOf(r)
      /\ \A id \in Calls : inFlight[id] # Proved!NoRequest => req[inFlight[id]].id = id
      /\ req \in [Calls -> Proved!Request]
      /\ inFlight \in [Calls -> Calls \cup {Proved!NoRequest}]
  BY Proved!Typed DEF ServerInv, Proved!IInv, Proved!StageInv, Proved!EntryInv,
                      Proved!TypeOK, Calls
<1>2. \A r \in Calls : req[r].id \in Calls /\ req[r].target \in Calls
  BY <1>1 DEF Proved!Request, Calls
<1>3. \A r, q \in Calls :
        /\ req[r].pc # "unread" /\ req[r].kind = "turn"
        /\ req[q].pc # "unread" /\ req[q].kind = "turn"
        /\ req[r].id = req[q].id
        => r = q
  BY DEF LineInv
<1>4. ASSUME NEW r \in Calls, ServerStep(r), NEW t \in Proved!Turns',
             ~req'[t].cancelled, req'[t].pc # "done"
      PROVE  inFlight'[req'[t].id] = t
  <2>0. t \in Calls /\ req'[t].kind = "turn" /\ req'[t].pc \notin {"unread", "started"}
    BY <1>4 DEF Proved!Turns
  <2>1. ASSUME NEW u, Proved!LooksUp(r, u) PROVE inFlight'[req'[t].id] = t
    <3>1. /\ t # r /\ req'[t].id = req[t].id
          /\ req[t].kind = "turn" /\ req[t].pc \notin {"unread", "started", "done"}
          /\ ~req[t].cancelled /\ t # u
      BY <1>4, <2>0, <2>1 DEF Proved!LooksUp, Proved!Same
    <3>2. inFlight[req[t].id] = t
      BY <2>0, <3>1 DEF EntryInv, Proved!Turns
    <3>3. inFlight' = [inFlight EXCEPT ![req[r].target] = Proved!NoRequest]
          /\ u = inFlight[req[r].target]
      BY <2>1 DEF Proved!LooksUp
    <3>4. req[t].id # req[r].target
      BY <3>1, <3>2, <3>3
    <3> QED BY <1>1, <1>2, <2>0, <3>1, <3>2, <3>3, <3>4
  <2>2. CASE Proved!Moves(r)
    <3>1. req'[t].id = req[t].id /\ ~req[t].cancelled /\ req[t].kind = "turn"
      BY <1>4, <2>0, <2>2 DEF Proved!Moves, Proved!Keeps
    <3>2. CASE t # r
      <4>1. req'[t] = req[t] /\ t \in Proved!Turns /\ req[t].pc # "unread"
        BY <1>4, <2>0, <2>2, <3>2 DEF Proved!Moves, Proved!Keeps, Proved!Turns
      <4>2. inFlight[req[t].id] = t
        BY <1>4, <4>1 DEF EntryInv
      <4>3. \/ UNCHANGED inFlight
            \/ /\ req[r].kind = "turn" /\ req[r].pc # "unread"
               /\ \/ inFlight' = [inFlight EXCEPT ![req[r].id] = r]
                  \/ inFlight' = [inFlight EXCEPT ![req[r].id] = Proved!NoRequest]
        BY <1>1, <2>2 DEF Proved!Moves, Proved!StageOf
      <4>4. req[r].kind = "turn" /\ req[r].pc # "unread" => req[r].id # req[t].id
        BY <1>3, <2>0, <3>1, <3>2, <4>1
      <4> QED BY <1>1, <1>2, <2>0, <3>1, <4>2, <4>3, <4>4
    <3>3. CASE t = r
      <4>1. \/ /\ req[r].pc \in {"running", "saving", "saved", "failed"}
               /\ UNCHANGED inFlight
            \/ inFlight' = [inFlight EXCEPT ![req[r].id] = r]
        BY <1>4, <2>0, <2>2, <3>1, <3>3 DEF Proved!Moves, Proved!Runs, Proved!Told,
           Proved!Answers
      <4>2. CASE req[r].pc \in {"running", "saving", "saved", "failed"} /\ UNCHANGED inFlight
        BY <2>0, <3>1, <3>3, <4>2 DEF EntryInv, Proved!Turns
      <4>3. CASE inFlight' = [inFlight EXCEPT ![req[r].id] = r]
        BY <1>1, <1>2, <3>1, <3>3, <4>3
      <4> QED BY <4>1, <4>2, <4>3
    <3> QED BY <3>2, <3>3
  <2>3. CASE UNCHANGED <<req, inFlight>>
    BY <1>4, <2>3 DEF EntryInv, Proved!Turns
  <2> QED BY <1>4, <2>1, <2>2, <2>3, ServerEffect DEF ServerStep
<1>5. ASSUME NEW r \in Calls, ServerReads(r) PROVE EntryInv'
  <2>1. ASSUME NEW t \in Proved!Turns' PROVE t \in Proved!Turns /\ req'[t] = req[t]
    BY <1>5, ReadsEffect DEF Proved!Turns
  <2> QED BY <1>5, <2>1, ReadsEffect DEF EntryInv
<1>6. ASSUME UNCHANGED <<req, inFlight>> PROVE EntryInv'
  BY <1>6 DEF EntryInv, Proved!Turns
<1>7. ASSUME NEW r \in Calls, ServerStep(r) PROVE EntryInv'
  BY <1>4, <1>7 DEF EntryInv
<1> QED BY <1>5, <1>6, <1>7, StepCases DEF ServerNotifies, serving, Quiet

-----------------------------------------------------------------------------
(* What the program knows *)

\* Of a call whose line is written nothing changes that an interrupt rests on.
LEMMA CallsKeep ==
  ASSUME ClientTypes, LineInv, [Next]_vars, NEW r \in DOMAIN stdin
  PROVE  /\ call'[stdin[r].id].told = call[stdin[r].id].told
         /\ call'[stdin[r].id].target = call[stdin[r].id].target
<1> DEFINE id == stdin[r].id
<1>1. id \in Calls
  <2>1. stdin[r] \in InLine
    BY DEF ClientTypes
  <2> QED BY <2>1 DEF InLine
<1>2. call[id].pc # "idle"
  BY DEF LineInv
<1> HIDE DEF id
<1>3. ASSUME NEW c \in Calls, Register(c)
      PROVE  call'[id].told = call[id].told /\ call'[id].target = call[id].target
  BY <1>1, <1>2, <1>3, RegisterEffect
<1>4. ASSUME NEW c \in Calls, NEW outcome \in Outcomes, Ends(c, outcome)
      PROVE  call'[id].told = call[id].told /\ call'[id].target = call[id].target
  BY <1>1, <1>4, EndsEffect
<1>5. ASSUME NEW c \in Calls, Write(c)
      PROVE  call'[id].told = call[id].told /\ call'[id].target = call[id].target
  BY <1>1, <1>5, WriteEffect
<1>6. call'[id].told = call[id].told /\ call'[id].target = call[id].target
  BY <1>3, <1>4, <1>5, StepCases
     DEF ServerReads, ServerStep, ServerNotifies, ClientKeeps, client, ReadLine, Deliver,
         HandlerReturns, ScanEnds, Quiet
<1> QED BY <1>6 DEF id

\* An interrupt has found what it found when it looked.
LEMMA LookedUp ==
  ASSUME ServerInv, [Next]_vars, NEW r \in Calls, req'[r].kind = "interrupt",
         req'[r].pc \in {"looked_up", "done"}
  PROVE  \/ /\ req[r].kind = "interrupt" /\ req[r].pc \in {"looked_up", "done"}
            /\ req[r].found = req'[r].found
         \/ Proved!LooksUp(r, req'[r].found)
<1> USE Served
<1> DEFINE Goal == \/ /\ req[r].kind = "interrupt" /\ req[r].pc \in {"looked_up", "done"}
                      /\ req[r].found = req'[r].found
                   \/ Proved!LooksUp(r, req'[r].found)
<1>1. \A x \in Calls : Proved!StageOf(x)
  BY DEF ServerInv, Proved!IInv, Proved!StageInv
<1>2. ASSUME NEW x \in Calls, ServerStep(x) PROVE Goal
  <2>1. ASSUME NEW t, Proved!LooksUp(x, t) PROVE Goal
    <3>1. CASE x = r
      <4>1. t = req'[r].found
        BY <2>1, <3>1 DEF Proved!LooksUp
      <4> QED BY <2>1, <3>1, <4>1
    <3>2. CASE x # r
      BY <2>1, <3>2 DEF Proved!LooksUp
    <3> QED BY <3>1, <3>2
  <2>2. CASE Proved!Moves(x)
    <3>1. CASE x = r
      BY <1>1, <2>2, <3>1 DEF Proved!Moves, Proved!Keeps, Proved!Runs, Proved!Told,
         Proved!Answers, Proved!StageOf
    <3>2. CASE x # r
      BY <2>2, <3>2 DEF Proved!Moves, Proved!Keeps
    <3> QED BY <3>1, <3>2
  <2>3. CASE UNCHANGED req
    BY <2>3
  <2> HIDE DEF Goal
  <2> QED BY <1>2, <2>1, <2>2, <2>3, ServerEffect DEF ServerStep
<1>3. ASSUME NEW x \in Calls, ServerReads(x) PROVE Goal
  BY <1>3, ReadsEffect
<1>4. ASSUME UNCHANGED req PROVE Goal
  BY <1>4
<1> HIDE DEF Goal
<1>5. Goal
  BY <1>2, <1>3, <1>4, StepCases DEF ServerNotifies, serving, Quiet
<1> QED BY <1>5 DEF Goal

LEMMA ToldStays ==
  ASSUME ClientTypes, ServerInv, LineInv, EntryInv, ToldInv, AnswerInv, OnceInv, [Next]_vars
  PROVE  ToldInv'
<1> USE Served
<1>0. Progress /\ Grows /\ LineInv' /\ ServerInv'
  BY Onwards, LinesStay, ServerStays
<1>1. \A c : Began(c) => Began(c)'
  BY Stable
<1>2. ASSUME NEW r \in Calls, ServerNotifies(r) PROVE Began(stdin[r].id)
  BY <1>2, NotifiesEffect DEF Began
<1>3. ASSUME NEW c \in Calls, seen'[c] > 0 \/ sent'[c] > 0 \/ Handles(c)'
      PROVE  Began(c)
  <2>1. seen \in [Calls -> Nat] /\ sent \in [Calls -> Nat]
    BY DEF ClientTypes
  <2>2. ASSUME UNCHANGED <<seen, sent>>, Handles(c)' => Handles(c) PROVE Began(c)
    BY <1>3, <2>2 DEF ToldInv
  <2>3. ASSUME NEW r \in Calls, ServerNotifies(r) PROVE Began(c)
    <3>1. CASE c = stdin[r].id
      BY <1>2, <2>3, <3>1
    <3>2. CASE c # stdin[r].id
      <4>1. sent'[c] = sent[c] /\ UNCHANGED <<seen, reader>>
        BY <2>1, <2>3, <3>2, NotifiesEffect
      <4> QED BY <1>3, <4>1 DEF ToldInv, Handles
    <3> QED BY <3>1, <3>2
  <2>4. ASSUME ReadLine, UNCHANGED <<serving, sent>> PROVE Began(c)
    <3>1. /\ UNCHANGED seen
          /\ Handles(c)' => stdout[1].kind = "event" /\ stdout[1].id = c
      BY <2>4, ReadLineEffect DEF TakesAnswer, TakesEvent, Handles
    <3>2. 1 \in DOMAIN stdout
      BY <2>4, ReadLineEffect, TailEffect
    <3>3. CASE Handles(c)'
      BY <3>1, <3>2, <3>3 DEF ToldInv
    <3>4. CASE ~Handles(c)'
      BY <1>3, <2>4, <3>1, <3>4 DEF ToldInv
    <3> QED BY <3>3, <3>4
  <2>5. ASSUME HandlerReturns, UNCHANGED <<serving, sent>> PROVE Began(c)
    <3>1. /\ ~Handles(c)' /\ reader.at = "handling"
          /\ seen' = [seen EXCEPT ![reader.of] = @ + 1]
      BY <2>5 DEF HandlerReturns, Handles, Scanning
    <3>2. CASE reader.of = c
      BY <3>1, <3>2 DEF Handles, ToldInv
    <3>3. CASE reader.of # c
      <4>1. seen'[c] = seen[c]
        BY <2>1, <3>1, <3>3
      <4> QED BY <1>3, <2>5, <3>1, <4>1 DEF ToldInv
    <3> QED BY <3>2, <3>3
  <2>6. ASSUME NEW d \in Calls, Register(d), UNCHANGED <<serving, sent>> PROVE Began(c)
    BY <2>2, <2>6, RegisterEffect DEF Handles
  <2>7. CASE UNCHANGED <<seen, sent, reader>>
    BY <2>2, <2>7 DEF Handles
  <2>8. ASSUME Deliver \/ ScanEnds, UNCHANGED <<serving, sent>> PROVE Began(c)
    <3>1. UNCHANGED seen /\ (Handles(c)' => Handles(c))
      BY <2>8, ScanningTyped DEF Deliver, ScanEnds, Handles, ClientTypes, ReaderType
    <3> QED BY <2>2, <2>8, <3>1
  <2>9. ASSUME NEW r \in Calls, ServerReads(r) \/ ServerStep(r)
        PROVE  UNCHANGED <<seen, sent, reader>>
    BY <2>9 DEF ServerReads, ServerStep, ClientKeeps, client
  <2> QED BY <2>3, <2>4, <2>5, <2>6, <2>7, <2>8, <2>9, StepCases, EndsEffect, WriteEffect
          DEF Quiet
<1>4. ASSUME NEW k \in DOMAIN stdout', stdout'[k].kind = "event"
      PROVE  Began(stdout'[k].id)
  <2>1. CASE UNCHANGED stdout
    BY <1>4, <2>1 DEF ToldInv
  <2>2. ASSUME ReadLine PROVE Began(stdout'[k].id)
    <3>1. k + 1 \in DOMAIN stdout /\ stdout'[k] = stdout[k + 1]
      BY <1>4, <2>2, ReadLineEffect, TailEffect
    <3> QED BY <1>4, <3>1 DEF ToldInv
  <2>3. ASSUME NEW r \in Calls, ServerNotifies(r) PROVE Began(stdout'[k].id)
    <3> DEFINE line == [kind |-> "event", id |-> stdin[r].id, outcome |-> "none"]
    <3>1. line \in OutLine /\ line.id = stdin[r].id /\ stdout' = Append(stdout, line)
      BY <2>3, NotifiesEffect DEF OutLine
    <3> HIDE DEF line
    <3>2. \/ k \in DOMAIN stdout /\ stdout'[k] = stdout[k]
          \/ stdout'[k] = line
      BY <1>4, <3>1, OutLineEffect
    <3> QED BY <1>2, <1>4, <2>3, <3>1, <3>2 DEF ToldInv
  <2>4. ASSUME NEW r \in Calls, ServerStep(r) PROVE Began(stdout'[k].id)
    <3>1. ASSUME NEW o \in {"ok", "error"}, stdin[r].id \in Calls,
                 stdout' = Append(stdout, [kind |-> "answer", id |-> stdin[r].id,
                                           outcome |-> o])
          PROVE  Began(stdout'[k].id)
      <4> DEFINE line == [kind |-> "answer", id |-> stdin[r].id, outcome |-> o]
      <4>1. line \in OutLine /\ line.kind = "answer" /\ stdout' = Append(stdout, line)
        BY <3>1 DEF OutLine
      <4> HIDE DEF line
      <4>2. k \in DOMAIN stdout /\ stdout'[k] = stdout[k]
        BY <1>4, <4>1, OutLineEffect
      <4> QED BY <1>4, <4>2 DEF ToldInv
    <3> QED BY <2>1, <2>4, <3>1, AnswersEffect
  <2>5. ASSUME NEW r \in Calls, ServerReads(r) PROVE UNCHANGED stdout
    BY <2>5 DEF ServerReads, client
  <2> QED BY <2>1, <2>2, <2>3, <2>4, <2>5, StepCases, RegisterEffect, EndsEffect, WriteEffect
          DEF Deliver, HandlerReturns, ScanEnds, Quiet
<1>5. ASSUME NEW c \in Calls, call'[c].told PROVE Began(call'[c].target)
  <2>1. ASSUME NEW d \in Calls, Register(d) PROVE Began(call'[c].target)
    <3>1. CASE c = d
      BY <1>5, <2>1, <3>1, RegisterEffect DEF ToldInv
    <3>2. CASE c # d
      BY <1>5, <2>1, <3>2, RegisterEffect DEF ToldInv
    <3> QED BY <3>1, <3>2
  <2>2. ASSUME NEW d \in Calls, NEW outcome \in Outcomes, Ends(d, outcome)
        PROVE  call'[c].told = call[c].told /\ call'[c].target = call[c].target
    BY <2>2, EndsEffect
  <2>3. ASSUME NEW d \in Calls, Write(d)
        PROVE  call'[c].told = call[c].told /\ call'[c].target = call[c].target
    BY <2>3, WriteEffect
  <2>4. ASSUME UNCHANGED call \/ (call'[c].told = call[c].told /\ call'[c].target = call[c].target)
        PROVE  Began(call'[c].target)
    BY <1>5, <2>4 DEF ToldInv
  <2> QED BY <2>1, <2>2, <2>3, <2>4, StepCases
          DEF ServerReads, ServerStep, ServerNotifies, ClientKeeps, client, ReadLine, Deliver,
              HandlerReturns, ScanEnds, Quiet
<1>6. ASSUME NEW r \in Calls, req'[r].kind = "interrupt",
             req'[r].pc \in {"looked_up", "done"}, req'[r].found = Proved!NoRequest,
             call'[stdin'[r].id].told,
             NEW t \in Calls, t \in DOMAIN stdin', stdin'[t].id = call'[stdin'[r].id].target
      PROVE  req'[t].cancelled \/ req'[t].pc = "done"
  <2> DEFINE id == stdin[r].id
             target == call[id].target
  <2>1. r \in DOMAIN stdin /\ req[r].pc # "unread" /\ stdin'[r] = stdin[r]
    <3>1. req[r].pc # "unread"
      BY <1>6, LookedUp DEF Proved!LooksUp
    <3> QED BY <1>0, <3>1 DEF LineInv, Grows
  <2>2. call[id].told /\ call'[id].target = target /\ stdin'[t].id = target /\ id \in Calls
    <3>1. stdin[r] \in InLine
      BY <2>1 DEF ClientTypes
    <3> QED BY <1>6, <2>1, <3>1, CallsKeep DEF InLine
  <2>3. t \in DOMAIN stdin /\ stdin[t].id = target /\ t \in Proved!Turns
    <3>1. Began(target)
      BY <2>2 DEF ToldInv
    <3>2. PICK b \in Calls : b \in DOMAIN stdin /\ stdin[b].id = target /\ b \in Proved!Turns
      BY <3>1 DEF Began
    <3>3. b \in DOMAIN stdin' /\ stdin'[b].id = target
      BY <1>0, <3>2 DEF Grows
    <3>4. b = t
      BY <1>0, <1>6, <2>2, <3>3 DEF LineInv
    <3> QED BY <3>2, <3>4
  <2> HIDE DEF id
  <2>4. CASE /\ req[r].kind = "interrupt" /\ req[r].pc \in {"looked_up", "done"}
             /\ req[r].found = req'[r].found
    <3>1. req[t].cancelled \/ req[t].pc = "done"
      BY <1>6, <2>2, <2>3, <2>4 DEF ToldInv, id
    <3> QED BY <1>0, <3>1 DEF Progress
  <2>5. CASE Proved!LooksUp(r, req'[r].found)
    <3>1. /\ req[r].kind = "interrupt" /\ req'[r].found = inFlight[req[r].target]
      BY <2>5 DEF Proved!LooksUp
    <3>2. req[r].target = target
      BY <2>1, <3>1 DEF LineInv, id
    <3>3. req[t].id = target
      BY <2>3 DEF LineInv, Proved!Turns
    <3>4. t # Proved!NoRequest
      BY DEF Calls, Proved!NoRequest
    <3>5. req[t].cancelled \/ req[t].pc = "done"
      BY <1>6, <2>3, <3>1, <3>2, <3>3, <3>4 DEF EntryInv
    <3> QED BY <1>0, <3>5 DEF Progress
  <2> QED BY <1>6, <2>4, <2>5, LookedUp
<1> QED BY <1>1, <1>3, <1>4, <1>5, <1>6 DEF ToldInv

-----------------------------------------------------------------------------
(* Answers *)

LEMMA AnswersStay ==
  ASSUME ClientTypes, ServerInv, LineInv, AnswerInv, [Next]_vars
  PROVE  AnswerInv'
<1> USE Served
<1> DEFINE Now(c, o) ==
             \E r \in Calls : r \in DOMAIN stdin' /\ stdin'[r].id = c /\ req'[r].outcome = o
<1>1. \A c, o : o \in {"ok", "error"} /\ Answered(c, o) => Now(c, o)
  BY Stable DEF Answered
<1>2. ASSUME NEW k \in DOMAIN stdout', stdout'[k].kind = "answer"
      PROVE  /\ stdout'[k].outcome \in {"ok", "error"}
             /\ Now(stdout'[k].id, stdout'[k].outcome)
  <2>1. ASSUME NEW l \in DOMAIN stdout, stdout'[k] = stdout[l]
        PROVE  /\ stdout'[k].outcome \in {"ok", "error"}
               /\ Now(stdout'[k].id, stdout'[k].outcome)
    <3>1. stdout[l].outcome \in {"ok", "error"} /\ Answered(stdout[l].id, stdout[l].outcome)
      BY <1>2, <2>1 DEF AnswerInv
    <3> QED BY <1>1, <2>1, <3>1 DEF Answered
  <2>2. CASE UNCHANGED stdout
    BY <1>2, <2>1, <2>2
  <2>3. ASSUME ReadLine PROVE \E l \in DOMAIN stdout : stdout'[k] = stdout[l]
    BY <1>2, <2>3, ReadLineEffect, TailEffect
  <2>4. ASSUME NEW r \in Calls, ServerNotifies(r)
        PROVE  \E l \in DOMAIN stdout : stdout'[k] = stdout[l]
    <3> DEFINE line == [kind |-> "event", id |-> stdin[r].id, outcome |-> "none"]
    <3>1. line \in OutLine /\ line.kind = "event" /\ stdout' = Append(stdout, line)
      BY <2>4, NotifiesEffect DEF OutLine
    <3> HIDE DEF line
    <3> QED BY <1>2, <3>1, OutLineEffect
  <2>5. ASSUME NEW r \in Calls, ServerStep(r)
        PROVE  /\ stdout'[k].outcome \in {"ok", "error"}
               /\ Now(stdout'[k].id, stdout'[k].outcome)
    <3>1. ASSUME NEW o \in {"ok", "error"}, r \in DOMAIN stdin, stdin[r].id \in Calls,
                 req'[r].outcome = o,
                 stdout' = Append(stdout, [kind |-> "answer", id |-> stdin[r].id,
                                           outcome |-> o])
          PROVE  /\ stdout'[k].outcome \in {"ok", "error"}
                 /\ Now(stdout'[k].id, stdout'[k].outcome)
      <4> DEFINE line == [kind |-> "answer", id |-> stdin[r].id, outcome |-> o]
      <4>1. /\ line \in OutLine /\ line.id = stdin[r].id /\ line.outcome = o
            /\ stdout' = Append(stdout, line)
        BY <3>1 DEF OutLine
      <4> HIDE DEF line
      <4>2. CASE stdout'[k] = line
        <5>1. UNCHANGED stdin
          BY <2>5, AnswersEffect
        <5>2. Now(stdin[r].id, o)
          BY <3>1, <5>1 DEF Answered
        <5> QED BY <4>1, <4>2, <5>1, <5>2 DEF Answered
      <4>3. CASE k \in DOMAIN stdout /\ stdout'[k] = stdout[k]
        BY <2>1, <4>3
      <4> QED BY <1>2, <4>1, <4>2, <4>3, OutLineEffect
    <3> QED BY <2>2, <2>5, <3>1, AnswersEffect
  <2>6. ASSUME NEW r \in Calls, ServerReads(r) PROVE UNCHANGED stdout
    BY <2>6 DEF ServerReads, client
  <2> QED BY <2>1, <2>2, <2>3, <2>4, <2>5, <2>6, StepCases, RegisterEffect, EndsEffect,
          WriteEffect DEF Deliver, HandlerReturns, ScanEnds, Quiet
<1>3. ASSUME reader'.at = "deliver"
      PROVE  reader'.outcome \in {"ok", "error"} /\ Now(reader'.of, reader'.outcome)
  <2>1. CASE /\ reader'.at = reader.at /\ reader'.of = reader.of
             /\ reader'.outcome = reader.outcome
    <3>1. reader.outcome \in {"ok", "error"} /\ Answered(reader.of, reader.outcome)
      BY <1>3, <2>1 DEF AnswerInv
    <3> QED BY <1>1, <2>1, <3>1 DEF Answered
  <2>2. CASE ReadLine
    <3>1. /\ stdout[1].kind = "answer" /\ reader'.of = stdout[1].id
          /\ reader'.outcome = stdout[1].outcome
      BY <1>3, <2>2, ReadLineEffect DEF TakesAnswer, TakesEvent
    <3>2. 1 \in DOMAIN stdout
      BY <2>2, ReadLineEffect, TailEffect
    <3>3. reader'.outcome \in {"ok", "error"} /\ Answered(stdout[1].id, stdout[1].outcome)
      BY <3>1, <3>2 DEF AnswerInv
    <3> QED BY <1>1, <3>1, <3>3 DEF Answered
  <2>3. ASSUME Deliver PROVE UNCHANGED reader
    BY <1>3, <2>3, ScanningTyped DEF Deliver
  <2>4. ~HandlerReturns /\ ~ScanEnds
    BY <1>3, ScanningTyped DEF HandlerReturns, ScanEnds, ClientTypes, ReaderType
  <2>5. ASSUME NEW r \in Calls, ServerReads(r) \/ ServerStep(r) \/ ServerNotifies(r)
        PROVE  UNCHANGED reader
    BY <2>5 DEF ServerReads, ServerStep, ServerNotifies, ClientKeeps, client
  <2> QED BY <2>1, <2>2, <2>3, <2>4, <2>5, StepCases, RegisterEffect, EndsEffect,
          WriteEffect DEF Quiet
<1>4. ASSUME NEW c \in Calls, chan'[c] \in {"ok", "error"} PROVE Now(c, chan'[c])
  <2>1. CASE chan'[c] = chan[c]
    <3>1. Answered(c, chan[c])
      BY <1>4, <2>1 DEF AnswerInv
    <3> QED BY <1>1, <1>4, <2>1, <3>1 DEF Answered
  <2>2. CASE Deliver
    <3>1. CASE reader.of = c /\ chan' = [chan EXCEPT ![reader.of] = reader.outcome]
      <4>1. /\ chan'[c] = reader.outcome /\ reader.outcome \in {"ok", "error"}
            /\ Answered(c, reader.outcome)
        BY <2>2, <3>1 DEF Deliver, AnswerInv, ClientTypes
      <4> QED BY <1>1, <4>1 DEF Answered
    <3>2. CASE reader.of # c \/ chan' = chan
      <4>1. chan'[c] = chan[c]
        BY <2>2, <3>2 DEF Deliver, ClientTypes
      <4> QED BY <2>1, <4>1
    <3> QED BY <2>2, <3>1, <3>2 DEF Deliver
  <2>3. ASSUME NEW d \in Calls, NEW outcome \in Outcomes, Ends(d, outcome)
        PROVE  chan'[c] = chan[c]
    <3>1. chan \in [Calls -> {"empty", "ok", "error", "closed"}]
      BY DEF ClientTypes
    <3>2. chan' = [chan EXCEPT ![d] = "closed"]
      BY <2>3, EndsEffect
    <3> QED BY <1>4, <3>1, <3>2
  <2>4. ASSUME NEW r \in Calls, ServerReads(r) \/ ServerStep(r) \/ ServerNotifies(r)
        PROVE  UNCHANGED chan
    BY <2>4 DEF ServerReads, ServerStep, ServerNotifies, ClientKeeps, client
  <2> QED BY <2>1, <2>2, <2>3, <2>4, StepCases, RegisterEffect, WriteEffect, ReadLineEffect
          DEF HandlerReturns, ScanEnds, Quiet
<1>5. ASSUME NEW c \in Calls, call'[c].outcome \in {"ok", "error"}
      PROVE  Now(c, call'[c].outcome)
  <2>1. CASE call'[c].outcome = call[c].outcome
    <3>1. Answered(c, call[c].outcome)
      BY <1>5, <2>1 DEF AnswerInv
    <3> QED BY <1>1, <1>5, <2>1, <3>1 DEF Answered
  <2>2. ASSUME NEW d \in Calls, NEW outcome \in Outcomes, Ends(d, outcome)
        PROVE  Now(c, call'[c].outcome)
    <3>1. CASE c = d
      <4>1. call'[c].outcome = chan[c]
        BY <1>5, <2>2, <3>1, EndsEffect DEF Ends
      <4>2. Answered(c, chan[c])
        BY <1>5, <4>1 DEF AnswerInv
      <4> QED BY <1>1, <1>5, <4>1, <4>2 DEF Answered
    <3>2. CASE c # d
      BY <2>1, <2>2, <3>2, EndsEffect
    <3> QED BY <3>1, <3>2
  <2>3. ASSUME NEW d \in Calls, Register(d) \/ Write(d)
        PROVE  call'[c].outcome = call[c].outcome
    BY <2>3, RegisterEffect, WriteEffect
  <2>4. ASSUME NEW r \in Calls, ServerReads(r) \/ ServerStep(r) \/ ServerNotifies(r)
        PROVE  UNCHANGED call
    BY <2>4 DEF ServerReads, ServerStep, ServerNotifies, ClientKeeps, client
  <2> QED BY <2>1, <2>2, <2>3, <2>4, StepCases
          DEF ReadLine, Deliver, HandlerReturns, ScanEnds, Quiet
<1> QED BY <1>2, <1>3, <1>4, <1>5 DEF AnswerInv, Answered

-----------------------------------------------------------------------------
(* One answer to a call *)

\* A call that is idle has sent nothing, so nothing is on its way to it.
LEMMA IdleCalls ==
  ASSUME ClientTypes, LineInv, ToldInv, AnswerInv, NEW c \in Calls, call[c].pc = "idle"
  PROVE  /\ ~Delivers(c) /\ chan[c] \notin {"ok", "error"}
         /\ ~(seen[c] > 0) /\ ~(sent[c] > 0) /\ ~Handles(c) /\ EventsIn(stdout, c) = {}
<1>1. \A r \in DOMAIN stdin : stdin[r].id # c
  BY DEF LineInv
<1>2. ~Began(c) /\ \A o : ~Answered(c, o)
  BY <1>1 DEF Began, Answered
<1>3. ~Delivers(c) /\ chan[c] \notin {"ok", "error"}
  BY <1>2 DEF Delivers, AnswerInv
<1>4. ~(seen[c] > 0) /\ ~(sent[c] > 0) /\ ~Handles(c) /\ EventsIn(stdout, c) = {}
  BY <1>2 DEF ToldInv, EventsIn
<1> QED BY <1>3, <1>4

LEMMA OnceStays ==
  ASSUME ClientTypes, ServerInv, LineInv, ToldInv, AnswerInv, OnceInv, [Next]_vars
  PROVE  OnceInv'
<1>1. /\ call \in [Calls -> CallType] /\ pending \in [Calls -> BOOLEAN]
      /\ chan \in [Calls -> {"empty", "ok", "error", "closed"}]
      /\ handlers \in [Calls -> BOOLEAN]
      /\ reader.at \in {"deliver", "handling"} => reader.of \in Calls
  BY DEF ClientTypes
<1>2. \A c \in Calls : OnceOf(c)
  BY DEF OnceInv
<1>3. ASSUME NEW c \in Calls PROVE OnceOf(c)'
  <2> USE DEF OnceOf, Delivers, Delivered
  <2>1. ASSUME NEW d \in Calls, Register(d) PROVE OnceOf(c)'
    <3>1. /\ ~Delivers(d) /\ chan[d] \notin {"ok", "error"}
          /\ call[d].outcome = "none"
      BY <1>2, <2>1, IdleCalls, RegisterEffect
    <3>2. CASE c = d
      <4>1. /\ handlers'[c] = call'[c].handler /\ call'[c].handler \in BOOLEAN
            /\ pending'[c] = TRUE
        <5>1. call'[c].handler \in BOOLEAN
          <6>1. call'[c] \in CallType
            BY <2>1, RegisterEffect
          <6> QED BY <6>1 DEF CallType
        <5>2. /\ handlers' = [handlers EXCEPT ![d] = call'[d].handler]
              /\ pending' = [pending EXCEPT ![d] = TRUE]
          BY <2>1, RegisterEffect
        <5>3. handlers'[d] = call'[d].handler /\ pending'[d] = TRUE
          BY <1>1, <5>2, Zenon
        <5> QED BY <3>2, <5>1, <5>3
      <4>2. /\ call'[c].pc = "registered" /\ call'[c].outcome = "none" /\ UNCHANGED chan
            /\ reader'.at = reader.at /\ reader'.of = reader.of
        BY <2>1, <3>1, <3>2, RegisterEffect
      <4>3. chan[c] # "closed"
        BY <1>2, <2>1, <3>2, RegisterEffect
      <4> QED BY <3>1, <3>2, <4>1, <4>2, <4>3
    <3>3. CASE c # d
      BY <1>1, <1>2, <2>1, <3>3, RegisterEffect
    <3> QED BY <3>2, <3>3
  <2>2. ASSUME NEW d \in Calls, NEW outcome \in Outcomes, Ends(d, outcome)
        PROVE  OnceOf(c)'
    <3>1. outcome \in {"ok", "error"} => outcome = chan[d]
      BY <2>2 DEF Ends
    <3>2. CASE c = d
      <4>1. /\ chan'[c] = "closed" /\ call'[c].pc = "returned" /\ call'[c].outcome = outcome
            /\ call'[c].handler = call[c].handler /\ UNCHANGED <<pending, handlers, reader>>
        BY <1>1, <2>2, <3>2, EndsEffect
      <4>2. outcome # "none"
        BY DEF Outcomes
      <4>3. call[c].pc # "idle"
        BY <2>2, <3>2 DEF Ends
      <4> QED BY <1>2, <3>1, <3>2, <4>1, <4>2, <4>3
    <3>3. CASE c # d
      BY <1>1, <1>2, <2>2, <3>3, EndsEffect
    <3> QED BY <3>2, <3>3
  <2>3. ASSUME NEW d \in Calls, Write(d) PROVE OnceOf(c)'
    <3>1. /\ UNCHANGED <<chan, pending, handlers, reader>>
          /\ call'[c].handler = call[c].handler /\ call'[c].outcome = call[c].outcome
          /\ (call'[c].pc = "idle") => (call[c].pc = "idle")
          /\ (call'[c].pc = "returned") <=> (call[c].pc = "returned")
      BY <2>3, WriteEffect
    <3> QED BY <1>2, <3>1
  <2>4. ASSUME UNCHANGED <<call, chan, pending, handlers, reader>> PROVE OnceOf(c)'
    BY <1>2, <2>4
  <2>5. ASSUME NEW r \in Calls, ServerReads(r) \/ ServerStep(r) \/ ServerNotifies(r)
        PROVE  UNCHANGED <<call, chan, pending, handlers, reader>>
    BY <2>5 DEF ServerReads, ServerStep, ServerNotifies, ClientKeeps, client
  <2>6. ASSUME ReadLine PROVE OnceOf(c)'
    <3>1. reader.at = "scan" /\ UNCHANGED <<call, chan>>
      BY <2>6, ReadLineEffect
    <3>2. CASE reader'.at = "ended" /\ UNCHANGED <<pending, handlers>>
      BY <1>2, <3>1, <3>2
    <3>3. CASE TakesAnswer(stdout[1])
      <4> DEFINE id == stdout[1].id
      <4>1. /\ id \in Calls
            /\ pending' = [pending EXCEPT ![id] = FALSE]
            /\ handlers' = [handlers EXCEPT ![id] = FALSE]
            /\ \/ pending[id] /\ reader'.at = "deliver" /\ reader'.of = id
               \/ reader'.at = "scan"
        BY <3>1, <3>3 DEF TakesAnswer
      <4> HIDE DEF id
      <4>2. CASE c = id
        <5>1. pending'[c] = FALSE /\ handlers'[c] = FALSE
          BY <1>1, <4>1, <4>2
        <5> QED BY <1>2, <3>1, <4>1, <4>2, <5>1
      <4>3. CASE c # id
        <5>1. pending'[c] = pending[c] /\ handlers'[c] = handlers[c]
          BY <1>1, <4>1, <4>3
        <5> QED BY <1>2, <3>1, <4>1, <4>3, <5>1
      <4> QED BY <4>2, <4>3
    <3>4. CASE TakesEvent(stdout[1])
      <4>1. UNCHANGED <<pending, handlers>> /\ reader'.at # "deliver"
        BY <3>1, <3>4 DEF TakesEvent
      <4> QED BY <1>2, <3>1, <4>1
    <3> QED BY <2>6, <3>2, <3>3, <3>4, ReadLineEffect
  <2>7. ASSUME Deliver PROVE OnceOf(c)'
    <3>1. /\ reader.at = "deliver" /\ reader.of \in Calls
          /\ UNCHANGED <<call, pending, handlers>>
      BY <1>1, <2>7 DEF Deliver
    <3>2. CASE UNCHANGED <<chan, reader>>
      BY <1>2, <3>1, <3>2
    <3>3. CASE /\ chan[reader.of] = "empty" /\ chan' = [chan EXCEPT ![reader.of] = reader.outcome]
               /\ reader' = Scanning
      <4>1. reader'.at = "scan" /\ reader.outcome \in {"ok", "error"}
        BY <3>1, <3>3, ScanningTyped DEF AnswerInv
      <4>2. CASE c = reader.of
        <5>1. chan'[c] = reader.outcome
          BY <1>1, <3>3, <4>2
        <5> QED BY <1>2, <3>1, <4>1, <4>2, <5>1
      <4>3. CASE c # reader.of
        <5>1. chan'[c] = chan[c]
          BY <1>1, <3>3, <4>3
        <5> QED BY <1>2, <3>1, <4>1, <4>3, <5>1
      <4> QED BY <4>2, <4>3
    <3> QED BY <2>7, <3>2, <3>3 DEF Deliver
  <2>8. ASSUME HandlerReturns \/ ScanEnds PROVE OnceOf(c)'
    BY <1>1, <1>2, <2>8, ScanningTyped DEF HandlerReturns, ScanEnds, ClientTypes, ReaderType
  <2> QED BY <2>1, <2>2, <2>3, <2>4, <2>5, <2>6, <2>7, <2>8, StepCases DEF Quiet
<1>4. ASSUME panicked' PROVE reader'.at = "deliver" /\ chan'[reader'.of] = "closed"
  <2>1. panicked => reader.at = "deliver" /\ chan[reader.of] = "closed"
    BY DEF OnceInv
  <2>2. ASSUME Deliver PROVE reader'.at = "deliver" /\ chan'[reader'.of] = "closed"
    BY <1>4, <2>1, <2>2 DEF Deliver
  <2>3. ASSUME ReadLine \/ HandlerReturns \/ ScanEnds PROVE FALSE
    <3>1. UNCHANGED panicked /\ reader.at # "deliver"
      BY <2>3 DEF ReadLine, HandlerReturns, ScanEnds
    <3> QED BY <1>4, <2>1, <3>1
  <2>4. ASSUME UNCHANGED <<panicked, chan>>, reader'.at = reader.at, reader'.of = reader.of
        PROVE  reader'.at = "deliver" /\ chan'[reader'.of] = "closed"
    BY <1>4, <2>1, <2>4
  <2>5. ASSUME NEW d \in Calls, NEW outcome \in Outcomes, Ends(d, outcome)
        PROVE  reader'.at = "deliver" /\ chan'[reader'.of] = "closed"
    <3>1. /\ reader.at = "deliver" /\ chan[reader.of] = "closed" /\ reader.of \in Calls
          /\ UNCHANGED reader /\ chan' = [chan EXCEPT ![d] = "closed"]
      BY <1>1, <1>4, <2>1, <2>5, EndsEffect
    <3> QED BY <1>1, <3>1
  <2>6. ASSUME NEW r \in Calls, ServerReads(r) \/ ServerStep(r) \/ ServerNotifies(r)
        PROVE  UNCHANGED <<panicked, chan, reader>>
    BY <2>6 DEF ServerReads, ServerStep, ServerNotifies, ClientKeeps, client
  <2> QED BY <2>2, <2>3, <2>4, <2>5, <2>6, StepCases, RegisterEffect, WriteEffect DEF Quiet
<1> QED BY <1>3, <1>4 DEF OnceInv

-----------------------------------------------------------------------------
(* Events *)

LEMMA EventsFinite ==
  ASSUME NEW s \in Seq(OutLine), NEW c
  PROVE  IsFiniteSet(EventsIn(s, c)) /\ Cardinality(EventsIn(s, c)) \in Nat
<1>1. Len(s) \in Nat /\ DOMAIN s = 1..Len(s)
  OBVIOUS
<1>2. IsFiniteSet(1..Len(s))
  BY <1>1, FS_Interval
<1>3. EventsIn(s, c) \in SUBSET (1..Len(s))
  BY <1>1 DEF EventsIn
<1> QED BY <1>2, <1>3, FS_Subset, FS_CardinalityType

\* A line that is appended is one more event of its call, or none.
LEMMA CountAppend ==
  ASSUME NEW s \in Seq(OutLine), NEW line \in OutLine, NEW c
  PROVE  Cardinality(EventsIn(Append(s, line), c)) =
           Cardinality(EventsIn(s, c)) + (IF line.kind = "event" /\ line.id = c THEN 1 ELSE 0)
<1> DEFINE n == Len(s) + 1
           t == Append(s, line)
<1>1. /\ Len(s) \in Nat /\ DOMAIN s = 1..Len(s) /\ DOMAIN t = 1..n
      /\ t[n] = line /\ \A k \in 1..Len(s) : t[k] = s[k]
  OBVIOUS
<1>2. n \notin EventsIn(s, c)
  BY <1>1 DEF EventsIn
<1> HIDE DEF t
<1>3. CASE line.kind = "event" /\ line.id = c
  <2>1. EventsIn(t, c) = EventsIn(s, c) \cup {n}
    BY <1>1, <1>3 DEF EventsIn
  <2> HIDE DEF n
  <2>2. Cardinality(EventsIn(t, c)) = Cardinality(EventsIn(s, c)) + 1
    BY <1>2, <2>1, EventsFinite, FS_AddElement
  <2> QED BY <1>3, <2>2 DEF t
<1>4. CASE ~(line.kind = "event" /\ line.id = c)
  <2>1. EventsIn(t, c) = EventsIn(s, c)
    BY <1>1, <1>4 DEF EventsIn
  <2>2. Cardinality(EventsIn(s, c)) \in Nat
    BY EventsFinite
  <2> QED BY <1>4, <2>1, <2>2 DEF t
<1> QED BY <1>3, <1>4

\* The line that is taken is one event of its call less, or none.
LEMMA CountTail ==
  ASSUME NEW s \in Seq(OutLine), s # <<>>, NEW c
  PROVE  Cardinality(EventsIn(Tail(s), c)) =
           Cardinality(EventsIn(s, c)) - (IF s[1].kind = "event" /\ s[1].id = c THEN 1 ELSE 0)
<1> DEFINE t == Tail(s)
           S == EventsIn(t, c)
           T == EventsIn(s, c) \ {1}
           f == [k \in S |-> k + 1]
<1>1. /\ Len(s) \in Nat /\ Len(s) >= 1 /\ DOMAIN s = 1..Len(s)
      /\ DOMAIN t = 1..(Len(s) - 1) /\ \A k \in 1..(Len(s) - 1) : t[k] = s[k + 1]
      /\ t \in Seq(OutLine)
  OBVIOUS
<1> HIDE DEF t
<1>2. S \subseteq 1..(Len(s) - 1) /\ T \subseteq 2..Len(s)
  BY <1>1 DEF EventsIn
<1>3. ASSUME NEW k \in S PROVE k + 1 \in T
  <2>1. k + 1 \in DOMAIN s /\ k + 1 # 1 /\ t[k] = s[k + 1]
    BY <1>1, <1>2
  <2> QED BY <2>1 DEF EventsIn
<1>4. ASSUME NEW k \in T PROVE k - 1 \in S /\ (k - 1) + 1 = k
  <2>1. k - 1 \in DOMAIN t /\ (k - 1) + 1 = k
    BY <1>1, <1>2
  <2>2. t[k - 1] = s[k]
    BY <1>1, <2>1
  <2> QED BY <2>1, <2>2 DEF EventsIn
<1>5. f \in Bijection(S, T)
  <2>1. f \in [S -> T]
    BY <1>3
  <2>2. \A a, b \in S : f[a] = f[b] => a = b
    BY <1>2
  <2>3. \A k \in T : \E a \in S : f[a] = k
    BY <1>4
  <2>4. DOMAIN f = S
    OBVIOUS
  <2> HIDE DEF f, S, T
  <2>5. f \in Injection(S, T)
    BY <2>1, <2>2, <2>4 DEF Injection, IsInjective
  <2>6. f \in Surjection(S, T)
    BY <2>1, <2>3 DEF Surjection
  <2> QED BY <2>5, <2>6 DEF Bijection
<1> HIDE DEF f
<1>6. IsFiniteSet(S) /\ Cardinality(S) \in Nat
  BY <1>1, EventsFinite
<1>7. Cardinality(T) = Cardinality(S)
  BY <1>5, <1>6, FS_Bijection DEF ExistsBijection
<1>8. /\ IsFiniteSet(EventsIn(s, c)) /\ Cardinality(EventsIn(s, c)) \in Nat
  BY EventsFinite
<1>9. Cardinality(T) = IF 1 \in EventsIn(s, c) THEN Cardinality(EventsIn(s, c)) - 1
                                               ELSE Cardinality(EventsIn(s, c))
  BY <1>8, FS_RemoveElement
<1>10. 1 \in EventsIn(s, c) <=> s[1].kind = "event" /\ s[1].id = c
  BY <1>1 DEF EventsIn
<1> QED BY <1>6, <1>7, <1>8, <1>9, <1>10 DEF t

\* An answer is no event.
LEMMA AnswerAppend ==
  ASSUME NEW s \in Seq(OutLine), NEW line \in OutLine, line.kind # "event", NEW c
  PROVE  EventsIn(Append(s, line), c) = EventsIn(s, c)
<1> DEFINE t == Append(s, line)
<1>1. /\ Len(s) \in Nat /\ DOMAIN s = 1..Len(s) /\ DOMAIN t = 1..(Len(s) + 1)
      /\ t[Len(s) + 1] = line /\ \A k \in 1..Len(s) : t[k] = s[k]
  OBVIOUS
<1> HIDE DEF t
<1>2. EventsIn(t, c) = EventsIn(s, c)
  BY <1>1 DEF EventsIn
<1> QED BY <1>2 DEF t

\* Where no event is, taking a line leaves none.
LEMMA NoneInTail ==
  ASSUME ClientTypes, stdout # <<>>, stdout' = Tail(stdout), NEW c, EventsIn(stdout, c) = {}
  PROVE  EventsIn(stdout', c) = {}
BY TailEffect DEF EventsIn

\* A request without an answer has none in any place.
LEMMA Unanswered ==
  ASSUME LineInv, AnswerInv, NEW r \in Calls, r \in DOMAIN stdin, stdin[r].id \in Calls,
         req[r].outcome = "none"
  PROVE  /\ ~Delivers(stdin[r].id) /\ ~Delivered(stdin[r].id)
         /\ \A k \in DOMAIN stdout : stdout[k].kind = "answer" => stdout[k].id # stdin[r].id
<1>1. \A o \in {"ok", "error"} : ~Answered(stdin[r].id, o)
  BY DEF Answered, LineInv
<1> QED BY <1>1 DEF Delivers, Delivered, AnswerInv

LEMMA OrderStays ==
  ASSUME ClientTypes, ServerInv, LineInv, AnswerInv, OrderInv, [Next]_vars
  PROVE  OrderInv'
<1>1. CASE UNCHANGED stdout
  BY <1>1 DEF OrderInv
<1>2. ASSUME ReadLine PROVE OrderInv'
  <2>1. ASSUME NEW k \in DOMAIN stdout', NEW l \in DOMAIN stdout',
               stdout'[k].kind = "answer", stdout'[l].kind = "event",
               stdout'[k].id = stdout'[l].id
        PROVE  l < k
    <3>1. /\ k + 1 \in DOMAIN stdout /\ stdout'[k] = stdout[k + 1]
          /\ l + 1 \in DOMAIN stdout /\ stdout'[l] = stdout[l + 1]
          /\ k \in Int /\ l \in Int
      BY <1>2, ReadLineEffect, TailEffect
    <3>2. l + 1 < k + 1
      BY <2>1, <3>1 DEF OrderInv
    <3> QED BY <3>1, <3>2
  <2> QED BY <2>1 DEF OrderInv
<1>3. ASSUME NEW r \in Calls, ServerNotifies(r) PROVE OrderInv'
  <2> DEFINE line == [kind |-> "event", id |-> stdin[r].id, outcome |-> "none"]
  <2>1. /\ line \in OutLine /\ line.kind = "event" /\ line.id = stdin[r].id
        /\ stdout' = Append(stdout, line)
    BY <1>3, NotifiesEffect DEF OutLine
  <2> HIDE DEF line
  <2>2. \A k \in DOMAIN stdout : stdout[k].kind = "answer" => stdout[k].id # line.id
    BY <1>3, <2>1, NotifiesEffect, Unanswered
  <2>3. ASSUME NEW k \in DOMAIN stdout', NEW l \in DOMAIN stdout',
               stdout'[k].kind = "answer", stdout'[l].kind = "event",
               stdout'[k].id = stdout'[l].id
        PROVE  l < k
    <3>1. k \in DOMAIN stdout /\ stdout'[k] = stdout[k]
      BY <2>1, <2>3, OutLineEffect
    <3>2. l \in DOMAIN stdout /\ stdout'[l] = stdout[l]
      BY <2>1, <2>2, <2>3, <3>1, OutLineEffect
    <3> QED BY <2>3, <3>1, <3>2 DEF OrderInv
  <2> QED BY <2>3 DEF OrderInv
<1>4. ASSUME NEW r \in Calls, ServerStep(r) PROVE OrderInv'
  <2>1. ASSUME NEW o \in {"ok", "error"}, stdin[r].id \in Calls,
               stdout' = Append(stdout, [kind |-> "answer", id |-> stdin[r].id,
                                         outcome |-> o])
        PROVE  OrderInv'
    <3> DEFINE line == [kind |-> "answer", id |-> stdin[r].id, outcome |-> o]
    <3>1. line \in OutLine /\ line.kind = "answer" /\ stdout' = Append(stdout, line)
      BY <2>1 DEF OutLine
    <3> HIDE DEF line
    <3>2. ASSUME NEW k \in DOMAIN stdout', NEW l \in DOMAIN stdout',
                 stdout'[k].kind = "answer", stdout'[l].kind = "event",
                 stdout'[k].id = stdout'[l].id
          PROVE  l < k
      <4>1. l \in DOMAIN stdout /\ stdout'[l] = stdout[l]
        BY <3>1, <3>2, OutLineEffect
      <4>2. \/ k = Len(stdout) + 1
            \/ k \in DOMAIN stdout /\ stdout'[k] = stdout[k]
        BY <3>1, OutLineEffect
      <4>3. Len(stdout) \in Nat /\ DOMAIN stdout = 1..Len(stdout)
        BY <3>1, OutLineEffect
      <4>4. CASE k = Len(stdout) + 1
        BY <4>1, <4>3, <4>4
      <4>5. CASE k \in DOMAIN stdout /\ stdout'[k] = stdout[k]
        BY <3>2, <4>1, <4>5 DEF OrderInv
      <4> QED BY <4>2, <4>4, <4>5
    <3> QED BY <3>2 DEF OrderInv
  <2> QED BY <1>1, <1>4, <2>1, AnswersEffect
<1>5. ASSUME NEW r \in Calls, ServerReads(r) PROVE UNCHANGED stdout
  BY <1>5 DEF ServerReads, client
<1> QED BY <1>1, <1>2, <1>3, <1>4, <1>5, StepCases, RegisterEffect, EndsEffect, WriteEffect
        DEF Deliver, HandlerReturns, ScanEnds, Quiet

LEMMA EventsStay ==
  ASSUME ClientTypes, ServerInv, LineInv, ToldInv, AnswerInv, OnceInv, OrderInv, EventInv,
         [Next]_vars
  PROVE  EventInv'
<1>1. /\ \A c \in Calls : EventsOf(c) /\ OnceOf(c)
      /\ stdout \in Seq(OutLine)
      /\ seen \in [Calls -> Nat] /\ sent \in [Calls -> Nat]
      /\ chan \in [Calls -> {"empty", "ok", "error", "closed"}]
      /\ handlers \in [Calls -> BOOLEAN] /\ pending \in [Calls -> BOOLEAN]
      /\ reader.at \in {"deliver", "handling"} => reader.of \in Calls
  BY DEF EventInv, OnceInv, ClientTypes
<1>2. \A c : IsFiniteSet(EventsIn(stdout, c)) /\ Cardinality(EventsIn(stdout, c)) \in Nat
  BY <1>1, EventsFinite
<1> DEFINE Before(c) ==
             Delivers(c)' \/ Delivered(c)' =>
               /\ EventsIn(stdout', c) = {} /\ ~Handles(c)'
               /\ call'[c].handler => seen'[c] = sent'[c]
           Counted(c) ==
             handlers'[c] /\ reader'.at # "ended" =>
               sent'[c] = seen'[c] + Cardinality(EventsIn(stdout', c))
                          + (IF Handles(c)' THEN 1 ELSE 0)
<1>3. ASSUME NEW c \in Calls PROVE Before(c) /\ Counted(c)
  <2> USE DEF Delivers, Delivered, Handles
  <2>0. EventsOf(c) /\ OnceOf(c)
    BY <1>1
  <2>1. ASSUME NEW d \in Calls, Register(d), UNCHANGED <<serving, sent>>
        PROVE  Before(c) /\ Counted(c)
    <3>1. CASE c = d
      <4>1. /\ ~Delivers(c) /\ chan[c] \notin {"ok", "error"}
            /\ ~(seen[c] > 0) /\ ~(sent[c] > 0) /\ ~Handles(c) /\ EventsIn(stdout, c) = {}
        BY <2>1, <3>1, IdleCalls, RegisterEffect
      <4>2. call'[c].outcome = "none"
        BY <2>0, <2>1, <3>1, RegisterEffect DEF OnceOf
      <4>3. seen[c] = 0 /\ sent[c] = 0 /\ Cardinality(EventsIn(stdout, c)) = 0
        BY <1>1, <4>1, FS_EmptySet
      <4>4. /\ UNCHANGED <<chan, seen, sent, stdout>>
            /\ reader'.at = reader.at /\ reader'.of = reader.of
        BY <2>1, RegisterEffect
      <4> QED BY <4>1, <4>2, <4>3, <4>4
    <3>2. CASE c # d
      <4>1. /\ call'[c] = call[c] /\ handlers'[c] = handlers[c]
            /\ UNCHANGED <<chan, seen, sent, stdout>>
            /\ reader'.at = reader.at /\ reader'.of = reader.of
        BY <1>1, <2>1, <3>2, RegisterEffect
      <4> QED BY <2>0, <4>1 DEF EventsOf
    <3> QED BY <3>1, <3>2
  <2>2. ASSUME NEW d \in Calls, NEW outcome \in Outcomes, Ends(d, outcome),
               UNCHANGED <<serving, sent>>
        PROVE  Before(c) /\ Counted(c)
    <3>1. /\ UNCHANGED <<handlers, seen, sent, stdout, reader>>
          /\ call'[c].handler = call[c].handler
      BY <2>2, EndsEffect
    <3>2. Delivered(c)' => Delivered(c)
      <4>1. outcome \in {"ok", "error"} => outcome = chan[d]
        BY <2>2 DEF Ends
      <4>2. CASE c = d
        <5>1. chan'[c] = "closed" /\ call'[c].outcome = outcome
          BY <1>1, <2>2, <4>2, EndsEffect
        <5> QED BY <4>1, <4>2, <5>1
      <4>3. CASE c # d
        BY <1>1, <2>2, <4>3, EndsEffect
      <4> QED BY <4>2, <4>3
    <3> QED BY <2>0, <3>1, <3>2 DEF EventsOf
  <2>3. ASSUME NEW d \in Calls, Write(d), UNCHANGED <<serving, sent>>
        PROVE  Before(c) /\ Counted(c)
    <3>1. /\ UNCHANGED <<chan, handlers, seen, sent, stdout, reader>>
          /\ call'[c].handler = call[c].handler /\ call'[c].outcome = call[c].outcome
      BY <2>3, WriteEffect
    <3> QED BY <2>0, <3>1 DEF EventsOf
  <2>4. ASSUME UNCHANGED <<call, chan, handlers, seen, sent, reader>>,
               EventsIn(stdout', c) = EventsIn(stdout, c)
        PROVE  Before(c) /\ Counted(c)
    BY <2>0, <2>4 DEF EventsOf
  <2>5. ASSUME NEW r \in Calls, ServerReads(r) PROVE Before(c) /\ Counted(c)
    BY <2>4, <2>5 DEF ServerReads, client
  <2>6. ASSUME NEW r \in Calls, ServerStep(r) PROVE Before(c) /\ Counted(c)
    <3>1. EventsIn(stdout', c) = EventsIn(stdout, c)
      <4>1. ASSUME NEW o \in {"ok", "error"}, stdin[r].id \in Calls,
                   stdout' = Append(stdout, [kind |-> "answer", id |-> stdin[r].id,
                                             outcome |-> o])
            PROVE  EventsIn(stdout', c) = EventsIn(stdout, c)
        <5> DEFINE line == [kind |-> "answer", id |-> stdin[r].id, outcome |-> o]
        <5>1. line \in OutLine /\ line.kind # "event" /\ stdout' = Append(stdout, line)
          BY <4>1 DEF OutLine
        <5> HIDE DEF line
        <5> QED BY <1>1, <5>1, AnswerAppend
      <4> QED BY <2>6, <4>1, AnswersEffect
    <3> QED BY <2>4, <2>6, <3>1, AnswersEffect
  <2>7. ASSUME NEW r \in Calls, ServerNotifies(r) PROVE Before(c) /\ Counted(c)
    <3> DEFINE line == [kind |-> "event", id |-> stdin[r].id, outcome |-> "none"]
    <3>1. /\ line \in OutLine /\ line.kind = "event" /\ line.id = stdin[r].id
          /\ stdout' = Append(stdout, line)
      BY <2>7, NotifiesEffect DEF OutLine
    <3> HIDE DEF line
    <3>2. /\ UNCHANGED <<call, chan, handlers, seen, reader>>
          /\ sent' = [sent EXCEPT ![stdin[r].id] = @ + 1] /\ stdin[r].id \in Calls
      BY <2>7, NotifiesEffect
    <3>3. Cardinality(EventsIn(stdout', c)) =
            Cardinality(EventsIn(stdout, c)) + (IF c = stdin[r].id THEN 1 ELSE 0)
      BY <1>1, <3>1, CountAppend
    <3>4. CASE c = stdin[r].id
      <4>1. ~Delivers(c) /\ ~Delivered(c)
        BY <2>7, <3>4, NotifiesEffect, Unanswered
      <4>2. sent'[c] = sent[c] + 1
        BY <1>1, <3>2, <3>4
      <4>3. Before(c)
        BY <3>2, <4>1
      <4>4. Cardinality(EventsIn(stdout', c)) = Cardinality(EventsIn(stdout, c)) + 1
        BY <3>3, <3>4
      <4>5. handlers[c] /\ reader.at # "ended" =>
              sent[c] = seen[c] + Cardinality(EventsIn(stdout, c))
                        + (IF Handles(c) THEN 1 ELSE 0)
        BY <2>0 DEF EventsOf
      <4>6. seen[c] \in Nat /\ sent[c] \in Nat /\ Cardinality(EventsIn(stdout, c)) \in Nat
        BY <1>1, <1>2
      <4>7. Counted(c)
        BY <3>2, <4>2, <4>4, <4>5, <4>6
      <4> QED BY <4>3, <4>7
    <3>5. CASE c # stdin[r].id
      <4>1. sent'[c] = sent[c]
        BY <1>1, <3>2, <3>5
      <4>2. Cardinality(EventsIn(stdout', c)) = Cardinality(EventsIn(stdout, c))
        BY <1>2, <3>3, <3>5
      <4>3. EventsIn(stdout, c) = {} => EventsIn(stdout', c) = {}
        <5>1. EventsIn(stdout', c) \subseteq EventsIn(stdout, c)
          BY <1>1, <3>1, <3>5, OutLineEffect DEF EventsIn
        <5> QED BY <5>1
      <4> QED BY <2>0, <3>2, <4>1, <4>2, <4>3 DEF EventsOf
    <3> QED BY <3>4, <3>5
  <2>8. ASSUME ReadLine, UNCHANGED <<serving, sent>> PROVE Before(c) /\ Counted(c)
    <3>1. /\ reader.at = "scan" /\ stdout # <<>> /\ stdout' = Tail(stdout)
          /\ 1 \in DOMAIN stdout
          /\ UNCHANGED <<call, chan, seen, sent>>
          /\ ~Handles(c) /\ ~Delivers(c)
      BY <2>8, ReadLineEffect, TailEffect
    <3>2. EventsIn(stdout, c) = {} => EventsIn(stdout', c) = {}
      BY <3>1, NoneInTail
    <3>3. Cardinality(EventsIn(stdout', c)) = Cardinality(EventsIn(stdout, c))
            - (IF stdout[1].kind = "event" /\ stdout[1].id = c THEN 1 ELSE 0)
      BY <1>1, <3>1, CountTail
    <3>4. CASE reader'.at = "ended" /\ UNCHANGED <<pending, handlers>>
      BY <2>0, <3>1, <3>2, <3>4 DEF EventsOf
    <3>5. CASE TakesAnswer(stdout[1])
      <4> DEFINE id == stdout[1].id
      <4>1. /\ stdout[1].kind = "answer" /\ id \in Calls
            /\ handlers' = [handlers EXCEPT ![id] = FALSE]
            /\ \/ pending[id] /\ reader'.at = "deliver" /\ reader'.of = id
               \/ reader'.at = "scan"
        BY <3>1, <3>5 DEF TakesAnswer
      <4>2. Cardinality(EventsIn(stdout', c)) = Cardinality(EventsIn(stdout, c))
        BY <1>2, <3>3, <4>1
      <4>3. CASE c = id
        <5>1. EventsIn(stdout, c) = {}
          <6>1. \A l \in DOMAIN stdout : stdout[l].kind = "event" /\ stdout[l].id = id => l < 1
            BY <3>1, <4>1 DEF OrderInv
          <6>2. \A l \in DOMAIN stdout : ~(l < 1)
            BY <1>1
          <6> QED BY <4>3, <6>1, <6>2 DEF EventsIn
        <5>2. Cardinality(EventsIn(stdout, c)) = 0
          BY <5>1, FS_EmptySet
        <5>3. pending[c] /\ call[c].handler => seen[c] = sent[c]
          BY <1>1, <2>0, <3>1, <5>2 DEF EventsOf, OnceOf
        <5>4. handlers'[c] = FALSE
          BY <1>1, <4>1, <4>3
        <5> HIDE DEF id
        <5> QED BY <2>0, <3>1, <3>2, <4>1, <4>3, <5>1, <5>3, <5>4 DEF EventsOf
      <4>4. CASE c # id
        <5>1. handlers'[c] = handlers[c]
          BY <1>1, <4>1, <4>4
        <5> HIDE DEF id
        <5> QED BY <2>0, <3>1, <3>2, <4>1, <4>2, <4>4, <5>1 DEF EventsOf
      <4> QED BY <4>3, <4>4
    <3>6. CASE TakesEvent(stdout[1])
      <4> DEFINE id == stdout[1].id
      <4>1. /\ stdout[1].kind = "event" /\ id \in Calls /\ UNCHANGED handlers
            /\ \/ handlers[id] /\ reader'.at = "handling" /\ reader'.of = id
               \/ ~handlers[id] /\ reader'.at = "scan"
        BY <3>1, <3>6 DEF TakesEvent
      <4>2. CASE c = id
        <5>1. 1 \in EventsIn(stdout, c)
          BY <3>1, <4>1, <4>2 DEF EventsIn
        <5>2. ~Delivered(c)
          BY <2>0, <5>1 DEF EventsOf
        <5>3. Cardinality(EventsIn(stdout', c)) = Cardinality(EventsIn(stdout, c)) - 1
          BY <3>3, <4>1, <4>2
        <5> HIDE DEF id
        <5>4. Before(c)
          BY <3>1, <4>1, <5>2
        <5>5. Counted(c)
          BY <1>1, <1>2, <2>0, <3>1, <4>1, <4>2, <5>3 DEF EventsOf
        <5> QED BY <5>4, <5>5
      <4>3. CASE c # id
        <5>1. Cardinality(EventsIn(stdout', c)) = Cardinality(EventsIn(stdout, c))
          BY <1>2, <3>3, <4>3
        <5> HIDE DEF id
        <5> QED BY <2>0, <3>1, <3>2, <4>1, <4>3, <5>1 DEF EventsOf
      <4> QED BY <4>2, <4>3
    <3> QED BY <2>8, <3>4, <3>5, <3>6, ReadLineEffect
  <2>9. ASSUME Deliver, UNCHANGED <<serving, sent>> PROVE Before(c) /\ Counted(c)
    <3>1. /\ reader.at = "deliver" /\ reader.of \in Calls
          /\ UNCHANGED <<call, handlers, seen, sent, stdout>>
      BY <1>1, <2>9 DEF Deliver
    <3>2. CASE UNCHANGED <<chan, reader>>
      BY <2>4, <3>1, <3>2
    <3>3. CASE /\ chan' = [chan EXCEPT ![reader.of] = reader.outcome]
               /\ reader' = Scanning
      <4>1. reader'.at = "scan" /\ (c # reader.of => chan'[c] = chan[c])
        BY <1>1, <3>1, <3>3, ScanningTyped
      <4> QED BY <2>0, <3>1, <4>1 DEF EventsOf
    <3> QED BY <2>9, <3>2, <3>3 DEF Deliver
  <2>10. ASSUME HandlerReturns, UNCHANGED <<serving, sent>> PROVE Before(c) /\ Counted(c)
    <3>1. /\ reader.at = "handling" /\ reader.of \in Calls /\ reader'.at = "scan"
          /\ seen' = [seen EXCEPT ![reader.of] = @ + 1]
          /\ UNCHANGED <<call, chan, handlers, sent, stdout>>
      BY <1>1, <2>10, ScanningTyped DEF HandlerReturns
    <3>2. CASE c = reader.of
      <4>1. seen'[c] = seen[c] + 1
        BY <1>1, <3>1, <3>2
      <4>2. Before(c)
        BY <2>0, <3>1, <3>2 DEF EventsOf
      <4>3. Counted(c)
        BY <1>1, <1>2, <2>0, <3>1, <3>2, <4>1 DEF EventsOf
      <4> QED BY <4>2, <4>3
    <3>3. CASE c # reader.of
      <4>1. seen'[c] = seen[c]
        BY <1>1, <3>1, <3>3
      <4> QED BY <2>0, <3>1, <3>3, <4>1 DEF EventsOf
    <3> QED BY <3>2, <3>3
  <2>11. ASSUME ScanEnds, UNCHANGED <<serving, sent>> PROVE Before(c) /\ Counted(c)
    <3>1. /\ reader.at = "scan" /\ reader'.at = "ended"
          /\ UNCHANGED <<call, chan, handlers, seen, sent, stdout>>
      BY <2>11 DEF ScanEnds, ClientTypes, ReaderType
    <3> QED BY <2>0, <3>1 DEF EventsOf
  <2>12. ASSUME Quiet PROVE Before(c) /\ Counted(c)
    BY <2>4, <2>12 DEF Quiet
  <2> HIDE DEF Before, Counted
  <2> QED BY <2>1, <2>2, <2>3, <2>5, <2>6, <2>7, <2>8, <2>9, <2>10, <2>11, <2>12, StepCases
<1>4. ASSUME NEW c \in Calls PROVE EventsOf(c)'
  BY <1>3 DEF EventsOf, EventsIn
<1> QED BY <1>4 DEF EventInv

-----------------------------------------------------------------------------
(* Theorems *)

LEMMA InitHolds == Init => SessionInv
<1> SUFFICES ASSUME Init PROVE SessionInv
  OBVIOUS
<1> USE Served
<1>1. Proved!Init /\ Proved!IInv
  BY SrvInit, Proved!InitHolds DEF Init
<1>2. ClientInit /\ sent = [c \in Calls |-> 0]
  BY DEF Init
<1>3. ClientTypes
  <2>1. call \in [Calls -> CallType]
    BY <1>2 DEF ClientInit, CallType, Kinds
  <2>2. reader \in ReaderType /\ reader.at = "scan"
    BY <1>2, ScanningTyped DEF ClientInit
  <2>3. stdin \in Seq(InLine) /\ stdout \in Seq(OutLine)
    BY <1>2 DEF ClientInit
  <2> QED BY <1>2, <2>1, <2>2, <2>3 DEF ClientInit, ClientTypes
<1>4. /\ stdin = <<>> /\ stdout = <<>> /\ DOMAIN stdin = {} /\ DOMAIN stdout = {}
      /\ reader.at = "scan" /\ panicked = FALSE
  BY <1>2, ScanningTyped DEF ClientInit
<1>5. \A r \in Calls : /\ req[r].pc = "unread" /\ req[r].outcome = "none"
                       /\ req[r].kind = "query"
  BY <1>1 DEF Proved!Init, Proved!NewRequest
<1>6. ASSUME NEW c \in Calls
      PROVE  /\ call[c].pc = "idle" /\ call[c].outcome = "none"
             /\ ~call[c].told /\ ~call[c].handler
             /\ chan[c] = "empty" /\ pending[c] = FALSE /\ handlers[c] = FALSE
             /\ seen[c] = 0 /\ sent[c] = 0
  BY <1>2 DEF ClientInit
<1>7. ServerInv
  BY <1>1, <1>5 DEF ServerInv, Proved!Init
<1>8. LineInv
  BY <1>4, <1>5 DEF LineInv
<1>9. EntryInv
  BY <1>5 DEF EntryInv, Proved!Turns
<1>10. ToldInv
  <2>1. \A c \in Calls : ~(seen[c] > 0) /\ ~(sent[c] > 0) /\ ~Handles(c) /\ ~call[c].told
    <3>1. ASSUME NEW c \in Calls PROVE ~(seen[c] > 0) /\ ~(sent[c] > 0)
      <4>1. seen[c] = 0 /\ sent[c] = 0
        BY <1>6
      <4>2. ~(0 > 0)
        OBVIOUS
      <4> QED BY <4>1, <4>2, Zenon
    <3>2. \A c \in Calls : ~Handles(c)
      BY <1>4 DEF Handles
    <3> QED BY <1>6, <3>1, <3>2
  <2>2. \A r \in Calls : req[r].kind # "interrupt"
    BY <1>5
  <2> QED BY <1>4, <2>1, <2>2 DEF ToldInv
<1>11. AnswerInv
  BY <1>4, <1>6 DEF AnswerInv
<1>12. OnceInv
  <2>1. ASSUME NEW c \in Calls PROVE OnceOf(c)
    BY <1>4, <1>6 DEF OnceOf, Delivers
  <2> QED BY <1>4, <2>1 DEF OnceInv
<1>13. OrderInv
  BY <1>4 DEF OrderInv
<1>14. EventInv
  BY <1>4, <1>6 DEF EventInv, EventsOf, Delivers, Delivered
<1> QED
  BY <1>3, <1>7, <1>8, <1>9, <1>10, <1>11, <1>12, <1>13, <1>14 DEF SessionInv

\* The inductive invariant of a session.
THEOREM SessionInvariant == Spec => []SessionInv
<1>1. SessionInv /\ [Next]_vars => SessionInv'
  BY TypesStay, ServerStays, LinesStay, EntriesStay, ToldStays, AnswersStay, OnceStays,
     OrderStays, EventsStay DEF SessionInv
<1> QED BY <1>1, InitHolds, PTL DEF Spec

(***************************************************************************)
(* What a call returns is what the server did for it (sdk/client.go:       *)
(* 197-230, 295-322; server.go:215-232, 371-394).                          *)
(***************************************************************************)
THEOREM CallsReturnTruth == Spec => []ReturnsAreTrue
<1>1. SessionInv => ReturnsAreTrue
  <2> SUFFICES ASSUME SessionInv, NEW c \in Calls, NEW r \in Calls, r \in DOMAIN stdin,
                      stdin[r].id = c
               PROVE  /\ call[c].kind = "turn" =>
                           /\ call[c].outcome = "ok" => req[r].saved
                           /\ call[c].outcome = "error" => ~req[r].saved
                      /\ call[c].kind = "interrupt" =>
                           \A t \in DOMAIN stdin : stdin[t].id = call[c].target =>
                             /\ call[c].outcome = "ok" =>
                                  req[t].kind = "turn" /\ req[t].cancelled
                             /\ call[c].outcome = "error" /\ call[c].told =>
                                  req[t].cancelled \/ req[t].pc = "done"
    BY DEF ReturnsAreTrue, RequestOf, Srv!Requests, Calls
  <2> USE Served
  <2>1. ASSUME NEW o \in {"ok", "error"}, call[c].outcome = o
        PROVE  /\ req[r].outcome = o /\ req[r].pc \in {"answered", "done"}
               /\ req[r].kind = call[c].kind
               /\ req[r].kind = "interrupt" =>
                    req[r].target = call[c].target /\ req[r].pc = "done"
    <3>1. Answered(c, o)
      BY <2>1 DEF SessionInv, AnswerInv
    <3>2. req[r].outcome = o
      BY <3>1 DEF Answered, SessionInv, LineInv
    <3>3. Proved!StageOf(r)
      BY DEF SessionInv, ServerInv, Proved!IInv, Proved!StageInv
    <3>4. req[r].pc \in {"answered", "done"} /\ (req[r].kind = "interrupt" => req[r].pc = "done")
      BY <3>2, <3>3 DEF Proved!StageOf
    <3>5. /\ req[r].kind = call[c].kind
          /\ req[r].kind = "interrupt" => req[r].target = call[c].target
      BY <3>4 DEF SessionInv, LineInv
    <3> QED BY <3>2, <3>4, <3>5
  <2>2. ASSUME call[c].kind = "turn", NEW o \in {"ok", "error"}, call[c].outcome = o
        PROVE  (o = "ok" => req[r].saved) /\ (o = "error" => ~req[r].saved)
    <3>1. r \in Proved!Turns /\ req[r].outcome = o
      BY <2>1, <2>2 DEF Proved!Turns
    <3> QED BY <3>1 DEF SessionInv, ServerInv, Proved!IInv, Proved!AnswersMatchStore
  <2>3. ASSUME call[c].kind = "interrupt", NEW t \in DOMAIN stdin,
               stdin[t].id = call[c].target, call[c].outcome = "ok"
        PROVE  req[t].kind = "turn" /\ req[t].cancelled
    <3> DEFINE u == req[r].found
    <3>1. /\ u \in Proved!Turns /\ req[u].id = call[c].target /\ req[u].cancelled
      BY <2>1, <2>3 DEF SessionInv, ServerInv, Proved!IInv, Proved!FoundInv
    <3>2. u \in Calls /\ req[u].kind = "turn" /\ req[u].pc # "unread"
      BY <3>1 DEF Proved!Turns
    <3>3. u \in DOMAIN stdin /\ stdin[u].id = call[c].target
      BY <3>1, <3>2 DEF SessionInv, LineInv
    <3>4. u = t
      BY <2>3, <3>3 DEF SessionInv, LineInv
    <3> QED BY <3>1, <3>2, <3>4
  <2>4. ASSUME call[c].kind = "interrupt", NEW t \in DOMAIN stdin,
               stdin[t].id = call[c].target, call[c].outcome = "error", call[c].told
        PROVE  req[t].cancelled \/ req[t].pc = "done"
    <3>1. /\ req[r].kind = "interrupt" /\ req[r].pc = "done"
          /\ req[r].found = Proved!NoRequest
      BY <2>1, <2>4 DEF SessionInv, ServerInv, Proved!IInv, Proved!NotFoundInv
    <3>2. t \in Calls
      <4>1. PICK b \in Calls : b \in DOMAIN stdin /\ stdin[b].id = call[c].target
        BY <2>4 DEF SessionInv, ToldInv, Began
      <4> QED BY <2>4, <4>1 DEF SessionInv, LineInv
    <3> QED BY <2>4, <3>1, <3>2 DEF SessionInv, ToldInv
  <2>5. CASE call[c].kind = "interrupt"
    <3>1. call[c].kind # "turn"
      BY <2>5
    <3> QED BY <2>3, <2>4, <2>5, <3>1
  <2>6. CASE call[c].kind # "interrupt"
    BY <2>2, <2>6
  <2> QED BY <2>5, <2>6
<1> QED BY <1>1, SessionInvariant, PTL

(***************************************************************************)
(* No event of a turn is lost, late or still to come when the turn returns *)
(* its answer (sdk/client.go:351-386, 430-449; agent.go:166-169;           *)
(* server.go:404-465).                                                     *)
(***************************************************************************)
THEOREM EventsComeFirst == Spec => []EventsBeforeAnswer
<1>1. SessionInv => EventsBeforeAnswer
  BY DEF SessionInv, EventInv, EventsOf, Delivered, EventsBeforeAnswer
<1> QED BY <1>1, SessionInvariant, PTL

(***************************************************************************)
(* readLoop sends on a closed channel only for a call that was given up    *)
(* (sdk/client.go:204, 218-220, 383).                                      *)
(***************************************************************************)
THEOREM PanicNeedsGiveUp == Spec => []PanicsOnlyAfterGiveUp
<1>1. SessionInv => PanicsOnlyAfterGiveUp
  <2> SUFFICES ASSUME SessionInv, panicked PROVE call[reader.of].outcome = "cancelled"
    BY DEF PanicsOnlyAfterGiveUp
  <2> DEFINE c == reader.of
  <2>1. reader.at = "deliver" /\ chan[c] = "closed" /\ c \in Calls
    BY DEF SessionInv, OnceInv, ClientTypes
  <2>2. call[c].outcome \notin {"none", "ok", "error"}
    BY <2>1 DEF SessionInv, OnceInv, OnceOf, Delivers, Delivered
  <2>3. call[c].outcome # "failed"
    <3>1. PICK r \in Calls : r \in DOMAIN stdin /\ stdin[r].id = c
      BY <2>1 DEF SessionInv, AnswerInv, Answered
    <3> QED BY <3>1 DEF SessionInv, LineInv
  <2>4. call[c].outcome \in {"none", "failed", "cancelled", "ok", "error"}
    <3>1. call[c] \in CallType
      BY <2>1 DEF SessionInv, ClientTypes
    <3> QED BY <3>1 DEF CallType
  <2> QED BY <2>2, <2>3, <2>4
<1> QED BY <1>1, SessionInvariant, PTL
==============================================================================
