-------------------------------- MODULE Server --------------------------------
(***************************************************************************)
(* agn serve (internal/server/server.go): Serve reads requests, and each   *)
(* runs in a goroutine of its own; turns leave their cancel function in    *)
(* inFlight under the id of their request, where interrupts look for it.   *)
(*                                                                         *)
(* agent.Run is three steps here: it passes the last look at its context,  *)
(* saves its thread, or gives up (module AgentLoop has its stages).        *)
(* External: the client, which may give any ids to its requests, also one  *)
(* that is in use, and may close either pipe; and whoever kills the        *)
(* process (it catches no signal).                                         *)
(***************************************************************************)
EXTENDS Naturals

CONSTANTS MaxRequests,   \* bound: the requests of a behaviour
          Ids            \* the ids a client gives to them

ASSUME ServerAssumption == MaxRequests \in Nat /\ Ids # {}

\* Requests in the order of their lines.
Requests == 1..MaxRequests
NoRequest == 0

VARIABLES req, inFlight, server
vars == <<req, inFlight, server>>

Kinds == {"turn", "interrupt", "query", "malformed"}

\* id is that of a turn's request, target the request_id of an interrupt and
\* found the turn it stopped.
NewRequest ==
  [pc |-> "unread", kind |-> "query", id |-> CHOOSE id \in Ids : TRUE,
   target |-> CHOOSE id \in Ids : TRUE, cancelled |-> FALSE, saved |-> FALSE,
   outcome |-> "none", found |-> NoRequest]

Init ==
  /\ req = [r \in Requests |-> NewRequest]
  /\ inFlight = [id \in Ids |-> NoRequest]
  /\ server = [serve |-> "reading", output |-> "open", down |-> FALSE]

Running == server.serve # "exited"
Enters(r, pc) == req' = [req EXCEPT ![r] = [@ EXCEPT !.pc = pc]]

\* A turn's context: its own cancel, or that of the context of Serve.
Ended(r) == req[r].cancelled \/ server.down

-----------------------------------------------------------------------------
(* Serve *)

\* One line.  What is no request of a known method Serve answers itself, before
\* it reads on; the others are handed to a goroutine.  A query is one that needs
\* no state of the server: thread/list, thread/read, and a turn or an interrupt
\* whose parameters are refused.
Read(r) ==
  /\ server.serve = "reading" /\ ~server.down
  /\ req[r].pc = "unread"
  /\ \A q \in 1..(r - 1) : req[q].pc # "unread"
  /\ \E kind \in Kinds, id \in Ids, target \in Ids :
       /\ kind # "turn" => id = req[r].id
       /\ kind # "interrupt" => target = req[r].target
       /\ req' = [req EXCEPT ![r] = [@ EXCEPT !.pc = "started", !.kind = kind,
                                              !.id = id, !.target = target]]
  /\ server' = [server EXCEPT !.serve = IF req'[r].kind = "malformed" THEN "writing" ELSE @]
  /\ UNCHANGED inFlight

\* The client closed the input, a line is too long, a line came after the context
\* had ended, or its closer could interrupt the read (closing os.Stdin need
\* not).  The deferred cancel ends the context of every turn.
ServeReturns ==
  /\ server.serve = "reading"
  /\ server' = [server EXCEPT !.serve = "returned", !.down = TRUE]
  /\ UNCHANGED <<req, inFlight>>

\* cleanup is done and main returns, or the process is killed: nobody waits for
\* the goroutines.
Exit ==
  /\ Running
  /\ server' = [server EXCEPT !.serve = "exited"]
  /\ UNCHANGED <<req, inFlight>>

OutputBreaks ==
  /\ Running /\ server.output = "open"
  /\ server' = [server EXCEPT !.output = "broken"]
  /\ UNCHANGED <<req, inFlight>>

-----------------------------------------------------------------------------
(* Answers *)

\* writeResponse.  A write that fails ends the context of Serve; no request is
\* told anything any more.
Answer(r, pc, outcome) ==
  /\ Running
  /\ req' = [req EXCEPT ![r] =
       [@ EXCEPT !.pc = pc,
                 !.outcome = IF server.output = "open" THEN outcome ELSE "unwritten"]]
  /\ server' = [server EXCEPT !.down = @ \/ server.output = "broken",
                              !.serve = IF req[r].kind = "malformed" THEN "reading" ELSE @]

AnswerAtOnce(r) ==
  /\ req[r].pc = "started"
  /\ \/ req[r].kind = "query" /\ \E outcome \in {"ok", "error"} : Answer(r, "done", outcome)
     \/ req[r].kind = "malformed" /\ Answer(r, "done", "error")
  /\ UNCHANGED inFlight

\* writeNotification of a turn that streams; one that is written changes nothing.
NotificationFails(r) ==
  /\ Running /\ ~server.down
  /\ req[r].pc \in {"running", "saving", "saved"}
  /\ server.output = "broken"
  /\ server' = [server EXCEPT !.down = TRUE]
  /\ UNCHANGED <<req, inFlight>>

-----------------------------------------------------------------------------
(* executeTurn, for turn/start and thread/resume *)

\* Mutant of StoreCancel: removeCancel is called, not deferred.
StoreCancelNotDeferred(r) ==
  /\ Running
  /\ req[r].pc = "started" /\ req[r].kind = "turn"
  /\ inFlight' = [inFlight EXCEPT ![req[r].id] = NoRequest]
  /\ Enters(r, "running")
  /\ UNCHANGED server

StoreCancel(r) ==
  /\ Running
  /\ req[r].pc = "started" /\ req[r].kind = "turn"
  /\ inFlight' = [inFlight EXCEPT ![req[r].id] = r]
  /\ Enters(r, "running")
  /\ UNCHANGED server

\* The last look of agent.Run at its context, in store.Save.
PassCheck(r) ==
  /\ Running
  /\ req[r].pc = "running"
  /\ ~Ended(r)
  /\ Enters(r, "saving")
  /\ UNCHANGED <<inFlight, server>>

TurnSaves(r) ==
  /\ Running
  /\ req[r].pc = "saving"
  /\ req' = [req EXCEPT ![r] = [@ EXCEPT !.pc = "saved", !.saved = TRUE]]
  /\ UNCHANGED <<inFlight, server>>

TurnFails(r) ==
  /\ Running
  /\ req[r].pc \in {"running", "saving"}
  /\ Enters(r, "failed")
  /\ UNCHANGED <<inFlight, server>>

\* Mutant of AnswerTurn: a turn that was interrupted is reported as an error.
AnswerTurnByContext(r) ==
  /\ req[r].pc \in {"saved", "failed"}
  /\ Answer(r, "answered", IF req[r].pc = "saved" /\ ~Ended(r) THEN "ok" ELSE "error")
  /\ UNCHANGED inFlight

AnswerTurn(r) ==
  /\ req[r].pc \in {"saved", "failed"}
  /\ Answer(r, "answered", IF req[r].pc = "saved" THEN "ok" ELSE "error")
  /\ UNCHANGED inFlight

\* The deferred removeCancel, after the answer: it deletes whatever the id
\* stands for by then.
RemoveCancel(r) ==
  /\ Running
  /\ req[r].pc = "answered"
  /\ inFlight' = [inFlight EXCEPT ![req[r].id] = NoRequest]
  /\ Enters(r, "done")
  /\ UNCHANGED server

-----------------------------------------------------------------------------
(* handleCancel *)

\* Mutant of Interrupt: the entry is not deleted with the lookup.
InterruptKeeps(r) ==
  LET t == inFlight[req[r].target] IN
  /\ Running
  /\ req[r].pc = "started" /\ req[r].kind = "interrupt"
  /\ req' = [x \in Requests |->
               IF x = r THEN [req[r] EXCEPT !.pc = "looked_up", !.found = t]
               ELSE IF x = t THEN [req[t] EXCEPT !.cancelled = TRUE]
               ELSE req[x]]
  /\ UNCHANGED <<inFlight, server>>

\* cancel: the lookup, the cancellation and the deletion under one lock.
Interrupt(r) ==
  LET t == inFlight[req[r].target] IN
  /\ Running
  /\ req[r].pc = "started" /\ req[r].kind = "interrupt"
  /\ req' = [x \in Requests |->
               IF x = r THEN [req[r] EXCEPT !.pc = "looked_up", !.found = t]
               ELSE IF x = t THEN [req[t] EXCEPT !.cancelled = TRUE]
               ELSE req[x]]
  /\ inFlight' = [inFlight EXCEPT ![req[r].target] = NoRequest]
  /\ UNCHANGED server

\* Mutant of AnswerInterrupt: there is nothing to say when no turn was found.
AnswerInterruptIfFound(r) ==
  /\ req[r].pc = "looked_up"
  /\ req[r].found # NoRequest
  /\ Answer(r, "done", "ok")
  /\ UNCHANGED inFlight

\* cancelled: true, or "request not found".
AnswerInterrupt(r) ==
  /\ req[r].pc = "looked_up"
  /\ Answer(r, "done", IF req[r].found # NoRequest THEN "ok" ELSE "error")
  /\ UNCHANGED inFlight

\* What the goroutine of a request does by itself.
Step(r) ==
  \/ AnswerAtOnce(r)
  \/ StoreCancel(r) \/ PassCheck(r) \/ TurnSaves(r) \/ TurnFails(r)
  \/ NotificationFails(r) \/ AnswerTurn(r) \/ RemoveCancel(r)
  \/ Interrupt(r) \/ AnswerInterrupt(r)

Next ==
  \/ \E r \in Requests : Read(r) \/ Step(r)
  \/ ServeReturns \/ Exit \/ OutputBreaks

Spec == Init /\ [][Next]_vars

\* Goroutines that can run do, and every turn ends (AgentLoop!TurnsEnd).
FairSpec == Spec /\ \A r \in Requests : WF_vars(Step(r))

-----------------------------------------------------------------------------
Turns == {r \in Requests : req[r].kind = "turn" /\ req[r].pc \notin {"unread", "started"}}

TypeOK ==
  /\ req \in [Requests ->
       [pc : {"unread", "started", "running", "saving", "saved", "failed", "looked_up",
              "answered", "done"},
        kind : Kinds, id : Ids, target : Ids, cancelled : BOOLEAN, saved : BOOLEAN,
        outcome : {"none", "ok", "error", "unwritten"}, found : Requests \cup {NoRequest}]]
  /\ inFlight \in [Ids -> Requests \cup {NoRequest}]
  /\ server \in [serve : {"reading", "writing", "returned", "exited"},
                 output : {"open", "broken"}, down : BOOLEAN]

\* A turn that runs and was not interrupted is found by an interrupt, unless
\* another request with its id has been a turn.  (It may have been answered
\* before this one was read: removeCancel comes after the answer.)
\* (server.go:373-375, 502-523)
TurnsInterruptible ==
  \A r \in Turns : req[r].pc \in {"running", "saving"} /\ ~req[r].cancelled =>
    \/ inFlight[req[r].id] = r
    \/ \E q \in Turns \ {r} : req[q].id = req[r].id

\* Every interrupt that is told cancelled: true has itself ended a turn of that
\* id, one that had not been answered and removed, and that no other interrupt
\* claims; no turn's context ends otherwise before Serve's (server.go:226-231,
\* 514-523).
InterruptsClaimOne ==
  /\ \A r \in Requests : req[r].kind = "interrupt" /\ req[r].outcome = "ok" =>
       LET t == req[r].found IN
       /\ t \in Turns /\ req[t].id = req[r].target /\ req[t].cancelled
       /\ \A q \in Requests \ {r} : req[q].found # t
  /\ \A t \in Turns : req[t].cancelled => \E r \in Requests : req[r].found = t

\* What a client is told of a turn is what happened to the thread, whatever
\* interrupt, shutdown or other request fell between: ok and it is saved, an
\* error and it is not, so that the prompt may be sent again (server.go:386-393).
AnswersMatchStore ==
  \A t \in Turns : /\ req[t].outcome = "ok" => req[t].saved
                   /\ req[t].outcome = "error" => ~req[t].saved

\* Every request that was read is answered, also the interrupt that finds
\* nothing and the turn it stops, unless the output breaks or the process ends,
\* which it does at the end of its input without waiting (server.go:140-198).
RequestsAnswered ==
  \A r \in Requests : (req[r].pc # "unread") ~>
    (req[r].outcome \in {"ok", "error"} \/ server.output = "broken" \/ ~Running)
===============================================================================
