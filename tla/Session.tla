-------------------------------- MODULE Session --------------------------------
(***************************************************************************)
(* A program with the SDK client and the agn serve it has started: module  *)
(* SdkClient and module Server, joined by the two pipes.  The r-th line of *)
(* stdin is request r of the server.                                       *)
(***************************************************************************)
EXTENDS SdkClient

CONSTANT MaxEvents   \* bound: the events of a turn

VARIABLES req, inFlight, server, sent

Srv == INSTANCE Server WITH MaxRequests <- MaxCalls, Ids <- 1..MaxCalls

serving == <<req, inFlight, server>>
vars == <<client, serving, sent>>

\* sent counts the events written for a turn.
Init ==
  /\ ClientInit
  /\ Srv!Init
  /\ sent = [c \in Calls |-> 0]

Exited == server.serve = "exited"

ClientKeeps == UNCHANGED <<call, chan, pending, handlers, seen, stdin, reader, closed, panicked>>

ServerReads(r) ==
  /\ r \in DOMAIN stdin
  /\ Srv!Read(r)
  /\ req'[r].kind = stdin[r].kind
  /\ req'[r].kind = "turn" => req'[r].id = stdin[r].id
  /\ req'[r].kind = "interrupt" => req'[r].target = stdin[r].target
  /\ UNCHANGED <<client, sent>>

\* What the server does for a request; if it is to answer it the line is written.
ServerStep(r) ==
  /\ Srv!Step(r)
  /\ stdout' = IF req'[r].outcome = req[r].outcome THEN stdout
               ELSE Append(stdout, [kind |-> "answer", id |-> stdin[r].id,
                                    outcome |-> req'[r].outcome])
  /\ ClientKeeps
  /\ UNCHANGED sent

\* Mutant of ServerNotifies: the turn's last event is written after its answer.
NotifiesAfterAnswer(r) ==
  /\ ~Exited
  /\ req[r].pc \in {"running", "saving", "saved", "failed", "answered"}
  /\ sent[stdin[r].id] < MaxEvents
  /\ sent' = [sent EXCEPT ![stdin[r].id] = @ + 1]
  /\ stdout' = Append(stdout, [kind |-> "event", id |-> stdin[r].id, outcome |-> "none"])
  /\ ClientKeeps
  /\ UNCHANGED serving

\* eventSink: events carry the key of the request, from storeCancel to the last
\* one, which agent.Run defers and which thus precedes the answer.
ServerNotifies(r) ==
  /\ ~Exited
  /\ req[r].pc \in {"running", "saving", "saved", "failed"}
  /\ sent[stdin[r].id] < MaxEvents
  /\ sent' = [sent EXCEPT ![stdin[r].id] = @ + 1]
  /\ stdout' = Append(stdout, [kind |-> "event", id |-> stdin[r].id, outcome |-> "none"])
  /\ ClientKeeps
  /\ UNCHANGED serving

\* Client.Close closes the pipe and kills the server.
CloseAndKill ==
  /\ Close
  /\ IF Exited THEN UNCHANGED server ELSE Srv!Exit
  /\ UNCHANGED <<req, inFlight, sent>>

\* The server ends by itself, as when it is killed by someone else.
ServerExits ==
  /\ Srv!Exit
  /\ UNCHANGED <<client, sent>>

ReaderStep ==
  /\ ReadLine \/ Deliver \/ HandlerReturns \/ ((stdout = <<>> => Exited) /\ ScanEnds)
  /\ UNCHANGED <<serving, sent>>

CallerStep(c) ==
  /\ (Exited /\ WriteFails(c)) \/ (~Exited /\ Write(c)) \/ Receive(c)
  /\ UNCHANGED <<serving, sent>>

Next ==
  /\ ~panicked
  /\ \/ \E c \in Calls : \/ (Register(c) \/ GiveUp(c)) /\ UNCHANGED <<serving, sent>>
                         \/ CallerStep(c)
                         \/ ServerReads(c) \/ ServerStep(c) \/ ServerNotifies(c)
     \/ CloseAndKill \/ ServerExits
     \/ ReaderStep

Spec == Init /\ [][Next]_vars

\* Goroutines that can run do, and handlers return unless they wait for a call;
\* nobody has to give up.
FairSpec ==
  /\ Spec
  /\ WF_vars(~panicked /\ ReaderStep)
  /\ \A c \in Calls : WF_vars(~panicked /\ CallerStep(c))

-----------------------------------------------------------------------------
RequestOf(c) == {r \in DOMAIN stdin : stdin[r].id = c}

\* What a call returns is what the server did for it, across both processes: a
\* turn that returns a result is saved and one that returns an error is not; an
\* interrupt that returns well has ended the context of the very turn it names,
\* and one that fails although the program had seen an event of that turn came
\* when the turn was over or was interrupted already (sdk/client.go:197-230,
\* 295-322; server.go:215-232, 371-394).
ReturnsAreTrue ==
  \A c \in Calls, r \in Srv!Requests : r \in RequestOf(c) =>
    /\ call[c].kind = "turn" =>
         /\ call[c].outcome = "ok" => req[r].saved
         /\ call[c].outcome = "error" => ~req[r].saved
    /\ call[c].kind = "interrupt" => \A t \in RequestOf(call[c].target) :
         /\ call[c].outcome = "ok" => req[t].kind = "turn" /\ req[t].cancelled
         /\ call[c].outcome = "error" /\ call[c].told =>
              req[t].cancelled \/ req[t].pc = "done"

\* When a turn returns its answer its handler has returned from every event the
\* server has written for it: none is lost, late or still to come
\* (sdk/client.go:351-386, 430-449; agent.go:166-169; server.go:404-465).
EventsBeforeAnswer ==
  \A c \in Calls :
    call[c].handler /\ call[c].outcome \in {"ok", "error"} => seen[c] = sent[c]

\* The program dies of a send on a closed channel only for a call that it gave
\* up while its answer was on the way (sdk/client.go:204, 218-220, 383).
PanicsOnlyAfterGiveUp == panicked => call[reader.of].outcome = "cancelled"

\* A call whose answer is written returns, unless readLoop has ended or died, or
\* waits for a handler that itself called the client (sdk/client.go:351-386,
\* 430-449).
AnswersArrive ==
  \A c \in Calls :
    (\E i \in DOMAIN stdout : stdout[i].id = c /\ stdout[i].kind = "answer") ~>
      \/ call[c].pc = "returned"
      \/ reader.at = "ended" \/ panicked \/ reader.waits # NoCall
===============================================================================
