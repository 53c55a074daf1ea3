------------------------------- MODULE McpProofs -------------------------------
(***************************************************************************)
(* Theorems about package mcp, in two parts.                               *)
(*                                                                         *)
(* McpClient, for any number of calls and any ids under which the server   *)
(* makes requests of its own: that no call gets another's answer, that     *)
(* readLoop is never held up by one of them, and what its panic takes.     *)
(*                                                                         *)
(* ToolIndex, for any turns, servers and names: that calls reach the       *)
(* provider which has the tool, and that no server takes the shell's name. *)
(***************************************************************************)
EXTENDS McpClient, ToolIndex, FiniteSetTheorems, TLAPS

-----------------------------------------------------------------------------
(* Part one: the client.  The inductive invariant *)

Begun == {c \in Calls : call[c].pc # "idle"}

\* The entry of the call is in pending, readLoop is about to send to its channel,
\* and its request has gone to the server.
Awaited(c)    == call[c].id \in Ids /\ pending[call[c].id] = c
Delivering(c) == reader.at = "deliver" /\ reader.chan = c
Sent(c)       == [id |-> call[c].id, of |-> c] \in sent

\* The server makes requests of its own under the id of the call, and what may come
\* to the call in the place of its answer: the answer, or such a request.
Asked(c)   == call[c].id \in Asks \cap Ids
Got(c, of) == of = c \/ (of = NoCall /\ Asked(c))

\* The same while it is on its way: an answer follows a request.
Comes(c, of) == Got(c, of) /\ (of = c => Sent(c))

\* The ids are counted from 1, and the channel is open until the call returns.
CallOK(c) ==
  /\ call[c].id \in 0 .. nextID
  /\ call[c].pc = "idle" <=> call[c].id = 0
  /\ call[c].pc = "returned" <=> call[c].outcome # "none"
  /\ chan[c].open <=> call[c].pc # "returned"
  /\ call[c].outcome = "answered" => Got(c, call[c].answer)

\* At most one line is on its way to the call: still with the server, in the hands
\* of readLoop, in the channel or returned.
AnswerOK(c) ==
  /\ \/ chan[c].buffer = <<>>
     \/ ~Awaited(c) /\ \E of \in {c, NoCall} : chan[c].buffer = <<of>> /\ Comes(c, of)
  /\ Delivering(c) => /\ Comes(c, reader.of) /\ ~Awaited(c)
                      /\ chan[c].buffer = <<>> /\ call[c].outcome # "answered"
  /\ call[c].outcome = "answered" => ~Awaited(c)

\* No two calls have one id.
IdsOK == \A c, d \in Calls : call[c].id = call[d].id /\ call[c].id # 0 => c = d

\* A request in the server's hands is of a call that wrote it.
SentOK ==
  \A line \in sent : /\ line.of \in Calls /\ line.id = call[line.of].id
                     /\ call[line.of].pc \in {"written", "waiting", "returned"}
                     /\ call[line.of].outcome # "failed"

OwnRequests == {[id |-> id, of |-> NoCall] : id \in Asks \cap Ids}
LinesOK == \A i \in DOMAIN stdout : stdout[i] \in sent \cup {Noise} \cup OwnRequests

PendingOK == \A id \in Ids : pending[id] # NoCall => call[pending[id]].id = id

McpInv ==
  /\ TypeOK
  /\ nextID = Cardinality(Begun)
  /\ \A c \in Calls : CallOK(c) /\ AnswerOK(c)
  /\ IdsOK /\ SentOK /\ LinesOK /\ PendingOK
  /\ panicked => reader.at = "deliver" /\ ~chan[reader.chan].open

-----------------------------------------------------------------------------
(* Counting *)

\* There is an id for every call that has begun.
LEMMA EnoughIds ==
  ASSUME McpInv
  PROVE  /\ IsFiniteSet(Begun) /\ nextID \in 0 .. Cardinality(Calls)
         /\ Cardinality(Calls) \in Nat
         /\ \A n \in 1 .. nextID : n \in Ids
<1>1. IsFiniteSet(Calls) /\ Begun \subseteq Calls
  BY ClientAssumption DEF Begun
<1>2. IsFiniteSet(Begun) /\ Cardinality(Begun) <= Cardinality(Calls)
  BY <1>1, FS_Subset
<1>3. Cardinality(Begun) \in Nat /\ Cardinality(Calls) \in Nat
  BY <1>1, <1>2, FS_CardinalityType
<1>4. nextID = Cardinality(Begun)
  BY DEF McpInv
<1>5. nextID \in 0 .. Cardinality(Calls)
  BY <1>2, <1>3, <1>4
<1>6. \A n \in 1 .. nextID : n \in 1 .. Cardinality(Calls)
  BY <1>3, <1>5
<1> QED BY <1>2, <1>3, <1>5, <1>6 DEF Ids

\* The fields of a call and of its channel.
LEMMA Fields ==
  ASSUME TypeOK, NEW c \in Calls
  PROVE  /\ call[c] \in [pc : {"idle", "registered", "written", "waiting", "returned"},
                         id : Ids \cup {0}, cancelled : BOOLEAN,
                         outcome : {"none", "answered", "cancelled", "failed"},
                         answer : Calls \cup {NoCall}]
         /\ chan[c] \in [open : BOOLEAN, buffer : Seq(Calls \cup {NoCall})]
BY DEF TypeOK

\* The invariant holds at first.
LEMMA InitMcpInv == Init => McpInv
<1> SUFFICES ASSUME Init PROVE McpInv
  OBVIOUS
<1>1. \A c \in Calls : /\ call[c] = [pc |-> "idle", id |-> 0, cancelled |-> FALSE,
                                     outcome |-> "none", answer |-> NoCall]
                       /\ chan[c] = [open |-> TRUE, buffer |-> <<>>]
  BY DEF Init
<1>2. TypeOK
  <2>1. <<>> \in Seq(Calls \cup {NoCall}) /\ <<>> \in Seq(Lines)
    OBVIOUS
  <2>2. chan \in [Calls -> [open : BOOLEAN, buffer : Seq(Calls \cup {NoCall})]]
    BY <2>1 DEF Init
  <2>3. reader \in [at : {"scan", "ended"}, chan : {NoCall}, of : {NoCall}]
    BY DEF Init, Idle
  <2> QED BY <2>1, <2>2, <2>3 DEF Init, TypeOK
<1>3. Begun = {}
  BY <1>1 DEF Begun
<1>4. nextID = Cardinality(Begun) /\ nextID = 0
  BY <1>3, FS_EmptySet DEF Init
<1>5. \A c \in Calls : CallOK(c) /\ AnswerOK(c)
  BY <1>1, <1>4 DEF Init, CallOK, AnswerOK, Delivering, Idle
<1>6. IdsOK
  BY <1>1 DEF IdsOK
<1>7. SentOK /\ LinesOK /\ PendingOK /\ ~panicked
  BY DEF Init, SentOK, LinesOK, PendingOK
<1> QED BY <1>2, <1>4, <1>5, <1>6, <1>7 DEF McpInv

-----------------------------------------------------------------------------
(* The steps of a call *)

\* A step of a call that has its id: it writes its request at most, drops what is
\* in its channel at most, and returns an answer only when none is on its way.
LEMMA CallerKeeps ==
  ASSUME McpInv, ~panicked, NEW c \in Calls, NEW new, NEW ch,
         new \in [pc : {"idle", "registered", "written", "waiting", "returned"},
                  id : Ids \cup {0}, cancelled : BOOLEAN,
                  outcome : {"none", "answered", "cancelled", "failed"},
                  answer : Calls \cup {NoCall}],
         ch \in [open : BOOLEAN, buffer : Seq(Calls \cup {NoCall})],
         call' = [call EXCEPT ![c] = new], chan' = [chan EXCEPT ![c] = ch],
         UNCHANGED <<pending, nextID, stdout, reader, exited, closed, panicked, full>>,
         sent' = sent \/ sent' = sent \cup {[id |-> call[c].id, of |-> c]},
         new.id = call[c].id, new.pc # "idle", call[c].pc # "idle",
         new.pc = "returned" <=> new.outcome # "none",
         ch.open <=> new.pc # "returned",
         new.outcome = "answered" => Got(c, new.answer) /\ ~Awaited(c) /\ ~Delivering(c),
         ch.buffer = <<>> \/ ch.buffer = chan[c].buffer,
         Sent(c)' => new.pc \in {"written", "waiting", "returned"} /\ new.outcome # "failed"
  PROVE  McpInv'
<1> USE DEF McpInv
<1>1. /\ call'[c] = new /\ chan'[c] = ch
      /\ \A d \in Calls : d # c => call'[d] = call[d] /\ chan'[d] = chan[d]
      /\ \A d \in Calls : call'[d].id = call[d].id
      /\ \A d \in Calls : call'[d].pc = "idle" <=> call[d].pc = "idle"
  <2>1. call'[c] = new /\ chan'[c] = ch /\ \A d \in Calls : d # c => call'[d] = call[d] /\ chan'[d] = chan[d]
    BY DEF TypeOK
  <2>2. \A d \in Calls : call'[d].id = call[d].id /\ (call'[d].pc = "idle" <=> call[d].pc = "idle")
    <3> SUFFICES ASSUME NEW d \in Calls
                 PROVE  call'[d].id = call[d].id /\ (call'[d].pc = "idle" <=> call[d].pc = "idle")
      OBVIOUS
    <3>1. CASE d = c
      BY <2>1, <3>1
    <3>2. CASE d # c
      BY <2>1, <3>2
    <3> QED BY <3>1, <3>2
  <2> QED BY <2>1, <2>2
<1>2. call[c].id \in Ids
  <2>1. CallOK(c) /\ call[c].id \in Ids \cup {0}
    BY Fields
  <2> QED BY <2>1 DEF CallOK
<1>3. TypeOK'
  <2>1. sent' \subseteq Lines
    BY <1>2 DEF TypeOK, Lines
  <2>2. /\ call' \in [Calls ->
             [pc : {"idle", "registered", "written", "waiting", "returned"},
              id : Ids \cup {0}, cancelled : BOOLEAN,
              outcome : {"none", "answered", "cancelled", "failed"},
              answer : Calls \cup {NoCall}]]
        /\ chan' \in [Calls -> [open : BOOLEAN, buffer : Seq(Calls \cup {NoCall})]]
    BY DEF TypeOK
  <2> QED BY <2>1, <2>2 DEF TypeOK
<1>4. Begun' = Begun
  BY <1>1 DEF Begun
<1>5. sent \subseteq sent' /\ \A d \in Calls : d # c => (Sent(d)' <=> Sent(d))
  BY <1>1 DEF Sent
<1>6. ASSUME NEW d \in Calls PROVE CallOK(d)' /\ AnswerOK(d)'
  <2>1. CallOK(d) /\ AnswerOK(d)
    OBVIOUS
  <2>2. /\ (Awaited(d)' <=> Awaited(d)) /\ (Delivering(d)' <=> Delivering(d))
        /\ (Sent(d) => Sent(d)') /\ (Asked(d)' <=> Asked(d))
    BY <1>1, <1>5 DEF Awaited, Delivering, Sent, Asked
  <2>3. CASE d = c
    <3>1. CallOK(d)'
      <4>1. new.outcome = "answered" => Got(d, new.answer)
        BY <2>3 DEF Got, Asked
      <4> QED BY <1>1, <2>1, <2>2, <2>3, <4>1 DEF CallOK, Got
    <3>2. /\ ch.buffer = chan[d].buffer \/ ch.buffer = <<>>
          /\ call'[d] = new /\ chan'[d] = ch
          /\ new.outcome = "answered" => ~Awaited(d) /\ ~Delivering(d)
      BY <1>1, <2>3 DEF Awaited, Delivering
    <3>3. \/ ch.buffer = <<>>
          \/ ~Awaited(d)' /\ \E of \in {d, NoCall} : ch.buffer = <<of>> /\ Comes(d, of)'
      BY <2>1, <2>2, <3>2 DEF AnswerOK, Comes, Got
    <3>4. Delivering(d)' => /\ Comes(d, reader.of)' /\ ~Awaited(d)'
                            /\ ch.buffer = <<>> /\ new.outcome # "answered"
      BY <2>1, <2>2, <3>2 DEF AnswerOK, Comes, Got
    <3>5. new.outcome = "answered" => ~Awaited(d)'
      BY <2>2, <3>2
    <3>6. AnswerOK(d)'
      BY <3>2, <3>3, <3>4, <3>5 DEF AnswerOK, Comes, Got
    <3> QED BY <3>1, <3>6
  <2>4. CASE d # c
    <3>1. call'[d] = call[d] /\ chan'[d] = chan[d]
      BY <1>1, <2>4
    <3> QED BY <2>1, <2>2, <3>1 DEF CallOK, AnswerOK, Comes, Got
  <2> QED BY <2>3, <2>4
<1>7. IdsOK'
  BY <1>1 DEF IdsOK
<1>8. SentOK'
  <2> SUFFICES ASSUME NEW line \in sent'
               PROVE  /\ line.of \in Calls /\ line.id = call'[line.of].id
                      /\ call'[line.of].pc \in {"written", "waiting", "returned"}
                      /\ call'[line.of].outcome # "failed"
    BY DEF SentOK
  <2>1. line.of \in Calls /\ line.id = call[line.of].id
    BY DEF SentOK
  <2>2. CASE line.of = c
    <3>1. line = [id |-> line.id, of |-> line.of]
      BY <1>3 DEF TypeOK, Lines
    <3>2. Sent(c)'
      BY <1>1, <2>1, <2>2, <3>1 DEF Sent
    <3> QED BY <1>1, <2>1, <2>2, <3>2
  <2>3. CASE line.of # c
    BY <1>1, <2>1, <2>3 DEF SentOK
  <2> QED BY <2>2, <2>3
<1>9. LinesOK'
  BY <1>5 DEF LinesOK
<1>10. PendingOK'
  BY <1>1 DEF PendingOK, TypeOK
<1> QED BY <1>3, <1>4, <1>6, <1>7, <1>8, <1>9, <1>10

\* A request that is not written yet is not with the server.
LEMMA NotSent ==
  ASSUME McpInv, NEW c \in Calls, call[c].pc \in {"idle", "registered"}
  PROVE  ~Sent(c)
<1>1. [id |-> call[c].id, of |-> c].of = c
  OBVIOUS
<1> QED BY <1>1 DEF Sent, McpInv, SentOK

\* Write, the return from it, and a cancellation.
LEMMA GoesOnKeeps ==
  ASSUME McpInv, ~panicked, NEW c \in Calls, Write(c) \/ WriteReturns(c) \/ Cancel(c)
  PROVE  McpInv'
<1>1. /\ TypeOK /\ CallOK(c) /\ AnswerOK(c)
      /\ call[c] \in [pc : {"idle", "registered", "written", "waiting", "returned"},
                      id : Ids \cup {0}, cancelled : BOOLEAN,
                      outcome : {"none", "answered", "cancelled", "failed"},
                      answer : Calls \cup {NoCall}]
      /\ chan[c] \in [open : BOOLEAN, buffer : Seq(Calls \cup {NoCall})]
  BY Fields DEF McpInv
<1>2. chan' = chan /\ chan = [chan EXCEPT ![c] = chan[c]]
  BY <1>1 DEF Write, WriteReturns, Cancel, TypeOK
<1>3. CASE Write(c)
  <2> DEFINE new == [call[c] EXCEPT !.pc = "written"]
  <2>1. call' = [call EXCEPT ![c] = new] /\ call[c].pc = "registered"
    BY <1>3 DEF Write
  <2>2. /\ new \in [pc : {"idle", "registered", "written", "waiting", "returned"},
                    id : Ids \cup {0}, cancelled : BOOLEAN,
                    outcome : {"none", "answered", "cancelled", "failed"},
                    answer : Calls \cup {NoCall}]
        /\ new.pc = "written" /\ new.id = call[c].id /\ new.outcome = call[c].outcome
    BY <1>1
  <2> HIDE DEF new
  <2>3. /\ UNCHANGED <<pending, nextID, stdout, reader, exited, closed, panicked, full>>
        /\ sent' = sent \cup {[id |-> call[c].id, of |-> c]}
    BY <1>3 DEF Write
  <2>4. new.outcome = "none" /\ chan[c].open
    BY <1>1, <2>1, <2>2 DEF CallOK
  <2>5. chan' = [chan EXCEPT ![c] = chan[c]]
    BY <1>2
  <2> QED BY <1>1, <2>1, <2>2, <2>3, <2>4, <2>5, CallerKeeps
<1>4. CASE WriteReturns(c)
  <2> DEFINE new == [call[c] EXCEPT !.pc = "waiting"]
  <2>1. call' = [call EXCEPT ![c] = new] /\ call[c].pc = "written"
    BY <1>4 DEF WriteReturns
  <2>2. /\ new \in [pc : {"idle", "registered", "written", "waiting", "returned"},
                    id : Ids \cup {0}, cancelled : BOOLEAN,
                    outcome : {"none", "answered", "cancelled", "failed"},
                    answer : Calls \cup {NoCall}]
        /\ new.pc = "waiting" /\ new.id = call[c].id /\ new.outcome = call[c].outcome
    BY <1>1
  <2> HIDE DEF new
  <2>3. UNCHANGED <<pending, nextID, stdout, reader, exited, closed, panicked, full>> /\ sent' = sent
    BY <1>4 DEF WriteReturns
  <2>4. new.outcome = "none" /\ chan[c].open
    BY <1>1, <2>1, <2>2 DEF CallOK
  <2>5. chan' = [chan EXCEPT ![c] = chan[c]]
    BY <1>2
  <2> QED BY <1>1, <2>1, <2>2, <2>3, <2>4, <2>5, CallerKeeps
<1>5. CASE Cancel(c)
  <2> DEFINE new == [call[c] EXCEPT !.cancelled = TRUE]
  <2>1. call' = [call EXCEPT ![c] = new] /\ call[c].pc \in {"registered", "written", "waiting"}
    BY <1>5 DEF Cancel
  <2>2. /\ new \in [pc : {"idle", "registered", "written", "waiting", "returned"},
                    id : Ids \cup {0}, cancelled : BOOLEAN,
                    outcome : {"none", "answered", "cancelled", "failed"},
                    answer : Calls \cup {NoCall}]
        /\ new.pc = call[c].pc /\ new.id = call[c].id /\ new.outcome = call[c].outcome
    BY <1>1
  <2> HIDE DEF new
  <2>3. UNCHANGED <<pending, nextID, stdout, reader, exited, closed, panicked, full>> /\ sent' = sent
    BY <1>5 DEF Cancel
  <2>4. new.outcome = "none" /\ chan[c].open
    BY <1>1, <2>1, <2>2 DEF CallOK
  <2>5. Sent(c)' => new.pc \in {"written", "waiting", "returned"}
    <3>1. Sent(c)' <=> Sent(c)
      BY <1>1, <2>1, <2>2, <2>3 DEF Sent, TypeOK
    <3> QED BY <2>1, <2>2, <3>1, NotSent
  <2>6. chan' = [chan EXCEPT ![c] = chan[c]]
    BY <1>2
  <2> QED BY <1>1, <2>1, <2>2, <2>3, <2>4, <2>5, <2>6, CallerKeeps
<1> QED BY <1>3, <1>4, <1>5

\* The returns of sendRequest, with the close of the channel (client.go:163-190).
LEMMA ReturnKeeps ==
  ASSUME McpInv, ~panicked, NEW c \in Calls,
         MarshalFails(c) \/ WriteFails(c) \/ GiveUp(c) \/ Receive(c)
  PROVE  McpInv'
<1>1. /\ TypeOK /\ CallOK(c) /\ AnswerOK(c)
      /\ call[c] \in [pc : {"idle", "registered", "written", "waiting", "returned"},
                      id : Ids \cup {0}, cancelled : BOOLEAN,
                      outcome : {"none", "answered", "cancelled", "failed"},
                      answer : Calls \cup {NoCall}]
      /\ chan[c] \in [open : BOOLEAN, buffer : Seq(Calls \cup {NoCall})]
  BY Fields DEF McpInv
<1>2. PICK outcome \in {"answered", "cancelled", "failed"}, answer \in Calls \cup {NoCall} :
        /\ Returns(c, outcome, answer)
        /\ outcome = "failed" => call[c].pc = "registered"
        /\ outcome = "answered" => chan[c].buffer # <<>> /\ answer = Head(chan[c].buffer)
        /\ call[c].pc \in {"registered", "waiting"}
  <2>1. CASE MarshalFails(c) \/ WriteFails(c)
    BY <2>1 DEF MarshalFails, WriteFails
  <2>2. CASE GiveUp(c)
    BY <2>2 DEF GiveUp
  <2>3. CASE Receive(c)
    <3>1. chan[c].buffer # <<>> /\ Head(chan[c].buffer) \in Calls \cup {NoCall} /\ call[c].pc = "waiting"
      BY <1>1, <2>3 DEF Receive
    <3> QED BY <2>3, <3>1 DEF Receive
  <2> QED BY <2>1, <2>2, <2>3
<1>3. UNCHANGED <<pending, nextID, sent, stdout, reader, exited, closed, panicked, full>>
  BY DEF MarshalFails, WriteFails, GiveUp, Receive
<1> DEFINE new == [call[c] EXCEPT !.pc = "returned", !.outcome = outcome, !.answer = answer]
           ch  == [open |-> FALSE, buffer |-> <<>>]
<1>4. call' = [call EXCEPT ![c] = new] /\ chan' = [chan EXCEPT ![c] = ch]
  BY <1>2 DEF Returns
<1>5. /\ new \in [pc : {"idle", "registered", "written", "waiting", "returned"},
                  id : Ids \cup {0}, cancelled : BOOLEAN,
                  outcome : {"none", "answered", "cancelled", "failed"},
                  answer : Calls \cup {NoCall}]
      /\ new.pc = "returned" /\ new.id = call[c].id /\ new.outcome = outcome
      /\ new.answer = answer
  BY <1>1
<1>6. ch \in [open : BOOLEAN, buffer : Seq(Calls \cup {NoCall})] /\ ~ch.open /\ ch.buffer = <<>>
  <2>1. <<>> \in Seq(Calls \cup {NoCall})
    OBVIOUS
  <2> QED BY <2>1
<1> HIDE DEF new, ch
<1>7. outcome = "answered" => Got(c, answer) /\ ~Awaited(c) /\ ~Delivering(c)
  <2> SUFFICES ASSUME outcome = "answered" PROVE Got(c, answer) /\ ~Awaited(c) /\ ~Delivering(c)
    OBVIOUS
  <2>1. chan[c].buffer # <<>> /\ answer = Head(chan[c].buffer)
    BY <1>2
  <2>2. PICK of \in {c, NoCall} : chan[c].buffer = <<of>> /\ Comes(c, of) /\ ~Awaited(c)
    BY <1>1, <2>1 DEF AnswerOK
  <2>3. ~Delivering(c) /\ answer = of
    BY <1>1, <2>1, <2>2 DEF AnswerOK
  <2> QED BY <2>2, <2>3 DEF Comes
<1>8. outcome = "failed" => ~Sent(c)'
  <2>1. Sent(c)' <=> Sent(c)
    BY <1>1, <1>3, <1>4, <1>5 DEF Sent, TypeOK
  <2> QED BY <1>2, <2>1, NotSent
<1> QED BY <1>2, <1>3, <1>4, <1>5, <1>6, <1>7, <1>8, CallerKeeps

\* A call takes the next id, and enters pending with it (client.go:160-170).
LEMMA RegisterKeeps ==
  ASSUME McpInv, ~panicked, NEW c \in Calls, Register(c)
  PROVE  McpInv'
<1> DEFINE n   == nextID + 1
           new == [call[c] EXCEPT !.pc = "registered", !.id = n]
<1>1. /\ TypeOK /\ CallOK(c) /\ AnswerOK(c) /\ call[c].pc = "idle"
      /\ call[c] \in [pc : {"idle", "registered", "written", "waiting", "returned"},
                      id : Ids \cup {0}, cancelled : BOOLEAN,
                      outcome : {"none", "answered", "cancelled", "failed"},
                      answer : Calls \cup {NoCall}]
      /\ chan[c] \in [open : BOOLEAN, buffer : Seq(Calls \cup {NoCall})] /\ nextID \in Nat
  BY Fields DEF McpInv, Register, TypeOK
<1>2. /\ nextID' = n /\ pending' = [pending EXCEPT ![n] = c] /\ call' = [call EXCEPT ![c] = new]
      /\ UNCHANGED <<chan, sent, stdout, reader, exited, closed, panicked, full>>
  BY DEF Register
<1>3. /\ c \notin Begun /\ Begun \cup {c} \subseteq Calls
      /\ IsFiniteSet(Begun) /\ nextID = Cardinality(Begun)
  BY <1>1, EnoughIds DEF Begun, McpInv
<1>4. Cardinality(Begun \cup {c}) = n /\ n \in Ids
  <2>1. Cardinality(Begun \cup {c}) = n
    BY <1>3, FS_AddElement
  <2>2. Cardinality(Begun \cup {c}) <= Cardinality(Calls) /\ Cardinality(Calls) \in Nat
    BY <1>3, FS_Subset, ClientAssumption, EnoughIds
  <2>3. n \in 1 .. Cardinality(Calls)
    BY <1>1, <2>1, <2>2
  <2> QED BY <2>1, <2>3 DEF Ids
<1>5. /\ new \in [pc : {"idle", "registered", "written", "waiting", "returned"},
                  id : Ids \cup {0}, cancelled : BOOLEAN,
                  outcome : {"none", "answered", "cancelled", "failed"},
                  answer : Calls \cup {NoCall}]
      /\ new.pc = "registered" /\ new.id = n /\ new.outcome = call[c].outcome
  BY <1>1, <1>4
<1> HIDE DEF new
<1>6. call'[c] = new /\ \A d \in Calls : d # c => call'[d] = call[d]
  BY <1>1, <1>2 DEF TypeOK
<1>7. /\ pending'[n] = c /\ \A id \in Ids : id # n => pending'[id] = pending[id]
      /\ pending' \in [Ids -> Calls \cup {NoCall}]
  BY <1>1, <1>2, <1>4 DEF TypeOK
<1>8. /\ n \in Nat /\ n > nextID /\ n # 0
      /\ \A i \in 0 .. nextID : i \in 0 .. n /\ i # n
  BY <1>1
<1> HIDE DEF n
<1>9. \A d \in Calls : d # c => call[d].id \in 0 .. nextID /\ call[d].id # n
  BY <1>8 DEF McpInv, CallOK
<1>10. TypeOK'
  BY <1>1, <1>2, <1>5, <1>7, <1>8 DEF TypeOK
<1>11. nextID' = Cardinality(Begun')
  <2>1. Begun' = Begun \cup {c}
    BY <1>5, <1>6 DEF Begun
  <2> QED BY <1>2, <1>4, <2>1
<1>12. ~Sent(c) /\ \A line \in sent : line.of # c
  BY <1>1, NotSent DEF McpInv, SentOK
<1>13. ASSUME NEW d \in Calls PROVE CallOK(d)' /\ AnswerOK(d)'
  <2>1. CallOK(d) /\ AnswerOK(d)
    BY DEF McpInv
  <2>2. CASE d = c
    <3>0. ~Asked(c)
      BY <1>1 DEF Asked, Ids, CallOK
    <3>1. chan[c].buffer = <<>> /\ ~Delivering(c) /\ call[c].outcome = "none" /\ chan[c].open
      BY <1>1, <1>12, <3>0, ClientAssumption DEF AnswerOK, CallOK, Comes, Got
    <3>2. ~Delivering(c)'
      BY <1>2, <3>1 DEF Delivering
    <3>3. n \in 0 .. nextID'
      BY <1>2, <1>8
    <3> QED BY <1>2, <1>5, <1>6, <1>8, <2>2, <3>1, <3>2, <3>3 DEF CallOK, AnswerOK
  <2>3. CASE d # c
    <3>1. call'[d] = call[d] /\ call[d].id \in 0 .. nextID'
      BY <1>2, <1>6, <1>8, <1>9, <2>3
    <3>2. /\ (Delivering(d)' <=> Delivering(d)) /\ reader' = reader
          /\ \A of : (Got(d, of)' <=> Got(d, of)) /\ (Comes(d, of)' <=> Comes(d, of))
      BY <1>2, <3>1 DEF Sent, Delivering, Asked, Got, Comes
    <3>3. Awaited(d)' <=> Awaited(d)
      BY <1>7, <1>9, <2>3, <3>1 DEF Awaited
    <3> QED BY <1>2, <2>1, <3>1, <3>2, <3>3 DEF CallOK, AnswerOK
  <2> QED BY <2>2, <2>3
<1>14. IdsOK'
  <2> SUFFICES ASSUME NEW d \in Calls, NEW e \in Calls, call'[d].id = call'[e].id,
                      call'[d].id # 0, d # e
               PROVE  FALSE
    BY DEF IdsOK
  <2>1. d # c /\ e # c
    BY <1>5, <1>6, <1>9
  <2> QED BY <1>6, <2>1 DEF McpInv, IdsOK
<1>15. SentOK' /\ LinesOK'
  BY <1>2, <1>6, <1>12 DEF McpInv, SentOK, LinesOK, OwnRequests
<1>16. PendingOK'
  <2> SUFFICES ASSUME NEW id \in Ids, pending'[id] # NoCall PROVE call'[pending'[id]].id = id
    BY DEF PendingOK
  <2>1. CASE id = n
    BY <1>5, <1>6, <1>7, <2>1
  <2>2. CASE id # n
    <3>1. pending'[id] = pending[id] /\ pending[id] \in Calls /\ call[pending[id]].id = id
      BY <1>1, <1>7, <2>2 DEF McpInv, PendingOK, TypeOK
    <3>2. pending[id] # c
      <4>1. call[c].id = 0 /\ 0 \notin Ids
        BY <1>1 DEF CallOK, Ids
      <4> QED BY <3>1, <4>1
    <3> QED BY <1>6, <3>1, <3>2
  <2> QED BY <2>1, <2>2
<1>17. ~panicked'
  BY <1>2
<1> QED BY <1>10, <1>11, <1>13, <1>14, <1>15, <1>16, <1>17 DEF McpInv

-----------------------------------------------------------------------------
(* The steps of readLoop, the owner and the server *)

\* What does not touch the calls, their channels and what is pending: reading a
\* line that answers nothing, the end of the output, and what owner and server do.
LEMMA OutsideKeeps ==
  ASSUME McpInv, ~panicked, UNCHANGED <<call, chan, pending, nextID, sent, panicked>>,
         stdout' \in Seq(Lines), LinesOK',
         reader' = reader \/ (reader.at = "scan" /\ \E at \in {"scan", "ended"} :
                                                      reader' = [reader EXCEPT !.at = at]),
         full' \in BOOLEAN, exited' \in BOOLEAN, closed' \in BOOLEAN
  PROVE  McpInv'
<1> USE DEF McpInv
<1>1. /\ \/ reader' \in [at : {"scan", "ended"}, chan : {NoCall}, of : {NoCall}]
         \/ reader' \in [at : {"deliver"}, chan : Calls, of : Calls \cup {NoCall}]
      /\ \A c \in Calls : Delivering(c)' => Delivering(c)
      /\ \A c \in Calls : Delivering(c)' => reader' = reader
  <2>1. CASE reader' = reader
    BY <2>1 DEF TypeOK, Delivering
  <2>2. CASE reader.at = "scan" /\ \E at \in {"scan", "ended"} : reader' = [reader EXCEPT !.at = at]
    <3>1. reader \in [at : {"scan", "ended"}, chan : {NoCall}, of : {NoCall}]
      BY <2>2 DEF TypeOK
    <3>2. reader' \in [at : {"scan", "ended"}, chan : {NoCall}, of : {NoCall}]
      BY <2>2, <3>1
    <3> QED BY <3>2 DEF Delivering
  <2> QED BY <2>1, <2>2
<1>2. TypeOK'
  BY <1>1 DEF TypeOK
<1>3. ASSUME NEW c \in Calls PROVE CallOK(c)' /\ AnswerOK(c)'
  <2>1. CallOK(c) /\ AnswerOK(c)
    OBVIOUS
  <2>2. /\ (Awaited(c)' <=> Awaited(c))
        /\ \A of : (Got(c, of)' <=> Got(c, of)) /\ (Comes(c, of)' <=> Comes(c, of))
    BY DEF Awaited, Sent, Asked, Got, Comes
  <2> QED BY <1>1, <2>1, <2>2 DEF CallOK, AnswerOK
<1>4. Begun' = Begun /\ IdsOK' /\ SentOK' /\ PendingOK'
  BY DEF Begun, IdsOK, SentOK, PendingOK
<1> QED BY <1>2, <1>3, <1>4

\* One line is taken from the output: the request it answers is the one that is
\* pending under its id, or it is the server's own request under that id, and no
\* other line is on its way to that call (client.go:194-220).
LEMMA LineKeeps ==
  ASSUME McpInv, ~panicked, ReadLine
  PROVE  McpInv'
<1> DEFINE line == Head(stdout)
           c    == IF line.id = 0 THEN NoCall ELSE pending[line.id]
<1>1. /\ TypeOK /\ reader.at = "scan" /\ stdout # <<>> /\ stdout \in Seq(Lines)
      /\ stdout' = Tail(stdout)
      /\ UNCHANGED <<call, chan, nextID, sent, exited, closed, panicked, full>>
  BY DEF ReadLine, McpInv, TypeOK
<1>2. /\ stdout' \in Seq(Lines) /\ line \in Lines
      /\ line \in sent \cup {Noise} \cup OwnRequests /\ LinesOK'
  <2>1. /\ Tail(stdout) \in Seq(Lines) /\ 1 \in DOMAIN stdout /\ line = stdout[1]
        /\ \A i \in DOMAIN Tail(stdout) : i + 1 \in DOMAIN stdout /\ Tail(stdout)[i] = stdout[i + 1]
    BY <1>1
  <2>2. \A i \in DOMAIN stdout : stdout[i] \in sent \cup {Noise} \cup OwnRequests
    BY DEF McpInv, LinesOK
  <2>3. LinesOK'
    BY <1>1, <2>1, <2>2 DEF LinesOK, OwnRequests
  <2>4. line \in Lines
    BY <1>1
  <2> HIDE DEF line
  <2> QED BY <1>1, <2>1, <2>2, <2>3, <2>4
<1>3. IF closed \/ c = NoCall
        THEN /\ reader' = [reader EXCEPT !.at = IF closed THEN "ended" ELSE "scan"]
             /\ UNCHANGED pending
        ELSE /\ reader' = [at |-> "deliver", chan |-> c, of |-> line.of]
             /\ pending' = [pending EXCEPT ![line.id] = NoCall]
  BY DEF ReadLine
<1> HIDE DEF line
<1>4. CASE closed \/ c = NoCall
  <2>1. \E at \in {"scan", "ended"} : reader' = [reader EXCEPT !.at = at]
    BY <1>3, <1>4
  <2>2. UNCHANGED pending
    BY <1>3, <1>4
  <2>3. full' \in BOOLEAN /\ exited' \in BOOLEAN /\ closed' \in BOOLEAN
    BY <1>1 DEF TypeOK
  <2> QED BY <1>1, <1>2, <2>1, <2>2, <2>3, OutsideKeeps
<1>5. CASE ~(closed \/ c = NoCall)
  <2>1. line.id # 0 /\ c = pending[line.id]
    BY <1>5
  <2>2. line.id \in Ids
    BY <1>2, <2>1 DEF Lines
  <2>3. c \in Calls /\ call[c].id = line.id
    BY <1>1, <1>5, <2>1, <2>2 DEF TypeOK, McpInv, PendingOK
  <2>4. Awaited(c) /\ Comes(c, line.of) /\ line.of \in Calls \cup {NoCall}
    <3>1. Awaited(c) /\ line = [id |-> line.id, of |-> line.of]
      BY <1>2, <2>1, <2>2, <2>3 DEF Awaited, Lines
    <3>2. CASE line \in sent
      <4>1. line.of \in Calls /\ line.id = call[line.of].id
        BY <3>2 DEF McpInv, SentOK
      <4>2. line.of = c
        BY <2>1, <2>3, <4>1 DEF McpInv, IdsOK
      <4>3. line = [id |-> call[c].id, of |-> c]
        BY <2>3, <3>1, <4>2
      <4>4. Sent(c)
        BY <3>2, <4>3 DEF Sent
      <4> QED BY <4>1, <4>2, <4>4, <3>1 DEF Got, Comes
    <3>3. CASE line \in OwnRequests
      <4>1. line.of = NoCall /\ line.id \in Asks \cap Ids
        BY <3>3 DEF OwnRequests
      <4> QED BY <2>3, <3>1, <4>1, ClientAssumption DEF Asked, Got, Comes
    <3>4. line \notin {Noise} /\ line.of \in Calls \cup {NoCall}
      BY <1>2, <2>1 DEF Noise, Lines
    <3> QED BY <1>2, <3>1, <3>2, <3>3, <3>4
  <2>5. chan[c].buffer = <<>> /\ call[c].outcome # "answered"
    BY <2>3, <2>4 DEF McpInv, AnswerOK
  <2>6. /\ reader' = [at |-> "deliver", chan |-> c, of |-> line.of]
        /\ pending' = [pending EXCEPT ![line.id] = NoCall]
    BY <1>3, <1>5
  <2>7. call[c].id = line.id
    BY <2>3
  <2> HIDE DEF c
  <2>8. /\ pending' \in [Ids -> Calls \cup {NoCall}] /\ pending'[line.id] = NoCall
        /\ \A id \in Ids : id # line.id => pending'[id] = pending[id]
    BY <1>1, <2>2, <2>6 DEF TypeOK
  <2>9. reader'.at = "deliver" /\ reader'.chan = c /\ reader'.of = line.of
        /\ reader' \in [at : {"deliver"}, chan : Calls, of : Calls \cup {NoCall}]
    BY <2>3, <2>4, <2>6
  <2>10. TypeOK'
    BY <1>1, <1>2, <2>8, <2>9 DEF TypeOK
  <2>11. ASSUME NEW d \in Calls PROVE CallOK(d)' /\ AnswerOK(d)'
    <3>1. CallOK(d) /\ AnswerOK(d)
      BY DEF McpInv
    <3>2. \A of : (Got(d, of)' <=> Got(d, of)) /\ (Comes(d, of)' <=> Comes(d, of))
      BY <1>1 DEF Sent, Asked, Got, Comes
    <3>5. CallOK(d)'
      BY <1>1, <3>1, <3>2 DEF CallOK
    <3>3. CASE d = c
      <4>1. ~Awaited(d)'
        BY <1>1, <2>7, <2>8, <3>3, ClientAssumption DEF Awaited
      <4> QED BY <1>1, <2>4, <2>5, <2>9, <3>1, <3>2, <3>3, <3>5, <4>1 DEF AnswerOK
    <3>4. CASE d # c
      <4>1. ~Delivering(d)'
        BY <2>9, <3>4 DEF Delivering
      <4>2. Awaited(d)' => Awaited(d)
        BY <1>1, <2>8, ClientAssumption DEF Awaited
      <4> QED BY <1>1, <3>1, <3>2, <3>5, <4>1, <4>2 DEF AnswerOK
    <3> QED BY <3>3, <3>4
  <2>12. Begun' = Begun /\ IdsOK' /\ SentOK'
    BY <1>1 DEF McpInv, Begun, IdsOK, SentOK
  <2>13. PendingOK'
    BY <1>1, <2>8 DEF McpInv, PendingOK
  <2> QED BY <1>1, <1>2, <2>10, <2>11, <2>12, <2>13 DEF McpInv
<1> QED BY <1>4, <1>5

\* The send of readLoop (client.go:220).
LEMMA DeliverKeeps ==
  ASSUME McpInv, ~panicked, Deliver
  PROVE  McpInv'
<1> DEFINE c == reader.chan
<1>1. /\ TypeOK /\ reader.at = "deliver" /\ c \in Calls /\ Delivering(c)
      /\ UNCHANGED <<call, pending, nextID, sent, stdout, exited, closed, full>>
      /\ CallOK(c) /\ AnswerOK(c)
  <2>1. TypeOK /\ reader.at = "deliver" /\ c \in Calls
    BY DEF McpInv, Deliver, TypeOK
  <2> QED BY <2>1 DEF McpInv, Deliver, Delivering
<1>2. CASE ~chan[c].open /\ panicked' = TRUE /\ UNCHANGED <<chan, reader, full>>
  <2>1. TypeOK'
    BY <1>1, <1>2 DEF TypeOK
  <2>2. ASSUME NEW d \in Calls PROVE CallOK(d)' /\ AnswerOK(d)'
    <3>1. CallOK(d) /\ AnswerOK(d)
      BY DEF McpInv
    <3>2. /\ (Awaited(d)' <=> Awaited(d)) /\ (Delivering(d)' <=> Delivering(d))
          /\ \A of : (Got(d, of)' <=> Got(d, of)) /\ (Comes(d, of)' <=> Comes(d, of))
      BY <1>1, <1>2 DEF Awaited, Delivering, Sent, Asked, Got, Comes
    <3> QED BY <1>1, <1>2, <3>1, <3>2 DEF CallOK, AnswerOK
  <2>3. Begun' = Begun /\ IdsOK' /\ SentOK' /\ LinesOK' /\ PendingOK'
    BY <1>1 DEF McpInv, Begun, IdsOK, SentOK, LinesOK, OwnRequests, PendingOK
  <2> QED BY <1>1, <1>2, <2>1, <2>2, <2>3 DEF McpInv
<1>3. CASE /\ chan[c].open /\ chan[c].buffer = <<>>
           /\ chan' = [chan EXCEPT ![c].buffer = <<reader.of>>]
           /\ reader' = Idle /\ UNCHANGED panicked
  <2> DEFINE of == reader.of
  <2>1. /\ of \in {c, NoCall} /\ Comes(c, of) /\ ~Awaited(c) /\ call[c].outcome # "answered"
        /\ of \in Calls \cup {NoCall}
    BY <1>1 DEF AnswerOK, Comes, Got, TypeOK
  <2> HIDE DEF c
  <2>2. chan[c] \in [open : BOOLEAN, buffer : Seq(Calls \cup {NoCall})] /\ <<of>> \in Seq(Calls \cup {NoCall})
    BY <1>1, <2>1, Fields
  <2> DEFINE ch == [chan[c] EXCEPT !.buffer = <<of>>]
  <2>3. chan' = [chan EXCEPT ![c] = ch]
    BY <1>3
  <2>4. /\ ch \in [open : BOOLEAN, buffer : Seq(Calls \cup {NoCall})] /\ ch.open = chan[c].open
        /\ ch.buffer = <<of>>
    BY <2>2
  <2> HIDE DEF ch, of
  <2>5. /\ chan' \in [Calls -> [open : BOOLEAN, buffer : Seq(Calls \cup {NoCall})]] /\ chan'[c] = ch
        /\ \A d \in Calls : d # c => chan'[d] = chan[d]
    BY <1>1, <2>3, <2>4 DEF TypeOK
  <2>6. /\ reader' \in [at : {"scan", "ended"}, chan : {NoCall}, of : {NoCall}]
        /\ \A d \in Calls : ~Delivering(d)'
    BY <1>3 DEF Idle, Delivering
  <2>7. TypeOK'
    BY <1>1, <1>3, <2>5, <2>6 DEF TypeOK
  <2>8. ASSUME NEW d \in Calls PROVE CallOK(d)' /\ AnswerOK(d)'
    <3>1. CallOK(d) /\ AnswerOK(d)
      BY DEF McpInv
    <3>2. /\ (Awaited(d)' <=> Awaited(d))
          /\ \A o : (Got(d, o)' <=> Got(d, o)) /\ (Comes(d, o)' <=> Comes(d, o))
      BY <1>1 DEF Awaited, Sent, Asked, Got, Comes
    <3>3. CASE d = c
      BY <1>1, <2>1, <2>4, <2>5, <2>6, <3>1, <3>2, <3>3 DEF CallOK, AnswerOK
    <3>4. CASE d # c
      BY <1>1, <2>5, <2>6, <3>1, <3>2, <3>4 DEF CallOK, AnswerOK
    <3> QED BY <3>3, <3>4
  <2>9. Begun' = Begun /\ IdsOK' /\ SentOK' /\ LinesOK' /\ PendingOK'
    BY <1>1 DEF McpInv, Begun, IdsOK, SentOK, LinesOK, OwnRequests, PendingOK
  <2> QED BY <1>1, <1>3, <2>7, <2>8, <2>9 DEF McpInv
<1> QED BY <1>2, <1>3 DEF Deliver

\* The end of the output, Close, and what the server does.
LEMMA EnvironmentKeeps ==
  ASSUME McpInv, ~panicked,
         ScanEnds \/ Close \/ ServerWrites \/ ServerAsks \/ ServerExits \/ ServerStopsReading
  PROVE  McpInv'
<1>1. UNCHANGED <<call, chan, pending, nextID, sent, panicked>>
  BY DEF ScanEnds, Close, ServerWrites, ServerAsks, ServerExits, ServerStopsReading
<1>2. full' \in BOOLEAN /\ exited' \in BOOLEAN /\ closed' \in BOOLEAN
  BY DEF McpInv, TypeOK, ScanEnds, Close, ServerWrites, ServerAsks, ServerExits, ServerStopsReading
<1>3. reader' = reader \/ (reader.at = "scan" /\ \E at \in {"scan", "ended"} :
                                                   reader' = [reader EXCEPT !.at = at])
  BY DEF ScanEnds, Close, ServerWrites, ServerAsks, ServerExits, ServerStopsReading
<1>4. stdout' \in Seq(Lines) /\ LinesOK'
  <2>1. CASE ServerWrites \/ ServerAsks
    <3>1. PICK line \in sent \cup {Noise} \cup OwnRequests : stdout' = Append(stdout, line)
      BY <2>1 DEF ServerWrites, ServerAsks, OwnRequests
    <3>2. line \in Lines /\ stdout \in Seq(Lines)
      BY DEF McpInv, TypeOK, Noise, OwnRequests, Lines
    <3>3. /\ stdout' \in Seq(Lines)
          /\ \A i \in DOMAIN stdout' : stdout'[i] = line \/ (i \in DOMAIN stdout /\ stdout'[i] = stdout[i])
      BY <3>1, <3>2
    <3> QED BY <1>1, <3>3 DEF McpInv, LinesOK, OwnRequests
  <2>2. CASE ~(ServerWrites \/ ServerAsks)
    <3>1. stdout' = stdout
      BY <2>2 DEF ScanEnds, Close, ServerExits, ServerStopsReading
    <3> QED BY <1>1, <3>1 DEF McpInv, TypeOK, LinesOK, OwnRequests
  <2> QED BY <2>1, <2>2
<1> QED BY <1>1, <1>2, <1>3, <1>4, OutsideKeeps

\* Every step keeps the invariant.
LEMMA NextMcpInv == McpInv /\ [Next]_vars => McpInv'
<1> SUFFICES ASSUME McpInv, [Next]_vars PROVE McpInv'
  OBVIOUS
<1>1. CASE UNCHANGED vars
  <2>1. /\ UNCHANGED <<call, chan, pending, nextID, sent, panicked>>
        /\ UNCHANGED <<stdout, reader, full, exited, closed>>
    BY <1>1 DEF vars
  <2>2. TypeOK' /\ IdsOK' /\ SentOK' /\ LinesOK' /\ PendingOK' /\ Begun' = Begun
    BY <2>1 DEF McpInv, TypeOK, IdsOK, SentOK, LinesOK, OwnRequests, PendingOK, Begun
  <2>3. \A c \in Calls : CallOK(c)' /\ AnswerOK(c)'
    BY <2>1 DEF McpInv, CallOK, AnswerOK, Awaited, Delivering, Sent, Asked, Got, Comes
  <2> QED BY <2>1, <2>2, <2>3 DEF McpInv
<1>2. CASE Next
  <2>1. ~panicked
    BY <1>2 DEF Next
  <2>2. ASSUME NEW c \in Calls, Register(c) \/ MarshalFails(c) \/ CallerStep(c) \/ Cancel(c)
        PROVE  McpInv'
    BY <2>1, <2>2, RegisterKeeps, ReturnKeeps, GoesOnKeeps DEF CallerStep
  <2>3. CASE ReaderStep
    BY <2>1, <2>3, LineKeeps, DeliverKeeps, EnvironmentKeeps DEF ReaderStep
  <2>4. CASE Close \/ ServerWrites \/ ServerAsks \/ ServerExits \/ ServerStopsReading
    BY <2>1, <2>4, EnvironmentKeeps
  <2> QED BY <1>2, <2>2, <2>3, <2>4 DEF Next
<1> QED BY <1>1, <1>2

\* McpInv holds in every reachable state.
THEOREM McpInvariance == Spec => []McpInv
BY InitMcpInv, NextMcpInv, PTL DEF Spec

-----------------------------------------------------------------------------
(* The theorems *)

\* A call returns its own answer, or a request the server made under the id of the
\* call, and never the answer of another: for any number of calls, whatever ids the
\* server asks under, and in whatever order it answers, repeats itself and asks
\* (client.go:163-170, 203-220).
THEOREM NoAnswerOfAnother == Spec => []AnswersMatch
<1>1. McpInv => AnswersMatch
  BY DEF McpInv, CallOK, Asked, Got, AnswersMatch
<1> QED BY <1>1, McpInvariance, PTL

\* readLoop always finds room in the channel, or a channel that is closed: the one
\* place is enough, because an entry leaves pending with the first line to it
\* (client.go:165, 213-220).
THEOREM RoomInTheChannel == Spec => []ReaderNeverBlocks
<1>1. McpInv => ReaderNeverBlocks
  <2> SUFFICES ASSUME McpInv, reader.at = "deliver"
               PROVE  reader.chan # NoCall /\ chan[reader.chan].buffer = <<>>
    BY DEF ReaderNeverBlocks
  <2>1. reader.chan \in Calls
    BY DEF McpInv, TypeOK
  <2>2. AnswerOK(reader.chan) /\ Delivering(reader.chan)
    BY <2>1 DEF McpInv, Delivering
  <2> QED BY <2>1, <2>2, ClientAssumption DEF AnswerOK
<1> QED BY <1>1, McpInvariance, PTL

\* What ends the process is a line for a call that was given up: the answer to one
\* that was cancelled, or a request of the server under the id of one that was
\* cancelled or could not be sent.  No repetition does, and nothing that comes to a
\* call with its answer (client.go:163-183, 214-220).
THEOREM PanicNeedsAbandonedCall == Spec => []PanicsOnlyOnAbandonedCalls
<1>1. McpInv => PanicsOnlyOnAbandonedCalls
  <2> DEFINE c == reader.chan
  <2> SUFFICES ASSUME McpInv, panicked
               PROVE  \/ call[c].outcome = "cancelled" /\ reader.of = c
                      \/ /\ call[c].outcome \in {"cancelled", "failed"}
                         /\ reader.of = NoCall /\ call[c].id \in Asks
    BY DEF PanicsOnlyOnAbandonedCalls
  <2>1. c \in Calls /\ Delivering(c) /\ ~chan[c].open
    BY DEF McpInv, TypeOK, Delivering
  <2>2. CallOK(c) /\ AnswerOK(c)
    BY <2>1 DEF McpInv
  <2>3. Comes(c, reader.of) /\ call[c].outcome # "answered"
    BY <2>1, <2>2 DEF AnswerOK
  <2>4. call[c].outcome # "none"
    BY <2>1, <2>2 DEF CallOK
  <2>5. Sent(c) => call[c].outcome # "failed"
    <3>1. [id |-> call[c].id, of |-> c].of = c
      OBVIOUS
    <3> QED BY <3>1 DEF McpInv, SentOK, Sent
  <2>6. call[c].outcome \in {"none", "answered", "cancelled", "failed"}
    BY <2>1, Fields DEF McpInv
  <2> QED BY <2>3, <2>4, <2>5, <2>6 DEF Comes, Got, Asked
<1> QED BY <1>1, McpInvariance, PTL

-----------------------------------------------------------------------------
(* Part two: tool routing.  The inductive invariant *)

\* What a listing has made so far: each name goes to a server of the run.
IsIndex(index) ==
  DOMAIN index \subseteq Names /\ \A n \in DOMAIN index : index[n] \in ServerSet

TurnType ==
  [pc : {"listing", "listed", "ready", "asked", "mcp", "called", "failed", "unknown"},
   todo : Seq(ServerSet), index : UNION {[D -> ServerSet] : D \in SUBSET Names},
   offered : SUBSET Names, call : Names, to : Providers]

IndexTypes ==
  /\ offers \in [ServerSet -> SUBSET Names] /\ withShell \in BOOLEAN
  /\ IsIndex(inner)
  /\ turn \in [Turns -> TurnType]
  /\ changed \subseteq Names

\* A server has the tool now, and no server got or lost it.
Offered(n) == n \notin changed /\ \E s \in ServerSet : n \in offers[s]

\* A listing knows every unchanged tool of the servers that have answered it.
ListingInv ==
  \A t \in Turns : LET u == turn[t] IN
    /\ u.pc = "listed" =>
         u.todo = <<>> /\ \A n \in DOMAIN u.index : ~Reserved(n)
    /\ \A n \in DOMAIN u.index \ changed : n \in offers[u.index[n]]
    /\ \A s \in ServerSet : \A n \in offers[s] \ changed :
         n \in DOMAIN u.index \/ \E k \in DOMAIN u.todo : u.todo[k] = s

\* A turn is offered the shell, if there is one, and tools of the servers under
\* names that are not reserved.
OfferedInv ==
  \A t \in Turns : \A n \in turn[t].offered :
    \/ n = Shell /\ withShell
    \/ ~Reserved(n) /\ (n \in changed \/ Offered(n))

\* Once one listing has succeeded the indexes have every unchanged tool, whatever
\* listings follow.
InnerInv ==
  /\ \A n \in DOMAIN inner \ changed : n \in offers[inner[n]]
  /\ \A n : Offered(n) =>
       \/ n \in DOMAIN inner
       \/ \A t \in Turns : turn[t].pc # "listed" /\ n \notin turn[t].offered

OuterInv ==
  /\ \A n \in DOMAIN outer : outer[n] = ShellProvider <=> n = Shell
  /\ withShell => \A n : n = Shell \/ Offered(n) =>
       \/ n \in DOMAIN outer
       \/ \A t \in Turns : n \notin turn[t].offered

\* A call that is made is made of somebody.
CalledInv == \A t \in Turns : turn[t].pc = "called" => turn[t].to # Nobody

IndexInv ==
  /\ IndexTypes /\ CalledInv /\ ListingInv /\ OfferedInv /\ InnerInv /\ OuterInv
  /\ OfferedToolsRouted /\ ShellStaysOurs

-----------------------------------------------------------------------------
(* What the steps do to a turn and to the indexes *)

LEMMA WithIs ==
  ASSUME NEW index, NEW names, NEW provider
  PROVE  /\ DOMAIN With(index, names, provider) = DOMAIN index \cup names
         /\ \A n \in DOMAIN index : With(index, names, provider)[n] = index[n]
         /\ \A n \in names \ DOMAIN index : With(index, names, provider)[n] = provider
BY DEF With

LEMMA EmptyIndex == DOMAIN NoIndex = {} /\ NoIndex \in [{} -> ServerSet]
BY DEF NoIndex

LEMMA NewTurnTyped == NewTurn \in TurnType
<1>1. NoIndex \in UNION {[D -> ServerSet] : D \in SUBSET Names}
  BY EmptyIndex
<1> QED BY <1>1, IndexAssumption DEF NewTurn, TurnType, Providers

Turned(t) ==
  /\ turn' \in [Turns -> TurnType]
  /\ \A x \in Turns \ {t} : turn'[x] = turn[x]
  /\ UNCHANGED <<offers, withShell, changed>>

LEMMA SetEffect ==
  ASSUME IndexTypes, NEW t \in Turns, NEW u \in TurnType, Set(t, u),
         UNCHANGED <<offers, withShell, changed>>
  PROVE  Turned(t) /\ turn'[t] = u
BY DEF IndexTypes, Set, Turned

\* The turn goes on without a new listing.
Keeps(t) ==
  /\ Turned(t) /\ UNCHANGED <<inner, outer>>
  /\ turn'[t].todo = turn[t].todo /\ turn'[t].index = turn[t].index
  /\ turn'[t].offered = turn[t].offered
  /\ turn'[t].pc # "listed"

Lists(t) ==
  LET u == turn[t] IN
  /\ Turned(t) /\ UNCHANGED <<inner, outer>>
  /\ u.pc = "listing" /\ turn'[t].pc = "listing"
  /\ u.todo # <<>> /\ u.todo[1] \in ServerSet /\ turn'[t].todo = Tail(u.todo)
  /\ turn'[t].index = With(u.index, offers[u.todo[1]], u.todo[1])
  /\ turn'[t].offered = u.offered

SetsInner(t) ==
  LET u == turn[t] IN
  /\ Turned(t) /\ UNCHANGED outer /\ inner' = u.index
  /\ u.pc = "listing" /\ u.todo = <<>>
  /\ turn'[t].todo = u.todo /\ turn'[t].index = u.index /\ turn'[t].offered = u.offered
  /\ \/ turn'[t].pc = "failed"
     \/ turn'[t].pc = "listed" /\ \A n \in DOMAIN u.index : ~Reserved(n)

\* The names the model is offered, and what a MultiClient above makes of them.
SetsOuter(t) ==
  LET u     == turn[t]
      names == DOMAIN u.index \cup (IF withShell THEN {Shell} ELSE {}) IN
  /\ Turned(t) /\ UNCHANGED inner
  /\ u.pc = "listed" /\ turn'[t].pc = "ready"
  /\ turn'[t].todo = u.todo /\ turn'[t].index = u.index
  /\ turn'[t].offered = names
  /\ \/ ~withShell /\ UNCHANGED outer
     \/ /\ withShell /\ DOMAIN outer' = names /\ outer'[Shell] = ShellProvider
        /\ \A n \in DOMAIN outer' \ {Shell} : outer'[n] = McpProvider

Renews(t) == Turned(t) /\ UNCHANGED <<inner, outer>> /\ turn'[t] = NewTurn

\* A turn that is neither about to call nor at the end of a call.
Silent(t) == turn'[t].pc \notin {"called", "unknown"}

Stages == {"listing", "listed", "ready", "asked", "mcp", "called", "failed", "unknown"}

LEMMA PcOnly ==
  ASSUME IndexTypes, NEW t \in Turns, NEW pc \in Stages,
         Set(t, [turn[t] EXCEPT !.pc = pc]), UNCHANGED <<offers, withShell, changed>>
  PROVE  /\ Turned(t)
         /\ turn'[t].pc = pc /\ turn'[t].todo = turn[t].todo
         /\ turn'[t].index = turn[t].index /\ turn'[t].offered = turn[t].offered
         /\ turn'[t].call = turn[t].call /\ turn'[t].to = turn[t].to
<1> DEFINE u == turn[t]
           d == [u EXCEPT !.pc = pc]
<1>1. u \in TurnType
  BY DEF IndexTypes
<1>2. /\ d \in TurnType /\ d.pc = pc /\ d.todo = u.todo /\ d.index = u.index
      /\ d.offered = u.offered /\ d.call = u.call /\ d.to = u.to
  BY <1>1 DEF TurnType, Stages
<1> HIDE DEF d
<1>3. Turned(t) /\ turn'[t] = d
  BY <1>2, SetEffect DEF d
<1> QED BY <1>2, <1>3

LEMMA ListServerEffect ==
  ASSUME IndexTypes, NEW t \in Turns, ListServer(t)
  PROVE  (Lists(t) \/ Keeps(t)) /\ Silent(t)
<1> DEFINE u == turn[t]
           s == u.todo[1]
           index == With(u.index, offers[s], s)
<1>1. u \in TurnType /\ u.pc = "listing" /\ u.todo # <<>>
  BY DEF IndexTypes, ListServer
<1>2. u.todo \in Seq(ServerSet) /\ u.index \in UNION {[D -> ServerSet] : D \in SUBSET Names}
  BY <1>1 DEF TurnType
<1>3. Head(u.todo) = s /\ s \in ServerSet /\ Tail(u.todo) \in Seq(ServerSet)
  BY <1>1, <1>2
<1>4. UNCHANGED <<offers, withShell, inner, outer, changed>>
  BY DEF ListServer
<1>5. CASE offers[s] \cap DOMAIN u.index # {}
  <2>1. Set(t, [u EXCEPT !.pc = "failed"])
    BY <1>3, <1>5 DEF ListServer
  <2> QED BY <1>1, <1>4, <2>1, PcOnly DEF Keeps, Silent, Stages
<1>6. CASE offers[s] \cap DOMAIN u.index = {}
  <2>1. Set(t, [u EXCEPT !.todo = Tail(@), !.index = With(@, offers[s], s)])
    BY <1>3, <1>6 DEF ListServer
  <2>2. index \in UNION {[D -> ServerSet] : D \in SUBSET Names}
    <3>1. PICK D \in SUBSET Names : u.index \in [D -> ServerSet]
      BY <1>2
    <3>2. offers[s] \subseteq Names
      BY <1>3 DEF IndexTypes
    <3>3. index \in [D \cup offers[s] -> ServerSet] /\ D \cup offers[s] \in SUBSET Names
      BY <1>3, <3>1, <3>2 DEF With
    <3> QED BY <3>3
  <2> DEFINE d == [u EXCEPT !.todo = Tail(u.todo), !.index = index]
  <2>3. Set(t, d)
    BY <1>1, <2>1 DEF TurnType
  <2> HIDE DEF index
  <2>4. /\ d \in TurnType /\ d.pc = "listing" /\ d.todo = Tail(u.todo) /\ d.index = index
        /\ d.offered = u.offered
    BY <1>1, <1>3, <2>2 DEF TurnType
  <2> HIDE DEF d
  <2>5. Turned(t) /\ turn'[t] = d
    BY <1>4, <2>3, <2>4, SetEffect
  <2> QED BY <1>1, <1>3, <1>4, <2>4, <2>5 DEF Lists, Silent, index
<1> QED BY <1>5, <1>6

LEMMA ListFailsEffect ==
  ASSUME IndexTypes, NEW t \in Turns, ListFails(t)
  PROVE  Keeps(t) /\ Silent(t)
<1>1. turn[t] \in TurnType
  BY DEF IndexTypes
<1> QED BY <1>1, PcOnly DEF ListFails, Keeps, Silent, Stages

LEMMA SetInnerEffect ==
  ASSUME IndexTypes, NEW t \in Turns, SetInner(t)
  PROVE  SetsInner(t) /\ Silent(t)
<1> DEFINE u == turn[t]
           pc == IF \E n \in DOMAIN u.index : Reserved(n) THEN "failed" ELSE "listed"
<1>1. u \in TurnType
  BY DEF IndexTypes
<1>2. Set(t, [u EXCEPT !.pc = pc]) /\ UNCHANGED <<offers, withShell, changed>>
  BY DEF SetInner
<1>3. pc \in {"failed", "listed"} /\ (pc = "listed" => \A n \in DOMAIN u.index : ~Reserved(n))
  OBVIOUS
<1> HIDE DEF pc
<1>4. /\ Turned(t) /\ turn'[t].pc = pc /\ turn'[t].todo = u.todo
      /\ turn'[t].index = u.index /\ turn'[t].offered = u.offered
  BY <1>2, <1>3, PcOnly DEF Stages
<1> QED BY <1>3, <1>4 DEF SetInner, SetsInner, Silent

LEMMA SetOuterEffect ==
  ASSUME IndexTypes, NEW t \in Turns, SetOuter(t)
  PROVE  SetsOuter(t) /\ Silent(t)
<1> DEFINE u     == turn[t]
           names == DOMAIN u.index \cup (IF withShell THEN {Shell} ELSE {})
           own   == IF withShell THEN With(NoIndex, {Shell}, ShellProvider) ELSE NoIndex
           all   == With(own, DOMAIN u.index, McpProvider)
<1>1. u \in TurnType /\ withShell \in BOOLEAN
  BY DEF IndexTypes
<1>2. /\ DOMAIN own = IF withShell THEN {Shell} ELSE {}
      /\ withShell => own[Shell] = ShellProvider
  BY EmptyIndex DEF With
<1>3. /\ DOMAIN all = DOMAIN own \cup DOMAIN u.index
      /\ \A n \in DOMAIN own : all[n] = own[n]
      /\ \A n \in DOMAIN u.index \ DOMAIN own : all[n] = McpProvider
  <2> HIDE DEF own
  <2> QED BY DEF With
<1>4. /\ Set(t, [u EXCEPT !.pc = "ready", !.offered = DOMAIN all])
      /\ outer' = (IF withShell THEN all ELSE outer) /\ u.pc = "listed"
      /\ UNCHANGED <<offers, withShell, inner, changed>>
  BY DEF SetOuter
<1> HIDE DEF own, all
<1>5. DOMAIN all = names
  BY <1>2, <1>3
<1>6. DOMAIN all \subseteq Names
  <2>1. u.index \in UNION {[D -> ServerSet] : D \in SUBSET Names}
    BY <1>1 DEF TurnType
  <2>2. DOMAIN u.index \subseteq Names
    BY <2>1
  <2> QED BY <1>5, <2>2, IndexAssumption
<1> DEFINE d == [u EXCEPT !.pc = "ready", !.offered = DOMAIN all]
<1>7. /\ d \in TurnType /\ d.pc = "ready" /\ d.todo = u.todo /\ d.index = u.index
      /\ d.offered = DOMAIN all
  BY <1>1, <1>6 DEF TurnType
<1>8. Set(t, d)
  BY <1>4
<1> HIDE DEF d
<1>9. Turned(t) /\ turn'[t] = d
  BY <1>4, <1>7, <1>8, SetEffect
<1>10. withShell =>
         /\ DOMAIN outer' = names /\ outer'[Shell] = ShellProvider
         /\ \A n \in DOMAIN outer' \ {Shell} : outer'[n] = McpProvider
  BY <1>2, <1>3, <1>4, <1>5
<1> HIDE DEF names
<1>11. ~withShell => UNCHANGED outer
  BY <1>4
<1> QED BY <1>1, <1>4, <1>5, <1>7, <1>9, <1>10, <1>11 DEF SetsOuter, Silent, names

LEMMA AskEffect ==
  ASSUME IndexTypes, NEW t \in Turns, Ask(t)
  PROVE  Keeps(t) /\ Silent(t)
<1>1. PICK n \in Names : Set(t, [turn[t] EXCEPT !.pc = "asked", !.call = n, !.to = Nobody])
  BY DEF Ask
<1> DEFINE u == turn[t]
           d == [u EXCEPT !.pc = "asked", !.call = n, !.to = Nobody]
<1>2. u \in TurnType
  BY DEF IndexTypes
<1>3. /\ d \in TurnType /\ d.pc = "asked" /\ d.todo = u.todo /\ d.index = u.index
      /\ d.offered = u.offered
  BY <1>2 DEF TurnType, Providers
<1> HIDE DEF d
<1>4. Turned(t) /\ turn'[t] = d
  BY <1>1, <1>3, SetEffect DEF Ask, d
<1> QED BY <1>3, <1>4 DEF Ask, Keeps, Silent

\* The provider p is asked to run the tool.
Reaches(t, p) ==
  turn'[t].pc = "called" /\ turn'[t].call = turn[t].call /\ turn'[t].to = p

Unknown(t) == turn'[t].pc = "unknown" /\ turn'[t].call = turn[t].call

LEMMA ReachEffect ==
  ASSUME IndexTypes, NEW t \in Turns, NEW p \in Providers,
         Set(t, [turn[t] EXCEPT !.pc = "called", !.to = p]),
         UNCHANGED <<offers, withShell, inner, outer, changed>>
  PROVE  Keeps(t) /\ Reaches(t, p)
<1> DEFINE u == turn[t]
           d == [u EXCEPT !.pc = "called", !.to = p]
<1>1. u \in TurnType
  BY DEF IndexTypes
<1>2. /\ d \in TurnType /\ d.pc = "called" /\ d.todo = u.todo /\ d.index = u.index
      /\ d.offered = u.offered /\ d.call = u.call /\ d.to = p
  BY <1>1 DEF TurnType
<1> HIDE DEF d
<1>3. Turned(t) /\ turn'[t] = d
  BY <1>2, SetEffect DEF d
<1> QED BY <1>2, <1>3 DEF Keeps, Reaches

LEMMA ThroughOuterEffect ==
  ASSUME IndexTypes, NEW t \in Turns, ThroughOuter(t)
  PROVE  LET n == turn[t].call IN
         /\ Keeps(t) /\ turn[t].pc = "asked"
         /\ \/ withShell /\ n \notin DOMAIN outer /\ Unknown(t)
            \/ /\ withShell /\ n \in DOMAIN outer /\ outer[n] = ShellProvider
               /\ Reaches(t, ShellProvider)
            \/ turn'[t].pc = "mcp" /\ turn'[t].call = n
<1> DEFINE u == turn[t]
           n == u.call
<1>1. u \in TurnType
  BY DEF IndexTypes
<1>2. UNCHANGED <<offers, withShell, inner, outer, changed>> /\ u.pc = "asked"
  BY DEF ThroughOuter
<1>3. CASE withShell /\ n \notin DOMAIN outer
  <2>1. Set(t, [u EXCEPT !.pc = "unknown"])
    BY <1>3 DEF ThroughOuter
  <2>2. Keeps(t) /\ Unknown(t)
    BY <1>1, <1>2, <2>1, PcOnly DEF Keeps, Unknown, Stages
  <2> QED BY <1>2, <1>3, <2>2
<1>4. CASE withShell /\ n \in DOMAIN outer /\ outer[n] = ShellProvider
  <2>1. Set(t, [u EXCEPT !.pc = "called", !.to = ShellProvider])
    BY <1>4 DEF ThroughOuter
  <2>2. ShellProvider \in Providers
    BY DEF Providers
  <2>3. Keeps(t) /\ Reaches(t, ShellProvider)
    BY <1>2, <2>1, <2>2, ReachEffect
  <2> QED BY <1>2, <1>4, <2>3
<1>5. CASE ~withShell \/ (n \in DOMAIN outer /\ outer[n] # ShellProvider)
  <2>1. Set(t, [u EXCEPT !.pc = "mcp"])
    BY <1>5 DEF ThroughOuter
  <2>2. Keeps(t) /\ turn'[t].pc = "mcp" /\ turn'[t].call = n
    BY <1>1, <1>2, <2>1, PcOnly DEF Keeps, Stages
  <2> QED BY <1>2, <2>2
<1> QED BY <1>3, <1>4, <1>5

LEMMA ThroughInnerEffect ==
  ASSUME IndexTypes, NEW t \in Turns, ThroughInner(t)
  PROVE  LET n == turn[t].call IN
         /\ Keeps(t) /\ turn[t].pc = "mcp"
         /\ \/ Silent(t)
            \/ ~Reserved(n) /\ n \notin DOMAIN inner /\ Unknown(t)
            \/ ~Reserved(n) /\ n \in DOMAIN inner /\ Reaches(t, inner[n])
<1> DEFINE u == turn[t]
           n == u.call
<1>1. u \in TurnType
  BY DEF IndexTypes
<1>2. UNCHANGED <<offers, withShell, inner, outer, changed>> /\ u.pc = "mcp"
  BY DEF ThroughInner
<1>3. CASE Reserved(n)
  <2>1. Set(t, [u EXCEPT !.pc = "failed"])
    BY <1>3 DEF ThroughInner
  <2>2. Keeps(t) /\ Silent(t)
    BY <1>1, <1>2, <2>1, PcOnly DEF Keeps, Silent, Stages
  <2> QED BY <1>2, <2>2
<1>4. CASE ~Reserved(n) /\ n \notin DOMAIN inner
  <2>1. Set(t, [u EXCEPT !.pc = "unknown"])
    BY <1>4 DEF ThroughInner
  <2>2. Keeps(t) /\ Unknown(t)
    BY <1>1, <1>2, <2>1, PcOnly DEF Keeps, Unknown, Stages
  <2> QED BY <1>2, <1>4, <2>2
<1>5. CASE ~Reserved(n) /\ n \in DOMAIN inner
  <2>1. Set(t, [u EXCEPT !.pc = "called", !.to = inner[n]])
    BY <1>5 DEF ThroughInner
  <2>2. inner[n] \in Providers
    BY <1>5 DEF Providers, IndexTypes, IsIndex
  <2>3. Keeps(t) /\ Reaches(t, inner[n])
    BY <1>2, <2>1, <2>2, ReachEffect
  <2> QED BY <1>2, <1>5, <2>3
<1> QED BY <1>3, <1>4, <1>5

LEMMA CalledEffect ==
  ASSUME IndexTypes, NEW t \in Turns, Called(t)
  PROVE  Keeps(t) /\ Silent(t)
<1>1. turn[t] \in TurnType
  BY DEF IndexTypes
<1>2. PICK pc \in {"ready", "failed"} : Set(t, [turn[t] EXCEPT !.pc = pc])
  BY DEF Called
<1> QED BY <1>1, <1>2, PcOnly DEF Called, Keeps, Silent, Stages

LEMMA NextTurnEffect ==
  ASSUME IndexTypes, NEW t \in Turns, NextTurn(t)
  PROVE  Renews(t) /\ Silent(t)
BY NewTurnTyped, SetEffect DEF NextTurn, Renews, Silent, NewTurn

\* All that a step of a turn may do to the indexes.
LEMMA TurnSteps ==
  ASSUME IndexTypes, [IndexNext]_indexVars
  PROVE  \/ \E t \in Turns :
              Keeps(t) \/ Lists(t) \/ SetsInner(t) \/ SetsOuter(t) \/ Renews(t)
         \/ Change
         \/ UNCHANGED indexVars
BY ListServerEffect, ListFailsEffect, SetInnerEffect, SetOuterEffect, AskEffect,
   ThroughOuterEffect, ThroughInnerEffect, CalledEffect, NextTurnEffect DEF IndexNext

\* All that a step may do to the call of a turn.
LEMMA CallSteps ==
  ASSUME IndexTypes, [IndexNext]_indexVars, NEW t \in Turns,
         turn'[t].pc \in {"called", "unknown"}
  PROVE  \/ turn'[t] = turn[t]
         \/ ThroughOuter(t)
         \/ ThroughInner(t)
<1>1. ASSUME NEW x \in Turns,
             \/ ListServer(x) \/ ListFails(x) \/ SetInner(x) \/ SetOuter(x)
             \/ Ask(x) \/ Called(x) \/ NextTurn(x)
      PROVE  turn'[t] = turn[t]
  <2>1. Turned(x) /\ Silent(x)
    BY <1>1, ListServerEffect, ListFailsEffect, SetInnerEffect, SetOuterEffect, AskEffect,
       CalledEffect, NextTurnEffect DEF Keeps, Lists, SetsInner, SetsOuter, Renews
  <2>2. x # t
    BY <2>1 DEF Silent
  <2> QED BY <2>1, <2>2 DEF Turned
<1>2. ASSUME NEW x \in Turns, ThroughOuter(x) \/ ThroughInner(x), x # t
      PROVE  turn'[t] = turn[t]
  <2>1. Turned(x)
    BY <1>2, ThroughOuterEffect, ThroughInnerEffect DEF Keeps
  <2> QED BY <1>2, <2>1 DEF Turned
<1>3. ASSUME Change PROVE UNCHANGED turn
  BY <1>3 DEF Change
<1> QED BY <1>1, <1>2, <1>3 DEF IndexNext, indexVars

-----------------------------------------------------------------------------
(* What the steps keep *)

LEMMA IndexOfTurn ==
  ASSUME IndexTypes, NEW t \in Turns
  PROVE  /\ IsIndex(turn[t].index) /\ turn[t].todo \in Seq(ServerSet)
         /\ turn[t].offered \subseteq Names /\ turn[t].call \in Names
<1>1. turn[t] \in TurnType
  BY DEF IndexTypes
<1>2. /\ turn[t].index \in UNION {[D -> ServerSet] : D \in SUBSET Names}
      /\ turn[t].todo \in Seq(ServerSet)
      /\ turn[t].offered \subseteq Names /\ turn[t].call \in Names
  BY <1>1 DEF TurnType
<1> QED BY <1>2 DEF IsIndex

\* A name that changes is one of changed.
LEMMA ChangeEffect ==
  ASSUME IndexTypes, Change
  PROVE  /\ UNCHANGED <<withShell, inner, outer, turn>>
         /\ offers' \in [ServerSet -> SUBSET Names]
         /\ changed \subseteq changed' /\ changed' \subseteq Names
         /\ \A n \in Names \ changed' : \A s \in ServerSet : n \in offers'[s] <=> n \in offers[s]
<1>1. PICK s \in ServerSet, n \in Names :
        /\ offers' = [offers EXCEPT ![s] = IF n \in @ THEN @ \ {n} ELSE @ \cup {n}]
        /\ changed' = changed \cup {n}
  BY DEF Change
<1>2. offers \in [ServerSet -> SUBSET Names] /\ changed \subseteq Names
  BY DEF IndexTypes
<1> QED BY <1>1, <1>2 DEF Change

\* The tools that no server got or lost stay where they are.
LEMMA OffersKeep ==
  ASSUME IndexTypes, [IndexNext]_indexVars
  PROVE  /\ changed \subseteq changed' /\ UNCHANGED withShell
         /\ \A n \in Names \ changed' : \A s \in ServerSet : n \in offers'[s] <=> n \in offers[s]
         /\ offers' \in [ServerSet -> SUBSET Names] /\ changed' \subseteq Names
<1>1. ASSUME NEW t \in Turns,
             Keeps(t) \/ Lists(t) \/ SetsInner(t) \/ SetsOuter(t) \/ Renews(t)
      PROVE  UNCHANGED <<offers, withShell, changed>>
  BY <1>1 DEF Keeps, Lists, SetsInner, SetsOuter, Renews, Turned
<1>2. offers \in [ServerSet -> SUBSET Names] /\ changed \subseteq Names
  BY DEF IndexTypes
<1> QED BY <1>1, <1>2, TurnSteps, ChangeEffect DEF indexVars

LEMMA IndexTypesStay ==
  ASSUME IndexTypes, [IndexNext]_indexVars
  PROVE  IndexTypes'
<1>1. turn' \in [Turns -> TurnType]
  <2>1. ASSUME NEW t \in Turns,
               Keeps(t) \/ Lists(t) \/ SetsInner(t) \/ SetsOuter(t) \/ Renews(t)
        PROVE  turn' \in [Turns -> TurnType]
    BY <2>1 DEF Keeps, Lists, SetsInner, SetsOuter, Renews, Turned
  <2> QED BY <2>1, TurnSteps, ChangeEffect DEF indexVars, IndexTypes
<1>2. IsIndex(inner')
  <2>1. ASSUME NEW t \in Turns, SetsInner(t) PROVE IsIndex(inner')
    BY <2>1, IndexOfTurn DEF SetsInner
  <2>2. IsIndex(inner)
    BY DEF IndexTypes
  <2> QED BY <2>1, <2>2, TurnSteps, ChangeEffect
          DEF Keeps, Lists, SetsOuter, Renews, indexVars
<1>3. withShell \in BOOLEAN
  BY DEF IndexTypes
<1> QED BY <1>1, <1>2, <1>3, OffersKeep DEF IndexTypes, IsIndex, TurnType

LEMMA ListingStays ==
  ASSUME IndexTypes, ListingInv, [IndexNext]_indexVars
  PROVE  ListingInv'
<1> DEFINE Of(u) ==
             /\ u.pc = "listed" => u.todo = <<>> /\ \A n \in DOMAIN u.index : ~Reserved(n)
             /\ \A n \in DOMAIN u.index \ changed' : n \in offers'[u.index[n]]
             /\ \A s \in ServerSet : \A n \in offers'[s] \ changed' :
                  n \in DOMAIN u.index \/ \E k \in DOMAIN u.todo : u.todo[k] = s
<1>1. /\ changed \subseteq changed'
      /\ \A n \in Names \ changed' : \A s \in ServerSet : n \in offers'[s] <=> n \in offers[s]
      /\ \A s \in ServerSet : offers'[s] \subseteq Names
  BY OffersKeep
<1>2. ASSUME NEW t \in Turns PROVE Of(turn[t])
  <2> DEFINE u == turn[t]
  <2>1. /\ u.pc = "listed" => u.todo = <<>> /\ \A n \in DOMAIN u.index : ~Reserved(n)
        /\ \A n \in DOMAIN u.index \ changed : n \in offers[u.index[n]]
        /\ \A s \in ServerSet : \A n \in offers[s] \ changed :
             n \in DOMAIN u.index \/ \E k \in DOMAIN u.todo : u.todo[k] = s
    BY DEF ListingInv
  <2>2. IsIndex(u.index)
    BY IndexOfTurn
  <2> HIDE DEF u
  <2>3. \A n \in DOMAIN u.index \ changed' : n \in offers'[u.index[n]]
    BY <1>1, <2>1, <2>2 DEF IsIndex
  <2>4. \A s \in ServerSet : \A n \in offers'[s] \ changed' :
          n \in DOMAIN u.index \/ \E k \in DOMAIN u.todo : u.todo[k] = s
    BY <1>1, <2>1
  <2> QED BY <2>1, <2>3, <2>4 DEF u
<1>3. ASSUME NEW t \in Turns, Keeps(t) PROVE Of(turn'[t])
  BY <1>2, <1>3 DEF Keeps
<1>4. ASSUME NEW t \in Turns, Lists(t) PROVE Of(turn'[t])
  <2> DEFINE u == turn[t]
             v == turn'[t]
             s == u.todo[1]
  <2>1. /\ u.todo # <<>> /\ s \in ServerSet /\ v.todo = Tail(u.todo)
        /\ v.index = With(u.index, offers[s], s) /\ v.pc = "listing"
        /\ UNCHANGED <<offers, changed>>
    BY <1>4 DEF Lists, Turned
  <2>2. u.todo \in Seq(ServerSet)
    BY IndexOfTurn
  <2>3. Of(u)
    BY <1>2
  <2> HIDE DEF u, v, s
  <2>4. /\ DOMAIN v.index = DOMAIN u.index \cup offers[s]
        /\ \A n \in DOMAIN u.index : v.index[n] = u.index[n]
        /\ \A n \in offers[s] \ DOMAIN u.index : v.index[n] = s
    BY <2>1 DEF With
  <2>5. \A n \in DOMAIN v.index \ changed' : n \in offers'[v.index[n]]
    BY <2>1, <2>3, <2>4
  <2>6. ASSUME NEW x \in ServerSet, NEW n \in offers'[x] \ changed', n \notin DOMAIN v.index
        PROVE  \E k \in DOMAIN v.todo : v.todo[k] = x
    <3>1. PICK k \in DOMAIN u.todo : u.todo[k] = x
      BY <2>3, <2>4, <2>6
    <3>2. k # 1
      BY <2>1, <2>4, <2>6, <3>1 DEF s
    <3>3. k - 1 \in DOMAIN v.todo /\ v.todo[k - 1] = x
      BY <2>1, <2>2, <3>1, <3>2
    <3> QED BY <3>3
  <2>7. Of(v)
    BY <2>1, <2>5, <2>6
  <2> QED BY <2>7 DEF v
<1>5. ASSUME NEW t \in Turns, SetsInner(t) PROVE Of(turn'[t])
  BY <1>2, <1>5 DEF SetsInner
<1>6. ASSUME NEW t \in Turns, SetsOuter(t) PROVE Of(turn'[t])
  BY <1>2, <1>6 DEF SetsOuter
<1>7. Of(NewTurn)
  <2>1. \A s \in ServerSet : \E k \in DOMAIN Servers : Servers[k] = s
    BY DEF ServerSet
  <2>2. /\ NewTurn.pc = "listing" /\ DOMAIN NewTurn.index = {}
        /\ NewTurn.todo = Servers
    BY EmptyIndex DEF NewTurn
  <2> QED BY <2>1, <2>2
<1>8. ASSUME NEW t \in Turns, NEW x \in Turns,
             Keeps(x) \/ Lists(x) \/ SetsInner(x) \/ SetsOuter(x) \/ Renews(x)
      PROVE  Of(turn'[t])
  <2>1. CASE t = x
    BY <1>3, <1>4, <1>5, <1>6, <1>7, <1>8, <2>1 DEF Renews
  <2>2. CASE t # x
    <3>1. turn'[t] = turn[t]
      BY <1>8, <2>2 DEF Keeps, Lists, SetsInner, SetsOuter, Renews, Turned
    <3> QED BY <1>2, <3>1
  <2> QED BY <2>1, <2>2
<1>9. ASSUME NEW t \in Turns PROVE Of(turn'[t])
  BY <1>2, <1>8, TurnSteps, ChangeEffect DEF indexVars
<1> QED BY <1>9 DEF ListingInv

\* A tool that every server kept is offered still.
LEMMA OfferedKeeps ==
  ASSUME IndexTypes, [IndexNext]_indexVars, NEW n
  PROVE  /\ Offered(n)' => Offered(n)
         /\ Offered(n) /\ n \notin changed' => Offered(n)'
<1>1. Offered(n) \/ Offered(n)' => n \in Names
  BY OffersKeep DEF Offered, IndexTypes
<1> QED BY <1>1, OffersKeep DEF Offered

LEMMA OfferedStays ==
  ASSUME IndexTypes, ListingInv, OfferedInv, [IndexNext]_indexVars
  PROVE  OfferedInv'
<1> DEFINE Of(n) == \/ n = Shell /\ withShell'
                    \/ ~Reserved(n) /\ (n \in changed' \/ Offered(n)')
<1>1. ASSUME NEW t \in Turns, NEW n \in turn[t].offered PROVE Of(n)
  BY OffersKeep, OfferedKeeps DEF OfferedInv
<1>2. ASSUME NEW t \in Turns, SetsOuter(t), NEW n \in turn'[t].offered PROVE Of(n)
  <2>1. CASE n = Shell /\ withShell
    BY <2>1, OffersKeep
  <2>2. CASE n \in DOMAIN turn[t].index
    <3>1. ~Reserved(n)
      BY <1>2, <2>2 DEF SetsOuter, ListingInv
    <3>2. n \in changed \/ Offered(n)
      BY <2>2, IndexOfTurn DEF ListingInv, Offered, IsIndex
    <3> QED BY <3>1, <3>2, OffersKeep, OfferedKeeps
  <2> QED BY <1>2, <2>1, <2>2 DEF SetsOuter
<1>3. ASSUME NEW t \in Turns, NEW x \in Turns,
             Keeps(x) \/ Lists(x) \/ SetsInner(x) \/ SetsOuter(x) \/ Renews(x),
             NEW n \in turn'[t].offered
      PROVE  Of(n)
  <2>1. CASE t = x /\ SetsOuter(x)
    BY <1>2, <1>3, <2>1
  <2>2. CASE t # x \/ ~SetsOuter(x)
    <3>1. turn'[t].offered \subseteq turn[t].offered
      BY <1>3, <2>2 DEF Keeps, Lists, SetsInner, SetsOuter, Renews, Turned, NewTurn
    <3> QED BY <1>1, <1>3, <3>1
  <2> QED BY <2>1, <2>2
<1>4. ASSUME NEW t \in Turns, NEW n \in turn'[t].offered PROVE Of(n)
  BY <1>1, <1>3, <1>4, TurnSteps, ChangeEffect DEF indexVars
<1> QED BY <1>4 DEF OfferedInv

\* The listing of a turn that got all its answers has every unchanged tool.
LEMMA ListedAll ==
  ASSUME ListingInv, NEW t \in Turns, turn[t].todo = <<>>, NEW n, Offered(n)
  PROVE  n \in DOMAIN turn[t].index
BY DEF ListingInv, Offered

LEMMA InnerStays ==
  ASSUME IndexTypes, ListingInv, InnerInv, [IndexNext]_indexVars
  PROVE  InnerInv'
<1>1. /\ changed \subseteq changed'
      /\ \A n \in Names \ changed' : \A s \in ServerSet : n \in offers'[s] <=> n \in offers[s]
  BY OffersKeep
<1>2. \A n : Offered(n)' => Offered(n)
  BY OfferedKeeps
<1> DEFINE Goal == InnerInv'
           Has1 == \A n \in DOMAIN inner' \ changed' : n \in offers'[inner'[n]]
           Has2(n) == \/ n \in DOMAIN inner'
                      \/ \A t \in Turns : turn'[t].pc # "listed" /\ n \notin turn'[t].offered
<1>3. ASSUME UNCHANGED inner PROVE Has1
  BY <1>1, <1>3 DEF InnerInv, IndexTypes, IsIndex
<1>4. ASSUME UNCHANGED inner, NEW x \in Turns,
             \A t \in Turns \ {x} : turn'[t] = turn[t],
             \/ /\ turn'[x].pc # "listed"
                /\ \/ turn'[x].offered \subseteq turn[x].offered
                   \/ turn[x].pc = "listed",
             NEW n, Offered(n)
      PROVE  Has2(n)
  <2>1. CASE n \in DOMAIN inner
    BY <1>4, <2>1
  <2>2. CASE n \notin DOMAIN inner
    <3>1. \A t \in Turns : turn[t].pc # "listed" /\ n \notin turn[t].offered
      BY <1>4, <2>2 DEF InnerInv
    <3>2. \A t \in Turns : turn'[t].pc # "listed" /\ n \notin turn'[t].offered
      BY <1>4, <3>1
    <3> QED BY <3>2
  <2> QED BY <2>1, <2>2
<1>5. ASSUME NEW x \in Turns, Keeps(x) \/ Lists(x) \/ SetsOuter(x) \/ Renews(x)
      PROVE  Goal
  <2>1. /\ UNCHANGED inner
        /\ \A t \in Turns \ {x} : turn'[t] = turn[t]
        /\ turn'[x].pc # "listed"
        /\ \/ turn'[x].offered \subseteq turn[x].offered
           \/ turn[x].pc = "listed"
    BY <1>5 DEF Keeps, Lists, SetsOuter, Renews, Turned, NewTurn
  <2>2. Has1 /\ \A n : Offered(n)' => Has2(n)
    BY <1>2, <1>3, <1>4, <2>1
  <2> QED BY <2>2 DEF InnerInv
<1>6. ASSUME NEW x \in Turns, SetsInner(x) PROVE Goal
  <2>1. inner' = turn[x].index /\ turn[x].todo = <<>> /\ UNCHANGED <<offers, changed>>
    BY <1>6 DEF SetsInner, Turned
  <2>2. Has1
    BY <2>1 DEF ListingInv
  <2>3. ASSUME NEW n, Offered(n)' PROVE Has2(n)
    BY <1>2, <2>1, <2>3, ListedAll
  <2> QED BY <2>2, <2>3 DEF InnerInv
<1>7. ASSUME UNCHANGED <<inner, turn>> PROVE Goal
  <2>1. \A n : Offered(n) => Has2(n)
    BY <1>7 DEF InnerInv
  <2> QED BY <1>2, <1>3, <1>7, <2>1 DEF InnerInv
<1> HIDE DEF Goal
<1>8. Goal
  BY <1>5, <1>6, <1>7, TurnSteps, ChangeEffect DEF indexVars
<1> QED BY <1>8 DEF Goal

LEMMA OuterStays ==
  ASSUME IndexTypes, ListingInv, OuterInv, [IndexNext]_indexVars
  PROVE  OuterInv'
<1>1. \A n : Offered(n)' => Offered(n)
  BY OfferedKeeps
<1>2. UNCHANGED withShell
  BY OffersKeep
<1> DEFINE Ours == \A n \in DOMAIN outer' : outer'[n] = ShellProvider <=> n = Shell
           Holds(n) == n \in DOMAIN outer' \/ \A t \in Turns : n \notin turn'[t].offered
<1>3. ASSUME UNCHANGED outer PROVE Ours
  BY <1>3 DEF OuterInv
<1>4. ASSUME UNCHANGED outer,
             \A t \in Turns : turn'[t].offered \subseteq turn[t].offered
      PROVE  OuterInv'
  <2>1. ASSUME withShell, NEW n, n = Shell \/ Offered(n) PROVE Holds(n)
    BY <1>4, <2>1 DEF OuterInv
  <2> QED BY <1>1, <1>2, <1>3, <1>4, <2>1 DEF OuterInv
<1>5. ASSUME NEW x \in Turns, Keeps(x) \/ Lists(x) \/ SetsInner(x) \/ Renews(x)
      PROVE  OuterInv'
  <2>1. UNCHANGED outer /\ \A t \in Turns : turn'[t].offered \subseteq turn[t].offered
    BY <1>5 DEF Keeps, Lists, SetsInner, Renews, Turned, NewTurn
  <2> QED BY <1>4, <2>1
<1>6. ASSUME NEW x \in Turns, SetsOuter(x) PROVE OuterInv'
  <2>1. CASE ~withShell
    <3>1. UNCHANGED outer
      BY <1>6, <2>1 DEF SetsOuter
    <3> QED BY <1>2, <1>3, <2>1, <3>1 DEF OuterInv
  <2>2. CASE withShell
    <3>1. /\ DOMAIN outer' = DOMAIN turn[x].index \cup {Shell}
          /\ outer'[Shell] = ShellProvider
          /\ \A n \in DOMAIN outer' \ {Shell} : outer'[n] = McpProvider
          /\ turn[x].pc = "listed"
      BY <1>6, <2>2 DEF SetsOuter
    <3>2. Ours
      BY <3>1, IndexAssumption
    <3>3. turn[x].todo = <<>>
      BY <3>1 DEF ListingInv
    <3>4. ASSUME NEW n, n = Shell \/ Offered(n) PROVE n \in DOMAIN outer'
      BY <3>1, <3>3, <3>4, ListedAll
    <3> QED BY <1>1, <1>2, <3>2, <3>4 DEF OuterInv
  <2> QED BY <2>1, <2>2
<1>7. ASSUME UNCHANGED <<outer, turn>> PROVE OuterInv'
  BY <1>4, <1>7
<1> QED BY <1>5, <1>6, <1>7, TurnSteps, ChangeEffect DEF indexVars

LEMMA CalledStays ==
  ASSUME IndexTypes, CalledInv, [IndexNext]_indexVars
  PROVE  CalledInv'
<1> SUFFICES ASSUME NEW t \in Turns, turn'[t].pc = "called" PROVE turn'[t].to # Nobody
  BY DEF CalledInv
<1>1. CASE turn'[t] = turn[t]
  BY <1>1 DEF CalledInv
<1>2. CASE ThroughOuter(t)
  BY <1>2, ThroughOuterEffect, IndexAssumption DEF Unknown, Reaches
<1>3. CASE ThroughInner(t)
  BY <1>3, ThroughInnerEffect, IndexAssumption
     DEF Unknown, Reaches, Silent, IndexTypes, IsIndex
<1> QED BY <1>1, <1>2, <1>3, CallSteps

LEMMA RoutedStays ==
  ASSUME IndexTypes, CalledInv, OfferedInv, InnerInv, OuterInv, OfferedToolsRouted,
         [IndexNext]_indexVars
  PROVE  OfferedToolsRouted'
<1> DEFINE HasNow(p, m) == IF p = ShellProvider THEN m = Shell ELSE m \in offers'[p]
<1> SUFFICES ASSUME NEW t \in Turns, turn'[t].call \in turn'[t].offered \ changed'
             PROVE  /\ turn'[t].pc # "unknown"
                    /\ turn'[t].pc = "called" => HasNow(turn'[t].to, turn'[t].call)
  BY DEF OfferedToolsRouted, Has
<1> DEFINE n == turn[t].call
<1>0. /\ changed \subseteq changed' /\ UNCHANGED withShell
      /\ \A m \in Names \ changed' : \A s \in ServerSet : m \in offers'[s] <=> m \in offers[s]
  BY OffersKeep
<1>1. CASE turn'[t] = turn[t]
  <2>1. n \in turn[t].offered \ changed /\ n \notin changed'
    BY <1>0, <1>1
  <2>2. turn[t].pc # "unknown" /\ (turn[t].pc = "called" => Has(turn[t].to, n))
    BY <2>1 DEF OfferedToolsRouted
  <2>3. turn[t].to \in Providers /\ n \in Names
    <3>1. turn[t] \in TurnType
      BY DEF IndexTypes
    <3> QED BY <3>1 DEF TurnType
  <2>4. turn[t].pc = "called" => turn[t].to \in ServerSet \cup {ShellProvider}
    BY <2>3 DEF CalledInv, Providers
  <2> QED BY <1>0, <1>1, <2>1, <2>2, <2>3, <2>4 DEF Has
<1>2. CASE ThroughOuter(t)
  <2>1. Keeps(t)
    BY <1>2, ThroughOuterEffect
  <2>2. ASSUME withShell, n \notin DOMAIN outer, turn'[t].call = n PROVE FALSE
    <3>1. n \in turn[t].offered \ changed
      BY <1>0, <2>1, <2>2 DEF Keeps
    <3>2. n = Shell \/ Offered(n)
      BY <3>1 DEF OfferedInv
    <3> QED BY <2>2, <3>1, <3>2 DEF OuterInv
  <2>3. ASSUME n \in DOMAIN outer, outer[n] = ShellProvider, Reaches(t, ShellProvider)
        PROVE  HasNow(turn'[t].to, turn'[t].call) /\ turn'[t].pc = "called"
    BY <2>3 DEF OuterInv, Reaches
  <2> QED BY <1>2, <2>2, <2>3, ThroughOuterEffect DEF Unknown
<1>3. CASE ThroughInner(t)
  <2>1. Keeps(t)
    BY <1>3, ThroughInnerEffect
  <2>2. ASSUME ~Reserved(n), n \notin DOMAIN inner, turn'[t].call = n PROVE FALSE
    <3>1. n \in turn[t].offered \ changed
      BY <1>0, <2>1, <2>2 DEF Keeps
    <3>2. Offered(n)
      <4>1. Reserved(Shell)
        BY DEF Reserved, Trim
      <4> QED BY <2>2, <3>1, <4>1 DEF OfferedInv
    <3> QED BY <2>2, <3>1, <3>2 DEF InnerInv
  <2>3. ASSUME n \in DOMAIN inner, Reaches(t, inner[n])
        PROVE  HasNow(turn'[t].to, turn'[t].call) /\ turn'[t].pc = "called"
    <3>1. n \in DOMAIN inner \ changed /\ turn'[t].to = inner[n] /\ turn'[t].call = n
          /\ n \notin changed'
      BY <1>0, <2>3 DEF Reaches
    <3>2. n \in offers[inner[n]] /\ inner[n] \in ServerSet /\ n \in Names
      BY <3>1 DEF InnerInv, IndexTypes, IsIndex
    <3>3. n \in offers'[inner[n]]
      BY <1>0, <3>1, <3>2
    <3>4. inner[n] # ShellProvider
      BY <3>2, IndexAssumption
    <3> QED BY <2>3, <3>1, <3>3, <3>4 DEF Reaches
  <2> QED BY <1>3, <2>2, <2>3, ThroughInnerEffect DEF Unknown, Silent
<1> QED BY <1>1, <1>2, <1>3, CallSteps

LEMMA ShellStays ==
  ASSUME IndexTypes, OuterInv, ShellStaysOurs, [IndexNext]_indexVars
  PROVE  ShellStaysOurs'
<1> SUFFICES ASSUME NEW t \in Turns, turn'[t].pc = "called"
             PROVE  Reserved(turn'[t].call) <=> turn'[t].to = ShellProvider
  BY DEF ShellStaysOurs
<1> DEFINE n == turn[t].call
<1>1. CASE turn'[t] = turn[t]
  BY <1>1 DEF ShellStaysOurs
<1>2. CASE ThroughOuter(t)
  <2>1. /\ n \in DOMAIN outer /\ outer[n] = ShellProvider
        /\ turn'[t].call = n /\ turn'[t].to = ShellProvider
    BY <1>2, ThroughOuterEffect DEF Unknown, Reaches
  <2>2. n = Shell
    BY <2>1 DEF OuterInv
  <2> QED BY <2>1, <2>2 DEF Reserved, Trim
<1>3. CASE ThroughInner(t)
  <2>1. /\ ~Reserved(n) /\ n \in DOMAIN inner
        /\ turn'[t].call = n /\ turn'[t].to = inner[n]
    BY <1>3, ThroughInnerEffect DEF Unknown, Reaches, Silent
  <2>2. inner[n] # ShellProvider
    BY <2>1, IndexAssumption DEF IndexTypes, IsIndex
  <2> QED BY <2>1, <2>2
<1> QED BY <1>1, <1>2, <1>3, CallSteps

-----------------------------------------------------------------------------
(* Theorems about tool routing *)

LEMMA IndexInitHolds == IndexInit => IndexInv
<1> SUFFICES ASSUME IndexInit PROVE IndexInv
  OBVIOUS
<1>1. /\ offers \in [ServerSet -> SUBSET Names] /\ withShell \in BOOLEAN
      /\ DOMAIN inner = {} /\ DOMAIN outer = {}
      /\ changed = {} /\ turn \in [Turns -> TurnType]
      /\ \A t \in Turns : turn[t] = NewTurn
  BY NewTurnTyped, EmptyIndex DEF IndexInit
<1>2. /\ NewTurn.pc = "listing" /\ NewTurn.offered = {} /\ NewTurn.todo = Servers
      /\ DOMAIN NewTurn.index = {}
  BY EmptyIndex DEF NewTurn
<1>3. IndexTypes
  BY <1>1 DEF IndexTypes, IsIndex
<1>4. ListingInv
  <2>1. \A s \in ServerSet : \E k \in DOMAIN Servers : Servers[k] = s
    BY DEF ServerSet
  <2> QED BY <1>1, <1>2, <2>1 DEF ListingInv
<1>5. OfferedInv /\ InnerInv /\ OuterInv
  BY <1>1, <1>2 DEF OfferedInv, InnerInv, OuterInv
<1>6. OfferedToolsRouted /\ ShellStaysOurs /\ CalledInv
  BY <1>1, <1>2 DEF OfferedToolsRouted, ShellStaysOurs, CalledInv
<1> QED BY <1>3, <1>4, <1>5, <1>6 DEF IndexInv

\* The inductive invariant of tool routing.
THEOREM IndexInvariant == IndexSpec => []IndexInv
<1>1. IndexInv /\ [IndexNext]_indexVars => IndexInv'
  BY IndexTypesStay, CalledStays, ListingStays, OfferedStays, InnerStays, OuterStays, RoutedStays,
     ShellStays DEF IndexInv
<1> QED BY <1>1, IndexInitHolds, PTL DEF IndexSpec

(***************************************************************************)
(* Whatever other turns list and whether their listings fail, a tool that  *)
(* a turn was offered and no server got or lost reaches the provider that  *)
(* has it (multi.go:18-45).                                                *)
(***************************************************************************)
THEOREM ToolsReachTheirProvider == IndexSpec => []OfferedToolsRouted
<1>1. IndexInv => OfferedToolsRouted
  BY DEF IndexInv
<1> QED BY <1>1, IndexInvariant, PTL

(***************************************************************************)
(* No server gets a call under a name that reads "shell", and the shell    *)
(* none under another (reserved.go:26-45, main.go:286-291).                *)
(***************************************************************************)
THEOREM ShellIsNeverTaken == IndexSpec => []ShellStaysOurs
<1>1. IndexInv => ShellStaysOurs
  BY DEF IndexInv
<1> QED BY <1>1, IndexInvariant, PTL
================================================================================
