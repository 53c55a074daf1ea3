------------------------------ MODULE ServerProofs ------------------------------
(***************************************************************************)
(* Proofs about module Server, for any number of requests and any ids.     *)
(***************************************************************************)
EXTENDS Server, TLAPS

\* Where a request stands says whether its thread was saved and whether it is
\* answered.
StageOf(r) ==
  /\ req[r].outcome # "none" => req[r].pc \in {"answered", "done"}
  /\ req[r].pc = "saved" => req[r].saved
  /\ req[r].saved => req[r].pc \in {"saved", "answered", "done"}
  /\ req[r].pc \in {"running", "saving", "saved", "failed", "answered"} => req[r].kind = "turn"
  /\ req[r].pc = "looked_up" => req[r].kind = "interrupt"
  /\ req[r].pc = "unread" => req[r].kind = "query"

StageInv == \A r \in Requests : StageOf(r)

\* An entry of inFlight is a turn of that id that nobody has interrupted.
EntryInv ==
  \A id \in Ids : inFlight[id] # NoRequest =>
    /\ inFlight[id] \in Turns
    /\ req[inFlight[id]].id = id
    /\ ~req[inFlight[id]].cancelled

\* A turn is cancelled exactly by the one interrupt that found it.
FoundInv ==
  /\ \A r \in Requests : req[r].found # NoRequest =>
       /\ req[r].kind = "interrupt" /\ req[r].pc \in {"looked_up", "done"}
       /\ req[r].found \in Turns
       /\ req[req[r].found].id = req[r].target
       /\ req[req[r].found].cancelled
       /\ \A q \in Requests \ {r} : req[q].found # req[r].found
  /\ \A r \in Requests : req[r].kind = "interrupt" /\ req[r].outcome = "ok" =>
       req[r].found # NoRequest
  /\ \A t \in Requests : req[t].cancelled => \E r \in Requests : req[r].found = t

\* An interrupt that is told "request not found" found nothing.
NotFoundInv ==
  \A r \in Requests : req[r].kind = "interrupt" /\ req[r].outcome = "error" =>
    req[r].found = NoRequest

IInv ==
  /\ TypeOK /\ StageInv /\ AnswersMatchStore /\ EntryInv /\ FoundInv /\ NotFoundInv
  /\ TurnsInterruptible

-----------------------------------------------------------------------------
(* What the steps do to the requests *)

Stages == {"unread", "started", "running", "saving", "saved", "failed", "looked_up",
           "answered", "done"}
Outcomes == {"none", "ok", "error", "unwritten"}
Request == [pc : Stages, kind : Kinds, id : Ids, target : Ids, cancelled : BOOLEAN,
            saved : BOOLEAN, outcome : Outcomes, found : Requests \cup {NoRequest}]

\* r alone changes, and of it neither what was asked nor what was found.
Keeps(r) ==
  /\ req' \in [Requests -> Request]
  /\ \A x \in Requests \ {r} : req'[x] = req[x]
  /\ req'[r].kind = req[r].kind /\ req'[r].id = req[r].id
  /\ req'[r].target = req[r].target
  /\ req'[r].cancelled = req[r].cancelled /\ req'[r].found = req[r].found

\* The requests have the fields that Read and the steps give them.
LEMMA Typed == TypeOK => req \in [Requests -> Request]
BY DEF TypeOK, Request, Stages, Outcomes

\* A step that only moves a request on leaves what it was asked and told.
LEMMA EntersEffect ==
  ASSUME TypeOK, NEW r \in Requests, NEW pc \in Stages, Enters(r, pc)
  PROVE  /\ Keeps(r)
         /\ req'[r].pc = pc
         /\ req'[r].saved = req[r].saved /\ req'[r].outcome = req[r].outcome
<1> DEFINE d == [req[r] EXCEPT !.pc = pc]
<1>1. req[r] \in Request /\ req \in [Requests -> Request]
  BY Typed
<1>2. req' = [req EXCEPT ![r] = d]
  BY DEF Enters
<1>3. d \in Request
  BY <1>1 DEF Request
<1>4. /\ d.pc = pc /\ d.kind = req[r].kind /\ d.id = req[r].id /\ d.target = req[r].target
      /\ d.cancelled = req[r].cancelled /\ d.found = req[r].found
      /\ d.saved = req[r].saved /\ d.outcome = req[r].outcome
  BY <1>1 DEF Request
<1> HIDE DEF d
<1>5. QED
  BY <1>1, <1>2, <1>3, <1>4 DEF Keeps

\* The save of a turn (local.go:94-143).
LEMMA SavesEffect ==
  ASSUME TypeOK, NEW r \in Requests, TurnSaves(r)
  PROVE  /\ Keeps(r)
         /\ req'[r].pc = "saved" /\ req'[r].saved
         /\ req'[r].outcome = req[r].outcome
<1> DEFINE d == [req[r] EXCEPT !.pc = "saved", !.saved = TRUE]
<1>1. req[r] \in Request /\ req \in [Requests -> Request]
  BY Typed
<1>2. req' = [req EXCEPT ![r] = d]
  BY DEF TurnSaves
<1>3. d \in Request
  BY <1>1 DEF Request, Stages
<1>4. /\ d.pc = "saved" /\ d.kind = req[r].kind /\ d.id = req[r].id
      /\ d.target = req[r].target
      /\ d.cancelled = req[r].cancelled /\ d.found = req[r].found
      /\ d.saved /\ d.outcome = req[r].outcome
  BY <1>1 DEF Request
<1> HIDE DEF d
<1>5. QED
  BY <1>1, <1>2, <1>3, <1>4 DEF Keeps

\* writeResponse tells the request that it answers, and nobody else, or fails
\* (server.go:467-493).
LEMMA AnswerEffect ==
  ASSUME TypeOK, NEW r \in Requests, NEW pc \in {"answered", "done"},
         NEW outcome \in {"ok", "error"}, Answer(r, pc, outcome)
  PROVE  /\ Keeps(r)
         /\ req'[r].pc = pc
         /\ req'[r].saved = req[r].saved
         /\ req'[r].outcome \in {outcome, "unwritten"}
         /\ server.output = "open" => req'[r].outcome = outcome
         /\ server' \in [serve : {"reading", "writing", "returned", "exited"},
                         output : {"open", "broken"}, down : BOOLEAN]
<1> DEFINE told == IF server.output = "open" THEN outcome ELSE "unwritten"
           d == [req[r] EXCEPT !.pc = pc, !.outcome = told]
<1>1. req[r] \in Request /\ req \in [Requests -> Request]
  BY Typed
<1>2. req' = [req EXCEPT ![r] = d]
  BY DEF Answer
<1>3. /\ told \in {outcome, "unwritten"} /\ told \in Outcomes
      /\ server.output = "open" => told = outcome
  BY DEF Outcomes
<1> HIDE DEF told
<1>4. d \in Request
  BY <1>1, <1>3 DEF Request, Stages
<1>5. /\ d.pc = pc /\ d.kind = req[r].kind /\ d.id = req[r].id
      /\ d.target = req[r].target
      /\ d.cancelled = req[r].cancelled /\ d.found = req[r].found
      /\ d.saved = req[r].saved /\ d.outcome = told
  BY <1>1 DEF Request
<1>6. server' \in [serve : {"reading", "writing", "returned", "exited"},
                  output : {"open", "broken"}, down : BOOLEAN]
  BY DEF Answer, TypeOK
<1> HIDE DEF d
<1>7. QED
  BY <1>1, <1>2, <1>3, <1>4, <1>5, <1>6 DEF Keeps

\* What a step of a request does to it, but for an interrupt's lookup: neither
\* saves nor tells, or tells, in the stages of a turn and for its answers.
Same(r) == req'[r].saved = req[r].saved /\ req'[r].outcome = req[r].outcome

Told(r) ==
  /\ req'[r].saved = req[r].saved
  /\ req'[r].outcome # "none"
  /\ server.output = "open" => req'[r].outcome # "unwritten"

Runs(r) ==
  \/ req[r].pc = "running" /\ req'[r].pc = "saving" /\ Same(r)
  \/ req[r].pc \in {"running", "saving"} /\ req'[r].pc = "failed" /\ Same(r)
  \/ /\ req[r].pc = "saving" /\ req'[r].pc = "saved"
     /\ req'[r].saved /\ req'[r].outcome = req[r].outcome

Answers(r) ==
  \/ /\ req[r].pc \in {"saved", "failed"} /\ req'[r].pc = "answered"
     /\ req'[r].outcome = "ok" => req[r].pc = "saved"
     /\ req'[r].outcome = "error" => req[r].pc = "failed"
  \/ /\ req[r].pc = "started" /\ req[r].kind \in {"query", "malformed"}
     /\ req'[r].pc = "done"
  \/ /\ req[r].pc = "looked_up" /\ req'[r].pc = "done"
     /\ req'[r].outcome = "ok" => req[r].found # NoRequest
     /\ req'[r].outcome = "error" => req[r].found = NoRequest

Moves(r) ==
  /\ Keeps(r)
  /\ \/ Runs(r) /\ UNCHANGED inFlight
     \/ Told(r) /\ Answers(r) /\ UNCHANGED inFlight
     \/ /\ req[r].pc = "started" /\ req[r].kind = "turn" /\ req'[r].pc = "running"
        /\ Same(r)
        /\ inFlight' = [inFlight EXCEPT ![req[r].id] = r]
     \/ /\ req[r].pc = "answered" /\ req'[r].pc = "done" /\ Same(r)
        /\ inFlight' = [inFlight EXCEPT ![req[r].id] = NoRequest]

\* The goroutine of a request changes only that request and its own entry of
\* inFlight (server.go:200-394).
LEMMA StepEffect ==
  ASSUME TypeOK, NEW r \in Requests, Step(r), ~Interrupt(r)
  PROVE  Moves(r) \/ UNCHANGED <<req, inFlight>>
<1> USE DEF Moves, Same, Told, Runs, Answers
<1>1. CASE AnswerAtOnce(r)
  <2>1. PICK outcome \in {"ok", "error"} : Answer(r, "done", outcome)
    BY <1>1 DEF AnswerAtOnce
  <2>2. QED
    BY <1>1, <2>1, AnswerEffect DEF AnswerAtOnce
<1>2. CASE StoreCancel(r)
  BY <1>2, EntersEffect DEF StoreCancel, Stages
<1>3. CASE PassCheck(r)
  BY <1>3, EntersEffect DEF PassCheck, Stages
<1>4. CASE TurnSaves(r)
  BY <1>4, SavesEffect DEF TurnSaves
<1>5. CASE TurnFails(r)
  BY <1>5, EntersEffect DEF TurnFails, Stages
<1>6. CASE AnswerTurn(r)
  <2> DEFINE told == IF req[r].pc = "saved" THEN "ok" ELSE "error"
  <2>1. Answer(r, "answered", told) /\ told \in {"ok", "error"}
    BY <1>6 DEF AnswerTurn
  <2>2. told = "ok" => req[r].pc = "saved"
    OBVIOUS
  <2>3. told = "error" => req[r].pc = "failed"
    BY <1>6 DEF AnswerTurn
  <2> HIDE DEF told
  <2>4. QED
    BY <1>6, <2>1, <2>2, <2>3, AnswerEffect DEF AnswerTurn
<1>7. CASE RemoveCancel(r)
  BY <1>7, EntersEffect DEF RemoveCancel, Stages
<1>8. CASE AnswerInterrupt(r)
  <2> DEFINE told == IF req[r].found # NoRequest THEN "ok" ELSE "error"
  <2>1. Answer(r, "done", told) /\ told \in {"ok", "error"}
    BY <1>8 DEF AnswerInterrupt
  <2>2. /\ told = "ok" => req[r].found # NoRequest
        /\ told = "error" => req[r].found = NoRequest
    OBVIOUS
  <2> HIDE DEF told
  <2>3. QED
    BY <1>8, <2>1, <2>2, AnswerEffect DEF AnswerInterrupt
<1>9. CASE NotificationFails(r)
  BY <1>9 DEF NotificationFails
<1>10. QED
  BY <1>1, <1>2, <1>3, <1>4, <1>5, <1>6, <1>7, <1>8, <1>9 DEF Step

\* What an interrupt's lookup of t does to the two.
LooksUp(r, t) ==
  /\ t = inFlight[req[r].target]
  /\ t \in Requests \cup {NoRequest}
  /\ req' \in [Requests -> Request]
  /\ t # r
  /\ req[r].pc = "started" /\ req[r].kind = "interrupt"
  /\ req'[r].pc = "looked_up" /\ req'[r].found = t
  /\ req'[r].kind = req[r].kind /\ req'[r].id = req[r].id
  /\ req'[r].target = req[r].target /\ req'[r].cancelled = req[r].cancelled
  /\ Same(r)
  /\ \A x \in Requests \ {r} :
       /\ req'[x].pc = req[x].pc /\ req'[x].found = req[x].found
       /\ req'[x].kind = req[x].kind /\ req'[x].id = req[x].id
       /\ req'[x].target = req[x].target /\ Same(x)
       /\ req'[x].cancelled <=> req[x].cancelled \/ x = t
  /\ inFlight' = [inFlight EXCEPT ![req[r].target] = NoRequest]

\* The lookup, the cancellation and the deletion are one step (server.go:514-524).
LEMMA InterruptEffect ==
  ASSUME TypeOK, EntryInv, NEW r \in Requests, Interrupt(r)
  PROVE  \E t : LooksUp(r, t)
<1> DEFINE t == inFlight[req[r].target]
           d == [req[r] EXCEPT !.pc = "looked_up", !.found = t]
           c == [req[t] EXCEPT !.cancelled = TRUE]
<1>1. req[r] \in Request /\ req \in [Requests -> Request] /\ req[r].target \in Ids
  BY Typed DEF Request
<1>2. t \in Requests \cup {NoRequest}
  BY <1>1 DEF TypeOK
<1>3. req[r].pc = "started" /\ req[r].kind = "interrupt"
  BY DEF Interrupt
<1>4. t # r
  BY <1>1, <1>3 DEF EntryInv, Turns, Requests, NoRequest
<1>5. d \in Request
  BY <1>1, <1>2 DEF Request, Stages
<1>6. /\ d.pc = "looked_up" /\ d.kind = req[r].kind /\ d.id = req[r].id
      /\ d.target = req[r].target /\ d.cancelled = req[r].cancelled
      /\ d.found = t /\ d.saved = req[r].saved /\ d.outcome = req[r].outcome
  BY <1>1 DEF Request
<1>7. t \in Requests =>
        /\ c \in Request
        /\ c.pc = req[t].pc /\ c.kind = req[t].kind /\ c.id = req[t].id
        /\ c.target = req[t].target /\ c.cancelled
        /\ c.found = req[t].found /\ c.saved = req[t].saved /\ c.outcome = req[t].outcome
  BY <1>1 DEF Request
<1>8. req' = [x \in Requests |-> IF x = r THEN d ELSE IF x = t THEN c ELSE req[x]]
  BY DEF Interrupt
<1>9. inFlight' = [inFlight EXCEPT ![req[r].target] = NoRequest]
  BY DEF Interrupt
<1>10. NoRequest \notin Requests
  BY DEF Requests, NoRequest
<1> HIDE DEF d, c
<1>11. req' \in [Requests -> Request]
  BY <1>1, <1>5, <1>7, <1>8
<1>12. req'[r] = d
  BY <1>8
<1>13. ASSUME NEW x \in Requests \ {r}
       PROVE  /\ req'[x].pc = req[x].pc /\ req'[x].found = req[x].found
              /\ req'[x].kind = req[x].kind /\ req'[x].id = req[x].id
              /\ req'[x].target = req[x].target /\ Same(x)
              /\ req'[x].cancelled <=> req[x].cancelled \/ x = t
  <2>1. CASE x = t
    BY <1>7, <1>8, <2>1 DEF Same
  <2>2. CASE x # t
    BY <1>8, <2>2 DEF Same
  <2>3. QED
    BY <2>1, <2>2
<1>14. LooksUp(r, t)
  BY <1>2, <1>3, <1>4, <1>6, <1>9, <1>11, <1>12, <1>13 DEF LooksUp, Same
<1>15. QED
  BY <1>14

\* A line is read.
LEMMA ReadEffect ==
  ASSUME TypeOK, NEW r \in Requests, Read(r)
  PROVE  /\ req' \in [Requests -> Request]
         /\ \A x \in Requests \ {r} : req'[x] = req[x]
         /\ req[r].pc = "unread" /\ req'[r].pc = "started"
         /\ req'[r].cancelled = req[r].cancelled /\ req'[r].found = req[r].found
         /\ req'[r].saved = req[r].saved /\ req'[r].outcome = req[r].outcome
         /\ UNCHANGED inFlight
<1>1. req[r] \in Request /\ req \in [Requests -> Request]
  BY Typed
<1>2. PICK kind \in Kinds, id \in Ids, target \in Ids :
        req' = [req EXCEPT ![r] = [@ EXCEPT !.pc = "started", !.kind = kind,
                                            !.id = id, !.target = target]]
  BY DEF Read
<1> DEFINE d == [req[r] EXCEPT !.pc = "started", !.kind = kind, !.id = id, !.target = target]
<1>3. req' = [req EXCEPT ![r] = d]
  BY <1>2
<1>4. d \in Request
  BY <1>1 DEF Request, Stages
<1>5. /\ d.pc = "started" /\ d.cancelled = req[r].cancelled /\ d.found = req[r].found
      /\ d.saved = req[r].saved /\ d.outcome = req[r].outcome
  BY <1>1 DEF Request
<1> HIDE DEF d
<1>6. QED
  BY <1>1, <1>3, <1>4, <1>5 DEF Read

-----------------------------------------------------------------------------
(* The invariant *)

\* Nothing was read and nothing is in flight when the server starts.
LEMMA InitHolds == Init => IInv
<1> SUFFICES ASSUME Init PROVE IInv
  OBVIOUS
<1>1. (CHOOSE id \in Ids : TRUE) \in Ids
  BY ServerAssumption
<1>2. TypeOK
  BY <1>1 DEF Init, TypeOK, NewRequest, Kinds
<1>3. \A r \in Requests : /\ req[r].pc = "unread" /\ req[r].kind = "query"
                          /\ ~req[r].saved /\ ~req[r].cancelled
                          /\ req[r].outcome = "none" /\ req[r].found = NoRequest
  BY DEF Init, NewRequest
<1>4. \A id \in Ids : inFlight[id] = NoRequest
  BY DEF Init
<1>5. StageInv
  BY <1>3 DEF StageInv, StageOf
<1>6. AnswersMatchStore /\ TurnsInterruptible
  BY <1>3 DEF AnswersMatchStore, TurnsInterruptible, Turns
<1>7. EntryInv /\ FoundInv /\ NotFoundInv
  BY <1>3, <1>4 DEF EntryInv, FoundInv, NotFoundInv
<1>8. QED
  BY <1>2, <1>5, <1>6, <1>7 DEF IInv

\* The cases of a step, for the lemmas below.
LEMMA StepCases ==
  ASSUME [Next]_vars
  PROVE  \/ \E r \in Requests : Read(r)
         \/ \E r \in Requests : Interrupt(r)
         \/ \E r \in Requests : Step(r) /\ ~Interrupt(r)
         \/ UNCHANGED <<req, inFlight>>
BY DEF Next, ServeReturns, Exit, OutputBreaks, vars

\* Types are kept.
LEMMA TypeStep == IInv /\ [Next]_vars => TypeOK'
<1> SUFFICES ASSUME IInv, [Next]_vars PROVE TypeOK'
  OBVIOUS
<1>1. TypeOK /\ EntryInv
  BY DEF IInv
<1>2. req' \in [Requests -> Request]
  BY <1>1, Typed, ReadEffect, InterruptEffect, StepEffect, StepCases DEF Keeps, Moves, LooksUp
<1> DEFINE InFlightTyped == inFlight' \in [Ids -> Requests \cup {NoRequest}]
           ServerTyped == server' \in [serve : {"reading", "writing", "returned", "exited"},
                                      output : {"open", "broken"}, down : BOOLEAN]
<1>3. InFlightTyped
  <2>1. ASSUME NEW r \in Requests PROVE req[r].id \in Ids
    BY <1>1, Typed DEF Request
  <2>2. ASSUME NEW r \in Requests, Interrupt(r) PROVE InFlightTyped
    BY <1>1, <2>2 DEF TypeOK, Interrupt
  <2>3. ASSUME NEW r \in Requests, Moves(r) PROVE InFlightTyped
    BY <1>1, <2>1, <2>3 DEF TypeOK, Moves
  <2>4. ASSUME NEW r \in Requests, Read(r) PROVE InFlightTyped
    BY <1>1, <2>4 DEF TypeOK, Read
  <2>5. CASE UNCHANGED inFlight
    BY <1>1, <2>5 DEF TypeOK
  <2>6. QED
    BY <1>1, <2>2, <2>3, <2>4, <2>5, StepEffect, StepCases
<1>4. ServerTyped
  <2>1. server \in [serve : {"reading", "writing", "returned", "exited"},
                   output : {"open", "broken"}, down : BOOLEAN]
    BY <1>1 DEF TypeOK
  <2>2. ASSUME NEW r \in Requests, NEW pc, NEW outcome, Answer(r, pc, outcome)
        PROVE  ServerTyped
    BY <2>1, <2>2 DEF Answer
  <2>3. ASSUME NEW r \in Requests, Read(r) PROVE ServerTyped
    BY <2>1, <2>3 DEF Read
  <2>4. ASSUME NEW r \in Requests, Step(r) PROVE ServerTyped
    BY <2>1, <2>2, <2>4 DEF Step, AnswerAtOnce, StoreCancel, PassCheck, TurnSaves, TurnFails,
       NotificationFails, AnswerTurn, RemoveCancel, Interrupt, AnswerInterrupt
  <2>5. CASE ServeReturns \/ Exit \/ OutputBreaks \/ UNCHANGED vars
    BY <2>1, <2>5 DEF ServeReturns, Exit, OutputBreaks, vars
  <2>6. QED
    BY <2>3, <2>4, <2>5 DEF Next
<1>5. QED
  BY <1>2, <1>3, <1>4 DEF TypeOK, Request, Stages, Outcomes

\* A request goes through its stages in order, and is told something only at the
\* end (server.go:371-394).
LEMMA StageStep == IInv /\ [Next]_vars => StageInv'
<1> SUFFICES ASSUME IInv, [Next]_vars PROVE StageInv'
  OBVIOUS
<1>0. TypeOK /\ StageInv /\ AnswersMatchStore /\ EntryInv /\ FoundInv /\ TurnsInterruptible
  BY DEF IInv
<1>1. ASSUME NEW r \in Requests, Read(r) PROVE StageInv'
  BY <1>0, <1>1, ReadEffect, Typed DEF StageInv, StageOf
<1>2. ASSUME NEW r \in Requests, Interrupt(r) PROVE StageInv'
  <2>1. PICK t : LooksUp(r, t)
    BY <1>0, <1>2, InterruptEffect
  <2>2. ASSUME NEW x \in Requests PROVE StageOf(x)'
    BY <1>0, <2>1 DEF LooksUp, Same, StageInv, StageOf
  <2>3. QED
    BY <2>2 DEF StageInv
<1>3. ASSUME NEW r \in Requests, Moves(r) PROVE StageInv'
  <2>1. ASSUME NEW x \in Requests \ {r} PROVE StageOf(x)'
    BY <1>0, <1>3 DEF Moves, Keeps, StageInv, StageOf
  <2>2. StageOf(r)'
    BY <1>0, <1>3 DEF Moves, Keeps, Same, Told, Runs, Answers, StageInv, StageOf
  <2>3. QED
    BY <2>1, <2>2 DEF StageInv
<1>4. CASE UNCHANGED <<req, inFlight>>
  BY <1>0, <1>4 DEF StageInv, StageOf
<1>5. QED
  BY <1>0, <1>1, <1>2, <1>3, <1>4, StepCases, StepEffect

\* Nothing that happens to a turn after its save, or its failure, makes its
\* answer wrong (server.go:386-393).
LEMMA AnswersStep == IInv /\ [Next]_vars => AnswersMatchStore'
<1> SUFFICES ASSUME IInv, [Next]_vars PROVE AnswersMatchStore'
  OBVIOUS
<1>0. TypeOK /\ StageInv /\ AnswersMatchStore /\ EntryInv /\ FoundInv /\ TurnsInterruptible
  BY DEF IInv
<1>1. ASSUME NEW r \in Requests, Read(r) PROVE AnswersMatchStore'
  BY <1>0, <1>1, ReadEffect, Typed DEF AnswersMatchStore, Turns, StageInv, StageOf
<1>2. ASSUME NEW r \in Requests, Interrupt(r) PROVE AnswersMatchStore'
  <2>1. PICK t : LooksUp(r, t)
    BY <1>0, <1>2, InterruptEffect
  <2>2. QED
    BY <1>0, <2>1 DEF LooksUp, Same, AnswersMatchStore, Turns, StageInv, StageOf
<1>3. ASSUME NEW r \in Requests, Moves(r) PROVE AnswersMatchStore'
  <2>1. ASSUME NEW x \in Turns' \ {r}
        PROVE  x \in Turns /\ req'[x] = req[x]
    BY <1>3 DEF Moves, Keeps, Turns
  <2>2. /\ r \in Turns' /\ req'[r].outcome = "ok" => req'[r].saved
        /\ r \in Turns' /\ req'[r].outcome = "error" => ~req'[r].saved
    BY <1>0, <1>3 DEF Moves, Keeps, Same, Told, Runs, Answers, AnswersMatchStore, Turns, StageInv, StageOf
  <2>3. QED
    BY <1>0, <2>1, <2>2 DEF AnswersMatchStore
<1>4. CASE UNCHANGED <<req, inFlight>>
  BY <1>0, <1>4 DEF AnswersMatchStore, Turns, StageInv, StageOf
<1>5. QED
  BY <1>0, <1>1, <1>2, <1>3, <1>4, StepCases, StepEffect

\* Only a removeCancel or a storeCancel under the same id takes a turn's entry
\* away before an interrupt does (server.go:502-524).
LEMMA InterruptibleStep == IInv /\ [Next]_vars => TurnsInterruptible'
<1> SUFFICES ASSUME IInv, [Next]_vars PROVE TurnsInterruptible'
  OBVIOUS
<1>0. TypeOK /\ StageInv /\ AnswersMatchStore /\ EntryInv /\ FoundInv /\ TurnsInterruptible
  BY DEF IInv
<1>1. ASSUME NEW r \in Requests, Read(r) PROVE TurnsInterruptible'
  BY <1>0, <1>1, ReadEffect, Typed DEF TurnsInterruptible, Turns
<1>2. ASSUME NEW r \in Requests, Interrupt(r) PROVE TurnsInterruptible'
  <2>1. PICK t : LooksUp(r, t)
    BY <1>0, <1>2, InterruptEffect
  <2>2. QED
    BY <1>0, <2>1, Typed DEF LooksUp, Same, TurnsInterruptible, Turns, Request, TypeOK
<1>3. ASSUME NEW r \in Requests, Moves(r) PROVE TurnsInterruptible'
  <2>1. Turns \subseteq Turns' /\ \A x \in Requests : req'[x].id = req[x].id
    BY <1>0, <1>3 DEF Moves, Keeps, Same, Told, Runs, Answers, Turns
  <2>2. QED
    BY <1>0, <1>3, <2>1, Typed DEF Moves, Keeps, Same, Told, Runs, Answers, TurnsInterruptible,
       Turns, StageInv, StageOf, Request, TypeOK
<1>4. CASE UNCHANGED <<req, inFlight>>
  BY <1>0, <1>4 DEF TurnsInterruptible, Turns
<1>5. QED
  BY <1>0, <1>1, <1>2, <1>3, <1>4, StepCases, StepEffect

\* An interrupted turn has no entry any more (server.go:514-523).
LEMMA EntryStep == IInv /\ [Next]_vars => EntryInv'
<1> SUFFICES ASSUME IInv, [Next]_vars PROVE EntryInv'
  OBVIOUS
<1>0. TypeOK /\ StageInv /\ AnswersMatchStore /\ EntryInv /\ FoundInv /\ TurnsInterruptible
  BY DEF IInv
<1>1. ASSUME NEW r \in Requests, Read(r) PROVE EntryInv'
  BY <1>0, <1>1, ReadEffect, Typed DEF EntryInv, Turns
<1>2. ASSUME NEW r \in Requests, Interrupt(r) PROVE EntryInv'
  <2>1. PICK t : LooksUp(r, t)
    BY <1>0, <1>2, InterruptEffect
  <2>2. QED
    BY <1>0, <2>1, Typed DEF LooksUp, Same, EntryInv, Turns, Request, TypeOK
<1>3. ASSUME NEW r \in Requests, Moves(r) PROVE EntryInv'
  <2>1. Turns \subseteq Turns'
    BY <1>0, <1>3 DEF Moves, Keeps, Same, Told, Runs, Answers, Turns
  <2>2. QED
    BY <1>0, <1>3, <2>1, Typed DEF Moves, Keeps, Same, Told, Runs, Answers, EntryInv,
       Turns, FoundInv, Request, TypeOK
<1>4. CASE UNCHANGED <<req, inFlight>>
  BY <1>0, <1>4 DEF EntryInv, Turns
<1>5. QED
  BY <1>0, <1>1, <1>2, <1>3, <1>4, StepCases, StepEffect

\* No two interrupts find one turn (server.go:514-523).
LEMMA FoundStep == IInv /\ [Next]_vars => FoundInv'
<1> SUFFICES ASSUME IInv, [Next]_vars PROVE FoundInv'
  OBVIOUS
<1>0. TypeOK /\ StageInv /\ AnswersMatchStore /\ EntryInv /\ FoundInv /\ TurnsInterruptible
  BY DEF IInv
<1>1. ASSUME NEW r \in Requests, Read(r) PROVE FoundInv'
  BY <1>0, <1>1, ReadEffect, Typed DEF FoundInv, Turns, StageInv, StageOf
<1>2. ASSUME NEW r \in Requests, Interrupt(r) PROVE FoundInv'
  <2>1. PICK t : LooksUp(r, t)
    BY <1>0, <1>2, InterruptEffect
  <2>2. QED
    BY <1>0, <2>1, Typed DEF LooksUp, Same, FoundInv, EntryInv, Turns, Request, TypeOK
<1>3. ASSUME NEW r \in Requests, Moves(r) PROVE FoundInv'
  <2>1. Turns \subseteq Turns'
    BY <1>0, <1>3 DEF Moves, Keeps, Same, Told, Runs, Answers, Turns
  <2>2. /\ \A x \in Requests : /\ req'[x].found = req[x].found
                               /\ req'[x].kind = req[x].kind
                               /\ req'[x].id = req[x].id /\ req'[x].target = req[x].target
                               /\ req'[x].cancelled = req[x].cancelled
        /\ \A x \in Requests \ {r} : req'[x] = req[x]
    BY <1>3 DEF Moves, Keeps
  <2>3. /\ req[r].kind = "interrupt" /\ req[r].pc \in {"looked_up", "done"} =>
             req'[r].pc \in {"looked_up", "done"}
        /\ req[r].kind = "interrupt" /\ req'[r].outcome = "ok" => req[r].found # NoRequest
    BY <1>0, <1>3 DEF Moves, Keeps, Same, Told, Runs, Answers, FoundInv, StageInv, StageOf
  <2>4. \A x \in Requests : req[x].found # NoRequest => req[x].found \in Requests
    BY <1>0, Typed DEF Request
  <2>5. QED
    BY <1>0, <2>1, <2>2, <2>3, <2>4 DEF FoundInv
<1>4. CASE UNCHANGED <<req, inFlight>>
  BY <1>0, <1>4 DEF FoundInv, Turns, StageInv, StageOf
<1>5. QED
  BY <1>0, <1>1, <1>2, <1>3, <1>4, StepCases, StepEffect

\* An interrupt is told what it found (server.go:215-232).
LEMMA NotFoundStep == IInv /\ [Next]_vars => NotFoundInv'
<1> SUFFICES ASSUME IInv, [Next]_vars PROVE NotFoundInv'
  OBVIOUS
<1>0. TypeOK /\ StageInv /\ EntryInv /\ NotFoundInv
  BY DEF IInv
<1>1. ASSUME NEW r \in Requests, Read(r) PROVE NotFoundInv'
  BY <1>0, <1>1, ReadEffect DEF NotFoundInv, StageInv, StageOf
<1>2. ASSUME NEW r \in Requests, Interrupt(r) PROVE NotFoundInv'
  <2>1. PICK t : LooksUp(r, t)
    BY <1>0, <1>2, InterruptEffect
  <2>2. QED
    BY <1>0, <2>1 DEF LooksUp, Same, NotFoundInv, StageInv, StageOf
<1>3. ASSUME NEW r \in Requests, Moves(r) PROVE NotFoundInv'
  BY <1>0, <1>3 DEF Moves, Keeps, Same, Told, Runs, Answers, NotFoundInv, StageInv, StageOf
<1>4. CASE UNCHANGED <<req, inFlight>>
  BY <1>0, <1>4 DEF NotFoundInv
<1>5. QED
  BY <1>0, <1>1, <1>2, <1>3, <1>4, StepCases, StepEffect

\* Every step keeps all of it.
LEMMA InvariantStep == IInv /\ [Next]_vars => IInv'
BY TypeStep, StageStep, AnswersStep, InterruptibleStep, EntryStep, FoundStep, NotFoundStep
   DEF IInv

-----------------------------------------------------------------------------
(* The theorems *)

\* What the theorems below rest on holds in every state of every behaviour of the
\* server (server.go:140-524).
THEOREM Invariant == Spec => []IInv
BY InitHolds, InvariantStep, PTL DEF Spec

\* Whatever ids clients choose, a turn that runs is found by an interrupt unless
\* another turn has had its id (server.go:373-375, 502-523).
THEOREM RunningTurnsAreFound == Spec => []TurnsInterruptible
<1>1. IInv => TurnsInterruptible
  BY DEF IInv
<1>2. QED
  BY <1>1, Invariant, PTL

\* An interrupt told cancelled: true has ended a turn that it alone claims, and
\* no turn's own context ends otherwise (server.go:215-232, 514-523).
THEOREM InterruptsAreClaimed == Spec => []InterruptsClaimOne
<1>1. IInv => InterruptsClaimOne
  <2> SUFFICES ASSUME IInv PROVE InterruptsClaimOne
    OBVIOUS
  <2>1. ASSUME NEW r \in Requests, req[r].found # NoRequest
        PROVE  \A q \in Requests \ {r} : req[q].found # req[r].found
    BY <2>1 DEF IInv, FoundInv
  <2>2. QED
    BY <2>1 DEF IInv, FoundInv, InterruptsClaimOne, Turns
<1>2. QED
  BY <1>1, Invariant, PTL

\* A turn answered with a result was saved and one answered with an error was not
\* (server.go:386-393).
THEOREM AnswersAreTrue == Spec => []AnswersMatchStore
<1>1. IInv => AnswersMatchStore
  BY DEF IInv
<1>2. QED
  BY <1>1, Invariant, PTL
===============================================================================
