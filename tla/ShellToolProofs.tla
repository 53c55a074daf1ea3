---------------------------- MODULE ShellToolProofs ----------------------------
(***************************************************************************)
(* Proofs about ShellTool for every limit and every amount of output: what *)
(* the collector keeps, what the output file holds, and that a killed      *)
(* command is not reported as one that finished.                           *)
(***************************************************************************)
EXTENDS ShellTool, TLAPS

Collector == [taken : Counts, kept : Counts, combined : Counts, file : Counts,
              truncated : BOOLEAN]

\* Until the limit is passed everything is kept and also held in combined, if
\* there is a limit; from then on exactly MaxOutput bytes are kept.
Sound(c) ==
  /\ c \in Collector
  /\ ~c.truncated =>
       /\ c.kept = c.taken
       /\ MaxOutput > 0 => c.combined = c.taken /\ Total(c) <= MaxOutput
  /\ c.truncated =>
       /\ MaxOutput > 0
       /\ c.file = c.taken
       /\ Total(c) > MaxOutput
       /\ c.kept["stdout"] + c.kept["stderr"] = MaxOutput

\* pipe is typed and what main has decided fits the command's end.
IInv ==
  /\ pipe.unread \in Counts
  /\ pipe.open \in BOOLEAN
  /\ pipe = [by |-> pipe.by, unread |-> pipe.unread, open |-> pipe.open]
  /\ Sound(collector)
  /\ ctx = [ended |-> ctx.ended, timeout |-> ctx.timeout]
  /\ cmd = [state |-> cmd.state, children |-> cmd.children]
  /\ main = [at |-> main.at, outcome |-> main.outcome]
  /\ main.at \in {"start", "wait"} => main.outcome = "none"
  /\ main.at = "start" => cmd.state = "none"
  /\ main.at = "collect" => main.outcome = "none" /\ cmd.state \in {"exited", "killed"}
  /\ cmd.state = "killed" => ctx.ended # "no"
  /\ main.outcome = "ok" => cmd.state = "exited"

\* A chunk of n bytes of one stream leaves the collector sound
\* (outputCollector.write, shell.go:346-397).
LEMMA CollectSound ==
  ASSUME NEW c, Sound(c), NEW s \in Streams, NEW n \in Nat \ {0}
  PROVE  Sound(Collect(c, s, n))
<1> DEFINE d == Collect(c, s, n)
           taken == [c.taken EXCEPT ![s] = @ + n]
           took == [c EXCEPT !.taken[s] = @ + n]
<1> MaxOutput \in Nat
  BY ShellAssumption
<1>1. /\ c \in Collector
      /\ c.taken \in [Streams -> Nat]
      /\ c.kept \in [Streams -> Nat]
      /\ c.combined \in [Streams -> Nat]
      /\ c.file \in [Streams -> Nat]
      /\ c.truncated \in BOOLEAN
  BY DEF Sound, Collector, Counts
<1>2. took = [taken |-> taken, kept |-> c.kept, combined |-> c.combined,
              file |-> c.file, truncated |-> c.truncated]
  BY <1>1 DEF Collector
<1>3. taken \in [Streams -> Nat] /\ taken["stdout"] + taken["stderr"] = Total(c) + n
  BY <1>1 DEF Streams, Total
<1>4. Total(took) = Total(c) + n
  BY <1>2, <1>3 DEF Total
<1> HIDE DEF took
<1>5. CASE c.truncated
  <2> DEFINE file == [c.file EXCEPT ![s] = @ + n]
  <2>1. d = [took EXCEPT !.file[s] = @ + n]
    BY <1>5 DEF Collect, took
  <2>2. d = [taken |-> taken, kept |-> c.kept, combined |-> c.combined,
             file |-> file, truncated |-> c.truncated]
    BY <2>1, <1>2
  <2>3. file = taken
    BY <1>1, <1>5 DEF Sound
  <2>4. Total(d) = Total(c) + n
    BY <2>2, <1>3 DEF Total
  <2>5. Total(d) > MaxOutput
    BY <2>4, <1>1, <1>5 DEF Sound, Total, Streams
  <2>6. d \in Collector
    BY <2>2, <2>3, <1>1, <1>3 DEF Collector, Counts
  <2> QED
    BY <2>2, <2>3, <2>5, <2>6, <1>5 DEF Sound
<1>6. CASE ~c.truncated /\ MaxOutput = 0
  <2> DEFINE kept == [c.kept EXCEPT ![s] = @ + n]
  <2>1. d = [took EXCEPT !.kept[s] = @ + n]
    BY <1>6, <1>2 DEF Collect, took
  <2>2. d = [taken |-> taken, kept |-> kept, combined |-> c.combined,
             file |-> c.file, truncated |-> c.truncated]
    BY <2>1, <1>2
  <2>3. kept = taken
    BY <1>1, <1>6 DEF Sound
  <2>4. d \in Collector
    BY <2>2, <2>3, <1>1, <1>3 DEF Collector, Counts
  <2> QED
    BY <2>2, <2>3, <2>4, <1>6 DEF Sound
<1>7. CASE ~c.truncated /\ MaxOutput # 0 /\ Total(took) > MaxOutput
  <2> DEFINE kept == [c.kept EXCEPT ![s] = @ + (MaxOutput - Total(c))]
             file == [x \in Streams |-> c.combined[x] + (IF x = s THEN n ELSE 0)]
  <2>1. d = [took EXCEPT !.truncated = TRUE, !.kept[s] = @ + (MaxOutput - Total(c)),
                         !.file = file, !.combined = Nothing]
    BY <1>7, <1>2 DEF Collect, took
  <2>2. d = [taken |-> taken, kept |-> kept, combined |-> Nothing,
             file |-> file, truncated |-> TRUE]
    BY <2>1, <1>2
  <2>3. c.kept = c.taken /\ c.combined = c.taken /\ Total(c) <= MaxOutput
    BY <1>7 DEF Sound
  <2>4. file = taken
    BY <2>3, <1>1
  <2>5. kept \in [Streams -> Nat] /\ kept["stdout"] + kept["stderr"] = MaxOutput
    BY <2>3, <1>1 DEF Total, Streams
  <2>6. Total(d) > MaxOutput
    BY <2>2, <1>3, <1>4, <1>7 DEF Total
  <2>7. d \in Collector
    BY <2>2, <2>4, <2>5, <1>3 DEF Collector, Counts, Nothing
  <2> QED
    BY <2>2, <2>4, <2>5, <2>6, <2>7, <1>7 DEF Sound
<1>8. CASE ~c.truncated /\ MaxOutput # 0 /\ ~(Total(took) > MaxOutput)
  <2> DEFINE kept == [c.kept EXCEPT ![s] = @ + n]
             combined == [c.combined EXCEPT ![s] = @ + n]
  <2>1. d = [took EXCEPT !.kept[s] = @ + n, !.combined[s] = @ + n]
    BY <1>8, <1>2 DEF Collect, took
  <2>2. d = [taken |-> taken, kept |-> kept, combined |-> combined,
             file |-> c.file, truncated |-> c.truncated]
    BY <2>1, <1>2
  <2>3. kept = taken /\ combined = taken
    BY <1>1, <1>8 DEF Sound
  <2>4. Total(d) <= MaxOutput
    BY <2>2, <1>3, <1>4, <1>8 DEF Total, Streams
  <2>5. d \in Collector
    BY <2>2, <2>3, <1>1, <1>3 DEF Collector, Counts
  <2> QED
    BY <2>2, <2>3, <2>4, <2>5, <1>8 DEF Sound
<1> QED
  BY <1>5, <1>6, <1>7, <1>8

\* The invariant holds of a call that has not begun.
LEMMA InitIInv == Init => IInv
<1> SUFFICES ASSUME Init PROVE IInv
  OBVIOUS
<1> MaxOutput \in Nat
  BY ShellAssumption
<1> Nothing \in Counts
  BY DEF Nothing, Counts
<1>1. Sound(collector)
  BY DEF Init, Sound, Collector, Total, Nothing, Counts, Streams
<1> QED
  BY <1>1 DEF Init, IInv
\* Ending a context that has ended changes nothing, and none becomes live again.
LEMMA EndContextEnds ==
  ASSUME IInv, NEW why \in {"deadline", "cancelled"}, EndContext(why)
  PROVE  /\ ctx' = [ended |-> ctx'.ended, timeout |-> ctx'.timeout]
         /\ ctx'.ended # "no"
<1>1. ctx' = [ended |-> IF ctx.ended = "no" THEN why ELSE ctx.ended,
              timeout |-> ctx.timeout]
  BY DEF IInv, EndContext
<1> QED
  BY <1>1

\* What one copier does preserves the invariant.
LEMMA CopyIInv ==
  ASSUME IInv, NEW s \in Streams, CopyStep(s)
  PROVE  IInv'
<1>1. CASE Copy(s)
  <2>1. PICK n \in 1..pipe.unread[s] :
          /\ pipe' = [pipe EXCEPT !.unread[s] = @ - n]
          /\ collector' = Collect(collector, s, n)
    BY <1>1 DEF Copy
  <2>2. n \in Nat \ {0} /\ pipe.unread[s] - n \in Nat
    BY <2>1 DEF IInv, Counts
  <2>3. Sound(collector')
    BY <2>1, <2>2, CollectSound DEF IInv
  <2>4. /\ pipe' = [by |-> pipe.by, unread |-> [pipe.unread EXCEPT ![s] = @ - n],
                    open |-> pipe.open]
        /\ [pipe.unread EXCEPT ![s] = @ - n] \in Counts
    BY <2>1, <2>2 DEF IInv, Counts
  <2> QED
    BY <2>3, <2>4, <1>1 DEF Copy, IInv, Sound, Total, Collector, Counts
<1>2. CASE CopyFails(s)
  <2>1. PICK n \in 1..pipe.unread[s] : pipe' = [pipe EXCEPT !.unread[s] = @ - n]
    BY <1>2 DEF CopyFails
  <2>2. pipe.unread[s] - n \in Nat
    BY <2>1 DEF IInv, Counts
  <2>3. /\ pipe' = [by |-> pipe.by, unread |-> [pipe.unread EXCEPT ![s] = @ - n],
                    open |-> pipe.open]
        /\ [pipe.unread EXCEPT ![s] = @ - n] \in Counts
    BY <2>1, <2>2 DEF IInv, Counts
  <2> QED
    BY <2>3, <1>2 DEF CopyFails, IInv, Sound, Total, Collector, Counts
<1>3. CASE CopyEnds(s)
  BY <1>3 DEF CopyEnds, IInv, Sound, Total, Collector, Counts
<1> QED
  BY <1>1, <1>2, <1>3 DEF CopyStep

\* What the command and its children do, and os/exec to them, preserves it.
LEMMA CommandIInv ==
  ASSUME IInv,
         \/ \E s \in Streams : CommandWrites(s)
         \/ CommandForks \/ CommandExits \/ ChildrenExit \/ Kill
  PROVE  IInv'
<1>1. ASSUME NEW s \in Streams, CommandWrites(s) PROVE IInv'
  <2> DEFINE unread == [pipe.unread EXCEPT ![s] = @ + 1]
  <2>1. unread \in Counts
    BY DEF IInv, Counts
  <2>2. pipe' = [by |-> pipe'.by, unread |-> unread, open |-> pipe.open]
    BY <1>1 DEF CommandWrites, IInv
  <2> QED
    BY <2>1, <2>2, <1>1 DEF CommandWrites, IInv, Sound, Total, Collector, Counts
<1>2. CASE CommandForks
  BY <1>2 DEF CommandForks, IInv, Sound, Total, Collector, Counts
<1>3. CASE CommandExits
  BY <1>3 DEF CommandExits, IInv, Sound, Total, Collector, Counts
<1>4. CASE ChildrenExit
  BY <1>4 DEF ChildrenExit, IInv, Sound, Total, Collector, Counts
<1>5. CASE Kill
  BY <1>5 DEF Kill, IInv, Sound, Total, Collector, Counts
<1> QED
  BY <1>1, <1>2, <1>3, <1>4, <1>5

\* The deadline, the turn's end and the idle timer preserve it.
LEMMA TimersIInv ==
  ASSUME IInv, ContextEnds \/ IdleTimeout \/ IdleStops
  PROVE  IInv'
<1>1. CASE ContextEnds
  <2>1. /\ ctx' = [ended |-> ctx'.ended, timeout |-> ctx'.timeout]
        /\ ctx'.ended # "no"
    BY <1>1, EndContextEnds DEF ContextEnds
  <2> QED
    BY <2>1, <1>1 DEF ContextEnds, IInv, Sound, Total, Collector, Counts
<1>2. CASE IdleTimeout
  <2>1. /\ ctx' = [ended |-> ctx'.ended, timeout |-> ctx'.timeout]
        /\ ctx'.ended # "no"
    BY <1>2, EndContextEnds DEF IdleTimeout
  <2> QED
    BY <2>1, <1>2 DEF IdleTimeout, IInv, Sound, Total, Collector, Counts
<1>3. CASE IdleStops
  BY <1>3 DEF IdleStops, IInv, Sound, Total, Collector, Counts
<1> QED
  BY <1>1, <1>2, <1>3

\* executeShellCommand preserves it: what it returns is decided from a context
\* that has not ended when the command ended by itself.
LEMMA MainIInv ==
  ASSUME IInv, MainStep
  PROVE  IInv'
<1>1. CASE Start
  <2>1. PICK timeout \in BOOLEAN : ctx' = [ctx EXCEPT !.timeout = timeout]
    BY <1>1 DEF Start
  <2>2. ctx' = [ended |-> ctx.ended, timeout |-> timeout]
    BY <2>1 DEF IInv
  <2> QED
    BY <2>2, <1>1 DEF Start, IInv, Sound, Total, Collector, Counts
<1>2. CASE StartFails
  BY <1>2 DEF StartFails, IInv, Sound, Total, Collector, Counts
<1>3. CASE Wait
  <2>1. pipe' = [by |-> pipe.by, unread |-> pipe.unread, open |-> FALSE]
    BY <1>3 DEF Wait, IInv
  <2> QED
    BY <2>1, <1>3 DEF Wait, IInv, Sound, Total, Collector, Counts
<1>4. CASE Decide
  <2>1. Outcome = "ok" => cmd.state = "exited"
    BY <1>4 DEF Decide, Outcome, IInv
  <2> QED
    BY <2>1, <1>4 DEF Decide, IInv, Sound, Total, Collector, Counts
<1>7. CASE WaitFails
  BY <1>7 DEF WaitFails, IInv, Sound, Total, Collector, Counts
<1>5. CASE CloseFails
  BY <1>5 DEF CloseFails, IInv, Sound, Total, Collector, Counts
<1>6. CASE Return
  <2>1. /\ ctx' = [ended |-> ctx'.ended, timeout |-> ctx'.timeout]
        /\ ctx'.ended # "no"
    BY <1>6, EndContextEnds DEF Return
  <2> QED
    BY <2>1, <1>6 DEF Return, IInv, Sound, Total, Collector, Counts
<1> QED
  BY <1>1, <1>2, <1>3, <1>4, <1>5, <1>6, <1>7 DEF MainStep

\* Every step preserves it.
LEMMA StepIInv == IInv /\ [Next]_vars => IInv'
<1> SUFFICES ASSUME IInv, [Next]_vars PROVE IInv'
  OBVIOUS
<1>1. CASE UNCHANGED vars
  BY <1>1 DEF vars, IInv, Sound, Total, Collector, Counts
<1>2. CASE Next
  BY <1>2, CopyIInv, CommandIInv, TimersIInv, MainIInv DEF Next
<1> QED
  BY <1>1, <1>2

\* In every reachable state the collector is sound.
LEMMA Invariance == Spec => []IInv
  BY InitIInv, StepIInv, PTL DEF Spec

\* The result of a call is never longer than the limit and never shorter than
\* what the limit allows (outputCollector.write).
THEOREM ResultKeepsUpToLimit == Spec => []KeptUpToLimit
<1>1. IInv => KeptUpToLimit
  BY ShellAssumption
  DEF IInv, Sound, KeptUpToLimit, Total, Lesser, Collector, Counts, Streams
<1> QED
  BY <1>1, Invariance, PTL

\* A truncated result names a file with the whole of what was collected
\* (outputCollector.write and openOutputFile).
THEOREM TruncatedFileIsWhole == Spec => []FileHoldsAll
<1>1. IInv => FileHoldsAll
  BY DEF IInv, Sound, FileHoldsAll
<1> QED
  BY <1>1, Invariance, PTL

\* No interleaving of deadline, idle timer, cancellation and the command's own
\* end makes a killed command a success (executeShellCommand).
THEOREM KilledNeverSucceeds == Spec => []KilledIsNotOk
<1>1. IInv => KilledIsNotOk
  BY DEF IInv, KilledIsNotOk
<1> QED
  BY <1>1, Invariance, PTL
===============================================================================
