--------------------------- MODULE AgentLoopProofs ---------------------------
(***************************************************************************)
(* Theorems about AgentLoop, for any turns, threads, bounds and replies:   *)
(* what appending a record and cutting for a summary do to a history, that *)
(* the histories a turn shows, saves and loads are paired, what a history  *)
(* says of the turns it stands for and where a turn's own records begin,   *)
(* and that AgentLoop implements TurnTransaction.                          *)
(***************************************************************************)
EXTENDS AgentLoop, SequenceTheorems, WellFoundedInduction, TLAPS

-----------------------------------------------------------------------------
(* Part 1: records and histories *)

(***************************************************************************)
(* A non-empty set of integers with an upper bound has a greatest element, *)
(* so Max is what its name says on the sets Summarize takes it of.         *)
(***************************************************************************)
LEMMA MaxOfBounded ==
  ASSUME NEW n \in Nat, NEW S \in SUBSET (0..n), S # {}
  PROVE  /\ Max(S) \in S
         /\ \A x \in S : Max(S) >= x
<1> DEFINE T == {n - x : x \in S}
<1>1. T \subseteq Nat /\ T # {}
  <2>1. T \subseteq Nat
    OBVIOUS
  <2>2. PICK x \in S : TRUE
    OBVIOUS
  <2>3. n - x \in T
    OBVIOUS
  <2> QED BY <2>1, <2>3
<1>2. PICK m \in T : \A y \in T : ~(<<y, m>> \in OpToRel(<, Nat))
  BY <1>1, WFMin, NatLessThanWellFounded, Zenon
<1>3. \A y \in T : ~(y < m)
  BY <1>1, <1>2 DEF OpToRel
<1>4. PICK k \in S : m = n - k
  OBVIOUS
<1>5. \A x \in S : k >= x
  <2> TAKE x \in S
  <2>1. n - x \in T /\ x \in Int /\ k \in Int
    OBVIOUS
  <2>2. ~(n - x < n - k)
    BY <2>1, <1>3, <1>4
  <2> QED BY <2>1, <2>2
<1> QED BY <1>5 DEF Max

(***************************************************************************)
(* KeepIndex points into the history, and never at a tool output unless it *)
(* is the first record (summarize.go:92-109).                              *)
(***************************************************************************)
LEMMA KeepIndexProperties ==
  ASSUME NEW ms \in Seq(Record), ms # <<>>
  PROVE  /\ KeepIndex(ms) \in 1..Len(ms)
         /\ KeepIndex(ms) = 1 \/ ms[KeepIndex(ms)].kind # "tool_output"
<1>1. Len(ms) \in Nat /\ Len(ms) >= 1 /\ DOMAIN ms = 1..Len(ms)
  OBVIOUS
<1>2. ScanIndex(ms) \in 1..Len(ms)
  <2> DEFINE S == {i \in DOMAIN ms : i = 1 \/ SuffixTokens(ms, i) >= KeepTokens}
  <2>1. S \subseteq 0..Len(ms) /\ 1 \in S
    BY <1>1
  <2>2. Max(S) \in S
    BY <2>1, <1>1, MaxOfBounded, Zenon
  <2> HIDE DEF S
  <2>3. Max(S) \in DOMAIN ms
    BY <2>2 DEF S
  <2> QED BY <2>3, <1>1 DEF ScanIndex, S
<1> DEFINE W == {i \in 1..ScanIndex(ms) : i = 1 \/ ms[i].kind # "tool_output"}
<1>3. W \subseteq 0..Len(ms) /\ 1 \in W
  BY <1>1, <1>2
<1>4. Max(W) \in W
  BY <1>3, <1>1, MaxOfBounded, Zenon
<1>5. KeepIndex(ms) \in W
  BY <1>4, Zenon DEF KeepIndex
<1> QED BY <1>5, <1>2, <1>1

(***************************************************************************)
(* The records built by Messages are records.                              *)
(***************************************************************************)
LEMMA PlainTypes ==
  ASSUME NEW t \in Turns, NEW S \in SUBSET Turns, NEW n \in Nat \ {0}
  PROVE  /\ Human(t, n) \in Record
         /\ Assistant(t, n) \in Record
         /\ Summary(S, n) \in Record
         /\ Plain("tool_call", {t}, n) \in Record
         /\ Plain("tool_output", {t}, n) \in Record
<1>1. \A k \in Kinds, T \in SUBSET Turns : Plain(k, T, n) \in Record
  <2>1. <<>> \in Seq(CallIds)
    OBVIOUS
  <2> QED BY <2>1 DEF Plain, Record
<1> QED BY <1>1 DEF Human, Assistant, Summary, Kinds

\* So are the tool_call and tool_output records.
LEMMA ToolRecordTypes ==
  ASSUME NEW t \in Turns, NEW n \in Nat \ {0}
  PROVE  /\ \A ids \in Seq(CallIds) : ToolCall(t, ids, n) \in Record
         /\ \A id \in CallIds : ToolOutput(t, id, n) \in Record
<1>1. Plain("tool_call", {t}, n) \in Record /\ Plain("tool_output", {t}, n) \in Record
  <2>1. {} \in SUBSET Turns
    OBVIOUS
  <2> QED BY <2>1, PlainTypes
<1>2. \A ids \in Seq(CallIds) : ToolCall(t, ids, n) \in Record
  BY <1>1 DEF ToolCall, Record
<1>3. \A id \in CallIds : ToolOutput(t, id, n) \in Record
  BY <1>1 DEF ToolOutput, Record
<1> QED BY <1>2, <1>3

\* The calls of a record of a history are a sequence.
LEMMA CallsOfRecord ==
  ASSUME NEW ms \in Seq(Record), NEW i \in DOMAIN ms
  PROVE  /\ ms[i] \in Record
         /\ Len(ms[i].calls) \in Nat
         /\ DOMAIN ms[i].calls = 1..Len(ms[i].calls)
<1>1. ms[i] \in Record
  OBVIOUS
<1>2. ms[i].calls \in Seq(CallIds)
  BY <1>1 DEF Record
<1> QED BY <1>1, <1>2

(***************************************************************************)
(* A history whose last tool_call record asks for the calls p, the first a *)
(* of which are answered; with no such record when p is empty.             *)
(***************************************************************************)
OpenPaired(ms, p, a) ==
  /\ OutputsHaveCalls(ms)
  /\ CallsAreFollowed(ms)
  /\ p # <<>> => /\ Len(ms) - a \in DOMAIN ms
                 /\ ms[Len(ms) - a].kind = "tool_call"
                 /\ ms[Len(ms) - a].calls = p
                 /\ a < Len(p)
  /\ \A i \in DOMAIN ms :
       ms[i].kind = "tool_call" => Answered(ms, i) \/ (p # <<>> /\ i = Len(ms) - a)

\* With no call open a history is a complete one.
LEMMA OpenPairedNone ==
  ASSUME NEW ms, NEW a
  PROVE  OpenPaired(ms, <<>>, a) <=> Paired(ms)
BY DEF OpenPaired, Paired

\* A thread that was never saved is complete.
LEMMA EmptyIsPaired == Paired(<<>>)
BY DEF Paired, OutputsHaveCalls, CallsAreFollowed

(***************************************************************************)
(* A record that neither calls nor answers may be added at the end.        *)
(***************************************************************************)
LEMMA AppendPlain ==
  ASSUME NEW ms \in Seq(Record), NEW r \in Record, Paired(ms),
         r.kind \notin {"tool_call", "tool_output"}
  PROVE  Paired(Append(ms, r))
<1> DEFINE m == Append(ms, r)
<1>1. /\ m \in Seq(Record) /\ Len(m) = Len(ms) + 1 /\ DOMAIN m = 1..Len(m)
      /\ DOMAIN ms = 1..Len(ms) /\ Len(ms) \in Nat
      /\ \A i \in DOMAIN ms : m[i] = ms[i]
      /\ m[Len(ms) + 1] = r
  OBVIOUS
<1> HIDE DEF m
<1>2. \A i \in DOMAIN m : m[i].kind \in {"tool_call", "tool_output"} =>
        i \in DOMAIN ms /\ m[i] = ms[i]
  BY <1>1
<1>3. OutputsHaveCalls(m)
  BY <1>1, <1>2 DEF Paired, OutputsHaveCalls
<1>4. CallsAreFollowed(m)
  <2> SUFFICES ASSUME NEW i \in DOMAIN m, m[i].kind = "tool_call",
                      NEW k \in DOMAIN m[i].calls, i + k \in DOMAIN m
               PROVE  Answers(m, i + k, k)
    BY DEF CallsAreFollowed
  <2>1. i \in DOMAIN ms /\ m[i] = ms[i] /\ Answered(ms, i)
    BY <1>2 DEF Paired
  <2>2. ms[i] \in Record /\ k \in 1..Len(ms[i].calls) /\ Len(ms[i].calls) \in Nat
    BY <2>1, CallsOfRecord
  <2>3. i + k \in DOMAIN ms /\ (i + k) - k = i
    BY <2>1, <2>2, <1>1 DEF Answered
  <2>4. Answers(ms, i + k, k)
    BY <2>1, <2>3 DEF Paired, CallsAreFollowed
  <2> QED BY <2>1, <2>3, <2>4, <1>1 DEF Answers
<1>5. \A i \in DOMAIN m : m[i].kind = "tool_call" => Answered(m, i)
  <2> SUFFICES ASSUME NEW i \in DOMAIN m, m[i].kind = "tool_call"
               PROVE  Answered(m, i)
    OBVIOUS
  <2>1. i \in DOMAIN ms /\ m[i] = ms[i] /\ Answered(ms, i)
    BY <1>2 DEF Paired
  <2>2. Len(ms[i].calls) \in Nat
    BY <2>1, CallsOfRecord
  <2> QED BY <2>1, <2>2, <1>1 DEF Answered
<1> QED BY <1>3, <1>4, <1>5 DEF Paired, m

(***************************************************************************)
(* A tool_call record at the end opens its calls, none of them answered.   *)
(***************************************************************************)
LEMMA AppendCall ==
  ASSUME NEW ms \in Seq(Record), NEW r \in Record, Paired(ms),
         r.kind = "tool_call", r.calls # <<>>
  PROVE  OpenPaired(Append(ms, r), r.calls, 0)
<1> DEFINE m == Append(ms, r)
<1>1. /\ m \in Seq(Record) /\ Len(m) = Len(ms) + 1 /\ DOMAIN m = 1..Len(m)
      /\ DOMAIN ms = 1..Len(ms) /\ Len(ms) \in Nat
      /\ \A i \in DOMAIN ms : m[i] = ms[i]
      /\ m[Len(ms) + 1] = r
  OBVIOUS
<1>2. r.calls \in Seq(CallIds) /\ Len(r.calls) \in Nat /\ 0 < Len(r.calls)
  BY DEF Record
<1> HIDE DEF m
<1>3. \A i \in DOMAIN m : i = Len(ms) + 1 \/ (i \in DOMAIN ms /\ m[i] = ms[i])
  BY <1>1
<1>4. OutputsHaveCalls(m)
  BY <1>1, <1>3 DEF Paired, OutputsHaveCalls
<1>5. CallsAreFollowed(m)
  <2> SUFFICES ASSUME NEW i \in DOMAIN m, m[i].kind = "tool_call",
                      NEW k \in DOMAIN m[i].calls, i + k \in DOMAIN m
               PROVE  Answers(m, i + k, k)
    BY DEF CallsAreFollowed
  <2>1. k \in 1..Len(m[i].calls) /\ Len(m[i].calls) \in Nat
    BY <1>1, CallsOfRecord
  <2>2. i \in DOMAIN ms /\ m[i] = ms[i] /\ Answered(ms, i)
    BY <1>1, <1>3, <2>1 DEF Paired
  <2>3. i + k \in DOMAIN ms /\ (i + k) - k = i
    BY <2>1, <2>2, <1>1 DEF Answered
  <2>4. Answers(ms, i + k, k)
    BY <2>2, <2>3 DEF Paired, CallsAreFollowed
  <2> QED BY <2>2, <2>3, <2>4, <1>1 DEF Answers
<1>6. \A i \in DOMAIN m : m[i].kind = "tool_call" => Answered(m, i) \/ i = Len(m) - 0
  <2> SUFFICES ASSUME NEW i \in DOMAIN m, m[i].kind = "tool_call", i # Len(ms) + 1
               PROVE  Answered(m, i)
    BY <1>1
  <2>1. i \in DOMAIN ms /\ m[i] = ms[i] /\ Answered(ms, i)
    BY <1>3 DEF Paired
  <2>2. Len(ms[i].calls) \in Nat
    BY <2>1, CallsOfRecord
  <2> QED BY <2>1, <2>2, <1>1 DEF Answered
<1>7. /\ Len(m) - 0 \in DOMAIN m
      /\ m[Len(m) - 0].kind = "tool_call"
      /\ m[Len(m) - 0].calls = r.calls
  BY <1>1
<1> QED BY <1>2, <1>4, <1>5, <1>6, <1>7 DEF OpenPaired, m

(***************************************************************************)
(* The output of the next open call at the end answers it; with the last   *)
(* one the history is complete again.                                      *)
(***************************************************************************)
LEMMA AppendOutput ==
  ASSUME NEW ms \in Seq(Record), NEW r \in Record, NEW p \in Seq(CallIds), p # <<>>,
         NEW a \in Nat, OpenPaired(ms, p, a),
         r.kind = "tool_output", r.call = p[a + 1]
  PROVE  /\ a + 1 < Len(p) => OpenPaired(Append(ms, r), p, a + 1)
         /\ a + 1 >= Len(p) => OpenPaired(Append(ms, r), <<>>, 0)
<1> DEFINE m == Append(ms, r)
           c == Len(ms) - a
<1>1. /\ m \in Seq(Record) /\ Len(m) = Len(ms) + 1 /\ DOMAIN m = 1..Len(m)
      /\ DOMAIN ms = 1..Len(ms) /\ Len(ms) \in Nat
      /\ \A i \in DOMAIN ms : m[i] = ms[i]
      /\ m[Len(ms) + 1] = r
  OBVIOUS
<1>2. /\ c \in DOMAIN ms /\ ms[c].kind = "tool_call" /\ ms[c].calls = p
      /\ a < Len(p) /\ Len(p) \in Nat /\ DOMAIN p = 1..Len(p)
      /\ c = Len(m) - (a + 1) /\ c \in DOMAIN m /\ m[c] = ms[c]
  BY <1>1 DEF OpenPaired
<1> HIDE DEF m, c
<1>3. \A i \in DOMAIN m : i = Len(ms) + 1 \/ (i \in DOMAIN ms /\ m[i] = ms[i])
  BY <1>1
<1>4. OutputsHaveCalls(m)
  <2> SUFFICES ASSUME NEW i \in DOMAIN m, m[i].kind = "tool_output"
               PROVE  \E k \in 1..(i - 1) : /\ m[i - k].kind = "tool_call"
                                            /\ k \in DOMAIN m[i - k].calls
                                            /\ m[i].call = m[i - k].calls[k]
    BY DEF OutputsHaveCalls
  <2>1. CASE i = Len(ms) + 1
    <3>1. (a + 1) \in 1..(i - 1) /\ i - (a + 1) = c /\ (a + 1) \in DOMAIN p
      BY <2>1, <1>1, <1>2
    <3> QED BY <3>1, <2>1, <1>1, <1>2
  <2>2. CASE i \in DOMAIN ms /\ m[i] = ms[i]
    <3>1. PICK k \in 1..(i - 1) : /\ ms[i - k].kind = "tool_call"
                                  /\ k \in DOMAIN ms[i - k].calls
                                  /\ ms[i].call = ms[i - k].calls[k]
      BY <2>2 DEF OpenPaired, OutputsHaveCalls
    <3>2. i - k \in DOMAIN ms
      BY <2>2, <1>1
    <3> QED BY <2>2, <3>1, <3>2, <1>1
  <2> QED BY <2>1, <2>2, <1>3
<1>5. CallsAreFollowed(m)
  <2> SUFFICES ASSUME NEW i \in DOMAIN m, m[i].kind = "tool_call",
                      NEW k \in DOMAIN m[i].calls, i + k \in DOMAIN m
               PROVE  Answers(m, i + k, k)
    BY DEF CallsAreFollowed
  <2>1. k \in 1..Len(m[i].calls) /\ Len(m[i].calls) \in Nat
    BY <1>1, CallsOfRecord
  <2>2. i \in DOMAIN ms /\ m[i] = ms[i] /\ (i + k) - k = i
    BY <1>1, <1>3, <2>1
  <2>3. CASE i + k \in DOMAIN ms
    <3>1. Answers(ms, i + k, k)
      BY <2>2, <2>3 DEF OpenPaired, CallsAreFollowed
    <3> QED BY <3>1, <2>2, <2>3, <1>1 DEF Answers
  <2>4. CASE i + k = Len(ms) + 1
    <3>1. ~Answered(ms, i)
      BY <2>1, <2>2, <2>4, <1>1 DEF Answered
    <3>2. i = c
      BY <3>1, <2>2 DEF OpenPaired, c
    <3>3. k = a + 1
      <4>1. c = Len(ms) - a
        BY DEF c
      <4>2. (Len(ms) - a) + k = Len(ms) + 1
        BY <4>1, <3>2, <2>4
      <4>3. k \in Int /\ Len(ms) \in Int /\ a \in Int
        BY <2>1, <1>1
      <4> HIDE DEF c
      <4> QED BY <4>2, <4>3
    <3> QED BY <3>2, <3>3, <2>2, <2>4, <1>1, <1>2 DEF Answers
  <2> QED BY <2>3, <2>4, <1>1
<1>6. \A i \in DOMAIN m : m[i].kind = "tool_call" /\ i # c => Answered(m, i)
  <2> SUFFICES ASSUME NEW i \in DOMAIN m, m[i].kind = "tool_call", i # c
               PROVE  Answered(m, i)
    OBVIOUS
  <2>1. i \in DOMAIN ms /\ m[i] = ms[i] /\ Answered(ms, i)
    BY <1>1, <1>3 DEF OpenPaired, c
  <2>2. Len(ms[i].calls) \in Nat
    BY <2>1, CallsOfRecord
  <2> QED BY <2>1, <2>2, <1>1 DEF Answered
<1>7. ASSUME a + 1 < Len(p)
      PROVE  OpenPaired(m, p, a + 1)
  BY <1>2, <1>4, <1>5, <1>6, <1>7 DEF OpenPaired
<1>8. ASSUME a + 1 >= Len(p)
      PROVE  OpenPaired(m, <<>>, 0)
  <2>1. Answered(m, c)
    BY <1>1, <1>2, <1>8 DEF Answered
  <2> QED BY <2>1, <1>4, <1>5, <1>6 DEF OpenPaired
<1> QED BY <1>7, <1>8 DEF m

(***************************************************************************)
(* A summary in place of what precedes KeepIndex leaves a typed, complete  *)
(* history; every turn with a record that has text is still in it.         *)
(***************************************************************************)
LEMMA SummarizedProperties ==
  ASSUME NEW ms \in Seq(Record), ms # <<>>, NEW n \in Nat \ {0}
  PROVE  /\ Summarized(ms, n) \in Seq(Record)
         /\ Summarized(ms, n) # <<>>
         /\ Len(Summarized(ms, n)) = 1 + Len(Kept(ms))
         /\ Kept(ms) \in Seq(Record)
         /\ Len(Kept(ms)) = Len(ms) - KeepIndex(ms) + 1
         /\ Summarized(ms, n)[1] = SummaryOf(Older(ms), n)
         /\ \A i \in KeepIndex(ms)..Len(ms) :
              Summarized(ms, n)[i - KeepIndex(ms) + 2] = ms[i]
<1> DEFINE K == KeepIndex(ms)
<1>1. K \in 1..Len(ms) /\ Len(ms) \in Nat /\ DOMAIN ms = 1..Len(ms)
      /\ \A i \in 1..Len(ms) : ms[i] \in Record
  BY KeepIndexProperties
<1> HIDE DEF K
<1>2. /\ Kept(ms) \in Seq(Record)
      /\ Len(Kept(ms)) = Len(ms) - K + 1
      /\ \A i \in 1..(Len(ms) - K + 1) : Kept(ms)[i] = ms[K + i - 1]
  <2>1. K \in Int /\ Len(ms) \in Int /\ \A i \in K..Len(ms) : ms[i] \in Record
    BY <1>1
  <2>2. /\ SubSeq(ms, K, Len(ms)) \in Seq(Record)
        /\ Len(SubSeq(ms, K, Len(ms))) = IF K <= Len(ms) THEN Len(ms) - K + 1 ELSE 0
        /\ \A i \in 1..(Len(ms) - K + 1) : SubSeq(ms, K, Len(ms))[i] = ms[K + i - 1]
    BY <2>1, SubSeqProperties
  <2> QED BY <2>2, <1>1 DEF Kept, K
<1>3. /\ Older(ms) \in Seq(Record)
      /\ Len(Older(ms)) = K - 1
  <2>1. 1 \in Int /\ K - 1 \in Int /\ \A i \in 1..(K - 1) : ms[i] \in Record
    BY <1>1
  <2>2. /\ SubSeq(ms, 1, K - 1) \in Seq(Record)
        /\ Len(SubSeq(ms, 1, K - 1)) = IF 1 <= K - 1 THEN K - 1 - 1 + 1 ELSE 0
    BY <2>1, SubSeqProperties
  <2> QED BY <2>2, <1>1 DEF Older, K
<1>4. SummaryOf(Older(ms), n) \in Record
  <2> DEFINE S == UNION {Older(ms)[i].turns : i \in {j \in DOMAIN Older(ms) : Older(ms)[j].text}}
  <2>0. \A i \in DOMAIN Older(ms) : Older(ms)[i] \in Record
    BY <1>3
  <2>1. \A i \in DOMAIN Older(ms) : Older(ms)[i].turns \subseteq Turns
    BY <2>0 DEF Record
  <2>2. S \in SUBSET Turns
    BY <2>1
  <2> HIDE DEF S
  <2>3. Summary(S, n) \in Record
    <3>1. <<>> \in Seq(CallIds)
      OBVIOUS
    <3> QED BY <2>2, <3>1 DEF Summary, Plain, Record, Kinds
  <2> QED BY <2>3 DEF SummaryOf, S
<1>5. <<SummaryOf(Older(ms), n)>> \in Seq(Record) /\ Len(<<SummaryOf(Older(ms), n)>>) = 1
  BY <1>4
<1>6. /\ Summarized(ms, n) \in Seq(Record)
      /\ Len(Summarized(ms, n)) = 1 + Len(Kept(ms))
      /\ \A i \in 1..(1 + Len(Kept(ms))) : Summarized(ms, n)[i] =
           IF i <= 1 THEN <<SummaryOf(Older(ms), n)>>[i] ELSE Kept(ms)[i - 1]
  BY <1>2, <1>5, ConcatProperties DEF Summarized
<1>7. Summarized(ms, n)[1] = SummaryOf(Older(ms), n)
  BY <1>1, <1>2, <1>6
<1>8. \A i \in K..Len(ms) : Summarized(ms, n)[i - K + 2] = ms[i]
  <2> TAKE i \in K..Len(ms)
  <2> DEFINE j == i - K + 2
  <2>1. j \in 1..(1 + Len(Kept(ms))) /\ ~(j <= 1) /\ j - 1 \in 1..(Len(ms) - K + 1)
        /\ K + (j - 1) - 1 = i
    BY <1>1, <1>2
  <2>2. Summarized(ms, n)[j] = Kept(ms)[j - 1]
    BY <2>1, <1>6
  <2>3. Kept(ms)[j - 1] = ms[K + (j - 1) - 1]
    BY <2>1, <1>2
  <2> QED BY <2>1, <2>2, <2>3
<1>9. Summarized(ms, n) # <<>>
  BY <1>6, <1>2, <1>1
<1> QED BY <1>2, <1>6, <1>7, <1>8, <1>9 DEF K

(***************************************************************************)
(* Cutting at KeepIndex never tears a tool call from its outputs           *)
(* (summarize.go:104-112).                                                 *)
(***************************************************************************)
THEOREM SummarizedPaired ==
  ASSUME NEW ms \in Seq(Record), ms # <<>>, NEW n \in Nat \ {0}, Paired(ms)
  PROVE  Paired(Summarized(ms, n))
<1> DEFINE m == Summarized(ms, n)
           K == KeepIndex(ms)
<1>1. /\ K \in 1..Len(ms) /\ Len(ms) \in Nat /\ DOMAIN ms = 1..Len(ms)
      /\ m \in Seq(Record) /\ Len(m) = Len(ms) - K + 2 /\ DOMAIN m = 1..Len(m)
  <2>1. K \in 1..Len(ms) /\ Len(ms) \in Nat /\ DOMAIN ms = 1..Len(ms)
    BY KeepIndexProperties
  <2>2. m \in Seq(Record) /\ Len(m) = 1 + (Len(ms) - K + 1)
    BY SummarizedProperties
  <2> QED BY <2>1, <2>2
<1>2. \A i \in K..Len(ms) : m[i - K + 2] = ms[i]
  BY SummarizedProperties, Zenon
<1>3. m[1].kind = "summary"
  <2>1. m[1] = SummaryOf(Older(ms), n)
    BY SummarizedProperties, Zenon
  <2> HIDE DEF m
  <2> QED BY <2>1 DEF SummaryOf, Summary, Plain
<1>4. ms[K].kind # "tool_output"
  BY <1>1, KeepIndexProperties DEF Paired, OutputsHaveCalls
<1> HIDE DEF m, K
<1>5. ASSUME NEW j \in DOMAIN m, m[j].kind \in {"tool_call", "tool_output"}
      PROVE  /\ j + K - 2 \in K..Len(ms) /\ j + K - 2 \in DOMAIN ms
             /\ m[j] = ms[j + K - 2]
  <2>1. j # 1
    BY <1>3, <1>5
  <2>2. j + K - 2 \in K..Len(ms) /\ (j + K - 2) - K + 2 = j
    BY <2>1, <1>1
  <2>3. m[(j + K - 2) - K + 2] = ms[j + K - 2]
    BY <2>2, <1>2
  <2> QED BY <2>2, <2>3, <1>1
<1>6. ASSUME NEW i \in DOMAIN ms, NEW k \in 1..(i - 1), i >= K,
             ms[i - k].kind = "tool_call", k \in DOMAIN ms[i - k].calls
      PROVE  i - k >= K
  <2> SUFFICES ASSUME i - k < K PROVE FALSE
    BY <1>1
  <2> DEFINE q == K - (i - k)
  <2>1. i - k \in DOMAIN ms /\ q \in 1..k /\ (i - k) + q = K /\ K \in DOMAIN ms
    BY <1>1, <1>6
  <2>2. DOMAIN ms[i - k].calls = 1..Len(ms[i - k].calls) /\ Len(ms[i - k].calls) \in Nat
    BY <2>1, CallsOfRecord
  <2>3. q \in DOMAIN ms[i - k].calls
    <3>1. k \in 1..Len(ms[i - k].calls)
      BY <2>2, <1>6
    <3>2. \A L \in Nat : k \in 1..L /\ q \in 1..k => q \in 1..L
      OBVIOUS
    <3> QED BY <3>1, <3>2, <2>1, <2>2, Zenon
  <2> HIDE DEF q
  <2>4. Answers(ms, (i - k) + q, q)
    BY <2>1, <2>3, <1>6 DEF Paired, CallsAreFollowed
  <2> QED BY <2>1, <2>4, <1>4 DEF Answers
<1>7. OutputsHaveCalls(m)
  <2> SUFFICES ASSUME NEW j \in DOMAIN m, m[j].kind = "tool_output"
               PROVE  \E k \in 1..(j - 1) : /\ m[j - k].kind = "tool_call"
                                            /\ k \in DOMAIN m[j - k].calls
                                            /\ m[j].call = m[j - k].calls[k]
    BY DEF OutputsHaveCalls
  <2> DEFINE i == j + K - 2
  <2>1. i \in K..Len(ms) /\ i \in DOMAIN ms /\ m[j] = ms[i]
    BY <1>5
  <2>2. PICK k \in 1..(i - 1) : /\ ms[i - k].kind = "tool_call"
                                /\ k \in DOMAIN ms[i - k].calls
                                /\ ms[i].call = ms[i - k].calls[k]
    BY <2>1 DEF Paired, OutputsHaveCalls
  <2>3. i - k >= K
    BY <2>1, <2>2, <1>6, <1>1
  <2>4. i - k \in K..Len(ms) /\ k \in 1..(j - 1) /\ (i - k) - K + 2 = j - k
    <3>1. j \in Int /\ K \in 1..Len(ms) /\ Len(ms) \in Nat /\ i \in K..Len(ms)
      BY <2>1, <1>1
    <3>2. k \in Nat \ {0} /\ k <= i - 1 /\ i - k >= K
      BY <3>1, <2>3
    <3> QED BY <3>1, <3>2
  <2>5. m[(i - k) - K + 2] = ms[i - k]
    BY <2>4, <1>2
  <2> QED BY <2>1, <2>2, <2>4, <2>5
<1>8. CallsAreFollowed(m)
  <2> SUFFICES ASSUME NEW j \in DOMAIN m, m[j].kind = "tool_call",
                      NEW k \in DOMAIN m[j].calls, j + k \in DOMAIN m
               PROVE  Answers(m, j + k, k)
    BY DEF CallsAreFollowed
  <2> DEFINE i == j + K - 2
  <2>1. i \in K..Len(ms) /\ i \in DOMAIN ms /\ m[j] = ms[i]
    BY <1>5
  <2>2. k \in 1..Len(m[j].calls) /\ Len(m[j].calls) \in Nat
    BY <1>1, CallsOfRecord
  <2>3. i + k \in K..Len(ms) /\ i + k \in DOMAIN ms /\ (i + k) - K + 2 = j + k
    <3>1. k \in Nat /\ j \in Nat /\ j + k <= Len(m)
      BY <2>2, <1>1
    <3> QED BY <3>1, <2>1, <1>1
  <2>4. m[(i + k) - K + 2] = ms[i + k]
    BY <2>3, <1>2
  <2>5. Answers(ms, i + k, k)
    BY <2>1, <2>3 DEF Paired, CallsAreFollowed
  <2>6. (i + k) - k = i /\ (j + k) - k = j
    BY <2>1, <2>2, <1>1
  <2> QED BY <2>1, <2>3, <2>4, <2>5, <2>6 DEF Answers
<1>9. ASSUME NEW j \in DOMAIN m, m[j].kind = "tool_call"
      PROVE  Answered(m, j)
  <2> DEFINE i == j + K - 2
  <2>1. i \in DOMAIN ms /\ m[j] = ms[i]
    BY <1>5, <1>9
  <2>2. Answered(ms, i) /\ Len(ms[i].calls) \in Nat
    BY <2>1, <1>9, CallsOfRecord DEF Paired
  <2> QED BY <2>1, <2>2, <1>1 DEF Answered
<1> QED BY <1>7, <1>8, <1>9 DEF Paired, m

(***************************************************************************)
(* A turn that has a record with text still has one after the cut.         *)
(***************************************************************************)
Mentions(ms, t) == \E i \in DOMAIN ms : ms[i].text /\ t \in ms[i].turns

LEMMA SummarizedMentions ==
  ASSUME NEW ms \in Seq(Record), ms # <<>>, NEW n \in Nat \ {0}, NEW t,
         Mentions(ms, t)
  PROVE  Mentions(Summarized(ms, n), t)
<1> DEFINE m == Summarized(ms, n)
           K == KeepIndex(ms)
<1>1. K \in 1..Len(ms) /\ Len(ms) \in Nat /\ DOMAIN ms = 1..Len(ms)
  BY KeepIndexProperties
<1>2. m \in Seq(Record) /\ Len(m) = Len(ms) - K + 2
  <2>1. m \in Seq(Record) /\ Len(m) = 1 + (Len(ms) - K + 1)
    BY SummarizedProperties
  <2> QED BY <2>1, <1>1
<1>3. m[1] = SummaryOf(Older(ms), n) /\ \A i \in K..Len(ms) : m[i - K + 2] = ms[i]
  BY SummarizedProperties, Zenon
<1> HIDE DEF m, K
<1>4. PICK i \in DOMAIN ms : ms[i].text /\ t \in ms[i].turns
  BY DEF Mentions
<1>5. CASE i >= K
  <2>1. i - K + 2 \in DOMAIN m /\ m[i - K + 2] = ms[i]
    <3>1. i \in K..Len(ms) /\ i - K + 2 \in 1..Len(m)
      BY <1>1, <1>2, <1>4, <1>5
    <3> QED BY <3>1, <1>2, <1>3
  <2> QED BY <2>1, <1>4 DEF Mentions, m
<1>6. CASE i < K
  <2>1. /\ Older(ms) \in Seq(Record) /\ DOMAIN Older(ms) = 1..(K - 1)
        /\ \A j \in 1..(K - 1) : Older(ms)[j] = ms[j]
    <3>1. 1 \in Int /\ K - 1 \in Int /\ \A j \in 1..(K - 1) : ms[j] \in Record
      BY <1>1
    <3>2. /\ SubSeq(ms, 1, K - 1) \in Seq(Record)
          /\ Len(SubSeq(ms, 1, K - 1)) = IF 1 <= K - 1 THEN K - 1 - 1 + 1 ELSE 0
          /\ \A j \in 1..(K - 1 - 1 + 1) : SubSeq(ms, 1, K - 1)[j] = ms[1 + j - 1]
      BY <3>1, SubSeqProperties
    <3> QED BY <3>2, <1>1 DEF Older, K
  <2>2. i \in DOMAIN Older(ms) /\ Older(ms)[i] = ms[i]
    BY <2>1, <1>1, <1>6
  <2>3. t \in UNION {Older(ms)[j].turns : j \in {k \in DOMAIN Older(ms) : Older(ms)[k].text}}
    BY <2>2, <1>4
  <2>4. m[1].text /\ t \in m[1].turns
    BY <2>3, <1>3 DEF SummaryOf, Summary, Plain
  <2>5. 1 \in DOMAIN m
    BY <1>1, <1>2
  <2> QED BY <2>4, <2>5 DEF Mentions, m
<1> QED BY <1>1, <1>5, <1>6 DEF m

-----------------------------------------------------------------------------
(* Part 2: types and pairing *)

-----------------------------------------------------------------------------
(* Types *)

\* Max and Min of two integers are what their names say.
LEMMA MaxMinOfTwo ==
  ASSUME NEW a \in Int, NEW b \in Int
  PROVE  /\ Max({a, b}) \in {a, b} /\ Max({a, b}) >= a /\ Max({a, b}) >= b
         /\ Min({a, b}) \in {a, b} /\ Min({a, b}) <= a /\ Min({a, b}) <= b
<1>1. \E x \in {a, b} : \A y \in {a, b} : x >= y
  OBVIOUS
<1>2. \E x \in {a, b} : \A y \in {a, b} : x <= y
  OBVIOUS
<1>3. Max({a, b}) \in {a, b} /\ \A y \in {a, b} : Max({a, b}) >= y
  BY <1>1 DEF Max
<1>4. Min({a, b}) \in {a, b} /\ \A y \in {a, b} : Min({a, b}) <= y
  BY <1>2 DEF Min
<1> QED BY <1>3, <1>4

\* adjustLoadedMessageCount returns a count (agent.go:533-547).
LEMMA AdjustType ==
  ASSUME NEW previousCount \in Nat, NEW previousLoaded \in Nat,
         NEW newContextCount \in Nat, NEW newTotal \in Nat
  PROVE  AdjustLoadedMessageCount(previousCount, previousLoaded, newContextCount, newTotal) \in Nat
<1> DEFINE old == Max({0, newContextCount - (previousCount - previousLoaded)})
<1>1. old \in Int /\ old >= 0
  BY MaxMinOfTwo
<1> HIDE DEF old
<1>2. Min({1 + old, newTotal}) \in Nat
  <2>1. 1 + old \in Int /\ newTotal \in Int /\ 1 + old \in Nat
    BY <1>1
  <2>2. Min({1 + old, newTotal}) \in {1 + old, newTotal}
    BY <2>1, MaxMinOfTwo
  <2> QED BY <2>1, <2>2
<1> QED BY <1>2 DEF AdjustLoadedMessageCount, old

\* A turn that has not run yet is a State.
LEMMA NewStateType == NewState \in State
<1>1. (CHOOSE th \in Threads : TRUE) \in Threads
  BY LoopAssumption
<1>2. <<>> \in Seq(Record) /\ <<>> \in Seq(CallIds)
  OBVIOUS
<1> QED BY <1>1, <1>2, LoopAssumption DEF NewState, State, Stages

\* So is one that ended.
LEMMA EndedType ==
  ASSUME NEW s \in State, NEW o \in {"ok", "failed"}
  PROVE  Ended(s, o) \in State
BY NewStateType DEF Ended, State

\* Loop.Run ends the turn at the last step, or counts the step and goes to the
\* next stage (types.go:50-76).
LEMMA AdvanceCases ==
  ASSUME NEW s \in State, NEW next \in Stages
  PROVE  \/ Advance(s, next) = Ended(s, "failed")
         \/ /\ s.steps + 1 < MaxSteps
            /\ Advance(s, next) = [s EXCEPT !.stage = next, !.steps = s.steps + 1]
<1>1. next # "done"
  BY DEF Stages
<1>2. s.steps \in Nat /\ MaxSteps \in Nat
  BY LoopAssumption DEF State
<1> QED BY <1>1, <1>2 DEF Advance, Failed

-----------------------------------------------------------------------------
(* The inductive invariant *)

Working(s) == s.stage \in Stages \ {"load"}

\* What holds of the State s of turn t at every stage.
Sound(t, s) ==
  /\ s \in State
  /\ Working(s) => /\ s.msgs # <<>>
                   /\ OpenPaired(s.msgs, s.pending, s.answered)
                   /\ Mentions(s.msgs, t)
  /\ s.stage \notin {"route", "call_tools"} => s.pending = <<>>
  /\ s.stage = "call_tools" => s.pending # <<>>
  /\ s.stage # "call_tools" => s.answered = 0
  /\ s.stage = "save" => ~s.restricted
  /\ s.outcome = "ok" => ~s.restricted
  /\ s.stage = "ended" <=> s.outcome # "none"

IInv ==
  /\ store \in [Threads -> Seq(Record)]
  /\ StoredThreadsPaired
  /\ turn \in [Turns -> State]
  /\ \A t \in Turns : Sound(t, turn[t])

\* The invariant asks nothing of a turn that ended, but that success means unrestricted.
LEMMA EndedSound ==
  ASSUME NEW t \in Turns, NEW s \in State, NEW o \in {"ok", "failed"},
         o = "ok" => ~s.restricted
  PROVE  Sound(t, Ended(s, o))
<1>1. Ended(s, o) \in State
  BY EndedType
<1>2. /\ Ended(s, o).stage = "ended" /\ Ended(s, o).outcome = o
      /\ Ended(s, o).pending = <<>> /\ Ended(s, o).answered = 0
      /\ Ended(s, o).restricted = s.restricted
  BY DEF Ended, NewState
<1> QED BY <1>1, <1>2 DEF Sound, Working, Stages

\* A State that is sound at a stage is sound when the loop has gone there, or has
\* given up because of MaxSteps (types.go:50-76).
LEMMA AdvanceSound ==
  ASSUME NEW t \in Turns, NEW s \in State, NEW next \in Stages,
         Sound(t, [s EXCEPT !.stage = next])
  PROVE  Sound(t, Advance(s, next))
<1>1. CASE Advance(s, next) = Ended(s, "failed")
  BY <1>1, EndedSound
<1>2. CASE /\ s.steps + 1 < MaxSteps
           /\ Advance(s, next) = [s EXCEPT !.stage = next, !.steps = s.steps + 1]
  <2> DEFINE old == [s EXCEPT !.stage = next]
             new == [s EXCEPT !.stage = next, !.steps = s.steps + 1]
  <2>1. s.steps + 1 \in 0..(MaxSteps - 1)
    BY <1>2, LoopAssumption DEF State
  <2>2. new \in State
    BY <2>1 DEF State, Stages
  <2>3. /\ new.stage = old.stage /\ new.msgs = old.msgs /\ new.pending = old.pending
        /\ new.answered = old.answered /\ new.restricted = old.restricted
        /\ new.outcome = old.outcome
    BY DEF State
  <2> HIDE DEF old, new
  <2>4. Sound(t, old)
    BY DEF old
  <2>5. Sound(t, new)
    BY <2>2, <2>3, <2>4 DEF Sound, Working
  <2> QED BY <1>2, <2>5 DEF new
<1> QED BY <1>1, <1>2, AdvanceCases

\* A step that changes one turn, to a sound State, and no thread keeps the invariant.
LEMMA SetSound ==
  ASSUME NEW t \in Turns, NEW s, Sound(t, s), IInv, Set(t, s), UNCHANGED store
  PROVE  IInv'
<1>1. s \in State
  BY DEF Sound
<1>2. turn' \in [Turns -> State] /\ \A u \in Turns : turn'[u] = IF u = t THEN s ELSE turn[u]
  BY <1>1 DEF IInv, Set
<1>3. \A u \in Turns : Sound(u, turn'[u])
  BY <1>2, Zenon DEF IInv
<1>4. store' = store
  OBVIOUS
<1>5. StoredThreadsPaired'
  BY <1>4 DEF IInv, StoredThreadsPaired
<1> QED BY <1>2, <1>3, <1>4, <1>5 DEF IInv

-----------------------------------------------------------------------------
(* One lemma per action *)

\* Starting a turn keeps the invariant (agent.go:153-201).
LEMMA RunSound ==
  ASSUME IInv, NEW t \in Turns, Run(t)
  PROVE  IInv'
<1> DEFINE s == turn[t]
<1>1. Sound(t, s) /\ s \in State
  BY DEF IInv, Sound
<1>2. PICK th \in Threads, r \in BOOLEAN :
        Set(t, [s EXCEPT !.stage = "load", !.thread = th, !.restricted = r])
  BY DEF Run
<1> DEFINE new == [s EXCEPT !.stage = "load", !.thread = th, !.restricted = r]
<1>3. /\ new \in State /\ new.stage = "load" /\ new.outcome = s.outcome
      /\ new.pending = s.pending /\ new.answered = s.answered
  BY <1>1 DEF State, Stages
<1>4. s.stage = "idle"
  BY DEF Run
<1> HIDE DEF new
<1>5. Sound(t, new)
  BY <1>1, <1>3, <1>4 DEF Sound, Working, Stages
<1> QED BY <1>2, <1>5, SetSound DEF Run, new

\* So does the end of its context, at any stage.
LEMMA CancelSound ==
  ASSUME IInv, NEW t \in Turns, Cancel(t)
  PROVE  IInv'
<1> DEFINE s == turn[t]
           new == [s EXCEPT !.cancelled = TRUE]
<1>1. Sound(t, s) /\ s \in State
  BY DEF IInv, Sound
<1>2. /\ new \in State /\ new.stage = s.stage /\ new.outcome = s.outcome
      /\ new.pending = s.pending /\ new.answered = s.answered
      /\ new.msgs = s.msgs /\ new.restricted = s.restricted
  BY <1>1 DEF State
<1>3. Set(t, new)
  BY DEF Cancel
<1> HIDE DEF new
<1>4. Sound(t, new)
  BY <1>1, <1>2 DEF Sound, Working
<1> QED BY <1>3, <1>4, SetSound DEF Cancel

\* So does an error of a stage, and a context found ended by route (types.go:60-62).
LEMMA FailSound ==
  ASSUME IInv, NEW t \in Turns, StageFails(t) \/ RouteCancelled(t)
  PROVE  IInv'
<1>1. turn[t] \in State
  BY DEF IInv
<1>2. Sound(t, Failed(turn[t]))
  BY <1>1, EndedSound DEF Failed
<1> QED BY <1>2, SetSound DEF StageFails, RouteCancelled

\* load copies a complete thread and adds the prompt: the context is complete and
\* speaks of the turn (agent.go:203-228).
LEMMA LoadSound ==
  ASSUME IInv, NEW t \in Turns, Load(t)
  PROVE  IInv'
<1> DEFINE s == turn[t]
           old == store[s.thread]
<1>1. /\ Sound(t, s) /\ s \in State /\ s.stage = "load" /\ s.thread \in Threads
      /\ s.pending = <<>> /\ s.answered = 0 /\ s.outcome = "none"
  BY DEF IInv, Sound, State, Load
<1>2. old \in Seq(Record) /\ Len(old) \in Nat /\ Paired(old)
  BY <1>1 DEF IInv, StoredThreadsPaired
<1> HIDE DEF old
<1>3. PICK n \in Sizes :
        Set(t, Advance([s EXCEPT !.msgs = Append(old, Human(t, n)),
                                 !.base = old, !.loaded = Len(old)], "summarize"))
  BY DEF Load, old
<1>4. n \in Nat \ {0} /\ {} \in SUBSET Turns
  BY LoopAssumption
<1>5. Human(t, n) \in Record
  BY <1>4, PlainTypes
<1>6. Human(t, n).kind = "human" /\ Human(t, n).text /\ t \in Human(t, n).turns
  BY DEF Human, Plain
<1> DEFINE ms == Append(old, Human(t, n))
<1>7. ms \in Seq(Record) /\ ms # <<>> /\ Len(ms) \in DOMAIN ms /\ ms[Len(ms)] = Human(t, n)
  BY <1>2, <1>5
<1>8. Paired(ms)
  BY <1>2, <1>5, <1>6, AppendPlain
<1> HIDE DEF ms
<1>9. OpenPaired(ms, <<>>, 0) /\ Mentions(ms, t)
  BY <1>6, <1>7, <1>8, OpenPairedNone DEF Mentions
<1> DEFINE new == [s EXCEPT !.msgs = ms, !.base = old, !.loaded = Len(old)]
           next == [new EXCEPT !.stage = "summarize"]
<1>10. new \in State /\ next \in State
  BY <1>1, <1>2, <1>7 DEF State, Stages
<1>11. /\ next.stage = "summarize" /\ next.msgs = ms /\ next.pending = <<>>
       /\ next.answered = 0 /\ next.outcome = "none"
  BY <1>1 DEF State
<1>12. Sound(t, next)
  <2> HIDE DEF next
  <2> QED BY <1>7, <1>9, <1>10, <1>11 DEF Sound, Working, Stages
<1>13. Sound(t, Advance(new, "summarize"))
  BY <1>10, <1>12, AdvanceSound DEF Stages
<1> QED BY <1>3, <1>13, SetSound DEF Load, ms

\* summarize cuts the context where no call is torn from its outputs
\* (agent.go:230-258).
LEMMA SummarizeSound ==
  ASSUME IInv, NEW t \in Turns, SummarizeThread(t)
  PROVE  IInv'
<1> DEFINE s == turn[t]
<1>1. /\ Sound(t, s) /\ s \in State /\ s.stage = "summarize" /\ s.outcome = "none"
      /\ s.pending = <<>> /\ s.answered = 0 /\ s.msgs # <<>> /\ s.msgs \in Seq(Record)
      /\ Paired(s.msgs) /\ Mentions(s.msgs, t) /\ s.loaded \in Nat
  BY OpenPairedNone DEF IInv, Sound, State, SummarizeThread, Working, Stages
<1>2. ASSUME NEW new \in State, Set(t, Advance(new, "call_model")),
             new.outcome = "none", new.pending = <<>>, new.answered = 0, new.msgs # <<>>,
             Paired(new.msgs), Mentions(new.msgs, t)
      PROVE  IInv'
  <2> DEFINE next == [new EXCEPT !.stage = "call_model"]
  <2>1. next \in State
    BY DEF State, Stages
  <2>2. /\ next.stage = "call_model" /\ next.msgs = new.msgs /\ next.pending = <<>>
        /\ next.answered = 0 /\ next.outcome = "none"
    BY <1>2 DEF State
  <2>3. Sound(t, next)
    <3> HIDE DEF next
    <3> QED BY <1>2, <2>1, <2>2, OpenPairedNone DEF Sound, Working, Stages
  <2>4. Sound(t, Advance(new, "call_model"))
    BY <2>3, AdvanceSound DEF Stages
  <2> QED BY <1>2, <2>4, SetSound DEF SummarizeThread
<1>3. CASE ~NeedsSummary(s.msgs)
  BY <1>1, <1>2, <1>3 DEF SummarizeThread
<1>4. CASE NeedsSummary(s.msgs)
  <2> DEFINE ms(n) == Summarized(s.msgs, n)
             loaded(n) == AdjustLoadedMessageCount(
                            Len(s.msgs), s.loaded, Len(Kept(s.msgs)), Len(ms(n)))
  <2>1. PICK n \in Sizes :
          Set(t, Advance([s EXCEPT !.msgs = ms(n), !.loaded = loaded(n)], "call_model"))
    BY <1>4 DEF SummarizeThread
  <2>2. n \in Nat \ {0}
    BY LoopAssumption
  <2>3. ms(n) \in Seq(Record) /\ ms(n) # <<>> /\ Kept(s.msgs) \in Seq(Record)
    BY <1>1, <2>2, SummarizedProperties
  <2>4. Paired(ms(n)) /\ Mentions(ms(n), t)
    BY <1>1, <2>2, SummarizedPaired, SummarizedMentions
  <2>5. loaded(n) \in Nat
    <3>1. /\ Len(s.msgs) \in Nat /\ Len(Kept(s.msgs)) \in Nat /\ Len(ms(n)) \in Nat
      BY <1>1, <2>3
    <3> HIDE DEF ms
    <3> QED BY <3>1, <1>1, AdjustType
  <2> HIDE DEF ms, loaded
  <2> DEFINE new == [s EXCEPT !.msgs = ms(n), !.loaded = loaded(n)]
  <2>6. new \in State
    BY <1>1, <2>3, <2>5 DEF State
  <2>7. /\ new.msgs = ms(n) /\ new.pending = <<>> /\ new.answered = 0 /\ new.outcome = "none"
    BY <1>1 DEF State
  <2> HIDE DEF new
  <2>8. Set(t, Advance(new, "call_model"))
    BY <2>1 DEF new
  <2> QED BY <2>3, <2>4, <2>6, <2>7, <2>8, <1>2
<1> QED BY <1>3, <1>4
\* Appending a record keeps what the history mentions.
LEMMA AppendMentions ==
  ASSUME NEW ms \in Seq(Record), NEW r \in Record, NEW t, Mentions(ms, t)
  PROVE  Mentions(Append(ms, r), t)
<1>1. PICK i \in DOMAIN ms : ms[i].text /\ t \in ms[i].turns
  BY DEF Mentions
<1>2. i \in DOMAIN Append(ms, r) /\ Append(ms, r)[i] = ms[i]
  OBVIOUS
<1> QED BY <1>1, <1>2 DEF Mentions

\* A reply of the model opens the calls it asks for on a complete history, and
\* leaves it complete when it asks for none (agent.go:318-335).
LEMMA ReplyOpens ==
  ASSUME NEW ms \in Seq(Record), Paired(ms), NEW t \in Turns, Mentions(ms, t), ms # <<>>,
         NEW text \in BOOLEAN, NEW ids \in Seq(CallIds), NEW n \in Nat \ {0}
  PROVE  LET m == ms \o ReplyRecords(t, text, ids, n)
         IN  /\ m \in Seq(Record) /\ m # <<>>
             /\ OpenPaired(m, ids, 0)
             /\ Mentions(m, t)
<1> DEFINE a == Assistant(t, n)
           c == ToolCall(t, ids, n)
           head == IF text THEN Append(ms, a) ELSE ms
<1>1. a \in Record /\ c \in Record
  BY PlainTypes, ToolRecordTypes
<1>2. a.kind = "assistant" /\ c.kind = "tool_call" /\ c.calls = ids
  BY DEF Assistant, ToolCall, Plain
<1> HIDE DEF a, c
<1>3. /\ head \in Seq(Record) /\ head # <<>> /\ Paired(head) /\ Mentions(head, t)
  <2>1. CASE text
    <3>1. Paired(Append(ms, a)) /\ Mentions(Append(ms, a), t)
      BY <1>1, <1>2, AppendPlain, AppendMentions
    <3>2. Append(ms, a) \in Seq(Record) /\ Append(ms, a) # <<>>
      BY <1>1
    <3> QED BY <2>1, <3>1, <3>2
  <2>2. CASE ~text
    BY <2>2
  <2> QED BY <2>1, <2>2
<1>4. ms \o ReplyRecords(t, text, ids, n) = IF ids # <<>> THEN Append(head, c) ELSE head
  <2>1. /\ ms \o (<<a>> \o <<c>>) = Append(Append(ms, a), c)
        /\ ms \o (<<a>> \o <<>>) = Append(ms, a)
        /\ ms \o (<<>> \o <<c>>) = Append(ms, c)
        /\ ms \o (<<>> \o <<>>) = ms
    BY <1>1
  <2>2. ReplyRecords(t, text, ids, n) =
          (IF text THEN <<a>> ELSE <<>>) \o (IF ids # <<>> THEN <<c>> ELSE <<>>)
    BY DEF ReplyRecords, a, c
  <2> QED BY <2>1, <2>2
<1> HIDE DEF head
<1>5. CASE ids = <<>>
  BY <1>3, <1>4, <1>5, OpenPairedNone
<1>6. CASE ids # <<>>
  <2>1. OpenPaired(Append(head, c), ids, 0) /\ Mentions(Append(head, c), t)
    BY <1>1, <1>2, <1>3, <1>6, AppendCall, AppendMentions
  <2>2. Append(head, c) \in Seq(Record) /\ Append(head, c) # <<>>
    BY <1>1, <1>3
  <2> QED BY <2>1, <2>2, <1>4, <1>6
<1> QED BY <1>5, <1>6

\* callModel adds the reply; its calls are the pending ones
\* (agent.go:260-339).
LEMMA CallModelSound ==
  ASSUME IInv, NEW t \in Turns, CallModel(t)
  PROVE  IInv'
<1> DEFINE s == turn[t]
<1>1. /\ Sound(t, s) /\ s \in State /\ s.stage = "call_model" /\ s.outcome = "none"
      /\ s.pending = <<>> /\ s.answered = 0 /\ s.msgs # <<>> /\ s.msgs \in Seq(Record)
      /\ Paired(s.msgs) /\ Mentions(s.msgs, t)
  BY OpenPairedNone DEF IInv, Sound, State, CallModel, Working, Stages
<1>2. PICK text \in BOOLEAN, ids \in Replies, n \in Sizes :
        Set(t, Advance([s EXCEPT !.msgs = s.msgs \o ReplyRecords(t, text, ids, n),
                                 !.pending = IF ids # <<>> THEN ids ELSE s.pending,
                                 !.replied = s.replied \/ text,
                                 !.force = FALSE], "route"))
  BY DEF CallModel
<1> DEFINE m == s.msgs \o ReplyRecords(t, text, ids, n)
<1>3. ids \in Seq(CallIds) /\ n \in Nat \ {0} /\ (s.replied \/ text) \in BOOLEAN
  BY <1>1, LoopAssumption DEF State
<1>4. m \in Seq(Record) /\ m # <<>> /\ OpenPaired(m, ids, 0) /\ Mentions(m, t)
  BY <1>1, <1>3, ReplyOpens
<1>5. (IF ids # <<>> THEN ids ELSE s.pending) = ids
  BY <1>1
<1> HIDE DEF m
<1> DEFINE new == [s EXCEPT !.msgs = m, !.pending = ids,
                            !.replied = s.replied \/ text, !.force = FALSE]
           next == [new EXCEPT !.stage = "route"]
<1>6. new \in State /\ next \in State
  BY <1>1, <1>3, <1>4 DEF State, Stages
<1>7. /\ next.stage = "route" /\ next.msgs = m /\ next.pending = ids
      /\ next.answered = 0 /\ next.outcome = "none"
  BY <1>1 DEF State
<1>8. Sound(t, next)
  <2> HIDE DEF next
  <2> QED BY <1>4, <1>6, <1>7 DEF Sound, Working, Stages
<1>9. Sound(t, Advance(new, "route"))
  BY <1>6, <1>8, AdvanceSound DEF Stages
<1>10. Set(t, Advance(new, "route"))
  BY <1>2, <1>5 DEF m
<1> QED BY <1>9, <1>10, SetSound DEF CallModel

\* route sends a turn with pending calls to callTools (agent.go:391-393).
LEMMA RouteToToolsSound ==
  ASSUME IInv, NEW t \in Turns, RouteToTools(t)
  PROVE  IInv'
<1> DEFINE s == turn[t]
           next == [s EXCEPT !.stage = "call_tools"]
<1>1. /\ Sound(t, s) /\ s \in State /\ s.stage = "route" /\ s.pending # <<>>
      /\ s.outcome = "none" /\ s.answered = 0 /\ s.msgs # <<>>
      /\ OpenPaired(s.msgs, s.pending, 0) /\ Mentions(s.msgs, t)
  BY DEF IInv, Sound, RouteToTools, Working, Stages
<1>2. /\ next \in State /\ next.stage = "call_tools" /\ next.msgs = s.msgs
      /\ next.pending = s.pending /\ next.answered = 0 /\ next.outcome = "none"
  BY <1>1 DEF State, Stages
<1>3. Sound(t, next)
  <2> HIDE DEF next
  <2> QED BY <1>1, <1>2 DEF Sound, Working, Stages
<1>4. Sound(t, Advance(s, "call_tools"))
  BY <1>1, <1>3, AdvanceSound DEF Stages
<1> QED BY <1>4, SetSound DEF RouteToTools

\* route sends a restricted turn without calls back to the model at most
\* MaxRestrictAttempts times (agent.go:395-402).
LEMMA RouteRestrictedSound ==
  ASSUME IInv, NEW t \in Turns, RouteRestricted(t)
  PROVE  IInv'
<1> DEFINE s == turn[t]
           more == [s EXCEPT !.attempts = s.attempts + 1]
           new  == [more EXCEPT !.force = TRUE]
           next == [new EXCEPT !.stage = "call_model"]
<1>1. /\ Sound(t, s) /\ s \in State /\ s.stage = "route" /\ s.pending = <<>>
      /\ s.outcome = "none" /\ s.answered = 0 /\ s.msgs # <<>>
      /\ OpenPaired(s.msgs, s.pending, 0) /\ Mentions(s.msgs, t)
      /\ s.attempts \in Nat /\ more.attempts = s.attempts + 1
  BY LoopAssumption DEF IInv, Sound, RouteRestricted, Working, Stages, State
<1>2. Set(t, IF more.attempts > MaxRestrictAttempts THEN Failed(more)
             ELSE Advance(new, "call_model"))
  BY DEF RouteRestricted
<1>3. CASE s.attempts + 1 > MaxRestrictAttempts
  <2>1. Failed(more) = Failed(s)
    BY <1>1 DEF Failed, Ended, NewState, State
  <2>2. Sound(t, Failed(s))
    BY <1>1, EndedSound DEF Failed
  <2>3. Set(t, Failed(s))
    BY <1>1, <1>2, <1>3, <2>1
  <2> QED BY <2>2, <2>3, SetSound DEF RouteRestricted
<1>4. CASE ~(s.attempts + 1 > MaxRestrictAttempts)
  <2>1. s.attempts + 1 \in 0..MaxRestrictAttempts
    BY <1>1, <1>4, LoopAssumption
  <2>2. new \in State /\ next \in State
    BY <1>1, <2>1 DEF State, Stages
  <2>3. /\ next.stage = "call_model" /\ next.msgs = s.msgs
        /\ next.pending = s.pending /\ next.answered = 0 /\ next.outcome = "none"
    BY <1>1 DEF State
  <2>4. Sound(t, next)
    <3> HIDE DEF next
    <3> QED BY <1>1, <2>2, <2>3 DEF Sound, Working, Stages
  <2>5. Sound(t, Advance(new, "call_model"))
    BY <2>2, <2>4, AdvanceSound DEF Stages
  <2>6. Set(t, Advance(new, "call_model"))
    <3> HIDE DEF new
    <3> QED BY <1>1, <1>2, <1>4
  <2> QED BY <2>5, <2>6, SetSound DEF RouteRestricted
<1> QED BY <1>3, <1>4

\* Only a turn with no call left open reaches save (agent.go:403).
LEMMA RouteToSaveSound ==
  ASSUME IInv, NEW t \in Turns, RouteToSave(t)
  PROVE  IInv'
<1> DEFINE s == turn[t]
           next == [s EXCEPT !.stage = "save"]
<1>1. /\ Sound(t, s) /\ s \in State /\ s.stage = "route" /\ s.pending = <<>>
      /\ s.outcome = "none" /\ s.answered = 0 /\ s.msgs # <<>> /\ ~s.restricted
      /\ OpenPaired(s.msgs, s.pending, 0) /\ Mentions(s.msgs, t)
  BY DEF IInv, Sound, RouteToSave, Working, Stages
<1>2. /\ next \in State /\ next.stage = "save" /\ next.msgs = s.msgs
      /\ next.pending = s.pending /\ next.answered = 0 /\ next.outcome = "none"
      /\ next.restricted = s.restricted
  BY <1>1 DEF State, Stages
<1>3. Sound(t, next)
  <2> HIDE DEF next
  <2> QED BY <1>1, <1>2 DEF Sound, Working, Stages
<1>4. Sound(t, Advance(s, "save"))
  BY <1>1, <1>3, AdvanceSound DEF Stages
<1> QED BY <1>4, SetSound DEF RouteToSave

\* callTools adds the outputs in the order of the calls, and leaves none out
\* (agent.go:406-417).
LEMMA ExecuteToolSound ==
  ASSUME IInv, NEW t \in Turns, ExecuteTool(t)
  PROVE  IInv'
<1> DEFINE s == turn[t]
           k == s.answered + 1
<1>1. /\ Sound(t, s) /\ s \in State /\ s.stage = "call_tools" /\ s.pending # <<>>
      /\ s.outcome = "none" /\ s.answered \in Nat /\ s.msgs # <<>> /\ s.msgs \in Seq(Record)
      /\ OpenPaired(s.msgs, s.pending, s.answered) /\ Mentions(s.msgs, t)
      /\ s.pending \in Seq(CallIds)
  BY DEF IInv, Sound, ExecuteTool, Working, Stages, State
<1>2. PICK n \in Sizes :
        LET msgs == Append(s.msgs, ToolOutput(t, s.pending[k], n)) IN
        Set(t, IF k < Len(s.pending)
                 THEN [s EXCEPT !.msgs = msgs, !.answered = k]
                 ELSE Advance([s EXCEPT !.msgs = msgs, !.answered = 0, !.pending = <<>>],
                              "call_model"))
  BY DEF ExecuteTool
<1> DEFINE out == ToolOutput(t, s.pending[k], n)
           m   == Append(s.msgs, out)
<1>3. out \in Record
  <2>1. k \in DOMAIN s.pending /\ n \in Nat \ {0}
    BY <1>1, LoopAssumption DEF OpenPaired
  <2>2. s.pending[k] \in CallIds
    BY <1>1, <2>1
  <2> QED BY <2>1, <2>2, ToolRecordTypes
<1>4. out.kind = "tool_output" /\ out.call = s.pending[s.answered + 1]
  BY DEF ToolOutput, Plain
<1> HIDE DEF out
<1>5. m \in Seq(Record) /\ m # <<>> /\ Mentions(m, t)
  BY <1>1, <1>3, AppendMentions
<1>6. /\ s.answered + 1 < Len(s.pending) => OpenPaired(m, s.pending, s.answered + 1)
      /\ s.answered + 1 >= Len(s.pending) => OpenPaired(m, <<>>, 0)
  BY <1>1, <1>3, <1>4, AppendOutput
<1>7. k \in Nat /\ Len(s.pending) \in Nat
  BY <1>1
<1> HIDE DEF m
<1>8. CASE k < Len(s.pending)
  <2> DEFINE new == [s EXCEPT !.msgs = m, !.answered = k]
  <2>1. /\ new \in State /\ new.stage = "call_tools" /\ new.msgs = m
        /\ new.pending = s.pending /\ new.answered = k /\ new.outcome = "none"
    BY <1>1, <1>5, <1>7 DEF State
  <2>2. Sound(t, new)
    <3> HIDE DEF new
    <3> QED BY <1>1, <1>5, <1>6, <1>8, <2>1 DEF Sound, Working, Stages
  <2>3. Set(t, new)
    BY <1>2, <1>8 DEF m, out
  <2> QED BY <2>2, <2>3, SetSound DEF ExecuteTool
<1>9. CASE ~(k < Len(s.pending))
  <2> DEFINE new  == [s EXCEPT !.msgs = m, !.answered = 0, !.pending = <<>>]
             next == [new EXCEPT !.stage = "call_model"]
  <2>1. new \in State /\ next \in State
    <3>1. <<>> \in Seq(CallIds) /\ 0 \in Nat
      OBVIOUS
    <3>2. new \in State
      BY <1>1, <1>5, <3>1 DEF State
    <3> QED BY <3>2 DEF State, Stages
  <2>2. /\ next.stage = "call_model" /\ next.msgs = m
        /\ next.pending = <<>> /\ next.answered = 0 /\ next.outcome = "none"
    BY <1>1 DEF State
  <2>3. Sound(t, next)
    <3> HIDE DEF next
    <3>1. OpenPaired(m, <<>>, 0)
      BY <1>6, <1>7, <1>9
    <3> QED BY <3>1, <1>5, <2>1, <2>2 DEF Sound, Working, Stages
  <2>4. Sound(t, Advance(new, "call_model"))
    BY <2>1, <2>3, AdvanceSound DEF Stages
  <2>5. Set(t, Advance(new, "call_model"))
    BY <1>2, <1>9 DEF m, out
  <2> QED BY <2>4, <2>5, SetSound DEF ExecuteTool
<1> QED BY <1>8, <1>9

\* save writes a complete history (agent.go:456-459).
LEMMA SaveSound ==
  ASSUME IInv, NEW t \in Turns, Save(t)
  PROVE  IInv'
<1> DEFINE s  == turn[t]
           th == s.thread
<1>1. /\ Sound(t, s) /\ s \in State /\ s.stage = "save" /\ th \in Threads
      /\ s.pending = <<>> /\ ~s.restricted /\ s.msgs \in Seq(Record) /\ Paired(s.msgs)
  BY OpenPairedNone DEF IInv, Sound, Save, Working, Stages, State
<1>2. Advance(s, "done") = Ended(s, "ok")
  BY DEF Advance
<1>3. Sound(t, Ended(s, "ok")) /\ Ended(s, "ok") \in State
  BY <1>1, EndedSound, EndedType
<1>4. turn' = [turn EXCEPT ![t] = Ended(s, "ok")]
  BY <1>2 DEF Save, Set
<1>5. turn' \in [Turns -> State] /\ \A u \in Turns : Sound(u, turn'[u])
  <2>1. turn \in [Turns -> State] /\ \A u \in Turns : Sound(u, turn[u])
    BY DEF IInv
  <2>2. turn' \in [Turns -> State]
    BY <1>3, <1>4, <2>1
  <2>3. \A u \in Turns : turn'[u] = IF u = t THEN Ended(s, "ok") ELSE turn[u]
    BY <1>4, <2>1
  <2> QED BY <1>3, <2>1, <2>2, <2>3, Zenon
<1>6. store' = [store EXCEPT ![th] = s.msgs]
  BY DEF Save
<1>7. store' \in [Threads -> Seq(Record)] /\ StoredThreadsPaired'
  <2>1. store \in [Threads -> Seq(Record)] /\ \A h \in Threads : Paired(store[h])
    BY DEF IInv, StoredThreadsPaired
  <2>2. store' \in [Threads -> Seq(Record)]
    BY <1>1, <1>6, <2>1
  <2>3. \A h \in Threads : store'[h] = IF h = th THEN s.msgs ELSE store[h]
    BY <1>6, <2>1
  <2>4. \A h \in Threads : Paired(store'[h])
    BY <1>1, <2>1, <2>3, Zenon
  <2> QED BY <2>2, <2>4 DEF StoredThreadsPaired
<1> QED BY <1>5, <1>7 DEF IInv

-----------------------------------------------------------------------------
(* The theorems *)

\* Every turn idle, every thread empty.
LEMMA InitSound == Init => IInv
<1> SUFFICES ASSUME Init PROVE IInv
  OBVIOUS
<1>1. \A t \in Turns : turn[t] = NewState
  BY DEF Init
<1>2. turn \in [Turns -> State]
  BY NewStateType DEF Init
<1>3. store \in [Threads -> Seq(Record)] /\ \A th \in Threads : store[th] = <<>>
  BY DEF Init
<1>4. StoredThreadsPaired
  BY <1>3, EmptyIsPaired, Zenon DEF StoredThreadsPaired
<1>5. \A t \in Turns : Sound(t, NewState)
  BY NewStateType DEF Sound, Working, Stages, NewState
<1> QED BY <1>1, <1>2, <1>3, <1>4, <1>5 DEF IInv

\* Every action keeps the invariant.
LEMMA NextSound == IInv /\ [Next]_vars => IInv'
<1> SUFFICES ASSUME IInv, [Next]_vars PROVE IInv'
  OBVIOUS
<1>1. CASE UNCHANGED vars
  BY <1>1 DEF vars, IInv, StoredThreadsPaired
<1>2. CASE Next
  <2>1. PICK t \in Turns : Run(t) \/ Cancel(t) \/ Step(t)
    BY <1>2 DEF Next
  <2>2. CASE Run(t)
    BY <2>2, RunSound
  <2>3. CASE Cancel(t)
    BY <2>3, CancelSound
  <2>4. CASE Load(t)
    BY <2>4, LoadSound
  <2>5. CASE SummarizeThread(t)
    BY <2>5, SummarizeSound
  <2>6. CASE CallModel(t)
    BY <2>6, CallModelSound
  <2>7. CASE ExecuteTool(t)
    BY <2>7, ExecuteToolSound
  <2>8. CASE Save(t)
    BY <2>8, SaveSound
  <2>9. CASE RouteCancelled(t) \/ StageFails(t)
    BY <2>9, FailSound
  <2>10. CASE RouteToTools(t)
    BY <2>10, RouteToToolsSound
  <2>11. CASE RouteRestricted(t)
    BY <2>11, RouteRestrictedSound
  <2>12. CASE RouteToSave(t)
    BY <2>12, RouteToSaveSound
  <2> QED BY <2>1, <2>2, <2>3, <2>4, <2>5, <2>6, <2>7, <2>8, <2>9, <2>10, <2>11, <2>12
          DEF Step
<1> QED BY <1>1, <1>2

\* IInv holds in every reachable state.
THEOREM Invariance == Spec => []IInv
<1>1. Init => IInv
  BY InitSound
<1>2. IInv /\ [Next]_vars => IInv'
  BY NextSound
<1> QED BY <1>1, <1>2, PTL DEF Spec

\* Counters, stages and histories keep their types and bounds, whatever the
\* model, the tools and the callers do.
THEOREM TypeCorrect == Spec => []TypeOK
<1>1. IInv => TypeOK
  BY DEF IInv, TypeOK
<1> QED BY <1>1, Invariance, PTL

\* Every saved thread pairs its tool calls with their outputs: for any number of
\* turns and threads, any replies, token counts and bounds (agent.go:260-459).
THEOREM StoredPaired == Spec => []StoredThreadsPaired
<1>1. IInv => StoredThreadsPaired
  BY DEF IInv
<1> QED BY <1>1, Invariance, PTL

\* So is every context handed to the model (agent.go:260-292).
THEOREM ContextsPaired == Spec => []ContextPaired
<1>1. IInv => ContextPaired
  <2> SUFFICES ASSUME IInv, NEW t \in Turns, turn[t].stage = "call_model"
               PROVE  Paired(turn[t].msgs)
    BY DEF ContextPaired
  <2>1. OpenPaired(turn[t].msgs, <<>>, turn[t].answered)
    BY DEF IInv, Sound, Working, Stages
  <2> QED BY <2>1, OpenPairedNone
<1> QED BY <1>1, Invariance, PTL

\* A turn with RestrictOutput never reports success (agent.go:386-404).
THEOREM RestrictedNeverSucceed == Spec => []RestrictedTurnsNeverSucceed
<1>1. IInv => RestrictedTurnsNeverSucceed
  BY DEF IInv, Sound, RestrictedTurnsNeverSucceed
<1> QED BY <1>1, Invariance, PTL

-----------------------------------------------------------------------------
(* Part 3: turns *)

OkTurns == {u \in Turns : turn[u].outcome = "ok"}

\* The history ms of turn t, whose first `loaded' records come from before it:
\* it stands for successful turns and t only, and for all that base stood for;
\* t's records are those behind the first `loaded', beginning with its prompt.
History(t, ms, base, loaded, replied, ok) ==
  /\ \A i \in DOMAIN ms : ms[i].text
  /\ TurnsIn(ms) \subseteq ok \cup {t}
  /\ TurnsIn(base) \subseteq TurnsIn(ms)
  /\ loaded < Len(ms) /\ ms[loaded + 1].kind = "human"
  /\ \A i \in DOMAIN ms : i <= loaded => t \notin ms[i].turns
  /\ \A i \in DOMAIN ms : i > loaded => ms[i].turns = {t}
  /\ replied <=> \E i \in DOMAIN ms : i > loaded /\ ms[i].kind = "assistant"

\* What holds of the State s of turn t, besides Sound.
Tells(t, s, ok) ==
  /\ Working(s) => History(t, s.msgs, s.base, s.loaded, s.replied, ok)
  /\ s.stage \in {"idle", "load", "summarize"} => ~s.replied
  /\ s.stage = "summarize" => s.loaded + 1 = Len(s.msgs)

TurnInv ==
  /\ \A th \in Threads : \A i \in DOMAIN store[th] : store[th][i].text
  /\ \A th \in Threads : TurnsIn(store[th]) \subseteq OkTurns
  /\ \A t \in Turns : Tells(t, turn[t], OkTurns)

-----------------------------------------------------------------------------
(* Histories *)

\* A record of turn t at the end of a history stands for t besides.
LEMMA TurnsInAppend ==
  ASSUME NEW ms \in Seq(Record), NEW r \in Record
  PROVE  TurnsIn(Append(ms, r)) = TurnsIn(ms) \cup r.turns
<1> DEFINE m == Append(ms, r)
<1>1. /\ m \in Seq(Record) /\ DOMAIN m = 1..Len(ms) + 1 /\ Len(ms) \in Nat
      /\ DOMAIN ms = 1..Len(ms) /\ m[Len(ms) + 1] = r /\ \A i \in 1..Len(ms) : m[i] = ms[i]
  OBVIOUS
<1> HIDE DEF m
<1>2. ASSUME NEW t \in TurnsIn(m)
      PROVE  t \in TurnsIn(ms) \cup r.turns
  <2>1. PICK i \in DOMAIN m : t \in m[i].turns
    BY <1>2 DEF TurnsIn
  <2>2. CASE i = Len(ms) + 1
    BY <1>1, <2>1, <2>2
  <2>3. CASE i # Len(ms) + 1
    <3>1. i \in DOMAIN ms /\ m[i] = ms[i]
      BY <1>1, <2>3
    <3> QED BY <2>1, <3>1 DEF TurnsIn
  <2> QED BY <2>2, <2>3
<1>3. ASSUME NEW t \in TurnsIn(ms)
      PROVE  t \in TurnsIn(m)
  <2>1. PICK i \in DOMAIN ms : t \in ms[i].turns
    BY <1>3 DEF TurnsIn
  <2>2. i \in DOMAIN m /\ m[i] = ms[i]
    BY <1>1
  <2> QED BY <2>1, <2>2 DEF TurnsIn
<1>4. ASSUME NEW t \in r.turns
      PROVE  t \in TurnsIn(m)
  <2>1. Len(ms) + 1 \in DOMAIN m
    BY <1>1
  <2> QED BY <1>1, <1>4, <2>1 DEF TurnsIn
<1> QED BY <1>2, <1>3, <1>4 DEF m

\* It moves nothing and is the turn's own.
LEMMA AppendHistory ==
  ASSUME NEW t \in Turns, NEW ms \in Seq(Record), NEW base, NEW loaded \in Nat,
         NEW replied \in BOOLEAN, NEW ok, History(t, ms, base, loaded, replied, ok),
         NEW r \in Record, r.text, r.turns = {t}
  PROVE  History(t, Append(ms, r), base, loaded, replied \/ r.kind = "assistant", ok)
<1> DEFINE m == Append(ms, r)
<1>1. /\ m \in Seq(Record) /\ DOMAIN m = 1..Len(ms) + 1 /\ Len(ms) \in Nat
      /\ Len(m) = Len(ms) + 1
      /\ DOMAIN ms = 1..Len(ms) /\ m[Len(ms) + 1] = r /\ \A i \in 1..Len(ms) : m[i] = ms[i]
  OBVIOUS
<1>2. TurnsIn(m) = TurnsIn(ms) \cup {t}
  BY TurnsInAppend
<1> HIDE DEF m
<1>3. \A i \in DOMAIN m : i = Len(ms) + 1 \/ (i \in DOMAIN ms /\ m[i] = ms[i])
  BY <1>1
<1>4. \A i \in DOMAIN m : m[i].text
  BY <1>1, <1>3 DEF History
<1>5. TurnsIn(m) \subseteq ok \cup {t} /\ TurnsIn(base) \subseteq TurnsIn(m)
  BY <1>2 DEF History
<1>6. loaded < Len(m) /\ m[loaded + 1].kind = "human"
  <2>1. loaded + 1 \in 1..Len(ms)
    BY <1>1 DEF History
  <2> QED BY <1>1, <2>1 DEF History
<1>7. \A i \in DOMAIN m : i <= loaded => t \notin m[i].turns
  <2>1. loaded < Len(ms)
    BY DEF History
  <2> QED BY <1>1, <1>3, <2>1 DEF History
<1>8. \A i \in DOMAIN m : i > loaded => m[i].turns = {t}
  BY <1>1, <1>3 DEF History
<1>9. (replied \/ r.kind = "assistant")
        <=> \E i \in DOMAIN m : i > loaded /\ m[i].kind = "assistant"
  <2>1. replied <=> \E i \in DOMAIN ms : i > loaded /\ ms[i].kind = "assistant"
    BY DEF History
  <2>2. Len(ms) + 1 > loaded /\ Len(ms) + 1 \in DOMAIN m
    BY <1>1 DEF History
  <2>3. \A i \in DOMAIN ms : i \in DOMAIN m /\ m[i] = ms[i]
    BY <1>1
  <2> QED BY <1>1, <1>3, <2>1, <2>2, <2>3
<1> QED BY <1>4, <1>5, <1>6, <1>7, <1>8, <1>9 DEF History, m

\* So is what a reply of the model adds (agent.go:318-335).
LEMMA ReplyHistory ==
  ASSUME NEW t \in Turns, NEW ms \in Seq(Record), NEW base, NEW loaded \in Nat,
         NEW replied \in BOOLEAN, NEW ok, History(t, ms, base, loaded, replied, ok),
         NEW text \in BOOLEAN, NEW ids \in Seq(CallIds), NEW n \in Nat \ {0}
  PROVE  History(t, ms \o ReplyRecords(t, text, ids, n), base, loaded, replied \/ text, ok)
<1> DEFINE a == Assistant(t, n)
           c == ToolCall(t, ids, n)
           head == IF text THEN Append(ms, a) ELSE ms
<1>1. a \in Record /\ c \in Record
  BY PlainTypes, ToolRecordTypes
<1>2. /\ a.kind = "assistant" /\ a.text /\ a.turns = {t}
      /\ c.kind = "tool_call" /\ c.text /\ c.turns = {t}
  BY DEF Assistant, ToolCall, Plain
<1>3. ms \o ReplyRecords(t, text, ids, n) = IF ids # <<>> THEN Append(head, c) ELSE head
  <2> HIDE DEF a, c
  <2>1. /\ ms \o (<<a>> \o <<c>>) = Append(Append(ms, a), c)
        /\ ms \o (<<a>> \o <<>>) = Append(ms, a)
        /\ ms \o (<<>> \o <<c>>) = Append(ms, c)
        /\ ms \o (<<>> \o <<>>) = ms
    BY <1>1
  <2>2. ReplyRecords(t, text, ids, n) =
          (IF text THEN <<a>> ELSE <<>>) \o (IF ids # <<>> THEN <<c>> ELSE <<>>)
    BY DEF ReplyRecords, a, c
  <2> QED BY <2>1, <2>2
<1> HIDE DEF a, c
<1>4. head \in Seq(Record)
  BY <1>1
<1>5. History(t, head, base, loaded, replied \/ text, ok)
  <2>1. CASE text
    <3>1. History(t, Append(ms, a), base, loaded, replied \/ a.kind = "assistant", ok)
      BY <1>1, <1>2, AppendHistory
    <3>2. (replied \/ a.kind = "assistant") = TRUE /\ (replied \/ text) = TRUE
      BY <1>2, <2>1
    <3> QED BY <2>1, <3>1, <3>2
  <2>2. CASE ~text
    <3>1. (replied \/ text) = replied
      BY <2>2
    <3> QED BY <2>2, <3>1
  <2> QED BY <2>1, <2>2
<1> HIDE DEF head
<1>6. CASE ids # <<>>
  <2> DEFINE r == replied \/ text
  <2>1. r \in BOOLEAN /\ (r \/ c.kind = "assistant") = r
    BY <1>2
  <2> HIDE DEF r
  <2>2. History(t, head, base, loaded, r, ok)
    BY <1>5 DEF r
  <2>3. History(t, Append(head, c), base, loaded, r \/ c.kind = "assistant", ok)
    BY <1>1, <1>2, <1>4, <2>1, <2>2, AppendHistory
  <2> QED BY <1>3, <1>6, <2>1, <2>3 DEF r
<1>7. CASE ids = <<>>
  BY <1>3, <1>5, <1>7
<1> QED BY <1>6, <1>7

\* Where the turn's own records begin after a summary: it had added its prompt
\* only (agent.go:230-258, 533-547).
LEMMA AdjustedMark ==
  ASSUME NEW count \in Nat, NEW loaded \in Nat, loaded + 1 = count,
         NEW kept \in Nat \ {0}
  PROVE  AdjustLoadedMessageCount(count, loaded, kept, 1 + kept) = kept
<1>1. count - loaded = 1
  OBVIOUS
<1>2. Max({0, kept - 1}) = kept - 1
  <2>1. 0 \in Int /\ kept - 1 \in Int /\ kept - 1 >= 0
    OBVIOUS
  <2>2. Max({0, kept - 1}) \in {0, kept - 1} /\ Max({0, kept - 1}) >= kept - 1
    BY <2>1, MaxMinOfTwo
  <2> QED BY <2>1, <2>2
<1>3. Min({1 + (kept - 1), 1 + kept}) = kept
  <2>1. 1 + (kept - 1) = kept /\ kept \in Int /\ 1 + kept \in Int /\ kept # 1 + kept
    OBVIOUS
  <2>2. Min({kept, 1 + kept}) \in {kept, 1 + kept} /\ Min({kept, 1 + kept}) <= kept
    BY <2>1, MaxMinOfTwo
  <2> QED BY <2>1, <2>2
<1>4. 1 + kept # kept
  OBVIOUS
<1> QED BY <1>1, <1>2, <1>3, <1>4 DEF AdjustLoadedMessageCount

\* A summary stands for what it replaced, and for nothing of the turn itself.
LEMMA SummarizedHistory ==
  ASSUME NEW t \in Turns, NEW ms \in Seq(Record), ms # <<>>, NEW base, NEW loaded \in Nat,
         NEW ok, History(t, ms, base, loaded, FALSE, ok), loaded + 1 = Len(ms),
         NEW n \in Nat \ {0}
  PROVE  LET m    == Summarized(ms, n)
             mark == AdjustLoadedMessageCount(Len(ms), loaded, Len(Kept(ms)), Len(m))
         IN  History(t, m, base, mark, FALSE, ok) /\ mark + 1 = Len(m)
<1> DEFINE m == Summarized(ms, n)
           K == KeepIndex(ms)
           mark == AdjustLoadedMessageCount(Len(ms), loaded, Len(Kept(ms)), Len(m))
<1>1. /\ K \in 1..Len(ms) /\ Len(ms) \in Nat /\ DOMAIN ms = 1..Len(ms)
      /\ \A i \in DOMAIN ms : ms[i] \in Record
  BY KeepIndexProperties
<1>2. /\ m \in Seq(Record) /\ Len(m) = 1 + Len(Kept(ms)) /\ Len(Kept(ms)) = Len(ms) - K + 1
      /\ m[1] = SummaryOf(Older(ms), n)
  BY SummarizedProperties
<1>3. \A i \in K..Len(ms) : m[i - K + 2] = ms[i]
  BY SummarizedProperties, Zenon
<1>4. mark = Len(m) - 1 /\ Len(Kept(ms)) \in Nat \ {0}
  <2>1. Len(Kept(ms)) \in Nat \ {0}
    BY <1>1, <1>2
  <2>2. AdjustLoadedMessageCount(Len(ms), loaded, Len(Kept(ms)), 1 + Len(Kept(ms))) = Len(Kept(ms))
    BY <1>1, <2>1, AdjustedMark
  <2>3. mark = Len(Kept(ms))
    BY <1>2, <2>2
  <2> HIDE DEF mark, m
  <2> QED BY <1>2, <2>1, <2>3
<1> HIDE DEF m, K, mark
<1>5. /\ DOMAIN m = 1..Len(m) /\ Len(m) \in Nat /\ mark \in Nat /\ Len(m) = Len(ms) - K + 2
      /\ mark = Len(m) - 1
  BY <1>1, <1>2, <1>4
<1>6. ASSUME NEW j \in DOMAIN m, j # 1
      PROVE  j + K - 2 \in DOMAIN ms /\ m[j] = ms[j + K - 2]
  <2>1. j + K - 2 \in K..Len(ms) /\ (j + K - 2) - K + 2 = j
    BY <1>1, <1>5, <1>6
  <2>2. m[(j + K - 2) - K + 2] = ms[j + K - 2]
    BY <2>1, <1>3
  <2> QED BY <1>1, <2>1, <2>2
<1>7. m[1].kind = "summary" /\ m[1].text
  BY <1>2 DEF SummaryOf, Summary, Plain
<1>8. ASSUME NEW u \in m[1].turns
      PROVE  \E i \in DOMAIN ms : i <= loaded /\ u \in ms[i].turns
  <2>1. /\ DOMAIN Older(ms) = 1..(K - 1) /\ \A j \in 1..(K - 1) : Older(ms)[j] = ms[j]
    BY <1>1 DEF Older, K
  <2>2. PICK j \in DOMAIN Older(ms) : u \in Older(ms)[j].turns
    BY <1>2, <1>8 DEF SummaryOf, Summary, Plain
  <2>3. j \in DOMAIN ms /\ j <= loaded /\ Older(ms)[j] = ms[j]
    BY <1>1, <2>1, <2>2
  <2> QED BY <2>2, <2>3
<1>9. TurnsIn(m) \subseteq TurnsIn(ms)
  <2> SUFFICES ASSUME NEW u, NEW j \in DOMAIN m, u \in m[j].turns
               PROVE  u \in TurnsIn(ms)
    BY DEF TurnsIn
  <2>1. CASE j = 1
    BY <1>8, <2>1 DEF TurnsIn
  <2>2. CASE j # 1
    BY <1>6, <2>2 DEF TurnsIn
  <2> QED BY <2>1, <2>2
<1>10. TurnsIn(ms) \subseteq TurnsIn(m)
  <2> SUFFICES ASSUME NEW u, NEW i \in DOMAIN ms, u \in ms[i].turns
               PROVE  u \in TurnsIn(m)
    BY DEF TurnsIn
  <2>1. Mentions(ms, u)
    BY DEF Mentions, History
  <2>2. Mentions(m, u)
    BY <2>1, SummarizedMentions DEF m
  <2> QED BY <2>2 DEF Mentions, TurnsIn
<1>11. \A j \in DOMAIN m : m[j].text
  BY <1>6, <1>7 DEF History
<1>12. \A j \in DOMAIN m : j <= mark => t \notin m[j].turns
  <2> SUFFICES ASSUME NEW j \in DOMAIN m, j <= mark
               PROVE  t \notin m[j].turns
    OBVIOUS
  <2>1. CASE j = 1
    BY <1>8, <2>1 DEF History
  <2>2. CASE j # 1
    <3>1. j + K - 2 <= loaded
      BY <1>1, <1>5
    <3> QED BY <1>6, <2>2, <3>1 DEF History
  <2> QED BY <2>1, <2>2
<1>13. Len(m) \in DOMAIN m /\ Len(m) # 1 /\ m[Len(m)] = ms[Len(ms)]
  <2>1. Len(m) \in DOMAIN m /\ Len(m) # 1 /\ Len(m) + K - 2 = Len(ms)
    BY <1>1, <1>5
  <2> QED BY <2>1, <1>6
<1>14. m[Len(m)].kind = "human" /\ m[Len(m)].turns = {t}
  <2>1. Len(ms) \in DOMAIN ms /\ Len(ms) > loaded
    BY <1>1
  <2> QED BY <1>13, <2>1 DEF History
<1>15. \A j \in DOMAIN m : j > mark => j = Len(m)
  BY <1>5
<1>16. mark < Len(m) /\ mark + 1 = Len(m)
  BY <1>5
<1>17. History(t, m, base, mark, FALSE, ok)
  <2>1. \A j \in DOMAIN m : j > mark => m[j].turns = {t} /\ m[j].kind # "assistant"
    BY <1>14, <1>15
  <2>2. TurnsIn(m) \subseteq ok \cup {t} /\ TurnsIn(base) \subseteq TurnsIn(m)
    BY <1>9, <1>10 DEF History
  <2> QED BY <1>11, <1>12, <1>14, <1>16, <2>1, <2>2 DEF History
<1> QED BY <1>16, <1>17 DEF m, mark

-----------------------------------------------------------------------------
(* One lemma per action: every step but a successful save is quiet *)

\* Turn t becomes s, no thread changes, and the turn begins, goes on or fails.
Quiet(t, s) ==
  /\ Set(t, s) /\ UNCHANGED store
  /\ Tells(t, s, OkTurns)
  /\ \/ Phase(turn[t]) = "idle" /\ Phase(s) = "running"
     \/ Phase(turn[t]) = "running" /\ Phase(s) \in {"running", "failed"}

\* The phase of a State by its stage.
LEMMA Phases ==
  ASSUME NEW s
  PROVE  /\ s.stage = "idle" => Phase(s) = "idle"
         /\ s.stage \in Stages => Phase(s) = "running"
         /\ s.stage = "ended" => Phase(s) = s.outcome
BY DEF Phase, Stages

\* A failed turn tells nothing.
LEMMA FailedTells ==
  ASSUME NEW t, NEW s, NEW ok
  PROVE  Tells(t, Failed(s), ok) /\ Phase(Failed(s)) = "failed"
<1>1. Failed(s).stage = "ended" /\ Failed(s).outcome = "failed"
  BY DEF Failed, Ended, NewState
<1> QED BY <1>1, Phases DEF Tells, Working, Stages

\* Nor does one that MaxSteps ends on its way to the next stage.
LEMMA AdvanceTells ==
  ASSUME NEW t \in Turns, NEW s \in State, NEW next \in Stages, NEW ok,
         Tells(t, [s EXCEPT !.stage = next], ok)
  PROVE  Tells(t, Advance(s, next), ok) /\ Phase(Advance(s, next)) \in {"running", "failed"}
<1>1. CASE Advance(s, next) = Ended(s, "failed")
  BY <1>1, FailedTells DEF Failed
<1>2. CASE Advance(s, next) = [s EXCEPT !.stage = next, !.steps = s.steps + 1]
  <2> DEFINE old == [s EXCEPT !.stage = next]
             new == [s EXCEPT !.stage = next, !.steps = s.steps + 1]
  <2>1. /\ new.stage = next /\ new.stage = old.stage /\ new.msgs = old.msgs
        /\ new.base = old.base /\ new.loaded = old.loaded /\ new.replied = old.replied
    BY DEF State
  <2>2. Tells(t, old, ok)
    OBVIOUS
  <2> HIDE DEF old, new
  <2>3. Tells(t, new, ok)
    BY <2>1, <2>2 DEF Tells, Working
  <2>4. Phase(new) = "running"
    BY <2>1, Phases
  <2> QED BY <1>2, <2>3, <2>4 DEF new
<1> QED BY <1>1, <1>2, AdvanceCases

\* What a working turn tells before a step.
LEMMA WorkingTells ==
  ASSUME IInv, TurnInv, NEW t \in Turns, Working(turn[t])
  PROVE  LET s == turn[t] IN
         /\ s \in State /\ s.msgs \in Seq(Record) /\ s.loaded \in Nat /\ s.replied \in BOOLEAN
         /\ s.msgs # <<>>
         /\ History(t, s.msgs, s.base, s.loaded, s.replied, OkTurns)
         /\ s.stage = "summarize" => ~s.replied /\ s.loaded + 1 = Len(s.msgs)
         /\ Phase(s) = "running"
<1>1. Sound(t, turn[t]) /\ Tells(t, turn[t], OkTurns)
  BY DEF IInv, TurnInv
<1> QED BY <1>1, Phases DEF Sound, State, Tells, Working

\* Starting a turn.
LEMMA RunQuiet ==
  ASSUME IInv, TurnInv, NEW t \in Turns, Run(t)
  PROVE  \E s : Quiet(t, s)
<1>1. turn[t] \in State /\ turn[t].stage = "idle" /\ ~turn[t].replied
  BY DEF IInv, TurnInv, Tells, Run
<1>2. PICK th \in Threads, r \in BOOLEAN :
        Set(t, [turn[t] EXCEPT !.stage = "load", !.thread = th, !.restricted = r])
  BY DEF Run
<1> DEFINE new == [turn[t] EXCEPT !.stage = "load", !.thread = th, !.restricted = r]
<1>3. new.stage = "load" /\ new.replied = turn[t].replied
  BY <1>1 DEF State
<1>4. Set(t, new) /\ UNCHANGED store
  BY <1>2 DEF Run
<1> HIDE DEF new
<1>5. Tells(t, new, OkTurns)
  BY <1>1, <1>3 DEF Tells, Working, Stages
<1>6. Phase(turn[t]) = "idle" /\ Phase(new) = "running"
  BY <1>1, <1>3, Phases DEF Stages
<1> QED BY <1>4, <1>5, <1>6 DEF Quiet

\* The end of its context.
LEMMA CancelQuiet ==
  ASSUME IInv, TurnInv, NEW t \in Turns, Cancel(t)
  PROVE  \E s : Quiet(t, s)
<1> DEFINE new == [turn[t] EXCEPT !.cancelled = TRUE]
<1>1. turn[t] \in State /\ turn[t].stage \in Stages /\ Tells(t, turn[t], OkTurns)
  BY DEF IInv, TurnInv, Cancel
<1>2. /\ new.stage = turn[t].stage /\ new.msgs = turn[t].msgs /\ new.base = turn[t].base
      /\ new.loaded = turn[t].loaded /\ new.replied = turn[t].replied
  BY <1>1 DEF State
<1>3. Set(t, new) /\ UNCHANGED store
  BY DEF Cancel
<1> HIDE DEF new
<1>4. Tells(t, new, OkTurns)
  BY <1>1, <1>2 DEF Tells, Working
<1>5. Phase(turn[t]) = "running" /\ Phase(new) = "running"
  BY <1>1, <1>2, Phases
<1> QED BY <1>3, <1>4, <1>5 DEF Quiet

\* Giving up.
LEMMA FailQuiet ==
  ASSUME IInv, TurnInv, NEW t \in Turns, StageFails(t) \/ RouteCancelled(t)
  PROVE  \E s : Quiet(t, s)
<1>1. turn[t].stage \in Stages /\ Set(t, Failed(turn[t])) /\ UNCHANGED store
  BY DEF StageFails, RouteCancelled, Stages
<1>2. Phase(turn[t]) = "running" /\ Phase(Failed(turn[t])) = "failed"
  BY <1>1, Phases, FailedTells
<1> QED BY <1>1, <1>2, FailedTells DEF Quiet

\* load adds the turn's prompt to what successful turns left (agent.go:203-228).
LEMMA LoadQuiet ==
  ASSUME IInv, TurnInv, NEW t \in Turns, Load(t)
  PROVE  \E s : Quiet(t, s)
<1> DEFINE s == turn[t]
           old == store[s.thread]
<1>1. /\ s \in State /\ s.stage = "load" /\ s.thread \in Threads /\ ~s.replied
      /\ s.outcome = "none" /\ s.replied \in BOOLEAN
  BY DEF IInv, Sound, State, TurnInv, Tells, Load
<1>2. /\ old \in Seq(Record) /\ Len(old) \in Nat /\ TurnsIn(old) \subseteq OkTurns
      /\ \A i \in DOMAIN old : old[i].text
  BY <1>1 DEF IInv, TurnInv
<1>3. t \notin TurnsIn(old)
  BY <1>1, <1>2 DEF OkTurns
<1> HIDE DEF old
<1>4. PICK n \in Sizes :
        Set(t, Advance([s EXCEPT !.msgs = Append(old, Human(t, n)),
                                 !.base = old, !.loaded = Len(old)], "summarize"))
  BY DEF Load, old
<1> DEFINE r == Human(t, n)
           ms == Append(old, r)
<1>5. r \in Record
  <2>1. n \in Nat \ {0} /\ {} \in SUBSET Turns
    BY LoopAssumption
  <2> QED BY <2>1, PlainTypes
<1>6. r.kind = "human" /\ r.text /\ r.turns = {t}
  BY DEF Human, Plain
<1> HIDE DEF r
<1>7. /\ ms \in Seq(Record) /\ Len(ms) = Len(old) + 1 /\ DOMAIN ms = 1..Len(ms)
      /\ ms[Len(old) + 1] = r /\ DOMAIN old = 1..Len(old) /\ \A i \in DOMAIN old : ms[i] = old[i]
  BY <1>2, <1>5
<1>8. TurnsIn(ms) = TurnsIn(old) \cup {t}
  BY <1>2, <1>5, <1>6, TurnsInAppend
<1> HIDE DEF ms
<1>9. \A i \in DOMAIN ms : (i > Len(old) /\ ms[i] = r) \/ (i <= Len(old) /\ i \in DOMAIN old /\ ms[i] = old[i])
  BY <1>2, <1>7
<1>10. History(t, ms, old, Len(old), FALSE, OkTurns)
  <2>1. \A i \in DOMAIN old : t \notin old[i].turns
    BY <1>3 DEF TurnsIn
  <2>2. Len(old) < Len(ms)
    BY <1>2, <1>7
  <2>3. \A i \in DOMAIN ms : ms[i].text
    BY <1>2, <1>6, <1>9
  <2>4. \A i \in DOMAIN ms : /\ i <= Len(old) => t \notin ms[i].turns
                             /\ i > Len(old) => ms[i].turns = {t} /\ ms[i].kind # "assistant"
    BY <1>2, <1>6, <1>7, <1>9, <2>1
  <2> QED BY <1>2, <1>6, <1>7, <1>8, <2>2, <2>3, <2>4 DEF History
<1> DEFINE new == [s EXCEPT !.msgs = ms, !.base = old, !.loaded = Len(old)]
           next == [new EXCEPT !.stage = "summarize"]
<1>11. new \in State
  BY <1>1, <1>2, <1>7 DEF State
<1>12. /\ next.stage = "summarize" /\ next.msgs = ms /\ next.base = old
       /\ next.loaded = Len(old) /\ next.replied = FALSE
  BY <1>1 DEF State
<1>13. Tells(t, next, OkTurns)
  <2> HIDE DEF next
  <2> QED BY <1>7, <1>10, <1>12 DEF Tells
<1>14. Tells(t, Advance(new, "summarize"), OkTurns) /\ Phase(Advance(new, "summarize")) \in {"running", "failed"}
  BY <1>11, <1>13, AdvanceTells DEF Stages
<1>15. Set(t, Advance(new, "summarize")) /\ UNCHANGED store
  BY <1>4 DEF ms, r, Load
<1>16. Phase(s) = "running"
  BY <1>1, Phases DEF Stages
<1> HIDE DEF new
<1> QED BY <1>14, <1>15, <1>16 DEF Quiet

\* A turn that goes on behind the summary with its history in order is quiet.
LEMMA GoesOn ==
  ASSUME NEW t \in Turns, NEW new \in State,
         NEW next \in {"call_model", "route", "call_tools", "save"},
         History(t, new.msgs, new.base, new.loaded, new.replied, OkTurns),
         Set(t, Advance(new, next)), UNCHANGED store, Phase(turn[t]) = "running"
  PROVE  \E s : Quiet(t, s)
<1> DEFINE old == [new EXCEPT !.stage = next]
<1>1. /\ old.stage = next /\ old.msgs = new.msgs /\ old.base = new.base
      /\ old.loaded = new.loaded /\ old.replied = new.replied
  BY DEF State
<1>2. next \in Stages
  BY DEF Stages
<1>3. Tells(t, old, OkTurns)
  <2> HIDE DEF old
  <2> QED BY <1>1 DEF Tells
<1>4. /\ Tells(t, Advance(new, next), OkTurns)
      /\ Phase(Advance(new, next)) \in {"running", "failed"}
  BY <1>2, <1>3, AdvanceTells
<1> QED BY <1>4 DEF Quiet

\* summarize moves the mark with the records (agent.go:230-258).
LEMMA SummarizeQuiet ==
  ASSUME IInv, TurnInv, NEW t \in Turns, SummarizeThread(t)
  PROVE  \E s : Quiet(t, s)
<1> DEFINE s == turn[t]
<1>1. /\ s \in State /\ s.msgs \in Seq(Record) /\ s.loaded \in Nat /\ s.msgs # <<>>
      /\ History(t, s.msgs, s.base, s.loaded, s.replied, OkTurns)
      /\ ~s.replied /\ s.replied \in BOOLEAN /\ s.loaded + 1 = Len(s.msgs)
      /\ Phase(s) = "running" /\ s.stage = "summarize"
  BY WorkingTells DEF SummarizeThread, Working, Stages
<1>2. UNCHANGED store
  BY DEF SummarizeThread
<1>3. CASE ~NeedsSummary(s.msgs)
  <2>1. Set(t, Advance(s, "call_model"))
    BY <1>3 DEF SummarizeThread
  <2> QED BY <1>1, <1>2, <2>1, GoesOn
<1>4. CASE NeedsSummary(s.msgs)
  <2> DEFINE ms(n) == Summarized(s.msgs, n)
             loaded(n) == AdjustLoadedMessageCount(
                            Len(s.msgs), s.loaded, Len(Kept(s.msgs)), Len(ms(n)))
  <2>1. PICK n \in Sizes :
          Set(t, Advance([s EXCEPT !.msgs = ms(n), !.loaded = loaded(n)], "call_model"))
    BY <1>4 DEF SummarizeThread
  <2>2. n \in Nat \ {0}
    BY LoopAssumption
  <2>3. ms(n) \in Seq(Record) /\ Kept(s.msgs) \in Seq(Record)
    BY <1>1, <2>2, SummarizedProperties
  <2>4. s.replied = FALSE
    BY <1>1
  <2>5. History(t, ms(n), s.base, loaded(n), FALSE, OkTurns)
    BY <1>1, <2>2, <2>4, SummarizedHistory
  <2>6. loaded(n) \in Nat
    <3>1. /\ Len(s.msgs) \in Nat /\ Len(Kept(s.msgs)) \in Nat /\ Len(ms(n)) \in Nat
      BY <1>1, <2>3
    <3> HIDE DEF ms
    <3> QED BY <3>1, <1>1, AdjustType
  <2> HIDE DEF ms, loaded
  <2> DEFINE new == [s EXCEPT !.msgs = ms(n), !.loaded = loaded(n)]
  <2>7. new \in State
    BY <1>1, <2>3, <2>6 DEF State
  <2>8. /\ new.msgs = ms(n) /\ new.base = s.base /\ new.loaded = loaded(n)
        /\ new.replied = FALSE
    BY <1>1, <2>4 DEF State
  <2>9. Set(t, Advance(new, "call_model"))
    BY <2>1
  <2> HIDE DEF new
  <2> QED BY <1>1, <1>2, <2>5, <2>7, <2>8, <2>9, GoesOn
<1> QED BY <1>3, <1>4

\* callModel adds records of the turn, the text given to the caller among them
\* (agent.go:318-335).
LEMMA CallModelQuiet ==
  ASSUME IInv, TurnInv, NEW t \in Turns, CallModel(t)
  PROVE  \E s : Quiet(t, s)
<1> DEFINE s == turn[t]
<1>1. /\ s \in State /\ s.msgs \in Seq(Record) /\ s.loaded \in Nat /\ s.replied \in BOOLEAN
      /\ History(t, s.msgs, s.base, s.loaded, s.replied, OkTurns)
      /\ Phase(s) = "running" /\ s.pending \in Seq(CallIds)
  BY WorkingTells DEF CallModel, Working, Stages, State
<1>2. PICK text \in BOOLEAN, ids \in Replies, n \in Sizes :
        Set(t, Advance([s EXCEPT !.msgs = s.msgs \o ReplyRecords(t, text, ids, n),
                                 !.pending = IF ids # <<>> THEN ids ELSE s.pending,
                                 !.replied = s.replied \/ text,
                                 !.force = FALSE], "route"))
  BY DEF CallModel
<1> DEFINE m == s.msgs \o ReplyRecords(t, text, ids, n)
           p == IF ids # <<>> THEN ids ELSE s.pending
<1>3. ids \in Seq(CallIds) /\ n \in Nat \ {0} /\ p \in Seq(CallIds)
  BY <1>1, LoopAssumption
<1>4. History(t, m, s.base, s.loaded, s.replied \/ text, OkTurns)
  BY <1>1, <1>3, ReplyHistory
<1>5. m \in Seq(Record)
  <2>1. ReplyRecords(t, text, ids, n) \in Seq(Record)
    <3>1. Assistant(t, n) \in Record /\ ToolCall(t, ids, n) \in Record
      BY <1>3, PlainTypes, ToolRecordTypes
    <3>2. /\ <<Assistant(t, n)>> \in Seq(Record) /\ <<ToolCall(t, ids, n)>> \in Seq(Record)
          /\ <<>> \in Seq(Record)
      BY <3>1
    <3> QED BY <3>2 DEF ReplyRecords
  <2> QED BY <1>1, <2>1
<1> HIDE DEF m, p
<1> DEFINE r == s.replied \/ text
           new == [s EXCEPT !.msgs = m, !.pending = p, !.replied = r, !.force = FALSE]
<1>6. r \in BOOLEAN
  BY <1>1
<1>7. new \in State
  BY <1>1, <1>3, <1>5, <1>6 DEF State
<1>8. /\ new.msgs = m /\ new.base = s.base /\ new.loaded = s.loaded /\ new.replied = r
  BY <1>1 DEF State
<1>9. Set(t, Advance(new, "route")) /\ UNCHANGED store
  BY <1>2 DEF m, p, CallModel
<1> HIDE DEF new
<1> QED BY <1>1, <1>4, <1>7, <1>8, <1>9, GoesOn

\* route adds nothing (agent.go:386-404).
LEMMA RouteQuiet ==
  ASSUME IInv, TurnInv, NEW t \in Turns, RouteToTools(t) \/ RouteToSave(t) \/ RouteRestricted(t)
  PROVE  \E s : Quiet(t, s)
<1> DEFINE s == turn[t]
           more == [s EXCEPT !.attempts = s.attempts + 1]
           new  == [more EXCEPT !.force = TRUE]
<1>1. /\ s \in State /\ Phase(s) = "running"
      /\ History(t, s.msgs, s.base, s.loaded, s.replied, OkTurns)
  BY WorkingTells DEF RouteToTools, RouteToSave, RouteRestricted, Working, Stages
<1>2. UNCHANGED store
  BY DEF RouteToTools, RouteToSave, RouteRestricted
<1>3. CASE RouteToTools(t)
  BY <1>1, <1>2, <1>3, GoesOn DEF RouteToTools
<1>4. CASE RouteToSave(t)
  BY <1>1, <1>2, <1>4, GoesOn DEF RouteToSave
<1>5. CASE RouteRestricted(t)
  <2>1. Set(t, IF more.attempts > MaxRestrictAttempts THEN Failed(more)
               ELSE Advance(new, "call_model"))
    BY <1>5 DEF RouteRestricted
  <2>2. more.attempts = s.attempts + 1 /\ s.attempts \in Nat
    BY <1>1, LoopAssumption DEF State
  <2>3. CASE s.attempts + 1 > MaxRestrictAttempts
    <3>1. Set(t, Failed(more))
      <4> HIDE DEF more
      <4> QED BY <2>1, <2>2, <2>3
    <3>2. Quiet(t, Failed(more))
      <4> HIDE DEF more
      <4> QED BY <1>1, <1>2, <3>1, FailedTells DEF Quiet
    <3> QED BY <3>2
  <2>4. CASE ~(s.attempts + 1 > MaxRestrictAttempts)
    <3>1. s.attempts + 1 \in 0..MaxRestrictAttempts
      BY <2>2, <2>4, LoopAssumption
    <3>2. new \in State
      BY <1>1, <3>1 DEF State
    <3>3. /\ new.msgs = s.msgs /\ new.base = s.base /\ new.loaded = s.loaded
          /\ new.replied = s.replied
      BY <1>1 DEF State
    <3>4. Set(t, Advance(new, "call_model"))
      <4> HIDE DEF new
      <4> QED BY <2>1, <2>2, <2>4
    <3> HIDE DEF new
    <3> QED BY <1>1, <1>2, <3>2, <3>3, <3>4, GoesOn
  <2> QED BY <2>3, <2>4
<1> QED BY <1>3, <1>4, <1>5

\* An output is a record of the turn that asked for it (agent.go:406-447).
LEMMA ExecuteToolQuiet ==
  ASSUME IInv, TurnInv, NEW t \in Turns, ExecuteTool(t)
  PROVE  \E s : Quiet(t, s)
<1> DEFINE s == turn[t]
           k == s.answered + 1
<1>1. /\ s \in State /\ s.msgs \in Seq(Record) /\ s.loaded \in Nat /\ s.replied \in BOOLEAN
      /\ History(t, s.msgs, s.base, s.loaded, s.replied, OkTurns)
      /\ Phase(s) = "running" /\ s.pending \in Seq(CallIds) /\ s.answered \in Nat
      /\ s.stage = "call_tools"
  BY WorkingTells DEF ExecuteTool, Working, Stages, State
<1>2. /\ OpenPaired(s.msgs, s.pending, s.answered) /\ s.pending # <<>>
  BY <1>1 DEF IInv, Sound, Working, Stages
<1>3. PICK n \in Sizes :
        LET msgs == Append(s.msgs, ToolOutput(t, s.pending[k], n)) IN
        Set(t, IF k < Len(s.pending)
                 THEN [s EXCEPT !.msgs = msgs, !.answered = k]
                 ELSE Advance([s EXCEPT !.msgs = msgs, !.answered = 0, !.pending = <<>>],
                              "call_model"))
  BY DEF ExecuteTool
<1> DEFINE out == ToolOutput(t, s.pending[k], n)
           m   == Append(s.msgs, out)
<1>4. out \in Record
  <2>1. k \in DOMAIN s.pending /\ n \in Nat \ {0}
    BY <1>1, <1>2, LoopAssumption DEF OpenPaired
  <2>2. s.pending[k] \in CallIds
    BY <1>1, <2>1
  <2> QED BY <2>1, <2>2, ToolRecordTypes
<1>5. out.kind = "tool_output" /\ out.text /\ out.turns = {t}
  BY DEF ToolOutput, Plain
<1>6. UNCHANGED store
  BY DEF ExecuteTool
<1> HIDE DEF out
<1>7. (s.replied \/ out.kind = "assistant") = s.replied
  BY <1>1, <1>5
<1>8. m \in Seq(Record) /\ History(t, m, s.base, s.loaded, s.replied, OkTurns)
  <2>1. History(t, m, s.base, s.loaded, s.replied \/ out.kind = "assistant", OkTurns)
    BY <1>1, <1>4, <1>5, AppendHistory
  <2> QED BY <1>1, <1>4, <1>7, <2>1
<1> HIDE DEF m
<1>9. CASE k < Len(s.pending)
  <2> DEFINE new == [s EXCEPT !.msgs = m, !.answered = k]
  <2>1. /\ new.stage = "call_tools" /\ new.msgs = m /\ new.base = s.base
        /\ new.loaded = s.loaded /\ new.replied = s.replied
    BY <1>1 DEF State
  <2>2. Set(t, new)
    BY <1>3, <1>9 DEF m, out
  <2> HIDE DEF new
  <2>3. Tells(t, new, OkTurns)
    BY <1>8, <2>1 DEF Tells
  <2>4. Phase(new) = "running"
    BY <2>1, Phases DEF Stages
  <2>5. Quiet(t, new)
    BY <1>1, <1>6, <2>2, <2>3, <2>4 DEF Quiet
  <2> QED BY <2>5
<1>10. CASE ~(k < Len(s.pending))
  <2> DEFINE new == [s EXCEPT !.msgs = m, !.answered = 0, !.pending = <<>>]
  <2>1. new \in State
    <3>1. <<>> \in Seq(CallIds) /\ 0 \in Nat
      OBVIOUS
    <3> QED BY <1>1, <1>8, <3>1 DEF State
  <2>2. /\ new.msgs = m /\ new.base = s.base /\ new.loaded = s.loaded
        /\ new.replied = s.replied
    BY <1>1 DEF State
  <2>3. Set(t, Advance(new, "call_model"))
    BY <1>3, <1>10 DEF m, out
  <2> HIDE DEF new
  <2> QED BY <1>1, <1>6, <1>8, <2>1, <2>2, <2>3, GoesOn
<1> QED BY <1>9, <1>10

-----------------------------------------------------------------------------
(* The invariant *)

\* What a turn tells stays true when more turns have succeeded.
LEMMA TellsMono ==
  ASSUME NEW t, NEW s, NEW ok, NEW ok2, ok \subseteq ok2, Tells(t, s, ok)
  PROVE  Tells(t, s, ok2)
<1>1. ASSUME Working(s)
      PROVE  History(t, s.msgs, s.base, s.loaded, s.replied, ok2)
  <2>1. History(t, s.msgs, s.base, s.loaded, s.replied, ok)
    BY <1>1 DEF Tells
  <2>2. TurnsIn(s.msgs) \subseteq ok2 \cup {t}
    BY <2>1 DEF History
  <2> QED BY <2>1, <2>2 DEF History
<1> QED BY <1>1 DEF Tells

\* A turn that began and has not ended has no outcome.
LEMMA RunningHasNone ==
  ASSUME IInv, NEW t \in Turns, Phase(turn[t]) \in {"idle", "running"}
  PROVE  turn[t].outcome = "none" /\ turn[t].stage # "ended"
<1> DEFINE s == turn[t]
<1>1. /\ s.stage \in Stages \cup {"idle", "ended"} /\ s.outcome \in {"none", "ok", "failed"}
      /\ s.stage = "ended" <=> s.outcome # "none"
  BY DEF IInv, Sound, State
<1>2. s.stage = "ended" => s.outcome \notin {"idle", "running", "none"}
  BY <1>1
<1>3. s.stage # "ended"
  BY <1>2, Phases
<1> QED BY <1>1, <1>3

\* A quiet step keeps the invariant: no thread changes, and no success is lost.
LEMMA QuietKeeps ==
  ASSUME IInv, TurnInv, NEW t \in Turns, NEW s, Quiet(t, s)
  PROVE  TurnInv'
<1>1. turn[t].outcome = "none"
  BY RunningHasNone DEF Quiet
<1>2. \A u \in Turns : turn'[u] = IF u = t THEN s ELSE turn[u]
  BY DEF IInv, Quiet, Set
<1>3. OkTurns \subseteq OkTurns'
  BY <1>1, <1>2 DEF OkTurns
<1>4. store' = store
  BY DEF Quiet
<1>5. \A u \in Turns : Tells(u, turn'[u], OkTurns')
  <2> SUFFICES ASSUME NEW u \in Turns
               PROVE  Tells(u, turn'[u], OkTurns')
    OBVIOUS
  <2>1. Tells(u, turn'[u], OkTurns)
    BY <1>2, Zenon DEF Quiet, TurnInv
  <2> QED BY <1>3, <2>1, TellsMono
<1>6. \A th \in Threads : TurnsIn(store'[th]) \subseteq OkTurns'
  BY <1>3, <1>4 DEF TurnInv
<1>7. \A th \in Threads : \A i \in DOMAIN store'[th] : store'[th][i].text
  BY <1>4 DEF TurnInv
<1> QED BY <1>5, <1>6, <1>7 DEF TurnInv

\* What a successful save does: one thread becomes the turn's history, which
\* stands for successful turns only, the turn now among them (agent.go:456-459).
LEMMA SaveEffect ==
  ASSUME IInv, TurnInv, NEW t \in Turns, Save(t)
  PROVE  LET s == turn[t] IN
         /\ s.thread \in Threads /\ s.stage = "save"
         /\ s.msgs \in Seq(Record) /\ Paired(s.msgs)
         /\ \A i \in DOMAIN s.msgs : s.msgs[i].text
         /\ t \in TurnsIn(s.msgs) /\ TurnsIn(s.msgs) \subseteq OkTurns \cup {t}
         /\ TurnsIn(s.base) \subseteq TurnsIn(s.msgs)
         /\ store' = [store EXCEPT ![s.thread] = s.msgs]
         /\ \A h \in Threads : store'[h] = IF h = s.thread THEN s.msgs ELSE store[h]
         /\ \A u \in Turns : turn'[u] = IF u = t THEN Ended(s, "ok") ELSE turn[u]
         /\ OkTurns' = OkTurns \cup {t}
         /\ Phase(s) = "running"
<1> DEFINE s == turn[t]
<1>1. /\ s \in State /\ s.stage = "save" /\ s.pending = <<>> /\ s.thread \in Threads
      /\ s.msgs \in Seq(Record) /\ Paired(s.msgs) /\ Mentions(s.msgs, t)
  BY OpenPairedNone DEF IInv, Sound, Save, Working, Stages, State
<1>2. History(t, s.msgs, s.base, s.loaded, s.replied, OkTurns) /\ Phase(s) = "running"
  BY <1>1, WorkingTells DEF Working, Stages
<1>3. t \in TurnsIn(s.msgs)
  BY <1>1 DEF Mentions, TurnsIn
<1>4. store' = [store EXCEPT ![s.thread] = s.msgs]
  BY DEF Save
<1>5. \A h \in Threads : store'[h] = IF h = s.thread THEN s.msgs ELSE store[h]
  BY <1>1, <1>4 DEF IInv
<1>6. turn' = [turn EXCEPT ![t] = Ended(s, "ok")]
  BY DEF Save, Set, Advance
<1>7. \A u \in Turns : turn'[u] = IF u = t THEN Ended(s, "ok") ELSE turn[u]
  BY <1>6 DEF IInv
<1>8. Ended(s, "ok").outcome = "ok"
  BY DEF Ended, NewState
<1>9. OkTurns' = OkTurns \cup {t}
  BY <1>7, <1>8 DEF OkTurns
<1> QED BY <1>1, <1>2, <1>3, <1>4, <1>5, <1>7, <1>9 DEF History

\* A save keeps the invariant.
LEMMA SaveKeeps ==
  ASSUME IInv, TurnInv, NEW t \in Turns, Save(t)
  PROVE  TurnInv'
<1> DEFINE s == turn[t]
<1>1. /\ \A i \in DOMAIN s.msgs : s.msgs[i].text
      /\ TurnsIn(s.msgs) \subseteq OkTurns \cup {t} /\ OkTurns' = OkTurns \cup {t}
      /\ \A h \in Threads : store'[h] = IF h = s.thread THEN s.msgs ELSE store[h]
      /\ \A u \in Turns : turn'[u] = IF u = t THEN Ended(s, "ok") ELSE turn[u]
  BY SaveEffect
<1>2. \A h \in Threads : TurnsIn(store'[h]) \subseteq OkTurns'
  <2> SUFFICES ASSUME NEW h \in Threads
               PROVE  TurnsIn(store'[h]) \subseteq OkTurns'
    OBVIOUS
  <2>1. CASE h = s.thread
    BY <1>1, <2>1
  <2>2. CASE h # s.thread
    BY <1>1, <2>2 DEF TurnInv
  <2> QED BY <2>1, <2>2
<1>3. \A h \in Threads : \A i \in DOMAIN store'[h] : store'[h][i].text
  <2> SUFFICES ASSUME NEW h \in Threads
               PROVE  \A i \in DOMAIN store'[h] : store'[h][i].text
    OBVIOUS
  <2>1. CASE h = s.thread
    BY <1>1, <2>1
  <2>2. CASE h # s.thread
    BY <1>1, <2>2 DEF TurnInv
  <2> QED BY <2>1, <2>2
<1>4. ASSUME NEW u \in Turns
      PROVE  Tells(u, turn'[u], OkTurns')
  <2>1. CASE u = t
    <3>1. Ended(s, "ok").stage = "ended"
      BY DEF Ended, NewState
    <3>2. Tells(u, Ended(s, "ok"), OkTurns')
      BY <3>1 DEF Tells, Working, Stages
    <3> QED BY <1>1, <2>1, <3>2
  <2>2. CASE u # t
    <3>1. turn'[u] = turn[u] /\ OkTurns \subseteq OkTurns'
      BY <1>1, <2>2
    <3>2. Tells(u, turn[u], OkTurns)
      BY DEF TurnInv
    <3> QED BY <3>1, <3>2, TellsMono
  <2> QED BY <2>1, <2>2
<1> QED BY <1>2, <1>3, <1>4 DEF TurnInv

\* Every step of Next is a save or quiet.
LEMMA SavesAndQuiet ==
  ASSUME IInv, TurnInv, Next
  PROVE  \E t \in Turns : Save(t) \/ \E s : Quiet(t, s)
<1>1. PICK t \in Turns : Run(t) \/ Cancel(t) \/ Step(t)
  BY DEF Next
<1>2. CASE Run(t)
  BY <1>2, RunQuiet
<1>3. CASE Cancel(t)
  BY <1>3, CancelQuiet
<1>4. CASE Load(t)
  BY <1>4, LoadQuiet
<1>5. CASE SummarizeThread(t)
  BY <1>5, SummarizeQuiet
<1>6. CASE CallModel(t)
  BY <1>6, CallModelQuiet
<1>7. CASE ExecuteTool(t)
  BY <1>7, ExecuteToolQuiet
<1>8. CASE Save(t)
  BY <1>8
<1>9. CASE RouteCancelled(t) \/ StageFails(t)
  BY <1>9, FailQuiet
<1>10. CASE RouteToTools(t) \/ RouteToSave(t) \/ RouteRestricted(t)
  BY <1>10, RouteQuiet
<1> QED BY <1>1, <1>2, <1>3, <1>4, <1>5, <1>6, <1>7, <1>8, <1>9, <1>10 DEF Step

\* No turn has begun, every thread is empty.
LEMMA InitTurnInv == Init => TurnInv
<1> SUFFICES ASSUME Init PROVE TurnInv
  OBVIOUS
<1>1. \A t \in Turns : turn[t] = NewState
  BY DEF Init
<1>2. \A t \in Turns : Tells(t, NewState, OkTurns)
  BY DEF Tells, Working, Stages, NewState
<1>3. \A th \in Threads : store[th] = <<>>
  BY DEF Init
<1>4. TurnsIn(<<>>) = {}
  BY DEF TurnsIn
<1> QED BY <1>1, <1>2, <1>3, <1>4 DEF TurnInv

\* Every step keeps the invariant.
LEMMA NextTurnInv == IInv /\ TurnInv /\ [Next]_vars => TurnInv'
<1> SUFFICES ASSUME IInv, TurnInv, [Next]_vars PROVE TurnInv'
  OBVIOUS
<1>1. CASE UNCHANGED vars
  BY <1>1 DEF vars, TurnInv, OkTurns
<1>2. CASE Next
  BY <1>2, SavesAndQuiet, SaveKeeps, QuietKeeps
<1> QED BY <1>1, <1>2

\* TurnInv holds in every reachable state.
THEOREM TurnInvariance == Spec => []TurnInv
<1>1. Init => TurnInv
  BY InitTurnInv
<1>2. IInv /\ TurnInv /\ [Next]_vars => TurnInv'
  BY NextTurnInv
<1> QED BY <1>1, <1>2, Invariance, PTL DEF Spec

-----------------------------------------------------------------------------
(* The theorems *)

\* A turn that failed, or has not ended, stands on no thread: its caller may hand
\* the message over again (agent.go:194-200).
THEOREM NoTraceLeft == Spec => []UnfinishedTurnsLeaveNoTrace
<1>1. TurnInv => UnfinishedTurnsLeaveNoTrace
  BY DEF TurnInv, OkTurns, UnfinishedTurnsLeaveNoTrace
<1> QED BY <1>1, TurnInvariance, PTL

\* The mark LoadedMessageCount splits the context exactly between what was loaded
\* and the turn's own records, through any number of rounds and wherever a
\* summary cuts (agent.go:203-258, 533-547).
THEOREM MarkExact == Spec => []NewMarkExact
<1>1. IInv /\ TurnInv => NewMarkExact
  <2> SUFFICES ASSUME IInv, TurnInv, NEW t \in Turns, turn[t].stage \in Stages \ {"load"}
               PROVE  LET s == turn[t] IN
                      /\ s.loaded < Len(s.msgs)
                      /\ s.msgs[s.loaded + 1].kind = "human"
                      /\ \A i \in DOMAIN s.msgs : i > s.loaded <=> s.msgs[i].turns = {t}
    BY DEF NewMarkExact
  <2> DEFINE s == turn[t]
  <2>1. /\ History(t, s.msgs, s.base, s.loaded, s.replied, OkTurns)
        /\ s.msgs \in Seq(Record) /\ s.loaded \in Nat
    BY WorkingTells DEF Working
  <2>2. \A i \in DOMAIN s.msgs : i <= s.loaded => s.msgs[i].turns # {t}
    BY <2>1 DEF History
  <2>3. \A i \in DOMAIN s.msgs : i > s.loaded \/ i <= s.loaded
    BY <2>1
  <2> QED BY <2>1, <2>2, <2>3 DEF History
<1> QED BY <1>1, Invariance, TurnInvariance, PTL

\* A text is given to the caller only with a reply of this turn that is saved, and
\* none is kept from it (agent.go:318-326, 200).
THEOREM RepliesRecorded == Spec => []ReplyIsRecorded
<1>1. IInv /\ TurnInv => ReplyIsRecorded
  <2> SUFFICES ASSUME IInv, TurnInv, NEW t \in Turns, turn[t].stage = "save"
               PROVE  LET s == turn[t] IN
                      s.replied <=> \E i \in DOMAIN s.msgs :
                                      i > s.loaded /\ s.msgs[i].kind = "assistant"
    BY DEF ReplyIsRecorded
  <2>1. Working(turn[t])
    BY DEF Working, Stages
  <2> QED BY <2>1, WorkingTells DEF History
<1> QED BY <1>1, Invariance, TurnInvariance, PTL

\* A thread changes only by the save of a turn that succeeds by it, and a save over
\* what the turn had loaded keeps every turn the thread stood for
\* (agent.go:203-258, 456-459).
THEOREM HistoryKept == Spec => SavesKeepHistory
<1> DEFINE OnlyCommits == \A th \in Threads : store'[th] # store[th] => \E t \in Turns : Commits(t, th)
<1>1. IInv /\ TurnInv /\ [Next]_vars => OnlyCommits
  <2> SUFFICES ASSUME IInv, TurnInv, [Next]_vars, NEW th \in Threads, store'[th] # store[th]
               PROVE  \E t \in Turns : Commits(t, th)
    OBVIOUS
  <2>1. Next
    BY DEF vars
  <2>2. PICK t \in Turns : Save(t) \/ \E s : Quiet(t, s)
    BY <2>1, SavesAndQuiet
  <2>3. Save(t)
    BY <2>2 DEF Quiet
  <2>4. /\ turn[t].stage = "save" /\ t \in TurnsIn(turn[t].msgs)
        /\ TurnsIn(turn[t].base) \subseteq TurnsIn(turn[t].msgs)
        /\ \A h \in Threads : store'[h] = IF h = turn[t].thread THEN turn[t].msgs ELSE store[h]
        /\ turn'[t] = Ended(turn[t], "ok")
    BY <2>3, SaveEffect
  <2>5. turn[t].thread = th /\ store'[th] = turn[t].msgs
    BY <2>4
  <2>6. turn'[t].outcome = "ok"
    BY <2>4 DEF Ended, NewState
  <2>7. Commits(t, th)
    BY <2>4, <2>5, <2>6 DEF Commits
  <2> QED BY <2>7
<1>2. (IInv /\ TurnInv /\ [Next]_vars => OnlyCommits) => (IInv /\ TurnInv /\ [Next]_vars => [OnlyCommits]_vars)
  OBVIOUS
<1> HIDE DEF OnlyCommits
<1>3. [][OnlyCommits]_vars <=> SavesKeepHistory
  BY DEF OnlyCommits, SavesKeepHistory
<1> QED BY <1>1, <1>2, <1>3, Invariance, TurnInvariance, PTL DEF Spec

\* The transaction speaks of histories with the words of Messages.
LEMMA TransactionWords ==
  ASSUME NEW ms
  PROVE  /\ Transaction!Paired(ms) <=> Paired(ms)
         /\ Transaction!TurnsIn(ms) = TurnsIn(ms)
<1>1. /\ Transaction!OutputsHaveCalls(ms) <=> OutputsHaveCalls(ms)
      /\ Transaction!CallsAreFollowed(ms) <=> CallsAreFollowed(ms)
      /\ \A i : Transaction!Answered(ms, i) <=> Answered(ms, i)
  BY DEF Transaction!OutputsHaveCalls, OutputsHaveCalls, Transaction!CallsAreFollowed,
         CallsAreFollowed, Transaction!Answered, Answered, Transaction!Answers, Answers
<1>2. Transaction!TurnsIn(ms) = TurnsIn(ms)
  BY DEF Transaction!TurnsIn, TurnsIn
<1> QED BY <1>1, <1>2 DEF Transaction!Paired, Paired

\* A quiet step begins the turn, fails it, or is none of the transaction's.
LEMMA QuietImplements ==
  ASSUME IInv, NEW t \in Turns, NEW s, Quiet(t, s)
  PROVE  [Transaction!Next]_(Transaction!vars)
<1> DEFINE phase  == [u \in Turns |-> Phase(turn[u])]
           phase2 == [u \in Turns |-> Phase(turn'[u])]
<1>1. \A u \in Turns : turn'[u] = IF u = t THEN s ELSE turn[u]
  BY DEF IInv, Quiet, Set
<1>2. phase2 = [phase EXCEPT ![t] = Phase(s)]
  <2>1. \A u \in Turns : phase2[u] = IF u = t THEN Phase(s) ELSE phase[u]
    BY <1>1, Zenon
  <2> QED BY <2>1, Zenon
<1>3. phase[t] = Phase(turn[t]) /\ store' = store
  BY DEF Quiet
<1>4. CASE Phase(turn[t]) = "idle" /\ Phase(s) = "running"
  <2>1. Transaction!Begin(t)
    <3>1. phase[t] = "idle" /\ phase2 = [phase EXCEPT ![t] = "running"]
      BY <1>2, <1>3, <1>4
    <3> QED BY <1>3, <3>1 DEF Transaction!Begin
  <2> QED BY <2>1 DEF Transaction!Next
<1>5. CASE Phase(turn[t]) = "running" /\ Phase(s) = "failed"
  <2>1. Transaction!Abort(t)
    <3>1. phase[t] = "running" /\ phase2 = [phase EXCEPT ![t] = "failed"]
      BY <1>2, <1>3, <1>5
    <3> QED BY <1>3, <3>1 DEF Transaction!Abort
  <2> QED BY <2>1 DEF Transaction!Next
<1>6. CASE Phase(turn[t]) = "running" /\ Phase(s) = "running"
  <2>1. phase2 = phase
    BY <1>2, <1>3, <1>6
  <2> QED BY <1>3, <2>1 DEF Transaction!vars
<1> QED BY <1>4, <1>5, <1>6 DEF Quiet

\* A save commits the turn.
LEMMA SaveImplements ==
  ASSUME IInv, TurnInv, NEW t \in Turns, Save(t)
  PROVE  Transaction!Next
<1> DEFINE m      == turn[t].msgs
           th     == turn[t].thread
           phase  == [u \in Turns |-> Phase(turn[u])]
           phase2 == [u \in Turns |-> Phase(turn'[u])]
<1>1. /\ th \in Threads /\ Paired(m) /\ t \in TurnsIn(m)
      /\ TurnsIn(m) \subseteq OkTurns' /\ store' = [store EXCEPT ![th] = m]
      /\ store'[th] = m
      /\ \A u \in Turns : turn'[u] = IF u = t THEN Ended(turn[t], "ok") ELSE turn[u]
      /\ Phase(turn[t]) = "running"
  BY SaveEffect
<1>2. Phase(Ended(turn[t], "ok")) = "ok"
  <2>1. Ended(turn[t], "ok").stage = "ended" /\ Ended(turn[t], "ok").outcome = "ok"
    BY DEF Ended, NewState
  <2> QED BY <2>1, Phases
<1>3. phase2 = [phase EXCEPT ![t] = "ok"]
  <2>1. \A u \in Turns : phase2[u] = IF u = t THEN "ok" ELSE phase[u]
    BY <1>1, <1>2, Zenon
  <2> QED BY <2>1, Zenon
<1>4. \A u \in Turns : turn'[u].outcome = "ok" => phase2[u] = "ok"
  <2> SUFFICES ASSUME NEW u \in Turns, turn'[u].outcome = "ok"
               PROVE  Phase(turn'[u]) = "ok"
    OBVIOUS
  <2>1. CASE u = t
    BY <1>1, <1>2, <2>1
  <2>2. CASE u # t
    <3>1. turn'[u] = turn[u]
      BY <1>1, <2>2
    <3>2. turn[u].stage = "ended"
      BY <3>1 DEF IInv, Sound
    <3> QED BY <3>1, <3>2, Phases
  <2> QED BY <2>1, <2>2
<1>5. TurnsIn(m) \subseteq {u \in Turns : phase2[u] = "ok"}
  BY <1>1, <1>4 DEF OkTurns
<1>6. /\ Transaction!Paired(store'[th]) /\ t \in Transaction!TurnsIn(store'[th])
      /\ Transaction!TurnsIn(store'[th]) \subseteq {u \in Turns : phase2[u] = "ok"}
  BY <1>1, <1>5, TransactionWords
<1>7. phase[t] = "running" /\ store' = [store EXCEPT ![th] = store'[th]]
  BY <1>1
<1>8. Transaction!Commit(t)
  BY <1>1, <1>3, <1>6, <1>7 DEF Transaction!Commit
<1> QED BY <1>8 DEF Transaction!Next

\* Whatever the stages, rounds, summaries and other turns do, a turn is a
\* transaction: it replaces one thread by a complete history that contains it and
\* successful turns only, or changes nothing (agent.go:194-459).
THEOREM TransactionImplemented == Spec => ImplementsTransaction
<1>1. Init => Transaction!Init
  <2> SUFFICES ASSUME Init PROVE Transaction!Init
    OBVIOUS
  <2>1. \A t \in Turns : turn[t] = NewState
    BY DEF Init
  <2>2. Phase(NewState) = "idle"
    BY Phases DEF NewState
  <2>3. [t \in Turns |-> Phase(turn[t])] = [t \in Turns |-> "idle"]
    BY <2>1, <2>2
  <2> QED BY <2>3 DEF Init, Transaction!Init
<1>2. IInv /\ TurnInv /\ [Next]_vars => [Transaction!Next]_(Transaction!vars)
  <2> SUFFICES ASSUME IInv, TurnInv, [Next]_vars
               PROVE  [Transaction!Next]_(Transaction!vars)
    OBVIOUS
  <2>1. CASE UNCHANGED vars
    BY <2>1 DEF vars, Transaction!vars
  <2>2. CASE Next
    BY <2>2, SavesAndQuiet, SaveImplements, QuietImplements
  <2> QED BY <2>1, <2>2
<1> QED BY <1>1, <1>2, Invariance, TurnInvariance, PTL
        DEF Spec, ImplementsTransaction, Transaction!Spec
=============================================================================
