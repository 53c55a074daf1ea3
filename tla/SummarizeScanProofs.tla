------------------------- MODULE SummarizeScanProofs -------------------------
(***************************************************************************)
(* The loops of Summarize compute their closed form, for every history and *)
(* every budget: what SummarizeScan has when it is done is what Summarize  *)
(* says, the part it keeps is the least that will do, and nothing is       *)
(* forgotten.  Sums over a history are reasoned about by induction over    *)
(* sets of numbers.                                                        *)
(***************************************************************************)
EXTENDS SummarizeScan, WellFoundedInduction, TLAPS

-----------------------------------------------------------------------------
(* Numbers *)

\* A set of numbers that has 0, and with each number the next, has all.
LEMMA SetInduction ==
  ASSUME NEW S \in SUBSET Nat, 0 \in S, \A n \in S : n + 1 \in S
  PROVE  \A n \in Nat : n \in S
<1> SUFFICES ASSUME Nat \ S # {} PROVE FALSE
  OBVIOUS
<1>1. PICK m \in Nat \ S : \A y \in Nat \ S : ~(<<y, m>> \in OpToRel(<, Nat))
  <2>1. Nat \ S \subseteq Nat
    OBVIOUS
  <2> QED BY <2>1, WFMin, NatLessThanWellFounded, Zenon
<1>2. \A y \in Nat \ S : ~(y < m)
  BY <1>1 DEF OpToRel
<1>3. m - 1 \in Nat /\ m - 1 < m /\ (m - 1) + 1 = m
  <2>1. m \in Nat /\ m # 0
    OBVIOUS
  <2> QED BY <2>1
<1>4. m - 1 \in S
  BY <1>2, <1>3
<1> QED BY <1>1, <1>3, <1>4

\* The greatest element of a set that has one.
LEMMA MaxIs ==
  ASSUME NEW S \in SUBSET Int, NEW m \in S, \A x \in S : m >= x
  PROVE  Max(S) = m
<1>1. \A x \in S : (\A y \in S : x >= y) => x = m
  BY Z3
<1> QED BY <1>1 DEF Max

\* A non-empty set of numbers with an upper bound has a greatest element.
LEMMA MaxOfBounded ==
  ASSUME NEW n \in Nat, NEW S \in SUBSET (0..n), S # {}
  PROVE  /\ Max(S) \in S
         /\ \A x \in S : Max(S) >= x
<1> DEFINE Above == {k \in 0..n : \A x \in S : k >= x}
<1>1. n \in Above /\ Above \subseteq Nat
  OBVIOUS
<1>2. PICK m \in Above : \A y \in Above : ~(<<y, m>> \in OpToRel(<, Nat))
  BY <1>1, WFMin, NatLessThanWellFounded, Zenon
<1>3. \A y \in Above : ~(y < m)
  BY <1>1, <1>2 DEF OpToRel
<1>4. ASSUME m \notin S PROVE FALSE
  <2>1. PICK x \in S : TRUE
    OBVIOUS
  <2>2. m >= x /\ m # x /\ x >= 0
    BY <1>4, <2>1
  <2>3. m - 1 \in 0..n
    BY <2>2
  <2>4. \A y \in S : m - 1 >= y
    <3> TAKE y \in S
    <3>1. m >= y /\ m # y /\ y \in Int /\ m \in Int
      BY <1>4
    <3> QED BY <3>1
  <2>5. m - 1 \in Above /\ m - 1 < m
    BY <2>3, <2>4
  <2> QED BY <1>3, <2>5
<1>5. \A x \in S : m >= x
  OBVIOUS
<1> QED BY <1>4, <1>5, MaxIs

-----------------------------------------------------------------------------
(* Sums *)

\* The function that SuffixTokens takes its value from exists, by induction from
\* the end of the history.
LEMMA SuffixSum ==
  ASSUME NEW ms \in Seq(Record), NEW k \in Nat
  PROVE  SuffixTokens(ms, k) =
           IF k > Len(ms) THEN 0 ELSE ms[k].tokens + SuffixTokens(ms, k + 1)
<1> DEFINE At(g, j) == IF j > Len(ms) THEN 0 ELSE ms[j].tokens + g[j + 1]
           Good(n, g) == \A j \in Nat : j > Len(ms) - n => g[j] = At(g, j)
           S == {n \in Nat : \E g : Good(n, g)}
<1>1. Len(ms) \in Nat
  OBVIOUS
<1>2. 0 \in S
  <2> DEFINE g == [j \in Nat |-> 0]
  <2>1. Good(0, g)
    BY <1>1
  <2> QED BY <2>1
<1>3. ASSUME NEW n \in S PROVE n + 1 \in S
  <2>1. PICK g : Good(n, g)
    OBVIOUS
  <2> DEFINE h == [j \in Nat |-> IF j = Len(ms) - n THEN At(g, j) ELSE g[j]]
  <2>2. ASSUME NEW j \in Nat, j > Len(ms) - (n + 1) PROVE h[j] = At(h, j)
    <3>1. j + 1 \in Nat /\ j + 1 # Len(ms) - n /\ n \in Nat
      BY <1>1, <2>2
    <3>2. h[j + 1] = g[j + 1]
      BY <3>1
    <3>3. CASE j = Len(ms) - n
      BY <3>2, <3>3
    <3>4. CASE j > Len(ms) - n
      BY <3>2, <3>4, <2>1
    <3> QED BY <3>1, <3>3, <3>4, <2>2, <1>1
  <2> HIDE DEF h
  <2>3. Good(n + 1, h)
    BY <2>2
  <2> HIDE DEF Good
  <2> QED BY <2>3
<1>4. \E g : g = [j \in Nat |-> At(g, j)]
  <2>1. Len(ms) + 1 \in S
    <3> HIDE DEF S
    <3>1. S \in SUBSET Nat
      BY DEF S
    <3> QED BY <1>1, <1>2, <1>3, <3>1, SetInduction
  <2>2. PICK g : Good(Len(ms) + 1, g)
    BY <2>1
  <2>3. \A j \in Nat : g[j] = At(g, j)
    BY <1>1, <2>2
  <2> DEFINE h == [j \in Nat |-> g[j]]
  <2>4. \A j \in Nat : h[j] = g[j] /\ h[j + 1] = g[j + 1]
    OBVIOUS
  <2>5. \A j \in Nat : At(h, j) = At(g, j)
    BY <2>4
  <2>6. h = [j \in Nat |-> At(h, j)]
    BY <2>3, <2>4, <2>5
  <2> QED BY <2>6
<1> DEFINE sum == CHOOSE g : g = [j \in Nat |-> At(g, j)]
<1>5. sum = [j \in Nat |-> At(sum, j)]
  BY <1>4
<1>6. SuffixTokens(ms, k) = sum[k] /\ SuffixTokens(ms, k + 1) = sum[k + 1]
  BY DEF SuffixTokens
<1> HIDE DEF sum
<1>7. sum[k] = At(sum, k)
  BY <1>5
<1> QED BY <1>6, <1>7

\* Each record adds to the sum of the tail.
LEMMA SuffixGrows ==
  ASSUME NEW ms \in Seq(Record)
  PROVE  \A j \in 1..Len(ms) + 1 :
           /\ SuffixTokens(ms, j) \in Nat
           /\ \A k \in j..Len(ms) + 1 : SuffixTokens(ms, j) >= SuffixTokens(ms, k)
<1> DEFINE L == Len(ms) + 1
           T(j) == SuffixTokens(ms, j)
           S == {n \in Nat : n < L => \A k \in (L - n)..L : /\ T(k) \in Nat
                                                           /\ T(L - n) >= T(k)}
<1>1. L \in Nat /\ Len(ms) \in Nat /\ DOMAIN ms = 1..Len(ms)
  OBVIOUS
<1>2. T(L) = 0
  BY <1>1, SuffixSum
<1>3. 0 \in S
  BY <1>1, <1>2
<1>4. ASSUME NEW n \in S PROVE n + 1 \in S
  <2> SUFFICES ASSUME n + 1 < L
               PROVE  \A k \in (L - (n + 1))..L : /\ T(k) \in Nat
                                                  /\ T(L - (n + 1)) >= T(k)
    OBVIOUS
  <2> DEFINE j == L - (n + 1)
  <2>1. n \in Nat /\ j \in 1..Len(ms) /\ j + 1 = L - n
    BY <1>1
  <2>2. \A k \in (j + 1)..L : T(k) \in Nat /\ T(j + 1) >= T(k)
    BY <2>1
  <2>7. j + 1 \in (j + 1)..L
    BY <2>1, <1>1
  <2>3. T(j) = ms[j].tokens + T(j + 1)
    BY <2>1, <1>1, SuffixSum
  <2>4. ms[j].tokens \in Nat
    <3>1. ms[j] \in Record
      BY <2>1, <1>1
    <3> QED BY <3>1 DEF Record
  <2>5. T(j + 1) \in Nat /\ T(j) \in Nat /\ T(j) >= T(j + 1)
    BY <2>2, <2>3, <2>4, <2>7
  <2>6. ASSUME NEW k \in j..L PROVE T(k) \in Nat /\ T(j) >= T(k)
    <3> HIDE DEF T, S, j
    <3>0. k = j \/ k \in (j + 1)..L
      BY <2>1, <1>1
    <3>1. CASE k = j
      BY <2>5, <3>1
    <3>2. CASE k \in (j + 1)..L
      BY <2>2, <2>5, <3>2
    <3> QED BY <3>0, <3>1, <3>2
  <2> QED BY <2>6
<1>5. \A n \in Nat : n \in S
  <2>1. S \in SUBSET Nat
    OBVIOUS
  <2> HIDE DEF S
  <2> QED BY <1>3, <1>4, <2>1, SetInduction
<1>6. ASSUME NEW j \in 1..L
      PROVE  T(j) \in Nat /\ \A k \in j..L : T(j) >= T(k)
  <2>1. L - j \in Nat /\ L - j < L /\ L - (L - j) = j
    BY <1>1
  <2>2. L - j \in S
    BY <1>5, <2>1
  <2> HIDE DEF L, T
  <2> QED BY <2>1, <2>2
<1> QED BY <1>6

-----------------------------------------------------------------------------
(* The invariant of the loops *)

\* What holds at each line: in the backward scan every later tail is too short; it
\* ends at ScanIndex; in the walk back all that was passed is tool outputs; it ends
\* at KeepIndex.
ScanInv ==
  LET T(j) == SuffixTokens(messages, j)
  IN  /\ messages \in Seq(Record)
      /\ pc \in {"scan", "check", "walk", "render", "call", "done", "error"}
      /\ pc \notin {"done", "error"} => Len(messages) > 0 /\ T(1) > MaxTokens
      /\ pc # "done" => result = NoResult
      /\ pc = "scan" =>
           /\ i \in 1..Len(messages)
           /\ keptTokens = T(i + 1)
           /\ \A j \in (i + 1)..Len(messages) : T(j) < KeepTokens
      /\ pc = "check" => i = ScanIndex(messages) /\ keepIndex = i - 1
      /\ pc = "walk" =>
           /\ keepIndex \in 0..(ScanIndex(messages) - 1)
           /\ \A j \in (keepIndex + 2)..ScanIndex(messages) :
                messages[j].kind = "tool_output"
      /\ pc \in {"render", "call"} => keepIndex = KeepIndex(messages) - 1
      /\ pc = "call" => NeedsSummary(messages)
      /\ pc = "done" => MatchesClosedForm

\* Where the scan stops is ScanIndex.
LEMMA ScanStops ==
  ASSUME NEW ms \in Seq(Record), NEW k \in 1..Len(ms),
         k = 1 \/ SuffixTokens(ms, k) >= KeepTokens,
         \A j \in (k + 1)..Len(ms) : SuffixTokens(ms, j) < KeepTokens
  PROVE  ScanIndex(ms) = k
<1> DEFINE S == {j \in DOMAIN ms : j = 1 \/ SuffixTokens(ms, j) >= KeepTokens}
<1>1. Len(ms) \in Nat /\ DOMAIN ms = 1..Len(ms) /\ S \in SUBSET Int /\ k \in S
  OBVIOUS
<1>2. ASSUME NEW x \in S, ~(k >= x) PROVE FALSE
  <2>1. x \in (k + 1)..Len(ms) /\ x # 1
    BY <1>1, <1>2
  <2>2. SuffixTokens(ms, x) < KeepTokens /\ SuffixTokens(ms, x) >= KeepTokens
    BY <2>1
  <2>3. SuffixTokens(ms, x) \in Nat /\ KeepTokens \in Nat
    BY <1>1, <2>1, SuffixGrows, TokenAssumption
  <2> QED BY <2>2, <2>3
<1> HIDE DEF S
<1>3. Max(S) = k
  BY <1>1, <1>2, MaxIs
<1> QED BY <1>3 DEF ScanIndex, S

\* Where the walk back stops is KeepIndex.
LEMMA WalkStops ==
  ASSUME NEW ms \in Seq(Record), NEW k \in 1..ScanIndex(ms), ScanIndex(ms) \in Int,
         k = 1 \/ ms[k].kind # "tool_output",
         \A j \in (k + 1)..ScanIndex(ms) : ms[j].kind = "tool_output"
  PROVE  KeepIndex(ms) = k
<1> DEFINE S == {j \in 1..ScanIndex(ms) : j = 1 \/ ms[j].kind # "tool_output"}
<1>1. S \in SUBSET Int /\ k \in S
  OBVIOUS
<1>2. ASSUME NEW x \in S, ~(k >= x) PROVE FALSE
  <2>1. x \in (k + 1)..ScanIndex(ms) /\ x # 1
    BY <1>2
  <2> QED BY <2>1
<1> HIDE DEF S
<1>3. Max(S) = k
  BY <1>1, <1>2, MaxIs
<1> QED BY <1>3 DEF KeepIndex, S

\* ScanIndex and KeepIndex are what they are the greatest of.
LEMMA IndexBounds ==
  ASSUME NEW ms \in Seq(Record), Len(ms) > 0
  PROVE  /\ ScanIndex(ms) \in 1..Len(ms)
         /\ ScanIndex(ms) = 1 \/ SuffixTokens(ms, ScanIndex(ms)) >= KeepTokens
         /\ \A j \in 1..Len(ms) : j > ScanIndex(ms) =>
              ~(SuffixTokens(ms, j) >= KeepTokens)
         /\ KeepIndex(ms) \in 1..ScanIndex(ms)
         /\ \A j \in 1..ScanIndex(ms) : j > KeepIndex(ms) => ms[j].kind = "tool_output"
<1> DEFINE S == {j \in DOMAIN ms : j = 1 \/ SuffixTokens(ms, j) >= KeepTokens}
           W == {j \in 1..ScanIndex(ms) : j = 1 \/ ms[j].kind # "tool_output"}
<1>1. Len(ms) \in Nat /\ DOMAIN ms = 1..Len(ms)
  OBVIOUS
<1>2. S \in SUBSET (0..Len(ms)) /\ S # {}
  <2>1. 1 \in S
    BY <1>1
  <2> QED BY <1>1, <2>1
<1>3. Max(S) \in S /\ \A x \in S : Max(S) >= x
  <2> HIDE DEF S
  <2> QED BY <1>1, <1>2, MaxOfBounded
<1>4. ScanIndex(ms) = Max(S)
  BY DEF ScanIndex
<1>5. /\ ScanIndex(ms) \in 1..Len(ms)
      /\ ScanIndex(ms) = 1 \/ SuffixTokens(ms, ScanIndex(ms)) >= KeepTokens
  BY <1>1, <1>3, <1>4
<1>6. ASSUME NEW j \in 1..Len(ms), j > ScanIndex(ms), SuffixTokens(ms, j) >= KeepTokens
      PROVE  FALSE
  <2>1. j \in S
    BY <1>1, <1>6
  <2>2. ScanIndex(ms) >= j
    BY <1>3, <1>4, <2>1, Zenon
  <2> QED BY <1>5, <1>6, <2>2
<1> HIDE DEF S
<1>7. W \in SUBSET (0..ScanIndex(ms)) /\ W # {}
  <2>1. 1 \in W
    BY <1>5
  <2> QED BY <1>5, <2>1
<1>8. Max(W) \in W /\ \A x \in W : Max(W) >= x
  <2>1. ScanIndex(ms) \in Nat
    BY <1>1, <1>5
  <2> HIDE DEF W
  <2> QED BY <2>1, <1>7, MaxOfBounded
<1>9. KeepIndex(ms) = Max(W)
  BY DEF KeepIndex
<1>10. KeepIndex(ms) \in 1..ScanIndex(ms)
  BY <1>8, <1>9
<1>11. ASSUME NEW j \in 1..ScanIndex(ms), j > KeepIndex(ms), ms[j].kind # "tool_output"
       PROVE  FALSE
  <2>1. KeepIndex(ms) >= j
    BY <1>8, <1>9, <1>11
  <2> QED BY <1>5, <1>10, <1>11, <2>1
<1> QED BY <1>5, <1>6, <1>10, <1>11

LEMMA InitInv == Init => ScanInv
<1> SUFFICES ASSUME Init PROVE ScanInv
  OBVIOUS
<1>1. messages \in Seq(Record) /\ Len(messages) \in Nat
  BY ScanAssumption DEF Init
<1>2. CASE Len(messages) = 0 \/ SuffixTokens(messages, 1) <= MaxTokens
  <2>1. pc = "done" /\ result = Unchanged
    BY <1>2 DEF Init
  <2>2. ~NeedsSummary(messages)
    <3>1. Len(messages) > 0 => SuffixTokens(messages, 1) \in Nat
      BY <1>1, SuffixGrows
    <3> QED BY <1>1, <1>2, <3>1, TokenAssumption DEF NeedsSummary
  <2> QED BY <1>1, <2>1, <2>2 DEF ScanInv, MatchesClosedForm, Unchanged
<1>3. CASE ~(Len(messages) = 0 \/ SuffixTokens(messages, 1) <= MaxTokens)
  <2>1. pc = "scan" /\ result = NoResult /\ i = Len(messages) /\ keptTokens = 0
    BY <1>3 DEF Init
  <2>2. Len(messages) > 0 /\ SuffixTokens(messages, 1) > MaxTokens
    <3>1. Len(messages) > 0
      BY <1>1, <1>3
    <3>2. SuffixTokens(messages, 1) \in Nat
      BY <1>1, <3>1, SuffixGrows
    <3> QED BY <1>3, <3>1, <3>2, TokenAssumption
  <2>3. SuffixTokens(messages, i + 1) = 0
    BY <1>1, <2>1, SuffixSum
  <2> QED BY <1>1, <2>1, <2>2, <2>3 DEF ScanInv
<1> QED BY <1>2, <1>3

\* One record further back, or the end of the scan.
LEMMA ScanPreserves == ScanInv /\ Scan => ScanInv'
<1> SUFFICES ASSUME ScanInv, Scan PROVE ScanInv'
  OBVIOUS
<1>1. /\ messages \in Seq(Record) /\ Len(messages) \in Nat
      /\ Len(messages) > 0 /\ SuffixTokens(messages, 1) > MaxTokens
      /\ result = NoResult
      /\ i \in 1..Len(messages) /\ keptTokens = SuffixTokens(messages, i + 1)
      /\ \A j \in (i + 1)..Len(messages) : SuffixTokens(messages, j) < KeepTokens
      /\ messages' = messages /\ result' = result
      /\ keptTokens' = keptTokens + messages[i].tokens /\ keepIndex' = i - 1
  BY DEF ScanInv, Scan
<1>2. keptTokens' = SuffixTokens(messages, i)
  <2>1. SuffixTokens(messages, i) = messages[i].tokens + SuffixTokens(messages, i + 1)
    BY <1>1, SuffixSum
  <2>2. messages[i].tokens \in Nat
    <3>1. messages[i] \in Record
      BY <1>1
    <3> QED BY <3>1 DEF Record
  <2>3. SuffixTokens(messages, i + 1) \in Nat
    <3>1. i + 1 \in 1..Len(messages) + 1
      BY <1>1
    <3> QED BY <1>1, <3>1, SuffixGrows
  <2> QED BY <1>1, <2>1, <2>2, <2>3
<1>3. CASE keptTokens' >= KeepTokens \/ i = 1
  <2>1. pc' = "check" /\ i' = i
    BY <1>3 DEF Scan
  <2>2. ScanIndex(messages) = i
    BY <1>1, <1>2, <1>3, ScanStops
  <2> QED BY <1>1, <2>1, <2>2 DEF ScanInv
<1>4. CASE ~(keptTokens' >= KeepTokens \/ i = 1)
  <2>1. pc' = "scan" /\ i' = i - 1 /\ i - 1 \in 1..Len(messages) /\ (i - 1) + 1 = i
    BY <1>1, <1>4 DEF ScanInv, Scan
  <2>2. SuffixTokens(messages, i) < KeepTokens
    <3>1. SuffixTokens(messages, i) \in Nat
      BY <1>1, SuffixGrows
    <3> QED BY <1>2, <1>4, <3>1, TokenAssumption
  <2>3. \A j \in ((i - 1) + 1)..Len(messages) : SuffixTokens(messages, j) < KeepTokens
    <3> TAKE j \in ((i - 1) + 1)..Len(messages)
    <3>1. j = i \/ j \in (i + 1)..Len(messages)
      BY <1>1
    <3> QED BY <1>1, <2>2, <3>1
  <2> QED BY <1>1, <1>2, <2>1, <2>3 DEF ScanInv
<1> QED BY <1>3, <1>4

LEMMA CheckPreserves == ScanInv /\ Check => ScanInv'
<1> SUFFICES ASSUME ScanInv, Check PROVE ScanInv'
  OBVIOUS
<1>1. /\ messages \in Seq(Record)
      /\ Len(messages) > 0 /\ SuffixTokens(messages, 1) > MaxTokens
      /\ result = NoResult /\ keepIndex = ScanIndex(messages) - 1
      /\ messages' = messages /\ keepIndex' = keepIndex
  BY DEF ScanInv, Check
<1>2. /\ ScanIndex(messages) \in 1..Len(messages)
      /\ KeepIndex(messages) \in 1..ScanIndex(messages)
  BY <1>1, IndexBounds
<1>3. CASE keepIndex <= 0
  <2>1. pc' = "done" /\ result' = Unchanged
    BY <1>3 DEF Check
  <2>2. ~NeedsSummary(messages)
    BY <1>1, <1>2, <1>3 DEF NeedsSummary
  <2> QED BY <1>1, <2>1, <2>2 DEF ScanInv, MatchesClosedForm, Unchanged
<1>4. CASE ~(keepIndex <= 0)
  <2>1. pc' = "walk" /\ result' = result
    BY <1>4 DEF Check
  <2>2. keepIndex \in 0..(ScanIndex(messages) - 1)
        /\ (keepIndex + 2)..ScanIndex(messages) = {}
    BY <1>1, <1>2
  <2> QED BY <1>1, <2>1, <2>2 DEF ScanInv
<1> QED BY <1>3, <1>4

LEMMA WalkPreserves == ScanInv /\ Walk => ScanInv'
<1> SUFFICES ASSUME ScanInv, Walk PROVE ScanInv'
  OBVIOUS
<1>1. /\ messages \in Seq(Record)
      /\ Len(messages) > 0 /\ SuffixTokens(messages, 1) > MaxTokens
      /\ result = NoResult /\ keepIndex \in 0..(ScanIndex(messages) - 1)
      /\ \A j \in (keepIndex + 2)..ScanIndex(messages) : messages[j].kind = "tool_output"
      /\ messages' = messages /\ result' = result
  BY DEF ScanInv, Walk
<1>2. ScanIndex(messages) \in 1..Len(messages)
  BY <1>1, IndexBounds
<1>3. CASE keepIndex > 0 /\ messages[keepIndex + 1].kind = "tool_output"
  <2>1. pc' = "walk" /\ keepIndex' = keepIndex - 1
    BY <1>3 DEF Walk
  <2>2. keepIndex - 1 \in 0..(ScanIndex(messages) - 1)
    BY <1>1, <1>2, <1>3
  <2>3. \A j \in ((keepIndex - 1) + 2)..ScanIndex(messages) :
          messages[j].kind = "tool_output"
    <3> TAKE j \in ((keepIndex - 1) + 2)..ScanIndex(messages)
    <3>1. j = keepIndex + 1 \/ j \in (keepIndex + 2)..ScanIndex(messages)
      BY <1>1, <1>2
    <3> QED BY <1>1, <1>3, <3>1
  <2> QED BY <1>1, <2>1, <2>2, <2>3 DEF ScanInv
<1>4. CASE ~(keepIndex > 0 /\ messages[keepIndex + 1].kind = "tool_output")
  <2>1. pc' = "render" /\ keepIndex' = keepIndex
    BY <1>4 DEF Walk
  <2>2. KeepIndex(messages) = keepIndex + 1
    <3>1. /\ keepIndex + 1 \in 1..ScanIndex(messages) /\ ScanIndex(messages) \in Int
          /\ keepIndex + 1 = 1 \/ messages[keepIndex + 1].kind # "tool_output"
          /\ (keepIndex + 1) + 1 = keepIndex + 2
      BY <1>1, <1>2, <1>4
    <3> QED BY <1>1, <3>1, WalkStops
  <2>3. keepIndex = KeepIndex(messages) - 1
    BY <1>1, <1>2, <2>2
  <2> QED BY <1>1, <2>1, <2>3 DEF ScanInv
<1> QED BY <1>3, <1>4

LEMMA RenderPreserves == ScanInv /\ Render => ScanInv'
<1> SUFFICES ASSUME ScanInv, Render PROVE ScanInv'
  OBVIOUS
<1>1. /\ messages \in Seq(Record)
      /\ Len(messages) > 0 /\ SuffixTokens(messages, 1) > MaxTokens
      /\ result = NoResult /\ keepIndex = KeepIndex(messages) - 1
      /\ messages' = messages /\ keepIndex' = keepIndex
  BY DEF ScanInv, Render
<1>2. Older(messages) = SubSeq(messages, 1, keepIndex)
  BY <1>1 DEF Older
<1>3. CASE Renders(Older(messages))
  <2>1. pc' = "call" /\ result' = result
    BY <1>2, <1>3 DEF Render
  <2>2. KeepIndex(messages) > 1
    <3>1. KeepIndex(messages) \in 1..ScanIndex(messages) /\ ScanIndex(messages) \in Int
      BY <1>1, IndexBounds
    <3>2. KeepIndex(messages) # 1
      <4>1. SubSeq(messages, 1, 0) = <<>>
        BY <1>1
      <4> QED BY <1>3, <4>1 DEF Renders, Older
    <3> QED BY <3>1, <3>2
  <2>3. NeedsSummary(messages)
    BY <1>1, <1>3, <2>2 DEF NeedsSummary
  <2> QED BY <1>1, <2>1, <2>3 DEF ScanInv
<1>4. CASE ~Renders(Older(messages))
  <2>1. pc' = "done" /\ result' = Unchanged
    BY <1>2, <1>4 DEF Render
  <2>2. ~NeedsSummary(messages)
    BY <1>4 DEF NeedsSummary
  <2> QED BY <1>1, <2>1, <2>2 DEF ScanInv, MatchesClosedForm, Unchanged
<1> QED BY <1>3, <1>4

LEMMA CallPreserves == ScanInv /\ CallModelForSummary => ScanInv'
<1> SUFFICES ASSUME ScanInv, CallModelForSummary PROVE ScanInv'
  OBVIOUS
<1>1. /\ messages \in Seq(Record) /\ NeedsSummary(messages)
      /\ keepIndex = KeepIndex(messages) - 1 /\ Len(messages) > 0
      /\ messages' = messages /\ pc' = "done"
  BY DEF ScanInv, CallModelForSummary
<1>2. /\ Older(messages) = SubSeq(messages, 1, keepIndex)
      /\ Kept(messages) = SubSeq(messages, keepIndex + 1, Len(messages))
  <2>1. keepIndex + 1 = KeepIndex(messages)
    BY <1>1, IndexBounds
  <2> QED BY <1>1, <2>1 DEF Older, Kept
<1>3. PICK n \in SummaryTokens :
        result' = [messages |-> <<SummaryOf(Older(messages), n)>> \o Kept(messages),
                   performed |-> TRUE, newContextCount |-> Len(Kept(messages))]
  BY <1>2 DEF CallModelForSummary
<1>4. /\ result'.performed = TRUE /\ result'.messages = Summarized(messages, n)
      /\ result'.newContextCount = Len(Kept(messages))
  BY <1>3 DEF Summarized
<1> QED BY <1>1, <1>4 DEF ScanInv, MatchesClosedForm

LEMMA NextInv == ScanInv /\ [Next]_vars => ScanInv'
<1> SUFFICES ASSUME ScanInv, [Next]_vars PROVE ScanInv'
  OBVIOUS
<1>1. CASE SummaryFails
  BY <1>1 DEF ScanInv, SummaryFails
<1>2. CASE UNCHANGED vars
  BY <1>2 DEF ScanInv, MatchesClosedForm, vars
<1> QED BY <1>1, <1>2, ScanPreserves, CheckPreserves, WalkPreserves, RenderPreserves,
           CallPreserves DEF Next

LEMMA ScanInvariant == Spec => []ScanInv
BY InitInv, NextInv, PTL DEF Spec

-----------------------------------------------------------------------------
(* The theorems *)

(***************************************************************************)
(* Partial correctness: whatever the history, the budget and the size of   *)
(* the reply, when Summarize returns it returns the closed form that the   *)
(* turns of AgentLoop use (summarize.go:77-162).                           *)
(***************************************************************************)
THEOREM ReturnIsClosedForm == Spec => [](pc = "done" => MatchesClosedForm)
<1>1. ScanInv => (pc = "done" => MatchesClosedForm)
  BY DEF ScanInv
<1> QED BY <1>1, ScanInvariant, PTL

(***************************************************************************)
(* The tail that is kept carries KeepTokens, and no shorter one that does  *)
(* begins outside a group of tool outputs (summarize.go:92-112).           *)
(***************************************************************************)
THEOREM LeastKept == Spec => []KeptIsLeast
<1>1. ASSUME ScanInv, result.performed
      PROVE  LET first == Len(messages) - result.newContextCount + 1
                 Whole(j) == j > Len(messages) \/ messages[j].kind # "tool_output"
             IN  /\ SuffixTokens(messages, first) >= KeepTokens
                 /\ \A j \in (first + 1)..(Len(messages) + 1) :
                      Whole(j) => SuffixTokens(messages, j) < KeepTokens
  <2> DEFINE L == Len(messages)
             first == L - result.newContextCount + 1
             T(j) == SuffixTokens(messages, j)
  <2>1. /\ messages \in Seq(Record) /\ L \in Nat /\ L > 0 /\ T(1) > MaxTokens
        /\ result.newContextCount = Len(Kept(messages))
    BY <1>1 DEF ScanInv, NoResult, MatchesClosedForm, NeedsSummary
  <2>2. /\ ScanIndex(messages) \in 1..L
        /\ ScanIndex(messages) = 1 \/ T(ScanIndex(messages)) >= KeepTokens
        /\ \A j \in 1..L : j > ScanIndex(messages) => ~(T(j) >= KeepTokens)
        /\ KeepIndex(messages) \in 1..ScanIndex(messages)
        /\ \A j \in 1..ScanIndex(messages) :
             j > KeepIndex(messages) => messages[j].kind = "tool_output"
    BY <2>1, IndexBounds
  <2>3. first = KeepIndex(messages)
    <3>1. Len(Kept(messages)) = L - KeepIndex(messages) + 1
      BY <2>1, <2>2 DEF Kept
    <3> QED BY <2>1, <2>2, <3>1
  <2>4. \A j \in 1..(L + 1) : T(j) \in Nat /\ \A k \in j..(L + 1) : T(j) >= T(k)
    BY <2>1, SuffixGrows
  <2>5. T(L + 1) = 0
    BY <2>1, SuffixSum
  <2> HIDE DEF T, first
  <2>6. T(first) >= KeepTokens
    <3>1. T(ScanIndex(messages)) >= KeepTokens
      <4>1. T(1) \in Nat
        BY <2>1, <2>4
      <4> QED BY <2>1, <2>2, <4>1, TokenAssumption
    <3>2. /\ first \in 1..(L + 1) /\ ScanIndex(messages) \in 1..(L + 1)
          /\ ScanIndex(messages) \in first..(L + 1)
      BY <2>1, <2>2, <2>3
    <3>3. T(first) >= T(ScanIndex(messages)) /\ T(first) \in Nat
          /\ T(ScanIndex(messages)) \in Nat
      BY <2>4, <3>2
    <3> QED BY <3>1, <3>3, TokenAssumption
  <2>7. ASSUME NEW j \in (first + 1)..(L + 1),
               j > L \/ messages[j].kind # "tool_output"
        PROVE  T(j) < KeepTokens
    <3>1. CASE j = L + 1
      BY <2>5, <3>1, TokenAssumption
    <3>2. CASE j # L + 1
      <4>1. j \in 1..L /\ j > KeepIndex(messages) /\ j \in 1..(L + 1)
        BY <2>1, <2>2, <2>3, <3>2
      <4>2. j > ScanIndex(messages)
        BY <2>1, <2>2, <2>7, <4>1
      <4>3. ~(T(j) >= KeepTokens) /\ T(j) \in Nat
        BY <2>2, <2>4, <4>1, <4>2
      <4> QED BY <4>3, TokenAssumption
    <3> QED BY <3>1, <3>2
  <2> QED BY <2>6, <2>7 DEF first, T
<1>2. ScanInv => KeptIsLeast
  BY <1>1, Zenon DEF KeptIsLeast
<1> QED BY <1>2, ScanInvariant, PTL

(***************************************************************************)
(* Every record that has text is kept or was summarized: between the two   *)
(* no record falls out (summarize.go:111-149).                             *)
(***************************************************************************)
THEOREM NothingIsForgotten == Spec => []NothingForgotten
<1>1. ASSUME ScanInv, pc = "done", NEW j \in DOMAIN messages, messages[j].text
      PROVE  messages[j].turns \subseteq TurnsIn(result.messages)
  <2>1. messages \in Seq(Record) /\ MatchesClosedForm /\ DOMAIN messages = 1..Len(messages)
        /\ Len(messages) \in Nat
    BY <1>1 DEF ScanInv
  <2>2. CASE ~result.performed
    BY <1>1, <2>1, <2>2 DEF MatchesClosedForm, TurnsIn
  <2>3. CASE result.performed
    <3> DEFINE K == KeepIndex(messages)
    <3>1. PICK n \in SummaryTokens : result.messages = Summarized(messages, n)
      BY <2>1, <2>3 DEF MatchesClosedForm
    <3>2. K \in 1..Len(messages)
      <4>1. Len(messages) > 0
        BY <2>1, <2>3 DEF MatchesClosedForm, NeedsSummary
      <4> QED BY <2>1, <4>1, IndexBounds
    <3> DEFINE s == SummaryOf(Older(messages), n)
    <3>3. /\ result.messages = <<s>> \o Kept(messages)
          /\ Kept(messages) = SubSeq(messages, K, Len(messages))
          /\ Older(messages) = SubSeq(messages, 1, K - 1)
      BY <3>1 DEF Summarized, Kept, Older
    <3> HIDE DEF K
    <3>4. Len(<<s>>) = 1 /\ <<s>>[1] = s
      OBVIOUS
    <3>5. /\ Len(Kept(messages)) = Len(messages) - K + 1
          /\ \A k \in 1..(Len(messages) - K + 1) : Kept(messages)[k] = messages[K + k - 1]
      BY <2>1, <3>2, <3>3
    <3>6. /\ DOMAIN result.messages = 1..(1 + Len(messages) - K + 1)
          /\ result.messages[1] = s
          /\ \A k \in 1..(Len(messages) - K + 1) :
               result.messages[k + 1] = messages[K + k - 1]
      <4>1. <<s>> \in Seq({s}) /\ Kept(messages) \in Seq(Record)
        BY <2>1, <3>2, <3>3
      <4> HIDE DEF s
      <4> QED BY <2>1, <3>2, <3>3, <3>4, <3>5, <4>1
    <3>7. CASE j < K
      <4>1. j \in DOMAIN Older(messages) /\ Older(messages)[j] = messages[j]
        BY <2>1, <3>2, <3>3, <3>7
      <4>2. messages[j].turns \subseteq s.turns
        BY <1>1, <4>1 DEF SummaryOf, Summary, Plain
      <4>3. 1 \in DOMAIN result.messages
        BY <3>2, <3>6
      <4> QED BY <3>6, <4>2, <4>3 DEF TurnsIn
    <3>8. CASE j >= K
      <4>1. PICK k \in 1..(Len(messages) - K + 1) : K + k - 1 = j
        <5>1. (j - K + 1) \in 1..(Len(messages) - K + 1) /\ K + (j - K + 1) - 1 = j
          BY <2>1, <3>2, <3>8
        <5> QED BY <5>1
      <4>2. result.messages[k + 1] = messages[j]
        BY <3>6, <4>1
      <4>3. k + 1 \in DOMAIN result.messages
        BY <2>1, <3>2, <3>6
      <4> QED BY <4>2, <4>3 DEF TurnsIn
    <3> QED BY <2>1, <3>2, <3>7, <3>8
  <2> QED BY <2>2, <2>3
<1>2. ScanInv => NothingForgotten
  BY <1>1 DEF NothingForgotten
<1> QED BY <1>2, ScanInvariant, PTL
==============================================================================
