--------------------------- MODULE LuaStack_proofs ---------------------------
(***************************************************************************)
(* Proofs about LuaStack, for any script, any requests of the host and any *)
(* number of slots.  What has to be found out is where on the stack the    *)
(* arguments are while they are pushed; it follows by induction over their *)
(* number, for which a least counterexample stands in.                     *)
(***************************************************************************)
EXTENDS LuaStack, SequenceFacts

-----------------------------------------------------------------------------
(* Lemmas about the steps of a push *)

\* The recursion that concatenates the steps of each argument has a solution.
LEMMA ConcatenationExists ==
  ASSUME NEW n \in Nat, NEW part
  PROVE  \E g : g = [i \in 0..n |-> IF i = 0 THEN <<>> ELSE g[i - 1] \o part[i]]
<1> DEFINE Solution(g, k) == g = [i \in 0..k |-> IF i = 0 THEN <<>> ELSE g[i - 1] \o part[i]]
           T == {k \in Nat : ~\E g : Solution(g, k)}
<1>1. ASSUME T # {} PROVE FALSE
  <2>1. PICK k \in T : \A m \in T : k <= m
    BY <1>1, LeastNumber
  <2>2. Solution([i \in 0..0 |-> <<>>], 0)
    OBVIOUS
  <2>3. k # 0 /\ k \in Nat
    BY <2>1, <2>2
  <2>4. PICK g : Solution(g, k - 1)
    <3>1. k - 1 \in Nat /\ ~(k <= k - 1)
      BY <2>3
    <3>2. k - 1 \notin T
      BY <2>1, <3>1
    <3>3. QED
      BY <3>1, <3>2
  <2> DEFINE h == [i \in 0..k |-> IF i = 0 THEN <<>> ELSE g[i - 1] \o part[i]]
  <2>5. ASSUME NEW i \in 0..k PROVE h[i] = IF i = 0 THEN <<>> ELSE h[i - 1] \o part[i]
    <3>1. CASE i = 0
      BY <3>1
    <3>2. CASE i # 0
      <4>1. i - 1 \in 0..(k - 1) /\ i - 1 \in 0..k
        BY <2>3, <3>2
      <4>2. h[i - 1] = IF i - 1 = 0 THEN <<>> ELSE g[i - 1 - 1] \o part[i - 1]
        BY <4>1
      <4>3. g[i - 1] = IF i - 1 = 0 THEN <<>> ELSE g[i - 1 - 1] \o part[i - 1]
        BY <2>4, <4>1
      <4>4. h[i - 1] = g[i - 1]
        BY <4>2, <4>3
      <4>5. h[i] = g[i - 1] \o part[i]
        BY <3>2
      <4>6. QED
        BY <3>2, <4>4, <4>5
    <3>3. QED
      BY <3>1, <3>2
  <2>6. Solution(h, k)
    BY <2>5
  <2>7. QED
    BY <2>1, <2>6
<1>2. QED
  BY <1>1

\* What StepsOf computes: nothing for no argument, then the steps of one
\* argument after the other.
LEMMA StepsOfFacts ==
  ASSUME NEW args, Len(args) \in Nat
  PROVE  /\ StepsOf(args)[0] = <<>>
         /\ \A i \in 1..Len(args) : StepsOf(args)[i] = StepsOf(args)[i - 1] \o PushSteps(args[i])
<1> DEFINE n == Len(args)
           part == [i \in 1..n |-> PushSteps(args[i])]
           Solution(g) ==
             g = [i \in 0..n |-> IF i = 0 THEN <<>> ELSE g[i - 1] \o PushSteps(args[i])]
<1>1. \E g : Solution(g)
  <2>1. PICK g : g = [i \in 0..n |-> IF i = 0 THEN <<>> ELSE g[i - 1] \o part[i]]
    BY ConcatenationExists
  <2>2. \A i \in 0..n : (IF i = 0 THEN <<>> ELSE g[i - 1] \o part[i])
                         = (IF i = 0 THEN <<>> ELSE g[i - 1] \o PushSteps(args[i]))
    OBVIOUS
  <2>3. Solution(g)
    BY <2>1, <2>2
  <2>4. QED
    BY <2>3
<1>2. StepsOf(args) = CHOOSE g : Solution(g)
  BY DEF StepsOf
<1>3. Solution(StepsOf(args))
  BY <1>1, <1>2
<1>4. ASSUME NEW g, Solution(g)
      PROVE  g[0] = <<>> /\ \A i \in 1..n : g[i] = g[i - 1] \o PushSteps(args[i])
  <2>1. \A i \in 0..n : g[i] = IF i = 0 THEN <<>> ELSE g[i - 1] \o PushSteps(args[i])
    BY <1>4
  <2>2. 0 \in 0..n /\ \A i \in 1..n : i \in 0..n /\ i # 0
    OBVIOUS
  <2> HIDE DEF n, Solution
  <2>3. QED
    BY <2>1, <2>2
<1> HIDE DEF Solution
<1>5. QED
  BY <1>3, <1>4

\* The steps of one value.
LEMMA PushStepsFacts ==
  ASSUME NEW v, IsValue(v)
  PROVE  /\ IsSequence(PushSteps(v)) /\ Len(PushSteps(v)) \in Nat \ {0}
         /\ v.kind # "table" =>
              Len(PushSteps(v)) = 1 /\ PushSteps(v)[1] = [push |-> "value", arg |-> v]
         /\ v.kind = "table" =>
              LET n == Len(v.val) IN
              /\ n \in Nat /\ Len(PushSteps(v)) = 2 * n + 2
              /\ PushSteps(v)[1] = [push |-> "table", arg |-> Table(<<>>)]
              /\ \A i \in 1..(2 * n) : PushSteps(v)[1 + i] =
                   [push |-> "value",
                    arg |-> v.val[(i + 1) \div 2][IF i % 2 = 1 THEN 1 ELSE 2]]
              /\ PushSteps(v)[2 * n + 2] = [push |-> "end", arg |-> n]
<1>1. CASE v.kind # "table"
  <2>1. PushSteps(v) = <<[push |-> "value", arg |-> v]>>
    BY <1>1 DEF PushSteps
  <2>2. ASSUME NEW x PROVE IsSequence(<<x>>) /\ Len(<<x>>) = 1 /\ <<x>>[1] = x
    BY DEF IsSequence
  <2>3. QED
    BY <1>1, <2>1, <2>2
<1>2. CASE v.kind = "table"
  <2> DEFINE n == Len(v.val)
             first == <<[push |-> "table", arg |-> Table(<<>>)]>>
             pairs == [i \in 1..(2 * n) |->
               [push |-> "value", arg |-> v.val[(i + 1) \div 2][IF i % 2 = 1 THEN 1 ELSE 2]]]
             last == <<[push |-> "end", arg |-> n]>>
  <2>1. n \in Nat /\ 2 * n \in Nat
    BY <1>2 DEF IsValue, IsSequence
  <2>2. PushSteps(v) = first \o pairs \o last
    BY <1>2 DEF PushSteps
  <2>3. ASSUME NEW x PROVE IsSequence(<<x>>) /\ Len(<<x>>) = 1 /\ <<x>>[1] = x
    BY DEF IsSequence
  <2>4. /\ IsSequence(first) /\ Len(first) = 1
        /\ first[1] = [push |-> "table", arg |-> Table(<<>>)]
    BY <2>3
  <2>5. /\ IsSequence(last) /\ Len(last) = 1 /\ last[1] = [push |-> "end", arg |-> n]
    BY <2>3
  <2>6. IsSequence(pairs) /\ Len(pairs) = 2 * n
    <3>1. pairs = [i \in 1..(2 * n) |-> pairs[i]]
      OBVIOUS
    <3> HIDE DEF pairs
    <3>2. QED
      BY <2>1, <3>1, FunctionIsSequence
  <2>7. \A i \in 1..(2 * n) : pairs[i] =
          [push |-> "value", arg |-> v.val[(i + 1) \div 2][IF i % 2 = 1 THEN 1 ELSE 2]]
    OBVIOUS
  <2> HIDE DEF n, first, pairs, last
  <2>8. /\ IsSequence(first \o pairs) /\ Len(first \o pairs) = 1 + 2 * n
        /\ (first \o pairs)[1] = first[1]
        /\ \A i \in 1..(2 * n) : (first \o pairs)[1 + i] = pairs[i]
    <3>1. IsConcat(first \o pairs, first, pairs)
      BY <2>4, <2>6, ConcatFacts, Zenon
    <3>2. QED
      BY <2>1, <2>4, <2>6, <3>1 DEF IsConcat
  <2>9. /\ IsSequence(PushSteps(v)) /\ Len(PushSteps(v)) = 2 * n + 2
        /\ \A i \in 1..(1 + 2 * n) : PushSteps(v)[i] = (first \o pairs)[i]
        /\ PushSteps(v)[2 * n + 2] = last[1]
    <3> DEFINE most == first \o pairs
    <3>1. PushSteps(v) = most \o last /\ Len(most) = 1 + 2 * n
      BY <2>2, <2>8
    <3>2. IsConcat(PushSteps(v), most, last)
      BY <2>5, <2>8, <3>1, ConcatFacts, Zenon
    <3> HIDE DEF most
    <3>3. /\ IsSequence(PushSteps(v)) /\ Len(PushSteps(v)) = 2 * n + 2
          /\ \A i \in 1..(1 + 2 * n) : PushSteps(v)[i] = most[i]
          /\ PushSteps(v)[1 + 2 * n + 1] = last[1]
      BY <2>1, <2>5, <3>1, <3>2 DEF IsConcat
    <3>4. 1 + 2 * n + 1 = 2 * n + 2
      BY <2>1
    <3>5. QED
      BY <3>3, <3>4 DEF most
  <2>10. \A i \in 1..(2 * n) : 1 + i \in 1..(1 + 2 * n)
    BY <2>1
  <2>11. 1 \in 1..(1 + 2 * n) /\ 2 * n + 2 \in Nat \ {0}
    BY <2>1
  <2>12. \A i \in 1..(2 * n) : PushSteps(v)[1 + i] = pairs[i]
    BY <2>8, <2>9, <2>10
  <2>13. PushSteps(v)[1] = first[1]
    BY <2>8, <2>9, <2>11
  <2>14. QED
    BY <1>2, <2>1, <2>4, <2>5, <2>7, <2>9, <2>11, <2>12, <2>13 DEF n
<1>3. QED
  BY <1>1, <1>2

LEMMA PushStepsLength ==
  ASSUME NEW v, IsValue(v)
  PROVE  Len(PushSteps(v)) \in Nat /\ 0 < Len(PushSteps(v))
<1>1. Len(PushSteps(v)) \in Nat \ {0}
  BY PushStepsFacts, Zenon
<1>2. QED
  BY <1>1

\* Every step is of one of three kinds; the last one of a table, and no other,
\* ends it.
LEMMA OneStep ==
  ASSUME NEW v, IsValue(v), NEW k \in 1..Len(PushSteps(v))
  PROVE  LET s == PushSteps(v)[k] IN
         /\ s.push \in {"value", "table", "end"}
         /\ s.push # "end" =>
              s.arg.kind \in Kinds /\ (s.arg.kind = "number" => s.arg.val \in Int)
         /\ s.push = "end" => /\ v.kind = "table" /\ s.arg = Len(v.val)
                             /\ k = 2 * Len(v.val) + 2
         /\ k = Len(PushSteps(v)) /\ s.push # "end" => v.kind # "table" /\ k = 1 /\ s.arg = v
<1>1. CASE v.kind # "table"
  <2>1. k = 1 /\ PushSteps(v)[k] = [push |-> "value", arg |-> v]
    <3>1. Len(PushSteps(v)) = 1 /\ PushSteps(v)[1] = [push |-> "value", arg |-> v]
      BY <1>1, PushStepsFacts
    <3>2. QED
      BY <3>1
  <2>2. QED
    BY <1>1, <2>1 DEF IsValue
<1>2. CASE v.kind = "table"
  <2> DEFINE n == Len(v.val)
  <2>1. /\ n \in Nat /\ Len(PushSteps(v)) = 2 * n + 2
        /\ PushSteps(v)[1] = [push |-> "table", arg |-> Table(<<>>)]
        /\ PushSteps(v)[2 * n + 2] = [push |-> "end", arg |-> n]
        /\ \A i \in 1..(2 * n) : PushSteps(v)[1 + i] =
             [push |-> "value", arg |-> v.val[(i + 1) \div 2][IF i % 2 = 1 THEN 1 ELSE 2]]
    BY <1>2, PushStepsFacts
  <2>2. CASE k = 1
    <3>1. k # 2 * n + 2 /\ k # Len(PushSteps(v))
      BY <2>1, <2>2
    <3>2. Table(<<>>).kind = "table" /\ "table" \in Kinds
      BY DEF Table, Kinds
    <3>3. QED
      BY <1>2, <2>1, <2>2, <3>1, <3>2
  <2>3. CASE k = 2 * n + 2
    BY <1>2, <2>1, <2>3
  <2>4. CASE k # 1 /\ k # 2 * n + 2
    <3>1. k - 1 \in 1..(2 * n) /\ 1 + (k - 1) = k /\ k # Len(PushSteps(v))
      BY <2>1, <2>4
    <3> DEFINE h == IF (k - 1) % 2 = 1 THEN 1 ELSE 2
               j == (k - 1 + 1) \div 2
    <3>2. h \in {1, 2} /\ j \in 1..n
      BY <2>1, <3>1
    <3>3. PushSteps(v)[k] = [push |-> "value", arg |-> v.val[j][h]]
      BY <2>1, <3>1
    <3>4. DOMAIN v.val = 1..n
      BY <1>2, SequenceIsSeq DEF IsValue
    <3> HIDE DEF h, j
    <3>5. v.val[j][h].kind \in Kinds /\ (v.val[j][h].kind = "number" => v.val[j][h].val \in Int)
      BY <1>2, <3>2, <3>4 DEF IsValue
    <3>6. QED
      BY <3>1, <3>3, <3>5
  <2>5. QED
    BY <2>2, <2>3, <2>4
<1>3. QED
  BY <1>1, <1>2

IsStep(s) == s.push \in {"value", "table", "end"} /\ (s.push = "end" => s.arg \in Nat)

\* The steps of the first arguments are sequences, each of which begins with
\* those before it.
LEMMA StepsArePrefixes ==
  ASSUME NEW args, IsSequence(args), \A i \in 1..Len(args) : IsValue(args[i])
  PROVE  /\ \A i \in 0..Len(args) :
              /\ IsSequence(StepsOf(args)[i])
              /\ \A k \in 1..Len(StepsOf(args)[i]) : IsStep(StepsOf(args)[i][k])
         /\ \A j \in 0..Len(args) : \A i \in 0..j :
              /\ Len(StepsOf(args)[i]) <= Len(StepsOf(args)[j])
              /\ \A k \in 1..Len(StepsOf(args)[i]) : StepsOf(args)[j][k] = StepsOf(args)[i][k]
<1> DEFINE n == Len(args)
           S == StepsOf(args)
           Good(j) == /\ IsSequence(S[j])
                      /\ \A k \in 1..Len(S[j]) : IsStep(S[j][k])
                      /\ \A i \in 0..j : /\ Len(S[i]) <= Len(S[j])
                                         /\ \A k \in 1..Len(S[i]) : S[j][k] = S[i][k]
           T == {j \in 0..n : ~Good(j)}
<1>1. n \in Nat
  BY DEF IsSequence
<1>2. S[0] = <<>> /\ \A i \in 1..n : S[i] = S[i - 1] \o PushSteps(args[i])
  BY <1>1, StepsOfFacts
<1> HIDE DEF n, S
<1>3. Good(0)
  <2>1. IsSequence(S[0]) /\ Len(S[0]) = 0
    BY <1>2, EmptyIsSequence
  <2>2. \A i \in 0..0 : i = 0
    OBVIOUS
  <2>3. QED
    BY <2>1, <2>2
<1>4. ASSUME NEW j \in 1..n, Good(j - 1) PROVE Good(j)
  <2>1. IsSequence(S[j - 1]) /\ IsSequence(PushSteps(args[j])) /\ S[j] = S[j - 1] \o PushSteps(args[j])
    BY <1>2, <1>4, PushStepsFacts DEF n
  <2>2. /\ IsSequence(S[j]) /\ Len(S[j - 1]) <= Len(S[j]) /\ Len(S[j - 1]) \in Nat /\ Len(S[j]) \in Nat
        /\ \A k \in 1..Len(S[j - 1]) : S[j][k] = S[j - 1][k]
    <3>1. IsConcat(S[j], S[j - 1], PushSteps(args[j]))
      BY <2>1, ConcatFacts, Zenon
    <3>2. \A a, b, c \in Nat : c = a + b => a <= c
      OBVIOUS
    <3>3. Len(S[j - 1]) \in Nat /\ Len(PushSteps(args[j])) \in Nat /\ Len(S[j]) \in Nat
          /\ Len(S[j]) = Len(S[j - 1]) + Len(PushSteps(args[j]))
      BY <3>1, Zenon DEF IsConcat, IsSequence
    <3>4. IsSequence(S[j]) /\ \A k \in 1..Len(S[j - 1]) : S[j][k] = S[j - 1][k]
      BY <3>1, Zenon DEF IsConcat
    <3>5. QED
      BY <3>2, <3>3, <3>4, Zenon
  <2>3. ASSUME NEW i \in 0..j
        PROVE  Len(S[i]) <= Len(S[j]) /\ \A k \in 1..Len(S[i]) : S[j][k] = S[i][k]
    <3>1. CASE i = j
      BY <2>2, <3>1
    <3>2. CASE i # j
      <4>1. i \in 0..(j - 1)
        BY <1>1, <3>2
      <4>2. Len(S[i]) <= Len(S[j - 1]) /\ \A k \in 1..Len(S[i]) : S[j - 1][k] = S[i][k]
        BY <1>4, <4>1
      <4>3. Len(S[i]) \in Nat
        BY <1>4
      <4>4. QED
        BY <2>2, <4>2, <4>3
    <3>3. QED
      BY <3>1, <3>2
  <2>4. ASSUME NEW k \in 1..Len(S[j]) PROVE IsStep(S[j][k])
    <3>1. IsConcat(S[j], S[j - 1], PushSteps(args[j])) /\ IsValue(args[j])
      BY <2>1, ConcatFacts, Zenon DEF n
    <3>2. CASE k \in 1..Len(S[j - 1])
      BY <1>4, <2>2, <3>2
    <3>3. CASE k \notin 1..Len(S[j - 1])
      <4>1. PICK l \in 1..Len(PushSteps(args[j])) : k = Len(S[j - 1]) + l
        <5>1. \A a, b, c \in Nat : c \in 1..(a + b) /\ c \notin 1..a => c - a \in 1..b /\ c = a + (c - a)
          OBVIOUS
        <5>2. /\ Len(S[j - 1]) \in Nat /\ Len(PushSteps(args[j])) \in Nat
              /\ Len(S[j]) = Len(S[j - 1]) + Len(PushSteps(args[j]))
          BY <3>1, Zenon DEF IsConcat
        <5>3. k \in 1..(Len(S[j - 1]) + Len(PushSteps(args[j])))
          BY <5>2, Zenon
        <5>4. k \in Nat
          BY <2>2
        <5>5. QED
          BY <3>3, <5>1, <5>2, <5>3, <5>4
      <4>2. S[j][k] = PushSteps(args[j])[l]
        BY <3>1, <4>1 DEF IsConcat
      <4>3. \A v : IsValue(v) /\ v.kind = "table" => Len(v.val) \in Nat
        BY DEF IsValue, IsSequence
      <4>4. QED
        BY <3>1, <4>2, <4>3, OneStep DEF IsStep
    <3>4. QED
      BY <3>2, <3>3
  <2>5. QED
    BY <2>2, <2>3, <2>4
<1>5. ASSUME T # {} PROVE FALSE
  <2>1. PICK j \in T : \A m \in T : j <= m
    <3>1. T \subseteq Nat
      BY <1>1
    <3> HIDE DEF T
    <3>2. QED
      BY <1>5, <3>1, LeastNumber
  <2>2. j \in 1..n /\ j - 1 \in 0..n /\ j - 1 \notin T
    <3>1. j \in 0..n /\ j # 0
      BY <1>3, <2>1
    <3>2. j \in 1..n /\ j - 1 \in 0..n /\ ~(j <= j - 1)
      BY <1>1, <3>1
    <3>3. QED
      BY <2>1, <3>2
  <2>3. QED
    BY <1>4, <2>1, <2>2
<1>6. QED
  BY <1>5 DEF n, S


-----------------------------------------------------------------------------
(* Lemmas about the stack while the arguments are pushed *)

\* The host passes a sequence of values.
GoodArguments(args) == IsSequence(args) /\ \A j \in 1..Len(args) : IsValue(args[j])

\* After m steps, the first i arguments and `extra' steps of the next one are
\* on the stack, on top of `base' slots.
At(st, base, args, m, i, extra) ==
  /\ i \in 0..Len(args) /\ extra \in Nat /\ m = Len(StepsOf(args)[i]) + extra
  /\ IF i = Len(args) THEN extra = 0 ELSE extra < Len(PushSteps(args[i + 1]))
  /\ Len(st) = base + i + extra
  /\ \A j \in 1..i : st[base + j] = args[j]
  /\ \A k \in 1..extra : st[base + i + k] = PushSteps(args[i + 1])[k].arg

\* Which step comes next.
NextIs(args, m, i, extra) ==
  /\ Len(PushAll(args)) \in Nat /\ m <= Len(PushAll(args)) /\ Len(args) \in Nat
  /\ m = Len(PushAll(args)) => i = Len(args) /\ extra = 0
  /\ m < Len(PushAll(args)) =>
       /\ i < Len(args) /\ i + 1 \in 1..Len(args) /\ IsValue(args[i + 1])
       /\ extra + 1 \in 1..Len(PushSteps(args[i + 1]))
       /\ PushAll(args)[m + 1] = PushSteps(args[i + 1])[extra + 1]
       /\ Len(StepsOf(args)[i + 1]) = Len(StepsOf(args)[i]) + Len(PushSteps(args[i + 1]))

\* The steps go through the arguments in their order.
LEMMA NextStep ==
  ASSUME NEW args, GoodArguments(args), NEW m \in Nat, NEW i, NEW extra,
         NEW st, NEW base, At(st, base, args, m, i, extra)
  PROVE  NextIs(args, m, i, extra)
<1> DEFINE n == Len(args)
           S == StepsOf(args)
<1>1. /\ n \in Nat /\ i \in 0..n /\ extra \in Nat /\ m = Len(S[i]) + extra
      /\ IF i = n THEN extra = 0 ELSE extra < Len(PushSteps(args[i + 1]))
  BY DEF At, GoodArguments, IsSequence
<1>2. /\ \A j \in 0..n : IsSequence(S[j])
      /\ \A j \in 0..n : \A l \in 0..j :
           /\ Len(S[l]) <= Len(S[j])
           /\ \A k \in 1..Len(S[l]) : S[j][k] = S[l][k]
  BY StepsArePrefixes DEF GoodArguments
<1>3. \A j \in 0..n : Len(S[j]) \in Nat
  BY <1>2 DEF IsSequence
<1>4. ASSUME NEW j \in 0..n, j # n PROVE S[j + 1] = S[j] \o PushSteps(args[j + 1])
  <2>1. j + 1 \in 1..n /\ j + 1 - 1 = j
    BY <1>1, <1>4
  <2>2. \A l \in 1..n : S[l] = S[l - 1] \o PushSteps(args[l])
    BY <1>1, StepsOfFacts
  <2> DEFINE l == j + 1
  <2>3. l \in 1..n /\ l - 1 = j
    BY <2>1
  <2> HIDE DEF S, n, l
  <2>4. S[l] = S[l - 1] \o PushSteps(args[l])
    BY <2>2, <2>3, Zenon
  <2>5. QED
    BY <2>3, <2>4, Zenon DEF l
<1>5. PushAll(args) = S[n]
  BY DEF PushAll
<1>6. n \in 0..n
  BY <1>1
<1>7. CASE i = n
  <2>1. m = Len(PushAll(args))
    BY <1>1, <1>3, <1>5, <1>6, <1>7
  <2>2. ~(m < m) /\ m <= m
    OBVIOUS
  <2> HIDE DEF n, S
  <2>3. Len(PushAll(args)) \in Nat /\ i = Len(args) /\ extra = 0 /\ Len(args) \in Nat
    BY <1>1, <1>7, <2>1 DEF n
  <2>4. QED
    BY <2>1, <2>2, <2>3 DEF NextIs
<1>8. CASE i # n
  <2>1. i + 1 \in 1..n /\ i + 1 \in 0..n /\ i < n /\ i + 1 - 1 = i
    BY <1>1, <1>8
  <2> DEFINE v == args[i + 1]
             P == PushSteps(v)
  <2>2. IsValue(v) /\ IsSequence(P) /\ Len(P) \in Nat \ {0} /\ extra < Len(P)
    BY <1>1, <1>8, <2>1, PushStepsFacts DEF GoodArguments
  <2>3. S[i + 1] = S[i] \o P
    BY <1>1, <1>4, <1>8, Zenon
  <2> HIDE DEF S, P, n
  <2>4. IsConcat(S[i + 1], S[i], P)
    <3>1. IsSequence(S[i])
      BY <1>1, <1>2
    <3>2. QED
      BY <2>2, <2>3, <3>1, ConcatFacts, Zenon
  <2>5. /\ Len(S[i + 1]) = Len(S[i]) + Len(P) /\ Len(S[i]) \in Nat
        /\ \A k \in 1..Len(P) : S[i + 1][Len(S[i]) + k] = P[k]
    BY <2>4 DEF IsConcat
  <2>6. Len(S[i + 1]) <= Len(S[n]) /\ \A k \in 1..Len(S[i + 1]) : S[n][k] = S[i + 1][k]
    BY <1>2, <1>6, <2>1
  <2>7. m < Len(S[i + 1]) /\ m + 1 \in 1..Len(S[i + 1]) /\ extra + 1 \in 1..Len(P)
        /\ m + 1 = Len(S[i]) + (extra + 1)
    <3>1. Len(S[i]) \in Nat /\ Len(P) \in Nat /\ Len(S[i + 1]) \in Nat
      BY <1>3, <2>1, <2>2, <2>5
    <3>2. extra < Len(P) /\ extra \in Nat /\ m = Len(S[i]) + extra /\ Len(S[i + 1]) = Len(S[i]) + Len(P)
      BY <1>1, <2>2, <2>5, Zenon
    <3> DEFINE a == Len(S[i])  b == Len(P)  c == Len(S[i + 1])
    <3>3. a \in Nat /\ b \in Nat /\ c \in Nat /\ c = a + b /\ extra < b /\ extra \in Nat
      BY <3>1, <3>2, Zenon
    <3> HIDE DEF a, b, c
    <3>4. /\ a + extra < c /\ a + extra + 1 \in 1..c /\ extra + 1 \in 1..b
          /\ a + extra + 1 = a + (extra + 1)
      BY <3>3
    <3>5. QED
      BY <3>2, <3>4, Zenon DEF a, b, c
  <2>8. S[n][m + 1] = P[extra + 1]
    <3>1. S[n][m + 1] = S[i + 1][m + 1]
      BY <2>6, <2>7, Zenon
    <3>2. S[i + 1][Len(S[i]) + (extra + 1)] = P[extra + 1]
      BY <2>5, <2>7, Zenon
    <3>3. QED
      BY <2>7, <3>1, <3>2, Zenon
  <2>9. Len(S[n]) \in Nat /\ m < Len(S[n])
    BY <1>3, <1>6, <2>1, <2>6, <2>7
  <2>10. QED
    BY <1>1, <1>5, <2>1, <2>2, <2>5, <2>7, <2>8, <2>9 DEF S, P, n, NextIs
<1>9. QED
  BY <1>7, <1>8


\* Before the first step.
LEMMA AtTheStart ==
  ASSUME NEW args, GoodArguments(args), NEW st, NEW base \in Nat, Len(st) = base
  PROVE  At(st, base, args, 0, 0, 0)
<1>1. Len(args) \in Nat /\ Len(StepsOf(args)[0]) = 0
  BY StepsOfFacts, EmptyIsSequence DEF GoodArguments, IsSequence
<1>2. Len(args) # 0 => 0 + 1 \in 1..Len(args) /\ 0 < Len(PushSteps(args[0 + 1]))
  <2>1. ASSUME NEW v, IsValue(v) PROVE 0 < Len(PushSteps(v))
    BY <2>1, PushStepsLength
  <2>2. Len(args) # 0 => 0 + 1 \in 1..Len(args)
    BY <1>1
  <2>3. QED
    BY <2>1, <2>2 DEF GoodArguments
<1>3. QED
  BY <1>1, <1>2 DEF At

LEMMA PushAllFacts ==
  ASSUME NEW args, GoodArguments(args)
  PROVE  /\ IsSequence(PushAll(args))
         /\ \A k \in 1..Len(PushAll(args)) :
              PushAll(args)[k].push \in {"value", "table", "end"} /\ IsStep(PushAll(args)[k])
<1>1. Len(args) \in 0..Len(args)
  BY DEF GoodArguments, IsSequence
<1>2. \A i \in 0..Len(args) :
        /\ IsSequence(StepsOf(args)[i])
        /\ \A k \in 1..Len(StepsOf(args)[i]) : IsStep(StepsOf(args)[i][k])
  BY StepsArePrefixes DEF GoodArguments
<1>3. QED
  BY <1>1, <1>2, Zenon DEF PushAll, IsStep

\* What it takes to be between two arguments.
LEMMA BetweenArguments ==
  ASSUME NEW args, GoodArguments(args), NEW st, NEW base, NEW i \in 0..Len(args), NEW m,
         m = Len(StepsOf(args)[i]), m \in Nat, base \in Nat,
         Len(st) = base + i, \A j \in 1..i : st[base + j] = args[j]
  PROVE  At(st, base, args, m, i, 0)
<1>1. Len(args) \in Nat
  BY DEF GoodArguments, IsSequence
<1>2. i # Len(args) => 0 < Len(PushSteps(args[i + 1]))
  <2>1. ASSUME NEW v, IsValue(v) PROVE 0 < Len(PushSteps(v))
    BY <2>1, PushStepsLength
  <2>2. i # Len(args) => i + 1 \in 1..Len(args)
    BY <1>1
  <2>3. QED
    BY <2>1, <2>2 DEF GoodArguments
<1>3. i \in Nat
  BY <1>1
<1>4. \A a, b \in Nat : a = a + 0 /\ b + a = b + a + 0
  OBVIOUS
<1>5. QED
  BY <1>2, <1>3, <1>4 DEF At

\* A step that pushes a value: the next one of a table, or all of an argument.
LEMMA PushOneMore ==
  ASSUME NEW args, GoodArguments(args), NEW m \in Nat, NEW i, NEW extra,
         NEW st, NEW base \in Nat, At(st, base, args, m, i, extra),
         m < Len(PushAll(args)), PushAll(args)[m + 1].push # "end",
         NEW st2, Len(st2) = Len(st) + 1, \A k \in 1..Len(st) : st2[k] = st[k],
         st2[Len(st) + 1] = PushAll(args)[m + 1].arg
  PROVE  \E i2, extra2 : At(st2, base, args, m + 1, i2, extra2)
<1> DEFINE v == args[i + 1]
           P == PushSteps(v)
<1>1. /\ i \in Nat /\ extra \in Nat /\ m = Len(StepsOf(args)[i]) + extra
      /\ Len(st) = base + i + extra /\ i \in 0..Len(args)
      /\ \A j \in 1..i : st[base + j] = args[j]
      /\ \A k \in 1..extra : st[base + i + k] = P[k].arg
  BY DEF At, GoodArguments, IsSequence
<1>2. /\ i < Len(args) /\ i + 1 \in 1..Len(args) /\ IsValue(v) /\ Len(args) \in Nat
      /\ extra + 1 \in 1..Len(P) /\ PushAll(args)[m + 1] = P[extra + 1]
      /\ Len(StepsOf(args)[i + 1]) = Len(StepsOf(args)[i]) + Len(P)
  <2>1. NextIs(args, m, i, extra)
    BY NextStep, Zenon
  <2>2. QED
    BY <2>1, Zenon DEF NextIs
<1>3. Len(P) \in Nat
  BY <1>2, PushStepsLength
<1> HIDE DEF P, v
<1>4. /\ \A j \in 1..i : st2[base + j] = args[j]
      /\ \A k \in 1..extra : st2[base + i + k] = P[k].arg
      /\ st2[base + i + (extra + 1)] = P[extra + 1].arg
  <2>1. /\ \A j \in 1..i : base + j \in 1..Len(st)
        /\ \A k \in 1..extra : base + i + k \in 1..Len(st)
        /\ Len(st) + 1 = base + i + (extra + 1)
    <3>1. i \in Nat /\ extra \in Nat /\ base \in Nat /\ Len(st) = base + i + extra
      BY <1>1
    <3>2. \A a, b, c \in Nat :
            /\ \A j \in 1..b : a + j \in 1..(a + b + c)
            /\ \A k \in 1..c : a + b + k \in 1..(a + b + c)
            /\ a + b + c + 1 = a + b + (c + 1)
      OBVIOUS
    <3>3. /\ \A j \in 1..i : base + j \in 1..(base + i + extra)
          /\ \A k \in 1..extra : base + i + k \in 1..(base + i + extra)
          /\ base + i + extra + 1 = base + i + (extra + 1)
      BY <3>1, <3>2, Zenon
    <3>4. QED
      BY <3>1, <3>3, Zenon
  <2>2. st2[base + i + (extra + 1)] = P[extra + 1].arg
    BY <1>2, <2>1, Zenon
  <2>3. QED
    BY <1>1, <2>1, <2>2, Zenon
<1>5. CASE extra + 1 < Len(P)
  <2>1. \A k \in 1..(extra + 1) : k = extra + 1 \/ k \in 1..extra
    BY <1>1
  <2>2. \A k \in 1..(extra + 1) : st2[base + i + k] = P[k].arg
    BY <1>4, <2>1, Zenon
  <2>3. Len(st2) = base + i + (extra + 1) /\ extra + 1 \in Nat /\ i # Len(args)
    BY <1>1, <1>2
  <2>4. m + 1 = Len(StepsOf(args)[i]) + (extra + 1)
    <3> DEFINE a == Len(StepsOf(args)[i])
    <3>1. a \in Nat
      BY <1>1, StepsArePrefixes DEF GoodArguments, IsSequence
    <3>2. m = a + extra
      BY <1>1
    <3> HIDE DEF a
    <3>3. m + 1 = a + (extra + 1)
      BY <1>1, <3>1, <3>2
    <3>4. QED
      BY <3>3 DEF a
  <2>5. At(st2, base, args, m + 1, i, extra + 1)
    BY <1>1, <1>4, <1>5, <2>2, <2>3, <2>4 DEF At, P, v
  <2>6. QED
    BY <2>5
<1>6. CASE ~(extra + 1 < Len(P))
  <2>1. extra + 1 = Len(P)
    BY <1>1, <1>2, <1>3, <1>6
  <2>2. P[extra + 1].push # "end"
    BY <1>2
  <2>3. extra + 1 = 1 /\ P[extra + 1].arg = v
    BY <1>2, <2>1, <2>2, OneStep DEF P
  <2>4. extra = 0 /\ base + i + (extra + 1) = base + (i + 1) /\ i + 1 \in 0..Len(args)
    <3>1. \A a, b, c \in Nat : a + 1 = 1 => a = 0 /\ b + c + (a + 1) = b + (c + 1)
      OBVIOUS
    <3>2. i + 1 \in 0..Len(args)
      BY <1>2
    <3>3. QED
      BY <1>1, <2>3, <3>1, <3>2, Zenon
  <2>5. \A j \in 1..(i + 1) : st2[base + j] = args[j]
    <3>1. \A j \in 1..(i + 1) : j = i + 1 \/ j \in 1..i
      BY <1>1
    <3>2. QED
      BY <1>4, <2>3, <2>4, <3>1, Zenon DEF v
  <2>6. Len(st2) = base + (i + 1)
    BY <1>1, <2>4
  <2>7. m + 1 = Len(StepsOf(args)[i + 1])
    <3> DEFINE a == Len(StepsOf(args)[i])
    <3>1. a \in Nat
      BY <1>1, StepsArePrefixes DEF GoodArguments, IsSequence
    <3>2. m = a + extra /\ Len(StepsOf(args)[i + 1]) = a + Len(P)
      BY <1>1, <1>2
    <3>3. Len(P) = 1 /\ extra = 0
      BY <2>1, <2>3, <2>4
    <3> HIDE DEF a
    <3>4. \A b, c, d, e : b \in Nat /\ c = 0 /\ d = 1 /\ m = b + c /\ e = b + d => m + 1 = e
      OBVIOUS
    <3>5. QED
      BY <3>1, <3>2, <3>3, <3>4, Zenon
  <2>8. At(st2, base, args, m + 1, i + 1, 0)
    <3>1. m + 1 \in Nat
      OBVIOUS
    <3>2. QED
      BY <2>4, <2>5, <2>6, <2>7, <3>1, BetweenArguments
  <2>9. QED
    BY <2>8
<1>7. QED
  BY <1>5, <1>6

\* What the step that ends a table makes of the stack.
TableIsComplete(st, base, args, m, i) ==
  LET n == PushAll(args)[m + 1].arg
      t == Len(st) - 2 * n
      new == Table([j \in 1..n |-> <<st[t + 2 * j - 1], st[t + 2 * j]>>])
      st2 == Append(SubSeq(st, 1, t - 1), new)
  IN /\ n \in Nat /\ Len(st) > 2 * n /\ t - 1 \in base..Len(st)
     /\ IsSequence(st2) /\ Len(st2) = t /\ \A k \in 1..(t - 1) : st2[k] = st[k]
     /\ st2[t] = new /\ IsValue(new)
     /\ At(st2, base, args, m + 1, i + 1, 0)

\* The pairs above the table become the table that was given.
LEMMA EndOneTable ==
  ASSUME NEW args, GoodArguments(args), NEW m \in Nat, NEW i, NEW extra,
         NEW st, NEW base \in Nat, At(st, base, args, m, i, extra), IsSequence(st),
         m < Len(PushAll(args)), PushAll(args)[m + 1].push = "end"
  PROVE  TableIsComplete(st, base, args, m, i)
<1> DEFINE v == args[i + 1]
           P == PushSteps(v)
           n == PushAll(args)[m + 1].arg
           t == Len(st) - 2 * n
           pairs == [j \in 1..n |-> <<st[t + 2 * j - 1], st[t + 2 * j]>>]
           under == SubSeq(st, 1, t - 1)
           st2 == Append(under, Table(pairs))
<1>1. /\ i \in Nat /\ extra \in Nat /\ m = Len(StepsOf(args)[i]) + extra
      /\ Len(st) = base + i + extra /\ i \in 0..Len(args)
      /\ \A j \in 1..i : st[base + j] = args[j]
      /\ \A k \in 1..extra : st[base + i + k] = P[k].arg
  BY DEF At, GoodArguments, IsSequence
<1>2. /\ i < Len(args) /\ i + 1 \in 1..Len(args) /\ IsValue(v) /\ Len(args) \in Nat
      /\ extra + 1 \in 1..Len(P) /\ PushAll(args)[m + 1] = P[extra + 1]
      /\ Len(StepsOf(args)[i + 1]) = Len(StepsOf(args)[i]) + Len(P)
  <2>1. NextIs(args, m, i, extra)
    BY NextStep, Zenon
  <2>2. QED
    BY <2>1, Zenon DEF NextIs
<1>3. v.kind = "table" /\ n = Len(v.val) /\ extra + 1 = 2 * n + 2
  <2>1. P[extra + 1].push = "end"
    BY <1>2
  <2>2. QED
    BY <1>2, <2>1, OneStep
<1>4. /\ n \in Nat /\ Len(P) = 2 * n + 2
      /\ \A k \in 1..(2 * n) : P[1 + k] =
           [push |-> "value", arg |-> v.val[(k + 1) \div 2][IF k % 2 = 1 THEN 1 ELSE 2]]
  <2>1. /\ Len(v.val) \in Nat /\ Len(P) = 2 * Len(v.val) + 2
        /\ \A k \in 1..(2 * Len(v.val)) : P[1 + k] =
             [push |-> "value", arg |-> v.val[(k + 1) \div 2][IF k % 2 = 1 THEN 1 ELSE 2]]
    BY <1>2, <1>3, PushStepsFacts, Zenon
  <2>2. QED
    BY <1>3, <2>1, Zenon
<1>5. v = Table(v.val) /\ IsSequence(v.val)
      /\ \A j \in DOMAIN v.val : v.val[j] = <<v.val[j][1], v.val[j][2]>>
  BY <1>2, <1>3 DEF IsValue
<1>6. DOMAIN v.val = 1..n
  BY <1>3, <1>5, SequenceIsSeq
<1>7. v.val = [j \in 1..n |-> v.val[j]]
  BY <1>3, <1>5 DEF IsSequence
<1> HIDE DEF v, P, n
<1>8. extra = 2 * n + 1 /\ t = base + i + 1 /\ Len(st) = base + i + 2 * n + 1
  <2>1. extra \in Nat /\ i \in Nat /\ Len(st) = base + i + extra
    BY <1>1
  <2>2. n \in Nat /\ extra + 1 = 2 * n + 2
    BY <1>3, <1>4
  <2>3. extra = 2 * n + 1
    BY <2>1, <2>2
  <2>4. Len(st) = base + i + (2 * n + 1)
    BY <2>1, <2>3
  <2>5. QED
    BY <2>1, <2>2, <2>3, <2>4
<1>9. /\ Len(st) > 2 * n /\ t - 1 = base + i /\ t - 1 \in base..Len(st) /\ t - 1 \in 0..Len(st)
      /\ t = base + (i + 1)
  BY <1>1, <1>4, <1>8
<1>10. ASSUME NEW j \in 1..n
       PROVE  st[t + 2 * j - 1] = v.val[j][1] /\ st[t + 2 * j] = v.val[j][2]
  <2>1. /\ t + 2 * j - 1 = base + i + (1 + (2 * j - 1)) /\ t + 2 * j = base + i + (1 + 2 * j)
        /\ 1 + (2 * j - 1) \in 1..extra /\ 1 + 2 * j \in 1..extra
        /\ 2 * j - 1 \in 1..(2 * n) /\ 2 * j \in 1..(2 * n)
    BY <1>1, <1>4, <1>8
  <2>2. /\ (2 * j - 1 + 1) \div 2 = j /\ (2 * j + 1) \div 2 = j
        /\ (2 * j - 1) % 2 = 1 /\ (2 * j) % 2 = 0
    BY <1>4
  <2> HIDE DEF t
  <2>3. \A k \in 1..(2 * n) :
          P[1 + k].arg = v.val[(k + 1) \div 2][IF k % 2 = 1 THEN 1 ELSE 2]
    <3>1. ASSUME NEW x, NEW y, x = [push |-> "value", arg |-> y] PROVE x.arg = y
      BY <3>1
    <3>2. QED
      BY <1>4, <3>1, Zenon
  <2>4. P[1 + (2 * j - 1)].arg = v.val[j][1]
    <3> DEFINE k == 2 * j - 1
    <3>1. k \in 1..(2 * n) /\ (k + 1) \div 2 = j /\ k % 2 = 1
      BY <2>1, <2>2
    <3> HIDE DEF k
    <3>2. P[1 + k].arg = v.val[(k + 1) \div 2][IF k % 2 = 1 THEN 1 ELSE 2]
      BY <2>3, <3>1, Zenon
    <3>3. P[1 + k].arg = v.val[j][1]
      BY <3>1, <3>2, Zenon
    <3>4. QED
      BY <3>3, Zenon DEF k
  <2>5. P[1 + 2 * j].arg = v.val[j][2]
    <3> DEFINE k == 2 * j
    <3>1. k \in 1..(2 * n) /\ (k + 1) \div 2 = j /\ k % 2 # 1
      BY <2>1, <2>2
    <3> HIDE DEF k
    <3>2. P[1 + k].arg = v.val[(k + 1) \div 2][IF k % 2 = 1 THEN 1 ELSE 2]
      BY <2>3, <3>1, Zenon
    <3>3. P[1 + k].arg = v.val[j][2]
      BY <3>1, <3>2, Zenon
    <3>4. QED
      BY <3>3, Zenon DEF k
  <2>6. st[t + 2 * j - 1] = P[1 + (2 * j - 1)].arg
    BY <1>1, <2>1, Zenon
  <2>7. st[t + 2 * j] = P[1 + 2 * j].arg
    BY <1>1, <2>1, Zenon
  <2>8. QED
    BY <2>4, <2>5, <2>6, <2>7
<1>11. pairs = v.val
  <2>1. \A j \in 1..n : <<st[t + 2 * j - 1], st[t + 2 * j]>> = v.val[j]
    BY <1>5, <1>6, <1>10
  <2> HIDE DEF t
  <2>2. pairs = [j \in 1..n |-> v.val[j]]
    BY <2>1
  <2>3. QED
    BY <1>7, <2>2, Zenon
<1>12. Table(pairs) = v
  BY <1>5, <1>11
<1>13. /\ IsSequence(under) /\ Len(under) = t - 1
       /\ \A k \in 1..(t - 1) : under[k] = st[k]
  BY <1>9, PrefixFacts
<1> HIDE DEF under
<1>14. /\ IsSequence(st2) /\ Len(st2) = t - 1 + 1 /\ st2[t - 1 + 1] = v
       /\ \A k \in 1..(t - 1) : st2[k] = st[k]
  BY <1>12, <1>13, AppendFacts
<1> HIDE DEF pairs, st2
<1>15. t - 1 + 1 = t
  BY <1>8, <1>9, <1>1
<1>16. At(st2, base, args, m + 1, i + 1, 0)
  <2>1. \A j \in 1..(i + 1) : st2[base + j] = args[j]
    <3>1. st2[base + (i + 1)] = v
      BY <1>9, <1>14, <1>15, Zenon
    <3>2. /\ \A j \in 1..(i + 1) : j = i + 1 \/ j \in 1..i
          /\ \A j \in 1..i : base + j \in 1..(t - 1)
      BY <1>1, <1>8
    <3>3. \A j \in 1..i : st2[base + j] = args[j]
      BY <1>1, <1>14, <3>2, Zenon
    <3>4. QED
      BY <3>1, <3>2, <3>3, Zenon DEF v
  <2>2. Len(st2) = base + (i + 1) /\ i + 1 \in 0..Len(args)
    BY <1>2, <1>9, <1>14, <1>15
  <2>3. m + 1 = Len(StepsOf(args)[i + 1])
    <3> DEFINE a == Len(StepsOf(args)[i])
    <3>1. a \in Nat
      BY <1>1, StepsArePrefixes DEF GoodArguments, IsSequence
    <3>2. m = a + extra /\ Len(StepsOf(args)[i + 1]) = a + Len(P) /\ Len(P) = extra + 1
      BY <1>1, <1>2, <1>3, <1>4
    <3> HIDE DEF a
    <3>3. QED
      BY <1>1, <3>1, <3>2
  <2>4. m + 1 \in Nat
    OBVIOUS
  <2>5. QED
    BY <2>1, <2>2, <2>3, <2>4, BetweenArguments
<1>17. Len(st2) = t /\ st2[t] = Table(pairs)
  BY <1>12, <1>14, <1>15
<1>18. IsValue(Table(pairs))
  BY <1>2, <1>12
<1>19. QED
  BY <1>4, <1>9, <1>14, <1>16, <1>17, <1>18 DEF n, pairs, under, st2, TableIsComplete


-----------------------------------------------------------------------------
(* Lemmas about the requests and the state *)

LEMMA OneElement ==
  ASSUME NEW x
  PROVE  IsSequence(<<x>>) /\ Len(<<x>>) = 1 /\ <<x>>[1] = x
BY DEF IsSequence

\* What the host passes has the shape it is to have.
LEMMA RequestFacts ==
  ASSUME NEW r \in Requests
  PROVE  /\ r.op \in {"call", "get", "set"} /\ r.op # "none" /\ r.name \in Names
         /\ r.op \in {"call", "set"} => GoodArguments(ArgsOf(r))
         /\ r.op = "call" => ArgsOf(r) = r.args /\ IsSequence(r.ret)
         /\ r.op = "set" => ArgsOf(r) = <<r.arg>>
<1>1. r.op \in {"call", "get", "set"} /\ r.name \in Names
  BY StackAssumption
<1>2. CASE r.op = "call"
  <2>1. ArgsOf(r) = r.args
    BY <1>2 DEF ArgsOf
  <2>2. IsSequence(r.args) /\ IsSequence(r.ret) /\ \A i \in DOMAIN r.args : IsValue(r.args[i])
    BY <1>2, StackAssumption, Zenon
  <2>3. DOMAIN r.args = 1..Len(r.args)
    BY <2>2, SequenceIsSeq
  <2>4. QED
    BY <1>1, <1>2, <2>1, <2>2, <2>3 DEF GoodArguments
<1>3. CASE r.op = "set"
  <2>1. ArgsOf(r) = <<r.arg>> /\ IsValue(r.arg)
    BY <1>3, StackAssumption DEF ArgsOf
  <2>2. \A i \in 1..1 : i = 1
    OBVIOUS
  <2>3. GoodArguments(<<r.arg>>)
    BY <2>1, <2>2, OneElement DEF GoodArguments
  <2>4. QED
    BY <1>1, <1>3, <2>1, <2>3
<1>4. QED
  BY <1>1, <1>2, <1>3

\* The types of the results are a sequence.
LEMMA TypesFacts ==
  ASSUME request \in Requests, request.op \in {"call", "get"}
  PROVE  IsSequence(TypesToPop) /\ Len(TypesToPop) \in Nat
         /\ (request.op = "call" => TypesToPop = request.ret)
         /\ (request.op = "get" => Len(TypesToPop) = 1)
<1>1. IsSequence(TypesToPop)
      /\ (request.op = "call" => TypesToPop = request.ret)
      /\ (request.op = "get" => Len(TypesToPop) = 1)
  BY RequestFacts, OneElement DEF TypesToPop
<1>2. QED
  BY <1>1 DEF IsSequence

\* A number that an int holds is that int.
LEMMA FittingInt ==
  ASSUME NEW n \in Int, FitsInt(n)
  PROVE  ToInt(n) = n
<1> DEFINE k == n \div 2
<1>1. n % 2 = 0 /\ n = 2 * k /\ k \in Int
  BY DEF FitsInt
<1>2. IntRange \in Nat \ {0} /\ k \in -IntRange..(IntRange - 1)
  BY RangeAssumption DEF FitsInt
<1> HIDE DEF k
<1>3. ASSUME NEW a \in Nat, NEW b \in Nat \ {0}, a < b PROVE a % b = a
  BY <1>3
<1>4. (k + IntRange) % (2 * IntRange) = k + IntRange
  <2>1. k + IntRange \in Nat /\ 2 * IntRange \in Nat \ {0} /\ k + IntRange < 2 * IntRange
    BY <1>1, <1>2
  <2>2. QED
    BY <1>3, <2>1
<1>5. ToInt(n) = 2 * (((k + IntRange) % (2 * IntRange)) - IntRange)
  BY <1>1 DEF ToInt, k
<1>6. QED
  BY <1>1, <1>2, <1>4, <1>5

\* A scalar is converted just when it has the type that is asked for, and
\* stays what it is, but for a number that an int does not hold.
LEMMA ExactScalar ==
  ASSUME NEW T, NEW v, v.kind = "number" => v.val \in Int
  PROVE  /\ (~HasType(T, v)) <=> TopScalar(T, v) = NoValue
         /\ HasType(T, v) => /\ TopScalar(T, v).kind = v.kind
                             /\ (T = "int" => FitsInt(v.val)) => TopScalar(T, v).val = v.val
<1>1. CASE T = "bool"
  BY <1>1 DEF HasType, TopScalar, NoValue
<1>2. CASE T = "double"
  BY <1>2 DEF HasType, TopScalar, NoValue
<1>3. CASE T = "string"
  BY <1>3 DEF HasType, TopScalar, NoValue
<1>4. CASE T = "int"
  <2>1. CASE v.kind = "number"
    <3>1. TopScalar(T, v) = Number(ToInt(v.val)) /\ HasType(T, v)
      BY <1>4, <2>1 DEF TopScalar, HasType
    <3>2. /\ Number(ToInt(v.val)).kind = "number" /\ NoValue.kind = "none"
          /\ Number(ToInt(v.val)).val = ToInt(v.val)
      BY DEF Number, NoValue
    <3>3. FitsInt(v.val) => ToInt(v.val) = v.val
      BY <2>1, FittingInt
    <3>4. QED
      BY <1>4, <2>1, <3>1, <3>2, <3>3
  <2>2. CASE v.kind # "number"
    BY <1>4, <2>2 DEF TopScalar, HasType
  <2>3. QED
    BY <2>1, <2>2
<1>5. CASE T \notin {"bool", "int", "double", "string"}
  BY <1>5 DEF TopScalar, HasType
<1>6. QED
  BY <1>1, <1>2, <1>3, <1>4, <1>5

\* A scalar that has the type that is asked for keeps its kind, and C++ has
\* nothing to convert.
LEMMA ScalarFacts ==
  ASSUME NEW T, NEW v, TopScalar(T, v) # NoValue, v.kind = "number" => v.val \in Int
  PROVE  /\ TopScalar(T, v).kind \in {"boolean", "number", "string"}
         /\ Cast(T, TopScalar(T, v)) = TopScalar(T, v)
<1>1. CASE T = "bool"
  <2>1. v.kind = "boolean" /\ TopScalar(T, v) = v
    BY <1>1 DEF TopScalar
  <2>2. QED
    BY <1>1, <2>1 DEF Cast
<1>2. CASE T = "double"
  <2>1. v.kind = "number" /\ TopScalar(T, v) = v
    BY <1>2 DEF TopScalar
  <2>2. QED
    BY <1>2, <2>1 DEF Cast
<1>3. CASE T = "string"
  <2>1. v.kind = "string" /\ TopScalar(T, v) = v
    BY <1>3 DEF TopScalar
  <2>2. QED
    BY <1>3, <2>1 DEF Cast
<1>4. CASE T = "int"
  <2>1. v.kind = "number" /\ TopScalar(T, v) = Number(ToInt(v.val)) /\ v.val \in Int
    BY <1>4 DEF TopScalar
  <2> DEFINE n == ToInt(v.val)
  <2>2. n \in Int /\ n % 2 = 0
    <3>1. CASE v.val % 2 = 1
      BY <3>1 DEF ToInt
    <3>2. CASE v.val % 2 # 1
      <4> DEFINE k == (((v.val \div 2) + IntRange) % (2 * IntRange)) - IntRange
      <4>1. v.val \div 2 \in Int /\ IntRange \in Nat \ {0}
        BY <2>1, RangeAssumption
      <4>2. ASSUME NEW a \in Int, NEW b \in Nat \ {0} PROVE (a + b) % (2 * b) \in Int
        OBVIOUS
      <4>3. k \in Int
        BY <4>1, <4>2
      <4>4. n = 2 * k
        BY <3>2 DEF ToInt
      <4> HIDE DEF k, n
      <4>5. QED
        BY <4>3, <4>4
    <3>3. QED
      BY <3>1, <3>2
  <2> HIDE DEF n
  <2>3. Number(n).kind = "number" /\ Number(n).val = n
    BY DEF Number
  <2>4. Cast("int", Number(n)) = Number(n)
    <3>1. Cast("int", Number(n)) = Number(IF n < 0 THEN n + (n % 2) ELSE n - (n % 2))
      BY <2>3 DEF Cast
    <3>2. (IF n < 0 THEN n + (n % 2) ELSE n - (n % 2)) = n
      BY <2>2
    <3>3. QED
      BY <3>1, <3>2
  <2>5. QED
    BY <1>4, <2>1, <2>3, <2>4 DEF n
<1>5. CASE T \notin {"bool", "int", "double", "string"}
  BY <1>5 DEF TopScalar
<1>6. QED
  BY <1>1, <1>2, <1>3, <1>4, <1>5

\* Nor is there anything to convert when all types are the one it has.
LEMMA ThroughOneType ==
  ASSUME NEW types, NEW v, NEW T, Len(types) \in Nat, \A i \in 1..Len(types) : types[i] = T,
         Cast(T, v) = v
  PROVE  \A n \in 0..Len(types) : Through(types, v)[n] = v
<1> DEFINE N == Len(types)
           Solution(g) == g = [n \in 0..N |-> IF n = 0 THEN v ELSE Cast(types[N + 1 - n], g[n - 1])]
           G == Through(types, v)
           P == {n \in 0..N : G[n] = v}
<1>1. \A n \in 1..N : types[N + 1 - n] = T
  <2> TAKE n \in 1..N
  <2>1. N + 1 - n \in 1..Len(types)
    OBVIOUS
  <2>2. QED
    BY <2>1
<1>2. Solution([n \in 0..N |-> v])
  <2> DEFINE h == [n \in 0..N |-> v]
  <2>1. \A n \in 0..N : n # 0 => n \in 1..N /\ n - 1 \in 0..N
    OBVIOUS
  <2>2. \A n \in 0..N : h[n] = IF n = 0 THEN v ELSE Cast(types[N + 1 - n], h[n - 1])
    BY <1>1, <2>1
  <2>3. QED
    BY <2>2
<1>3. G = CHOOSE g : Solution(g)
  BY DEF Through
<1>4. Solution(G)
  <2>1. \E g : Solution(g)
    BY <1>2
  <2> HIDE DEF Solution, G
  <2>2. QED
    BY <1>3, <2>1
<1> HIDE DEF G
<1>5. /\ \A n \in 0..N : n = 0 => G[n] = v
      /\ \A n \in 0..N : n # 0 => G[n] = Cast(types[N + 1 - n], G[n - 1])
  BY <1>4
<1>6. 0 \in P
  BY <1>5
<1>7. ASSUME NEW n \in 1..N, n - 1 \in P PROVE n \in P
  <2>1. n \in 0..N /\ n # 0 /\ G[n - 1] = v
    BY <1>7
  <2>2. QED
    BY <1>1, <1>5, <1>7, <2>1
<1> HIDE DEF P
<1>8. \A n \in 0..N : n \in P
  BY <1>6, <1>7, UpTo
<1>9. QED
  BY <1>8 DEF P, G

\* As long as nothing has failed, an operation finds what load has left.
LEMMA IdleIsAsLoaded ==
  ASSUME StackIsInOrder, pc = "idle", ~failed
  PROVE  stack \in ChunkResults \cup {<<Function("chunk")>>}
<1>1. CASE request.op = "none"
  BY <1>1 DEF StackIsInOrder, FoundAsLoaded
<1>2. CASE request.op # "none"
  <2>1. below \in ChunkResults \cup {<<Function("chunk")>>}
    BY <1>2 DEF StackIsInOrder, FoundAsLoaded
  <2>2. reply.outcome = "ok"
    BY <1>2 DEF StackIsInOrder, Replied
  <2>3. Len(stack) - Len(below) <= 0
    BY <1>2, <2>2 DEF StackIsInOrder, StackIsRestored
  <2>4. Len(below) <= Len(stack) /\ \A i \in 1..Len(below) : stack[i] = below[i]
    BY DEF StackIsInOrder, FrameIsKept
  <2>5. IsSequence(stack) /\ IsSequence(below)
    BY DEF StackIsInOrder, Shapes
  <2>6. Len(stack) \in Nat /\ Len(below) \in Nat
    BY <2>5 DEF IsSequence
  <2>7. Len(stack) = Len(below)
    BY <2>3, <2>4, <2>6
  <2>8. stack = below
    BY <2>4, <2>5, <2>7, SameSequence
  <2>9. QED
    BY <2>1, <2>8
<1>3. QED
  BY <1>1, <1>2

\* Where the arguments are while they are pushed.
Pushed == Len(PushAll(ArgsOf(request))) - Len(todo)

LEMMA Underway ==
  ASSUME StackIsInOrder, pc = "pushing"
  PROVE  /\ request \in Requests /\ request.op \in {"call", "set"} /\ GoodArguments(ArgsOf(request))
         /\ Pushed \in Nat /\ Base \in Nat /\ IsSequence(stack) /\ IsSequence(todo)
         /\ Len(todo) \in Nat /\ Len(stack) \in Nat /\ Len(below) \in Nat
         /\ Len(PushAll(ArgsOf(request))) = Pushed + Len(todo)
         /\ \A k \in 1..Len(todo) : todo[k] = PushAll(ArgsOf(request))[Pushed + k]
         /\ \E i, extra : At(stack, Base, ArgsOf(request), Pushed, i, extra)
<1> DEFINE args == ArgsOf(request)
<1>1. request \in Requests /\ request.op \in {"call", "set"}
  BY DEF StackIsInOrder, Shapes, PushesInOrder
<1>2. GoodArguments(args)
  BY <1>1, RequestFacts
<1>3. IsSequence(stack) /\ IsSequence(todo) /\ IsSequence(below)
  BY DEF StackIsInOrder, Shapes
<1>4. Len(stack) \in Nat /\ Len(todo) \in Nat /\ Len(below) \in Nat
  BY <1>3 DEF IsSequence
<1>5. Base \in Nat
  BY <1>4 DEF Base
<1> HIDE DEF args
<1>6. /\ Pushed \in Nat /\ \A k \in 1..Len(todo) : todo[k] = PushAll(args)[Pushed + k]
      /\ ArgumentsAreUnderWay(args, Pushed)
  BY DEF StackIsInOrder, PushesInOrder, Pushed, args
<1>7. Len(PushAll(args)) \in Nat
  <2>1. Len(args) \in Nat
    BY <1>2 DEF GoodArguments, IsSequence
  <2>2. IsSequence(StepsOf(args)[Len(args)])
    BY <1>2, <2>1, StepsArePrefixes DEF GoodArguments
  <2>3. QED
    BY <2>2 DEF PushAll, IsSequence
<1>8. Len(PushAll(args)) = Pushed + Len(todo)
  BY <1>4, <1>7 DEF Pushed, args
<1>9. \E i, extra : At(stack, Base, args, Pushed, i, extra)
  <2>1. PICK i \in 0..Len(args) :
          LET extra == Pushed - Len(StepsOf(args)[i]) IN
          /\ extra \in Nat
          /\ IF i = Len(args) THEN extra = 0 ELSE extra < Len(PushSteps(args[i + 1]))
          /\ Len(stack) = Base + i + extra
          /\ \A j \in 1..i : stack[Base + j] = args[j]
          /\ \A k \in 1..extra : stack[Base + i + k] = PushSteps(args[i + 1])[k].arg
    BY <1>6, Zenon DEF ArgumentsAreUnderWay
  <2>2. Len(StepsOf(args)[i]) \in Nat
    BY <1>2, StepsArePrefixes DEF GoodArguments, IsSequence
  <2>3. Pushed = Len(StepsOf(args)[i]) + (Pushed - Len(StepsOf(args)[i]))
    BY <1>6, <2>2
  <2>4. At(stack, Base, args, Pushed, i, Pushed - Len(StepsOf(args)[i]))
    BY <2>1, <2>3, Zenon DEF At
  <2>5. QED
    BY <2>4, Zenon
<1>10. QED
  BY <1>1, <1>2, <1>3, <1>4, <1>5, <1>6, <1>8, <1>9, Zenon DEF args

\* The other way round, after a step.
LEMMA StillUnderWay ==
  ASSUME request' \in Requests, request'.op \in {"call", "set"}, IsSequence(todo'),
         NEW m \in Nat, Len(PushAll(ArgsOf(request'))) = m + Len(todo'),
         \A k \in 1..Len(todo') : todo'[k] = PushAll(ArgsOf(request'))[m + k],
         NEW i, NEW extra, At(stack', Base', ArgsOf(request'), m, i, extra)
  PROVE  PushesInOrder'
<1> DEFINE args == ArgsOf(request')
<1>1. GoodArguments(args) /\ Len(todo') \in Nat
  BY RequestFacts DEF IsSequence
<1> HIDE DEF args
<1>2. i \in 0..Len(args) /\ extra \in Nat /\ m = Len(StepsOf(args)[i]) + extra
  BY DEF At, args
<1>3. Len(StepsOf(args)[i]) \in Nat
  BY <1>1, <1>2, StepsArePrefixes DEF GoodArguments, IsSequence
<1>4. extra = m - Len(StepsOf(args)[i])
  BY <1>2, <1>3
<1>5. \E l \in 0..Len(args) :
        LET extra2 == m - Len(StepsOf(args)[l]) IN
        /\ extra2 \in Nat
        /\ IF l = Len(args) THEN extra2 = 0 ELSE extra2 < Len(PushSteps(args[l + 1]))
        /\ Len(stack') = Base' + l + extra2
        /\ \A j \in 1..l : stack'[Base' + j] = args[j]
        /\ \A k \in 1..extra2 : stack'[Base' + l + k] = PushSteps(args[l + 1])[k].arg
  BY <1>2, <1>4, Zenon DEF At, args
<1>6. m = Len(PushAll(args)) - Len(todo')
  BY <1>1 DEF args
<1>7. \A k \in 1..Len(todo') : todo'[k] = PushAll(args)[m + k]
  BY DEF args
<1>8. \E l \in 0..Len(args) :
        LET extra2 == (Len(PushAll(args)) - Len(todo')) - Len(StepsOf(args)[l]) IN
        /\ extra2 \in Nat
        /\ IF l = Len(args) THEN extra2 = 0 ELSE extra2 < Len(PushSteps(args[l + 1]))
        /\ Len(stack') = Base' + l + extra2
        /\ \A j \in 1..l : stack'[Base' + j] = args[j]
        /\ \A k \in 1..extra2 : stack'[Base' + l + k] = PushSteps(args[l + 1])[k].arg
  BY <1>5, <1>6, Zenon
<1>9. /\ Len(PushAll(args)) - Len(todo') \in Nat
       /\ \A k \in 1..Len(todo') :
            todo'[k] = PushAll(args)[(Len(PushAll(args)) - Len(todo')) + k]
  BY <1>6, <1>7, Zenon
<1>10. QED
  BY <1>8, <1>9, Zenon DEF PushesInOrder, ArgumentsAreUnderWay, args

\* Once everything is pushed, the arguments are on the stack, in order.
LEMMA AllPushed ==
  ASSUME StackIsInOrder, pc = "pushing", todo = <<>>
  PROVE  /\ Len(ArgsOf(request)) \in Nat /\ Len(stack) = Base + Len(ArgsOf(request))
         /\ \A j \in 1..Len(ArgsOf(request)) : stack[Base + j] = ArgsOf(request)[j]
<1> DEFINE args == ArgsOf(request)
<1>1. PICK i, extra : At(stack, Base, args, Pushed, i, extra)
  BY Underway, Zenon
<1>2. /\ GoodArguments(args) /\ Pushed \in Nat /\ Base \in Nat
      /\ Len(PushAll(args)) = Pushed + Len(todo)
  BY Underway, Zenon
<1>3. Len(PushAll(args)) = Pushed
  BY <1>2
<1> HIDE DEF args
<1>4. NextIs(args, Pushed, i, extra)
  BY <1>1, <1>2, NextStep, Zenon
<1>5. i = Len(args) /\ extra = 0 /\ Len(args) \in Nat
  BY <1>3, <1>4 DEF NextIs
<1>6. Len(stack) = Base + i + extra /\ \A j \in 1..i : stack[Base + j] = args[j]
  BY <1>1, Zenon DEF At
<1>7. Len(stack) = Base + Len(args)
  BY <1>2, <1>5, <1>6
<1>8. QED
  BY <1>5, <1>6, <1>7, Zenon DEF args


-----------------------------------------------------------------------------
(* Every step keeps the invariant *)

\* A state with nothing to push or to pop.
LEMMA NothingUnderWay ==
  ASSUME pc' \notin {"pushing", "popping"}
  PROVE  PushesInOrder' /\ PopsInOrder'
BY DEF PushesInOrder, PopsInOrder

\* Values that scripts have, and those that the host passes.
LEMMA GlobalFacts ==
  ASSUME NEW g \in Globals
  PROVE  /\ DOMAIN g = Names
         /\ \A n \in Names : g[n].kind \in Kinds /\ (g[n].kind = "number" => g[n].val \in Int)
<1>1. g = [n \in Names |-> g[n]] /\ \A n \in Names : IsValue(g[n])
  BY StackAssumption
<1>2. QED
  BY <1>1 DEF IsValue

LEMMA ChunkFacts ==
  ASSUME NEW s \in ChunkResults \cup {<<Function("chunk")>>}
  PROVE  /\ IsSequence(s) /\ DOMAIN s = 1..Len(s)
         /\ \A i \in 1..Len(s) : s[i].kind \in Kinds /\ (s[i].kind = "number" => s[i].val \in Int)
<1>1. CASE s \in ChunkResults
  <2>1. IsSequence(s) /\ \A i \in DOMAIN s : IsValue(s[i])
    BY <1>1, StackAssumption
  <2>2. QED
    BY <2>1, SequenceIsSeq DEF IsValue
<1>2. CASE s = <<Function("chunk")>>
  <2>1. Function("chunk").kind = "function" /\ "function" \in Kinds /\ "function" # "number"
    BY DEF Function, Kinds
  <2>2. IsSequence(s) /\ Len(s) = 1 /\ s[1] = Function("chunk")
    BY <1>2, OneElement
  <2>3. \A i \in 1..Len(s) : i = 1
    BY <2>2
  <2>4. QED
    BY <2>1, <2>2, <2>3, SequenceIsSeq
<1>3. QED
  BY <1>1, <1>2

LEMMA LoadKeeps ==
  ASSUME StackIsInOrder, Load
  PROVE  StackIsInOrder'
<1>1. /\ pc = "unloaded" /\ pc' = "idle" /\ request.op = "none" /\ below = <<>> /\ todo = <<>>
      /\ reply' = [op |-> "load", outcome |-> "ok", value |-> <<>>]
      /\ UNCHANGED <<request, todo, popped, returned, below, failed>>
  BY DEF Load, Reply, StackIsInOrder, Shapes
<1>2. stack' \in ChunkResults \cup {<<Function("chunk")>>}
  BY DEF Load
<1>3. /\ IsSequence(stack') /\ DOMAIN stack' = 1..Len(stack')
      /\ \A i \in 1..Len(stack') : /\ stack'[i].kind \in Kinds
                                   /\ stack'[i].kind = "number" => stack'[i].val \in Int
  BY <1>2, ChunkFacts, Zenon
<1>4. /\ DOMAIN globals' = Names
      /\ \A n \in Names : /\ globals'[n].kind \in Kinds
                          /\ globals'[n].kind = "number" => globals'[n].val \in Int
  <2>1. CASE globals' \in Globals
    BY <2>1, GlobalFacts, Zenon
  <2>2. CASE UNCHANGED globals
    BY <2>2 DEF StackIsInOrder, TypeOK, Shapes
  <2>3. QED
    BY <2>1, <2>2 DEF Load
<1>5. TypeOK'
  BY <1>1, <1>3, <1>4 DEF StackIsInOrder, TypeOK, Outcomes
<1>6. Shapes'
  BY <1>1, <1>3, <1>4 DEF StackIsInOrder, Shapes
<1>7. FrameIsKept'
  <2>1. Len(stack') \in Nat
    BY <1>3 DEF IsSequence
  <2>2. QED
    BY <1>1, <2>1, EmptyIsSequence DEF FrameIsKept
<1>8. PushesInOrder' /\ PopsInOrder'
  BY <1>1, NothingUnderWay
<1>9. FoundAsLoaded'
  BY <1>1, <1>2 DEF FoundAsLoaded
<1>10. Replied' /\ StackIsRestored' /\ SetIsRead' /\ ResultIsReturned'
  BY <1>1 DEF Replied, StackIsRestored, SetIsRead, ResultIsReturned, CallHasReturned
<1>11. QED
  BY <1>5, <1>6, <1>7, <1>8, <1>9, <1>10 DEF StackIsInOrder

LEMMA LoadFailsKeeps ==
  ASSUME StackIsInOrder, LoadFails
  PROVE  StackIsInOrder'
<1>1. /\ pc = "unloaded" /\ pc' = "dropped"
      /\ UNCHANGED <<request, globals, stack, todo, popped, returned, below, failed>>
  BY DEF LoadFails
<1>2. PICK error \in {"fileNotFound", "fileInvalid", "unknown"} :
        reply' = [op |-> "load", outcome |-> error, value |-> <<>>]
  BY DEF LoadFails, Reply
<1>3. TypeOK'
  BY <1>1, <1>2 DEF StackIsInOrder, TypeOK, Outcomes
<1>4. Shapes'
  BY <1>1 DEF StackIsInOrder, Shapes
<1>5. FrameIsKept' /\ FoundAsLoaded' /\ Replied' /\ StackIsRestored' /\ SetIsRead' /\ ResultIsReturned'
  BY <1>1 DEF FrameIsKept, FoundAsLoaded, Replied, StackIsRestored, SetIsRead, ResultIsReturned,
              CallHasReturned
<1>6. PushesInOrder' /\ PopsInOrder'
  BY <1>1, NothingUnderWay
<1>7. QED
  BY <1>3, <1>4, <1>5, <1>6 DEF StackIsInOrder


\* What every operation begins with.
LEMMA BeginFacts ==
  ASSUME StackIsInOrder, NEW r \in Requests, Begin(r)
  PROVE  /\ pc = "idle" /\ request' = r /\ request' \in Requests /\ request'.op # "none"
         /\ below' = stack /\ popped' = <<>> /\ returned' = <<>> /\ globals' = globals
         /\ todo = <<>> /\ IsSequence(stack) /\ Len(stack) \in Nat /\ DOMAIN stack = 1..Len(stack)
         /\ \A i \in 1..Len(stack) : /\ stack[i].kind \in Kinds
                                     /\ stack[i].kind = "number" => stack[i].val \in Int
         /\ IsSequence(<<>>) /\ Len(<<>>) = 0 /\ DOMAIN <<>> = {}
         /\ ~failed => below' \in ChunkResults \cup {<<Function("chunk")>>}
<1>1. /\ pc = "idle" /\ request' = r /\ request' \in Requests /\ request'.op # "none"
      /\ below' = stack /\ popped' = <<>> /\ returned' = <<>> /\ globals' = globals
  BY RequestFacts DEF Begin
<1>2. todo = <<>> /\ IsSequence(stack)
  BY <1>1 DEF StackIsInOrder, Shapes
<1>3. Len(stack) \in Nat /\ DOMAIN stack = 1..Len(stack)
  BY <1>2, SequenceIsSeq
<1>4. \A i \in 1..Len(stack) : /\ stack[i].kind \in Kinds
                               /\ stack[i].kind = "number" => stack[i].val \in Int
  BY <1>3 DEF StackIsInOrder, TypeOK, Shapes
<1>5. DOMAIN <<>> = {}
  OBVIOUS
<1>6. QED
  BY <1>1, <1>2, <1>3, <1>4, <1>5, EmptyIsSequence, IdleIsAsLoaded

\* The state of an operation that has begun and pushed at most one value.
LEMMA BegunFacts ==
  ASSUME StackIsInOrder, NEW r \in Requests, Begin(r),
         stack' = stack \/ \E n \in Names : stack' = Append(stack, globals[n])
  PROVE  /\ DOMAIN globals' = Names /\ \A n \in Names : globals'[n].kind \in Kinds
         /\ \A n \in Names : globals'[n].kind = "number" => globals'[n].val \in Int
         /\ IsSequence(stack') /\ DOMAIN stack' = 1..Len(stack')
         /\ Len(stack') \in Nat /\ Len(below') \in Nat
         /\ \A i \in 1..Len(stack') : /\ stack'[i].kind \in Kinds
                                      /\ stack'[i].kind = "number" => stack'[i].val \in Int
         /\ Len(stack') = Len(below') \/ Len(stack') = Len(below') + 1
         /\ FrameIsKept'
<1>1. /\ below' = stack /\ globals' = globals /\ IsSequence(stack) /\ Len(stack) \in Nat
      /\ \A i \in 1..Len(stack) : /\ stack[i].kind \in Kinds
                                  /\ stack[i].kind = "number" => stack[i].val \in Int
  BY BeginFacts, Zenon
<1>2. /\ DOMAIN globals = Names /\ \A n \in Names : globals[n].kind \in Kinds
      /\ \A n \in Names : globals[n].kind = "number" => globals[n].val \in Int
  BY DEF StackIsInOrder, TypeOK, Shapes
<1>3. CASE stack' = stack
  <2>1. Len(below') <= Len(stack') /\ \A i \in 1..Len(below') : stack'[i] = below'[i]
    BY <1>1, <1>3
  <2>2. FrameIsKept'
    BY <2>1 DEF FrameIsKept
  <2>3. QED
    BY <1>1, <1>2, <1>3, <2>2, SequenceIsSeq
<1>4. CASE \E n \in Names : stack' = Append(stack, globals[n])
  <2>1. PICK n \in Names : stack' = Append(stack, globals[n])
    BY <1>4
  <2>2. /\ IsSequence(stack') /\ Len(stack') = Len(stack) + 1
        /\ stack'[Len(stack) + 1] = globals[n] /\ \A i \in 1..Len(stack) : stack'[i] = stack[i]
    BY <1>1, <2>1, AppendFacts
  <2>3. \A i \in 1..Len(stack') : i \in 1..Len(stack) \/ i = Len(stack) + 1
    BY <1>1, <2>2
  <2>4. \A i \in 1..Len(stack') : /\ stack'[i].kind \in Kinds
                                  /\ stack'[i].kind = "number" => stack'[i].val \in Int
    BY <1>1, <1>2, <2>2, <2>3
  <2>5. Len(below') <= Len(stack') /\ \A i \in 1..Len(below') : stack'[i] = below'[i]
    BY <1>1, <2>2
  <2>6. FrameIsKept'
    BY <2>5 DEF FrameIsKept
  <2>7. Len(stack') \in Nat /\ DOMAIN stack' = 1..Len(stack')
    BY <2>2, SequenceIsSeq
  <2>8. QED
    BY <1>1, <1>2, <2>2, <2>4, <2>6, <2>7
<1>5. QED
  BY <1>3, <1>4


LEMMA LookupKeeps ==
  ASSUME StackIsInOrder, NEW r \in Requests, Lookup(r)
  PROVE  StackIsInOrder'
<1>1. r.op \in {"call", "get"} /\ r.name \in Names /\ Begin(r)
  BY RequestFacts DEF Lookup
<1>2. /\ pc = "idle" /\ request' = r /\ request' \in Requests /\ request'.op # "none"
      /\ below' = stack /\ popped' = <<>> /\ returned' = <<>> /\ globals' = globals
      /\ todo = <<>> /\ IsSequence(stack) /\ Len(stack) \in Nat
      /\ IsSequence(<<>>) /\ Len(<<>>) = 0 /\ DOMAIN <<>> = {}
      /\ ~failed => below' \in ChunkResults \cup {<<Function("chunk")>>}
  BY <1>1, BeginFacts, Zenon
<1>3. stack' = stack \/ \E n \in Names : stack' = Append(stack, globals[n])
  BY <1>1 DEF Lookup
<1>4. /\ DOMAIN globals' = Names /\ \A n \in Names : globals'[n].kind \in Kinds
      /\ \A n \in Names : globals'[n].kind = "number" => globals'[n].val \in Int
      /\ IsSequence(stack') /\ DOMAIN stack' = 1..Len(stack')
      /\ Len(stack') \in Nat /\ Len(below') \in Nat
      /\ \A i \in 1..Len(stack') : /\ stack'[i].kind \in Kinds
                                   /\ stack'[i].kind = "number" => stack'[i].val \in Int
      /\ Len(stack') = Len(below') \/ Len(stack') = Len(below') + 1
      /\ FrameIsKept'
  BY <1>1, <1>3, BegunFacts, Zenon
<1>5. failed \in BOOLEAN /\ reply.outcome \in Outcomes
  BY DEF StackIsInOrder, TypeOK
\* What can be said of any of the outcomes.
<1>6. ASSUME todo' = <<>> \/ (pc' = "pushing" /\ IsSequence(todo') /\
               \A k \in DOMAIN todo' : todo'[k].push \in {"value", "table", "end"}),
             pc' \in {"idle", "pushing", "popping", "undefined"},
             reply'.outcome \in Outcomes, failed' \in BOOLEAN
      PROVE  TypeOK' /\ Shapes'
  <2>1. IsSequence(todo') /\ \A k \in DOMAIN todo' : todo'[k].push \in {"value", "table", "end"}
    BY <1>2, <1>6
  <2>2. TypeOK'
    BY <1>2, <1>4, <1>6, <2>1 DEF TypeOK
  <2>3. Shapes'
    BY <1>2, <1>4, <1>6, <2>1 DEF Shapes
  <2>4. QED
    BY <2>2, <2>3
<1>7. ASSUME failed' \/ ~failed PROVE FoundAsLoaded'
  BY <1>2, <1>7 DEF FoundAsLoaded
<1>8. CASE Len(stack) >= Capacity
  <2>1. pc' = "undefined" /\ UNCHANGED <<stack, todo, reply, failed>>
    BY <1>8 DEF Lookup
  <2>2. TypeOK' /\ Shapes'
    BY <1>2, <1>5, <1>6, <2>1
  <2>3. PushesInOrder' /\ PopsInOrder'
    BY <2>1, NothingUnderWay
  <2>4. FoundAsLoaded'
    BY <1>5, <1>7, <2>1
  <2>5. Replied' /\ StackIsRestored' /\ SetIsRead' /\ ResultIsReturned'
    BY <2>1 DEF Replied, StackIsRestored, SetIsRead, ResultIsReturned, CallHasReturned
  <2>6. QED
    BY <1>4, <2>2, <2>3, <2>4, <2>5 DEF StackIsInOrder
<1>9. CASE /\ pc' = "idle" /\ failed' = TRUE /\ todo' = <<>>
           /\ \/ Len(stack') = Len(below') /\ reply' = [op |-> r.op, outcome |-> "symbolNotFound", value |-> <<>>]
              \/ reply' = [op |-> r.op, outcome |-> "mismatch", value |-> <<>>]
  <2>1. reply'.op = r.op /\ reply'.outcome \in {"symbolNotFound", "mismatch"}
        /\ (reply'.outcome = "symbolNotFound" => Len(stack') = Len(below'))
    BY <1>9
  <2>2. TypeOK' /\ Shapes'
    BY <1>6, <1>9, <2>1 DEF Outcomes
  <2>3. PushesInOrder' /\ PopsInOrder'
    BY <1>9, NothingUnderWay
  <2>4. FoundAsLoaded'
    BY <1>7, <1>9
  <2>5. StackIsRestored'
    <3> DEFINE a == Len(stack')
               b == Len(below')
    <3>1. a \in Nat /\ b \in Nat /\ (a = b \/ a = b + 1)
      BY <1>4
    <3> HIDE DEF a, b
    <3>2. CASE reply'.outcome = "symbolNotFound"
      <4>1. a = b
        BY <2>1, <3>2 DEF a, b
      <4>2. a - b <= 0
        BY <3>1, <4>1
      <4>3. QED
        BY <3>2, <4>2 DEF StackIsRestored, a, b
    <3>3. CASE reply'.outcome = "mismatch"
      <4>1. a - b <= 1
        BY <3>1
      <4>2. QED
        BY <3>3, <4>1 DEF StackIsRestored, a, b
    <3>4. QED
      BY <2>1, <3>2, <3>3
  <2>6. Replied'
    BY <1>2, <1>9, <2>1 DEF Replied
  <2>7. SetIsRead' /\ ResultIsReturned'
    BY <1>9, <2>1 DEF SetIsRead, ResultIsReturned, CallHasReturned
  <2>8. QED
    BY <1>4, <2>2, <2>3, <2>4, <2>5, <2>6, <2>7 DEF StackIsInOrder
<1>10. CASE /\ pc' = "pushing" /\ r.op = "call" /\ stack' = Append(stack, globals[r.name])
            /\ todo' = PushAll(r.args) /\ UNCHANGED <<reply, failed>>
  <2> DEFINE args == ArgsOf(r)
  <2>1. GoodArguments(args) /\ args = r.args /\ Len(args) \in Nat
    BY <1>10, RequestFacts DEF GoodArguments, IsSequence
  <2> HIDE DEF args
  <2>2. todo' = PushAll(args) /\ IsSequence(todo')
        /\ \A k \in 1..Len(todo') : todo'[k].push \in {"value", "table", "end"}
    BY <1>10, <2>1, PushAllFacts
  <2>3. DOMAIN todo' = 1..Len(todo') /\ Len(todo') \in Nat
    BY <2>2, SequenceIsSeq
  <2>4. TypeOK' /\ Shapes'
    BY <1>5, <1>6, <1>10, <2>2, <2>3
  <2>5. Len(stack') = Len(stack) + 1
    BY <1>2, <1>10, AppendFacts
  <2>6. Base' = Len(stack) + 1 /\ Base' \in Nat
    BY <1>2, <1>10 DEF Base
  <2>7. At(stack', Base', args, 0, 0, 0)
    BY <2>1, <2>5, <2>6, AtTheStart
  <2>8. \A k \in 1..Len(todo') : 0 + k = k
    BY <2>3
  <2>9. Len(PushAll(args)) = 0 + Len(todo')
    BY <2>2, <2>3
  <2>10. \A k \in 1..Len(todo') : todo'[k] = PushAll(args)[0 + k]
    BY <2>2, <2>8
  <2>11. PushesInOrder'
    <3>1. args = ArgsOf(request')
      BY <1>2 DEF args
    <3>2. 0 \in Nat /\ request'.op \in {"call", "set"}
      BY <1>2, <1>10
    <3>3. QED
      BY <1>2, <2>2, <2>7, <2>9, <2>10, <3>1, <3>2, StillUnderWay
  <2>12. PopsInOrder' /\ Replied' /\ StackIsRestored' /\ SetIsRead' /\ ResultIsReturned'
    BY <1>10 DEF PopsInOrder, Replied, StackIsRestored, SetIsRead, ResultIsReturned, CallHasReturned
  <2>13. FoundAsLoaded'
    BY <1>5, <1>7, <1>10
  <2>14. QED
    BY <1>4, <2>4, <2>11, <2>12, <2>13 DEF StackIsInOrder
<1>11. CASE /\ pc' = "popping" /\ r.op = "get" /\ stack' = Append(stack, globals[r.name])
            /\ todo' = <<>> /\ UNCHANGED <<reply, failed>>
  <2>1. TypeOK' /\ Shapes'
    BY <1>5, <1>6, <1>11
  <2>2. Len(stack') = Len(below') + 1
    BY <1>2, <1>11, AppendFacts
  <2>3. TypesToPop' = <<r.type>> /\ Len(TypesToPop') = 1
    BY <1>2, <1>11, OneElement DEF TypesToPop
  <2>4. Len(TypesToPop') - Len(popped') = 1
    BY <1>2, <2>3
  <2>5. request'.op \in {"call", "get"} /\ request'.op # "call"
    BY <1>2, <1>11
  <2>6. PopsInOrder'
    BY <2>2, <2>4, <2>5 DEF PopsInOrder
  <2>7. PushesInOrder' /\ Replied' /\ StackIsRestored' /\ SetIsRead' /\ ResultIsReturned'
    BY <1>11 DEF PushesInOrder, Replied, StackIsRestored, SetIsRead, ResultIsReturned, CallHasReturned
  <2>8. FoundAsLoaded'
    BY <1>5, <1>7, <1>11
  <2>9. QED
    BY <1>4, <2>1, <2>6, <2>7, <2>8 DEF StackIsInOrder
<1>12. CASE ~(Len(stack) >= Capacity) /\ globals[r.name].kind = "nil"
  <2>1. Finish("symbolNotFound", <<>>) /\ UNCHANGED <<stack, todo>>
    BY <1>12 DEF Lookup
  <2>2. /\ pc' = "idle" /\ failed' = TRUE
        /\ reply' = [op |-> r.op, outcome |-> "symbolNotFound", value |-> <<>>]
    BY <1>2, <2>1 DEF Finish, Reply
  <2>3. QED
    BY <1>2, <1>9, <2>1, <2>2
<1>13. CASE ~(Len(stack) >= Capacity) /\ globals[r.name].kind # "nil"
  <2>1. CASE r.op = "call" /\ globals[r.name].kind # "function"
    <3>1. Finish("mismatch", <<>>) /\ UNCHANGED todo
      BY <1>13, <2>1 DEF Lookup
    <3>2. /\ pc' = "idle" /\ failed' = TRUE
          /\ reply' = [op |-> r.op, outcome |-> "mismatch", value |-> <<>>]
      BY <1>2, <3>1 DEF Finish, Reply
    <3>3. QED
      BY <1>2, <1>9, <3>1, <3>2
  <2>2. CASE r.op = "call" /\ globals[r.name].kind = "function"
    BY <1>10, <1>13, <2>2 DEF Lookup
  <2>3. CASE r.op = "get"
    BY <1>11, <1>13, <2>3 DEF Lookup
  <2>4. QED
    BY <1>1, <2>1, <2>2, <2>3
<1>14. QED
  BY <1>8, <1>12, <1>13


LEMMA SetKeeps ==
  ASSUME StackIsInOrder, NEW r \in Requests, Set(r)
  PROVE  StackIsInOrder'
<1> DEFINE args == ArgsOf(r)
<1>1. /\ r.op = "set" /\ Begin(r) /\ pc' = "pushing" /\ todo' = PushAll(<<r.arg>>)
      /\ UNCHANGED <<stack, reply, failed>>
  BY DEF Set
<1>2. /\ pc = "idle" /\ request' = r /\ request' \in Requests /\ request'.op # "none"
      /\ below' = stack /\ popped' = <<>> /\ returned' = <<>>
      /\ IsSequence(stack) /\ Len(stack) \in Nat
      /\ IsSequence(<<>>) /\ Len(<<>>) = 0 /\ DOMAIN <<>> = {}
      /\ ~failed => below' \in ChunkResults \cup {<<Function("chunk")>>}
  BY <1>1, BeginFacts, Zenon
<1>3. /\ DOMAIN globals' = Names /\ \A n \in Names : globals'[n].kind \in Kinds
      /\ \A n \in Names : globals'[n].kind = "number" => globals'[n].val \in Int
      /\ IsSequence(stack') /\ DOMAIN stack' = 1..Len(stack')
      /\ \A i \in 1..Len(stack') : /\ stack'[i].kind \in Kinds
                                   /\ stack'[i].kind = "number" => stack'[i].val \in Int
      /\ FrameIsKept'
  <2>1. stack' = stack \/ \E n \in Names : stack' = Append(stack, globals[n])
    BY <1>1
  <2>2. QED
    BY <1>1, <2>1, BegunFacts, Zenon
<1>4. GoodArguments(args) /\ args = <<r.arg>>
  BY <1>1, RequestFacts
<1> HIDE DEF args
<1>5. /\ todo' = PushAll(args) /\ IsSequence(todo') /\ DOMAIN todo' = 1..Len(todo')
      /\ Len(todo') \in Nat
      /\ \A k \in 1..Len(todo') : todo'[k].push \in {"value", "table", "end"}
  BY <1>1, <1>4, PushAllFacts, SequenceIsSeq
<1>6. failed \in BOOLEAN /\ reply.outcome \in Outcomes
  BY DEF StackIsInOrder, TypeOK
<1>7. TypeOK'
  BY <1>1, <1>2, <1>3, <1>5, <1>6 DEF TypeOK
<1>8. Shapes'
  BY <1>1, <1>2, <1>3, <1>5 DEF Shapes
<1>9. PushesInOrder'
  <2>1. Base' = Len(stack) /\ Base' \in Nat /\ Len(stack') = Base'
    BY <1>1, <1>2 DEF Base
  <2>2. At(stack', Base', args, 0, 0, 0)
    BY <1>4, <2>1, AtTheStart
  <2>3. \A k \in 1..Len(todo') : 0 + k = k
    BY <1>5
  <2>4. Len(PushAll(args)) = 0 + Len(todo')
    BY <1>5
  <2>5. \A k \in 1..Len(todo') : todo'[k] = PushAll(args)[0 + k]
    BY <1>5, <2>3
  <2>6. args = ArgsOf(request') /\ 0 \in Nat /\ request'.op \in {"call", "set"}
    BY <1>1, <1>2 DEF args
  <2>7. QED
    BY <1>2, <1>5, <2>2, <2>4, <2>5, <2>6, StillUnderWay
<1>10. PopsInOrder' /\ Replied' /\ StackIsRestored' /\ SetIsRead' /\ ResultIsReturned'
  BY <1>1 DEF PopsInOrder, Replied, StackIsRestored, SetIsRead, ResultIsReturned, CallHasReturned
<1>11. FoundAsLoaded'
  BY <1>1, <1>2, <1>6 DEF FoundAsLoaded
<1>12. QED
  BY <1>3, <1>7, <1>8, <1>9, <1>10, <1>11 DEF StackIsInOrder

\* What a step of a push finds.
LEMMA PushingFacts ==
  ASSUME StackIsInOrder, pc = "pushing", todo # <<>>, todo' = Tail(todo)
  PROVE  /\ todo' = Tail(todo) /\ IsSequence(todo') /\ DOMAIN todo' = 1..Len(todo')
         /\ \A k \in DOMAIN todo' : todo'[k].push \in {"value", "table", "end"}
         /\ Pushed \in Nat /\ Pushed < Len(PushAll(ArgsOf(request)))
         /\ Head(todo) = PushAll(ArgsOf(request))[Pushed + 1]
         /\ Len(PushAll(ArgsOf(request))) = Pushed + 1 + Len(todo')
         /\ \A k \in 1..Len(todo') : todo'[k] = PushAll(ArgsOf(request))[Pushed + 1 + k]
<1> DEFINE all == PushAll(ArgsOf(request))
<1>1. /\ Pushed \in Nat /\ IsSequence(todo) /\ Len(todo) \in Nat
      /\ Len(all) = Pushed + Len(todo) /\ \A k \in 1..Len(todo) : todo[k] = all[Pushed + k]
  BY Underway, Zenon
<1>2. /\ IsSequence(todo') /\ Len(todo) \in Nat \ {0} /\ Len(todo') = Len(todo) - 1
      /\ Head(todo) = todo[1] /\ \A i \in 1..Len(todo') : todo'[i] = todo[i + 1]
  BY <1>1, TailFacts
<1>3. DOMAIN todo' = 1..Len(todo') /\ DOMAIN todo = 1..Len(todo)
  BY <1>1, <1>2, SequenceIsSeq
<1> HIDE DEF all
<1>4. Pushed < Len(all) /\ Len(all) = Pushed + 1 + Len(todo')
  BY <1>1, <1>2
<1>5. \A k \in 1..Len(todo') : k + 1 \in 1..Len(todo) /\ Pushed + (k + 1) = Pushed + 1 + k
  BY <1>1, <1>2
<1>6. \A k \in 1..Len(todo') : todo'[k] = all[Pushed + 1 + k]
  <2>1. ASSUME NEW k \in 1..Len(todo') PROVE todo'[k] = all[Pushed + 1 + k]
    <3>1. todo'[k] = todo[k + 1] /\ todo[k + 1] = all[Pushed + (k + 1)]
      BY <1>1, <1>2, <1>5, Zenon
    <3>2. QED
      BY <1>5, <3>1
  <2>2. QED
    BY <2>1
<1>7. \A k \in DOMAIN todo' : todo'[k].push \in {"value", "table", "end"}
  BY <1>2, <1>3, <1>5, Zenon DEF StackIsInOrder, TypeOK
<1>8. Head(todo) = all[Pushed + 1]
  <2>1. 1 \in 1..Len(todo)
    BY <1>2
  <2>2. QED
    BY <1>1, <1>2, <2>1, Zenon
<1>9. QED
  BY <1>1, <1>2, <1>3, <1>4, <1>6, <1>7, <1>8 DEF all

LEMMA PushNextKeeps ==
  ASSUME StackIsInOrder, PushNext
  PROVE  StackIsInOrder'
<1> DEFINE args == ArgsOf(request)
           step == PushAll(args)[Pushed + 1]
<1>1. /\ pc = "pushing" /\ todo # <<>> /\ Head(todo).push # "end" /\ todo' = Tail(todo)
      /\ UNCHANGED <<request, globals, popped, returned, below, failed, reply>>
  BY DEF PushNext
<1>2. /\ IsSequence(todo') /\ DOMAIN todo' = 1..Len(todo')
      /\ \A k \in DOMAIN todo' : todo'[k].push \in {"value", "table", "end"}
      /\ Pushed \in Nat /\ Pushed < Len(PushAll(args)) /\ Head(todo) = step
      /\ Len(PushAll(args)) = Pushed + 1 + Len(todo')
      /\ \A k \in 1..Len(todo') : todo'[k] = PushAll(args)[Pushed + 1 + k]
  BY <1>1, PushingFacts, Zenon
<1>3. /\ request \in Requests /\ request.op \in {"call", "set"} /\ GoodArguments(args)
      /\ Base \in Nat /\ IsSequence(stack) /\ Len(stack) \in Nat /\ Len(below) \in Nat
  BY <1>1, Underway, Zenon
<1>4. PICK i, extra : At(stack, Base, args, Pushed, i, extra)
  BY <1>1, Underway, Zenon
<1> HIDE DEF args
<1>5. step.push # "end" /\ step.arg.kind \in Kinds /\ (step.arg.kind = "number" => step.arg.val \in Int)
  <2>1. NextIs(args, Pushed, i, extra)
    BY <1>2, <1>3, <1>4, NextStep, Zenon
  <2>2. /\ IsValue(args[i + 1]) /\ extra + 1 \in 1..Len(PushSteps(args[i + 1]))
        /\ step = PushSteps(args[i + 1])[extra + 1]
    BY <1>2, <2>1, Zenon DEF NextIs
  <2>3. step.push # "end"
    BY <1>1, <1>2
  <2>4. QED
    BY <2>2, <2>3, OneStep
<1>6. CASE Len(stack) < Capacity
  <2>1. stack' = Append(stack, step.arg) /\ pc' = "pushing"
    BY <1>2, <1>6 DEF PushNext, Push
  <2>2. /\ IsSequence(stack') /\ Len(stack') = Len(stack) + 1
        /\ stack'[Len(stack) + 1] = step.arg /\ \A k \in 1..Len(stack) : stack'[k] = stack[k]
    BY <1>3, <2>1, AppendFacts
  <2>3. DOMAIN stack = 1..Len(stack) /\ DOMAIN stack' = 1..Len(stack')
    BY <1>3, <2>2, SequenceIsSeq
  <2>4. \A k \in DOMAIN stack' : /\ stack'[k].kind \in Kinds
                                 /\ stack'[k].kind = "number" => stack'[k].val \in Int
    <3>1. \A k \in DOMAIN stack' : k \in DOMAIN stack \/ k = Len(stack) + 1
      BY <1>3, <2>2, <2>3
    <3>2. \A k \in DOMAIN stack : /\ stack[k].kind \in Kinds
                                  /\ stack[k].kind = "number" => stack[k].val \in Int
      BY DEF StackIsInOrder, TypeOK, Shapes
    <3> HIDE DEF step
    <3>3. QED
      BY <1>5, <2>2, <2>3, <3>1, <3>2
  <2> HIDE DEF step
  <2>5. TypeOK'
    BY <1>1, <1>2, <2>1, <2>4 DEF StackIsInOrder, TypeOK
  <2>6. Shapes'
    BY <1>1, <1>2, <1>3, <2>1, <2>2, <2>4 DEF StackIsInOrder, Shapes
  <2>7. FrameIsKept'
    <3>1. Len(below) <= Len(stack) /\ \A k \in 1..Len(below) : stack[k] = below[k]
      BY <1>1 DEF StackIsInOrder, FrameIsKept
    <3>2. Len(below) <= Len(stack') /\ \A k \in 1..Len(below) : k \in 1..Len(stack)
      BY <1>3, <2>2, <3>1
    <3>3. QED
      BY <1>1, <2>2, <3>1, <3>2 DEF FrameIsKept
  <2>8. PushesInOrder'
    <3>1. \E i2, extra2 : At(stack', Base, args, Pushed + 1, i2, extra2)
      <4>1. PushAll(args)[Pushed + 1].push # "end" /\ Pushed \in Nat /\ Base \in Nat
            /\ Pushed < Len(PushAll(args)) /\ GoodArguments(args)
            /\ stack'[Len(stack) + 1] = PushAll(args)[Pushed + 1].arg
        BY <1>2, <1>3, <1>5, <2>2, Zenon DEF step
      <4>2. Len(stack') = Len(stack) + 1 /\ \A k \in 1..Len(stack) : stack'[k] = stack[k]
        BY <2>2, Zenon
      <4>3. QED
        BY <1>4, <4>1, <4>2, PushOneMore, Zenon
    <3>2. PICK i2, extra2 : At(stack', Base, args, Pushed + 1, i2, extra2)
      BY <3>1
    <3>3. Base' = Base /\ args = ArgsOf(request') /\ request' = request
      BY <1>1 DEF Base, args
    <3>4. Pushed + 1 \in Nat
      BY <1>2
    <3>5. QED
      BY <1>2, <1>3, <3>2, <3>3, <3>4, StillUnderWay
  <2>9. /\ PopsInOrder' /\ Replied' /\ StackIsRestored' /\ SetIsRead' /\ ResultIsReturned'
    BY <2>1 DEF PopsInOrder, Replied, StackIsRestored, SetIsRead, ResultIsReturned, CallHasReturned
  <2>10. FoundAsLoaded'
    BY <1>1, <1>3, <2>1, RequestFacts DEF StackIsInOrder, FoundAsLoaded
  <2>11. QED
    BY <2>5, <2>6, <2>7, <2>8, <2>9, <2>10 DEF StackIsInOrder
<1>7. CASE ~(Len(stack) < Capacity)
  <2>1. stack' = stack /\ pc' = "undefined"
    BY <1>7 DEF PushNext, Push
  <2>2. TypeOK'
    BY <1>1, <1>2, <2>1 DEF StackIsInOrder, TypeOK
  <2>3. Shapes'
    BY <1>1, <1>2, <1>3, <2>1 DEF StackIsInOrder, Shapes
  <2>4. PushesInOrder' /\ PopsInOrder'
    BY <2>1, NothingUnderWay
  <2>5. FrameIsKept' /\ Replied' /\ StackIsRestored' /\ SetIsRead' /\ ResultIsReturned'
    BY <2>1 DEF FrameIsKept, Replied, StackIsRestored, SetIsRead, ResultIsReturned, CallHasReturned
  <2>6. FoundAsLoaded'
    BY <1>1, <1>3, <2>1, RequestFacts DEF StackIsInOrder, FoundAsLoaded
  <2>7. QED
    BY <2>2, <2>3, <2>4, <2>5, <2>6 DEF StackIsInOrder
<1>8. QED
  BY <1>6, <1>7


LEMMA EndTableKeeps ==
  ASSUME StackIsInOrder, EndTable
  PROVE  StackIsInOrder'
<1> DEFINE args == ArgsOf(request)
           n == PushAll(args)[Pushed + 1].arg
           t == Len(stack) - 2 * n
           new == Table([j \in 1..n |-> <<stack[t + 2 * j - 1], stack[t + 2 * j]>>])
           st2 == Append(SubSeq(stack, 1, t - 1), new)
<1>1. /\ pc = "pushing" /\ todo # <<>> /\ Head(todo).push = "end" /\ todo' = Tail(todo)
      /\ UNCHANGED <<request, globals, popped, returned, below, failed, reply>>
  BY DEF EndTable
<1>2. /\ IsSequence(todo') /\ DOMAIN todo' = 1..Len(todo')
      /\ \A k \in DOMAIN todo' : todo'[k].push \in {"value", "table", "end"}
      /\ Pushed \in Nat /\ Pushed < Len(PushAll(args)) /\ Head(todo) = PushAll(args)[Pushed + 1]
      /\ Len(PushAll(args)) = Pushed + 1 + Len(todo')
      /\ \A k \in 1..Len(todo') : todo'[k] = PushAll(args)[Pushed + 1 + k]
  BY <1>1, PushingFacts, Zenon
<1>3. /\ request \in Requests /\ request.op \in {"call", "set"} /\ GoodArguments(args)
      /\ Base \in Nat /\ IsSequence(stack) /\ Len(stack) \in Nat /\ Len(below) \in Nat
  BY <1>1, Underway, Zenon
<1>4. PICK i, extra : At(stack, Base, args, Pushed, i, extra)
  BY <1>1, Underway, Zenon
<1> HIDE DEF args
<1>5. /\ n \in Nat /\ Len(stack) > 2 * n /\ t - 1 \in Base..Len(stack)
      /\ IsSequence(st2) /\ Len(st2) = t /\ \A k \in 1..(t - 1) : st2[k] = stack[k]
      /\ st2[t] = new /\ IsValue(new) /\ At(st2, Base, args, Pushed + 1, i + 1, 0)
  <2>1. PushAll(args)[Pushed + 1].push = "end"
    BY <1>1, <1>2
  <2>2. TableIsComplete(stack, Base, args, Pushed, i)
    BY <1>2, <1>3, <1>4, <2>1, EndOneTable, Zenon
  <2>3. QED
    BY <2>2, Zenon DEF TableIsComplete
<1>6. pc' = "pushing" /\ stack' = st2
  BY <1>2, <1>5 DEF EndTable
<1> HIDE DEF st2, new
<1>7. t \in Nat /\ Base <= t - 1 /\ t - 1 \in 0..Len(stack)
  BY <1>3, <1>5
<1> HIDE DEF t, n
<1>8. DOMAIN stack = 1..Len(stack) /\ DOMAIN stack' = 1..t
  BY <1>3, <1>5, <1>6, SequenceIsSeq
<1>9. \A k \in DOMAIN stack' : /\ stack'[k].kind \in Kinds
                               /\ stack'[k].kind = "number" => stack'[k].val \in Int
  <2>1. \A k \in DOMAIN stack : /\ stack[k].kind \in Kinds
                                /\ stack[k].kind = "number" => stack[k].val \in Int
    BY DEF StackIsInOrder, TypeOK, Shapes
  <2>2. new.kind \in Kinds /\ (new.kind = "number" => new.val \in Int)
    BY <1>5 DEF IsValue
  <2>3. \A k \in DOMAIN stack' : k = t \/ (k \in 1..(t - 1) /\ k \in DOMAIN stack)
    BY <1>3, <1>7, <1>8
  <2>4. QED
    BY <1>5, <1>6, <2>1, <2>2, <2>3
<1>10. TypeOK'
  BY <1>1, <1>2, <1>6, <1>9 DEF StackIsInOrder, TypeOK
<1>11. Shapes'
  BY <1>1, <1>2, <1>3, <1>5, <1>6, <1>9 DEF StackIsInOrder, Shapes
<1>12. FrameIsKept'
  <2>1. Len(below) <= Len(stack) /\ \A k \in 1..Len(below) : stack[k] = below[k]
    BY <1>1 DEF StackIsInOrder, FrameIsKept
  <2>2. Len(below) <= Base
    BY <1>3 DEF Base
  <2>3. Len(below) <= t /\ \A k \in 1..Len(below) : k \in 1..(t - 1)
    BY <1>3, <1>7, <2>2
  <2>4. QED
    BY <1>1, <1>5, <1>6, <2>1, <2>3 DEF FrameIsKept
<1>13. PushesInOrder'
  <2>1. At(stack', Base', args, Pushed + 1, i + 1, 0)
    BY <1>1, <1>5, <1>6 DEF Base
  <2>2. args = ArgsOf(request') /\ request' = request /\ Pushed + 1 \in Nat
    BY <1>1, <1>2 DEF args
  <2>3. QED
    BY <1>2, <1>3, <2>1, <2>2, StillUnderWay
<1>14. PopsInOrder' /\ Replied' /\ StackIsRestored' /\ SetIsRead' /\ ResultIsReturned'
  BY <1>6 DEF PopsInOrder, Replied, StackIsRestored, SetIsRead, ResultIsReturned, CallHasReturned
<1>15. FoundAsLoaded'
  BY <1>1, <1>3, <1>6, RequestFacts DEF StackIsInOrder, FoundAsLoaded
<1>16. QED
  BY <1>10, <1>11, <1>12, <1>13, <1>14, <1>15 DEF StackIsInOrder

LEMMA MarkGlobalKeeps ==
  ASSUME StackIsInOrder, MarkGlobal
  PROVE  StackIsInOrder'
<1> DEFINE top == stack[Len(stack)]
<1>1. /\ pc = "pushing" /\ todo = <<>> /\ request.op = "set" /\ request' = request
      /\ globals' = [globals EXCEPT ![request.name] = top]
      /\ stack' = SubSeq(stack, 1, Len(stack) - 1)
      /\ pc' = "idle" /\ failed' = (failed \/ FALSE)
      /\ reply' = [op |-> "set", outcome |-> "ok", value |-> <<>>]
      /\ UNCHANGED <<todo, popped, returned, below>>
  BY DEF MarkGlobal, Finish, Reply
<1>2. /\ request \in Requests /\ IsSequence(stack) /\ Len(stack) \in Nat /\ Len(below) \in Nat
  BY <1>1, Underway, Zenon
<1>3. /\ Len(ArgsOf(request)) \in Nat /\ Len(stack) = Base + Len(ArgsOf(request))
      /\ \A j \in 1..Len(ArgsOf(request)) : stack[Base + j] = ArgsOf(request)[j]
  BY <1>1, AllPushed
<1>4. ArgsOf(request) = <<request.arg>> /\ request.name \in Names
  BY <1>1, <1>2, RequestFacts
<1>5. Base = Len(below) /\ Len(ArgsOf(request)) = 1 /\ ArgsOf(request)[1] = request.arg
  BY <1>1, <1>2, <1>4, OneElement DEF Base
<1>6. Len(stack) = Len(below) + 1 /\ stack[Len(below) + 1] = request.arg
  <2>1. 1 \in 1..1
    OBVIOUS
  <2>2. stack[Len(below) + 1] = request.arg
    BY <1>3, <1>5, <2>1
  <2>3. QED
    BY <1>3, <1>5, <2>2
<1>7. Len(stack) - 1 = Len(below) /\ Len(below) \in 0..Len(stack) /\ Len(stack) \in 1..Len(stack)
  BY <1>2, <1>6
<1>8. /\ IsSequence(stack') /\ Len(stack') = Len(below)
      /\ \A k \in 1..Len(below) : stack'[k] = stack[k]
  BY <1>1, <1>2, <1>7, PrefixFacts
<1>9. top = request.arg
  BY <1>6
<1>10. /\ DOMAIN stack = 1..Len(stack) /\ DOMAIN stack' = 1..Len(below)
       /\ DOMAIN stack' \subseteq DOMAIN stack
  BY <1>2, <1>7, <1>8, SequenceIsSeq
<1>11. \A k \in DOMAIN stack : /\ stack[k].kind \in Kinds
                               /\ stack[k].kind = "number" => stack[k].val \in Int
  BY DEF StackIsInOrder, TypeOK, Shapes
<1>12. top.kind \in Kinds /\ (top.kind = "number" => top.val \in Int)
  BY <1>7, <1>10, <1>11
<1> HIDE DEF top
<1>13. /\ DOMAIN globals' = Names /\ globals'[request.name] = top
       /\ \A n \in Names : globals'[n] = top \/ globals'[n] = globals[n]
  <2>1. DOMAIN globals = Names
    BY DEF StackIsInOrder, TypeOK
  <2>2. QED
    BY <1>1, <1>4, <2>1
<1>14. TypeOK'
  <2>1. \A n \in Names : globals'[n].kind \in Kinds
    BY <1>12, <1>13 DEF StackIsInOrder, TypeOK
  <2>2. \A k \in DOMAIN stack' : stack'[k].kind \in Kinds
    BY <1>8, <1>10, <1>11
  <2>3. QED
    BY <1>1, <1>13, <2>1, <2>2 DEF StackIsInOrder, TypeOK, Outcomes
<1>15. Shapes'
  <2>1. \A n \in Names : globals'[n].kind = "number" => globals'[n].val \in Int
    BY <1>12, <1>13 DEF StackIsInOrder, Shapes
  <2>2. \A k \in DOMAIN stack' : stack'[k].kind = "number" => stack'[k].val \in Int
    BY <1>8, <1>10, <1>11
  <2>3. QED
    BY <1>1, <1>2, <1>8, <2>1, <2>2 DEF StackIsInOrder, Shapes
<1>16. FrameIsKept'
  <2>1. \A k \in 1..Len(below) : stack[k] = below[k]
    BY <1>1 DEF StackIsInOrder, FrameIsKept
  <2>2. Len(below) <= Len(below)
    BY <1>2
  <2>3. QED
    BY <1>1, <1>8, <2>1, <2>2 DEF FrameIsKept
<1>17. PushesInOrder' /\ PopsInOrder'
  BY <1>1, NothingUnderWay
<1>18. FoundAsLoaded'
  BY <1>1 DEF StackIsInOrder, FoundAsLoaded
<1>19. Replied'
  BY <1>1 DEF Replied
<1>20. StackIsRestored'
  <2>1. Len(stack') - Len(below') <= 0
    BY <1>1, <1>2, <1>8
  <2>2. QED
    BY <1>1, <2>1 DEF StackIsRestored
<1>21. SetIsRead'
  BY <1>1, <1>9, <1>13 DEF SetIsRead
<1>22. ResultIsReturned'
  BY <1>1 DEF ResultIsReturned, CallHasReturned
<1>23. QED
  BY <1>14, <1>15, <1>16, <1>17, <1>18, <1>19, <1>20, <1>21, <1>22 DEF StackIsInOrder


\* Under the function and its arguments is what the call has found.
LEMMA UnderFunctionFacts ==
  ASSUME StackIsInOrder, pc = "pushing", todo = <<>>, request.op = "call"
  PROVE  /\ request \in Requests /\ IsSequence(request.ret) /\ Len(request.ret) \in Nat
         /\ IsSequence(UnderFunction) /\ Len(UnderFunction) = Len(below)
         /\ Len(below) \in Nat /\ popped = <<>>
         /\ \A k \in 1..Len(below) :
              /\ UnderFunction[k] = below[k] /\ UnderFunction[k].kind \in Kinds
              /\ UnderFunction[k].kind = "number" => UnderFunction[k].val \in Int
<1>1. request \in Requests /\ IsSequence(stack) /\ Len(stack) \in Nat /\ Len(below) \in Nat
  BY Underway, Zenon
<1>2. Len(ArgsOf(request)) \in Nat /\ Len(stack) = Base + Len(ArgsOf(request))
  BY AllPushed, Zenon
<1>3. ArgsOf(request) = request.args /\ IsSequence(request.ret)
  BY <1>1, RequestFacts
<1>4. Base = Len(below) + 1
  BY DEF Base
<1>5. Len(stack) - Len(request.args) - 1 = Len(below) /\ Len(below) \in 0..Len(stack)
      /\ 1..Len(below) \subseteq 1..Len(stack)
  <2>1. \A a, b, c \in Nat : a = b + 1 + c => a - c - 1 = b /\ b \in 0..a /\ 1..b \subseteq 1..a
    OBVIOUS
  <2>2. Len(request.args) \in Nat /\ Len(stack) = Len(below) + 1 + Len(request.args)
    BY <1>2, <1>3, <1>4
  <2>3. QED
    BY <1>1, <2>1, <2>2, Zenon
<1>6. UnderFunction = SubSeq(stack, 1, Len(below))
  BY <1>5 DEF UnderFunction
<1>7. /\ IsSequence(UnderFunction) /\ Len(UnderFunction) = Len(below)
      /\ \A k \in 1..Len(below) : UnderFunction[k] = stack[k]
  BY <1>1, <1>5, <1>6, PrefixFacts
<1>8. \A k \in 1..Len(below) : k \in DOMAIN stack
  BY <1>1, <1>5, SequenceIsSeq
<1>9. \A k \in 1..Len(below) : stack[k] = below[k]
  BY DEF StackIsInOrder, FrameIsKept
<1>10. \A k \in 1..Len(below) : /\ stack[k].kind \in Kinds
                                /\ stack[k].kind = "number" => stack[k].val \in Int
  BY <1>8, Zenon DEF StackIsInOrder, TypeOK, Shapes
<1>11. Len(request.ret) \in Nat /\ popped = <<>>
  BY <1>3 DEF IsSequence, StackIsInOrder, Shapes
<1>12. QED
  BY <1>1, <1>3, <1>7, <1>9, <1>10, <1>11

\* The script may change its globals while it runs.
LEMMA GlobalsStayGood ==
  ASSUME StackIsInOrder, globals' \in Globals \cup {globals}
  PROVE  /\ DOMAIN globals' = Names /\ \A n \in Names : globals'[n].kind \in Kinds
         /\ \A n \in Names : globals'[n].kind = "number" => globals'[n].val \in Int
<1>1. CASE globals' \in Globals
  BY <1>1, GlobalFacts, Zenon
<1>2. CASE globals' = globals
  BY <1>2 DEF StackIsInOrder, TypeOK, Shapes
<1>3. QED
  BY <1>1, <1>2

LEMMA PcallReturnsKeeps ==
  ASSUME StackIsInOrder, PcallReturns
  PROVE  StackIsInOrder'
<1>1. /\ pc = "pushing" /\ todo = <<>> /\ request.op = "call" /\ globals' \in Globals \cup {globals}
      /\ UNCHANGED <<request, todo, popped, below, failed, reply>>
  BY DEF PcallReturns
<1>2. /\ request \in Requests /\ IsSequence(request.ret) /\ Len(request.ret) \in Nat
      /\ IsSequence(UnderFunction) /\ Len(UnderFunction) = Len(below)
      /\ Len(below) \in Nat /\ popped = <<>>
      /\ \A k \in 1..Len(below) :
           /\ UnderFunction[k] = below[k] /\ UnderFunction[k].kind \in Kinds
           /\ UnderFunction[k].kind = "number" => UnderFunction[k].val \in Int
  BY <1>1, UnderFunctionFacts, Zenon
<1>3. /\ DOMAIN globals' = Names /\ \A n \in Names : globals'[n].kind \in Kinds
      /\ \A n \in Names : globals'[n].kind = "number" => globals'[n].val \in Int
  BY <1>1, GlobalsStayGood, Zenon
<1>4. PICK results \in [1..Len(request.ret) -> Returns] :
        IF Len(UnderFunction) + Len(results) <= Capacity
          THEN /\ returned' = results /\ stack' = UnderFunction \o results
               /\ pc' = "popping"
          ELSE pc' = "undefined" /\ UNCHANGED <<returned, stack>>
  BY DEF PcallReturns
<1>5. IsSequence(results) /\ Len(results) = Len(request.ret)
      /\ \A k \in 1..Len(results) : IsValue(results[k])
  <2>1. results = [k \in 1..Len(request.ret) |-> results[k]]
    OBVIOUS
  <2>2. IsSequence(results) /\ Len(results) = Len(request.ret)
    BY <1>2, <2>1, FunctionIsSequence, Zenon
  <2>3. \A k \in 1..Len(request.ret) : IsValue(results[k])
    BY <1>4, StackAssumption, Zenon
  <2>4. QED
    BY <2>2, <2>3
<1>6. CASE Len(UnderFunction) + Len(results) <= Capacity
  <2>1. returned' = results /\ stack' = UnderFunction \o results /\ pc' = "popping"
    BY <1>4, <1>6
  <2>2. IsConcat(stack', UnderFunction, results)
    BY <1>2, <1>5, <2>1, ConcatFacts, Zenon
  <2>3. /\ IsSequence(stack') /\ Len(stack') = Len(below) + Len(results) /\ Len(results) \in Nat
        /\ \A k \in 1..Len(below) : stack'[k] = UnderFunction[k]
        /\ \A k \in 1..Len(results) : stack'[Len(below) + k] = results[k]
    BY <1>2, <2>2, Zenon DEF IsConcat
  <2>4. DOMAIN stack' = 1..Len(stack')
    BY <2>3, SequenceIsSeq
  <2>5. ASSUME NEW k \in DOMAIN stack'
        PROVE  stack'[k].kind \in Kinds /\ (stack'[k].kind = "number" => stack'[k].val \in Int)
    <3>1. k \in 1..(Len(below) + Len(results)) /\ k \in Nat
      BY <2>3, <2>4
    <3>2. CASE k \in 1..Len(below)
      BY <1>2, <2>3, <3>2
    <3>3. CASE k \notin 1..Len(below)
      <4> DEFINE l == k - Len(below)
      <4>1. l \in 1..Len(results) /\ Len(below) + l = k
        BY <1>2, <2>3, <3>1, <3>3
      <4> HIDE DEF l
      <4>2. stack'[k] = results[l] /\ IsValue(results[l])
        BY <1>5, <2>3, <4>1, Zenon
      <4>3. QED
        BY <4>2 DEF IsValue
    <3>4. QED
      BY <3>2, <3>3
  <2>6. TypeOK'
    BY <1>1, <1>2, <1>3, <2>1, <2>5 DEF StackIsInOrder, TypeOK
  <2>7. Shapes'
    <3>1. DOMAIN results = 1..Len(results)
      BY <1>5, SequenceIsSeq
    <3>2. \A k \in DOMAIN returned' : returned'[k].kind = "number" => returned'[k].val \in Int
      BY <1>5, <2>1, <3>1 DEF IsValue
    <3>3. QED
      BY <1>1, <1>2, <1>3, <1>5, <2>1, <2>3, <2>5, <3>2 DEF StackIsInOrder, Shapes
  <2>8. FrameIsKept'
    <3>1. Len(below) <= Len(stack')
      BY <1>2, <2>3
    <3>2. QED
      BY <1>1, <1>2, <2>3, <3>1 DEF FrameIsKept
  <2>9. PopsInOrder'
    <3>1. TypesToPop' = request.ret /\ request'.op = "call" /\ popped' = <<>>
      BY <1>1, <1>2 DEF TypesToPop
    <3>2. Len(popped') = 0
      BY <3>1, EmptyIsSequence
    <3>3. Len(TypesToPop') - Len(popped') = Len(results) /\ Len(returned') = Len(TypesToPop')
      BY <1>2, <1>5, <2>1, <3>1, <3>2
    <3>4. \A k \in 1..Len(results) : stack'[Len(below') + k] = returned'[k]
      BY <1>1, <2>1, <2>3
    <3>5. Len(stack') = Len(below') + Len(results)
      BY <1>1, <2>3
    <3>6. \A j \in 1..Len(popped') : FALSE
      BY <3>2
    <3>7. QED
      BY <2>3, <3>1, <3>3, <3>4, <3>5, <3>6, Zenon DEF PopsInOrder
  <2>10. PushesInOrder' /\ Replied' /\ StackIsRestored' /\ SetIsRead' /\ ResultIsReturned'
    BY <2>1 DEF PushesInOrder, Replied, StackIsRestored, SetIsRead, ResultIsReturned, CallHasReturned
  <2>11. FoundAsLoaded'
    BY <1>1, <1>2, <2>1, RequestFacts DEF StackIsInOrder, FoundAsLoaded
  <2>12. QED
    BY <2>6, <2>7, <2>8, <2>9, <2>10, <2>11 DEF StackIsInOrder
<1>7. CASE ~(Len(UnderFunction) + Len(results) <= Capacity)
  <2>1. pc' = "undefined" /\ UNCHANGED <<returned, stack>>
    BY <1>4, <1>7
  <2>2. TypeOK'
    BY <1>1, <1>2, <1>3, <2>1 DEF StackIsInOrder, TypeOK
  <2>3. Shapes'
    BY <1>1, <1>2, <1>3, <2>1 DEF StackIsInOrder, Shapes
  <2>4. PushesInOrder' /\ PopsInOrder'
    BY <2>1, NothingUnderWay
  <2>5. FrameIsKept' /\ Replied' /\ StackIsRestored' /\ SetIsRead' /\ ResultIsReturned'
    BY <2>1 DEF FrameIsKept, Replied, StackIsRestored, SetIsRead, ResultIsReturned, CallHasReturned
  <2>6. FoundAsLoaded'
    BY <1>1, <1>2, <2>1, RequestFacts DEF StackIsInOrder, FoundAsLoaded
  <2>7. QED
    BY <2>2, <2>3, <2>4, <2>5, <2>6 DEF StackIsInOrder
<1>8. QED
  BY <1>6, <1>7

LEMMA PcallFailsKeeps ==
  ASSUME StackIsInOrder, PcallFails
  PROVE  StackIsInOrder'
<1>1. /\ pc = "pushing" /\ todo = <<>> /\ request.op = "call" /\ globals' \in Globals \cup {globals}
      /\ pc' = "idle" /\ request' = request /\ failed' = TRUE
      /\ reply' = [op |-> "call", outcome |-> "callFailed", value |-> <<>>]
      /\ UNCHANGED <<todo, popped, returned, below>>
  BY DEF PcallFails, Finish, Reply
<1>2. /\ request \in Requests /\ IsSequence(UnderFunction) /\ Len(UnderFunction) = Len(below)
      /\ Len(below) \in Nat
      /\ \A k \in 1..Len(below) :
           /\ UnderFunction[k] = below[k] /\ UnderFunction[k].kind \in Kinds
           /\ UnderFunction[k].kind = "number" => UnderFunction[k].val \in Int
  BY <1>1, UnderFunctionFacts, Zenon
<1>3. /\ DOMAIN globals' = Names /\ \A n \in Names : globals'[n].kind \in Kinds
      /\ \A n \in Names : globals'[n].kind = "number" => globals'[n].val \in Int
  BY <1>1, GlobalsStayGood, Zenon
<1>4. \/ stack' = UnderFunction
      \/ \E v : stack' = Append(UnderFunction, v) /\ v.kind \in Kinds
                 /\ (v.kind = "number" => v.val \in Int)
  <2>1. String("memory").kind \in Kinds /\ String("memory").kind # "number"
    BY DEF String, Kinds
  <2>2. \A v \in Errors : v.kind \in Kinds /\ (v.kind = "number" => v.val \in Int)
    BY StackAssumption DEF IsValue
  <2>3. QED
    BY <2>1, <2>2 DEF PcallFails
<1>5. /\ IsSequence(stack') /\ Len(stack') \in {Len(below), Len(below) + 1}
      /\ \A k \in 1..Len(below) : stack'[k] = UnderFunction[k]
      /\ \A k \in 1..Len(stack') : /\ stack'[k].kind \in Kinds
                                   /\ stack'[k].kind = "number" => stack'[k].val \in Int
  <2>1. CASE stack' = UnderFunction
    BY <1>2, <2>1
  <2>2. CASE ~(stack' = UnderFunction)
    <3>1. PICK v : stack' = Append(UnderFunction, v) /\ v.kind \in Kinds
                   /\ (v.kind = "number" => v.val \in Int)
      BY <1>4, <2>2
    <3>2. /\ IsSequence(stack') /\ Len(stack') = Len(below) + 1 /\ stack'[Len(below) + 1] = v
          /\ \A k \in 1..Len(below) : stack'[k] = UnderFunction[k]
      BY <1>2, <3>1, AppendFacts
    <3>3. \A k \in 1..Len(stack') : k \in 1..Len(below) \/ k = Len(below) + 1
      BY <1>2, <3>2
    <3>4. QED
      BY <1>2, <3>1, <3>2, <3>3
  <2>3. QED
    BY <2>1, <2>2
<1>6. DOMAIN stack' = 1..Len(stack')
  BY <1>5, SequenceIsSeq
<1>7. TypeOK'
  BY <1>1, <1>3, <1>5, <1>6 DEF StackIsInOrder, TypeOK, Outcomes
<1>8. Shapes'
  BY <1>1, <1>2, <1>3, <1>5, <1>6 DEF StackIsInOrder, Shapes
<1>9. Len(below) <= Len(stack') /\ Len(stack') - Len(below) <= 1
  BY <1>2, <1>5
<1>10. FrameIsKept'
  BY <1>1, <1>2, <1>5, <1>9 DEF FrameIsKept
<1>11. PushesInOrder' /\ PopsInOrder'
  BY <1>1, NothingUnderWay
<1>12. FoundAsLoaded'
  BY <1>1 DEF FoundAsLoaded
<1>13. Replied'
  BY <1>1 DEF Replied
<1>14. StackIsRestored'
  BY <1>1, <1>9 DEF StackIsRestored
<1>15. SetIsRead' /\ ResultIsReturned'
  BY <1>1 DEF SetIsRead, ResultIsReturned, CallHasReturned
<1>16. QED
  BY <1>7, <1>8, <1>10, <1>11, <1>12, <1>13, <1>14, <1>15 DEF StackIsInOrder


\* The results that are left.
ToPop == Len(TypesToPop) - Len(popped)

LEMMA PoppingFacts ==
  ASSUME StackIsInOrder, pc = "popping"
  PROVE  /\ request \in Requests /\ request.op \in {"call", "get"}
         /\ IsSequence(TypesToPop) /\ Len(TypesToPop) \in Nat
         /\ IsSequence(popped) /\ Len(popped) \in Nat /\ IsSequence(returned)
         /\ IsSequence(stack) /\ Len(stack) \in Nat /\ Len(below) \in Nat
         /\ ToPop \in Nat /\ Len(TypesToPop) = Len(popped) + ToPop
         /\ Len(stack) = Len(below) + ToPop
         /\ request.op = "call" =>
              /\ TypesToPop = request.ret /\ Len(returned) = Len(TypesToPop)
              /\ \A k \in 1..ToPop : stack[Len(below) + k] = returned[k]
              /\ \A j \in 1..Len(popped) :
                   /\ popped[j] = TopScalar(TypesToPop[j], returned[Len(TypesToPop) + 1 - j])
                   /\ popped[j] # NoValue
         /\ \A k \in 1..Len(stack) : /\ stack[k].kind \in Kinds
                                     /\ stack[k].kind = "number" => stack[k].val \in Int
         /\ \A k \in 1..Len(below) : stack[k] = below[k]
<1>1. request \in Requests /\ request.op \in {"call", "get"}
  BY DEF StackIsInOrder, Shapes, PopsInOrder
<1>2. IsSequence(TypesToPop) /\ Len(TypesToPop) \in Nat
      /\ (request.op = "call" => TypesToPop = request.ret)
  BY <1>1, TypesFacts
<1>3. IsSequence(popped) /\ IsSequence(returned) /\ IsSequence(stack) /\ IsSequence(below)
  BY DEF StackIsInOrder, Shapes
<1>4. Len(popped) \in Nat /\ Len(stack) \in Nat /\ Len(below) \in Nat /\ DOMAIN stack = 1..Len(stack)
  BY <1>3, SequenceIsSeq
<1>5. ToPop \in Nat /\ Len(stack) = Len(below) + ToPop
  BY DEF StackIsInOrder, PopsInOrder, ToPop
<1>6. Len(TypesToPop) = Len(popped) + ToPop
  BY <1>2, <1>4 DEF ToPop
<1>7. request.op = "call" =>
        /\ Len(returned) = Len(TypesToPop)
        /\ \A k \in 1..ToPop : stack[Len(below) + k] = returned[k]
        /\ \A j \in 1..Len(popped) :
             /\ popped[j] = TopScalar(TypesToPop[j], returned[Len(TypesToPop) + 1 - j])
             /\ popped[j] # NoValue
  BY Zenon DEF StackIsInOrder, PopsInOrder, ToPop
<1>8. \A k \in 1..Len(stack) : /\ stack[k].kind \in Kinds
                               /\ stack[k].kind = "number" => stack[k].val \in Int
  BY <1>4 DEF StackIsInOrder, TypeOK, Shapes
<1>9. \A k \in 1..Len(below) : stack[k] = below[k]
  BY DEF StackIsInOrder, FrameIsKept
<1>10. QED
  BY <1>1, <1>2, <1>3, <1>4, <1>5, <1>6, <1>7, <1>8, <1>9, Zenon

\* A value of the wrong type stays where it is, with what is under it.
LEMMA PopFailsKeeps ==
  ASSUME StackIsInOrder, pc = "popping", Len(popped) < Len(TypesToPop),
         TopScalar(TypesToPop[Len(popped) + 1], stack[Len(stack)]) = NoValue,
         request' = request, Finish("incorrectType", <<>>),
         UNCHANGED <<globals, stack, todo, popped, returned, below>>
  PROVE  StackIsInOrder'
<1>1. /\ pc' = "idle" /\ failed' = TRUE
      /\ reply' = [op |-> request.op, outcome |-> "incorrectType", value |-> <<>>]
  BY DEF Finish, Reply
<1>2. /\ request \in Requests /\ request.op \in {"call", "get"}
      /\ Len(TypesToPop) \in Nat /\ Len(popped) \in Nat /\ IsSequence(returned)
      /\ Len(stack) \in Nat /\ Len(below) \in Nat
      /\ ToPop \in Nat /\ Len(TypesToPop) = Len(popped) + ToPop
      /\ Len(stack) = Len(below) + ToPop
  BY PoppingFacts, Zenon
<1>3. TypesToPop' = TypesToPop
  BY DEF TypesToPop
<1>4. TypeOK'
  BY <1>1 DEF StackIsInOrder, TypeOK, Outcomes
<1>5. Shapes'
  BY <1>1, <1>2 DEF StackIsInOrder, Shapes
<1>6. FrameIsKept'
  BY <1>1 DEF StackIsInOrder, FrameIsKept
<1>7. PushesInOrder' /\ PopsInOrder'
  BY <1>1, NothingUnderWay
<1>8. FoundAsLoaded'
  BY <1>1 DEF FoundAsLoaded
<1>9. Replied'
  BY <1>1 DEF Replied
<1>10. StackIsRestored'
  <2>1. Len(stack') - Len(below') <= Len(TypesToPop')
    BY <1>2, <1>3
  <2>2. QED
    BY <1>1, <2>1 DEF StackIsRestored
<1>11. SetIsRead'
  BY <1>1, <1>2 DEF SetIsRead
<1>12. ASSUME request.op = "call", \A i, j \in DOMAIN request.ret : request.ret[i] = request.ret[j]
       PROVE  AsReturned'
  <2>1. /\ TypesToPop = request.ret /\ Len(returned) = Len(TypesToPop)
        /\ \A k \in 1..ToPop : stack[Len(below) + k] = returned[k]
    BY <1>12, PoppingFacts, Zenon
  <2>2. IsSequence(request.ret) /\ DOMAIN request.ret = 1..Len(TypesToPop)
        /\ DOMAIN returned = 1..Len(TypesToPop)
    BY <1>2, <1>12, <2>1, RequestFacts, SequenceIsSeq
  <2>3. /\ ToPop \in 1..ToPop /\ ToPop \in 1..Len(TypesToPop)
        /\ Len(popped) + 1 \in 1..Len(TypesToPop)
    BY <1>2
  <2>4. stack[Len(stack)] = returned[ToPop]
    BY <1>2, <2>1, <2>3
  <2>5. TypesToPop[Len(popped) + 1] = request.ret[ToPop]
    BY <1>12, <2>1, <2>2, <2>3
  <2>6. ToPop \in DOMAIN returned /\ TopScalar(request.ret[ToPop], returned[ToPop]) = NoValue
    BY <2>2, <2>3, <2>4, <2>5
  <2>7. ~HasType(request.ret[ToPop], returned[ToPop])
    <3>1. returned[ToPop].kind = "number" => returned[ToPop].val \in Int
      BY <2>6 DEF StackIsInOrder, Shapes
    <3>2. QED
      BY <2>6, <3>1, ExactScalar
  <2>8. reply'.outcome = "incorrectType"
    BY <1>1
  <2>9. QED
    BY <2>6, <2>7, <2>8 DEF AsReturned
<1>13. ResultIsReturned'
  BY <1>1, <1>12 DEF ResultIsReturned, CallHasReturned
<1>14. QED
  BY <1>4, <1>5, <1>6, <1>7, <1>8, <1>9, <1>10, <1>11, <1>13 DEF StackIsInOrder

LEMMA PopNextKeeps ==
  ASSUME StackIsInOrder, PopNext
  PROVE  StackIsInOrder'
<1> DEFINE T == TypesToPop[Len(popped) + 1]
           top == stack[Len(stack)]
           v == TopScalar(T, top)
<1>1. pc = "popping" /\ Len(popped) < Len(TypesToPop) /\ UNCHANGED <<globals, todo, returned, below>>
  BY DEF PopNext
<1>2. CASE v = NoValue
  <2>1. request' = request /\ Finish("incorrectType", <<>>) /\ UNCHANGED <<stack, popped>>
    BY <1>2 DEF PopNext
  <2>2. QED
    BY <1>1, <1>2, <2>1, PopFailsKeeps
<1>3. CASE v # NoValue
  <2>1. /\ popped' = Append(popped, v) /\ stack' = SubSeq(stack, 1, Len(stack) - 1)
        /\ UNCHANGED <<pc, request, reply, failed>>
    BY <1>3 DEF PopNext
  <2>2. /\ request \in Requests /\ request.op \in {"call", "get"}
        /\ IsSequence(TypesToPop) /\ Len(TypesToPop) \in Nat
        /\ IsSequence(popped) /\ Len(popped) \in Nat /\ IsSequence(returned)
        /\ IsSequence(stack) /\ Len(stack) \in Nat /\ Len(below) \in Nat
        /\ ToPop \in Nat /\ Len(TypesToPop) = Len(popped) + ToPop
        /\ Len(stack) = Len(below) + ToPop
        /\ \A k \in 1..Len(stack) : /\ stack[k].kind \in Kinds
                                    /\ stack[k].kind = "number" => stack[k].val \in Int
        /\ \A k \in 1..Len(below) : stack[k] = below[k]
    BY <1>1, PoppingFacts, Zenon
  <2>3. request.op = "call" =>
          /\ Len(returned) = Len(TypesToPop)
          /\ \A k \in 1..ToPop : stack[Len(below) + k] = returned[k]
          /\ \A j \in 1..Len(popped) :
               /\ popped[j] = TopScalar(TypesToPop[j], returned[Len(TypesToPop) + 1 - j])
               /\ popped[j] # NoValue
    BY <1>1, PoppingFacts, Zenon
  <2>4. /\ ToPop - 1 \in Nat /\ Len(stack) - 1 = Len(below) + (ToPop - 1)
        /\ Len(stack) - 1 \in 0..Len(stack) /\ Len(stack) \in 1..Len(stack)
        /\ 1..(Len(stack) - 1) \subseteq 1..Len(stack) /\ Len(below) <= Len(stack) - 1
        /\ 1..(ToPop - 1) \subseteq 1..ToPop /\ ToPop \in 1..ToPop
        /\ \A k \in 1..(ToPop - 1) : Len(below) + k \in 1..(Len(stack) - 1)
        /\ \A k \in 1..Len(below) : k \in 1..(Len(stack) - 1)
    BY <1>1, <2>2
  <2>5. v.kind \in {"boolean", "number", "string"}
    BY <1>3, <2>2, <2>4, ScalarFacts
  <2>6. /\ IsSequence(stack') /\ Len(stack') = Len(stack) - 1
        /\ \A k \in 1..(Len(stack) - 1) : stack'[k] = stack[k]
    BY <2>1, <2>2, <2>4, PrefixFacts
  <2> HIDE DEF v
  <2>7. /\ IsSequence(popped') /\ Len(popped') = Len(popped) + 1 /\ popped'[Len(popped) + 1] = v
        /\ \A k \in 1..Len(popped) : popped'[k] = popped[k]
    BY <2>1, <2>2, AppendFacts
  <2>8. DOMAIN stack' = 1..(Len(stack) - 1) /\ DOMAIN popped' = 1..(Len(popped) + 1)
        /\ DOMAIN popped = 1..Len(popped)
    BY <2>2, <2>6, <2>7, SequenceIsSeq
  <2>9. \A j \in 1..(Len(popped) + 1) : j \in 1..Len(popped) \/ j = Len(popped) + 1
    BY <2>2
  <2>10. TypeOK'
    <3>1. \A k \in DOMAIN stack' : stack'[k].kind \in Kinds
      BY <2>2, <2>4, <2>6, <2>8, Zenon
    <3>2. \A k \in DOMAIN popped : popped[k].kind \in {"boolean", "number", "string"}
      BY DEF StackIsInOrder, TypeOK
    <3>3. \A k \in DOMAIN popped' : popped'[k].kind \in {"boolean", "number", "string"}
      BY <2>5, <2>7, <2>8, <2>9, <3>2, Zenon
    <3>4. QED
      BY <1>1, <2>1, <3>1, <3>3 DEF StackIsInOrder, TypeOK
  <2>11. Shapes'
    <3>1. \A k \in DOMAIN stack' : stack'[k].kind = "number" => stack'[k].val \in Int
      BY <2>2, <2>4, <2>6, <2>8, Zenon
    <3>2. QED
      BY <1>1, <2>1, <2>2, <2>6, <2>7, <3>1 DEF StackIsInOrder, Shapes
  <2>12. FrameIsKept'
    BY <1>1, <2>1, <2>2, <2>4, <2>6 DEF FrameIsKept
  <2>13. PopsInOrder'
    <3>1. TypesToPop' = TypesToPop /\ request' = request /\ below' = below /\ returned' = returned
      BY <1>1, <2>1 DEF TypesToPop
    <3>2. Len(TypesToPop') - Len(popped') = ToPop - 1
      BY <2>2, <2>7, <3>1
    <3>3. Len(stack') = Len(below') + (ToPop - 1)
      BY <2>4, <2>6, <3>1
    <3>4. ASSUME request.op = "call"
          PROVE  /\ \A k \in 1..(ToPop - 1) : stack'[Len(below') + k] = returned'[k]
                 /\ \A j \in 1..Len(popped') :
                      /\ popped'[j] = TopScalar(TypesToPop'[j], returned'[Len(TypesToPop') + 1 - j])
                      /\ popped'[j] # NoValue
      <4>1. \A k \in 1..(ToPop - 1) : stack'[Len(below') + k] = returned'[k]
        BY <2>3, <2>4, <2>6, <3>1, <3>4, Zenon
      <4>2. Len(TypesToPop) + 1 - (Len(popped) + 1) = ToPop
        BY <2>2
      <4>3. top = returned[ToPop]
        BY <2>2, <2>3, <2>4, <3>4
      <4>4. v = TopScalar(TypesToPop[Len(popped) + 1], returned[Len(TypesToPop) + 1 - (Len(popped) + 1)])
        BY <4>2, <4>3 DEF v
      <4>5. ASSUME NEW j \in 1..Len(popped')
            PROVE  /\ popped'[j] = TopScalar(TypesToPop[j], returned[Len(TypesToPop) + 1 - j])
                   /\ popped'[j] # NoValue
        <5>1. CASE j \in 1..Len(popped)
          BY <2>3, <2>7, <3>4, <5>1, Zenon
        <5>2. CASE j = Len(popped) + 1
          BY <1>3, <2>7, <4>4, <5>2, Zenon
        <5>3. QED
          BY <2>7, <2>9, <5>1, <5>2
      <4>6. QED
        BY <3>1, <4>1, <4>5, Zenon
    <3>5. request.op = "call" => Len(returned') = Len(TypesToPop')
      BY <2>3, <3>1
    <3>6. QED
      BY <2>2, <2>4, <3>1, <3>2, <3>3, <3>4, <3>5, Zenon DEF PopsInOrder
  <2>14. PushesInOrder' /\ Replied' /\ StackIsRestored' /\ SetIsRead' /\ ResultIsReturned'
    BY <1>1, <2>1 DEF PushesInOrder, Replied, StackIsRestored, SetIsRead, ResultIsReturned,
                      CallHasReturned
  <2>15. FoundAsLoaded'
    BY <1>1, <2>1, <2>2, RequestFacts DEF StackIsInOrder, FoundAsLoaded
  <2>16. QED
    BY <2>10, <2>11, <2>12, <2>13, <2>14, <2>15 DEF StackIsInOrder
<1>4. QED
  BY <1>2, <1>3

LEMMA PopDoneKeeps ==
  ASSUME StackIsInOrder, PopDone
  PROVE  StackIsInOrder'
<1>1. /\ pc = "popping" /\ Len(popped) = Len(TypesToPop) /\ pc' = "idle" /\ request' = request
      /\ failed' = (failed \/ FALSE)
      /\ reply' = [op |-> request.op, outcome |-> "ok", value |-> Assemble(popped)]
      /\ UNCHANGED <<globals, stack, todo, popped, returned, below>>
  BY DEF PopDone, Finish, Reply
<1>2. /\ request \in Requests /\ request.op \in {"call", "get"}
      /\ Len(TypesToPop) \in Nat /\ IsSequence(popped) /\ Len(popped) \in Nat /\ IsSequence(returned)
      /\ IsSequence(stack) /\ Len(stack) \in Nat /\ Len(below) \in Nat
      /\ ToPop \in Nat /\ Len(TypesToPop) = Len(popped) + ToPop
      /\ Len(stack) = Len(below) + ToPop
  BY <1>1, PoppingFacts, Zenon
<1>3. ToPop = 0 /\ Len(stack) = Len(below) /\ TypesToPop' = TypesToPop
  BY <1>1, <1>2 DEF TypesToPop
<1>4. failed \in BOOLEAN
  BY DEF StackIsInOrder, TypeOK
<1>5. TypeOK'
  BY <1>1 DEF StackIsInOrder, TypeOK, Outcomes
<1>6. Shapes'
  BY <1>1, <1>2 DEF StackIsInOrder, Shapes
<1>7. FrameIsKept'
  BY <1>1 DEF StackIsInOrder, FrameIsKept
<1>8. PushesInOrder' /\ PopsInOrder'
  BY <1>1, NothingUnderWay
<1>9. FoundAsLoaded'
  BY <1>1, <1>2, <1>4 DEF StackIsInOrder, FoundAsLoaded
<1>10. Replied'
  BY <1>1 DEF Replied
<1>11. StackIsRestored'
  <2>1. Len(stack') - Len(below') <= 0
    BY <1>1, <1>2, <1>3
  <2>2. QED
    BY <1>1, <2>1 DEF StackIsRestored
<1>12. SetIsRead'
  BY <1>1, <1>2 DEF SetIsRead
<1>13. ASSUME request.op = "call", \A i, j \in DOMAIN request.ret : request.ret[i] = request.ret[j]
       PROVE  AsReturned'
  <2>0. PICK n \in Nat : n = Len(popped)
    BY <1>2
  <2>1. /\ TypesToPop = request.ret /\ Len(request.ret) = n /\ Len(returned) = n
        /\ \A j \in 1..n : /\ popped[j] = TopScalar(request.ret[j], returned[n + 1 - j])
                           /\ popped[j] # NoValue
    BY <1>1, <1>13, <2>0, PoppingFacts, Zenon
  <2>2. IsSequence(request.ret) /\ DOMAIN request.ret = 1..n /\ DOMAIN returned = 1..n
        /\ DOMAIN popped = 1..n
    BY <1>1, <1>2, <1>13, <2>0, <2>1, RequestFacts, SequenceIsSeq
  <2>3. \A i \in 1..n : n + 1 - i \in 1..n /\ n + 1 - i \in 0..n /\ n + 1 - (n + 1 - i) = i
    OBVIOUS
  <2>4. \A i \in 1..n : returned[i].kind = "number" => returned[i].val \in Int
    BY <2>2 DEF StackIsInOrder, Shapes
  <2>5. Assemble(popped) = [i \in 1..n |-> Through(request.ret, popped[n + 1 - i])[n + 1 - i]]
    BY <2>0, <2>1, <2>2 DEF Assemble
  <2>6. ASSUME NEW i \in 1..n
        PROVE  /\ Assemble(popped)[i] = TopScalar(request.ret[i], returned[i])
               /\ TopScalar(request.ret[i], returned[i]) # NoValue
    <3>1. PICK j \in 1..n : j = n + 1 - i /\ j \in 0..n /\ n + 1 - j = i
      BY <2>3
    <3>2. PICK T : T = request.ret[i]
      OBVIOUS
    <3>3. \A k \in 1..n : request.ret[k] = T
      BY <1>13, <2>2, <3>2
    <3>4. popped[j] = TopScalar(T, returned[i]) /\ popped[j] # NoValue
      BY <2>1, <3>1, <3>3
    <3>5. Cast(T, popped[j]) = popped[j]
      BY <2>4, <3>4, ScalarFacts
    <3>6. Through(request.ret, popped[j])[j] = popped[j]
      BY <2>1, <3>1, <3>3, <3>5, ThroughOneType
    <3>7. Assemble(popped)[i] = Through(request.ret, popped[j])[j]
      BY <2>5, <3>1
    <3>8. QED
      BY <3>2, <3>4, <3>6, <3>7
  <2>7. ASSUME NEW i \in 1..n
        PROVE  /\ HasType(request.ret[i], returned[i])
               /\ Assemble(popped)[i].kind = returned[i].kind
               /\ (request.ret[i] = "int" => FitsInt(returned[i].val))
                    => Assemble(popped)[i].val = returned[i].val
    BY <2>4, <2>6, ExactScalar
  <2>8. DOMAIN Assemble(popped) = 1..n
    BY <2>5
  <2>9. reply'.outcome = "ok" /\ reply'.value = Assemble(popped)
    BY <1>1
  <2>10. UNCHANGED <<request, returned>>
    BY <1>1
  <2>11. QED
    BY <2>2, <2>7, <2>8, <2>9, <2>10 DEF AsReturned
<1>14. ResultIsReturned'
  BY <1>1, <1>13 DEF ResultIsReturned, CallHasReturned
<1>15. QED
  BY <1>5, <1>6, <1>7, <1>8, <1>9, <1>10, <1>11, <1>12, <1>14 DEF StackIsInOrder


-----------------------------------------------------------------------------
(* The theorems *)

LEMMA InitIsInductive == Init => StackIsInOrder
<1> SUFFICES ASSUME Init PROVE StackIsInOrder
  OBVIOUS
<1>1. /\ pc = "unloaded" /\ request = [op |-> "none"] /\ globals = [n \in Names |-> Nil]
      /\ stack = <<>> /\ todo = <<>> /\ popped = <<>> /\ returned = <<>>
      /\ below = <<>> /\ failed = FALSE /\ reply = NoReply
  BY DEF Init
<1>2. DOMAIN <<>> = {} /\ IsSequence(<<>>)
  BY EmptyIsSequence
<1>3. Nil.kind \in Kinds /\ Nil.kind # "number" /\ NoReply.outcome \in Outcomes
  BY DEF Nil, Kinds, NoReply, Outcomes
<1>4. TypeOK
  BY <1>1, <1>2, <1>3 DEF TypeOK
<1>5. Shapes
  BY <1>1, <1>2, <1>3 DEF Shapes
<1>6. QED
  BY <1>1, <1>4, <1>5 DEF StackIsInOrder, FrameIsKept, PushesInOrder, PopsInOrder, FoundAsLoaded,
       Replied, StackIsRestored, SetIsRead, ResultIsReturned, CallHasReturned

LEMMA StepsKeepIt == StackIsInOrder /\ [Next]_vars => StackIsInOrder'
<1> SUFFICES ASSUME StackIsInOrder, [Next]_vars PROVE StackIsInOrder'
  OBVIOUS
<1>1. CASE UNCHANGED vars
  <2>1. UNCHANGED <<pc, request, globals, stack, todo, popped, returned, below, failed, reply>>
    BY <1>1 DEF vars
  <2>2. TypeOK'
    BY <2>1 DEF StackIsInOrder, TypeOK
  <2>3. Shapes'
    BY <2>1 DEF StackIsInOrder, Shapes
  <2>4. FrameIsKept' /\ FoundAsLoaded' /\ Replied'
    BY <2>1 DEF StackIsInOrder, FrameIsKept, FoundAsLoaded, Replied
  <2>5. PushesInOrder'
    BY <2>1, Zenon DEF StackIsInOrder, PushesInOrder, ArgumentsAreUnderWay, Base
  <2>6. PopsInOrder'
    BY <2>1, Zenon DEF StackIsInOrder, PopsInOrder, TypesToPop
  <2>7. StackIsRestored'
    BY <2>1, Zenon DEF StackIsInOrder, StackIsRestored, TypesToPop
  <2>8. SetIsRead'
    BY <2>1 DEF StackIsInOrder, SetIsRead
  <2>9. ResultIsReturned'
    BY <2>1, Zenon DEF StackIsInOrder, ResultIsReturned, CallHasReturned, AsReturned
  <2>10. QED
    BY <2>2, <2>3, <2>4, <2>5, <2>6, <2>7, <2>8, <2>9 DEF StackIsInOrder
<1>2. CASE Load
  BY <1>2, LoadKeeps
<1>3. CASE LoadFails
  BY <1>3, LoadFailsKeeps
<1>4. CASE \E r \in Requests : Lookup(r) \/ Set(r)
  BY <1>4, LookupKeeps, SetKeeps
<1>5. CASE PushNext
  BY <1>5, PushNextKeeps
<1>6. CASE EndTable
  BY <1>6, EndTableKeeps
<1>7. CASE MarkGlobal
  BY <1>7, MarkGlobalKeeps
<1>8. CASE PcallReturns
  BY <1>8, PcallReturnsKeeps
<1>9. CASE PcallFails
  BY <1>9, PcallFailsKeeps
<1>10. CASE PopNext
  BY <1>10, PopNextKeeps
<1>11. CASE PopDone
  BY <1>11, PopDoneKeeps
<1>12. QED
  BY <1>1, <1>2, <1>3, <1>4, <1>5, <1>6, <1>7, <1>8, <1>9, <1>10, <1>11 DEF Next

\* Whatever is on the stack, its slots, the arguments in between and the
\* results are where the operations of lua_state.h expect them.
LEMMA StackStaysInOrder == Spec => []StackIsInOrder
<1>1. Init => StackIsInOrder
  BY InitIsInductive
<1>2. StackIsInOrder /\ [Next]_vars => StackIsInOrder'
  BY StepsKeepIt
<1>3. QED
  BY <1>1, <1>2, PTL DEF Spec

\* The variables have the values that TypeOK lists.
THEOREM TypeCorrect == Spec => []TypeOK
<1>1. StackIsInOrder => TypeOK
  BY DEF StackIsInOrder
<1>2. QED
  BY <1>1, StackStaysInOrder, PTL

\* No operation takes anything off the stack that it has not put there, with
\* any script and any number of slots (lua_state.h topFunction, pop).
THEOREM FrameStaysIntact == Spec => []FrameIntact
<1>1. ASSUME StackIsInOrder PROVE FrameIntact
  <2>1. SUFFICES ASSUME pc \in {"idle", "pushing", "popping"}
                 PROVE  Len(below) <= Len(stack) /\ SubSeq(stack, 1, Len(below)) = below
    BY DEF FrameIntact
  <2>2. Len(below) <= Len(stack) /\ \A i \in 1..Len(below) : stack[i] = below[i]
    BY <1>1, <2>1 DEF StackIsInOrder, FrameIsKept
  <2>3. IsSequence(stack) /\ IsSequence(below)
    BY <1>1 DEF StackIsInOrder, Shapes
  <2>4. Len(below) \in 0..Len(stack)
    BY <2>2, <2>3 DEF IsSequence
  <2>5. /\ IsSequence(SubSeq(stack, 1, Len(below))) /\ Len(SubSeq(stack, 1, Len(below))) = Len(below)
        /\ \A i \in 1..Len(below) : SubSeq(stack, 1, Len(below))[i] = stack[i]
    BY <2>3, <2>4, PrefixFacts
  <2>6. SubSeq(stack, 1, Len(below)) = below
    BY <2>2, <2>3, <2>5, SameSequence
  <2>7. QED
    BY <2>2, <2>6
<1>2. QED
  BY <1>1, StackStaysInOrder, PTL

\* An operation that succeeds leaves the stack as it was, one that fails
\* leaves no more than what it reports (topFunction, lines 290-314).
THEOREM StackIsLeftAsFound == Spec => []StackIsRestored
<1>1. StackIsInOrder => StackIsRestored
  BY DEF StackIsInOrder
<1>2. QED
  BY <1>1, StackStaysInOrder, PTL

\* A global that was set is the value that was given, tables included, and
\* the assert of endTable never fails (lua_state.cpp lines 166-184).
THEOREM SetValuesAreRead == Spec => []SetIsRead
<1>1. StackIsInOrder => SetIsRead
  BY DEF StackIsInOrder
<1>2. QED
  BY <1>1, StackStaysInOrder, PTL

\* A call of one result, or of several of one type, returns what the function
\* returned, in its order, and fails just when a type is wrong.
THEOREM ResultsAreReturned == Spec => []ResultIsReturned
<1>1. StackIsInOrder => ResultIsReturned
  BY DEF StackIsInOrder
<1>2. QED
  BY <1>1, StackStaysInOrder, PTL


-----------------------------------------------------------------------------
(* How many slots a request needs *)

IsCount(g, n, start, step) ==
  g = [i \in 0..n |->
         IF i = 0 THEN start
         ELSE IF step[i].push = "end" THEN g[i - 1] - 2 * step[i].arg ELSE g[i - 1] + 1]

\* The recursion that counts the slots has a solution.
LEMMA CountExists ==
  ASSUME NEW n \in Nat, NEW start, NEW step
  PROVE  \E g : IsCount(g, n, start, step)
<1> DEFINE After(h, i) == IF step[i].push = "end" THEN h - 2 * step[i].arg ELSE h + 1
           Solution(g, k) == g = [i \in 0..k |-> IF i = 0 THEN start ELSE After(g[i - 1], i)]
           T == {k \in Nat : ~\E g : Solution(g, k)}
<1> HIDE DEF After
<1>1. ASSUME T # {} PROVE FALSE
  <2>1. PICK k \in T : \A m \in T : k <= m
    BY <1>1, LeastNumber
  <2>2. Solution([i \in 0..0 |-> start], 0)
    OBVIOUS
  <2>3. k # 0 /\ k \in Nat
    BY <2>1, <2>2
  <2>4. PICK g : Solution(g, k - 1)
    <3>1. k - 1 \in Nat /\ ~(k <= k - 1)
      BY <2>3
    <3>2. k - 1 \notin T
      BY <2>1, <3>1
    <3>3. QED
      BY <3>1, <3>2
  <2> DEFINE h == [i \in 0..k |-> IF i = 0 THEN start ELSE After(g[i - 1], i)]
  <2>5. ASSUME NEW i \in 0..k PROVE h[i] = IF i = 0 THEN start ELSE After(h[i - 1], i)
    <3>1. CASE i = 0
      BY <3>1
    <3>2. CASE i # 0
      <4>1. i - 1 \in 0..(k - 1) /\ i - 1 \in 0..k
        BY <2>3, <3>2
      <4>2. h[i - 1] = IF i - 1 = 0 THEN start ELSE After(g[i - 1 - 1], i - 1)
        BY <4>1
      <4>3. g[i - 1] = IF i - 1 = 0 THEN start ELSE After(g[i - 1 - 1], i - 1)
        BY <2>4, <4>1
      <4>4. h[i - 1] = g[i - 1]
        BY <4>2, <4>3
      <4>5. h[i] = After(g[i - 1], i)
        BY <3>2
      <4>6. QED
        BY <3>2, <4>4, <4>5
    <3>3. QED
      BY <3>1, <3>2
  <2>6. Solution(h, k)
    BY <2>5
  <2>7. QED
    BY <2>1, <2>6
<1>2. PICK g : Solution(g, n)
  BY <1>1
<1>3. QED
  BY <1>2 DEF After, IsCount

\* What Heights computes.
LEMMA HeightsFacts ==
  ASSUME NEW r, Len(ToPush(r)) \in Nat
  PROVE  /\ Heights(r)[0] = IF r.op = "set" THEN 0 ELSE 1
         /\ \A m \in 1..Len(ToPush(r)) :
              Heights(r)[m] = IF ToPush(r)[m].push = "end"
                                THEN Heights(r)[m - 1] - 2 * ToPush(r)[m].arg
                                ELSE Heights(r)[m - 1] + 1
<1> DEFINE steps == ToPush(r)
           n == Len(steps)
           Solution(g) ==
             g = [m \in 0..n |->
                    IF m = 0 THEN (IF r.op = "set" THEN 0 ELSE 1)
                    ELSE IF steps[m].push = "end" THEN g[m - 1] - 2 * steps[m].arg
                    ELSE g[m - 1] + 1]
<1>1. \E g : Solution(g)
  <2> DEFINE start == IF r.op = "set" THEN 0 ELSE 1
  <2> HIDE DEF steps, start
  <2>1. n \in Nat
    BY DEF steps
  <2> HIDE DEF n
  <2>2. PICK g : IsCount(g, n, start, steps)
    BY <2>1, CountExists, Zenon
  <2>3. Solution(g)
    BY <2>2, Zenon DEF start, IsCount
  <2>4. QED
    BY <2>3, Zenon
<1>2. Heights(r) = CHOOSE g : Solution(g)
  BY DEF Heights
<1>3. Solution(Heights(r))
  BY <1>1, <1>2
<1>4. ASSUME NEW g, Solution(g)
      PROVE  /\ g[0] = IF r.op = "set" THEN 0 ELSE 1
             /\ \A m \in 1..n : g[m] = IF steps[m].push = "end"
                                         THEN g[m - 1] - 2 * steps[m].arg ELSE g[m - 1] + 1
  <2>1. \A m \in 0..n : g[m] =
          IF m = 0 THEN (IF r.op = "set" THEN 0 ELSE 1)
          ELSE IF steps[m].push = "end" THEN g[m - 1] - 2 * steps[m].arg
          ELSE g[m - 1] + 1
    BY <1>4
  <2>2. 0 \in 0..n /\ \A m \in 1..n : m \in 0..n /\ m # 0
    OBVIOUS
  <2> HIDE DEF n, steps, Solution
  <2>3. QED
    BY <2>1, <2>2
<1> HIDE DEF Solution
<1>5. QED
  BY <1>3, <1>4

\* What is pushed for a request.
LEMMA ToPushFacts ==
  ASSUME NEW r \in Requests
  PROVE  /\ r.op \in {"call", "set"} => ToPush(r) = PushAll(ArgsOf(r))
         /\ Len(ToPush(r)) \in Nat /\ \A m \in 1..Len(ToPush(r)) : IsStep(ToPush(r)[m])
<1>1. CASE r.op \in {"call", "set"}
  <2>1. ToPush(r) = PushAll(ArgsOf(r)) /\ GoodArguments(ArgsOf(r))
    BY <1>1, RequestFacts DEF ToPush
  <2>2. IsSequence(ToPush(r)) /\ \A m \in 1..Len(ToPush(r)) : IsStep(ToPush(r)[m])
    BY <2>1, PushAllFacts
  <2>3. QED
    BY <2>1, <2>2 DEF IsSequence
<1>2. CASE r.op \notin {"call", "set"}
  <2>1. ToPush(r) = <<>>
    BY <1>2 DEF ToPush
  <2>2. QED
    BY <1>2, <2>1, EmptyIsSequence
<1>3. QED
  BY <1>1, <1>2

LEMMA HeightsAreNumbers ==
  ASSUME NEW r \in Requests, NEW m \in 0..Len(ToPush(r))
  PROVE  Heights(r)[m] \in Int
<1> DEFINE n == Len(ToPush(r))
           H == Heights(r)
           T == {k \in 0..n : H[k] \notin Int}
<1>1. /\ H[0] = IF r.op = "set" THEN 0 ELSE 1
      /\ \A k \in 1..n : H[k] = IF ToPush(r)[k].push = "end"
                                  THEN H[k - 1] - 2 * ToPush(r)[k].arg ELSE H[k - 1] + 1
  BY ToPushFacts, HeightsFacts
<1>2. n \in Nat /\ \A k \in 1..n : IsStep(ToPush(r)[k])
  BY ToPushFacts
<1> HIDE DEF n, H
<1>3. ASSUME T # {} PROVE FALSE
  <2>1. PICK k \in T : \A l \in T : k <= l
    <3>1. T \subseteq Nat
      BY <1>2
    <3> HIDE DEF T
    <3>2. QED
      BY <1>3, <3>1, LeastNumber
  <2>2. k \in 0..n /\ k # 0 /\ H[k] \notin Int
    BY <1>1, <2>1
  <2>3. k \in 1..n /\ k - 1 \in 0..n /\ ~(k <= k - 1)
    BY <1>2, <2>2
  <2>4. H[k - 1] \in Int
    BY <2>1, <2>3
  <2>5. ToPush(r)[k].push = "end" => ToPush(r)[k].arg \in Nat
    BY <1>2, <2>3 DEF IsStep
  <2>6. H[k] \in Int
    BY <1>1, <2>3, <2>4, <2>5
  <2>7. QED
    BY <2>2, <2>6
<1>4. QED
  BY <1>3 DEF n, H

\* Finitely many numbers have a greatest one.
LEMMA GreatestOfSome ==
  ASSUME NEW n \in Nat, NEW h, \A i \in 0..n : h[i] \in Int
  PROVE  \E i \in 0..n : \A j \in 0..n : h[i] >= h[j]
<1> DEFINE Good(k) == \E i \in 0..k : \A j \in 0..k : h[i] >= h[j]
           T == {k \in 0..n : ~Good(k)}
<1>1. Good(0)
  <2>1. 0 \in 0..0 /\ (\A j \in 0..0 : j = 0) /\ h[0] \in Int
    OBVIOUS
  <2>2. h[0] >= h[0]
    BY <2>1
  <2>3. QED
    BY <2>1, <2>2
<1>2. ASSUME NEW k \in 1..n, Good(k - 1) PROVE Good(k)
  <2>1. PICK i \in 0..(k - 1) : \A j \in 0..(k - 1) : h[i] >= h[j]
    BY <1>2
  <2>2. /\ i \in 0..k /\ k \in 0..k /\ h[i] \in Int /\ h[k] \in Int
        /\ \A j \in 0..k : j = k \/ j \in 0..(k - 1)
        /\ \A j \in 0..k : h[j] \in Int
    OBVIOUS
  <2>3. CASE h[i] >= h[k]
    BY <2>1, <2>2, <2>3
  <2>4. CASE ~(h[i] >= h[k])
    <3>1. \A j \in 0..k : h[k] >= h[j]
      BY <2>1, <2>2, <2>4
    <3>2. QED
      BY <2>2, <3>1
  <2>5. QED
    BY <2>3, <2>4
<1> HIDE DEF Good
<1>3. ASSUME T # {} PROVE FALSE
  <2>1. PICK k \in T : \A l \in T : k <= l
    <3>1. T \subseteq Nat
      OBVIOUS
    <3> HIDE DEF T
    <3>2. QED
      BY <1>3, <3>1, LeastNumber
  <2>2. k \in 0..n /\ k # 0
    BY <1>1, <2>1
  <2>3. k \in 1..n /\ k - 1 \in 0..n /\ ~(k <= k - 1)
    BY <2>2
  <2>4. Good(k - 1)
    BY <2>1, <2>3
  <2>5. QED
    BY <1>2, <2>1, <2>3, <2>4
<1>4. n \notin T /\ n \in 0..n
  BY <1>3
<1>5. QED
  BY <1>4 DEF Good

\* A request needs as many slots as it ever uses.
LEMMA NeedFacts ==
  ASSUME NEW r \in Requests
  PROVE  /\ Need(r) \in Int
         /\ \A m \in 0..Len(ToPush(r)) : Need(r) >= Heights(r)[m]
         /\ r.op = "call" => Need(r) >= Len(r.ret)
<1> DEFINE n == Len(ToPush(r))
           H == Heights(r)
           results == IF r.op = "call" THEN {Len(r.ret)} ELSE {}
           S == {H[m] : m \in 0..n} \cup results
<1>1. n \in Nat /\ \A m \in 0..n : H[m] \in Int
  BY ToPushFacts, HeightsAreNumbers
<1>2. r.op = "call" => Len(r.ret) \in Int
  BY RequestFacts DEF IsSequence
<1>3. Need(r) = CHOOSE x \in S : \A y \in S : x >= y
  BY DEF Need, Max
<1> HIDE DEF n, H
<1>4. \E x \in S : \A y \in S : x >= y
  <2>1. PICK m \in 0..n : \A j \in 0..n : H[m] >= H[j]
    BY <1>1, GreatestOfSome
  <2>2. H[m] \in S /\ H[m] \in Int
    BY <1>1
  <2>3. CASE r.op = "call" /\ ~(H[m] >= Len(r.ret))
    <3>1. Len(r.ret) \in S
      BY <2>3
    <3>2. \A y \in S : Len(r.ret) >= y
      BY <1>1, <1>2, <2>1, <2>2, <2>3
    <3>3. QED
      BY <3>1, <3>2
  <2>4. CASE ~(r.op = "call" /\ ~(H[m] >= Len(r.ret)))
    <3>1. \A y \in S : H[m] >= y
      BY <1>1, <1>2, <2>1, <2>2, <2>4
    <3>2. QED
      BY <2>2, <3>1
  <2>5. QED
    BY <2>3, <2>4
<1>5. \A y \in S : y \in Int
  BY <1>1, <1>2
<1>6. (\A m \in 0..n : H[m] \in S) /\ (r.op = "call" => Len(r.ret) \in S)
  OBVIOUS
<1> HIDE DEF S
<1>7. Need(r) \in S /\ \A y \in S : Need(r) >= y
  BY <1>3, <1>4
<1>8. QED
  BY <1>5, <1>6, <1>7 DEF n, H


\* The steps done so far, as SlotsAreCounted counts them.
LEMMA CountedFacts ==
  ASSUME StackIsInOrder, SlotsAreCounted, pc = "pushing", todo # <<>>, todo' = Tail(todo)
  PROVE  LET m == Pushed
             all == ToPush(request)
         IN /\ request \in Requests /\ Len(stack) \in Nat /\ Len(below) \in Nat
            /\ Head(todo) = all[m + 1] /\ m + 1 \in 1..Len(all)
            /\ Len(all) - Len(todo') = m + 1
            /\ Heights(request)[m] \in Int /\ Len(stack) = Len(below) + Heights(request)[m]
            /\ Heights(request)[m + 1] = IF Head(todo).push = "end"
                                           THEN Heights(request)[m] - 2 * Head(todo).arg
                                           ELSE Heights(request)[m] + 1
<1> DEFINE m == Pushed
           all == ToPush(request)
           H == Heights(request)
<1>1. /\ request \in Requests /\ request.op \in {"call", "set"}
      /\ Len(stack) \in Nat /\ Len(below) \in Nat
  BY Underway, Zenon
<1>2. all = PushAll(ArgsOf(request)) /\ Len(all) \in Nat
  BY <1>1, ToPushFacts
<1>3. /\ m \in Nat /\ m < Len(all) /\ Head(todo) = all[m + 1] /\ IsSequence(todo')
      /\ Len(all) = m + 1 + Len(todo')
  BY <1>2, PushingFacts, Zenon
<1>4. Len(todo') \in Nat
  BY <1>3 DEF IsSequence
<1> HIDE DEF all, H
<1>5. m + 1 \in 1..Len(all) /\ m \in 0..Len(all) /\ Len(all) - Len(todo') = m + 1 /\ m + 1 - 1 = m
  BY <1>2, <1>3, <1>4
<1>6. H[m] \in Int
  BY <1>1, <1>5, HeightsAreNumbers DEF all, H
<1>7. Len(stack) = Len(below) + H[m]
  <2>1. Len(all) - Len(todo) = m
    BY <1>2 DEF Pushed
  <2>2. QED
    BY <2>1 DEF SlotsAreCounted, all, H
<1>8. H[m + 1] = IF all[m + 1].push = "end" THEN H[m] - 2 * all[m + 1].arg ELSE H[m] + 1
  <2> DEFINE k == m + 1
  <2>1. k \in 1..Len(all) /\ k - 1 = m
    BY <1>5
  <2>2. \A l \in 1..Len(all) :
          H[l] = IF all[l].push = "end" THEN H[l - 1] - 2 * all[l].arg ELSE H[l - 1] + 1
    BY <1>2, HeightsFacts DEF all, H
  <2> HIDE DEF m, k
  <2>3. H[k] = IF all[k].push = "end" THEN H[k - 1] - 2 * all[k].arg ELSE H[k - 1] + 1
    BY <2>1, <2>2, Zenon
  <2>4. QED
    BY <2>1, <2>3, Zenon DEF k
<1>9. QED
  BY <1>1, <1>3, <1>5, <1>6, <1>7, <1>8 DEF all, H

LEMMA CountedByLookup ==
  ASSUME StackIsInOrder, NEW r \in Requests, Lookup(r)
  PROVE  SlotsAreCounted'
<1>1. r.op \in {"call", "get"} /\ Begin(r)
  BY DEF Lookup
<1>2. request' = r /\ below' = stack /\ IsSequence(stack) /\ Len(stack) \in Nat
  BY <1>1, BeginFacts, Zenon
<1>3. /\ Len(ToPush(r)) \in Nat /\ 0 \in 0..Len(ToPush(r))
      /\ r.op = "call" => ToPush(r) = PushAll(r.args)
  BY ToPushFacts, RequestFacts
<1>4. Heights(r)[0] = 1
  <2>1. r.op # "set"
    BY <1>1
  <2>2. QED
    BY <1>3, <2>1, HeightsFacts
<1>5. CASE Len(stack) >= Capacity
  <2>1. pc' = "undefined"
    BY <1>5 DEF Lookup
  <2>2. Need(r) \in Int /\ Need(r) >= 1
    BY <1>3, <1>4, NeedFacts
  <2>3. Len(below') + Need(request') > Capacity
    BY <1>2, <1>5, <2>2, RangeAssumption
  <2>4. QED
    BY <2>1, <2>3 DEF SlotsAreCounted
<1>6. CASE ~(Len(stack) >= Capacity)
  <2>1. pc' \in {"idle", "popping"}
        \/ /\ pc' = "pushing" /\ r.op = "call" /\ todo' = PushAll(r.args)
           /\ stack' = Append(stack, globals[r.name])
    BY <1>1, <1>6 DEF Lookup, Finish
  <2>2. ASSUME pc' = "pushing" PROVE SlotsAreCounted'
    <3>1. todo' = ToPush(r) /\ Len(stack') = Len(stack) + 1
      BY <1>2, <1>3, <2>1, <2>2, AppendFacts
    <3>2. Len(ToPush(request')) - Len(todo') = 0
      BY <1>2, <1>3, <3>1
    <3>3. QED
      BY <1>2, <1>4, <2>2, <3>1, <3>2 DEF SlotsAreCounted
  <2>3. QED
    BY <2>1, <2>2 DEF SlotsAreCounted
<1>7. QED
  BY <1>5, <1>6

LEMMA CountedBySet ==
  ASSUME StackIsInOrder, NEW r \in Requests, Set(r)
  PROVE  SlotsAreCounted'
<1>1. /\ r.op = "set" /\ Begin(r) /\ pc' = "pushing" /\ todo' = PushAll(<<r.arg>>)
      /\ stack' = stack
  BY DEF Set
<1>2. request' = r /\ below' = stack /\ Len(stack) \in Nat
  BY <1>1, BeginFacts, Zenon
<1>3. Len(ToPush(r)) \in Nat /\ todo' = ToPush(r)
  BY <1>1, ToPushFacts, RequestFacts
<1>4. Heights(r)[0] = 0
  BY <1>1, <1>3, HeightsFacts
<1>5. Len(ToPush(request')) - Len(todo') = 0
  BY <1>2, <1>3
<1>6. Len(stack') = Len(below') + 0
  BY <1>1, <1>2
<1>7. QED
  BY <1>1, <1>2, <1>4, <1>5, <1>6 DEF SlotsAreCounted

LEMMA CountedByPushNext ==
  ASSUME StackIsInOrder, SlotsAreCounted, PushNext
  PROVE  SlotsAreCounted'
<1> DEFINE m == Pushed
           H == Heights(request)
<1>1. /\ pc = "pushing" /\ todo # <<>> /\ Head(todo).push # "end" /\ todo' = Tail(todo)
      /\ request' = request /\ below' = below
  BY DEF PushNext
<1>2. /\ request \in Requests /\ Len(stack) \in Nat /\ Len(below) \in Nat
      /\ m + 1 \in 1..Len(ToPush(request)) /\ Len(ToPush(request)) - Len(todo') = m + 1
      /\ H[m] \in Int /\ Len(stack) = Len(below) + H[m] /\ H[m + 1] = H[m] + 1
  BY <1>1, CountedFacts
<1> HIDE DEF m, H
<1>3. Len(stack) + 1 = Len(below) + H[m + 1]
  BY <1>2
<1>4. CASE Len(stack) < Capacity
  <2>1. stack' = Append(stack, Head(todo).arg) /\ pc' = "pushing"
    BY <1>4 DEF PushNext, Push
  <2>2. IsSequence(stack)
    BY DEF StackIsInOrder, Shapes
  <2>3. Len(stack') = Len(stack) + 1
    BY <2>1, <2>2, AppendFacts
  <2>4. QED
    BY <1>1, <1>2, <1>3, <2>1, <2>3 DEF SlotsAreCounted, H
<1>5. CASE ~(Len(stack) < Capacity)
  <2>1. pc' = "undefined"
    BY <1>5 DEF PushNext, Push
  <2>2. m + 1 \in 0..Len(ToPush(request)) /\ Len(ToPush(request)) \in Nat
    BY <1>2, ToPushFacts
  <2>3. Need(request) \in Int /\ Need(request) >= H[m + 1]
    BY <1>2, <2>2, NeedFacts DEF H
  <2>4. Len(below) + Need(request) > Capacity
    BY <1>2, <1>5, <2>3, RangeAssumption
  <2>5. QED
    BY <1>1, <2>1, <2>4 DEF SlotsAreCounted
<1>6. QED
  BY <1>4, <1>5

LEMMA CountedByEndTable ==
  ASSUME StackIsInOrder, SlotsAreCounted, EndTable
  PROVE  SlotsAreCounted'
<1> DEFINE args == ArgsOf(request)
           m == Pushed
           H == Heights(request)
           n == Head(todo).arg
<1>1. /\ pc = "pushing" /\ todo # <<>> /\ Head(todo).push = "end" /\ todo' = Tail(todo)
      /\ request' = request /\ below' = below
  BY DEF EndTable
<1>2. /\ request \in Requests /\ Len(stack) \in Nat /\ Len(below) \in Nat
      /\ m + 1 \in 1..Len(ToPush(request)) /\ Len(ToPush(request)) - Len(todo') = m + 1
      /\ H[m] \in Int /\ Len(stack) = Len(below) + H[m] /\ H[m + 1] = H[m] - 2 * n
  BY <1>1, CountedFacts
<1>3. /\ GoodArguments(args) /\ Base \in Nat /\ IsSequence(stack)
      /\ Pushed \in Nat /\ Pushed < Len(PushAll(args)) /\ Head(todo) = PushAll(args)[Pushed + 1]
  BY <1>1, Underway, PushingFacts, Zenon
<1>4. PICK i, extra : At(stack, Base, args, Pushed, i, extra)
  BY <1>1, Underway, Zenon
<1>5. TableIsComplete(stack, Base, args, Pushed, i)
  <2>1. PushAll(args)[Pushed + 1].push = "end"
    BY <1>1, <1>3
  <2> HIDE DEF args
  <2>2. QED
    BY <1>3, <1>4, <2>1, EndOneTable, Zenon
<1>6. n \in Nat /\ pc' = "pushing" /\ Len(stack') = Len(stack) - 2 * n
  BY <1>3, <1>5 DEF TableIsComplete, EndTable
<1> HIDE DEF m, H, n
<1>7. Len(stack') = Len(below) + H[m + 1]
  BY <1>2, <1>6
<1>8. QED
  BY <1>1, <1>2, <1>6, <1>7 DEF SlotsAreCounted, H

LEMMA CountedByPcall ==
  ASSUME StackIsInOrder, PcallReturns
  PROVE  SlotsAreCounted'
<1>1. /\ pc = "pushing" /\ todo = <<>> /\ request.op = "call"
      /\ request' = request /\ below' = below
  BY DEF PcallReturns
<1>2. /\ request \in Requests /\ Len(request.ret) \in Nat
      /\ Len(UnderFunction) = Len(below) /\ Len(below) \in Nat
  BY <1>1, UnderFunctionFacts, Zenon
<1>3. PICK results \in [1..Len(request.ret) -> Returns] :
        IF Len(UnderFunction) + Len(results) <= Capacity THEN pc' = "popping" ELSE pc' = "undefined"
  BY DEF PcallReturns
<1>4. Len(results) = Len(request.ret)
  <2>1. results = [k \in 1..Len(request.ret) |-> results[k]]
    OBVIOUS
  <2>2. QED
    BY <1>2, <2>1, FunctionIsSequence, Zenon
<1>5. CASE Len(below) + Len(request.ret) <= Capacity
  BY <1>2, <1>3, <1>4, <1>5 DEF SlotsAreCounted
<1>6. CASE ~(Len(below) + Len(request.ret) <= Capacity)
  <2>1. pc' = "undefined"
    BY <1>2, <1>3, <1>4, <1>6
  <2>2. Need(request) \in Int /\ Need(request) >= Len(request.ret)
    BY <1>1, <1>2, NeedFacts
  <2>3. Len(below) + Need(request) > Capacity
    BY <1>2, <1>6, <2>2, RangeAssumption
  <2>4. QED
    BY <1>1, <2>1, <2>3 DEF SlotsAreCounted
<1>7. QED
  BY <1>5, <1>6

LEMMA SlotsStayCounted == StackIsInOrder /\ SlotsAreCounted /\ [Next]_vars => SlotsAreCounted'
<1> SUFFICES ASSUME StackIsInOrder, SlotsAreCounted, [Next]_vars PROVE SlotsAreCounted'
  OBVIOUS
<1>1. CASE UNCHANGED vars
  BY <1>1 DEF vars, SlotsAreCounted
<1>2. ASSUME pc' \notin {"pushing", "undefined"} PROVE SlotsAreCounted'
  BY <1>2 DEF SlotsAreCounted
<1>3. CASE Load \/ LoadFails
  BY <1>2, <1>3 DEF Load, LoadFails
<1>4. CASE \E r \in Requests : Lookup(r) \/ Set(r)
  BY <1>4, CountedByLookup, CountedBySet
<1>5. CASE PushNext
  BY <1>5, CountedByPushNext
<1>6. CASE EndTable
  BY <1>6, CountedByEndTable
<1>7. CASE PcallReturns
  BY <1>7, CountedByPcall
<1>8. CASE MarkGlobal \/ PcallFails
  BY <1>2, <1>8 DEF MarkGlobal, PcallFails, Finish
<1>9. CASE PopNext \/ PopDone
  <2>1. pc' \in {"idle", "popping"}
    BY <1>9 DEF PopNext, PopDone, Finish
  <2>2. QED
    BY <1>2, <2>1
<1>10. QED
  BY <1>1, <1>3, <1>4, <1>5, <1>6, <1>7, <1>8, <1>9 DEF Next

\* The slots that a request needs are those that the operations use; they run
\* out only when there are fewer.
LEMMA CountIsRight == Spec => []SlotsAreCounted
<1>1. Init => SlotsAreCounted
  BY DEF Init, SlotsAreCounted
<1>2. StackIsInOrder /\ SlotsAreCounted /\ [Next]_vars => SlotsAreCounted'
  BY SlotsStayCounted
<1>3. QED
  BY <1>1, <1>2, StackStaysInOrder, PTL DEF Spec

\* Where everything is on the stack, and how many slots that takes, in every
\* sequence of calls, reads and writes of any script.
THEOREM InductiveInvariant == Spec => []Inductive
BY StackStaysInOrder, CountIsRight, PTL DEF Inductive

\* As long as no operation has failed, each finds the stack that load left:
\* nothing leaks, so that a plugin that runs out of slots has failed before or
\* has asked for more than there ever were (nothing calls lua_checkstack).
THEOREM NothingLeaks == Spec => []OverflowNeedsFailure
<1>1. ASSUME StackIsInOrder, SlotsAreCounted PROVE OverflowNeedsFailure
  BY <1>1, IdleIsAsLoaded DEF OverflowNeedsFailure, SlotsAreCounted
<1>2. QED
  BY <1>1, StackStaysInOrder, CountIsRight, PTL

=============================================================================
