-------------------------- MODULE PythonCall_proofs --------------------------
(***************************************************************************)
(* Proofs about PythonCall, for any script, any values of the host, any    *)
(* types and any widths of int and long.                                   *)
(***************************************************************************)
EXTENDS PythonCall, SequenceFacts

-----------------------------------------------------------------------------
(* Containers are converted element after element: the conversions c[0] to *)
(* c[n] of the beginnings of a list or a dict                              *)

Elements(c, T, first, s, n) ==
  c = [i \in 0..n |-> IF i = 0 THEN first ELSE TakeElement(T, c[i - 1], s[i])]

\* The recursion of AsArray has a solution.
LEMMA ElementsExist ==
  ASSUME NEW T, NEW first, NEW s, NEW n \in Nat
  PROVE  \E c : Elements(c, T, first, s, n)
<1> DEFINE P == {k \in 0..n : \E c : Elements(c, T, first, s, k)}
<1>1. 0 \in P
  <2>1. Elements([i \in 0..0 |-> first], T, first, s, 0)
    BY DEF Elements
  <2>2. QED
    BY <2>1, 0 \in 0..n
<1>2. ASSUME NEW k \in 1..n, k - 1 \in P PROVE k \in P
  <2>1. PICK c : Elements(c, T, first, s, k - 1)
    BY <1>2
  <2> DEFINE h == [i \in 0..k |-> IF i = 0 THEN first ELSE TakeElement(T, c[i - 1], s[i])]
  <2>2. ASSUME NEW i \in 0..k, i # 0 PROVE h[i - 1] = c[i - 1]
    <3>1. i - 1 \in 0..(k - 1) /\ i - 1 \in 0..k
      BY <2>2
    <3>2. QED
      BY <2>1, <3>1 DEF Elements
  <2>3. Elements(h, T, first, s, k)
    BY <2>2 DEF Elements
  <2>4. QED
    BY <2>3
<1>3. QED
  <2> HIDE DEF P
  <2>1. n \in P
    BY <1>1, <1>2, UpTo
  <2>2. QED
    BY <2>1 DEF P

LEMMA ArrayIsTaken ==
  ASSUME NEW T, NEW v, NEW set, v.type = "list", Len(v.val) \in Nat
  PROVE  \E c : /\ c[0] = Converted(<<>>, set)
                /\ \A i \in 1..Len(v.val) : c[i] = TakeElement(T, c[i - 1], v.val[i])
                /\ AsArray(T, v, set) = c[Len(v.val)]
<1> DEFINE n == Len(v.val)
           first == Converted(<<>>, set)
           c == CHOOSE g : Elements(g, T, first, v.val, n)
<1>1. Elements(c, T, first, v.val, n)
  BY ElementsExist, Zenon
<1>2. AsArray(T, v, set) = c[n]
  BY Zenon DEF AsArray, Folded, Elements
<1> HIDE DEF c
<1>3. c[0] = first /\ \A i \in 1..n : c[i] = TakeElement(T, c[i - 1], v.val[i])
  <2>1. 0 \in 0..n /\ \A i \in 1..n : i \in 0..n /\ i # 0
    OBVIOUS
  <2>2. QED
    BY <1>1, <2>1 DEF Elements
<1>4. QED
  BY <1>2, <1>3, Zenon

Items(c, K, V, first, s, n) ==
  c = [i \in 0..n |-> IF i = 0 THEN first ELSE TakeItem(K, V, c[i - 1], s[i])]

\* The recursion of AsMap has a solution.
LEMMA ItemsExist ==
  ASSUME NEW K, NEW V, NEW first, NEW s, NEW n \in Nat
  PROVE  \E c : Items(c, K, V, first, s, n)
<1> DEFINE P == {k \in 0..n : \E c : Items(c, K, V, first, s, k)}
<1>1. 0 \in P
  <2>1. Items([i \in 0..0 |-> first], K, V, first, s, 0)
    BY DEF Items
  <2>2. QED
    BY <2>1, 0 \in 0..n
<1>2. ASSUME NEW k \in 1..n, k - 1 \in P PROVE k \in P
  <2>1. PICK c : Items(c, K, V, first, s, k - 1)
    BY <1>2
  <2> DEFINE h == [i \in 0..k |-> IF i = 0 THEN first ELSE TakeItem(K, V, c[i - 1], s[i])]
  <2>2. ASSUME NEW i \in 0..k, i # 0 PROVE h[i - 1] = c[i - 1]
    <3>1. i - 1 \in 0..(k - 1) /\ i - 1 \in 0..k
      BY <2>2
    <3>2. QED
      BY <2>1, <3>1 DEF Items
  <2>3. Items(h, K, V, first, s, k)
    BY <2>2 DEF Items
  <2>4. QED
    BY <2>3
<1>3. QED
  <2> HIDE DEF P
  <2>1. n \in P
    BY <1>1, <1>2, UpTo
  <2>2. QED
    BY <2>1 DEF P

LEMMA MapIsTaken ==
  ASSUME NEW K, NEW V, NEW v, NEW set, v.type = "dict", Len(v.val) \in Nat
  PROVE  \E c : /\ c[0] = Converted({}, set)
                /\ \A i \in 1..Len(v.val) : c[i] = TakeItem(K, V, c[i - 1], v.val[i])
                /\ AsMap(K, V, v, set) = c[Len(v.val)]
<1> DEFINE n == Len(v.val)
           first == Converted({}, set)
           c == CHOOSE g : Items(g, K, V, first, v.val, n)
<1>1. Items(c, K, V, first, v.val, n)
  BY ItemsExist, Zenon
<1>2. AsMap(K, V, v, set) = c[n]
  BY Zenon DEF AsMap, Folded, Items
<1> HIDE DEF c
<1>3. c[0] = first /\ \A i \in 1..n : c[i] = TakeItem(K, V, c[i - 1], v.val[i])
  <2>1. 0 \in 0..n /\ \A i \in 1..n : i \in 0..n /\ i # 0
    OBVIOUS
  <2>2. QED
    BY <1>1, <2>1 DEF Items
<1>4. QED
  BY <1>2, <1>3, Zenon

-----------------------------------------------------------------------------
(* Conversions of scalars *)

\* What is cut to an int is one, and what is one stays as it is (Wrap).
LEMMA WrapFacts ==
  ASSUME NEW n \in Int, NEW range \in Nat \ {0}
  PROVE  Fits(Wrap(n, range), range) /\ (Fits(n, range) => Wrap(n, range) = n)
<1>1. \A a \in Int, d \in Nat \ {0} : a % d \in 0..(d - 1)
  OBVIOUS
<1>2. \A a, d \in Nat : a < d => a % d = a
  OBVIOUS
<1>3. 2 * range \in Nat \ {0} /\ n + range \in Int
  OBVIOUS
<1>4. (n + range) % (2 * range) \in 0..(2 * range - 1)
  BY <1>1, <1>3, Zenon
<1>5. Fits(n, range) => (n + range) % (2 * range) = n + range
  <2>1. Fits(n, range) => n + range \in Nat /\ n + range < 2 * range
    BY DEF Fits
  <2>2. QED
    BY <1>2, <1>3, <2>1
<1> DEFINE r == (n + range) % (2 * range)
<1>6. Wrap(n, range) = r - range
  BY DEF Wrap
<1> HIDE DEF r
<1>7. r \in 0..(2 * range - 1) /\ (Fits(n, range) => r = n + range)
  BY <1>4, <1>5 DEF r
<1>8. QED
  BY <1>6, <1>7 DEF Fits

\* A conversion keeps an indicator that is set; it sets one only if the
\* object is to blame, and then there is no value.
Explained(c, set, blame) ==
  /\ c.ok \in BOOLEAN /\ c.indicator \in BOOLEAN
  /\ set => c.indicator
  /\ c.ok => c.indicator = set
  /\ c.indicator /\ ~set => blame

LEMMA ConvertedFacts ==
  /\ \A v, set : /\ Converted(v, set).ok /\ Converted(v, set).ok \in BOOLEAN
                 /\ Converted(v, set).value = v /\ Converted(v, set).indicator = set
  /\ \A set : /\ ~NotConverted(set).ok /\ NotConverted(set).ok \in BOOLEAN
              /\ NotConverted(set).indicator = set
BY DEF Converted, NotConverted

LEMMA ScalarIsExplained ==
  ASSUME NEW T \in ScalarTypes \cup {"void"}, NEW v, ScalarObject(v), NEW set \in BOOLEAN
  PROVE  Explained(AsScalar(T, v, set), set, BlamesScalar(T, v))
<1>1. /\ Explained(NotConverted(set), set, BlamesScalar(T, v))
      /\ \A x : Explained(Converted(x, set), set, BlamesScalar(T, v))
      /\ BlamesScalar(T, v) => Explained(NotConverted(TRUE), set, BlamesScalar(T, v))
  <2>1. \A x : Explained(Converted(x, set), set, BlamesScalar(T, v))
    BY ConvertedFacts, Zenon DEF Explained
  <2>2. Explained(NotConverted(set), set, BlamesScalar(T, v))
    BY ConvertedFacts, Zenon DEF Explained
  <2>3. BlamesScalar(T, v) => Explained(NotConverted(TRUE), set, BlamesScalar(T, v))
    BY ConvertedFacts, Zenon DEF Explained
  <2>4. QED
    BY <2>1, <2>2, <2>3
<1>2. CASE T = "int"
  <2>1. v.type = "bool" => Fits(v.val, LongRange)
    BY RangeAssumption DEF ScalarObject, Fits
  <2>2. v.type \in {"int", "bool"} /\ ~Fits(v.val, LongRange) => BlamesScalar(T, v)
    BY <1>2, <2>1 DEF BlamesScalar
  <2>3. AsScalar(T, v, set) = AsInt(v, set)
    BY <1>2 DEF AsScalar, IntegralTypes
  <2>4. QED
    BY <1>1, <2>2, <2>3 DEF AsInt
<1>3. CASE T \in IntegralTypes
  <2>1. AsLongLong(v, set).ok \in BOOLEAN /\ AsLongLong(v, set).indicator = set
    BY ConvertedFacts DEF AsLongLong
  <2>2. AsScalar(T, v, set) = AsIntegral(T, v, set)
    BY <1>3 DEF AsScalar, IntegralTypes
  <2>3. QED
    BY <1>1, <2>1, <2>2 DEF AsIntegral
<1>4. CASE T = "double"
  BY <1>1, <1>4 DEF AsScalar, AsDouble
<1>5. CASE T = "bool"
  BY <1>1, <1>5 DEF AsScalar, AsBool
<1>6. CASE T = "string"
  BY <1>1, <1>6 DEF AsScalar, IntegralTypes, AsString, BlamesScalar
<1>7. CASE T = "char"
  BY <1>1, <1>7 DEF AsScalar, IntegralTypes, AsChar, AsString, BlamesScalar, Explained, Converted,
                    NotConverted
<1>8. CASE T = "void"
  BY <1>1, <1>8 DEF AsScalar
<1>9. QED
  BY <1>2, <1>3, <1>4, <1>5, <1>6, <1>7, <1>8 DEF ScalarTypes

LEMMA IntFits ==
  ASSUME NEW v, ScalarObject(v), NEW set, AsScalar("int", v, set).ok
  PROVE  Fits(AsScalar("int", v, set).value, IntRange)
<1>1. AsScalar("int", v, set) = AsInt(v, set)
  BY DEF AsScalar, IntegralTypes
<1>2. ~NotConverted(set).ok /\ ~NotConverted(TRUE).ok
  BY ConvertedFacts, Zenon
<1>3. v.val \in Int /\ AsInt(v, set) = Converted(Wrap(v.val, IntRange), set)
  BY <1>1, <1>2 DEF AsInt, ScalarObject
<1>4. AsInt(v, set).value = Wrap(v.val, IntRange)
  BY <1>3, ConvertedFacts, Zenon
<1>5. QED
  BY <1>1, <1>3, <1>4, WrapFacts, RangeAssumption

\* What is returned of an object that the type holds: the object itself, but
\* for a -1 with an indicator that was set.
Exact(c, set, value, suspect) ==
  /\ c.indicator = set
  /\ c.ok => c.value = value
  /\ ~c.ok => set /\ suspect

Suspect(v) == v.type \in {"int", "float"} /\ v.val = -1

\* A text without a NUL is taken whole, and none has a character that is not
\* encoded (UpToNul).
LEMMA TextIsWhole ==
  ASSUME NEW s, IsSequence(s), ToSet(s) \cap {"NUL", "surrogate"} = {}
  PROVE  UpToNul(s) = s /\ ~Contains(s, "surrogate")
<1>1. ~Contains(s, "NUL") /\ ~Contains(s, "surrogate")
  BY SequenceIsSeq DEF Contains, ToSet
<1>2. QED
  BY <1>1, Zenon DEF UpToNul

\* What an integral type holds is not cut (Narrow).
LEMMA NarrowFacts ==
  ASSUME NEW T \in IntegralTypes, NEW v, HoldsScalar(T, v), v.val \in Int
  PROVE  Narrow(T, v.val) = v.val
<1>1. CASE T = "short"
  <2>1. Wrap(v.val, ShortRange) = v.val
    BY <1>1, WrapFacts, RangeAssumption DEF HoldsScalar
  <2>2. QED
    BY <1>1, <2>1 DEF Narrow
<1>2. CASE T = "unsigned"
  <2>1. \A m, d \in Nat : m < d => m % d = m
    OBVIOUS
  <2>2. 2 * IntRange \in Nat /\ v.val \in Nat /\ v.val < 2 * IntRange
    BY <1>2, RangeAssumption DEF HoldsScalar
  <2>3. v.val % (2 * IntRange) = v.val
    BY <2>1, <2>2, Zenon
  <2>4. QED
    BY <1>2, <2>3 DEF Narrow
<1>3. CASE T = "long long"
  BY <1>3 DEF Narrow
<1>4. QED
  BY <1>1, <1>2, <1>3 DEF IntegralTypes

LEMMA ScalarIsExact ==
  ASSUME NEW T \in ScalarTypes, NEW v, ScalarObject(v), NEW set \in BOOLEAN, HoldsScalar(T, v)
  PROVE  Exact(AsScalar(T, v, set), set, ScalarOf(T, v), Suspect(v))
<1> DEFINE value == ScalarOf(T, v)
<1>1. /\ Exact(Converted(value, set), set, value, Suspect(v))
      /\ set /\ Suspect(v) => Exact(NotConverted(set), set, value, Suspect(v))
  <2>1. Exact(Converted(value, set), set, value, Suspect(v))
    BY ConvertedFacts, Zenon DEF Exact
  <2>2. set /\ Suspect(v) => Exact(NotConverted(set), set, value, Suspect(v))
    BY ConvertedFacts, Zenon DEF Exact
  <2>3. QED
    BY <2>1, <2>2
<1>2. T # "char" => value = v.val
  BY DEF ScalarOf
<1> HIDE DEF value
<1>3. CASE T = "int"
  <2>1. v.type \in {"int", "bool"} /\ v.val \in Int /\ Fits(v.val, IntRange)
    BY <1>3 DEF HoldsScalar, ScalarObject
  <2>2. Fits(v.val, LongRange) /\ Wrap(v.val, IntRange) = v.val
    BY <2>1, WrapFacts, RangeAssumption DEF Fits
  <2>3. v.val = -1 => Suspect(v)
    BY <2>1 DEF Suspect, ScalarObject
  <2>4. QED
    BY <1>1, <1>2, <1>3, <2>1, <2>2, <2>3 DEF AsScalar, IntegralTypes, AsInt, value
<1>4. CASE T \in IntegralTypes
  <2>1. v.type \in {"int", "bool"} /\ v.val \in Int /\ Fits(v.val, LongRange)
    <3>1. v.type \in {"int", "bool"} /\ v.val \in Int
      BY <1>4 DEF HoldsScalar, ScalarObject, IntegralTypes
    <3>2. Fits(v.val, ShortRange) => Fits(v.val, LongRange)
      BY <3>1, RangeAssumption DEF Fits
    <3>3. QED
      BY <1>4, <3>1, <3>2 DEF HoldsScalar, IntegralTypes
  <2>2. v.val = -1 => Suspect(v)
    BY <2>1 DEF Suspect, ScalarObject
  <2>3. Narrow(T, v.val) = value
    BY <1>2, <1>4, <2>1, NarrowFacts DEF IntegralTypes
  <2>4. AsScalar(T, v, set) = AsIntegral(T, v, set)
    BY <1>4 DEF AsScalar, IntegralTypes
  <2>5. CASE v.val = -1 /\ set
    <3>1. AsLongLong(v, set) = NotConverted(set)
      BY <2>5 DEF AsLongLong
    <3>2. AsIntegral(T, v, set) = NotConverted(set)
      BY <3>1, ConvertedFacts DEF AsIntegral
    <3>3. QED
      BY <1>1, <2>2, <2>4, <2>5, <3>2 DEF value
  <2>6. CASE ~(v.val = -1 /\ set)
    <3>1. AsLongLong(v, set) = Converted(v.val, set)
      BY <2>1, <2>6 DEF AsLongLong
    <3>2. AsIntegral(T, v, set) = Converted(Narrow(T, v.val), set)
      BY <3>1, ConvertedFacts DEF AsIntegral
    <3>3. QED
      BY <1>1, <2>3, <2>4, <3>2 DEF value
  <2>7. QED
    BY <2>5, <2>6
<1>5. CASE T = "double"
  BY <1>1, <1>2, <1>5 DEF AsScalar, AsDouble, HoldsScalar, Suspect, value
<1>6. CASE T = "bool"
  BY <1>1, <1>2, <1>6 DEF AsScalar, AsBool, HoldsScalar, value
<1>7. CASE T = "string"
  BY <1>1, <1>2, <1>7, TextIsWhole DEF AsScalar, IntegralTypes, AsString, HoldsScalar, ScalarObject, value
<1>8. CASE T = "char"
  <2>1. AsString(v, set) = Converted(v.val, set)
    <3>1. CASE v.type = "bytes"
      BY <3>1 DEF AsString
    <3>2. CASE v.type = "str" /\ v.val = <<"a">>
      <4>1. ToSet(v.val) \cap {"NUL", "surrogate"} = {} /\ IsSequence(v.val)
        BY <3>2 DEF ToSet, ScalarObject
      <4>2. QED
        BY <3>2, <4>1, TextIsWhole DEF AsString
    <3>3. QED
      BY <1>8, <3>1, <3>2 DEF HoldsScalar
  <2>2. Len(v.val) = 1 /\ v.val # <<"wide">>
    <3>1. CASE v.type = "bytes" /\ Len(v.val) = 1
      <4>1. ~Contains(v.val, "wide")
        BY <3>1 DEF ScalarObject
      <4>2. v.val[1] # "wide"
        BY <3>1, <4>1 DEF Contains
      <4>3. QED
        BY <3>1, <4>2
    <3>2. CASE v.val = <<"a">>
      BY <3>2
    <3>3. QED
      BY <1>8, <3>1, <3>2 DEF HoldsScalar
  <2>3. /\ AsString(v, set).ok /\ AsString(v, set).value = v.val
        /\ AsString(v, set).indicator = set
    BY <2>1, ConvertedFacts
  <2>4. AsScalar(T, v, set) = Converted(v.val[1], set)
    BY <1>8, <2>2, <2>3 DEF AsScalar, AsChar
  <2>5. QED
    BY <1>1, <1>8, <2>4 DEF value, ScalarOf
<1>9. QED
  BY <1>3, <1>4, <1>5, <1>6, <1>7, <1>8 DEF ScalarTypes

-----------------------------------------------------------------------------
(* Conversions of containers: the indicator *)

LEMMA ElementIsExplained ==
  ASSUME NEW T \in ScalarTypes, NEW element, ScalarObject(element),
         NEW set \in BOOLEAN, NEW blame, NEW c, Explained(c, set, blame),
         BlamesScalar(T, element) => blame
  PROVE  Explained(TakeElement(T, c, element), set, blame)
<1> DEFINE e == AsScalar(T, element, c.indicator)
<1>1. CASE ~c.ok
  BY <1>1 DEF TakeElement
<1>2. CASE c.ok
  <2>1. c.indicator = set
    BY <1>2 DEF Explained
  <2>2. Explained(e, set, BlamesScalar(T, element))
    BY <2>1, ScalarIsExplained
  <2> HIDE DEF e
  <2>3. e.ok => TakeElement(T, c, element) = Converted(Append(c.value, e.value), e.indicator)
    BY <1>2 DEF TakeElement, e
  <2>4. ~e.ok => TakeElement(T, c, element) = NotConverted(e.indicator)
    BY <1>2 DEF TakeElement, e
  <2>5. CASE e.ok
    <3>1. e.indicator = set
      BY <2>2, <2>5 DEF Explained
    <3>2. QED
      BY <2>3, <2>5, <3>1, ConvertedFacts DEF Explained
  <2>6. CASE ~e.ok
    <3>1. e.indicator \in BOOLEAN /\ (set => e.indicator) /\ (e.indicator /\ ~set => blame)
      BY <2>2 DEF Explained
    <3>2. QED
      BY <2>4, <2>6, <3>1, ConvertedFacts DEF Explained
  <2>7. QED
    BY <2>5, <2>6
<1>3. QED
  BY <1>1, <1>2

LEMMA ArrayIsExplained ==
  ASSUME NEW T \in ScalarTypes, NEW v, IsObject(v), NEW set \in BOOLEAN
  PROVE  Explained(AsArray(T, v, set), set, Blames(<<"vector", T>>, v))
<1> DEFINE blame == Blames(<<"vector", T>>, v)
<1>1. v.type = "list" => \A e \in ToSet(v.val) : BlamesScalar(T, e) => blame
  BY DEF Blames
<1> HIDE DEF blame
<1>2. /\ Explained(NotConverted(set), set, blame)
      /\ Explained(Converted(<<>>, set), set, blame)
  BY ConvertedFacts DEF Explained
<1>3. CASE v.type # "list"
  BY <1>2, <1>3 DEF AsArray, blame
<1>4. CASE v.type = "list"
  <2>1. IsSequence(v.val) /\ Len(v.val) \in Nat /\ DOMAIN v.val = 1..Len(v.val)
    BY <1>4, SequenceIsSeq DEF IsObject
  <2>2. \A i \in 1..Len(v.val) : v.val[i] \in ToSet(v.val)
    BY <2>1 DEF ToSet
  <2>3. \A i \in 1..Len(v.val) : ScalarObject(v.val[i]) /\ (BlamesScalar(T, v.val[i]) => blame)
    BY <1>1, <1>4, <2>2 DEF IsObject
  <2>4. PICK c : /\ c[0] = Converted(<<>>, set)
                 /\ \A i \in 1..Len(v.val) : c[i] = TakeElement(T, c[i - 1], v.val[i])
                 /\ AsArray(T, v, set) = c[Len(v.val)]
    BY <1>4, <2>1, ArrayIsTaken
  <2> DEFINE n == Len(v.val)
             P == {i \in 0..n : Explained(c[i], set, blame)}
  <2>5. 0 \in P
    BY <1>2, <2>1, <2>4
  <2>6. ASSUME NEW i \in 1..n, i - 1 \in P PROVE i \in P
    <3>1. Explained(c[i - 1], set, blame)
      BY <2>6
    <3>2. Explained(TakeElement(T, c[i - 1], v.val[i]), set, blame)
      BY <2>3, <3>1, ElementIsExplained, Zenon
    <3>3. c[i] = TakeElement(T, c[i - 1], v.val[i]) /\ i \in 0..n
      BY <2>1, <2>4
    <3>4. QED
      BY <3>2, <3>3
  <2>7. n \in Nat
    BY <2>1
  <2> HIDE DEF P, n
  <2>8. n \in P
    BY <2>5, <2>6, <2>7, UpTo
  <2>9. QED
    BY <2>4, <2>8 DEF P, n, blame
<1>5. QED
  BY <1>3, <1>4

LEMMA ItemIsExplained ==
  ASSUME NEW K \in ScalarTypes, NEW V \in ScalarTypes, NEW item,
         ScalarObject(item[1]), ScalarObject(item[2]),
         NEW set \in BOOLEAN, NEW blame, NEW c, Explained(c, set, blame),
         BlamesScalar(K, item[1]) \/ BlamesScalar(V, item[2]) => blame
  PROVE  Explained(TakeItem(K, V, c, item), set, blame)
<1> DEFINE key == AsScalar(K, item[1], c.indicator)
           value == AsScalar(V, item[2], key.indicator)
<1>1. CASE ~c.ok
  BY <1>1 DEF TakeItem
<1>2. CASE c.ok
  <2>1. c.indicator = set
    BY <1>2 DEF Explained
  <2>2. Explained(key, set, BlamesScalar(K, item[1]))
    BY <2>1, ScalarIsExplained
  <2> HIDE DEF key
  <2>3. key.indicator \in BOOLEAN
    BY <2>2 DEF Explained
  <2>4. Explained(value, key.indicator, BlamesScalar(V, item[2]))
    BY <2>3, ScalarIsExplained
  <2> HIDE DEF value
  <2>5. key.ok /\ value.ok =>
          \E x : TakeItem(K, V, c, item) = Converted(x, value.indicator)
    BY <1>2 DEF TakeItem, key, value
  <2>6. ~(key.ok /\ value.ok) => TakeItem(K, V, c, item) = NotConverted(value.indicator)
    BY <1>2 DEF TakeItem, key, value
  <2>7. CASE key.ok /\ value.ok
    <3>1. value.indicator = set
      BY <2>2, <2>4, <2>7 DEF Explained
    <3>2. PICK x : TakeItem(K, V, c, item) = Converted(x, set)
      BY <2>5, <2>7, <3>1
    <3>3. QED
      BY <3>2, ConvertedFacts DEF Explained
  <2>8. CASE ~(key.ok /\ value.ok)
    <3>1. /\ value.indicator \in BOOLEAN /\ (set => value.indicator)
          /\ value.indicator /\ ~set => blame
      BY <2>2, <2>4 DEF Explained
    <3>2. QED
      BY <2>6, <2>8, <3>1, ConvertedFacts DEF Explained
  <2>9. QED
    BY <2>7, <2>8
<1>3. QED
  BY <1>1, <1>2

LEMMA MapIsExplained ==
  ASSUME NEW K \in ScalarTypes, NEW V \in ScalarTypes, NEW v, IsObject(v), NEW set \in BOOLEAN
  PROVE  Explained(AsMap(K, V, v, set), set, Blames(<<"map", K, V>>, v))
<1> DEFINE blame == Blames(<<"map", K, V>>, v)
<1>1. v.type = "dict" =>
        \A p \in ToSet(v.val) : BlamesScalar(K, p[1]) \/ BlamesScalar(V, p[2]) => blame
  BY DEF Blames
<1> HIDE DEF blame
<1>2. /\ Explained(NotConverted(set), set, blame)
      /\ Explained(Converted({}, set), set, blame)
  BY ConvertedFacts DEF Explained
<1>3. CASE v.type # "dict"
  BY <1>2, <1>3 DEF AsMap, blame
<1>4. CASE v.type = "dict"
  <2>1. IsSequence(v.val) /\ Len(v.val) \in Nat /\ DOMAIN v.val = 1..Len(v.val)
    BY <1>4, SequenceIsSeq DEF IsObject
  <2>2. \A i \in 1..Len(v.val) : v.val[i] \in ToSet(v.val)
    BY <2>1 DEF ToSet
  <2>3. \A i \in 1..Len(v.val) :
          /\ ScalarObject(v.val[i][1]) /\ ScalarObject(v.val[i][2])
          /\ BlamesScalar(K, v.val[i][1]) \/ BlamesScalar(V, v.val[i][2]) => blame
    BY <1>1, <1>4, <2>2 DEF IsObject
  <2>4. PICK c : /\ c[0] = Converted({}, set)
                 /\ \A i \in 1..Len(v.val) : c[i] = TakeItem(K, V, c[i - 1], v.val[i])
                 /\ AsMap(K, V, v, set) = c[Len(v.val)]
    BY <1>4, <2>1, MapIsTaken
  <2> DEFINE n == Len(v.val)
             P == {i \in 0..n : Explained(c[i], set, blame)}
  <2>5. 0 \in P
    BY <1>2, <2>1, <2>4
  <2>6. ASSUME NEW i \in 1..n, i - 1 \in P PROVE i \in P
    <3>1. Explained(c[i - 1], set, blame)
      BY <2>6
    <3>2. Explained(TakeItem(K, V, c[i - 1], v.val[i]), set, blame)
      BY <2>3, <3>1, ItemIsExplained, Zenon
    <3>3. c[i] = TakeItem(K, V, c[i - 1], v.val[i]) /\ i \in 0..n
      BY <2>1, <2>4
    <3>4. QED
      BY <3>2, <3>3
  <2>7. n \in Nat
    BY <2>1
  <2> HIDE DEF P, n
  <2>8. n \in P
    BY <2>5, <2>6, <2>7, UpTo
  <2>9. QED
    BY <2>4, <2>8 DEF P, n, blame
<1>5. QED
  BY <1>3, <1>4

\* An indicator that a conversion sets has its cause in the object, whatever
\* it is and whatever type is asked for (As).
LEMMA ConversionIsExplained ==
  ASSUME NEW T, IsType(T), NEW v, IsObject(v), NEW set \in BOOLEAN
  PROVE  Explained(As(T, v, set), set, Blames(T, v))
<1>1. CASE \E S \in ScalarTypes \cup {"void"} : T = <<S>>
  <2>1. PICK S \in ScalarTypes \cup {"void"} : T = <<S>>
    BY <1>1
  <2>2. T[1] = S /\ S \notin {"vector", "map"}
    BY <2>1 DEF ScalarTypes, IntegralTypes
  <2>3. As(T, v, set) = AsScalar(S, v, set)
    BY <2>2 DEF As
  <2>4. Explained(AsScalar(S, v, set), set, BlamesScalar(S, v))
    BY ScalarIsExplained DEF IsObject
  <2>5. BlamesScalar(S, v) => Blames(T, v)
    BY <2>2 DEF Blames
  <2>6. QED
    BY <2>3, <2>4, <2>5 DEF Explained
<1>2. CASE \E S \in ScalarTypes : T = <<"vector", S>>
  <2>1. PICK S \in ScalarTypes : T = <<"vector", S>>
    BY <1>2
  <2>2. As(T, v, set) = AsArray(S, v, set)
    BY <2>1 DEF As
  <2>3. QED
    BY <2>1, <2>2, ArrayIsExplained
<1>3. CASE \E K, V \in ScalarTypes : T = <<"map", K, V>>
  <2>1. PICK K \in ScalarTypes, V \in ScalarTypes : T = <<"map", K, V>>
    BY <1>3
  <2>2. As(T, v, set) = AsMap(K, V, v, set)
    BY <2>1 DEF As
  <2>3. QED
    BY <2>1, <2>2, MapIsExplained
<1>4. QED
  BY <1>1, <1>2, <1>3 DEF IsType

-----------------------------------------------------------------------------
(* Conversions of containers: the value *)

LEMMA ElementIsExact ==
  ASSUME NEW T \in ScalarTypes, NEW element, ScalarObject(element), HoldsScalar(T, element),
         NEW set \in BOOLEAN, NEW suspect, Suspect(element) => suspect,
         NEW x, NEW c, Exact(c, set, x, suspect)
  PROVE  Exact(TakeElement(T, c, element), set, Append(x, ScalarOf(T, element)), suspect)
<1> DEFINE e == AsScalar(T, element, c.indicator)
           w == ScalarOf(T, element)
<1>1. c.indicator = set
  BY DEF Exact
<1>2. Exact(e, set, w, Suspect(element))
  BY <1>1, ScalarIsExact
<1> HIDE DEF w
<1>3. CASE ~c.ok
  BY <1>3 DEF TakeElement, Exact
<1>4. CASE c.ok /\ e.ok
  <2>1. TakeElement(T, c, element) = Converted(Append(c.value, e.value), e.indicator)
    BY <1>4 DEF TakeElement
  <2> HIDE DEF e
  <2>2. e.indicator = set /\ e.value = w /\ c.value = x
    BY <1>2, <1>4 DEF Exact
  <2>3. TakeElement(T, c, element) = Converted(Append(x, w), set)
    BY <2>1, <2>2
  <2>4. Exact(Converted(Append(x, w), set), set, Append(x, w), suspect)
    BY ConvertedFacts DEF Exact
  <2>5. QED
    BY <2>3, <2>4 DEF w
<1>5. CASE c.ok /\ ~e.ok
  <2>1. TakeElement(T, c, element) = NotConverted(e.indicator)
    BY <1>5 DEF TakeElement
  <2> HIDE DEF e
  <2>2. e.indicator = set /\ set /\ suspect
    BY <1>2, <1>5 DEF Exact
  <2>3. TakeElement(T, c, element) = NotConverted(set)
    BY <2>1, <2>2
  <2>4. QED
    BY <2>2, <2>3, ConvertedFacts DEF Exact, w
<1>6. QED
  BY <1>3, <1>4, <1>5

\* One more element at the end of the vector.
LEMMA OneMore ==
  ASSUME NEW i \in Nat \ {0}, NEW s
  PROVE  Append([j \in 1..(i - 1) |-> s[j]], s[i]) = [j \in 1..i |-> s[j]]
<1> DEFINE a == [j \in 1..(i - 1) |-> s[j]]
           b == [j \in 1..i |-> s[j]]
<1>1. IsSequence(a) /\ Len(a) = i - 1 /\ \A j \in 1..(i - 1) : a[j] = s[j]
  <2>1. a = [j \in 1..(i - 1) |-> a[j]] /\ i - 1 \in Nat
    OBVIOUS
  <2>2. QED
    BY <2>1, FunctionIsSequence
<1>2. IsSequence(b) /\ Len(b) = i /\ \A j \in 1..i : b[j] = s[j]
  <2>1. b = [j \in 1..i |-> b[j]] /\ i \in Nat
    OBVIOUS
  <2>2. QED
    BY <2>1, FunctionIsSequence
<1> HIDE DEF a, b
<1>3. /\ IsSequence(Append(a, s[i])) /\ Len(Append(a, s[i])) = i
      /\ \A j \in 1..i : Append(a, s[i])[j] = s[j]
  <2>1. /\ IsSequence(Append(a, s[i])) /\ Len(Append(a, s[i])) = Len(a) + 1
        /\ Append(a, s[i])[Len(a) + 1] = s[i]
        /\ \A j \in 1..Len(a) : Append(a, s[i])[j] = a[j]
    BY <1>1, AppendFacts
  <2>2. i - 1 + 1 = i /\ \A j \in 1..i : j = i \/ j \in 1..(i - 1)
    OBVIOUS
  <2>3. QED
    BY <1>1, <2>1, <2>2
<1>4. Append(a, s[i]) = b
  BY <1>2, <1>3, SameSequence
<1>5. QED
  BY <1>4 DEF a, b

LEMMA ArrayIsExact ==
  ASSUME NEW T \in ScalarTypes, NEW v, IsObject(v), NEW set \in BOOLEAN, Holds(<<"vector", T>>, v)
  PROVE  Exact(AsArray(T, v, set), set, ValueOf(<<"vector", T>>, v),
               \E e \in Objects(v) : Suspect(e))
<1>1. v.type = "list" /\ \A e \in ToSet(v.val) : HoldsScalar(T, e)
  BY DEF Holds
<1>2. IsSequence(v.val) /\ Len(v.val) \in Nat /\ DOMAIN v.val = 1..Len(v.val)
  BY <1>1, SequenceIsSeq DEF IsObject
<1> DEFINE n == Len(v.val)
           value == [j \in 1..n |-> ScalarOf(T, v.val[j])]
           suspect == \E e \in Objects(v) : Suspect(e)
<1>3. ValueOf(<<"vector", T>>, v) = value
  BY <1>2 DEF ValueOf
<1>4. \A i \in 1..n : /\ ScalarObject(v.val[i]) /\ HoldsScalar(T, v.val[i])
                      /\ Suspect(v.val[i]) => suspect
  <2>1. \A i \in 1..n : v.val[i] \in ToSet(v.val)
    BY <1>2 DEF ToSet
  <2>2. Objects(v) = ToSet(v.val)
    BY <1>1 DEF Objects
  <2>3. QED
    BY <1>1, <2>1, <2>2 DEF IsObject
<1>5. n \in Nat /\ \A i \in 1..n : value[i] = ScalarOf(T, v.val[i])
  BY <1>2
<1>6. value = [j \in 1..n |-> value[j]]
  OBVIOUS
<1>7. PICK c : /\ c[0] = Converted(<<>>, set)
               /\ \A i \in 1..n : c[i] = TakeElement(T, c[i - 1], v.val[i])
               /\ AsArray(T, v, set) = c[n]
  BY <1>1, <1>2, ArrayIsTaken
<1> HIDE DEF n, value, suspect
<1> DEFINE P == {i \in 0..n : Exact(c[i], set, [j \in 1..i |-> value[j]], suspect)}
<1>8. 0 \in P
  <2>1. [j \in 1..0 |-> value[j]] = <<>>
    OBVIOUS
  <2>2. Exact(Converted(<<>>, set), set, <<>>, suspect)
    BY ConvertedFacts DEF Exact
  <2>3. QED
    BY <1>5, <1>7, <2>1, <2>2
<1>9. ASSUME NEW i \in 1..n, i - 1 \in P PROVE i \in P
  <2> DEFINE x == [j \in 1..(i - 1) |-> value[j]]
  <2>1. Exact(c[i - 1], set, x, suspect)
    BY <1>9
  <2>2. Append(x, value[i]) = [j \in 1..i |-> value[j]]
    BY <1>5, OneMore
  <2> HIDE DEF x
  <2>3. Exact(TakeElement(T, c[i - 1], v.val[i]), set, Append(x, ScalarOf(T, v.val[i])), suspect)
    BY <1>4, <2>1, ElementIsExact, Zenon
  <2>4. Exact(c[i], set, [j \in 1..i |-> value[j]], suspect)
    BY <1>5, <1>7, <2>2, <2>3
  <2>5. QED
    BY <1>5, <2>4
<1> HIDE DEF P
<1>10. n \in P
  BY <1>5, <1>8, <1>9, UpTo
<1>11. Exact(c[n], set, value, suspect)
  BY <1>6, <1>10 DEF P
<1>12. QED
  BY <1>3, <1>7, <1>11 DEF suspect

\* Objects a type holds are one value in C++ only if they are in Python, but
\* for a str and bytes that are the same.
LEMMA SameScalar ==
  ASSUME NEW T \in ScalarTypes, NEW a, NEW b, ScalarObject(a), ScalarObject(b),
         HoldsScalar(T, a), HoldsScalar(T, b), ScalarOf(T, a) = ScalarOf(T, b)
  PROVE  a.val = b.val
<1>1. CASE T # "char"
  BY <1>1 DEF ScalarOf
<1>2. CASE T = "char"
  <2>1. IsSequence(a.val) /\ Len(a.val) = 1 /\ IsSequence(b.val) /\ Len(b.val) = 1
    BY <1>2 DEF HoldsScalar, ScalarObject
  <2>2. a.val[1] = b.val[1]
    BY <1>2 DEF ScalarOf
  <2>3. QED
    BY <2>1, <2>2, SameSequence
<1>3. QED
  BY <1>1, <1>2

LEMMA ItemIsExact ==
  ASSUME NEW K \in ScalarTypes, NEW V \in ScalarTypes, NEW item,
         ScalarObject(item[1]), ScalarObject(item[2]),
         HoldsScalar(K, item[1]), HoldsScalar(V, item[2]),
         NEW set \in BOOLEAN, NEW suspect, Suspect(item[1]) \/ Suspect(item[2]) => suspect,
         NEW x, NEW c, Exact(c, set, x, suspect), NEW pair,
         pair = <<ScalarOf(K, item[1]), ScalarOf(V, item[2])>>,
         \A p \in x : p[1] = ScalarOf(K, item[1]) => pair \in x
  PROVE  Exact(TakeItem(K, V, c, item), set, x \cup {pair}, suspect)
<1> DEFINE key == AsScalar(K, item[1], c.indicator)
           value == AsScalar(V, item[2], key.indicator)
           k == ScalarOf(K, item[1])
           w == ScalarOf(V, item[2])
<1>1. c.indicator = set
  BY DEF Exact
<1>2. Exact(key, set, k, Suspect(item[1]))
  BY <1>1, ScalarIsExact
<1>3. key.indicator = set
  BY <1>2 DEF Exact
<1>4. Exact(value, set, w, Suspect(item[2]))
  BY <1>3, ScalarIsExact
<1> HIDE DEF k, w
<1>5. CASE ~c.ok
  BY <1>5 DEF TakeItem, Exact
<1>6. CASE c.ok /\ key.ok /\ value.ok
  <2>1. TakeItem(K, V, c, item) =
          Converted(IF \E p \in c.value : p[1] = key.value THEN c.value
                    ELSE c.value \cup {<<key.value, value.value>>}, value.indicator)
    BY <1>6 DEF TakeItem
  <2> HIDE DEF key, value
  <2>2. /\ value.indicator = set /\ key.value = k /\ value.value = w /\ c.value = x
        /\ pair = <<k, w>>
    BY <1>2, <1>4, <1>6 DEF Exact, k, w
  <2>3. (IF \E p \in x : p[1] = k THEN x ELSE x \cup {<<k, w>>}) = x \cup {pair}
    BY <2>2 DEF k
  <2>4. TakeItem(K, V, c, item) = Converted(x \cup {pair}, set)
    BY <2>1, <2>2, <2>3
  <2>5. QED
    BY <2>4, ConvertedFacts DEF Exact
<1>7. CASE c.ok /\ ~(key.ok /\ value.ok)
  <2>1. TakeItem(K, V, c, item) = NotConverted(value.indicator)
    BY <1>7 DEF TakeItem
  <2> HIDE DEF key, value
  <2>2. value.indicator = set /\ set /\ suspect
    BY <1>2, <1>4, <1>7 DEF Exact
  <2>3. TakeItem(K, V, c, item) = NotConverted(set)
    BY <2>1, <2>2
  <2>4. QED
    BY <2>2, <2>3, ConvertedFacts DEF Exact
<1>8. QED
  BY <1>5, <1>6, <1>7

LEMMA MapIsExact ==
  ASSUME NEW K \in ScalarTypes, NEW V \in ScalarTypes, NEW v, IsObject(v), NEW set \in BOOLEAN,
         Holds(<<"map", K, V>>, v)
  PROVE  Exact(AsMap(K, V, v, set), set, ValueOf(<<"map", K, V>>, v),
               \E e \in Objects(v) : Suspect(e))
<1>1. /\ v.type = "dict"
      /\ \A p \in ToSet(v.val) : HoldsScalar(K, p[1]) /\ HoldsScalar(V, p[2])
      /\ \A p, q \in ToSet(v.val) : p # q => p[1].val # q[1].val
  BY DEF Holds
<1>2. IsSequence(v.val) /\ Len(v.val) \in Nat /\ DOMAIN v.val = 1..Len(v.val)
  BY <1>1, SequenceIsSeq DEF IsObject
<1> DEFINE n == Len(v.val)
           pair(p) == <<ScalarOf(K, p[1]), ScalarOf(V, p[2])>>
           suspect == \E e \in Objects(v) : Suspect(e)
<1>3. ValueOf(<<"map", K, V>>, v) = {pair(v.val[j]) : j \in 1..n}
  <2>1. ToSet(v.val) = {v.val[j] : j \in 1..n}
    BY <1>2 DEF ToSet
  <2>2. ValueOf(<<"map", K, V>>, v) = {pair(p) : p \in ToSet(v.val)}
    BY DEF ValueOf
  <2> HIDE DEF pair, n
  <2>3. QED
    BY <2>1, <2>2
<1>4. \A i \in 1..n : v.val[i] \in ToSet(v.val)
  BY <1>2 DEF ToSet
<1>5. \A i \in 1..n : /\ ScalarObject(v.val[i][1]) /\ ScalarObject(v.val[i][2])
                      /\ HoldsScalar(K, v.val[i][1]) /\ HoldsScalar(V, v.val[i][2])
                      /\ Suspect(v.val[i][1]) \/ Suspect(v.val[i][2]) => suspect
  <2>1. Objects(v) = {p[1] : p \in ToSet(v.val)} \cup {p[2] : p \in ToSet(v.val)}
    BY <1>1 DEF Objects
  <2>2. \A i \in 1..n : v.val[i][1] \in Objects(v) /\ v.val[i][2] \in Objects(v)
    BY <1>4, <2>1
  <2>3. QED
    BY <1>1, <1>4, <2>2 DEF IsObject
<1>6. ASSUME NEW i \in 1..n, NEW j \in 1..n, pair(v.val[j])[1] = ScalarOf(K, v.val[i][1])
      PROVE  pair(v.val[j]) = pair(v.val[i])
  <2>1. ScalarOf(K, v.val[j][1]) = ScalarOf(K, v.val[i][1])
    BY <1>6
  <2>2. v.val[j][1].val = v.val[i][1].val
    BY <1>5, <2>1, SameScalar
  <2>3. v.val[j] = v.val[i]
    BY <1>1, <1>4, <2>2
  <2>4. QED
    BY <2>3
<1>7. \A p : pair(p) = <<ScalarOf(K, p[1]), ScalarOf(V, p[2])>>
  OBVIOUS
<1>8. n \in Nat
  BY <1>2
<1>9. PICK c : /\ c[0] = Converted({}, set)
               /\ \A i \in 1..n : c[i] = TakeItem(K, V, c[i - 1], v.val[i])
               /\ AsMap(K, V, v, set) = c[n]
  BY <1>1, <1>2, MapIsTaken
<1> HIDE DEF n, pair, suspect
<1> DEFINE X(i) == {pair(v.val[j]) : j \in 1..i}
           P == {i \in 0..n : Exact(c[i], set, X(i), suspect)}
<1>10. 0 \in P
  <2>1. X(0) = {}
    OBVIOUS
  <2>2. Exact(Converted({}, set), set, {}, suspect)
    BY ConvertedFacts DEF Exact
  <2>3. QED
    BY <1>8, <1>9, <2>1, <2>2
<1>11. ASSUME NEW i \in 1..n, i - 1 \in P PROVE i \in P
  <2>1. Exact(c[i - 1], set, X(i - 1), suspect)
    BY <1>11
  <2>2. X(i) = X(i - 1) \cup {pair(v.val[i])}
    <3>1. 1..i = 1..(i - 1) \cup {i}
      BY <1>8
    <3>2. QED
      BY <3>1
  <2>3. \A p \in X(i - 1) : p[1] = ScalarOf(K, v.val[i][1]) => pair(v.val[i]) \in X(i - 1)
    <3>1. \A j \in 1..(i - 1) : j \in 1..n
      BY <1>8
    <3>2. QED
      BY <1>6, <3>1
  <2> HIDE DEF X
  <2>4. Exact(TakeItem(K, V, c[i - 1], v.val[i]), set, X(i - 1) \cup {pair(v.val[i])}, suspect)
    BY <1>5, <1>7, <2>1, <2>3, ItemIsExact, Zenon
  <2>5. Exact(c[i], set, X(i), suspect)
    BY <1>9, <2>2, <2>4
  <2>6. QED
    BY <1>8, <2>5
<1> HIDE DEF P
<1>12. n \in P
  BY <1>8, <1>10, <1>11, UpTo
<1>13. QED
  BY <1>3, <1>9, <1>12 DEF P, suspect

\* An object its type can hold is returned as it is (As).
LEMMA ConversionIsExact ==
  ASSUME NEW T, IsType(T), NEW v, IsObject(v), NEW set \in BOOLEAN, Holds(T, v)
  PROVE  Exact(As(T, v, set), set, ValueOf(T, v), \E e \in Objects(v) : Suspect(e))
<1>1. CASE \E S \in ScalarTypes \cup {"void"} : T = <<S>>
  <2>1. PICK S \in ScalarTypes \cup {"void"} : T = <<S>>
    BY <1>1
  <2>2. T[1] = S /\ S \notin {"vector", "map"}
    BY <2>1 DEF ScalarTypes, IntegralTypes
  <2>3. HoldsScalar(S, v)
    BY <2>2 DEF Holds
  <2>4. S \in ScalarTypes /\ v.type \notin {"list", "dict"}
    BY <2>1, <2>3 DEF HoldsScalar
  <2>5. As(T, v, set) = AsScalar(S, v, set) /\ ValueOf(T, v) = ScalarOf(S, v)
    BY <2>2 DEF As, ValueOf
  <2>6. Exact(AsScalar(S, v, set), set, ScalarOf(S, v), Suspect(v))
    BY <2>3, <2>4, ScalarIsExact DEF IsObject
  <2>7. Suspect(v) => \E e \in Objects(v) : Suspect(e)
    BY <2>4 DEF Objects
  <2>8. QED
    BY <2>5, <2>6, <2>7 DEF Exact
<1>2. CASE \E S \in ScalarTypes : T = <<"vector", S>>
  <2>1. PICK S \in ScalarTypes : T = <<"vector", S>>
    BY <1>2
  <2>2. As(T, v, set) = AsArray(S, v, set)
    BY <2>1 DEF As
  <2>3. QED
    BY <2>1, <2>2, ArrayIsExact
<1>3. CASE \E K, V \in ScalarTypes : T = <<"map", K, V>>
  <2>1. PICK K \in ScalarTypes, V \in ScalarTypes : T = <<"map", K, V>>
    BY <1>3
  <2>2. As(T, v, set) = AsMap(K, V, v, set)
    BY <2>1 DEF As
  <2>3. QED
    BY <2>1, <2>2, MapIsExact
<1>4. QED
  BY <1>1, <1>2, <1>3 DEF IsType

-----------------------------------------------------------------------------
(* From C++ to Python *)

LEMMA ScalarArrives ==
  ASSUME NEW v, ScalarValue(v), FromScalar(v) # NoObject
  PROVE  /\ StandsForScalar(FromScalar(v), v)
         /\ ScalarObject(FromScalar(v)) /\ FromScalar(v).type \notin {"list", "dict"}
<1>1. CASE v.type = "int"
  BY <1>1 DEF FromScalar, PyInt, StandsForScalar, ScalarObject, ScalarValue
<1>2. CASE v.type = "bool"
  BY <1>2 DEF FromScalar, PyBool, StandsForScalar, ScalarObject, ScalarValue
<1>3. CASE v.type = "double"
  BY <1>3 DEF FromScalar, PyFloat, StandsForScalar, ScalarObject
<1>4. CASE v.type = "nullptr"
  BY <1>4 DEF FromScalar, PyNone, StandsForScalar, ScalarObject, ScalarValue
<1>5. CASE v.type = "string"
  BY <1>5 DEF FromScalar, PyStr, StandsForScalar, ScalarObject, ScalarValue
<1>6. QED
  BY <1>1, <1>2, <1>3, <1>4, <1>5 DEF ScalarValue

\* A value all of whose scalars have an object, and whose keys have a hash,
\* becomes an object that stands for it, element by element (From).
LEMMA ValueArrives ==
  ASSUME NEW v, IsValue(v), HasObject(v)
  PROVE  StandsFor(From(v), v) /\ IsObject(From(v))
<1>1. CASE v.type = "vector"
  <2>1. /\ IsSequence(v.val) /\ Len(v.val) \in Nat /\ DOMAIN v.val = 1..Len(v.val)
        /\ \A e \in ToSet(v.val) : ScalarValue(e)
    BY <1>1, SequenceIsSeq DEF IsValue
  <2>2. \A i \in DOMAIN v.val : v.val[i] \in ToSet(v.val)
    BY DEF ToSet
  <2>3. \A e \in ToSet(v.val) : FromScalar(e) # NoObject
    BY <1>1 DEF HasObject, Scalars
  <2>4. \A i \in DOMAIN v.val : /\ StandsForScalar(FromScalar(v.val[i]), v.val[i])
                                /\ ScalarObject(FromScalar(v.val[i]))
    BY <2>1, <2>2, <2>3, ScalarArrives
  <2> DEFINE s == [i \in DOMAIN v.val |-> FromScalar(v.val[i])]
  <2>5. From(v) = PyList(s)
    BY <1>1 DEF From
  <2>6. IsSequence(s)
    <3>1. s = [i \in 1..Len(v.val) |-> s[i]]
      BY <2>1
    <3>2. QED
      BY <2>1, <3>1, FunctionIsSequence
  <2>7. DOMAIN s = DOMAIN v.val /\ \A i \in DOMAIN v.val : s[i] = FromScalar(v.val[i])
    OBVIOUS
  <2> HIDE DEF s
  <2>8. PyList(s).type = "list" /\ PyList(s).val = s
    BY DEF PyList
  <2>9. StandsFor(From(v), v)
    BY <1>1, <2>4, <2>5, <2>7, <2>8 DEF StandsFor
  <2>10. IsObject(From(v))
    BY <2>4, <2>5, <2>6, <2>7, <2>8 DEF IsObject, ScalarObject, ToSet
  <2>11. QED
    BY <2>9, <2>10
<1>2. CASE v.type = "map"
  <2>1. /\ IsSequence(v.val) /\ Len(v.val) \in Nat /\ DOMAIN v.val = 1..Len(v.val)
        /\ \A p \in ToSet(v.val) : ScalarValue(p[1]) /\ ScalarValue(p[2])
    BY <1>2, SequenceIsSeq DEF IsValue, HasObject, Unhashable
  <2>2. ToSet(v.val) = {v.val[i] : i \in DOMAIN v.val}
    BY DEF ToSet
  <2>3. \A p \in ToSet(v.val) : FromScalar(p[1]) # NoObject /\ FromScalar(p[2]) # NoObject
    BY <1>2 DEF HasObject, Scalars
  <2>4. \A i \in DOMAIN v.val :
          /\ StandsForScalar(FromScalar(v.val[i][1]), v.val[i][1])
          /\ StandsForScalar(FromScalar(v.val[i][2]), v.val[i][2])
          /\ ScalarObject(FromScalar(v.val[i][1])) /\ ScalarObject(FromScalar(v.val[i][2]))
    BY <2>1, <2>2, <2>3, ScalarArrives
  <2> DEFINE s == [i \in DOMAIN v.val |-> <<FromScalar(v.val[i][1]), FromScalar(v.val[i][2])>>]
  <2>5. From(v) = PyDict(s)
    BY <1>2 DEF From
  <2>6. IsSequence(s)
    <3>1. s = [i \in 1..Len(v.val) |-> s[i]]
      BY <2>1
    <3>2. QED
      BY <2>1, <3>1, FunctionIsSequence
  <2>7. DOMAIN s = DOMAIN v.val
        /\ \A i \in DOMAIN v.val : /\ s[i][1] = FromScalar(v.val[i][1])
                                   /\ s[i][2] = FromScalar(v.val[i][2])
    OBVIOUS
  <2> HIDE DEF s
  <2>8. PyDict(s).type = "dict" /\ PyDict(s).val = s
    BY DEF PyDict
  <2>9. ToSet(s) = {s[i] : i \in DOMAIN v.val}
    BY <2>7 DEF ToSet
  <2>10. StandsFor(From(v), v)
    BY <1>2, <2>2, <2>4, <2>5, <2>7, <2>8, <2>9 DEF StandsFor
  <2>11. IsObject(From(v))
    BY <2>4, <2>5, <2>6, <2>7, <2>8, <2>9 DEF IsObject, ScalarObject
  <2>12. QED
    BY <2>10, <2>11
<1>3. CASE v.type \notin {"vector", "map"}
  <2>1. From(v) = FromScalar(v) /\ ScalarValue(v) /\ FromScalar(v) # NoObject
    BY <1>3 DEF From, IsValue, HasObject, Scalars
  <2>2. /\ StandsForScalar(FromScalar(v), v) /\ ScalarObject(FromScalar(v))
        /\ FromScalar(v).type \notin {"list", "dict"}
    BY <2>1, ScalarArrives
  <2>3. QED
    BY <1>3, <2>1, <2>2 DEF StandsFor, IsObject
<1>4. QED
  BY <1>1, <1>2, <1>3

-----------------------------------------------------------------------------
(* What the operations leave behind *)

LEMMA ReturnFacts ==
  ASSUME NEW o, NEW T, NEW v, NEW outcome, NEW value, Return(o, T, v, outcome, value)
  PROVE  /\ reply'.op = o /\ reply'.type = T /\ reply'.of = v
         /\ reply'.outcome = outcome /\ reply'.value = value
BY DEF Return

LEMMA ReturnAsFacts ==
  ASSUME NEW o, NEW T, IsType(T), NEW v, IsObject(v), NEW set \in BOOLEAN, ReturnAs(o, T, v, set)
  PROVE  /\ indicator' \in BOOLEAN
         /\ reply'.op = o /\ reply'.type = T /\ reply'.of = v
         /\ reply'.outcome \in {"ok", "incorrectType"}
         /\ T = <<"int">> /\ reply'.outcome = "ok" => Fits(reply'.value, IntRange)
         /\ Holds(T, v) => IF reply'.outcome = "ok" THEN reply'.value = ValueOf(T, v)
                           ELSE set /\ \E e \in Objects(v) : Suspect(e)
         /\ indicator' /\ ~set => reply'.outcome = "incorrectType" /\ Blames(T, v)
<1> DEFINE c == As(T, v, set)
           suspect == \E e \in Objects(v) : Suspect(e)
<1>1. Explained(c, set, Blames(T, v))
  BY ConversionIsExplained
<1>2. Holds(T, v) => Exact(c, set, ValueOf(T, v), suspect)
  BY ConversionIsExact
<1>3. T = <<"int">> /\ c.ok => Fits(c.value, IntRange)
  <2>1. T = <<"int">> => c = AsScalar("int", v, set)
    BY DEF As
  <2>2. ScalarObject(v)
    BY DEF IsObject
  <2> HIDE DEF c
  <2>3. QED
    BY <2>1, <2>2, IntFits
<1>4. /\ indicator' = c.indicator
      /\ Return(o, T, v, IF c.ok THEN "ok" ELSE "incorrectType", c.value)
  BY DEF ReturnAs
<1> HIDE DEF c, suspect
<1>5. /\ reply'.op = o /\ reply'.type = T /\ reply'.of = v /\ reply'.value = c.value
      /\ reply'.outcome = IF c.ok THEN "ok" ELSE "incorrectType"
  BY <1>4, ReturnFacts
<1>6. /\ indicator' \in BOOLEAN
      /\ indicator' /\ ~set => reply'.outcome = "incorrectType" /\ Blames(T, v)
  BY <1>1, <1>4, <1>5 DEF Explained
<1>7. Holds(T, v) => IF reply'.outcome = "ok" THEN reply'.value = ValueOf(T, v)
                     ELSE set /\ suspect
  BY <1>2, <1>5 DEF Exact
<1>8. T = <<"int">> /\ reply'.outcome = "ok" => Fits(reply'.value, IntRange)
  BY <1>3, <1>5
<1>9. reply'.outcome \in {"ok", "incorrectType"}
  BY <1>5
<1>10. QED
  BY <1>5, <1>6, <1>7, <1>8, <1>9 DEF suspect

\* What ArgumentsArrive says of arguments, and of variables.
ArgsArrive ==
  did.what # "nothing" =>
    /\ DOMAIN did.got = DOMAIN did.given
    /\ \A i \in DOMAIN did.given : StandsFor(did.got[i], did.given[i])

IsAsWritten(n) ==
  written[n] # Unwritten =>
    IF HasObject(written[n]) THEN StandsFor(globals[n], written[n]) ELSE globals[n] = Missing

VariablesArrive ==
  written \in [Names -> Given \cup {Unwritten}] /\ \A n \in Names : IsAsWritten(n)

LEMMA ArrivalParts ==
  /\ Inductive => ArgsArrive /\ VariablesArrive
  /\ ArgsArrive' /\ VariablesArrive' => ArgumentsArrive'
BY DEF Inductive, TypeOK, ArgumentsArrive, ArgsArrive, VariablesArrive, IsAsWritten

\* The script leaves objects in its globals, and a variable that it has not
\* changed is still what the host has set it to (ScriptWrites).
LEMMA ScriptKeepsObjects ==
  ASSUME GlobalsAreObjects, VariablesArrive, ScriptWrites
  PROVE  GlobalsAreObjects' /\ VariablesArrive'
<1>1. GlobalsAreObjects'
  BY PythonAssumption DEF GlobalsAreObjects, ScriptWrites
<1>2. written' \in [Names -> Given \cup {Unwritten}]
  BY DEF ScriptWrites, VariablesArrive
<1>3. ASSUME NEW n \in Names PROVE IsAsWritten(n)'
  <2>1. written'[n] = IF globals'[n] = globals[n] THEN written[n] ELSE Unwritten
    BY DEF ScriptWrites
  <2>2. IsAsWritten(n)
    BY DEF VariablesArrive
  <2>3. QED
    BY <2>1, <2>2 DEF IsAsWritten
<1>4. QED
  BY <1>1, <1>2, <1>3 DEF VariablesArrive

\* An operation that changes no variable leaves them as they were set.
LEMMA NothingWritten ==
  ASSUME VariablesArrive, globals' = globals, written' = written
  PROVE  VariablesArrive'
BY DEF VariablesArrive, IsAsWritten

\* A function gets what the host has passed (fillTuple).
LEMMA InvokeFacts ==
  ASSUME NEW n, NEW args \in Arguments, NEW what, Invoke(n, args, what)
  PROVE  pc = "running" /\ before' = cause /\ did'.what = what /\ ArgsArrive'
<1>1. IsSequence(args) /\ \A i \in 1..Len(args) : IsValue(args[i])
  BY PythonAssumption
<1>2. DOMAIN args = 1..Len(args)
  BY <1>1, SequenceIsSeq
<1>3. \A i \in DOMAIN args : HasObject(args[i])
  BY DEF Invoke, Passed
<1>4. \A i \in DOMAIN args : StandsFor(From(args[i]), args[i])
  BY <1>1, <1>2, <1>3, ValueArrives
<1>5. did' = [what |-> what, given |-> args, got |-> [i \in DOMAIN args |-> From(args[i])]]
  BY DEF Invoke
<1>6. did'.what = what /\ did'.given = args /\ did'.got = [i \in DOMAIN args |-> From(args[i])]
  BY <1>5
<1>7. pc = "running" /\ before' = cause
  BY DEF Invoke, Begin
<1>8. QED
  BY <1>4, <1>6, <1>7 DEF ArgsArrive

LastOperation == [reply |-> reply, what |-> did.what]

\* What sets the indicator is its cause, and what takes an exception but fails
\* to print it (Remember); so the cause of an indicator that is set stays
\* known.
LEMMA CauseStaysKnown ==
  ASSUME Inductive, Remember, indicator' /\ ~indicator => LeavesSet(LastOperation)'
  PROVE  CauseIsKnown'
<1>1. CASE ~indicator'
  BY <1>1 DEF CauseIsKnown
<1>2. CASE indicator' /\ indicator /\ did'.what # "raisedUnprintable"
  <2>1. cause' = cause
    BY <1>2 DEF Remember
  <2>2. LeavesSet(cause)
    BY <1>2 DEF Inductive, CauseIsKnown
  <2>3. QED
    BY <2>1, <2>2 DEF CauseIsKnown, LeavesSet
<1>3. CASE indicator' /\ ~(indicator /\ did'.what # "raisedUnprintable")
  <2>1. cause' = [reply |-> reply', what |-> did'.what]
    BY <1>3 DEF Remember
  <2>2. cause'.reply = reply' /\ cause'.what = did'.what
    BY <2>1
  <2>3. CASE indicator
    BY <1>3, <2>2, <2>3 DEF CauseIsKnown, LeavesSet
  <2>4. CASE ~indicator
    <3>1. LeavesSet(LastOperation)'
      BY <1>3, <2>4
    <3>2. LastOperation.reply = reply /\ LastOperation.what = did.what
      BY DEF LastOperation
    <3>3. QED
      BY <2>1, <3>1 DEF CauseIsKnown, LastOperation
  <2>5. QED
    BY <2>3, <2>4
<1>4. QED
  BY <1>1, <1>2, <1>3

\* A step keeps the invariant, and has a cause for an indicator that it sets.
Kept == Inductive' /\ (indicator' /\ ~indicator => LeavesSet(LastOperation)')

\* What holds of a step whose reply is not that of a conversion.
LEMMA NoConversion ==
  ASSUME reply'.outcome \notin {"ok", "incorrectType"} \/ reply'.op = "set", reply'.type = <<"void">>
  PROVE  /\ ValueIsExact'
         /\ reply'.type = <<"int">> /\ reply'.outcome = "ok" => Fits(reply'.value, IntRange)
<1>1. <<"void">> # <<"int">>
  BY "void" # "int"
<1>2. ValueIsExact'
  BY DEF ValueIsExact
<1>3. QED
  BY <1>1, <1>2

\* What holds of a step whose reply is that of a conversion.
LEMMA AConversion ==
  ASSUME NEW o \in {"call", "get"}, NEW T, IsType(T), NEW v, IsObject(v), NEW set \in BOOLEAN,
         ReturnAs(o, T, v, set), before' = cause, set => LeavesSet(cause), ~set \/ indicator
  PROVE  /\ indicator' \in BOOLEAN /\ reply'.op = o
         /\ reply'.outcome \in {"ok", "incorrectType"}
         /\ reply'.type = <<"int">> /\ reply'.outcome = "ok" => Fits(reply'.value, IntRange)
         /\ ValueIsExact'
         /\ indicator' /\ ~indicator => LeavesSet(LastOperation)'
<1>1. /\ indicator' \in BOOLEAN
      /\ reply'.op = o /\ reply'.type = T /\ reply'.of = v
      /\ reply'.outcome \in {"ok", "incorrectType"}
      /\ T = <<"int">> /\ reply'.outcome = "ok" => Fits(reply'.value, IntRange)
      /\ Holds(T, v) => IF reply'.outcome = "ok" THEN reply'.value = ValueOf(T, v)
                        ELSE set /\ \E e \in Objects(v) : Suspect(e)
      /\ indicator' /\ ~set => reply'.outcome = "incorrectType" /\ Blames(T, v)
  BY ReturnAsFacts
<1>2. ValueIsExact'
  <2>1. set => LeavesSet(before')
    OBVIOUS
  <2>2. Holds(T, v) => IF reply'.outcome = "ok" THEN reply'.value = ValueOf(T, v)
                       ELSE LeavesSet(before') /\ \E e \in Objects(v) : Suspect(e)
    BY <1>1, <2>1
  <2>3. QED
    BY <1>1, <2>2 DEF ValueIsExact, Suspect
<1>3. indicator' /\ ~indicator => LeavesSet(LastOperation)'
  BY <1>1 DEF LeavesSet, LastOperation
<1>4. QED
  BY <1>1, <1>2, <1>3

LEMMA LatestFacts ==
  ASSUME Latest
  PROVE  indicator' = FALSE /\ pc' \in {"running", "releasedTwice"}
BY DEF Latest, Released

LEMMA AssertKeeps == Inductive /\ AssertFails /\ Remember => Kept
<1> SUFFICES ASSUME Inductive, AssertFails, Remember PROVE Kept
  OBVIOUS
<1>1. /\ pc' = "assertFailed" /\ globals' = globals /\ indicator' = indicator
      /\ written' = written /\ before' = before /\ did' = did /\ reply' = reply
  BY DEF AssertFails
<1>2. TypeOK'
  BY <1>1 DEF Inductive, TypeOK
<1>3. GlobalsAreObjects'
  BY <1>1 DEF Inductive, GlobalsAreObjects
<1>4. FailureHasCause'
  BY <1>1 DEF Inductive, FailureHasCause
<1>5. ValueIsExact'
  BY <1>1 DEF Inductive, ValueIsExact
<1>6. ArgumentsArrive'
  BY <1>1 DEF Inductive, ArgumentsArrive
<1>7. CauseIsKnown'
  BY <1>1, CauseStaysKnown
<1>8. QED
  BY <1>1, <1>2, <1>3, <1>4, <1>5, <1>6, <1>7 DEF Inductive, Kept

\* The parts of the invariant after a step that is not the end of the process
\* put together.
LEMMA AllKept ==
  ASSUME Inductive, Remember, GlobalsAreObjects', ArgsArrive', VariablesArrive', ValueIsExact',
         FailureHasCause',
         pc' \in {"running", "assertFailed", "nullRead", "releasedTwice"}, indicator' \in BOOLEAN,
         did'.what \in {"nothing", "returned", "raised", "raisedUnprintable"},
         reply'.outcome \in {"ok", "symbolNotFound", "unknown", "raised", "incorrectType"},
         reply'.type = <<"int">> /\ reply'.outcome = "ok" => Fits(reply'.value, IntRange),
         indicator' /\ ~indicator => LeavesSet(LastOperation)'
  PROVE  Kept
<1>1. ArgumentsArrive'
  BY ArrivalParts
<1>2. CauseIsKnown'
  BY CauseStaysKnown
<1>3. DOMAIN globals' = Names
  BY DEF GlobalsAreObjects
<1>4. written' \in [Names -> Given \cup {Unwritten}]
  BY DEF VariablesArrive
<1>5. TypeOK'
  BY <1>3, <1>4 DEF TypeOK
<1>6. QED
  BY <1>1, <1>2, <1>5 DEF Inductive, Kept

\* An indicator that is set has a cause, which is what the next operation
\* remembers of it (Begin).
LEMMA BeforeIsCause ==
  ASSUME Inductive, before' = cause, indicator
  PROVE  LeavesSet(before')
BY DEF Inductive, CauseIsKnown

LEMMA CallNotFoundKeeps ==
  ASSUME Inductive, Remember, NEW n, NEW args, CallNotFound(n, args)
  PROVE  Kept
<1>1. indicator \in BOOLEAN /\ GlobalsAreObjects /\ VariablesArrive
  BY ArrivalParts DEF Inductive, TypeOK
<1>2. /\ pc = "running" /\ before' = cause /\ did' = Nothing
      /\ globals' = globals /\ written' = written
  BY DEF CallNotFound, Begin
<1>3. /\ reply'.op = "call" /\ reply'.type = <<"void">> /\ reply'.of = globals[n]
      /\ reply'.outcome \in {"symbolNotFound", "unknown"}
      /\ reply'.outcome = "symbolNotFound" => globals[n] = Missing \/ indicator
      /\ pc' \in {"running", "releasedTwice"} /\ indicator' \in BOOLEAN /\ (indicator' => indicator)
  <2>1. CASE globals[n] = Missing \/ indicator
    <3>1. Return("call", <<"void">>, globals[n], "symbolNotFound", 0) /\ Latest
      BY <2>1 DEF CallNotFound
    <3>2. QED
      BY <2>1, <3>1, ReturnFacts, LatestFacts
  <2>2. CASE ~(globals[n] = Missing \/ indicator)
    <3>1. Return("call", <<"void">>, globals[n], "unknown", 0) /\ UNCHANGED <<pc, indicator>>
      BY <2>2 DEF CallNotFound
    <3>2. QED
      BY <1>1, <1>2, <3>1, ReturnFacts
  <2>3. QED
    BY <2>1, <2>2
<1>4. did'.what = "nothing"
  BY <1>2 DEF Nothing
<1>5. /\ ValueIsExact'
      /\ reply'.type = <<"int">> /\ reply'.outcome = "ok" => Fits(reply'.value, IntRange)
  BY <1>3, NoConversion
<1>6. GlobalsAreObjects' /\ VariablesArrive'
  BY <1>1, <1>2, NothingWritten DEF GlobalsAreObjects
<1>7. FailureHasCause'
  BY <1>2, <1>3, BeforeIsCause DEF FailureHasCause
<1>8. ArgsArrive'
  BY <1>4 DEF ArgsArrive
<1>9. QED
  BY <1>3, <1>4, <1>5, <1>6, <1>7, <1>8, AllKept

LEMMA CallRaisesKeeps ==
  ASSUME Inductive, Remember, NEW n, NEW args \in Arguments, CallRaises(n, args)
  PROVE  Kept
<1>1. indicator \in BOOLEAN /\ GlobalsAreObjects /\ VariablesArrive
  BY ArrivalParts DEF Inductive, TypeOK
<1>2. /\ reply'.op = "call" /\ reply'.type = <<"void">> /\ reply'.outcome = "raised"
  BY ReturnFacts DEF CallRaises
<1>3. GlobalsAreObjects' /\ VariablesArrive'
  BY <1>1, ScriptKeepsObjects DEF CallRaises
<1>4. /\ did'.what \in {"raised", "raisedUnprintable"} /\ ArgsArrive'
      /\ pc' \in {"running", "assertFailed", "nullRead", "releasedTwice"}
      /\ indicator' \in BOOLEAN
      /\ indicator' => did'.what = "raisedUnprintable"
  <2>1. CASE Invoke(n, args, "raised") /\ Latest
    BY <2>1, InvokeFacts, LatestFacts
  <2>2. CASE Invoke(n, args, "raisedUnprintable") /\ indicator' = TRUE
             /\ pc' \in Released \cup {"assertFailed", "nullRead"}
    BY <2>2, InvokeFacts DEF Released
  <2>3. QED
    BY <2>1, <2>2 DEF CallRaises
<1>5. /\ ValueIsExact'
      /\ reply'.type = <<"int">> /\ reply'.outcome = "ok" => Fits(reply'.value, IntRange)
  BY <1>2, NoConversion
<1>6. FailureHasCause'
  BY <1>2, <1>4 DEF FailureHasCause
<1>7. indicator' => LeavesSet(LastOperation)'
  BY <1>4 DEF LeavesSet, LastOperation
<1>8. QED
  BY <1>2, <1>3, <1>4, <1>5, <1>6, <1>7, AllKept

LEMMA CallReturnsKeeps ==
  ASSUME Inductive, Remember, NEW n, NEW args \in Arguments, NEW T \in Types,
         CallReturns(n, args, T)
  PROVE  Kept
<1>1. indicator \in BOOLEAN /\ GlobalsAreObjects /\ VariablesArrive
  BY ArrivalParts DEF Inductive, TypeOK
<1>2. GlobalsAreObjects' /\ VariablesArrive'
  BY <1>1, ScriptKeepsObjects DEF CallReturns
<1>3. pc = "running" /\ before' = cause /\ did'.what = "returned" /\ ArgsArrive'
  BY InvokeFacts DEF CallReturns
<1>4. PICK v \in Returns :
        IF indicator THEN Return("call", T, v, "raised", 0) /\ Latest
        ELSE ReturnAs("call", T, v, FALSE) /\ UNCHANGED pc
  BY DEF CallReturns
<1>5. /\ pc' \in {"running", "releasedTwice"} /\ indicator' \in BOOLEAN
      /\ reply'.outcome \in {"ok", "incorrectType", "raised"}
      /\ reply'.outcome = "raised" => indicator
      /\ reply'.type = <<"int">> /\ reply'.outcome = "ok" => Fits(reply'.value, IntRange)
      /\ ValueIsExact'
      /\ indicator' /\ ~indicator => LeavesSet(LastOperation)'
  <2>1. CASE indicator
    <3>1. Return("call", T, v, "raised", 0) /\ Latest
      BY <1>4, <2>1
    <3>2. reply'.op = "call" /\ reply'.outcome = "raised"
      BY <3>1, ReturnFacts
    <3>3. ValueIsExact'
      BY <3>2 DEF ValueIsExact
    <3>4. QED
      BY <2>1, <3>1, <3>2, <3>3, LatestFacts
  <2>2. CASE ~indicator
    <3>1. ReturnAs("call", T, v, FALSE) /\ pc' = pc
      BY <1>4, <2>2
    <3>2. IsType(T) /\ IsObject(v)
      BY PythonAssumption
    <3>3. /\ indicator' \in BOOLEAN /\ reply'.op = "call"
          /\ reply'.outcome \in {"ok", "incorrectType"}
          /\ reply'.type = <<"int">> /\ reply'.outcome = "ok" => Fits(reply'.value, IntRange)
          /\ ValueIsExact'
          /\ indicator' /\ ~indicator => LeavesSet(LastOperation)'
      BY <1>3, <3>1, <3>2, AConversion
    <3>4. QED
      BY <1>3, <3>1, <3>3
  <2>3. QED
    BY <1>1, <2>1, <2>2
<1>6. FailureHasCause'
  BY <1>3, <1>5, BeforeIsCause DEF FailureHasCause
<1>7. QED
  BY <1>2, <1>3, <1>5, <1>6, AllKept

LEMMA GetKeeps ==
  ASSUME Inductive, Remember, NEW n \in Names, NEW T \in Types, Get(n, T)
  PROVE  Kept
<1>1. indicator \in BOOLEAN /\ GlobalsAreObjects /\ VariablesArrive
  BY ArrivalParts DEF Inductive, TypeOK
<1>2. /\ pc = "running" /\ before' = cause /\ did' = Nothing
      /\ globals' = globals /\ written' = written
  BY DEF Get, Begin
<1>3. did'.what = "nothing"
  BY <1>2 DEF Nothing
<1>4. GlobalsAreObjects' /\ VariablesArrive'
  BY <1>1, <1>2, NothingWritten DEF GlobalsAreObjects
<1>5. /\ pc' \in {"running", "releasedTwice"} /\ indicator' \in BOOLEAN /\ reply'.op = "get"
      /\ reply'.outcome \in {"ok", "incorrectType", "symbolNotFound"}
      /\ reply'.type = <<"int">> /\ reply'.outcome = "ok" => Fits(reply'.value, IntRange)
      /\ ValueIsExact'
      /\ indicator' /\ ~indicator => LeavesSet(LastOperation)'
  <2>1. CASE globals[n] = Missing
    <3>1. Return("get", T, Missing, "symbolNotFound", 0) /\ Latest
      BY <2>1 DEF Get
    <3>2. reply'.op = "get" /\ reply'.outcome = "symbolNotFound"
      BY <3>1, ReturnFacts
    <3>3. ValueIsExact'
      BY <3>2 DEF ValueIsExact
    <3>4. QED
      BY <3>1, <3>2, <3>3, LatestFacts
  <2>2. CASE globals[n] # Missing
    <3>1. ReturnAs("get", T, globals[n], indicator) /\ pc' = pc
      BY <2>2 DEF Get
    <3>2. IsType(T) /\ IsObject(globals[n])
      BY <1>1, PythonAssumption DEF GlobalsAreObjects
    <3>3. indicator => LeavesSet(cause)
      BY DEF Inductive, CauseIsKnown
    <3>4. /\ indicator' \in BOOLEAN /\ reply'.op = "get"
          /\ reply'.outcome \in {"ok", "incorrectType"}
          /\ reply'.type = <<"int">> /\ reply'.outcome = "ok" => Fits(reply'.value, IntRange)
          /\ ValueIsExact'
          /\ indicator' /\ ~indicator => LeavesSet(LastOperation)'
      BY <1>1, <1>2, <3>1, <3>2, <3>3, AConversion
    <3>5. QED
      BY <1>2, <3>1, <3>4
  <2>3. QED
    BY <2>1, <2>2
<1>6. FailureHasCause'
  BY <1>5 DEF FailureHasCause
<1>7. ArgsArrive'
  BY <1>3 DEF ArgsArrive
<1>8. QED
  BY <1>3, <1>4, <1>5, <1>6, <1>7, AllKept

\* A variable of the script has another object, or none.
LEMMA OneGlobal ==
  ASSUME GlobalsAreObjects, NEW n \in Names, NEW o, IsObject(o),
         globals' = [globals EXCEPT ![n] = o]
  PROVE  /\ GlobalsAreObjects' /\ globals'[n] = o
         /\ \A m \in Names \ {n} : globals'[m] = globals[m]
BY DEF GlobalsAreObjects

\* A variable that is set is what it was set to, and no other is touched.
LEMMA OneIsWritten ==
  ASSUME VariablesArrive, NEW n \in Names, NEW v \in Given,
         written' = [written EXCEPT ![n] = v],
         \A m \in Names \ {n} : globals'[m] = globals[m],
         IF HasObject(v) THEN StandsFor(globals'[n], v) ELSE globals'[n] = Missing
  PROVE  VariablesArrive'
<1>1. /\ written' \in [Names -> Given \cup {Unwritten}]
      /\ written'[n] = v /\ \A m \in Names \ {n} : written'[m] = written[m]
  BY DEF VariablesArrive
<1>2. IsAsWritten(n)'
  BY <1>1 DEF IsAsWritten
<1>3. ASSUME NEW m \in Names \ {n} PROVE IsAsWritten(m)'
  <2>1. IsAsWritten(m)
    BY DEF VariablesArrive
  <2>2. written'[m] = written[m] /\ globals'[m] = globals[m]
    BY <1>1
  <2>3. QED
    BY <2>1, <2>2 DEF IsAsWritten
<1>4. QED
  BY <1>1, <1>2, <1>3 DEF VariablesArrive

LEMMA SetKeeps ==
  ASSUME Inductive, Remember, NEW n \in Names, NEW v \in Given, Set(n, v)
  PROVE  Kept
<1>1. indicator \in BOOLEAN /\ GlobalsAreObjects /\ VariablesArrive
  BY ArrivalParts DEF Inductive, TypeOK
<1>2. /\ pc = "running" /\ pc' = pc /\ indicator' = indicator /\ did' = Nothing /\ HasObject(v)
      /\ written' = [written EXCEPT ![n] = v] /\ globals' = [globals EXCEPT ![n] = From(v)]
  BY DEF Set, Succeed, Begin
<1>3. did'.what = "nothing"
  BY <1>2 DEF Nothing
<1>4. StandsFor(From(v), v) /\ IsObject(From(v))
  BY <1>2, ValueArrives, PythonAssumption
<1>5. /\ GlobalsAreObjects' /\ globals'[n] = From(v)
      /\ \A m \in Names \ {n} : globals'[m] = globals[m]
  BY <1>1, <1>2, <1>4, OneGlobal
<1>6. VariablesArrive'
  BY <1>1, <1>2, <1>4, <1>5, OneIsWritten
<1>7. /\ reply'.op = "set" /\ reply'.type = <<"void">> /\ reply'.outcome = "ok"
  BY ReturnFacts DEF Set, Succeed
<1>8. /\ ValueIsExact'
      /\ reply'.type = <<"int">> /\ reply'.outcome = "ok" => Fits(reply'.value, IntRange)
  BY <1>7, NoConversion
<1>9. FailureHasCause'
  BY <1>7 DEF FailureHasCause
<1>10. ArgsArrive'
  BY <1>3 DEF ArgsArrive
<1>11. QED
  BY <1>1, <1>2, <1>3, <1>5, <1>6, <1>7, <1>8, <1>9, <1>10, AllKept

LEMMA SetInvalidKeeps ==
  ASSUME Inductive, Remember, NEW n \in Names, NEW v \in Given, SetInvalid(n, v)
  PROVE  Kept
<1>1. indicator \in BOOLEAN /\ GlobalsAreObjects /\ VariablesArrive
  BY ArrivalParts DEF Inductive, TypeOK
<1>2. /\ pc = "running" /\ did' = Nothing /\ ~HasObject(v)
      /\ globals' = [globals EXCEPT ![n] = Missing]
  BY DEF SetInvalid, Begin
<1>3. did'.what = "nothing"
  BY <1>2 DEF Nothing
<1>4. IsObject(Missing)
  BY DEF IsObject, ScalarObject, Missing
<1>5. /\ GlobalsAreObjects' /\ globals'[n] = Missing
      /\ \A m \in Names \ {n} : globals'[m] = globals[m]
  BY <1>1, <1>2, <1>4, OneGlobal
<1>6. /\ reply'.op = "set" /\ reply'.type = <<"void">> /\ reply'.of = v
      /\ reply'.outcome \in {"ok", "unknown"}
      /\ pc' \in {"running", "releasedTwice"} /\ indicator' \in BOOLEAN /\ VariablesArrive'
  <2>1. CASE globals[n] = Missing
    <3>1. Return("set", <<"void">>, v, "unknown", 0) /\ Latest /\ written' = written
      BY <2>1 DEF SetInvalid
    <3>2. globals' = globals
      BY <1>1, <1>2, <2>1 DEF GlobalsAreObjects
    <3>3. VariablesArrive'
      BY <1>1, <3>1, <3>2, NothingWritten
    <3>4. QED
      BY <3>1, <3>3, ReturnFacts, LatestFacts
  <2>2. CASE globals[n] # Missing
    <3>1. Succeed(n, v) /\ indicator' = TRUE
      BY <2>2 DEF SetInvalid
    <3>2. /\ Return("set", <<"void">>, v, "ok", 0) /\ pc' = pc
          /\ written' = [written EXCEPT ![n] = v]
      BY <3>1 DEF Succeed
    <3>3. VariablesArrive'
      BY <1>1, <1>2, <1>5, <3>2, OneIsWritten
    <3>4. QED
      BY <1>2, <3>1, <3>2, <3>3, ReturnFacts
  <2>3. QED
    BY <2>1, <2>2
<1>7. /\ ValueIsExact'
      /\ reply'.type = <<"int">> /\ reply'.outcome = "ok" => Fits(reply'.value, IntRange)
  BY <1>6, NoConversion
<1>8. FailureHasCause'
  BY <1>6 DEF FailureHasCause
<1>9. ArgsArrive'
  BY <1>3 DEF ArgsArrive
<1>10. LeavesSet(LastOperation)'
  BY <1>2, <1>6 DEF LeavesSet, LastOperation
<1>11. QED
  BY <1>3, <1>5, <1>6, <1>7, <1>8, <1>9, <1>10, AllKept

-----------------------------------------------------------------------------
(* The theorems *)

LEMMA InitIsInductive == Init => Inductive
<1> SUFFICES ASSUME Init PROVE Inductive
  OBVIOUS
<1>1. /\ reply.op = "none" /\ reply.type = <<"void">> /\ reply.outcome = "none"
      /\ did.what = "nothing"
  BY DEF Init, NoReply, Nothing
<1>2. GlobalsAreObjects
  BY PythonAssumption DEF Init, GlobalsAreObjects
<1>3. TypeOK
  BY <1>1, <1>2 DEF Init, TypeOK, GlobalsAreObjects
<1>4. FailureHasCause /\ ValueIsExact
  BY <1>1 DEF FailureHasCause, ValueIsExact
<1>5. \A n \in Names : written[n] = Unwritten
  BY DEF Init
<1>6. ArgumentsArrive
  BY <1>1, <1>5 DEF ArgumentsArrive
<1>7. CauseIsKnown
  BY DEF Init, CauseIsKnown
<1>8. QED
  BY <1>2, <1>3, <1>4, <1>6, <1>7 DEF Inductive

LEMMA StepKeeps == Inductive /\ Next => Kept
<1> SUFFICES ASSUME Inductive, Next PROVE Kept
  OBVIOUS
<1>0. Remember
  BY DEF Next
<1>1. CASE \E args \in Arguments : CallBadArgument(args)
  BY <1>0, <1>1, AssertKeeps DEF CallBadArgument
<1>2. ASSUME NEW args \in Arguments, NEW n \in Names,
             CallNotFound(n, args) \/ CallRaises(n, args)
             \/ \E T \in Types : CallReturns(n, args, T)
      PROVE  Kept
  BY <1>0, <1>2, CallNotFoundKeeps, CallRaisesKeeps, CallReturnsKeeps
<1>3. ASSUME NEW n \in Names, NEW T \in Types, Get(n, T) PROVE Kept
  BY <1>0, <1>3, GetKeeps
<1>4. ASSUME NEW n \in Names, NEW v \in Given, Set(n, v) \/ SetInvalid(n, v) PROVE Kept
  BY <1>0, <1>4, SetKeeps, SetInvalidKeeps
<1>5. CASE \E v \in Given : SetBadElement(v)
  BY <1>0, <1>5, AssertKeeps DEF SetBadElement
<1>6. QED
  BY <1>1, <1>2, <1>3, <1>4, <1>5 DEF Next, Operation

LEMMA StutterKeeps == Inductive /\ UNCHANGED vars => Kept
<1> SUFFICES ASSUME Inductive, UNCHANGED vars PROVE Kept
  OBVIOUS
<1>1. /\ pc' = pc /\ globals' = globals /\ indicator' = indicator /\ written' = written
      /\ cause' = cause /\ before' = before /\ did' = did /\ reply' = reply
  BY DEF vars
<1>2. TypeOK'
  BY <1>1 DEF Inductive, TypeOK
<1>3. GlobalsAreObjects'
  BY <1>1 DEF Inductive, GlobalsAreObjects
<1>4. FailureHasCause'
  BY <1>1 DEF Inductive, FailureHasCause
<1>5. ValueIsExact'
  BY <1>1 DEF Inductive, ValueIsExact
<1>6. ArgumentsArrive'
  BY <1>1 DEF Inductive, ArgumentsArrive
<1>7. CauseIsKnown'
  BY <1>1 DEF Inductive, CauseIsKnown
<1>8. QED
  BY <1>1, <1>2, <1>3, <1>4, <1>5, <1>6, <1>7 DEF Inductive, Kept

\* Every state of a plugin is one in which what the last operation reported,
\* what its function was given and what the globals hold belong together.
THEOREM InductiveInvariant == Spec => []Inductive
<1>1. Inductive /\ [Next]_vars => Inductive'
  BY StepKeeps, StutterKeeps DEF Kept
<1>2. QED
  BY <1>1, InitIsInductive, PTL DEF Spec

\* Every variable keeps its type; what is returned as an int is one, however
\* large the integer of the script was.
THEOREM TypeCorrect == Spec => []TypeOK
<1>1. Inductive => TypeOK
  BY DEF Inductive
<1>2. QED
  BY <1>1, InductiveInvariant, PTL

\* After any sequence of operations: a call whose function has returned, or
\* that has found something not callable, reports an exception only if an
\* operation before it, since when nobody has taken the exception, has failed to
\* convert or print a value or has set a variable to none.
THEOREM FailuresHaveCauses == Spec => []FailureHasCause
<1>1. Inductive => FailureHasCause
  BY DEF Inductive
<1>2. QED
  BY <1>1, InductiveInvariant, PTL

\* Whatever the host asks for and the script returns: the value arrives as it
\* is, element by element, or a -1 was taken for an error that was left.
THEOREM ValuesAreExact == Spec => []ValueIsExact
<1>1. Inductive => ValueIsExact
  BY DEF Inductive
<1>2. QED
  BY <1>1, InductiveInvariant, PTL

\* Whatever the host passes, the function has its objects, each in its place;
\* and after any sequence of operations each variable that the host has set is
\* still what that one was set to last, unless the script has changed it.
THEOREM ArgumentsReachTheScript == Spec => []ArgumentsArrive
<1>1. Inductive => ArgumentsArrive
  BY DEF Inductive
<1>2. QED
  BY <1>1, InductiveInvariant, PTL

\* An operation leaves the indicator set only for one of the reasons that
\* LeavesSet lists.
THEOREM IndicatorHasItsCause == Spec => IndicatorHasCause
<1>1. Inductive /\ [Next]_vars => [indicator' /\ ~indicator
                                       => LeavesSet([reply |-> reply', what |-> did'.what])]_vars
  BY StepKeeps, StutterKeeps DEF Kept, LastOperation
<1>2. QED
  BY <1>1, InductiveInvariant, PTL DEF Spec, IndicatorHasCause
=============================================================================
