---------------------------- MODULE PythonValues ----------------------------
(***************************************************************************)
(* The conversions between C++ and Python (python_object.h, .cpp and       *)
(* python_tuple.cpp).  Both kinds of values are records; C++ types are     *)
(* sequences: <<"int">>, <<"vector", "int">>, <<"map", "string", "int">>.  *)
(* Elements are scalars here: a container as an element of a list, or as a *)
(* value of a dict, is converted by the same functions once more.  As the  *)
(* key of a map it becomes a list or a dict, which no dict takes for a key.*)
(*                                                                         *)
(* A conversion of an object may need the error indicator, and may leave   *)
(* it set; the elements of a container hand it on from one to the next.    *)
(***************************************************************************)
EXTENDS IndexedSequences, SequencesExt

CONSTANTS
  ShortRange, \* a C++ short holds -ShortRange .. ShortRange - 1
  IntRange,   \* a C++ int holds -IntRange .. IntRange - 1
  LongRange   \* a C++ long (and long long) holds -LongRange .. LongRange - 1

ASSUME RangeAssumption ==
  /\ ShortRange \in Nat \ {0} /\ IntRange \in Nat \ {0} /\ LongRange \in Nat \ {0, 1}
  /\ ShortRange <= IntRange /\ IntRange <= LongRange

-----------------------------------------------------------------------------
(* Objects of Python *)

Missing     == [type |-> "missing", val |-> 0]
Callable    == [type |-> "function", val |-> 0]
PyNone      == [type |-> "none", val |-> 0]
PyInt(n)    == [type |-> "int", val |-> n]
PyBool(b)   == [type |-> "bool", val |-> b]
PyFloat(n)  == [type |-> "float", val |-> n]
\* Sequences of characters: one of two bytes in UTF-8 ("wide"), one that has no
\* encoding ("surrogate"), NUL.  A std::string may also hold "invalid" bytes.
PyStr(s)    == [type |-> "str", val |-> s]
PyBytes(s)  == [type |-> "bytes", val |-> s]
PyList(s)   == [type |-> "list", val |-> s]
PyDict(s)   == [type |-> "dict", val |-> s]   \* a sequence of <<key, value>>

ScalarObject(o) ==
  /\ o.type \in {"int", "bool"} => o.val \in Int
  /\ o.type = "bool" => o.val \in {0, 1}
  /\ o.type \in {"str", "bytes"} => IsSequence(o.val)
  /\ o.type = "bytes" => ~Contains(o.val, "wide")

IsObject(o) ==
  /\ ScalarObject(o)
  /\ o.type \in {"list", "dict"} => IsSequence(o.val)
  /\ o.type = "list" => \A e \in ToSet(o.val) : ScalarObject(e)
  /\ o.type = "dict" => \A p \in ToSet(o.val) : ScalarObject(p[1]) /\ ScalarObject(p[2])

-----------------------------------------------------------------------------
(* From Python to C++: whether there is a value, which, and whether the    *)
(* error indicator is set afterwards.                                      *)

Converted(v, set)  == [ok |-> TRUE, value |-> v, indicator |-> set]
NotConverted(set)  == [ok |-> FALSE, value |-> 0, indicator |-> set]

Wrap(n, range) == ((n + range) % (2 * range)) - range
Fits(n, range) == -range <= n /\ n < range

\* (A long that is not cut to an int.)
AsInt_Uncut(v, set) ==
  IF v.type \notin {"int", "bool"} THEN NotConverted(set)
  ELSE IF ~Fits(v.val, LongRange) THEN NotConverted(TRUE)
  ELSE IF v.val = -1 /\ set THEN NotConverted(set)
  ELSE Converted(v.val, set)

\* PyLong_AsLong sets the indicator of an integer too large for long; what
\* fits is cut to an int.  A bool is an int of Python.
AsInt(v, set) ==
  IF v.type \notin {"int", "bool"} THEN NotConverted(set)
  ELSE IF ~Fits(v.val, LongRange) THEN NotConverted(TRUE)
  ELSE IF v.val = -1 /\ set THEN NotConverted(set)
  ELSE Converted(Wrap(v.val, IntRange), set)

\* (By way of an int.)
AsLongLong_ByInt(v, set) == AsInt(v, set)

\* PyLong_AsLongLongAndOverflow reports overflow without the indicator.
AsLongLong(v, set) ==
  IF v.type \notin {"int", "bool"} THEN NotConverted(set)
  ELSE IF ~Fits(v.val, LongRange) \/ (v.val = -1 /\ set) THEN NotConverted(set)
  ELSE Converted(v.val, set)

\* The other integral types take what asLongLong returns, cut to their width.
Narrow(T, n) ==
  CASE T = "short"     -> Wrap(n, ShortRange)
    [] T = "unsigned"  -> n % (2 * IntRange)
    [] T = "long long" -> n

AsIntegral(T, v, set) ==
  LET c == AsLongLong(v, set) IN
    IF c.ok THEN Converted(Narrow(T, c.value), c.indicator) ELSE NotConverted(c.indicator)

AsDouble(v, set) ==
  IF v.type # "float" \/ (v.val = -1 /\ set) THEN NotConverted(set)
  ELSE Converted(v.val, set)

AsBool(v, set) ==
  IF v.type = "bool" THEN Converted(v.val, set) ELSE NotConverted(set)

UpToNul(s) ==
  IF Contains(s, "NUL") THEN SubSeq(s, 1, SelectInSeq(s, LAMBDA c : c = "NUL") - 1) ELSE s

\* The std::string of a str is made from a C string, which ends at the first
\* NUL; that of bytes has their length.
AsString(v, set) ==
  CASE v.type = "bytes" -> Converted(v.val, set)
    [] v.type = "str" /\ Contains(v.val, "surrogate") -> NotConverted(TRUE)
    [] v.type = "str" /\ ~Contains(v.val, "surrogate") ->
         Converted(UpToNul(v.val), set)
    [] OTHER -> NotConverted(set)

AsChar(v, set) ==
  LET c == AsString(v, set) IN
    IF c.ok /\ Len(c.value) = 1 /\ c.value # <<"wide">>
      THEN Converted(c.value[1], c.indicator) ELSE NotConverted(c.indicator)

IntegralTypes == {"short", "unsigned", "long long"}

AsScalar(T, v, set) ==
  CASE T = "int"       -> AsInt(v, set)
    [] T \in IntegralTypes -> AsIntegral(T, v, set)
    [] T = "double"    -> AsDouble(v, set)
    [] T = "bool"      -> AsBool(v, set)
    [] T = "char"      -> AsChar(v, set)
    [] T = "string"    -> AsString(v, set)
    [] T = "void"      -> Converted(0, set)

\* Element after element, up to the first that cannot be converted.
TakeElement(T, c, element) ==
  LET e == AsScalar(T, element, c.indicator) IN
    CASE ~c.ok -> c
      [] c.ok /\ ~e.ok -> NotConverted(e.indicator)
      [] c.ok /\ e.ok  -> Converted(Append(c.value, e.value), e.indicator)

AsArray(T, v, set) ==
  IF v.type # "list" THEN NotConverted(set)
  ELSE Folded(LAMBDA c, element : TakeElement(T, c, element), Converted(<<>>, set), v.val)

\* Of items whose keys have become equal the first is kept (emplace).  The
\* value of an item is converted even if its key could not be.
TakeItem(K, V, c, item) ==
  LET key == AsScalar(K, item[1], c.indicator)
      value == AsScalar(V, item[2], key.indicator)
  IN CASE ~c.ok -> c
       [] c.ok /\ ~(key.ok /\ value.ok) -> NotConverted(value.indicator)
       [] c.ok /\ key.ok /\ value.ok ->
            Converted(IF \E p \in c.value : p[1] = key.value THEN c.value
                      ELSE c.value \cup {<<key.value, value.value>>}, value.indicator)

AsMap(K, V, v, set) ==
  IF v.type # "dict" THEN NotConverted(set)
  ELSE Folded(LAMBDA c, item : TakeItem(K, V, c, item), Converted({}, set), v.val)

ScalarTypes == IntegralTypes \cup {"int", "double", "bool", "char", "string"}

IsType(T) ==
  \/ \E S \in ScalarTypes \cup {"void"} : T = <<S>>
  \/ \E S \in ScalarTypes : T = <<"vector", S>>
  \/ \E K, V \in ScalarTypes : T = <<"map", K, V>>

As(T, v, set) ==
  CASE T[1] = "vector" -> AsArray(T[2], v, set)
    [] T[1] = "map"    -> AsMap(T[2], T[3], v, set)
    [] OTHER           -> AsScalar(T[1], v, set)

-----------------------------------------------------------------------------
(* From C++ to Python *)

Cpp(T, it) == [type |-> T, val |-> it]   \* a vector and a map are sequences

ScalarValue(v) ==
  /\ v.type \in {"int", "bool", "double", "nullptr", "string"}
  /\ v.type = "int" => v.val \in Int
  /\ v.type = "bool" => v.val \in {0, 1}
  /\ v.type = "string" => IsSequence(v.val)
  /\ v.type = "nullptr" => v.val = 0

IsContainer(v) == v.type \in {"vector", "map"}

IsValue(v) ==
  CASE v.type = "vector" -> IsSequence(v.val) /\ \A e \in ToSet(v.val) : ScalarValue(e)
    [] v.type = "map" -> /\ IsSequence(v.val)
                         /\ \A p \in ToSet(v.val) : /\ ScalarValue(p[1]) \/ IsContainer(p[1])
                                                    /\ ScalarValue(p[2])
    [] OTHER -> ScalarValue(v)

NoObject == [type |-> "null", val |-> 0]

FromScalar(v) ==
  CASE v.type = "int"     -> PyInt(v.val)
    [] v.type = "bool"    -> PyBool(v.val)
    [] v.type = "double"  -> PyFloat(v.val)
    [] v.type = "nullptr" -> PyNone
    [] v.type = "string"  -> IF Contains(v.val, "invalid") THEN NoObject ELSE PyStr(v.val)

Scalars(v) ==
  CASE v.type = "vector" -> ToSet(v.val)
    [] v.type = "map"    -> {p[1] : p \in ToSet(v.val)} \cup {p[2] : p \in ToSet(v.val)}
    [] OTHER             -> {v}

\* A list or a dict has no hash: PyDict_SetItem does not take it for a key.
Unhashable(v) == v.type = "map" /\ \E p \in ToSet(v.val) : IsContainer(p[1])

\* Whether there is an object for v and for all that is in it.  An element
\* without one, or without a hash, fails an assert.
HasObject(v) == ~Unhashable(v) /\ \A s \in Scalars(v) : FromScalar(s) # NoObject

\* A list or a dict whose elements all have an object.
From(v) ==
  CASE v.type = "vector" -> PyList([i \in DOMAIN v.val |-> FromScalar(v.val[i])])
    [] v.type = "map"    -> PyDict([i \in DOMAIN v.val |->
                              <<FromScalar(v.val[i][1]), FromScalar(v.val[i][2])>>])
    [] OTHER             -> FromScalar(v)

-----------------------------------------------------------------------------
(* For the properties: what a C++ type holds without loss, which value that *)
(* is, and which object stands for a value.                                 *)

HoldsScalar(T, v) ==
  \/ T = "int" /\ v.type \in {"int", "bool"} /\ Fits(v.val, IntRange)
  \/ T = "short" /\ v.type \in {"int", "bool"} /\ Fits(v.val, ShortRange)
  \/ T = "unsigned" /\ v.type \in {"int", "bool"} /\ Fits(v.val, LongRange)
       /\ 0 <= v.val /\ v.val < 2 * IntRange
  \/ T = "long long" /\ v.type \in {"int", "bool"} /\ Fits(v.val, LongRange)
  \/ T = "double" /\ v.type = "float"
  \/ T = "bool" /\ v.type = "bool"
  \/ T = "string" /\ v.type = "str" /\ ToSet(v.val) \cap {"NUL", "surrogate"} = {}
  \/ T = "string" /\ v.type = "bytes"
  \/ T = "char" /\ v.type = "str" /\ v.val = <<"a">>
  \/ T = "char" /\ v.type = "bytes" /\ Len(v.val) = 1

ScalarOf(T, v) == IF T = "char" THEN v.val[1] ELSE v.val

\* A dict may have keys that are one in C++ (a str, and bytes).
Holds(T, v) ==
  CASE T[1] = "vector" -> v.type = "list" /\ \A e \in ToSet(v.val) : HoldsScalar(T[2], e)
    [] T[1] = "map" -> /\ v.type = "dict"
                       /\ \A p \in ToSet(v.val) : HoldsScalar(T[2], p[1]) /\ HoldsScalar(T[3], p[2])
                       /\ \A p, q \in ToSet(v.val) : p # q => p[1].val # q[1].val
    [] OTHER -> HoldsScalar(T[1], v)

ValueOf(T, v) ==
  CASE T[1] = "vector" -> [i \in DOMAIN v.val |-> ScalarOf(T[2], v.val[i])]
    [] T[1] = "map" -> {<<ScalarOf(T[2], p[1]), ScalarOf(T[3], p[2])>> : p \in ToSet(v.val)}
    [] OTHER -> ScalarOf(T[1], v)

Objects(v) ==
  CASE v.type = "list" -> ToSet(v.val)
    [] v.type = "dict" -> {p[1] : p \in ToSet(v.val)} \cup {p[2] : p \in ToSet(v.val)}
    [] OTHER           -> {v}

StandsForScalar(o, v) ==
  /\ <<v.type, o.type>> \in {<<"int", "int">>, <<"bool", "bool">>, <<"double", "float">>,
                             <<"nullptr", "none">>, <<"string", "str">>}
  /\ o.val = v.val

\* A dict stands for a map if each has what the other has.
StandsFor(o, v) ==
  CASE v.type = "vector" ->
         /\ o.type = "list" /\ DOMAIN o.val = DOMAIN v.val
         /\ \A i \in DOMAIN v.val : StandsForScalar(o.val[i], v.val[i])
    [] v.type = "map" ->
         LET same(p, q) == StandsForScalar(p[1], q[1]) /\ StandsForScalar(p[2], q[2]) IN
           /\ o.type = "dict"
           /\ \A q \in ToSet(v.val) : \E p \in ToSet(o.val) : same(p, q)
           /\ \A p \in ToSet(o.val) : \E q \in ToSet(v.val) : same(p, q)
    [] OTHER -> StandsForScalar(o, v)
=============================================================================
