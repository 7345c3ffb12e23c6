----------------------------- MODULE LuaValues ------------------------------
(***************************************************************************)
(* Values of Lua as far as ppplugin tells them apart, and the conversion   *)
(* of scalars on the top of the stack to C++ (LuaState::top).  Numbers are *)
(* counted in halves, so that 3 stands for 1.5: what matters is whether    *)
(* lua_tointeger finds an integer.                                         *)
(***************************************************************************)
EXTENDS IndexedSequences

CONSTANTS
  IntRange,  \* a C++ int holds the integers -IntRange .. IntRange - 1
  Capacity   \* slots of the stack that may be used without a check

ASSUME RangeAssumption == IntRange \in Nat \ {0} /\ Capacity \in Nat

Kinds == {"nil", "boolean", "number", "string", "function", "table"}

Nil         == [kind |-> "nil", val |-> 0]
Bool(b)     == [kind |-> "boolean", val |-> b]
Number(n)   == [kind |-> "number", val |-> n]
String(s)   == [kind |-> "string", val |-> s]
Function(f) == [kind |-> "function", val |-> f]
Table(s)    == [kind |-> "table", val |-> s]   \* a sequence of <<key, value>>
NoValue     == [kind |-> "none", val |-> 0]    \* std::nullopt

\* lua_tointeger (Lua 5.3 and later) of a number, narrowed to int: 0 unless it
\* is an integer.
ToInt(n) ==
  IF n % 2 = 1 THEN 0
  ELSE 2 * ((((n \div 2) + IntRange) % (2 * IntRange)) - IntRange)

\* The numbers that an int holds.
FitsInt(n) == n % 2 = 0 /\ n \div 2 \in -IntRange..(IntRange - 1)

\* The scalars of LuaState::top: the type of the value on the stack must be
\* the one of T, any number will do for int and double.
TopScalar(T, v) ==
  CASE T = "bool" /\ v.kind = "boolean"  -> v
    [] T = "int" /\ v.kind = "number"    -> Number(ToInt(v.val))
    [] T = "double" /\ v.kind = "number" -> v
    [] T = "string" /\ v.kind = "string" -> v
    [] OTHER -> NoValue
=============================================================================
