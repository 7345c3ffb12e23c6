----------------------------- MODULE MCLuaStack -----------------------------
(* LuaStack on small instances.  Capacity is 20 (LUA_MINSTACK) in the code; *)
(* here it is a few slots, which leaks of a few failed calls use up.        *)
EXTENDS LuaStack

CONSTANTS f, x

MCNames == {f, x}

\* A function and a variable, or neither of them.
MCGlobals ==
  { [n \in MCNames |-> IF n = f THEN Function("f") ELSE Number(8)],
    [n \in MCNames |-> IF n = f THEN Bool(1) ELSE Nil] }

MCChunkResults == { <<>>, <<Bool(1)>> }

\* 1.5, 4 (which an int of the model does not hold), and nothing.
MCReturns == { Number(3), Number(8), Nil }
MCErrors  == { String("e"), Bool(1) }

Pair  == Table(<< <<String("k"), Number(2)>> >>)
Pairs == Table(<< <<String("j"), Number(2)>>, <<String("k"), Number(4)>> >>)

Call(args, ret) == [op |-> "call", name |-> f, args |-> args, ret |-> ret]
Get(type)       == [op |-> "get", name |-> x, type |-> type]
Put(arg)        == [op |-> "set", name |-> x, arg |-> arg]

\* Calls that return nothing, one value, a tuple of one type.
MCRequests ==
  { Call(<<>>, <<>>), Call(<<Pair, Bool(0)>>, <<"int">>),
    Call(<<Number(2)>>, <<"double", "double">>),
    Get("int"), Put(Pairs), Put(Bool(0)) }

\* ... and of two or three types.
MCTupleRequests ==
  { Call(<<>>, <<"int", "double">>), Call(<<>>, <<"bool", "int">>),
    Call(<<>>, <<"double", "int", "double">>) }

\* Variables of one to three pairs.
MCSetRequests ==
  { Put(Pair), Put(Pairs),
    Put(Table(<< <<Number(2), Bool(0)>>, <<Number(4), Bool(1)>>, <<Number(6), Bool(1)>> >>)) }
=============================================================================
