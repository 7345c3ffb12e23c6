-------------------------------- MODULE MCLua --------------------------------
(***************************************************************************)
(* The operations of a Lua plugin, and the conversion of nested tables: a  *)
(* behaviour is one of the two machines, the other stays as it is.  An int *)
(* holds -4 .. 3.                                                          *)
(***************************************************************************)
EXTENDS MCLuaStack, LuaTableReference

VARIABLE part   \* the machine that runs

MCInit == Init /\ TableInit /\ part \in {"operations", "tables"}

MCNext ==
  /\ \/ part = "operations" /\ Next      /\ UNCHANGED tableVars
     \/ part = "tables"     /\ TableNext /\ UNCHANGED vars
  /\ UNCHANGED part

MCSpec == MCInit /\ [][MCNext]_<<vars, tableVars, part>>

-----------------------------------------------------------------------------
(* Tables.                                                                  *)

I == Scalar("int")
S == Scalar("string")

N(n) == Number(2 * n)
Empty == TableWith(0, <<>>)
Ab    == TableWith(1, << <<N(1), String("a")>> >>)
Ba    == TableWith(2, << <<N(1), String("a")>> >>)
Mixed == TableWith(3, << <<N(1), String("a")>>, <<String("k"), N(0)>> >>)
Swap  == TableWith(4, << <<String("j"), N(1)>>, <<String("k"), N(0)>> >>)

\* In order, out of order, with a gap, from 0, with keys that become equal
\* (1.5 and 2.5 both become 0), with one that an int does not hold (9 is 1).
Arrays ==
  { TableWith(5, << <<N(1), String("a")>>, <<N(2), String("b")>> >>),
    TableWith(6, << <<N(2), String("a")>>, <<N(1), String("b")>> >>),
    TableWith(7, << <<N(1), String("a")>>, <<N(3), String("b")>> >>),
    TableWith(8, << <<N(0), String("a")>>, <<N(1), String("b")>> >>),
    TableWith(9, << <<Number(3), String("a")>>, <<Number(5), String("b")>> >>),
    TableWith(10, << <<N(9), String("a")>>, <<N(2), String("b")>> >>),
    Empty, Ab, Mixed, Swap }

\* Tables of tables: good ones, and bad ones at each place.
Nested ==
  { TableWith(11, << <<String("j"), Ab>>, <<String("k"), Empty>> >>),
    TableWith(12, << <<String("j"), Ab>>, <<String("k"), Mixed>> >>),
    TableWith(13, << <<String("j"), Mixed>>, <<String("k"), Ab>> >>),
    TableWith(14, << <<String("j"), N(1)>>, <<String("k"), Ab>> >>) }

\* Tables as keys, two of them with the same contents.
Keyed ==
  { TableWith(15, << <<Ab, Swap>>, <<Empty, Empty>> >>),
    TableWith(16, << <<Ab, Swap>>, <<Ba, Empty>> >>),
    TableWith(17, << <<Mixed, Swap>>, <<Ab, Swap>> >>),
    TableWith(18, << <<Ab, Swap>>, <<Mixed, Swap>> >>) }

\* Three levels, by way of keys, with a value that is bad in the middle.
Deep == { TableWith(19, << <<Ab, TableWith(20, << <<Ab, String("a")>> >>)>> >>) }

MCConversions ==
  [type : {ArrayOf(S)}, value : Arrays]
  \cup [type : {MapOf(I, S)}, value : Arrays]
  \cup [type : {MapOf(S, ArrayOf(S))}, value : Nested]
  \cup [type : {MapOf(ArrayOf(S), MapOf(S, I))}, value : Keyed]
  \cup [type : {MapOf(ArrayOf(S), MapOf(ArrayOf(S), I))}, value : Deep]
  \cup { [type |-> I, value |-> N(1)], [type |-> ArrayOf(S), value |-> N(1)] }

\* What is in tables, three levels deep.
Within(values) ==
  LET tables == {v \in values : v.kind = "table"}
  IN UNION {{p[h] : p \in ToSet(v.val), h \in {1, 2}} : v \in tables}
MCTableValues ==
  LET top == {r.value : r \in MCConversions}
  IN top \cup Within(top) \cup Within(Within(top)) \cup Within(Within(Within(top)))
MCTableTypes ==
  {I, S, ArrayOf(S), MapOf(I, S), MapOf(S, I), MapOf(S, ArrayOf(S)),
   MapOf(ArrayOf(S), MapOf(S, I)), MapOf(ArrayOf(S), I),
   MapOf(ArrayOf(S), MapOf(ArrayOf(S), I))}
=============================================================================
