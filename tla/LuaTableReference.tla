------------------------- MODULE LuaTableReference --------------------------
(***************************************************************************)
(* What LuaTable converts a value to, by definition: without a stack, an   *)
(* order in which things are done, or a place to abort.                    *)
(***************************************************************************)
EXTENDS LuaTable

\* A type is made of smaller ones.
ASSUME TypesAssumption ==
  \A types \in SUBSET TableTypes :
    types # {} => \E T \in types : IsContainer(T) => T.key \notin types /\ T.of \notin types

\* Of equal keys the first counts.
FirstRows(keys, n) == {i \in 1..n : \A j \in 1..(i - 1) : keys[j] # keys[i]}

PairsOf(keys, values, n) == {<<keys[i], values[i]>> : i \in FirstRows(keys, n)}

\* A map needs keys and values of its types, an array keys that are 1, 2, 3...
ConvertRows(kind, keys, values, n) ==
  LET first  == FirstRows(keys, n)
      row(i) == CHOOSE j \in first : keys[j] = Number(2 * i)
  IN CASE \E i \in 1..n : ~HasValue(keys[i]) \/ ~HasValue(values[i]) -> NoValue
       [] OTHER ->
            IF kind = "map" THEN MapValue(PairsOf(keys, values, n))
            ELSE IF {keys[i] : i \in first} = {Number(2 * i) : i \in 1..Cardinality(first)}
              THEN ArrayValue([i \in 1..Cardinality(first) |-> values[row(i)]])
            ELSE NoValue

\* A value, given what keys and values of its type are converted to.
ConvertOne(T, v, keyOf, valueOf) ==
  IF ~IsContainer(T) THEN TopScalar(T.kind, v)
  ELSE IF v.kind # "table" THEN NoValue
  ELSE ConvertRows(T.kind, [i \in 1..Len(v.val) |-> keyOf[v.val[i][1]]],
                           [i \in 1..Len(v.val) |-> valueOf[v.val[i][2]]], Len(v.val))

Convert[T \in TableTypes] ==
  [v \in TableValues |-> ConvertOne(T, v, Convert[T.key], Convert[T.of])]

\* The conversion of a table, interrupted as it is by those of the tables in
\* it, returns what the definition says: every pair, none twice, each array in
\* order (lua_state.h, topMap and topArray, lines 320-367).
ConvertsByDefinition ==
  step = "idle" /\ conversion.type.kind # "none" =>
    answer = Convert[conversion.type][conversion.value]

-----------------------------------------------------------------------------
(* The inductive invariant behind this property                            *)

\* What the n-th level waits for, and the host (0).
TypeAsked(n) ==
  IF n = 0 THEN conversion.type
  ELSE IF frames[n].stage = "value" THEN frames[n].type.of
  ELSE frames[n].type.key

KeysOf(T, v)   == [i \in 1..Len(v.val) |-> Convert[T.key][v.val[i][1]]]
ValuesOf(T, v) == [i \in 1..Len(v.val) |-> Convert[T.of][v.val[i][2]]]

\* The level f, whose table is in the slot t of the stack s, is at the pair p.
\* If it is busy, the value of that pair or, after that, the key is being
\* converted; all pairs before are in its map, with keys and values that have
\* their types.
IsAtPair(f, s, t, busy, p) ==
  LET v      == s[t]
      keys   == KeysOf(f.type, v)
      values == ValuesOf(f.type, v)
      done   == IF busy THEN p - 1 ELSE p
  IN /\ s[t + 1] = IF p = 0 THEN Nil ELSE v.val[p][1]
     /\ busy => /\ p > 0
                /\ IF f.stage = "value" THEN s[t + 2] = v.val[p][2]
                                        ELSE f.value = values[p]
     /\ \A i \in 1..done : HasValue(keys[i]) /\ HasValue(values[i])
     /\ f.map = PairsOf(keys, values, done)

\* Every level has converted the pairs it has passed, and what a level has
\* returned is what the one below has asked for.
FollowsReference ==
  /\ step # "idle" => conversion \in Conversions
  /\ step # "undefined" =>
     \A n \in DOMAIN frames :
       /\ frames[n].type = TypeAsked(n - 1)
       /\ \E p \in 0..Len(slots[TableAt[n]].val) :
            IsAtPair(frames[n], slots, TableAt[n], n < Len(frames) \/ step # "next", p)
  /\ step = "top" => wanted = TypeAsked(Len(frames))
  /\ step = "return" => answer = Convert[TypeAsked(Len(frames))][Last(slots)]

ReferenceInductive == TableInductive /\ FollowsReference /\ ConvertsByDefinition
=============================================================================
