------------------------------ MODULE LuaTable ------------------------------
(***************************************************************************)
(* How a table on the top of the Lua stack becomes a std::map or a         *)
(* std::vector (lua_state.h, topMap and topArray).  lua_next walks over    *)
(* the table: it takes the last key from the stack and pushes the next one *)
(* with its value.  Keys and values may be tables themselves, which are    *)
(* walked over on top of the stack before the outer iteration goes on; so  *)
(* each level must leave the stack as it found it, or lua_next is handed a *)
(* key that is not in its table.                                           *)
(*                                                                         *)
(* One action is one call of lua_next, or what the code does between two.  *)
(* The C++ activation records of topMap are the sequence frames.           *)
(***************************************************************************)
EXTENDS LuaValues, FiniteSetsExt, SequencesExt

CONSTANTS
  Conversions,   \* what the host asks for: a set of [type, value]
  TableValues,   \* those values, and the keys and values in their tables
  TableTypes,    \* those types, and the types of their keys and elements
  MaxBelow       \* bound: values that failed conversions leave on the stack

VARIABLES
  step,      \* "idle", "top", "next", "return" or how the process ended
  wanted,    \* the type top() converts to
  slots,     \* the Lua stack, its top last
  frames,    \* the calls of topMap in progress, the innermost last
  answer,    \* what the last call of top() returned
  conversion,\* the one in progress, or the last one
  under      \* the stack before its value (for the properties)

tableVars == <<step, wanted, slots, frames, answer, conversion, under>>

-----------------------------------------------------------------------------
(* Tables and types *)

\* Two tables with the same contents are two keys: a table has an identity.
TableWith(id, pairs) == [kind |-> "table", val |-> pairs, id |-> id]

SameKey(a, b) ==
  /\ a.kind = b.kind
  /\ IF a.kind = "table" THEN a.id = b.id ELSE a.val = b.val

Scalar(name) == [kind |-> name]
MapOf(K, V)  == [kind |-> "map", key |-> K, of |-> V]
ArrayOf(V)   == [kind |-> "array", key |-> Scalar("int"), of |-> V]

IsContainer(T) == T.kind \in {"map", "array"}

\* No key of a table is nil, and no two are the same.
ASSUME TableAssumption ==
  /\ MaxBelow \in Nat
  /\ \A r \in Conversions : r.type \in TableTypes /\ r.value \in TableValues
  /\ \A T \in TableTypes :
       /\ T.kind \in {"bool", "int", "double", "string", "map", "array"}
       /\ IsContainer(T) => T.key \in TableTypes /\ T.of \in TableTypes
  /\ \A v \in TableValues :
       /\ v.kind \in Kinds
       /\ v.kind = "table" => /\ v.val \in Seq(TableValues \X TableValues)
                              /\ \A i \in DOMAIN v.val : v.val[i][1].kind # "nil"
                              /\ \A i, j \in DOMAIN v.val :
                                   SameKey(v.val[i][1], v.val[j][1]) => i = j

\* C++ values: a scalar as Lua has it, a std::map as the set of its pairs, a
\* std::vector as a sequence.
MapValue(pairs)  == [kind |-> "map", val |-> pairs]
ArrayValue(seq)  == [kind |-> "array", val |-> seq]
HasValue(v)      == v.kind # "none"

\* std::map::emplace keeps what is there.
Emplace(map, key, value) ==
  IF \E p \in map : p[1] = key THEN map ELSE map \cup {<<key, value>>}

\* The place of a pair in a std::map, which is ordered by the keys.
Place(map, p) == Cardinality({q \in map : q[1].val < p[1].val}) + 1

InOrder(map) ==
  [i \in 1..Cardinality(map) |-> (CHOOSE p \in map : Place(map, p) = i)[2]]

\* (Without a look at the keys.)
ToArray_AnyKeys(map) == ArrayValue(InOrder(map))

\* topArray: the keys, in their order, must be 1, 2, 3...
ToArray(map) ==
  IF \A p \in map : p[1] = Number(2 * Place(map, p)) THEN ArrayValue(InOrder(map))
                                                     ELSE NoValue

-----------------------------------------------------------------------------
TableInit ==
  /\ step = "idle"
  /\ wanted = Scalar("none")
  /\ slots = <<>> /\ under = <<>> /\ frames = <<>>
  /\ answer = NoValue
  /\ conversion = [type |-> wanted, value |-> Nil]

Innermost == frames[Len(frames)]
Outer     == SubSeq(frames, 1, Len(frames) - 1)

Answer(v) == answer' = v /\ step' = "return"

\* A value was pushed (pushGlobal, or a result); pop<T>() asks for its top.
\* (LuaStack says what a value does that finds no slot.)
Request(r) ==
  /\ step = "idle" /\ Len(slots) <= MaxBelow /\ Len(slots) < Capacity
  /\ conversion' = r /\ wanted' = r.type
  /\ under' = slots /\ slots' = Append(slots, r.value)
  /\ step' = "top"
  /\ UNCHANGED <<frames, answer>>

\* top<T>() of a scalar, and of a map or vector where there is no table.
TopValue ==
  /\ step = "top"
  /\ ~IsContainer(wanted) \/ Last(slots).kind # "table"
  /\ Answer(IF IsContainer(wanted) THEN NoValue ELSE TopScalar(wanted.kind, Last(slots)))
  /\ UNCHANGED <<wanted, slots, frames, conversion, under>>

\* topMap (also for topArray): a nil is where lua_next starts.
MapStarts == step = "top" /\ IsContainer(wanted) /\ Last(slots).kind = "table"

StartMap ==
  /\ MapStarts /\ Len(slots) < Capacity
  /\ frames' = Append(frames, [type |-> wanted, stage |-> "value",
                               map |-> {}, value |-> NoValue])
  /\ slots' = Append(slots, Nil)
  /\ step' = "next"
  /\ UNCHANGED <<wanted, answer, conversion, under>>

-----------------------------------------------------------------------------
(* pushNextTableItem: the table is right below the key.                     *)

TableIndex == Len(slots) - 1
PairsBelow == slots[TableIndex].val

\* Where the iteration is: 0 before the first pair.
Positions(key) == {i \in DOMAIN PairsBelow : SameKey(PairsBelow[i][1], key)}
Position(key)  == IF key.kind = "nil" THEN 0 ELSE CHOOSE i \in Positions(key) : TRUE

IterationIsBroken ==
  \/ TableIndex < 1
  \/ slots[TableIndex].kind # "table"
  \/ Last(slots).kind # "nil" /\ Positions(Last(slots)) = {}

\* The next key and its value, in one slot more.
ItemIsNext ==
  step = "next" /\ ~IterationIsBroken /\ Position(Last(slots)) < Len(PairsBelow)

\* A key that is not in the table is an error raised outside of any lua_pcall;
\* and there is an assert that a table is there.
NextItem ==
  /\ step = "next"
  /\ IterationIsBroken \/ (ItemIsNext /\ Len(slots) < Capacity)
  /\ IF IterationIsBroken
       THEN step' = "panic" /\ UNCHANGED <<slots, wanted, frames>>
       ELSE /\ slots' = Front(slots) \o PairsBelow[Position(Last(slots)) + 1]
            /\ step' = "top" /\ wanted' = Innermost.type.of
            /\ frames' = [frames EXCEPT ![Len(frames)].stage = "value"]
  /\ UNCHANGED <<answer, conversion, under>>

\* Nobody has asked Lua for the slot that the nil, or a value, would take: to
\* push it all the same is undefined behaviour.
Overflow ==
  /\ MapStarts \/ ItemIsNext
  /\ Len(slots) >= Capacity
  /\ step' = "undefined"
  /\ UNCHANGED <<wanted, slots, frames, answer, conversion, under>>

\* No more pairs: lua_next pops the key and pushes nothing.
EndMap ==
  /\ step = "next" /\ ~IterationIsBroken
  /\ Position(Last(slots)) = Len(PairsBelow)
  /\ slots' = Front(slots)
  /\ frames' = Outer
  /\ Answer(IF Innermost.type.kind = "map" THEN MapValue(Innermost.map)
            ELSE ToArray(Innermost.map))
  /\ UNCHANGED <<wanted, conversion, under>>

-----------------------------------------------------------------------------
(* The body of the loop in topMap *)

\* (pop() as it is elsewhere: a value of another type stays.)
PopValue_IfGood ==
  /\ step = "return" /\ frames # <<>> /\ Innermost.stage = "value"
  /\ slots' = IF HasValue(answer) THEN Front(slots) ELSE slots
  /\ frames' = [frames EXCEPT ![Len(frames)] =
                  [@ EXCEPT !.value = answer, !.stage = "key"]]
  /\ step' = "top" /\ wanted' = Innermost.type.key
  /\ UNCHANGED <<answer, conversion, under>>

\* The value is popped in any case; the key, now on top, is only read.
PopValue ==
  /\ step = "return" /\ frames # <<>> /\ Innermost.stage = "value"
  /\ slots' = Front(slots)
  /\ frames' = [frames EXCEPT ![Len(frames)] =
                  [@ EXCEPT !.value = answer, !.stage = "key"]]
  /\ step' = "top" /\ wanted' = Innermost.type.key
  /\ UNCHANGED <<answer, conversion, under>>

\* (A pair of which only one half could be converted.)
TakePair_Half ==
  /\ step = "return" /\ frames # <<>> /\ Innermost.stage = "key"
  /\ HasValue(answer) \/ HasValue(Innermost.value)
  /\ frames' = [frames EXCEPT ![Len(frames)].map = Emplace(@, answer, Innermost.value)]
  /\ step' = "next"
  /\ UNCHANGED <<wanted, slots, answer, conversion, under>>

\* (pop<T>() of the key, as of the value, where top<T>() is meant.)
TakePair_PopsKey ==
  /\ step = "return" /\ frames # <<>> /\ Innermost.stage = "key"
  /\ HasValue(answer) /\ HasValue(Innermost.value)
  /\ frames' = [frames EXCEPT ![Len(frames)].map = Emplace(@, answer, Innermost.value)]
  /\ slots' = Front(slots)
  /\ step' = "next"
  /\ UNCHANGED <<wanted, answer, conversion, under>>

TakePair ==
  /\ step = "return" /\ frames # <<>> /\ Innermost.stage = "key"
  /\ HasValue(answer) /\ HasValue(Innermost.value)
  /\ frames' = [frames EXCEPT ![Len(frames)].map = Emplace(@, answer, Innermost.value)]
  /\ step' = "next"
  /\ UNCHANGED <<wanted, slots, answer, conversion, under>>

\* (Returning in the middle of the iteration without more ado.)
AbortMap_KeepsKey ==
  /\ step = "return" /\ frames # <<>> /\ Innermost.stage = "key"
  /\ ~HasValue(answer) \/ ~HasValue(Innermost.value)
  /\ frames' = Outer
  /\ Answer(NoValue)
  /\ UNCHANGED <<wanted, slots, conversion, under>>

\* A key or value of another type ends the iteration: the key is discarded.
AbortMap ==
  /\ step = "return" /\ frames # <<>> /\ Innermost.stage = "key"
  /\ ~HasValue(answer) \/ ~HasValue(Innermost.value)
  /\ slots' = Front(slots)
  /\ frames' = Outer
  /\ Answer(NoValue)
  /\ UNCHANGED <<wanted, conversion, under>>

\* pop<T>(): a value that could not be converted stays on the stack.
Return ==
  /\ step = "return" /\ frames = <<>>
  /\ slots' = IF HasValue(answer) THEN Front(slots) ELSE slots
  /\ step' = "idle"
  /\ UNCHANGED <<wanted, frames, answer, conversion, under>>

TableNext ==
  \/ \E r \in Conversions : Request(r)
  \/ TopValue \/ StartMap
  \/ NextItem \/ EndMap \/ Overflow
  \/ PopValue \/ TakePair \/ AbortMap
  \/ Return

TableSpec == TableInit /\ [][TableNext]_tableVars

-----------------------------------------------------------------------------
(* Properties *)

TableTypeOK ==
  /\ step \in {"idle", "top", "next", "return", "panic", "undefined"}
  /\ wanted.kind \in {"none", "bool", "int", "double", "string", "map", "array"}
  /\ \A i \in DOMAIN slots : slots[i].kind \in Kinds
  /\ \A i \in DOMAIN frames : /\ IsContainer(frames[i].type)
                              /\ frames[i].stage \in {"value", "key"}
                              /\ \A p \in frames[i].map : HasValue(p[1]) /\ HasValue(p[2])
  /\ conversion.type.kind = "none" \/ conversion \in Conversions

\* Where each level has its table: above the key of the level before, or that
\* key itself, depending on which of the two is being converted.
Level(levels, n) == n + Cardinality({i \in 1..(n - 1) : levels[i].stage = "value"})

TableAt == [n \in DOMAIN frames |-> Len(under) + Level(frames, n)]

\* However deep the tables are nested, each level of the conversion finds its
\* table, and the key it has come to, where it left them: what is converted in
\* between gives back every slot it took, and lua_next is never asked for what
\* follows a key that its table does not have (pushNextTableItem, lines 186-199).
LevelsAreIntact ==
  /\ step # "panic"
  /\ step = "next" => TableIndex = TableAt[Len(frames)]
  /\ \A i \in DOMAIN frames :
       LET t == TableAt[i] IN
         /\ t < Len(slots) /\ slots[t].kind = "table"
         /\ \/ slots[t + 1].kind = "nil" /\ frames[i].map = {}
            \/ \E p \in Range(slots[t].val) : SameKey(p[1], slots[t + 1])

\* Whether a conversion succeeds or fails, at whatever level, nothing but the
\* value itself is left on the stack, and that only if it failed (lua_state.h,
\* pop, lines 224-232).
TableIsTaken ==
  step = "idle" /\ Len(slots) > 0 =>
    \/ slots = under /\ HasValue(answer)
    \/ slots = Append(under, conversion.value) /\ ~HasValue(answer)

\* However many pairs the tables have, each level takes one slot for its table,
\* and one for the key that waits while its value is converted: a conversion
\* runs out of slots only if the tables are nested too deeply for what others
\* have left of them (topMap and pushNextTableItem, which do not ask for slots).
OverflowNeedsDepth ==
  step = "undefined" => Len(under) + Level(frames, Len(frames) + 1) >= Capacity

-----------------------------------------------------------------------------
(* The inductive invariant behind these properties *)

\* What may be on the stack.
Slots == TableValues \cup {Nil}

\* What is on the stack, and in the calls of topMap.
ShapesAreKept ==
  /\ TableTypeOK
  /\ wanted \in TableTypes \cup {Scalar("none")}
  /\ slots \in Seq(Slots) /\ under \in Seq(Slots)
  /\ IsSequence(frames)
  /\ \A i \in DOMAIN frames :
       /\ frames[i] = [type |-> frames[i].type, stage |-> frames[i].stage,
                       map |-> frames[i].map, value |-> frames[i].value]
       /\ frames[i].type \in TableTypes

\* What is being converted is above the stack as it was found, and there is
\* nothing above the innermost level but its key and, until that is popped,
\* its value.
LevelsFit ==
  /\ step = "idle" => frames = <<>>
  /\ step # "idle" => /\ Len(under) < Len(slots)
                      /\ \A i \in 1..Len(under) : slots[i] = under[i]
                      /\ slots[Len(under) + 1] = conversion.value
  /\ step \in {"top", "return"} =>
       Len(slots) = Len(under) + Level(frames, Len(frames) + 1)
  /\ step = "next" =>
       frames # <<>> /\ Len(slots) = Len(under) + Level(frames, Len(frames)) + 1

\* The key of a level that has taken its first pair is one of its table.
KeysAreTheirs ==
  \A i \in DOMAIN frames : i < Len(frames) \/ step \notin {"next", "undefined"} =>
    \E p \in Range(slots[TableAt[i]].val) : SameKey(p[1], slots[TableAt[i] + 1])

TableInductive ==
  ShapesAreKept /\ LevelsFit /\ LevelsAreIntact /\ KeysAreTheirs /\ TableIsTaken
=============================================================================
