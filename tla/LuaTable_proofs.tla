--------------------------- MODULE LuaTable_proofs ---------------------------
(***************************************************************************)
(* Proofs about LuaTable, for any values and types, however deep tables    *)
(* are nested.  What has to be found out is where each level of the        *)
(* conversion has its table; the lemmas about sequences are those of       *)
(* LuaStack_proofs.                                                        *)
(***************************************************************************)
EXTENDS LuaTableReference, LuaStack_proofs, FiniteSetTheorems

-----------------------------------------------------------------------------
(* Where the levels are *)

\* The first level is right above the stack as it was found; each further
\* one, one slot higher, or two if the level below converts a value.
LEMMA LevelSteps ==
  ASSUME NEW s
  PROVE  /\ Level(s, 1) = 1
         /\ \A n \in Nat \ {0} :
              /\ Level(s, n) \in Nat /\ n <= Level(s, n)
              /\ Level(s, n + 1) = Level(s, n) + IF s[n].stage = "value" THEN 2 ELSE 1
<1> DEFINE valued(n) == {i \in 1..(n - 1) : s[i].stage = "value"}
<1>1. \A n \in Nat \ {0} : IsFiniteSet(valued(n)) /\ Cardinality(valued(n)) \in Nat
  <2> TAKE n \in Nat \ {0}
  <2>1. 1 \in Int /\ n - 1 \in Int
    OBVIOUS
  <2>2. IsFiniteSet(1..(n - 1))
    BY <2>1, FS_Interval
  <2>3. IsFiniteSet(valued(n))
    BY <2>2, FS_Subset
  <2>4. QED
    BY <2>3, FS_CardinalityType
<1>2. valued(1) = {}
  OBVIOUS
<1>3. Level(s, 1) = 1
  BY <1>2, FS_EmptySet DEF Level
<1>4. ASSUME NEW n \in Nat \ {0}
      PROVE  /\ Level(s, n) \in Nat /\ n <= Level(s, n)
             /\ Level(s, n + 1) = Level(s, n) + IF s[n].stage = "value" THEN 2 ELSE 1
  <2>1. n + 1 \in Nat \ {0} /\ n \notin valued(n) /\ n + 1 - 1 = n
    OBVIOUS
  <2>2. 1..n = (1..(n - 1)) \cup {n}
    OBVIOUS
  <2>3. valued(n + 1) = {i \in 1..n : s[i].stage = "value"}
    BY <2>1
  <2>4. valued(n + 1) = IF s[n].stage = "value" THEN valued(n) \cup {n} ELSE valued(n)
    BY <2>2, <2>3
  <2>5. Level(s, n) = n + Cardinality(valued(n))
    BY DEF Level
  <2>6. Level(s, n + 1) = n + 1 + Cardinality(valued(n + 1))
    BY DEF Level
  <2>7. Cardinality(valued(n + 1)) = Cardinality(valued(n)) + IF s[n].stage = "value" THEN 1 ELSE 0
    <3>1. Cardinality(valued(n) \cup {n}) = Cardinality(valued(n)) + 1
      BY <1>1, <2>1, FS_AddElement
    <3>2. Cardinality(valued(n)) \in Nat
      BY <1>1
    <3> HIDE DEF valued
    <3>3. QED
      BY <2>4, <3>1, <3>2
  <2>8. Cardinality(valued(n)) \in Nat
    BY <1>1
  <2> HIDE DEF valued
  <2>9. QED
    BY <2>5, <2>6, <2>7, <2>8
<1>5. QED
  BY <1>3, <1>4

\* Where a level is depends on what the levels below it convert.
LEMMA LevelOfSame ==
  ASSUME NEW s, NEW t, NEW n \in Nat, \A i \in 1..(n - 1) : s[i].stage = t[i].stage
  PROVE  Level(s, n) = Level(t, n)
<1>1. {i \in 1..(n - 1) : s[i].stage = "value"} = {i \in 1..(n - 1) : t[i].stage = "value"}
  OBVIOUS
<1>2. QED
  BY <1>1 DEF Level

\* Each level is above those before it.
LEMMA LevelsGrow ==
  ASSUME NEW s, NEW i \in Nat \ {0}, NEW j \in Nat, i < j
  PROVE  Level(s, i) < Level(s, j)
<1> DEFINE T == {n \in Nat : i < n /\ ~(Level(s, i) < Level(s, n))}
<1>1. \A n \in Nat \ {0} : Level(s, n) \in Nat /\ Level(s, n) < Level(s, n + 1)
  <2> TAKE n \in Nat \ {0}
  <2>1. /\ Level(s, n) \in Nat
        /\ Level(s, n + 1) = Level(s, n) + IF s[n].stage = "value" THEN 2 ELSE 1
    BY LevelSteps
  <2>2. QED
    BY <2>1
<1>2. ASSUME T # {} PROVE FALSE
  <2>1. PICK k \in T : \A m \in T : k <= m
    BY <1>2, LeastNumber
  <2>2. k - 1 \in Nat /\ ~(k <= k - 1) /\ k - 1 \notin T /\ k = (k - 1) + 1
    BY <2>1
  <2>3. i = k - 1 \/ i < k - 1
    BY <2>1
  <2>4. Level(s, k - 1) < Level(s, k) /\ Level(s, k - 1) \in Nat /\ Level(s, k) \in Nat
    <3>1. k - 1 \in Nat \ {0} /\ k \in Nat \ {0}
      BY <2>1
    <3>2. QED
      BY <1>1, <2>2, <3>1
  <2>5. i = k - 1 \/ Level(s, i) < Level(s, k - 1)
    BY <2>2, <2>3
  <2>6. Level(s, i) \in Nat
    BY <1>1
  <2>7. Level(s, i) < Level(s, k)
    BY <2>4, <2>5, <2>6
  <2>8. QED
    BY <2>1, <2>7
<1>3. QED
  BY <1>2

-----------------------------------------------------------------------------
(* The invariant, level by level *)

Spot(found, levels, i) == Len(found) + Level(levels, i)

KeyIsOf(sl, t) == \E p \in Range(sl[t].val) : SameKey(p[1], sl[t + 1])

Stands(sl, f, t) ==
  /\ t < Len(sl) /\ sl[t].kind = "table"
  /\ (sl[t + 1].kind = "nil" /\ f.map = {}) \/ KeyIsOf(sl, t)

IsFrame(f) ==
  /\ f = [type |-> f.type, stage |-> f.stage, map |-> f.map, value |-> f.value]
  /\ f.type \in TableTypes /\ IsContainer(f.type) /\ f.stage \in {"value", "key"}
  /\ \A p \in f.map : HasValue(p[1]) /\ HasValue(p[2])

\* Every slot holds a value with a kind of Lua, a table with its pairs.
LEMMA SlotFacts ==
  ASSUME NEW v \in Slots
  PROVE  /\ v.kind \in Kinds
         /\ v.kind = "table" =>
              /\ v \in TableValues /\ v.val \in Seq(TableValues \X TableValues)
              /\ \A i \in DOMAIN v.val : v.val[i][1].kind # "nil"
BY TableAssumption DEF Slots, Nil, Kinds

\* The stack without its top.
LEMMA FrontFacts ==
  ASSUME NEW S, NEW s \in Seq(S), Len(s) > 0
  PROVE  /\ Front(s) \in Seq(S) /\ Len(Front(s)) = Len(s) - 1
         /\ \A i \in 1..(Len(s) - 1) : Front(s)[i] = s[i]
         /\ Last(s) = s[Len(s)] /\ Last(s) \in S
<1>1. IsSequence(s) /\ Len(s) \in Nat /\ DOMAIN s = 1..Len(s)
  BY SeqIsSequence
<1>2. Len(s) - 1 \in 0..Len(s) /\ Len(s) \in 1..Len(s)
  BY <1>1
<1>3. /\ IsSequence(Front(s)) /\ Len(Front(s)) = Len(s) - 1
      /\ \A i \in 1..(Len(s) - 1) : Front(s)[i] = s[i]
  BY <1>1, <1>2, PrefixFacts DEF Front
<1>4. \A i \in 1..Len(s) : s[i] \in S
  BY <1>1
<1>5. \A i \in 1..Len(Front(s)) : Front(s)[i] \in S
  BY <1>1, <1>3, <1>4
<1>6. Front(s) \in Seq(S)
  BY <1>3, <1>5, SequenceOver
<1>7. QED
  BY <1>2, <1>3, <1>4, <1>6 DEF Last

\* The invariant of a state, level by level.
LEMMA LevelFacts ==
  ASSUME TableInductive
  PROVE  /\ slots \in Seq(Slots) /\ under \in Seq(Slots)
         /\ Len(slots) \in Nat /\ Len(under) \in Nat
         /\ IsSequence(frames) /\ Len(frames) \in Nat /\ DOMAIN frames = 1..Len(frames)
         /\ wanted \in TableTypes \cup {Scalar("none")}
         /\ conversion.type.kind = "none" \/ conversion \in Conversions
         /\ \A i \in 1..Len(frames) :
              /\ IsFrame(frames[i])
              /\ Spot(under, frames, i) \in Nat \ {0} /\ Len(under) < Spot(under, frames, i)
              /\ Stands(slots, frames[i], Spot(under, frames, i))
              /\ i < Len(frames) \/ step \notin {"next", "undefined"} => KeyIsOf(slots, Spot(under, frames, i))
              /\ i < Len(frames) => Spot(under, frames, i) + 1 <= Spot(under, frames, Len(frames))
<1>1. /\ slots \in Seq(Slots) /\ under \in Seq(Slots) /\ IsSequence(frames)
      /\ wanted \in TableTypes \cup {Scalar("none")}
      /\ conversion.type.kind = "none" \/ conversion \in Conversions
  BY DEF TableInductive, ShapesAreKept, TableTypeOK, Slots
<1>2. /\ Len(slots) \in Nat /\ Len(under) \in Nat
      /\ Len(frames) \in Nat /\ DOMAIN frames = 1..Len(frames)
  BY <1>1, SequenceIsSeq
<1>3. ASSUME NEW i \in 1..Len(frames)
      PROVE  /\ IsFrame(frames[i])
             /\ Spot(under, frames, i) \in Nat \ {0} /\ Len(under) < Spot(under, frames, i)
             /\ Stands(slots, frames[i], Spot(under, frames, i))
             /\ i < Len(frames) \/ step \notin {"next", "undefined"} => KeyIsOf(slots, Spot(under, frames, i))
             /\ i < Len(frames) => Spot(under, frames, i) + 1 <= Spot(under, frames, Len(frames))
  <2>1. IsFrame(frames[i])
    BY <1>2, <1>3 DEF TableInductive, ShapesAreKept, TableTypeOK, IsFrame
  <2>2. TableAt[i] = Spot(under, frames, i)
    BY <1>2, <1>3 DEF TableAt, Spot
  <2>3. Stands(slots, frames[i], Spot(under, frames, i))
    BY <1>2, <1>3, <2>2 DEF TableInductive, LevelsAreIntact, Stands, KeyIsOf
  <2>4. i < Len(frames) \/ step \notin {"next", "undefined"} => KeyIsOf(slots, Spot(under, frames, i))
    BY <1>2, <1>3, <2>2 DEF TableInductive, KeysAreTheirs, KeyIsOf
  <2>5. i \in Nat \ {0} /\ Level(frames, i) \in Nat /\ i <= Level(frames, i)
    <3>1. i \in Nat \ {0}
      BY <1>2, <1>3
    <3>2. QED
      BY <3>1, LevelSteps
  <2>6. Spot(under, frames, i) \in Nat \ {0} /\ Len(under) < Spot(under, frames, i)
    BY <1>2, <2>5 DEF Spot
  <2>7. ASSUME i < Len(frames) PROVE Spot(under, frames, i) + 1 <= Spot(under, frames, Len(frames))
    <3>1. Level(frames, i) < Level(frames, Len(frames))
      BY <1>2, <2>5, <2>7, LevelsGrow
    <3>2. Len(frames) \in Nat \ {0}
      BY <1>2, <2>5, <2>7
    <3>3. Level(frames, Len(frames)) \in Nat
      BY <3>2, LevelSteps
    <3>4. QED
      BY <1>2, <2>5, <3>1, <3>3 DEF Spot
  <2>8. QED
    BY <2>1, <2>3, <2>4, <2>6, <2>7
<1>4. QED
  BY <1>1, <1>2, <1>3

\* The types of a state after a step, from those of its parts.
LEMMA ShapesAfter ==
  ASSUME step' \in {"idle", "top", "next", "return"},
         wanted' \in TableTypes \cup {Scalar("none")},
         conversion'.type.kind = "none" \/ conversion' \in Conversions,
         slots' \in Seq(Slots), under' \in Seq(Slots), IsSequence(frames'),
         \A i \in 1..Len(frames') : IsFrame(frames'[i])
  PROVE  ShapesAreKept'
<1>1. DOMAIN frames' = 1..Len(frames') /\ DOMAIN slots' = 1..Len(slots')
  BY SequenceIsSeq
<1>2. \A i \in DOMAIN slots' : slots'[i].kind \in Kinds
  <2>1. \A i \in DOMAIN slots' : slots'[i] \in Slots
    BY <1>1
  <2>2. QED
    BY <2>1, SlotFacts
<1>3. wanted'.kind \in {"none", "bool", "int", "double", "string", "map", "array"}
  BY TableAssumption DEF Scalar
<1>4. TableTypeOK'
  BY <1>1, <1>2, <1>3 DEF TableTypeOK, IsFrame
<1>5. QED
  BY <1>1, <1>4 DEF ShapesAreKept, IsFrame, Slots

\* The levels of a state after a step, one by one.
LEMMA LevelsAfter ==
  ASSUME IsSequence(frames'), step' # "panic",
         step' = "next" => Len(slots') - 1 = Spot(under', frames', Len(frames')) /\ Len(frames') \in 1..Len(frames'),
         \A i \in 1..Len(frames') :
           /\ Stands(slots', frames'[i], Spot(under', frames', i))
           /\ i < Len(frames') \/ step' # "next" => KeyIsOf(slots', Spot(under', frames', i))
  PROVE  LevelsAreIntact' /\ KeysAreTheirs'
<1>1. DOMAIN frames' = 1..Len(frames')
  BY SequenceIsSeq
<1>2. \A i \in 1..Len(frames') : TableAt'[i] = Spot(under', frames', i)
  BY <1>1 DEF TableAt, Spot
<1>3. LevelsAreIntact'
  BY <1>1, <1>2 DEF LevelsAreIntact, TableIndex, Stands, KeyIsOf
<1>4. KeysAreTheirs'
  BY <1>1, <1>2 DEF KeysAreTheirs, KeyIsOf
<1>5. QED
  BY <1>3, <1>4

-----------------------------------------------------------------------------
(* The steps *)

\* Nothing changes while no step is taken, and no level when the value at
\* hand is none that has levels (TopValue).
LEMMA TopValueKeeps == TableInductive /\ TopValue => TableInductive'
<1> SUFFICES ASSUME TableInductive, TopValue PROVE TableInductive'
  OBVIOUS
<1>1. /\ step = "top" /\ step' = "return"
      /\ UNCHANGED <<wanted, slots, frames, conversion, under>>
  BY DEF TopValue, Answer
<1>2. ShapesAreKept'
  BY <1>1, LevelFacts, ShapesAfter
<1>3. LevelsFit'
  BY <1>1 DEF TableInductive, LevelsFit
<1>4. \A i \in 1..Len(frames) : Spot(under', frames', i) = Spot(under, frames, i)
  BY <1>1 DEF Spot
<1>5. LevelsAreIntact' /\ KeysAreTheirs'
  <2>1. \A i \in 1..Len(frames) : Stands(slots, frames[i], Spot(under, frames, i)) /\ KeyIsOf(slots, Spot(under, frames, i))
    BY <1>1, LevelFacts
  <2>2. QED
    BY <1>1, <1>4, <2>1, LevelFacts, LevelsAfter
<1>6. TableIsTaken'
  BY <1>1 DEF TableIsTaken
<1>7. QED
  BY <1>2, <1>3, <1>5, <1>6 DEF TableInductive

\* A new conversion has no level yet (Request).
LEMMA RequestKeeps ==
  ASSUME TableInductive, NEW r \in Conversions, Request(r)
  PROVE  TableInductive'
<1>1. /\ step = "idle" /\ step' = "top" /\ conversion' = r /\ wanted' = r.type
      /\ under' = slots /\ slots' = Append(slots, r.value) /\ frames' = frames
  BY DEF Request
<1>2. frames = <<>> /\ Len(frames) = 0 /\ IsSequence(frames)
  BY <1>1, EmptyIsSequence DEF TableInductive, LevelsFit
<1>3. r.type \in TableTypes /\ r.value \in Slots
  BY TableAssumption DEF Slots
<1>4. slots \in Seq(Slots) /\ Len(slots) \in Nat
  BY LevelFacts
<1>5. /\ slots' \in Seq(Slots) /\ Len(slots') = Len(slots) + 1
      /\ slots'[Len(slots) + 1] = r.value
      /\ \A i \in 1..Len(slots) : slots'[i] = slots[i]
  BY <1>1, <1>3, <1>4
<1>6. ShapesAreKept'
  BY <1>1, <1>2, <1>3, <1>4, <1>5, ShapesAfter
<1>7. LevelsFit'
  <2>1. Level(frames', Len(frames') + 1) = 1
    BY <1>1, <1>2, LevelSteps
  <2>2. QED
    BY <1>1, <1>4, <1>5, <2>1 DEF LevelsFit
<1>8. LevelsAreIntact' /\ KeysAreTheirs'
  BY <1>1, <1>2, LevelsAfter
<1>9. TableIsTaken'
  BY <1>1 DEF TableIsTaken
<1>10. QED
  BY <1>6, <1>7, <1>8, <1>9 DEF TableInductive

\* A new level has its table where the value or the key of the level below
\* is, and no key yet (StartMap).
LEMMA StartMapKeeps == TableInductive /\ StartMap => TableInductive'
<1> SUFFICES ASSUME TableInductive, StartMap PROVE TableInductive'
  OBVIOUS
<1> DEFINE n == Len(frames)
           f == [type |-> wanted, stage |-> "value", map |-> {}, value |-> NoValue]
<1>1. /\ step = "top" /\ step' = "next" /\ IsContainer(wanted)
      /\ Last(slots).kind = "table"
      /\ frames' = Append(frames, f) /\ slots' = Append(slots, Nil)
      /\ UNCHANGED <<wanted, conversion, under>>
  BY DEF StartMap, MapStarts
<1>2. /\ slots \in Seq(Slots) /\ Len(slots) \in Nat /\ Len(under) \in Nat
      /\ IsSequence(frames) /\ n \in Nat /\ under \in Seq(Slots)
  BY LevelFacts
<1>3. /\ slots' \in Seq(Slots) /\ Len(slots') = Len(slots) + 1
      /\ slots'[Len(slots) + 1] = Nil
      /\ \A i \in 1..Len(slots) : slots'[i] = slots[i]
  BY <1>1, <1>2 DEF Slots
<1>4. /\ IsSequence(frames') /\ Len(frames') = n + 1 /\ frames'[n + 1] = f
      /\ \A i \in 1..n : frames'[i] = frames[i]
  BY <1>1, <1>2, AppendFacts
<1>5. Len(slots) = Spot(under, frames, n + 1) /\ Len(under) < Len(slots)
  BY <1>1 DEF TableInductive, LevelsFit, Spot
<1>6. \A i \in 1..(n + 1) : Spot(under', frames', i) = Spot(under, frames, i)
  <2> TAKE i \in 1..(n + 1)
  <2>1. \A j \in 1..(i - 1) : frames'[j].stage = frames[j].stage
    BY <1>2, <1>4
  <2>2. i \in Nat
    BY <1>2
  <2>3. Level(frames', i) = Level(frames, i)
    BY <2>1, <2>2, LevelOfSame
  <2>4. QED
    BY <1>1, <2>3 DEF Spot
<1>7. IsFrame(f)
  BY <1>1, LevelFacts DEF IsFrame, IsContainer, Scalar
<1> HIDE DEF f
<1>8. ShapesAreKept'
  <2>1. \A i \in 1..(n + 1) : IsFrame(frames'[i])
    <3> TAKE i \in 1..(n + 1)
    <3>1. CASE i \in 1..n
      BY <1>4, <3>1, LevelFacts
    <3>2. CASE i = n + 1
      BY <1>4, <1>7, <3>2
    <3>3. QED
      BY <1>2, <3>1, <3>2
  <2>2. QED
    BY <1>1, <1>2, <1>3, <1>4, <2>1, LevelFacts, ShapesAfter
<1>9. LevelsFit'
  <2>1. \A i \in 1..Len(under) : slots[i] = under[i]
    BY <1>1 DEF TableInductive, LevelsFit
  <2>2. slots[Len(under) + 1] = conversion.value /\ Len(under) + 1 \in 1..Len(slots)
    BY <1>1, <1>2, <1>5 DEF TableInductive, LevelsFit
  <2>3. \A i \in 1..Len(under) : i \in 1..Len(slots)
    BY <1>2, <1>5
  <2>4. Len(slots') = Spot(under', frames', Len(frames')) + 1 /\ frames' # <<>>
    <3>1. Len(frames') = n + 1 /\ n + 1 \in 1..(n + 1)
      BY <1>2, <1>4
    <3>2. Spot(under', frames', Len(frames')) = Len(slots)
      BY <1>5, <1>6, <3>1
    <3>3. frames' # <<>>
      BY <1>2, <3>1, EmptyIsSequence
    <3>4. QED
      BY <1>3, <3>2, <3>3
  <2>5. QED
    BY <1>1, <1>2, <1>3, <1>5, <2>1, <2>2, <2>3, <2>4 DEF LevelsFit, Spot
<1>10. LevelsAreIntact' /\ KeysAreTheirs'
  <2>1. ASSUME NEW i \in 1..n
        PROVE  Stands(slots', frames'[i], Spot(under', frames', i)) /\ KeyIsOf(slots', Spot(under', frames', i))
    <3>1. /\ Stands(slots, frames[i], Spot(under, frames, i)) /\ KeyIsOf(slots, Spot(under, frames, i))
          /\ Spot(under, frames, i) \in Nat \ {0} /\ Spot(under, frames, i) < Len(slots)
      BY <1>1, LevelFacts DEF Stands
    <3>2. Spot(under, frames, i) \in 1..Len(slots) /\ Spot(under, frames, i) + 1 \in 1..Len(slots)
      BY <1>2, <3>1
    <3>3. Spot(under', frames', i) = Spot(under, frames, i) /\ frames'[i] = frames[i]
      BY <1>2, <1>4, <1>6
    <3>4. slots'[Spot(under, frames, i)] = slots[Spot(under, frames, i)] /\ slots'[Spot(under, frames, i) + 1] = slots[Spot(under, frames, i) + 1]
      BY <1>3, <3>2
    <3>5. QED
      BY <1>2, <1>3, <3>1, <3>3, <3>4 DEF Stands, KeyIsOf
  <2>2. Stands(slots', frames'[n + 1], Spot(under', frames', n + 1))
    <3>1. Spot(under', frames', n + 1) = Len(slots) /\ Len(slots) \in 1..Len(slots)
      BY <1>2, <1>5, <1>6
    <3>2. slots'[Len(slots)].kind = "table"
      BY <1>1, <1>3, <3>1 DEF Last
    <3>3. Nil.kind = "nil" /\ f.map = {}
      BY DEF Nil, f
    <3>4. QED
      BY <1>2, <1>3, <1>4, <3>1, <3>2, <3>3 DEF Stands
  <2>3. Len(slots') - 1 = Spot(under', frames', Len(frames')) /\ Len(frames') \in 1..Len(frames')
    BY <1>2, <1>3, <1>4, <1>5, <1>6
  <2>4. \A i \in 1..Len(frames') : i < Len(frames') \/ step' # "next" => i \in 1..n
    BY <1>1, <1>2, <1>4
  <2>5. \A i \in 1..Len(frames') : i \in 1..n \/ i = n + 1
    BY <1>2, <1>4
  <2>6. \A i \in 1..Len(frames') : Stands(slots', frames'[i], Spot(under', frames', i))
    BY <2>1, <2>2, <2>5
  <2>7. QED
    BY <1>1, <1>4, <2>1, <2>3, <2>4, <2>6, LevelsAfter
<1>11. TableIsTaken'
  BY <1>1 DEF TableIsTaken
<1>12. QED
  BY <1>8, <1>9, <1>10, <1>11 DEF TableInductive

\* A sequence of which one element has been replaced.
IsReplaced(t, s, k, v) ==
  /\ IsSequence(t) /\ Len(t) = Len(s) /\ t[k] = v
  /\ \A i \in 1..Len(s) : i # k => t[i] = s[i]

\* EXCEPT, at an index of the sequence, gives such a sequence.
LEMMA ExceptFacts ==
  ASSUME NEW s, IsSequence(s), NEW k \in 1..Len(s), NEW v
  PROVE  IsReplaced([s EXCEPT ![k] = v], s, k, v)
<1> DEFINE S == {s[i] : i \in 1..Len(s)} \cup {v}
           t == [s EXCEPT ![k] = v]
<1>1. s \in Seq(S) /\ v \in S /\ DOMAIN s = 1..Len(s)
  BY SequenceOver, SequenceIsSeq
<1> HIDE DEF S
<1>2. t \in Seq(S) /\ Len(t) = Len(s)
  BY <1>1, ExceptSeq
<1>3. t[k] = v /\ \A i \in 1..Len(s) : i # k => t[i] = s[i]
  BY <1>1
<1>4. QED
  BY <1>2, <1>3, SeqIsSequence DEF IsReplaced

\* What a step leaves as it was: the stack up to the table of the innermost
\* level, and all levels below that.
KeptBelow(n) ==
  /\ IsSequence(frames') /\ under' = under /\ conversion' = conversion
  /\ Len(frames') \in {n - 1, n}
  /\ \A i \in 1..(n - 1) : frames'[i] = frames[i]
  /\ slots' \in Seq(Slots) /\ Spot(under, frames, n) <= Len(slots')
  /\ \A j \in 1..Spot(under, frames, n) : slots'[j] = slots[j]

StandBelow(n) ==
  /\ \A i \in 1..(n - 1) :
       /\ Stands(slots', frames'[i], Spot(under', frames', i))
       /\ KeyIsOf(slots', Spot(under', frames', i))
  /\ Spot(under', frames', n) = Spot(under, frames, n)
  /\ Len(under') < Len(slots')
  /\ \A i \in 1..Len(under') : slots'[i] = under'[i]
  /\ slots'[Len(under') + 1] = conversion'.value

\* Then the levels below stand where they stood, with their keys.
LEMMA BelowIsKept ==
  ASSUME TableInductive, step # "idle", NEW n, n = Len(frames), n \in Nat \ {0}, KeptBelow(n)
  PROVE  StandBelow(n)
<1> DEFINE t == Spot(under, frames, n)
<1>1. /\ Len(slots) \in Nat /\ Len(under) \in Nat /\ Len(slots') \in Nat
      /\ t \in Nat \ {0} /\ Len(under) < t /\ t < Len(slots)
      /\ \A i \in 1..(n - 1) :
           /\ Spot(under, frames, i) \in Nat \ {0}
           /\ Stands(slots, frames[i], Spot(under, frames, i))
           /\ KeyIsOf(slots, Spot(under, frames, i))
           /\ Spot(under, frames, i) + 1 <= t
  <2>1. n \in 1..n /\ \A i \in 1..(n - 1) : i \in 1..n /\ i < n
    OBVIOUS
  <2>2. Len(slots') \in Nat
    BY DEF KeptBelow
  <2>3. QED
    BY <2>1, <2>2, LevelFacts DEF Stands
<1>2. \A i \in 1..n : Spot(under', frames', i) = Spot(under, frames, i)
  <2> TAKE i \in 1..n
  <2>1. \A j \in 1..(i - 1) : frames'[j].stage = frames[j].stage
    BY DEF KeptBelow
  <2>2. i \in Nat
    OBVIOUS
  <2>3. Level(frames', i) = Level(frames, i)
    BY <2>1, <2>2, LevelOfSame
  <2>4. QED
    BY <2>3 DEF Spot, KeptBelow
<1>3. \A j \in 1..t : slots'[j] = slots[j]
  BY DEF KeptBelow
<1>4. t <= Len(slots') /\ under' = under /\ conversion' = conversion
  BY DEF KeptBelow
<1> HIDE DEF t
<1>5. ASSUME NEW i \in 1..(n - 1)
      PROVE  /\ Stands(slots', frames'[i], Spot(under', frames', i))
             /\ KeyIsOf(slots', Spot(under', frames', i))
  <2> DEFINE q == Spot(under, frames, i)
  <2>1. q \in Nat \ {0} /\ q + 1 <= t
    BY <1>1
  <2>2. Spot(under', frames', i) = q /\ frames'[i] = frames[i]
    BY <1>2 DEF KeptBelow
  <2>3. Stands(slots, frames[i], q) /\ KeyIsOf(slots, q)
    BY <1>1
  <2> HIDE DEF q
  <2>4. q \in 1..t /\ q + 1 \in 1..t /\ q < Len(slots')
    BY <1>1, <1>4, <2>1
  <2>5. slots'[q] = slots[q] /\ slots'[q + 1] = slots[q + 1]
    BY <1>3, <2>4
  <2>6. QED
    BY <2>2, <2>3, <2>4, <2>5 DEF Stands, KeyIsOf
<1>6. Spot(under', frames', n) = Spot(under, frames, n)
  BY <1>2
<1>7. /\ Len(under') < Len(slots')
      /\ \A i \in 1..Len(under') : slots'[i] = under'[i]
      /\ slots'[Len(under') + 1] = conversion'.value
  <2>1. \A i \in 1..Len(under) : i \in 1..t
    BY <1>1
  <2>2. Len(under) + 1 \in 1..t
    BY <1>1
  <2>3. /\ \A i \in 1..Len(under) : slots[i] = under[i]
        /\ slots[Len(under) + 1] = conversion.value
    BY DEF TableInductive, LevelsFit
  <2>4. QED
    BY <1>1, <1>3, <1>4, <2>1, <2>2, <2>3
<1>8. QED
  BY <1>5, <1>6, <1>7 DEF StandBelow

\* A state in which the levels below the innermost are as before, and that
\* one stands with its key.
LEMMA InnermostStands ==
  ASSUME TableInductive, step # "idle", NEW n, n = Len(frames), n \in Nat \ {0}, KeptBelow(n),
         step' \in {"top", "next", "return"}, wanted' \in TableTypes \cup {Scalar("none")},
         Len(frames') = n, IsFrame(frames'[n]),
         Stands(slots', frames'[n], Spot(under, frames, n)),
         step' # "next" => /\ KeyIsOf(slots', Spot(under, frames, n))
                           /\ Len(slots') = Spot(under, frames, n)
                                + IF frames'[n].stage = "value" THEN 2 ELSE 1,
         step' = "next" => Len(slots') = Spot(under, frames, n) + 1
  PROVE  TableInductive'
<1>1. StandBelow(n)
  BY BelowIsKept
<1>2. /\ IsSequence(frames') /\ slots' \in Seq(Slots) /\ under' = under
      /\ conversion' = conversion /\ under \in Seq(Slots)
      /\ Len(slots') \in Nat /\ Len(under) \in Nat
  BY LevelFacts DEF KeptBelow
<1>3. \A i \in 1..n : i = n \/ i \in 1..(n - 1)
  OBVIOUS
<1>4. \A i \in 1..n : IsFrame(frames'[i])
  <2>1. \A i \in 1..(n - 1) : i \in 1..Len(frames) /\ frames'[i] = frames[i]
    BY DEF KeptBelow
  <2>2. \A i \in 1..(n - 1) : IsFrame(frames'[i])
    BY <2>1, LevelFacts
  <2>3. QED
    BY <1>3, <2>2
<1>5. ShapesAreKept'
  BY <1>2, <1>4, LevelFacts, ShapesAfter
<1>6. /\ Level(frames', n) \in Nat
      /\ Level(frames', n + 1) = Level(frames', n) + IF frames'[n].stage = "value" THEN 2 ELSE 1
  BY LevelSteps
<1>7. Spot(under', frames', n) = Spot(under, frames, n)
  BY <1>1 DEF StandBelow
<1>8. LevelsFit'
  <2>1. step' # "next" => Len(slots') = Len(under') + Level(frames', Len(frames') + 1)
    <3>1. Spot(under', frames', n) = Len(under) + Level(frames', n)
      BY <1>2 DEF Spot
    <3>2. QED
      BY <1>2, <1>6, <1>7, <3>1
  <2>2. step' = "next" => Len(slots') = Len(under') + Level(frames', Len(frames')) + 1
    BY <1>2, <1>6, <1>7 DEF Spot
  <2>3. frames' # <<>>
    BY EmptyIsSequence
  <2>4. QED
    BY <1>1, <2>1, <2>2, <2>3 DEF LevelsFit, StandBelow
<1>9. LevelsAreIntact' /\ KeysAreTheirs'
  <2>1. \A i \in 1..n : Stands(slots', frames'[i], Spot(under', frames', i))
    BY <1>1, <1>3, <1>7 DEF StandBelow
  <2>2. \A i \in 1..n : i < n \/ step' # "next" => KeyIsOf(slots', Spot(under', frames', i))
    BY <1>1, <1>3, <1>7 DEF StandBelow
  <2>3. step' = "next" => Len(slots') - 1 = Spot(under', frames', Len(frames'))
    <3>1. Spot(under, frames, n) \in Nat
      BY LevelFacts
    <3>2. QED
      BY <1>2, <1>7, <3>1
  <2>4. QED
    BY <1>2, <2>1, <2>2, <2>3, LevelsAfter
<1>10. TableIsTaken'
  BY DEF TableIsTaken
<1>11. QED
  BY <1>5, <1>8, <1>9, <1>10 DEF TableInductive

\* A state in which the innermost level has come to its end.
LEMMA InnermostEnds ==
  ASSUME TableInductive, step # "idle", NEW n, n = Len(frames), n \in Nat \ {0}, KeptBelow(n),
         step' = "return", wanted' = wanted,
         Len(frames') = n - 1, Len(slots') = Spot(under, frames, n)
  PROVE  TableInductive'
<1>1. StandBelow(n)
  BY BelowIsKept
<1>2. /\ IsSequence(frames') /\ slots' \in Seq(Slots) /\ under' = under
      /\ conversion' = conversion /\ under \in Seq(Slots)
  BY LevelFacts DEF KeptBelow
<1>3. \A i \in 1..(n - 1) : IsFrame(frames'[i])
  <2>1. \A i \in 1..(n - 1) : i \in 1..Len(frames) /\ frames'[i] = frames[i]
    BY DEF KeptBelow
  <2>2. QED
    BY <2>1, LevelFacts
<1>4. ShapesAreKept'
  BY <1>2, <1>3, LevelFacts, ShapesAfter
<1>5. LevelsFit'
  <2>1. Len(slots') = Spot(under', frames', n) /\ Len(frames') + 1 = n
    BY <1>1 DEF StandBelow
  <2>2. QED
    BY <1>1, <2>1 DEF LevelsFit, StandBelow, Spot
<1>6. LevelsAreIntact' /\ KeysAreTheirs'
  BY <1>1, <1>2, LevelsAfter DEF StandBelow
<1>7. TableIsTaken'
  BY DEF TableIsTaken
<1>8. QED
  BY <1>4, <1>5, <1>6, <1>7 DEF TableInductive

\* The innermost level: its table, its key above that, and above both the
\* value while it is being converted.
LEMMA InnermostFacts ==
  ASSUME TableInductive, frames # <<>>, step \in {"top", "next", "return"}
  PROVE  \E n, t \in Nat \ {0} :
           /\ n = Len(frames) /\ t = Spot(under, frames, n)
           /\ Innermost = frames[n] /\ IsFrame(frames[n])
           /\ Stands(slots, frames[n], t) /\ (step # "next" => KeyIsOf(slots, t))
           /\ Len(slots) = t + IF step # "next" /\ frames[n].stage = "value" THEN 2 ELSE 1
<1> DEFINE n == Len(frames)
           t == Spot(under, frames, n)
<1>1. n \in Nat \ {0}
  <2>1. IsSequence(frames) /\ Len(frames) \in Nat
    BY LevelFacts
  <2>2. frames # <<>> => Len(frames) # 0
    BY <2>1, EmptyIsSequence, SameSequence
  <2>3. QED
    BY <2>1, <2>2
<1>2. n \in 1..Len(frames)
  BY <1>1
<1>3. /\ t \in Nat \ {0} /\ IsFrame(frames[n])
      /\ Stands(slots, frames[n], t) /\ (step # "next" => KeyIsOf(slots, t))
  BY <1>2, LevelFacts
<1>4. /\ Level(frames, n) \in Nat
      /\ Level(frames, n + 1) = Level(frames, n) + IF frames[n].stage = "value" THEN 2 ELSE 1
  BY <1>1, LevelSteps
<1>5. Len(slots) = t + IF step # "next" /\ frames[n].stage = "value" THEN 2 ELSE 1
  <2>1. Len(under) \in Nat
    BY LevelFacts
  <2>2. step = "next" => Len(slots) = Len(under) + Level(frames, n) + 1
    BY DEF TableInductive, LevelsFit
  <2>3. step # "next" => Len(slots) = Len(under) + Level(frames, n + 1)
    BY DEF TableInductive, LevelsFit
  <2>4. t = Len(under) + Level(frames, n)
    BY DEF Spot
  <2> HIDE DEF t, n
  <2>5. QED
    BY <1>4, <2>1, <2>2, <2>3, <2>4
<1>6. Innermost = frames[n]
  BY DEF Innermost
<1>7. QED
  BY <1>1, <1>3, <1>5, <1>6

\* The value of the innermost level is popped; its key is left on the stack,
\* and is looked at next (PopValue).
LEMMA PopValueKeeps == TableInductive /\ PopValue => TableInductive'
<1> SUFFICES ASSUME TableInductive, PopValue PROVE TableInductive'
  OBVIOUS
<1>1. PICK n, t \in Nat \ {0} :
        /\ n = Len(frames) /\ t = Spot(under, frames, n)
        /\ Innermost = frames[n] /\ IsFrame(frames[n])
        /\ Stands(slots, frames[n], t) /\ KeyIsOf(slots, t)
        /\ Len(slots) = t + IF step # "next" /\ frames[n].stage = "value" THEN 2 ELSE 1
  BY InnermostFacts DEF PopValue
<1> DEFINE g == [frames[n] EXCEPT !.value = answer, !.stage = "key"]
<1>2. /\ step = "return" /\ step' = "top" /\ frames[n].stage = "value"
      /\ slots' = Front(slots) /\ frames' = [frames EXCEPT ![n] = g]
      /\ wanted' = frames[n].type.key /\ UNCHANGED <<conversion, under>>
  BY <1>1 DEF PopValue
<1>3. /\ slots \in Seq(Slots) /\ Len(slots) = t + 2
      /\ IsSequence(frames) /\ n \in 1..Len(frames)
  BY <1>1, <1>2, LevelFacts
<1>4. /\ slots' \in Seq(Slots) /\ Len(slots') = t + 1
      /\ \A i \in 1..(t + 1) : slots'[i] = slots[i]
  <2>1. Len(slots) > 0 /\ Len(slots) - 1 = t + 1
    BY <1>3
  <2>2. QED
    BY <1>2, <1>3, <2>1, FrontFacts
<1>5. g.map = frames[n].map /\ g.stage = "key" /\ IsFrame(g)
  <2> DEFINE h == [frames[n] EXCEPT !.value = answer]
  <2>1. IsFrame(h) /\ h.map = frames[n].map
    BY <1>1 DEF IsFrame
  <2>2. g = [h EXCEPT !.stage = "key"]
    OBVIOUS
  <2> HIDE DEF h
  <2> HIDE DEF g
  <2>3. QED
    BY <2>1, <2>2 DEF IsFrame
<1>6. wanted' \in TableTypes
  BY <1>1, <1>2, TableAssumption DEF IsFrame
<1> HIDE DEF g
<1>7. /\ IsSequence(frames') /\ Len(frames') = n /\ frames'[n] = g
      /\ \A i \in 1..(n - 1) : frames'[i] = frames[i]
  <2>1. \A i \in 1..(n - 1) : i \in 1..n /\ i # n
    OBVIOUS
  <2>2. IsSequence(frames) /\ n \in 1..Len(frames)
    BY <1>3
  <2>3. IsReplaced([frames EXCEPT ![n] = g], frames, n, g)
    BY <2>2, ExceptFacts, Zenon
  <2>4. IsReplaced(frames', frames, n, g)
    <3>1. frames' = [frames EXCEPT ![n] = g]
      BY <1>2
    <3>2. QED
      BY <2>3, <3>1, Zenon
  <2>5. QED
    BY <1>1, <2>1, <2>4 DEF IsReplaced
<1>8. KeptBelow(n)
  BY <1>1, <1>2, <1>4, <1>7 DEF KeptBelow
<1>9. slots'[t] = slots[t] /\ slots'[t + 1] = slots[t + 1] /\ t < Len(slots')
  BY <1>4
<1>10. Stands(slots', g, t) /\ KeyIsOf(slots', t)
  BY <1>1, <1>5, <1>9 DEF Stands, KeyIsOf
<1>11. QED
  BY <1>1, <1>2, <1>4, <1>5, <1>6, <1>7, <1>8, <1>10, InnermostStands

\* A pair is taken, and the key stays where lua_next looks for it (TakePair).
LEMMA TakePairKeeps == TableInductive /\ TakePair => TableInductive'
<1> SUFFICES ASSUME TableInductive, TakePair PROVE TableInductive'
  OBVIOUS
<1>1. PICK n, t \in Nat \ {0} :
        /\ n = Len(frames) /\ t = Spot(under, frames, n)
        /\ Innermost = frames[n] /\ IsFrame(frames[n])
        /\ Stands(slots, frames[n], t) /\ KeyIsOf(slots, t)
        /\ Len(slots) = t + IF step # "next" /\ frames[n].stage = "value" THEN 2 ELSE 1
  BY InnermostFacts DEF TakePair
<1> DEFINE map == Emplace(frames[n].map, answer, frames[n].value)
           g == [frames[n] EXCEPT !.map = map]
<1>2. /\ step = "return" /\ step' = "next" /\ frames[n].stage = "key"
      /\ HasValue(answer) /\ HasValue(frames[n].value)
      /\ UNCHANGED <<slots, wanted, conversion, under>>
  BY <1>1 DEF TakePair
<1>3. frames' = [frames EXCEPT ![n] = g]
  BY <1>1 DEF TakePair
<1>4. /\ slots \in Seq(Slots) /\ Len(slots) = t + 1
      /\ IsSequence(frames) /\ n \in 1..Len(frames)
  BY <1>1, <1>2, LevelFacts
<1>5. \A p \in map : HasValue(p[1]) /\ HasValue(p[2])
  BY <1>1, <1>2 DEF IsFrame, Emplace
<1> HIDE DEF map
<1>6. g.map = map /\ IsFrame(g)
  BY <1>1, <1>5 DEF IsFrame
<1> HIDE DEF g
<1>7. /\ IsSequence(frames') /\ Len(frames') = n /\ frames'[n] = g
      /\ \A i \in 1..(n - 1) : frames'[i] = frames[i]
  <2>1. \A i \in 1..(n - 1) : i \in 1..n /\ i # n
    OBVIOUS
  <2>2. IsSequence(frames) /\ n \in 1..Len(frames)
    BY <1>4
  <2>3. IsReplaced([frames EXCEPT ![n] = g], frames, n, g)
    BY <2>2, ExceptFacts, Zenon
  <2>4. IsReplaced(frames', frames, n, g)
    <3>1. frames' = [frames EXCEPT ![n] = g]
      BY <1>3
    <3>2. QED
      BY <2>3, <3>1, Zenon
  <2>5. QED
    BY <1>1, <2>1, <2>4 DEF IsReplaced
<1>8. KeptBelow(n)
  BY <1>1, <1>2, <1>4, <1>7 DEF KeptBelow
<1>9. Stands(slots', g, t)
  BY <1>1, <1>2 DEF Stands
<1>10. QED
  BY <1>1, <1>2, <1>4, <1>6, <1>7, <1>8, <1>9, LevelFacts, InnermostStands

\* A key or value of another type: the key is discarded, and the table is on
\* top again (AbortMap).
LEMMA AbortMapKeeps == TableInductive /\ AbortMap => TableInductive'
<1> SUFFICES ASSUME TableInductive, AbortMap PROVE TableInductive'
  OBVIOUS
<1>1. PICK n, t \in Nat \ {0} :
        /\ n = Len(frames) /\ t = Spot(under, frames, n)
        /\ Innermost = frames[n]
        /\ Len(slots) = t + IF step # "next" /\ frames[n].stage = "value" THEN 2 ELSE 1
  BY InnermostFacts DEF AbortMap
<1>2. /\ step = "return" /\ step' = "return" /\ frames[n].stage = "key"
      /\ slots' = Front(slots) /\ frames' = SubSeq(frames, 1, n - 1)
      /\ UNCHANGED <<wanted, conversion, under>>
  BY <1>1 DEF AbortMap, Answer, Outer
<1>3. /\ slots \in Seq(Slots) /\ Len(slots) = t + 1
      /\ IsSequence(frames) /\ n - 1 \in 0..Len(frames)
  BY <1>1, <1>2, LevelFacts
<1>4. /\ slots' \in Seq(Slots) /\ Len(slots') = t
      /\ \A i \in 1..t : slots'[i] = slots[i]
  <2>1. Len(slots) > 0 /\ Len(slots) - 1 = t
    BY <1>3
  <2>2. QED
    BY <1>2, <1>3, <2>1, FrontFacts
<1>5. /\ IsSequence(frames') /\ Len(frames') = n - 1
      /\ \A i \in 1..(n - 1) : frames'[i] = frames[i]
  BY <1>2, <1>3, PrefixFacts
<1>6. KeptBelow(n)
  BY <1>1, <1>2, <1>4, <1>5 DEF KeptBelow
<1>7. QED
  BY <1>1, <1>2, <1>4, <1>5, <1>6, InnermostEnds

\* While the innermost level is walked over, its table is right below the key
\* and has that key: lua_next does not fail (pushNextTableItem).
LEMMA IterationGoesOn ==
  ASSUME TableInductive, step = "next"
  PROVE  /\ ~IterationIsBroken /\ TableIndex = Spot(under, frames, Len(frames))
         /\ PairsBelow \in Seq(TableValues \X TableValues)
         /\ \A i \in DOMAIN PairsBelow : PairsBelow[i][1].kind # "nil"
         /\ Position(Last(slots)) \in 0..Len(PairsBelow)
<1>1. frames # <<>>
  BY DEF TableInductive, LevelsFit
<1>2. PICK n, t \in Nat \ {0} :
        /\ n = Len(frames) /\ t = Spot(under, frames, n)
        /\ Innermost = frames[n] /\ Stands(slots, frames[n], t)
        /\ Len(slots) = t + IF step # "next" /\ frames[n].stage = "value" THEN 2 ELSE 1
  BY <1>1, InnermostFacts
<1>3. Len(slots) = t + 1 /\ TableIndex = t /\ Last(slots) = slots[t + 1]
  BY <1>2 DEF TableIndex, Last
<1>4. slots[t] \in Slots /\ slots[t].kind = "table"
  <2>1. slots \in Seq(Slots) /\ t \in 1..Len(slots)
    BY <1>3, LevelFacts
  <2>2. QED
    BY <1>2, <2>1 DEF Stands
<1>5. /\ PairsBelow \in Seq(TableValues \X TableValues)
      /\ \A i \in DOMAIN PairsBelow : PairsBelow[i][1].kind # "nil"
  BY <1>3, <1>4, SlotFacts DEF PairsBelow
<1>6. Last(slots).kind = "nil" \/ Positions(Last(slots)) # {}
  BY <1>2, <1>3 DEF Stands, KeyIsOf, Positions, PairsBelow, Range
<1>7. ~IterationIsBroken
  BY <1>2, <1>3, <1>4, <1>6 DEF IterationIsBroken
<1>8. Position(Last(slots)) \in 0..Len(PairsBelow)
  <2>1. Len(PairsBelow) \in Nat /\ DOMAIN PairsBelow = 1..Len(PairsBelow)
    BY <1>5
  <2>2. CASE Last(slots).kind = "nil"
    BY <2>1, <2>2 DEF Position
  <2>3. CASE Last(slots).kind # "nil"
    <3>1. Position(Last(slots)) \in Positions(Last(slots))
      BY <1>6, <2>3 DEF Position
    <3>2. Position(Last(slots)) \in DOMAIN PairsBelow
      BY <3>1 DEF Positions
    <3>3. QED
      BY <2>1, <3>2
  <2>4. QED
    BY <2>2, <2>3
<1>9. QED
  BY <1>2, <1>3, <1>5, <1>7, <1>8

\* No more pairs: the key is popped, and the table is on top again (EndMap).
LEMMA EndMapKeeps == TableInductive /\ EndMap => TableInductive'
<1> SUFFICES ASSUME TableInductive, EndMap PROVE TableInductive'
  OBVIOUS
<1>1. frames # <<>>
  BY DEF EndMap, TableInductive, LevelsFit
<1>2. PICK n, t \in Nat \ {0} :
        /\ n = Len(frames) /\ t = Spot(under, frames, n)
        /\ Len(slots) = t + IF step # "next" /\ frames[n].stage = "value" THEN 2 ELSE 1
  BY <1>1, InnermostFacts DEF EndMap
<1>3. /\ step = "next" /\ step' = "return"
      /\ slots' = Front(slots) /\ frames' = SubSeq(frames, 1, n - 1)
      /\ UNCHANGED <<wanted, conversion, under>>
  BY <1>2 DEF EndMap, Answer, Outer
<1>4. /\ slots \in Seq(Slots) /\ Len(slots) = t + 1
      /\ IsSequence(frames) /\ n - 1 \in 0..Len(frames)
  BY <1>2, <1>3, LevelFacts
<1>5. /\ slots' \in Seq(Slots) /\ Len(slots') = t
      /\ \A i \in 1..t : slots'[i] = slots[i]
  BY <1>3, <1>4, FrontFacts
<1>6. /\ IsSequence(frames') /\ Len(frames') = n - 1
      /\ \A i \in 1..(n - 1) : frames'[i] = frames[i]
  BY <1>3, <1>4, PrefixFacts
<1>7. KeptBelow(n)
  BY <1>2, <1>3, <1>5, <1>6 DEF KeptBelow
<1>8. QED
  BY <1>2, <1>3, <1>5, <1>6, <1>7, InnermostEnds

\* The next pair of the table takes the place of the last key: the level has
\* a key that is its table's, and the value is on top (NextItem).
LEMMA NextItemKeeps == TableInductive /\ NextItem => TableInductive'
<1> SUFFICES ASSUME TableInductive, NextItem PROVE TableInductive'
  OBVIOUS
<1>1. frames # <<>> /\ step = "next"
  BY DEF NextItem, TableInductive, LevelsFit
<1>2. PICK n, t \in Nat \ {0} :
        /\ n = Len(frames) /\ t = Spot(under, frames, n)
        /\ Innermost = frames[n] /\ IsFrame(frames[n])
        /\ Stands(slots, frames[n], t)
        /\ Len(slots) = t + IF step # "next" /\ frames[n].stage = "value" THEN 2 ELSE 1
  BY <1>1, InnermostFacts
<1> DEFINE m == Position(Last(slots)) + 1
           p == PairsBelow[m]
           g == [frames[n] EXCEPT !.stage = "value"]
<1>3. /\ ~IterationIsBroken /\ TableIndex = t
      /\ PairsBelow \in Seq(TableValues \X TableValues) /\ m \in DOMAIN PairsBelow
  <2>1. /\ ~IterationIsBroken /\ TableIndex = t
        /\ PairsBelow \in Seq(TableValues \X TableValues)
        /\ Position(Last(slots)) \in 0..Len(PairsBelow)
    BY <1>1, <1>2, IterationGoesOn
  <2>2. Position(Last(slots)) < Len(PairsBelow)
    BY <2>1 DEF NextItem, ItemIsNext
  <2>3. Len(PairsBelow) \in Nat /\ DOMAIN PairsBelow = 1..Len(PairsBelow)
    BY <2>1
  <2>4. QED
    BY <2>1, <2>2, <2>3
<1>4. /\ step' = "top" /\ wanted' = frames[n].type.of
      /\ slots' = Front(slots) \o p
      /\ UNCHANGED <<conversion, under>>
  BY <1>2, <1>3 DEF NextItem
<1>5. frames' = [frames EXCEPT ![n] = g]
  BY <1>2, <1>3 DEF NextItem
<1>6. p \in TableValues \X TableValues
  BY <1>3
<1>7. p = PairsBelow[m] /\ p = <<p[1], p[2]>> /\ p[1] \in Slots /\ p[2] \in Slots
  BY <1>6 DEF Slots
<1> HIDE DEF p, m
<1>8. /\ slots \in Seq(Slots) /\ Len(slots) = t + 1
      /\ IsSequence(frames) /\ n \in 1..Len(frames)
  BY <1>1, <1>2, LevelFacts
<1>9. /\ Front(slots) \in Seq(Slots) /\ Len(Front(slots)) = t
      /\ \A i \in 1..t : Front(slots)[i] = slots[i]
  <2>1. t \in Nat /\ Len(slots) > 0 /\ Len(slots) - 1 = t
    BY <1>1, <1>2, <1>8, LevelFacts
  <2>2. /\ Front(slots) \in Seq(Slots) /\ Len(Front(slots)) = Len(slots) - 1
        /\ \A i \in 1..(Len(slots) - 1) : Front(slots)[i] = slots[i]
    BY <1>8, <2>1, FrontFacts, Zenon
  <2>3. QED
    BY <2>1, <2>2, Zenon
<1>10. p \in Seq(Slots) /\ Len(p) = 2
  <2>1. ASSUME NEW v \in Slots, NEW w \in Slots
        PROVE  <<v, w>> \in Seq(Slots) /\ Len(<<v, w>>) = 2
    OBVIOUS
  <2>2. <<p[1], p[2]>> \in Seq(Slots) /\ Len(<<p[1], p[2]>>) = 2
    BY <1>7, <2>1, Zenon
  <2>3. p = <<p[1], p[2]>>
    BY <1>7
  <2>4. QED
    BY <2>2, <2>3, Zenon
<1>11. /\ slots' \in Seq(Slots) /\ Len(slots') = t + 2
       /\ slots'[t + 1] = p[1]
       /\ \A i \in 1..t : slots'[i] = slots[i]
  <2>1. Front(slots) \o p \in Seq(Slots)
    BY <1>9, <1>10, ConcatProperties
  <2>2. IsConcat(Front(slots) \o p, Front(slots), p)
    BY <1>9, <1>10, SeqIsSequence, ConcatFacts
  <2>3. /\ Len(slots') = t + 2 /\ slots'[t + 1] = p[1]
        /\ \A i \in 1..t : slots'[i] = Front(slots)[i]
    BY <1>4, <1>9, <1>10, <2>2 DEF IsConcat
  <2>4. QED
    BY <1>4, <1>9, <2>1, <2>3
<1>12. g.map = frames[n].map /\ g.stage = "value" /\ IsFrame(g)
  BY <1>2 DEF IsFrame
<1>13. wanted' \in TableTypes
  BY <1>2, <1>4, TableAssumption DEF IsFrame
<1> HIDE DEF g
<1>14. /\ IsSequence(frames') /\ Len(frames') = n /\ frames'[n] = g
       /\ \A i \in 1..(n - 1) : frames'[i] = frames[i]
  <2>1. \A i \in 1..(n - 1) : i \in 1..n /\ i # n
    OBVIOUS
  <2>2. IsSequence(frames) /\ n \in 1..Len(frames)
    BY <1>8
  <2>3. IsReplaced([frames EXCEPT ![n] = g], frames, n, g)
    BY <2>2, ExceptFacts, Zenon
  <2>4. IsReplaced(frames', frames, n, g)
    <3>1. frames' = [frames EXCEPT ![n] = g]
      BY <1>5
    <3>2. QED
      BY <2>3, <3>1, Zenon
  <2>5. QED
    BY <1>2, <2>1, <2>4 DEF IsReplaced
<1>15. KeptBelow(n)
  <2>1. t <= Len(slots') /\ t = Spot(under, frames, n)
    BY <1>2, <1>11
  <2>2. under' = under /\ conversion' = conversion
    BY <1>4
  <2>3. QED
    BY <1>11, <1>14, <2>1, <2>2 DEF KeptBelow
<1>16. slots'[t] = slots[t] /\ slots[t].kind = "table" /\ t < Len(slots')
  BY <1>2, <1>11 DEF Stands
<1>17. KeyIsOf(slots', t)
  <2>1. p \in Range(slots[t].val)
    BY <1>3, <1>7 DEF PairsBelow, Range
  <2>2. SameKey(p[1], slots'[t + 1])
    BY <1>11 DEF SameKey
  <2>3. QED
    BY <1>16, <2>1, <2>2 DEF KeyIsOf
<1>18. Stands(slots', g, t)
  BY <1>16, <1>17 DEF Stands
<1>19. QED
  BY <1>1, <1>2, <1>4, <1>11, <1>12, <1>13, <1>14, <1>15, <1>17, <1>18, InnermostStands

\* The outermost conversion ends: the value is popped if it could be converted,
\* and the stack below it is as it was found (Return).
LEMMA ReturnKeeps == TableInductive /\ Return => TableInductive'
<1> SUFFICES ASSUME TableInductive, Return PROVE TableInductive'
  OBVIOUS
<1>1. /\ step = "return" /\ step' = "idle" /\ frames = <<>>
      /\ slots' = IF HasValue(answer) THEN Front(slots) ELSE slots
      /\ UNCHANGED <<wanted, frames, answer, conversion, under>>
  BY DEF Return
<1>2. /\ slots \in Seq(Slots) /\ under \in Seq(Slots) /\ Len(under) \in Nat
      /\ IsSequence(frames) /\ Len(frames) = 0
  BY <1>1, LevelFacts, EmptyIsSequence
<1>3. /\ Len(slots) = Len(under) + 1
      /\ \A i \in 1..Len(under) : slots[i] = under[i]
      /\ slots[Len(under) + 1] = conversion.value
  <2>1. Level(frames, Len(frames) + 1) = 1
    BY <1>2, LevelSteps
  <2>2. QED
    BY <1>1, <1>2, <2>1 DEF TableInductive, LevelsFit
<1>4. /\ Front(slots) \in Seq(Slots) /\ Len(Front(slots)) = Len(under)
      /\ \A i \in 1..Len(under) : Front(slots)[i] = slots[i]
  BY <1>2, <1>3, FrontFacts
<1>5. Front(slots) = under
  BY <1>2, <1>3, <1>4, SeqIsSequence, SameSequence
<1>6. slots = Append(under, conversion.value)
  <2>1. /\ IsSequence(Append(under, conversion.value))
        /\ Len(Append(under, conversion.value)) = Len(under) + 1
        /\ Append(under, conversion.value)[Len(under) + 1] = conversion.value
        /\ \A i \in 1..Len(under) : Append(under, conversion.value)[i] = under[i]
    BY <1>2, SeqIsSequence, AppendFacts
  <2>2. \A i \in 1..Len(slots) : i \in 1..Len(under) \/ i = Len(under) + 1
    BY <1>2, <1>3
  <2>3. \A i \in 1..Len(slots) : slots[i] = Append(under, conversion.value)[i]
    BY <1>3, <2>1, <2>2
  <2>4. QED
    BY <1>2, <1>3, <2>1, <2>3, SeqIsSequence, SameSequence
<1>7. slots' \in Seq(Slots) /\ TableIsTaken'
  BY <1>1, <1>2, <1>4, <1>5, <1>6 DEF TableIsTaken
<1>8. ShapesAreKept'
  BY <1>1, <1>2, <1>7, LevelFacts, ShapesAfter
<1>9. LevelsFit'
  BY <1>1 DEF LevelsFit
<1>10. LevelsAreIntact' /\ KeysAreTheirs'
  BY <1>1, <1>2, LevelsAfter
<1>11. QED
  BY <1>7, <1>8, <1>9, <1>10 DEF TableInductive

\* Where there is no slot for more, the conversion ends where it is (Overflow).
LEMMA OverflowKeeps == TableInductive /\ Overflow => TableInductive' /\ OverflowNeedsDepth'
<1> SUFFICES ASSUME TableInductive, Overflow PROVE TableInductive' /\ OverflowNeedsDepth'
  OBVIOUS
<1>1. /\ step \in {"top", "next"} /\ step' = "undefined" /\ Len(slots) >= Capacity
      /\ UNCHANGED <<wanted, slots, frames, answer, conversion, under>>
  BY DEF Overflow, MapStarts, ItemIsNext
<1>2. ShapesAreKept'
  BY <1>1 DEF TableInductive, ShapesAreKept, TableTypeOK
<1>3. LevelsFit'
  BY <1>1 DEF TableInductive, LevelsFit
<1>4. TableAt' = TableAt
  BY <1>1 DEF TableAt
<1>5. LevelsAreIntact'
  BY <1>1, <1>4 DEF TableInductive, LevelsAreIntact
<1>6. KeysAreTheirs'
  BY <1>1, <1>4 DEF TableInductive, KeysAreTheirs
<1>7. TableIsTaken'
  BY <1>1 DEF TableIsTaken
<1>8. Len(under) + Level(frames, Len(frames) + 1) >= Len(slots)
  <2>1. CASE step = "top"
    BY <2>1, LevelFacts DEF TableInductive, LevelsFit
  <2>2. CASE step = "next"
    <3>1. Len(slots) = Len(under) + Level(frames, Len(frames)) + 1 /\ frames # <<>>
      BY <2>2 DEF TableInductive, LevelsFit
    <3>2. Len(frames) \in Nat \ {0} /\ Len(under) \in Nat
      BY <2>2, <3>1, LevelFacts, InnermostFacts
    <3>3. /\ Level(frames, Len(frames)) \in Nat /\ Level(frames, Len(frames) + 1) \in Nat
          /\ Level(frames, Len(frames)) < Level(frames, Len(frames) + 1)
      <4>1. PICK n \in Nat \ {0} : n = Len(frames)
        BY <3>2
      <4>2. /\ Level(frames, n) \in Nat
            /\ Level(frames, n + 1) = Level(frames, n) + IF frames[n].stage = "value" THEN 2 ELSE 1
        BY LevelSteps
      <4>3. QED
        BY <4>1, <4>2
    <3>4. QED
      BY <3>1, <3>2, <3>3
  <2>3. QED
    BY <1>1, <2>1, <2>2
<1>9. /\ Len(slots) \in Nat /\ Len(under) \in Nat /\ Capacity \in Nat
      /\ Level(frames, Len(frames) + 1) \in Nat
  <2>1. Len(frames) + 1 \in Nat \ {0}
    BY LevelFacts
  <2>2. QED
    BY <2>1, LevelFacts, LevelSteps, RangeAssumption
<1>10. OverflowNeedsDepth'
  <2>1. Level(frames, Len(frames) + 1)' = Level(frames, Len(frames) + 1)
    BY <1>1 DEF Level
  <2>2. QED
    BY <1>1, <1>8, <1>9, <2>1 DEF OverflowNeedsDepth
<1>11. QED
  BY <1>2, <1>3, <1>5, <1>6, <1>7, <1>10 DEF TableInductive

-----------------------------------------------------------------------------
(* The theorems *)

\* The invariant holds of every reachable state of a conversion.
THEOREM TableInvariant == TableSpec => []TableInductive
<1>1. TableInit => TableInductive
  <2> SUFFICES ASSUME TableInit PROVE TableInductive
    OBVIOUS
  <2>1. frames = <<>> /\ slots = <<>> /\ under = <<>> /\ step = "idle"
    BY DEF TableInit
  <2>2. IsSequence(<<>>) /\ DOMAIN <<>> = {} /\ Len(<<>>) = 0
    BY EmptyIsSequence
  <2>3. ShapesAreKept
    BY <2>1, <2>2 DEF TableInit, ShapesAreKept, TableTypeOK, Scalar
  <2>4. LevelsFit /\ LevelsAreIntact /\ KeysAreTheirs /\ TableIsTaken
    BY <2>1, <2>2 DEF LevelsFit, LevelsAreIntact, KeysAreTheirs, TableIsTaken
  <2>5. QED
    BY <2>3, <2>4 DEF TableInductive
<1>2. TableInductive /\ [TableNext]_tableVars => TableInductive'
  <2> SUFFICES ASSUME TableInductive, [TableNext]_tableVars PROVE TableInductive'
    OBVIOUS
  <2>1. CASE UNCHANGED tableVars
    <3>1. ShapesAreKept'
      BY <2>1 DEF tableVars, TableInductive, ShapesAreKept, TableTypeOK
    <3>2. LevelsFit'
      BY <2>1 DEF tableVars, TableInductive, LevelsFit
    <3>3. TableAt' = TableAt
      BY <2>1 DEF tableVars, TableAt
    <3>4. LevelsAreIntact' /\ KeysAreTheirs'
      BY <2>1, <3>3 DEF tableVars, TableInductive, LevelsAreIntact, KeysAreTheirs, TableIndex
    <3>5. TableIsTaken'
      BY <2>1 DEF tableVars, TableInductive, TableIsTaken
    <3>6. QED
      BY <3>1, <3>2, <3>4, <3>5 DEF TableInductive
  <2>2. CASE TableNext
    BY <2>2, RequestKeeps, TopValueKeeps, StartMapKeeps, NextItemKeeps, EndMapKeeps,
       PopValueKeeps, TakePairKeeps, AbortMapKeeps, ReturnKeeps, OverflowKeeps DEF TableNext
  <2>3. QED
    BY <2>1, <2>2
<1>3. QED
  BY <1>1, <1>2, PTL DEF TableSpec

\* A conversion runs out of slots only if the tables under way, and the keys
\* that wait, take all that were left (OverflowNeedsDepth).
THEOREM OverflowsOnlyByDepth == TableSpec => []OverflowNeedsDepth
<1>1. TableInit => OverflowNeedsDepth
  BY DEF TableInit, OverflowNeedsDepth
<1>2. TableInductive /\ OverflowNeedsDepth /\ [TableNext]_tableVars => OverflowNeedsDepth'
  <2> SUFFICES ASSUME TableInductive, OverflowNeedsDepth, [TableNext]_tableVars
               PROVE  OverflowNeedsDepth'
    OBVIOUS
  <2>1. CASE UNCHANGED tableVars
    BY <2>1 DEF tableVars, OverflowNeedsDepth, Level
  <2>2. CASE Overflow
    BY <2>2, OverflowKeeps
  <2>3. CASE NextItem
    BY <2>3 DEF NextItem, OverflowNeedsDepth
  <2>4. CASE \/ \E r \in Conversions : Request(r)
             \/ TopValue \/ StartMap \/ EndMap \/ PopValue \/ TakePair \/ AbortMap \/ Return
    <3>1. step' # "undefined"
      BY <2>4 DEF Request, TopValue, StartMap, EndMap, PopValue, TakePair, AbortMap, Return,
                  Answer
    <3>2. QED
      BY <3>1 DEF OverflowNeedsDepth
  <2>5. QED
    BY <2>1, <2>2, <2>3, <2>4 DEF TableNext
<1>3. QED
  BY <1>1, <1>2, TableInvariant, PTL DEF TableSpec

\* Type correctness of the conversion (TableTypeOK).
THEOREM TableTypeCorrect == TableSpec => []TableTypeOK
<1>1. TableInductive => TableTypeOK
  BY DEF TableInductive, ShapesAreKept
<1>2. QED
  BY <1>1, TableInvariant, PTL

\* However deep tables are nested, as keys or as values, each level finds its
\* table and its key where it left them, and lua_next never fails
\* (LevelsAreIntact).
THEOREM LevelsStayIntact == TableSpec => []LevelsAreIntact
<1>1. TableInductive => LevelsAreIntact
  BY DEF TableInductive
<1>2. QED
  BY <1>1, TableInvariant, PTL

\* A conversion leaves the stack as it was, but for the value itself if it
\* could not be converted (TableIsTaken).
THEOREM TablesAreTaken == TableSpec => []TableIsTaken
<1>1. TableInductive => TableIsTaken
  BY DEF TableInductive
<1>2. QED
  BY <1>1, TableInvariant, PTL

-----------------------------------------------------------------------------
(* The reference is defined: a type is converted by means of smaller ones.  *)

ConvertedBy(T, keyOf, valueOf) == [v \in TableValues |-> ConvertOne(T, v, keyOf, valueOf)]

\* What the values of some types are converted to, and of all in them.
IsAttempt(types, f) ==
  /\ types \subseteq TableTypes
  /\ \A T \in types : IsContainer(T) => T.key \in types /\ T.of \in types
  /\ \A T \in types : f[T] = ConvertedBy(T, f[T.key], f[T.of])

\* A scalar has no parts.
LEMMA ScalarHasNoParts ==
  \A T, k, o, l, p : ~IsContainer(T) => ConvertedBy(T, k, o) = ConvertedBy(T, l, p)
BY DEF ConvertedBy, ConvertOne

\* Two attempts agree: the smallest type on which they do not has parts on
\* which they do.
LEMMA AttemptsAgree ==
  ASSUME NEW S, NEW f, IsAttempt(S, f), NEW R, NEW g, IsAttempt(R, g),
         NEW T, T \in S, T \in R
  PROVE  f[T] = g[T]
<1> DEFINE D == {U \in S \cap R : f[U] # g[U]}
<1>1. ASSUME D # {} PROVE FALSE
  <2>1. D \in SUBSET TableTypes
    BY DEF IsAttempt
  <2>2. PICK U \in D : IsContainer(U) => U.key \notin D /\ U.of \notin D
    <3> HIDE DEF D
    <3>1. QED
      BY <1>1, <2>1, TypesAssumption
  <2>3. U \in S /\ U \in R /\ f[U] # g[U]
    OBVIOUS
  <2>4. f[U] = ConvertedBy(U, f[U.key], f[U.of]) /\ g[U] = ConvertedBy(U, g[U.key], g[U.of])
    BY <2>3 DEF IsAttempt
  <2>5. CASE IsContainer(U)
    <3>1. U.key \in S \cap R /\ U.of \in S \cap R
      BY <2>3, <2>5 DEF IsAttempt
    <3>2. f[U.key] = g[U.key] /\ f[U.of] = g[U.of]
      BY <2>2, <2>5, <3>1
    <3>3. QED
      BY <2>3, <2>4, <3>2
  <2>6. CASE ~IsContainer(U)
    <3>1. ConvertedBy(U, f[U.key], f[U.of]) = ConvertedBy(U, g[U.key], g[U.of])
      BY <2>6, ScalarHasNoParts, Zenon
    <3>2. QED
      BY <2>3, <2>4, <3>1
  <2>7. QED
    BY <2>5, <2>6
<1>2. QED
  BY <1>1

\* Every type is in an attempt: the smallest that is not would have parts
\* that are in two, which together with it are one.
LEMMA AttemptsExist ==
  ASSUME NEW T \in TableTypes
  PROVE  \E S, f : IsAttempt(S, f) /\ T \in S
<1> DEFINE D == {U \in TableTypes : ~\E S, f : IsAttempt(S, f) /\ U \in S}
<1>1. ASSUME D # {} PROVE FALSE
  <2>1. D \in SUBSET TableTypes
    OBVIOUS
  <2>2. PICK U \in D : IsContainer(U) => U.key \notin D /\ U.of \notin D
    <3> HIDE DEF D
    <3>1. QED
      BY <1>1, <2>1, TypesAssumption
  <2>3. U \in TableTypes /\ \A S, f : ~(IsAttempt(S, f) /\ U \in S)
    OBVIOUS
  <2>4. CASE ~IsContainer(U)
    <3> DEFINE f == [x \in {U} |-> ConvertedBy(U, U, U)]
    <3>1. f[U] = ConvertedBy(U, f[U.key], f[U.of])
      <4>1. f[U] = ConvertedBy(U, U, U)
        OBVIOUS
      <4> HIDE DEF f
      <4>2. ConvertedBy(U, U, U) = ConvertedBy(U, f[U.key], f[U.of])
        BY <2>4, ScalarHasNoParts, Zenon
      <4>3. QED
        BY <4>1, <4>2
    <3> HIDE DEF f
    <3>2. IsAttempt({U}, f)
      BY <2>3, <2>4, <3>1 DEF IsAttempt
    <3>3. QED
      BY <2>3, <3>2
  <2>5. CASE IsContainer(U)
    <3>1. U.key \in TableTypes /\ U.of \in TableTypes
      BY <2>3, <2>5, TableAssumption
    <3>2. PICK S, f : IsAttempt(S, f) /\ U.key \in S
      BY <2>2, <2>5, <3>1
    <3>3. PICK R, g : IsAttempt(R, g) /\ U.of \in R
      BY <2>2, <2>5, <3>1
    <3> DEFINE both(x) == IF x \in S THEN f[x] ELSE g[x]
               types == S \cup R \cup {U}
               h == [x \in types |-> IF x \in S \cup R THEN both(x)
                                     ELSE ConvertedBy(U, both(U.key), both(U.of))]
    <3>4. \A x \in S \cup R : h[x] = both(x)
      OBVIOUS
    <3>5. \A x \in S : h[x] = f[x]
      BY <3>4
    <3>6. \A x \in R : h[x] = g[x]
      <4> TAKE x \in R
      <4>1. x \in S => f[x] = g[x]
        BY <3>2, <3>3, AttemptsAgree
      <4>2. QED
        BY <3>4, <4>1
    <3>7. U \notin S /\ U \notin R
      BY <2>3, <3>2, <3>3
    <3>8. h[U] = ConvertedBy(U, h[U.key], h[U.of])
      <4>1. h[U.key] = both(U.key) /\ h[U.of] = both(U.of)
        BY <3>2, <3>3, <3>4
      <4>2. h[U] = ConvertedBy(U, both(U.key), both(U.of))
        BY <3>7
      <4> HIDE DEF h, both
      <4>3. QED
        BY <4>1, <4>2
    <3>9. types \subseteq TableTypes /\ \A x \in types : IsContainer(x) => x.key \in types /\ x.of \in types
      BY <2>3, <3>2, <3>3 DEF IsAttempt
    <3> HIDE DEF h
    <3>10. \A x \in S : h[x] = ConvertedBy(x, h[x.key], h[x.of])
      <4> TAKE x \in S
      <4>1. f[x] = ConvertedBy(x, f[x.key], f[x.of])
        BY <3>2 DEF IsAttempt
      <4>2. CASE IsContainer(x)
        <5>1. x.key \in S /\ x.of \in S
          BY <3>2, <4>2 DEF IsAttempt
        <5>2. QED
          BY <3>5, <4>1, <5>1
      <4>3. CASE ~IsContainer(x)
        <5>1. ConvertedBy(x, f[x.key], f[x.of]) = ConvertedBy(x, h[x.key], h[x.of])
          BY <4>3, ScalarHasNoParts, Zenon
        <5>2. QED
          BY <3>5, <4>1, <5>1
      <4>4. QED
        BY <4>2, <4>3
    <3>11. \A x \in R : h[x] = ConvertedBy(x, h[x.key], h[x.of])
      <4> TAKE x \in R
      <4>1. g[x] = ConvertedBy(x, g[x.key], g[x.of])
        BY <3>3 DEF IsAttempt
      <4>2. CASE IsContainer(x)
        <5>1. x.key \in R /\ x.of \in R
          BY <3>3, <4>2 DEF IsAttempt
        <5>2. QED
          BY <3>6, <4>1, <5>1
      <4>3. CASE ~IsContainer(x)
        <5>1. ConvertedBy(x, g[x.key], g[x.of]) = ConvertedBy(x, h[x.key], h[x.of])
          BY <4>3, ScalarHasNoParts, Zenon
        <5>2. QED
          BY <3>6, <4>1, <5>1
      <4>4. QED
        BY <4>2, <4>3
    <3>12. IsAttempt(types, h)
      BY <3>8, <3>9, <3>10, <3>11 DEF IsAttempt
    <3>13. QED
      BY <2>3, <3>12
  <2>6. QED
    BY <2>4, <2>5
<1>2. QED
  BY <1>1

IsReference(f) == f = [T \in TableTypes |-> ConvertedBy(T, f[T.key], f[T.of])]

\* The recursion of Convert has a solution.
LEMMA ReferenceExists == \E f : IsReference(f)
<1> DEFINE att(T) == CHOOSE p : IsAttempt(p[1], p[2]) /\ T \in p[1]
           f == [T \in TableTypes |-> att(T)[2][T]]
<1>1. ASSUME NEW T \in TableTypes PROVE IsAttempt(att(T)[1], att(T)[2]) /\ T \in att(T)[1]
  <2>1. PICK S, g : IsAttempt(S, g) /\ T \in S
    BY AttemptsExist
  <2>2. IsAttempt(<<S, g>>[1], <<S, g>>[2]) /\ T \in <<S, g>>[1]
    BY <2>1
  <2>3. QED
    BY <2>2, Zenon
<1> HIDE DEF att
<1>2. ASSUME NEW T \in TableTypes PROVE f[T] = ConvertedBy(T, f[T.key], f[T.of])
  <2> DEFINE S == att(T)[1]
             g == att(T)[2]
  <2>1. IsAttempt(S, g) /\ T \in S
    BY <1>1
  <2>2. f[T] = g[T]
    OBVIOUS
  <2>3. ASSUME NEW U \in S PROVE f[U] = g[U]
    <3>1. U \in TableTypes
      BY <2>1 DEF IsAttempt
    <3>2. f[U] = att(U)[2][U]
      BY <3>1
    <3>3. IsAttempt(att(U)[1], att(U)[2]) /\ U \in att(U)[1]
      BY <1>1, <3>1
    <3> HIDE DEF f, S, g
    <3>4. att(U)[2][U] = g[U]
      BY <2>1, <2>3, <3>3, AttemptsAgree
    <3>5. QED
      BY <3>2, <3>4
  <2> HIDE DEF f, S, g
  <2>4. g[T] = ConvertedBy(T, g[T.key], g[T.of])
    BY <2>1 DEF IsAttempt
  <2>5. CASE IsContainer(T)
    <3>1. T.key \in S /\ T.of \in S
      BY <2>1, <2>5 DEF IsAttempt
    <3>2. QED
      BY <2>2, <2>3, <2>4, <3>1
  <2>6. CASE ~IsContainer(T)
    <3>1. ConvertedBy(T, g[T.key], g[T.of]) = ConvertedBy(T, f[T.key], f[T.of])
      BY <2>6, ScalarHasNoParts, Zenon
    <3>2. QED
      BY <2>2, <2>4, <3>1
  <2>7. QED
    BY <2>5, <2>6
<1>3. f = [T \in TableTypes |-> f[T]]
  OBVIOUS
<1> HIDE DEF f
<1>4. [T \in TableTypes |-> f[T]] = [T \in TableTypes |-> ConvertedBy(T, f[T.key], f[T.of])]
  BY <1>2
<1>5. IsReference(f)
  BY <1>3, <1>4 DEF IsReference
<1>6. QED
  BY <1>5

\* A value is converted as ConvertOne says.
LEMMA ConvertFacts ==
  ASSUME NEW T \in TableTypes, NEW v \in TableValues
  PROVE  Convert[T][v] = ConvertOne(T, v, Convert[T.key], Convert[T.of])
<1>1. Convert = CHOOSE f : IsReference(f)
  BY Zenon DEF Convert, IsReference, ConvertedBy
<1>2. IsReference(Convert)
  BY <1>1, ReferenceExists, Zenon
<1>3. Convert[T] = ConvertedBy(T, Convert[T.key], Convert[T.of])
  <2> DEFINE f == Convert
  <2>1. f = [U \in TableTypes |-> ConvertedBy(U, f[U.key], f[U.of])]
    BY <1>2 DEF IsReference
  <2> HIDE DEF f
  <2>2. f[T] = ConvertedBy(T, f[T.key], f[T.of])
    BY <2>1
  <2>3. QED
    BY <2>2 DEF f
<1>4. QED
  BY <1>3 DEF ConvertedBy

\* A table is converted row by row.
LEMMA ConvertTable ==
  ASSUME NEW T \in TableTypes, IsContainer(T), NEW v \in TableValues, v.kind = "table"
  PROVE  Convert[T][v] = ConvertRows(T.kind, KeysOf(T, v), ValuesOf(T, v), Len(v.val))
<1>1. Convert[T][v] = ConvertOne(T, v, Convert[T.key], Convert[T.of])
  BY ConvertFacts
<1>2. QED
  BY <1>1, Zenon DEF ConvertOne, KeysOf, ValuesOf

-----------------------------------------------------------------------------
(* Rows: what is in the map after n of them, and when it is an array.       *)

\* Every key is that of a first row, and of one only.
LEMMA FirstRowFacts ==
  ASSUME NEW keys, NEW n \in Nat
  PROVE  /\ FirstRows(keys, n) \subseteq 1..n
         /\ \A i \in 1..n : \E j \in FirstRows(keys, n) : keys[j] = keys[i]
         /\ \A i, j \in FirstRows(keys, n) : keys[i] = keys[j] => i = j
<1>1. FirstRows(keys, n) \subseteq 1..n
  BY DEF FirstRows
<1>2. ASSUME NEW i \in 1..n PROVE \E j \in FirstRows(keys, n) : keys[j] = keys[i]
  <2> DEFINE same == {j \in 1..n : keys[j] = keys[i]}
  <2>1. same \subseteq Nat /\ same # {}
    OBVIOUS
  <2>2. PICK j \in same : \A m \in same : j <= m
    <3> HIDE DEF same
    <3>1. QED
      BY <2>1, LeastNumber
  <2>3. j \in 1..n /\ keys[j] = keys[i]
    BY <2>2
  <2>4. ASSUME NEW m \in 1..(j - 1) PROVE keys[m] # keys[j]
    <3>1. m \in 1..n /\ ~(j <= m)
      BY <2>3
    <3>2. m \notin same
      BY <2>2, <3>1
    <3>3. QED
      BY <2>3, <3>1, <3>2
  <2>5. QED
    BY <2>3, <2>4 DEF FirstRows
<1>3. ASSUME NEW i \in FirstRows(keys, n), NEW j \in FirstRows(keys, n), keys[i] = keys[j]
      PROVE  i = j
  <2>1. i \in 1..n /\ j \in 1..n
    BY DEF FirstRows
  <2>2. \A m \in 1..(i - 1) : keys[m] # keys[i]
    BY DEF FirstRows
  <2>3. \A m \in 1..(j - 1) : keys[m] # keys[j]
    BY DEF FirstRows
  <2>4. ~(i < j)
    BY <1>3, <2>1, <2>3
  <2>5. ~(j < i)
    BY <1>3, <2>1, <2>2
  <2>6. QED
    BY <2>1, <2>4, <2>5
<1>4. QED
  BY <1>1, <1>2, <1>3

\* The map of no rows is empty.
LEMMA NoRows == \A keys, values : PairsOf(keys, values, 0) = {}
BY DEF PairsOf, FirstRows

\* One more row is what std::map::emplace makes of it.
LEMMA EmplaceNext ==
  ASSUME NEW keys, NEW values, NEW n \in Nat
  PROVE  Emplace(PairsOf(keys, values, n), keys[n + 1], values[n + 1])
           = PairsOf(keys, values, n + 1)
<1>1. ASSUME NEW i \in 1..n PROVE i \in FirstRows(keys, n) <=> i \in FirstRows(keys, n + 1)
  BY DEF FirstRows
<1>2. n + 1 \in FirstRows(keys, n + 1) <=> \A j \in 1..n : keys[j] # keys[n + 1]
  BY DEF FirstRows
<1>3. FirstRows(keys, n) \subseteq 1..n /\ FirstRows(keys, n + 1) \subseteq 1..n \cup {n + 1}
  BY DEF FirstRows
<1>4. (\E p \in PairsOf(keys, values, n) : p[1] = keys[n + 1])
        <=> \E j \in FirstRows(keys, n) : keys[j] = keys[n + 1]
  <2> DEFINE first == FirstRows(keys, n)
             key == keys[n + 1]
  <2> HIDE DEF first, key
  <2>1. PairsOf(keys, values, n) = {<<keys[i], values[i]>> : i \in first}
    BY DEF PairsOf, first
  <2>2. \A i \in first : <<keys[i], values[i]>>[1] = keys[i]
    OBVIOUS
  <2>3. (\E p \in PairsOf(keys, values, n) : p[1] = key) <=> \E j \in first : keys[j] = key
    BY <2>1, <2>2
  <2>4. QED
    BY <2>3 DEF first, key
<1>5. (\E j \in FirstRows(keys, n) : keys[j] = keys[n + 1])
        <=> \E j \in 1..n : keys[j] = keys[n + 1]
  BY FirstRowFacts
<1>6. CASE \E j \in 1..n : keys[j] = keys[n + 1]
  <2>1. FirstRows(keys, n + 1) = FirstRows(keys, n)
    BY <1>1, <1>2, <1>3, <1>6
  <2>2. PairsOf(keys, values, n + 1) = PairsOf(keys, values, n)
    BY <2>1 DEF PairsOf
  <2>3. QED
    BY <1>4, <1>5, <1>6, <2>2 DEF Emplace
<1>7. CASE \A j \in 1..n : keys[j] # keys[n + 1]
  <2>1. FirstRows(keys, n + 1) = FirstRows(keys, n) \cup {n + 1}
    BY <1>1, <1>2, <1>3, <1>7
  <2>2. PairsOf(keys, values, n + 1)
          = PairsOf(keys, values, n) \cup {<<keys[n + 1], values[n + 1]>>}
    BY <2>1 DEF PairsOf
  <2>3. QED
    BY <1>4, <1>5, <1>7, <2>2 DEF Emplace
<1>8. QED
  BY <1>6, <1>7

\* As many as there are names for them, each one's own.
LEMMA SameSize ==
  ASSUME NEW S, IsFiniteSet(S), NEW f, NEW T, T = {f[x] : x \in S},
         \A x, y \in S : f[x] = f[y] => x = y
  PROVE  IsFiniteSet(T) /\ Cardinality(T) = Cardinality(S)
<1> DEFINE g == [x \in S |-> f[x]]
<1>1. g \in [S -> T]
  OBVIOUS
<1>2. \A x, y \in S : g[x] = g[y] => x = y
  OBVIOUS
<1>3. \A t \in T : \E x \in S : g[x] = t
  OBVIOUS
<1> HIDE DEF g
<1>4. g \in Bijection(S, T)
  BY <1>1, <1>2, <1>3 DEF Bijection, Injection, Surjection, IsInjective
<1>5. ExistsBijection(S, T)
  BY <1>4 DEF ExistsBijection
<1>6. QED
  BY <1>5, FS_Bijection

\* The first rows, the pairs made of them and their keys are equally many.
LEMMA PairsFacts ==
  ASSUME NEW keys, NEW values, NEW n \in Nat
  PROVE  LET first == FirstRows(keys, n)
             map   == PairsOf(keys, values, n)
             names == {keys[i] : i \in first}
         IN /\ IsFiniteSet(map) /\ IsFiniteSet(names)
            /\ Cardinality(first) \in Nat
            /\ Cardinality(map) = Cardinality(first)
            /\ Cardinality(names) = Cardinality(first)
            /\ \A p, q \in map : p[1] = q[1] => p = q
            /\ names = {p[1] : p \in map}
<1> DEFINE first == FirstRows(keys, n)
           map   == PairsOf(keys, values, n)
           names == {keys[i] : i \in first}
           pair == [i \in first |-> <<keys[i], values[i]>>]
<1>1. first \subseteq 1..n /\ \A i, j \in first : keys[i] = keys[j] => i = j
  BY FirstRowFacts
<1>2. map = {<<keys[i], values[i]>> : i \in first}
  BY DEF PairsOf
<1>3. IsFiniteSet(first) /\ Cardinality(first) \in Nat
  <2>1. IsFiniteSet(1..n)
    BY FS_Interval
  <2>2. first \in SUBSET (1..n)
    BY <1>1
  <2> HIDE DEF first
  <2>3. IsFiniteSet(first)
    BY <2>1, <2>2, FS_Subset
  <2>4. QED
    BY <2>3, FS_CardinalityType
<1> HIDE DEF first, map
<1>4. IsFiniteSet(names) /\ Cardinality(names) = Cardinality(first)
  <2>1. names = {keys[i] : i \in first}
    OBVIOUS
  <2> HIDE DEF names
  <2>2. QED
    BY <1>1, <1>3, <2>1, SameSize
<1>5. \A i \in first : pair[i] = <<keys[i], values[i]>> /\ pair[i][1] = keys[i]
  OBVIOUS
<1>6. map = {pair[i] : i \in first}
  BY <1>2, <1>5
<1> HIDE DEF pair
<1>7. \A i, j \in first : pair[i] = pair[j] => i = j
  BY <1>1, <1>5
<1>8. IsFiniteSet(map) /\ Cardinality(map) = Cardinality(first)
  BY <1>3, <1>6, <1>7, SameSize
<1>9. ASSUME NEW p \in map, NEW q \in map, p[1] = q[1] PROVE p = q
  <2>1. PICK i \in first : p = pair[i]
    BY <1>6
  <2>2. PICK j \in first : q = pair[j]
    BY <1>6
  <2>3. QED
    BY <1>1, <1>5, <1>9, <2>1, <2>2
<1>10. names = {p[1] : p \in map}
  BY <1>5, <1>6
<1>11. QED
  BY <1>3, <1>4, <1>8, <1>9, <1>10 DEF first, map

\* Even numbers, from 2 on.
LEMMA EvenNumbers ==
  ASSUME NEW n \in Nat
  PROVE  /\ IsFiniteSet({Number(2 * i) : i \in 1..n})
         /\ Cardinality({Number(2 * i) : i \in 1..n}) = n
<1> DEFINE f == [i \in 1..n |-> Number(2 * i)]
           T == {Number(2 * i) : i \in 1..n}
<1>1. \A i \in 1..n : f[i] = Number(2 * i) /\ f[i].val = 2 * i
  BY DEF Number
<1>2. T = {f[i] : i \in 1..n}
  OBVIOUS
<1> HIDE DEF f, T
<1>3. \A i, j \in 1..n : f[i] = f[j] => i = j
  BY <1>1
<1>4. IsFiniteSet(1..n) /\ Cardinality(1..n) = n
  BY FS_Interval
<1>5. IsFiniteSet(T) /\ Cardinality(T) = Cardinality(1..n)
  BY <1>2, <1>3, <1>4, SameSize
<1>6. QED
  BY <1>4, <1>5 DEF T

\* A map whose keys are 1, 2, 3... has its pairs in these places.
LEMMA PlaceOf ==
  ASSUME NEW map, IsFiniteSet(map), \A p, q \in map : p[1] = q[1] => p = q,
         {p[1] : p \in map} = {Number(2 * i) : i \in 1..Cardinality(map)},
         NEW p \in map, NEW m \in 1..Cardinality(map), p[1] = Number(2 * m)
  PROVE  Place(map, p) = m
<1> DEFINE before == {q \in map : q[1].val < p[1].val}
           keyOf == [q \in before |-> q[1]]
           T == {Number(2 * i) : i \in 1..(m - 1)}
<1>1. Cardinality(map) \in Nat
  BY FS_CardinalityType
<1>2. m \in Nat /\ m - 1 \in Nat
  BY <1>1
<1>3. IsFiniteSet(before)
  <2>1. before \in SUBSET map
    OBVIOUS
  <2> HIDE DEF before
  <2>2. QED
    BY <2>1, FS_Subset
<1>4. \A x, y \in before : keyOf[x] = keyOf[y] => x = y
  OBVIOUS
<1>5. p[1].val = 2 * m
  BY DEF Number
<1>6. T = {keyOf[q] : q \in before}
  <2>1. ASSUME NEW t \in T PROVE \E q \in before : keyOf[q] = t
    <3>1. PICK i \in 1..(m - 1) : t = Number(2 * i)
      OBVIOUS
    <3>2. i \in 1..Cardinality(map)
      BY <1>1, <1>2
    <3>3. PICK q \in map : q[1] = t
      BY <3>1, <3>2
    <3>4. q[1].val = 2 * i /\ 2 * i < 2 * m
      BY <1>2, <3>1, <3>3 DEF Number
    <3>5. q \in before
      BY <1>5, <3>4
    <3>6. QED
      BY <3>3, <3>5
  <2>2. ASSUME NEW q \in before PROVE keyOf[q] \in T
    <3>1. PICK i \in 1..Cardinality(map) : q[1] = Number(2 * i)
      OBVIOUS
    <3>2. 2 * i < 2 * m
      BY <1>5, <3>1 DEF Number
    <3>3. i \in 1..(m - 1)
      BY <1>1, <1>2, <3>2
    <3>4. QED
      BY <3>1, <3>3
  <2> HIDE DEF T, keyOf, before
  <2>3. QED
    BY <2>1, <2>2
<1> HIDE DEF keyOf, before
<1>7. Cardinality(T) = Cardinality(before)
  BY <1>3, <1>4, <1>6, SameSize
<1>8. Cardinality(T) = m - 1
  BY <1>2, EvenNumbers
<1>9. Cardinality(before) = m - 1
  BY <1>7, <1>8
<1>10. Place(map, p) = Cardinality(before) + 1
  BY Zenon DEF Place, before
<1>11. QED
  BY <1>2, <1>9, <1>10

\* The keys of a map are their places iff they are 1, 2, 3...
LEMMA WhenAnArray ==
  ASSUME NEW map, IsFiniteSet(map), \A p, q \in map : p[1] = q[1] => p = q
  PROVE  (\A p \in map : p[1] = Number(2 * Place(map, p)))
           <=> {p[1] : p \in map} = {Number(2 * i) : i \in 1..Cardinality(map)}
<1> DEFINE N == Cardinality(map)
           names == {p[1] : p \in map}
           T == {Number(2 * i) : i \in 1..N}
<1>1. N \in Nat
  BY FS_CardinalityType
<1>2. ASSUME \A p \in map : p[1] = Number(2 * Place(map, p)) PROVE names = T
  <2>1. ASSUME NEW p \in map PROVE Place(map, p) \in 1..N
    <3> DEFINE before == {q \in map : q[1].val < p[1].val}
    <3>1. before \in SUBSET map
      OBVIOUS
    <3>2. p[1].val = 2 * Place(map, p)
      <4>1. p[1] = Number(2 * Place(map, p))
        BY <1>2
      <4>2. \A x : Number(x).val = x
        BY DEF Number
      <4>3. QED
        BY <4>1, <4>2, Zenon
    <3>3. Place(map, p) = Cardinality(before) + 1
      BY Zenon DEF Place
    <3>4. IsFiniteSet(before) /\ Cardinality(before) <= N /\ (N = Cardinality(before) => map = before)
      <4> HIDE DEF before
      <4>1. QED
        BY <3>1, FS_Subset
    <3>5. Cardinality(before) \in Nat
      <4> HIDE DEF before
      <4>1. QED
        BY <3>4, FS_CardinalityType
    <3>6. p \notin before
      <4>1. p[1].val \in Nat
        <5> HIDE DEF before
        <5>1. QED
          BY <3>2, <3>3, <3>5
      <4>2. QED
        BY <4>1
    <3> HIDE DEF before
    <3>7. QED
      BY <1>1, <3>3, <3>4, <3>5, <3>6
  <2>2. names \in SUBSET T
    BY <1>2, <2>1
  <2>3. Cardinality(names) = N
    <3> DEFINE keyOf == [p \in map |-> p[1]]
    <3>1. names = {keyOf[p] : p \in map} /\ \A p, q \in map : keyOf[p] = keyOf[q] => p = q
      OBVIOUS
    <3> HIDE DEF keyOf, names
    <3>2. QED
      BY <3>1, SameSize
  <2>4. IsFiniteSet(T) /\ Cardinality(T) = N
    BY <1>1, EvenNumbers
  <2> HIDE DEF T, names
  <2>5. QED
    BY <2>2, <2>3, <2>4, FS_Subset
<1>3. ASSUME names = T, NEW p \in map PROVE p[1] = Number(2 * Place(map, p))
  <2>1. PICK m \in 1..N : p[1] = Number(2 * m)
    BY <1>3
  <2>2. Place(map, p) = m
    BY <1>3, <2>1, PlaceOf
  <2>3. QED
    BY <2>1, <2>2
<1>4. QED
  BY <1>2, <1>3

\* What topArray makes of the map is what the rows are by definition.
LEMMA ArrayOfRows ==
  ASSUME NEW keys, NEW values, NEW n \in Nat,
         \A i \in 1..n : HasValue(keys[i]) /\ HasValue(values[i])
  PROVE  ToArray(PairsOf(keys, values, n)) = ConvertRows("array", keys, values, n)
<1> DEFINE first == FirstRows(keys, n)
           map   == PairsOf(keys, values, n)
           N     == Cardinality(first)
           names == {keys[i] : i \in first}
           row(i) == CHOOSE j \in first : keys[j] = Number(2 * i)
           at(i)  == CHOOSE p \in map : Place(map, p) = i
           even  == {Number(2 * i) : i \in 1..N}
           byRow == [i \in 1..N |-> values[row(i)]]
<1>1. /\ IsFiniteSet(map) /\ N \in Nat /\ Cardinality(map) = N
      /\ \A p, q \in map : p[1] = q[1] => p = q
      /\ names = {p[1] : p \in map}
  BY PairsFacts
<1>2. map = {<<keys[i], values[i]>> : i \in first}
  BY DEF PairsOf
<1>3. \A i, j \in first : keys[i] = keys[j] => i = j
  BY FirstRowFacts
<1>4. ConvertRows("array", keys, values, n) = IF names = even THEN ArrayValue(byRow) ELSE NoValue
  BY DEF ConvertRows
<1>5. (\A p \in map : p[1] = Number(2 * Place(map, p))) <=> names = even
  <2> HIDE DEF map, N, even, names
  <2>1. (\A p \in map : p[1] = Number(2 * Place(map, p)))
          <=> {p[1] : p \in map} = {Number(2 * i) : i \in 1..Cardinality(map)}
    BY <1>1, WhenAnArray
  <2>2. QED
    BY <1>1, <2>1 DEF even
<1>6. ToArray(map) = IF names = even THEN ArrayValue(InOrder(map)) ELSE NoValue
  <2> HIDE DEF map, names, even
  <2>1. QED
    BY <1>5 DEF ToArray
<1>7. ASSUME names = even PROVE InOrder(map) = byRow
  <2>1. InOrder(map) = [i \in 1..N |-> at(i)[2]]
    BY <1>1 DEF InOrder
  <2>2. ASSUME NEW i \in 1..N PROVE at(i)[2] = values[row(i)]
    <3>1. PICK j \in first : keys[j] = Number(2 * i)
      BY <1>7
    <3>2. row(i) = j
      <4> HIDE DEF first
      <4>1. row(i) \in first /\ keys[row(i)] = Number(2 * i)
        BY <3>1
      <4> HIDE DEF row
      <4>2. QED
        BY <1>3, <3>1, <4>1
    <3> DEFINE p == <<keys[j], values[j]>>
    <3>3. p \in map /\ p[1] = Number(2 * i) /\ p[2] = values[j]
      BY <1>2, <3>1
    <3> HIDE DEF p, map, first
    <3>4. Place(map, p) = i
      <4>1. {q[1] : q \in map} = {Number(2 * m) : m \in 1..Cardinality(map)}
        BY <1>1, <1>7
      <4>2. i \in 1..Cardinality(map)
        BY <1>1
      <4> HIDE DEF names, even, N
      <4>3. QED
        BY <1>1, <3>3, <4>1, <4>2, PlaceOf
    <3>5. \A q \in map : Place(map, q) = i => q = p
      <4>1. \A q \in map : q[1] = Number(2 * Place(map, q))
        <5> HIDE DEF names, even
        <5>1. QED
          BY <1>5, <1>7
      <4>2. QED
        BY <1>1, <3>3, <4>1
    <3>6. at(i) = p
      BY <3>3, <3>4, <3>5
    <3> HIDE DEF at, row
    <3>7. QED
      BY <3>2, <3>3, <3>6
  <2> HIDE DEF at, row, map, N
  <2>3. QED
    BY <2>1, <2>2
<1> HIDE DEF names, even, byRow, map
<1>8. QED
  BY <1>4, <1>6, <1>7 DEF map

\* What a finished level answers is the conversion of its table.
LEMMA RowsDone ==
  ASSUME NEW kind \in {"map", "array"}, NEW keys, NEW values, NEW n \in Nat,
         \A i \in 1..n : HasValue(keys[i]) /\ HasValue(values[i])
  PROVE  ConvertRows(kind, keys, values, n) =
           IF kind = "map" THEN MapValue(PairsOf(keys, values, n))
           ELSE ToArray(PairsOf(keys, values, n))
<1>1. ASSUME kind = "map" PROVE ConvertRows(kind, keys, values, n) = MapValue(PairsOf(keys, values, n))
  BY <1>1 DEF ConvertRows
<1>2. ASSUME kind = "array" PROVE ConvertRows(kind, keys, values, n) = ToArray(PairsOf(keys, values, n))
  BY <1>2, ArrayOfRows
<1>3. QED
  BY <1>1, <1>2

\* A row of which a half has no value is the end of it.
LEMMA RowsFail ==
  ASSUME NEW kind, NEW keys, NEW values, NEW n, NEW i \in 1..n,
         ~HasValue(keys[i]) \/ ~HasValue(values[i])
  PROVE  ConvertRows(kind, keys, values, n) = NoValue
BY DEF ConvertRows

-----------------------------------------------------------------------------
(* The invariant behind ConvertsByDefinition, level by level                *)

AtPair(f, s, t, busy) == \E p \in 0..Len(s[t].val) : IsAtPair(f, s, t, busy, p)

LevelFollows(i) ==
  /\ frames[i].type = TypeAsked(i - 1)
  /\ AtPair(frames[i], slots, Spot(under, frames, i), i < Len(frames) \/ step # "next")

LEMMA FollowFacts ==
  ASSUME TableInductive, FollowsReference, step # "undefined"
  PROVE  \A i \in 1..Len(frames) : LevelFollows(i)
<1>1. DOMAIN frames = 1..Len(frames)
  BY LevelFacts
<1>2. \A i \in 1..Len(frames) : TableAt[i] = Spot(under, frames, i)
  BY <1>1 DEF TableAt, Spot
<1>3. QED
  BY <1>1, <1>2 DEF FollowsReference, LevelFollows, AtPair

\* The state after a step, from its levels.
LEMMA FollowAfter ==
  ASSUME IsSequence(frames'), \A i \in 1..Len(frames') : LevelFollows(i)',
         step' # "idle" => conversion' \in Conversions,
         step' = "top" => wanted' = TypeAsked(Len(frames))',
         step' = "return" => answer' = Convert[TypeAsked(Len(frames))'][Last(slots')]
  PROVE  FollowsReference'
<1>1. DOMAIN frames' = 1..Len(frames')
  BY SequenceIsSeq
<1>2. \A i \in 1..Len(frames') : TableAt'[i] = Spot(under', frames', i)
  BY <1>1 DEF TableAt, Spot
<1>3. \A i \in DOMAIN frames' :
        /\ frames'[i].type = TypeAsked(i - 1)'
        /\ \E p \in 0..Len(slots'[TableAt'[i]].val) :
             IsAtPair(frames'[i], slots', TableAt'[i], i < Len(frames') \/ step' # "next", p)
  BY <1>1, <1>2 DEF LevelFollows, AtPair
<1>4. QED
  BY <1>3 DEF FollowsReference

\* A pair is where its level is: the key is above the table, and the value
\* above that.
LEMMA PairIsKept ==
  ASSUME NEW f, NEW s, NEW r, NEW t, NEW busy, AtPair(f, s, t, busy), r[t] = s[t], r[t + 1] = s[t + 1],
         busy /\ f.stage = "value" => r[t + 2] = s[t + 2]
  PROVE  AtPair(f, r, t, busy)
BY DEF AtPair, IsAtPair

\* Levels that are not touched, nor what they have on the stack, go on as they did.
LEMMA BelowFollows ==
  ASSUME TableInductive, FollowsReference, step # "undefined", NEW m \in Nat,
         m <= Len(frames), m < Len(frames) \/ step # "next",
         m <= Len(frames'), m < Len(frames') \/ step' # "next", Len(frames') \in Nat,
         conversion' = conversion, under' = under,
         \A i \in 1..m : frames'[i] = frames[i],
         \A j \in 1..Spot(under, frames, m + 1) : slots'[j] = slots[j]
  PROVE  /\ \A i \in 1..m : LevelFollows(i)'
         /\ \A i \in 0..m : TypeAsked(i)' = TypeAsked(i)
<1>1. Len(frames) \in Nat /\ Len(under) \in Nat
  BY LevelFacts
<1>2. ASSUME NEW i \in 0..m PROVE TypeAsked(i)' = TypeAsked(i)
  <2>1. i # 0 => i \in 1..m
    OBVIOUS
  <2>2. QED
    BY <2>1 DEF TypeAsked
<1>3. ASSUME NEW i \in 1..m PROVE LevelFollows(i)'
  <2> DEFINE t == Spot(under, frames, i)
  <2>1. LevelFollows(i) /\ t \in Nat \ {0}
    <3>1. i \in 1..Len(frames)
      BY <1>1
    <3>2. QED
      BY <3>1, FollowFacts, LevelFacts
  <2>2. (i < Len(frames) \/ step # "next") /\ (i < Len(frames') \/ step' # "next")
    BY <1>1
  <2>3. frames'[i].type = TypeAsked(i - 1)'
    <3>1. i - 1 \in 0..m
      OBVIOUS
    <3>2. frames[i].type = TypeAsked(i - 1) /\ frames'[i] = frames[i]
      BY <2>1 DEF LevelFollows
    <3>3. QED
      BY <1>2, <3>1, <3>2
  <2>4. AtPair(frames[i], slots, t, TRUE)
    BY <2>1, <2>2 DEF LevelFollows
  <2>5. Spot(under', frames', i) = t
    <3>1. \A j \in 1..(i - 1) : frames'[j].stage = frames[j].stage
      OBVIOUS
    <3>2. i \in Nat
      OBVIOUS
    <3>3. Level(frames', i) = Level(frames, i)
      BY <3>1, <3>2, LevelOfSame
    <3>4. QED
      BY <3>3 DEF Spot
  <2>6. t + (IF frames[i].stage = "value" THEN 2 ELSE 1) <= Spot(under, frames, m + 1)
    <3>1. i \in Nat \ {0} /\ m + 1 \in Nat \ {0} /\ i + 1 \in Nat \ {0}
      OBVIOUS
    <3>2. /\ Level(frames, i) \in Nat /\ Level(frames, i + 1) \in Nat /\ Level(frames, m + 1) \in Nat
          /\ Level(frames, i + 1) = Level(frames, i) + IF frames[i].stage = "value" THEN 2 ELSE 1
      BY <3>1, LevelSteps
    <3>3. Level(frames, i + 1) <= Level(frames, m + 1)
      <4>1. CASE i = m
        BY <3>2, <4>1
      <4>2. CASE i # m
        <5>1. i + 1 < m + 1
          BY <4>2
        <5>2. Level(frames, i + 1) < Level(frames, m + 1)
          BY <3>1, <5>1, LevelsGrow
        <5>3. QED
          BY <3>2, <5>2
      <4>3. QED
        BY <4>1, <4>2
    <3>4. QED
      BY <1>1, <3>2, <3>3 DEF Spot
  <2> HIDE DEF t
  <2>7. Spot(under, frames, m + 1) \in Nat
    <3>1. m + 1 \in Nat \ {0}
      OBVIOUS
    <3>2. Level(frames, m + 1) \in Nat
      BY <3>1, LevelSteps
    <3>3. QED
      BY <1>1, <3>2 DEF Spot
  <2>8. /\ t \in 1..Spot(under, frames, m + 1) /\ t + 1 \in 1..Spot(under, frames, m + 1)
        /\ frames[i].stage = "value" => t + 2 \in 1..Spot(under, frames, m + 1)
    BY <2>1, <2>6, <2>7
  <2>9. /\ slots'[t] = slots[t] /\ slots'[t + 1] = slots[t + 1]
        /\ TRUE /\ frames[i].stage = "value" => slots'[t + 2] = slots[t + 2]
    BY <2>8
  <2>10. AtPair(frames[i], slots', t, TRUE)
    BY <2>4, <2>9, PairIsKept
  <2>11. QED
    BY <2>2, <2>3, <2>5, <2>10 DEF LevelFollows
<1>4. QED
  BY <1>2, <1>3

\* The innermost level and its pair.
LEMMA InnermostFollows ==
  ASSUME TableInductive, FollowsReference, frames # <<>>, step \in {"top", "next", "return"}
  PROVE  \E n, t \in Nat \ {0}, p \in Nat :
           /\ n = Len(frames) /\ t = Spot(under, frames, n)
           /\ Innermost = frames[n] /\ IsFrame(frames[n]) /\ frames[n].type = TypeAsked(n - 1)
           /\ slots[t] \in TableValues /\ slots[t].kind = "table"
           /\ slots[t].val \in Seq(TableValues \X TableValues)
           /\ p \in 0..Len(slots[t].val) /\ IsAtPair(frames[n], slots, t, step # "next", p)
           /\ Len(slots) = t + IF step # "next" /\ frames[n].stage = "value" THEN 2 ELSE 1
<1>1. PICK n, t \in Nat \ {0} :
           /\ n = Len(frames) /\ t = Spot(under, frames, n)
           /\ Innermost = frames[n] /\ IsFrame(frames[n])
           /\ Stands(slots, frames[n], t)
           /\ Len(slots) = t + IF step # "next" /\ frames[n].stage = "value" THEN 2 ELSE 1
  BY InnermostFacts
<1>2. LevelFollows(n)
  <2>1. n \in 1..Len(frames)
    BY <1>1
  <2>2. QED
    BY <2>1, FollowFacts
<1>3. slots[t] \in Slots /\ slots[t].kind = "table"
  <2>1. slots \in Seq(Slots) /\ t \in 1..Len(slots)
    BY <1>1, LevelFacts
  <2>2. QED
    BY <1>1, <2>1 DEF Stands
<1>4. slots[t] \in TableValues /\ slots[t].val \in Seq(TableValues \X TableValues)
  BY <1>3, SlotFacts
<1>5. frames[n].type = TypeAsked(n - 1) /\ AtPair(frames[n], slots, t, step # "next")
  <2>1. ~(n < Len(frames))
    BY <1>1
  <2>2. QED
    BY <1>1, <1>2, <2>1 DEF LevelFollows
<1>6. PICK p \in 0..Len(slots[t].val) : IsAtPair(frames[n], slots, t, step # "next", p)
  BY <1>5 DEF AtPair
<1>7. p \in Nat
  OBVIOUS
<1>8. QED
  BY <1>1, <1>3, <1>4, <1>5, <1>6, <1>7

-----------------------------------------------------------------------------
(* The steps follow the definition *)

\* The host's value is the first above the stack as it was found.
LEMMA OutermostFacts ==
  ASSUME TableInductive, step \in {"top", "return"}, frames = <<>>
  PROVE  Len(frames) = 0 /\ Last(slots) = conversion.value
<1>1. Len(frames) = 0
  BY EmptyIsSequence
<1>2. Level(frames, Len(frames) + 1) = 1
  BY <1>1, LevelSteps
<1>3. Len(slots) = Len(under) + 1 /\ slots[Len(under) + 1] = conversion.value
  BY <1>2 DEF TableInductive, LevelsFit
<1>4. QED
  BY <1>1, <1>3 DEF Last

\* What a level has come to (IsAtPair), while a half of the pair is converted.
IsBusy(f, s, t, p) ==
  /\ p \in 1..Len(s[t].val)
  /\ s[t + 1] = s[t].val[p][1]
  /\ Last(s) = IF f.stage = "value" THEN s[t].val[p][2] ELSE s[t].val[p][1]
  /\ Last(s) \in TableValues
  /\ f.stage # "value" => f.value = ValuesOf(f.type, s[t])[p]
  /\ f.map = PairsOf(KeysOf(f.type, s[t]), ValuesOf(f.type, s[t]), p - 1)
  /\ \A i \in 1..(p - 1) : /\ HasValue(KeysOf(f.type, s[t])[i])
                           /\ HasValue(ValuesOf(f.type, s[t])[i])

LEMMA BusyFacts ==
  ASSUME NEW f, NEW s, NEW t \in Nat, NEW p \in Nat, IsAtPair(f, s, t, TRUE, p),
         s[t].val \in Seq(TableValues \X TableValues), p <= Len(s[t].val),
         Len(s) = t + IF f.stage = "value" THEN 2 ELSE 1
  PROVE  IsBusy(f, s, t, p)
<1>1. p > 0 /\ p \in 1..Len(s[t].val)
  BY DEF IsAtPair
<1>2. s[t].val[p] \in TableValues \X TableValues
  BY <1>1
<1>3. s[t].val[p][1] \in TableValues /\ s[t].val[p][2] \in TableValues
  BY <1>2
<1>4. s[t + 1] = s[t].val[p][1]
  BY <1>1 DEF IsAtPair
<1>5. IF f.stage = "value" THEN s[t + 2] = s[t].val[p][2]
      ELSE f.value = ValuesOf(f.type, s[t])[p]
  BY DEF IsAtPair
<1>6. Last(s) = IF f.stage = "value" THEN s[t].val[p][2] ELSE s[t].val[p][1]
  BY <1>4, <1>5 DEF Last
<1>7. /\ f.map = PairsOf(KeysOf(f.type, s[t]), ValuesOf(f.type, s[t]), p - 1)
      /\ \A i \in 1..(p - 1) : /\ HasValue(KeysOf(f.type, s[t])[i])
                               /\ HasValue(ValuesOf(f.type, s[t])[i])
  BY DEF IsAtPair
<1>8. QED
  BY <1>1, <1>3, <1>4, <1>5, <1>6, <1>7 DEF IsBusy

\* What top() is asked for has a definition.
LEMMA AskedFacts ==
  ASSUME TableInductive, FollowsReference, step \in {"top", "return"}
  PROVE  TypeAsked(Len(frames)) \in TableTypes /\ Last(slots) \in TableValues
<1>1. CASE frames = <<>>
  <2>1. Len(frames) = 0 /\ Last(slots) = conversion.value
    BY <1>1, OutermostFacts
  <2>2. conversion \in Conversions
    BY DEF FollowsReference
  <2>3. QED
    BY <2>1, <2>2, TableAssumption DEF TypeAsked
<1>2. CASE frames # <<>>
  <2>1. PICK n, t \in Nat \ {0}, p \in Nat :
           /\ n = Len(frames) /\ IsFrame(frames[n])
           /\ slots[t].val \in Seq(TableValues \X TableValues)
           /\ p \in 0..Len(slots[t].val) /\ IsAtPair(frames[n], slots, t, step # "next", p)
           /\ Len(slots) = t + IF step # "next" /\ frames[n].stage = "value" THEN 2 ELSE 1
    BY <1>2, InnermostFollows
  <2>2. Last(slots) \in TableValues
    <3>1. IsAtPair(frames[n], slots, t, TRUE, p)
      BY <2>1
    <3>2. Len(slots) = t + IF frames[n].stage = "value" THEN 2 ELSE 1
      BY <2>1
    <3>3. t \in Nat /\ p <= Len(slots[t].val)
      BY <2>1
    <3>4. QED
      BY <2>1, <3>1, <3>2, <3>3, BusyFacts DEF IsBusy
  <2>3. TypeAsked(n) \in TableTypes
    BY <2>1, TableAssumption DEF TypeAsked, IsFrame
  <2>4. QED
    BY <2>1, <2>2, <2>3
<1>3. QED
  BY <1>1, <1>2

\* A scalar, or a value that is no table, is what it is by definition (TopValue).
LEMMA TopValueFollows == TableInductive /\ FollowsReference /\ TopValue => FollowsReference'
<1> SUFFICES ASSUME TableInductive, FollowsReference, TopValue PROVE FollowsReference'
  OBVIOUS
<1>1. /\ step = "top" /\ step' = "return"
      /\ ~IsContainer(wanted) \/ Last(slots).kind # "table"
      /\ answer' = IF IsContainer(wanted) THEN NoValue ELSE TopScalar(wanted.kind, Last(slots))
      /\ UNCHANGED <<wanted, slots, frames, conversion, under>>
  BY DEF TopValue, Answer
<1>2. IsSequence(frames) /\ Len(frames) \in Nat
  BY LevelFacts
<1>3. /\ \A i \in 1..Len(frames) : LevelFollows(i)'
      /\ \A i \in 0..Len(frames) : TypeAsked(i)' = TypeAsked(i)
  BY <1>1, <1>2, BelowFollows
<1>4. wanted = TypeAsked(Len(frames))
  BY <1>1 DEF FollowsReference
<1>5. wanted \in TableTypes /\ Last(slots) \in TableValues
  BY <1>1, <1>4, AskedFacts
<1>6. answer' = Convert[wanted][Last(slots)]
  <2>1. Convert[wanted][Last(slots)] = ConvertOne(wanted, Last(slots), Convert[wanted.key], Convert[wanted.of])
    BY <1>5, ConvertFacts
  <2>2. QED
    BY <1>1, <2>1 DEF ConvertOne
<1>7. TypeAsked(Len(frames))' = wanted
  <2>1. Len(frames) \in 0..Len(frames)
    BY <1>2
  <2>2. TypeAsked(Len(frames))' = TypeAsked(Len(frames))
    BY <1>1 DEF TypeAsked
  <2>3. QED
    BY <1>4, <2>2
<1>8. conversion' \in Conversions
  BY <1>1 DEF FollowsReference
<1>9. QED
  BY <1>1, <1>2, <1>3, <1>6, <1>7, <1>8, FollowAfter

\* A new conversion asks for the type it is for (Request).
LEMMA RequestFollows ==
  ASSUME TableInductive, FollowsReference, NEW r \in Conversions, Request(r)
  PROVE  FollowsReference'
<1>1. /\ step = "idle" /\ step' = "top" /\ conversion' = r /\ wanted' = r.type /\ frames' = frames
  BY DEF Request
<1>2. frames = <<>> /\ Len(frames) = 0 /\ IsSequence(frames)
  BY <1>1, EmptyIsSequence DEF TableInductive, LevelsFit
<1>3. wanted' = TypeAsked(Len(frames))'
  BY <1>1, <1>2 DEF TypeAsked
<1>4. QED
  BY <1>1, <1>2, <1>3, FollowAfter

\* A new level is before its first pair (StartMap).
LEMMA StartMapFollows == TableInductive /\ FollowsReference /\ StartMap => FollowsReference'
<1> SUFFICES ASSUME TableInductive, FollowsReference, StartMap PROVE FollowsReference'
  OBVIOUS
<1> DEFINE f == [type |-> wanted, stage |-> "value", map |-> {}, value |-> NoValue]
<1>0. PICK n, t \in Nat : n = Len(frames) /\ t = Len(slots)
  BY LevelFacts
<1>1. /\ step = "top" /\ step' = "next" /\ Last(slots).kind = "table"
      /\ frames' = Append(frames, f) /\ slots' = Append(slots, Nil)
      /\ UNCHANGED <<wanted, conversion, under>>
  BY DEF StartMap, MapStarts
<1>2. slots \in Seq(Slots) /\ IsSequence(frames) /\ Len(under) \in Nat
  BY LevelFacts
<1>3. t = Spot(under, frames, n + 1) /\ Len(under) < t
  BY <1>0, <1>1 DEF TableInductive, LevelsFit, Spot
<1>4. slots'[t + 1] = Nil /\ \A i \in 1..t : slots'[i] = slots[i]
  BY <1>0, <1>1, <1>2 DEF Slots
<1>5. /\ IsSequence(frames') /\ Len(frames') = n + 1 /\ frames'[n + 1] = f
      /\ \A i \in 1..n : frames'[i] = frames[i]
  BY <1>0, <1>1, <1>2, AppendFacts
<1> HIDE DEF f
<1>6. /\ \A i \in 1..n : LevelFollows(i)'
      /\ \A i \in 0..n : TypeAsked(i)' = TypeAsked(i)
  <2>1. /\ n <= Len(frames)
        /\ n < Len(frames) \/ step # "next"
        /\ n <= Len(frames') /\ n < Len(frames') /\ Len(frames') \in Nat
    BY <1>0, <1>1, <1>5
  <2>2. \A j \in 1..Spot(under, frames, n + 1) : slots'[j] = slots[j]
    BY <1>3, <1>4
  <2>3. conversion' = conversion /\ under' = under /\ \A i \in 1..n : frames'[i] = frames[i]
    BY <1>1, <1>5
  <2>4. QED
    BY <1>1, <2>1, <2>2, <2>3, BelowFollows
<1>7. LevelFollows(n + 1)'
  <2>1. Spot(under', frames', n + 1) = t
    <3>1. \A j \in 1..(n + 1 - 1) : frames'[j].stage = frames[j].stage
      BY <1>2, <1>5
    <3>2. n + 1 \in Nat
      BY <1>2
    <3>3. Level(frames', n + 1) = Level(frames, n + 1)
      BY <3>1, <3>2, LevelOfSame
    <3>4. QED
      BY <1>1, <1>3, <3>3 DEF Spot
  <2>2. f.type = TypeAsked(n + 1 - 1)'
    <3>1. n \in 0..n /\ n + 1 - 1 = n
      BY <1>2
    <3>2. wanted = TypeAsked(n)
      BY <1>0, <1>1 DEF FollowsReference
    <3>3. TypeAsked(n + 1 - 1)' = TypeAsked(n)'
      BY <3>1 DEF TypeAsked
    <3>4. TypeAsked(n)' = TypeAsked(n)
      BY <1>6, <3>1
    <3>5. QED
      BY <3>2, <3>3, <3>4 DEF f
  <2>3. Len(slots[t].val) \in Nat
    <3>1. Last(slots) = slots[t] /\ t \in 1..Len(slots)
      BY <1>0, <1>2, <1>3 DEF Last
    <3>2. slots[t] \in Slots
      BY <1>2, <3>1
    <3>3. QED
      BY <1>1, <3>1, <3>2, SlotFacts
  <2>4. IsAtPair(f, slots', t, FALSE, 0)
    <3>1. f.map = {}
      BY DEF f
    <3>2. 0 - 1 = -1 /\ 1..0 = {}
      OBVIOUS
    <3>3. QED
      BY <1>4, <3>1, <3>2, NoRows DEF IsAtPair
  <2>5. AtPair(f, slots', t, FALSE)
    <3>1. t \in 1..t
      BY <1>2, <1>3
    <3>2. slots'[t] = slots[t]
      BY <1>4, <3>1
    <3>3. 0 \in 0..Len(slots'[t].val)
      BY <2>3, <3>2
    <3>4. QED
      BY <2>4, <3>3 DEF AtPair
  <2>6. ~(n + 1 < Len(frames') \/ step' # "next")
    BY <1>1, <1>2, <1>5
  <2>7. AtPair(frames'[n + 1], slots', Spot(under', frames', n + 1), n + 1 < Len(frames') \/ step' # "next")
    <3>1. (n + 1 < Len(frames') \/ step' # "next") = FALSE
      BY <2>6
    <3>2. QED
      BY <1>5, <2>1, <2>5, <3>1
  <2>8. QED
    BY <1>5, <2>2, <2>7 DEF LevelFollows
<1>8. \A i \in 1..Len(frames') : LevelFollows(i)'
  <2>1. \A i \in 1..Len(frames') : i \in 1..n \/ i = n + 1
    BY <1>2, <1>5
  <2>2. QED
    BY <1>6, <1>7, <2>1
<1>9. conversion' \in Conversions
  BY <1>1 DEF FollowsReference
<1>10. QED
  BY <1>1, <1>5, <1>8, <1>9, FollowAfter

\* The levels below the innermost go on as they did.
LEMMA BelowInnermost ==
  ASSUME TableInductive, FollowsReference, step \notin {"idle", "undefined"},
         NEW n \in Nat \ {0}, n = Len(frames), KeptBelow(n),
         Len(frames') = n \/ step' # "next"
  PROVE  /\ \A i \in 1..(n - 1) : LevelFollows(i)'
         /\ \A i \in 0..(n - 1) : TypeAsked(i)' = TypeAsked(i)
         /\ Spot(under', frames', n) = Spot(under, frames, n)
<1>1. /\ under' = under /\ conversion' = conversion
      /\ Len(frames') \in {n - 1, n}
      /\ \A i \in 1..(n - 1) : frames'[i] = frames[i]
      /\ \A j \in 1..Spot(under, frames, n) : slots'[j] = slots[j]
  BY DEF KeptBelow
<1>2. PICK m \in Nat : m = n - 1
  OBVIOUS
<1>3. m <= Len(frames) /\ m < Len(frames) /\ m <= Len(frames') /\ Len(frames') \in Nat
  BY <1>1, <1>2
<1>4. m < Len(frames') \/ step' # "next"
  BY <1>2
<1>5. m + 1 = n
  BY <1>2
<1>6. \A j \in 1..Spot(under, frames, m + 1) : slots'[j] = slots[j]
  BY <1>1, <1>5
<1>7. \A i \in 1..m : frames'[i] = frames[i]
  BY <1>1, <1>2
<1>8. /\ \A i \in 1..m : LevelFollows(i)'
      /\ \A i \in 0..m : TypeAsked(i)' = TypeAsked(i)
  BY <1>1, <1>3, <1>4, <1>6, <1>7, BelowFollows
<1>9. StandBelow(n)
  BY BelowIsKept
<1>10. QED
  BY <1>2, <1>8, <1>9 DEF StandBelow

\* The innermost level goes on: it is at a pair, and asks for a half of it.
LEMMA InnermostGoesOn ==
  ASSUME TableInductive, FollowsReference, step \notin {"idle", "undefined"},
         NEW n \in Nat \ {0}, n = Len(frames), KeptBelow(n), Len(frames') = n,
         frames'[n].type = frames[n].type, step' \in {"top", "next"},
         AtPair(frames'[n], slots', Spot(under, frames, n), step' # "next"),
         step' = "top" => wanted' = IF frames'[n].stage = "value" THEN frames'[n].type.of
                                    ELSE frames'[n].type.key
  PROVE  FollowsReference'
<1>1. /\ \A i \in 1..(n - 1) : LevelFollows(i)'
      /\ \A i \in 0..(n - 1) : TypeAsked(i)' = TypeAsked(i)
      /\ Spot(under', frames', n) = Spot(under, frames, n)
  BY BelowInnermost
<1>2. frames'[n].type = TypeAsked(n - 1)'
  <2>1. n \in 1..Len(frames) /\ n - 1 \in 0..(n - 1)
    OBVIOUS
  <2>2. frames[n].type = TypeAsked(n - 1)
    BY <2>1, FollowFacts DEF LevelFollows
  <2>3. TypeAsked(n - 1)' = TypeAsked(n - 1)
    BY <1>1, <2>1
  <2>4. QED
    BY <2>2, <2>3
<1>3. LevelFollows(n)'
  <2>1. (n < Len(frames') \/ step' # "next") = (step' # "next")
    OBVIOUS
  <2>2. AtPair(frames'[n], slots', Spot(under', frames', n), n < Len(frames') \/ step' # "next")
    BY <1>1, <2>1
  <2>3. QED
    BY <1>2, <2>2 DEF LevelFollows
<1>4. \A i \in 1..Len(frames') : LevelFollows(i)'
  <2>1. \A i \in 1..Len(frames') : i \in 1..(n - 1) \/ i = n
    OBVIOUS
  <2>2. QED
    BY <1>1, <1>3, <2>1
<1>5. conversion' \in Conversions /\ IsSequence(frames')
  BY DEF FollowsReference, KeptBelow
<1>6. step' = "top" => wanted' = TypeAsked(Len(frames))'
  BY DEF TypeAsked
<1>7. QED
  BY <1>4, <1>5, <1>6, FollowAfter

\* The innermost level has its answer, and its table is on top again.
LEMMA InnermostAnswers ==
  ASSUME TableInductive, FollowsReference, step \notin {"idle", "undefined"},
         NEW n \in Nat \ {0}, n = Len(frames), KeptBelow(n), Len(frames') = n - 1,
         NEW t \in Nat \ {0}, t = Spot(under, frames, n), Len(slots') = t, step' = "return",
         answer' = Convert[frames[n].type][slots[t]]
  PROVE  FollowsReference'
<1>1. /\ \A i \in 1..(n - 1) : LevelFollows(i)'
      /\ \A i \in 0..(n - 1) : TypeAsked(i)' = TypeAsked(i)
  BY BelowInnermost
<1>2. frames[n].type = TypeAsked(n - 1)'
  <2>1. n \in 1..Len(frames) /\ n - 1 \in 0..(n - 1)
    OBVIOUS
  <2>2. frames[n].type = TypeAsked(n - 1)
    BY <2>1, FollowFacts DEF LevelFollows
  <2>3. QED
    BY <1>1, <2>1, <2>2
<1>3. TypeAsked(Len(frames))' = TypeAsked(n - 1)'
  BY DEF TypeAsked
<1>4. Last(slots') = slots[t]
  <2>1. t \in 1..t
    OBVIOUS
  <2>2. slots'[t] = slots[t]
    BY <2>1 DEF KeptBelow
  <2>3. QED
    BY <2>2 DEF Last
<1>5. answer' = Convert[TypeAsked(Len(frames))'][Last(slots')]
  BY <1>2, <1>3, <1>4
<1>6. conversion' \in Conversions /\ IsSequence(frames')
  BY DEF FollowsReference, KeptBelow
<1>7. QED
  BY <1>1, <1>5, <1>6, FollowAfter

\* A sequence of which the last element has been replaced.
EndsIn(r, s, n, g) ==
  /\ IsSequence(r) /\ Len(r) = n /\ r[n] = g
  /\ \A i \in 1..(n - 1) : r[i] = s[i]

LEMMA LastIsReplaced ==
  ASSUME NEW s, IsSequence(s), NEW n \in Nat \ {0}, n = Len(s), NEW g
  PROVE  EndsIn([s EXCEPT ![n] = g], s, n, g)
<1>1. n \in 1..Len(s) /\ \A i \in 1..(n - 1) : i \in 1..Len(s) /\ i # n
  OBVIOUS
<1>2. IsReplaced([s EXCEPT ![n] = g], s, n, g)
  BY <1>1, ExceptFacts, Zenon
<1> DEFINE r == [s EXCEPT ![n] = g]
<1>3. IsReplaced(r, s, n, g)
  BY <1>2
<1> HIDE DEF r
<1>4. EndsIn(r, s, n, g)
  BY <1>1, <1>3 DEF IsReplaced, EndsIn
<1>5. QED
  BY <1>4 DEF r

\* A level whose pairs all have been converted answers what its table is by
\* definition; so does one that has come to a pair that cannot be converted.
LEMMA TableFacts ==
  ASSUME NEW T \in TableTypes, IsContainer(T), NEW v \in TableValues, v.kind = "table"
  PROVE  /\ (\A i \in 1..Len(v.val) : HasValue(KeysOf(T, v)[i]) /\ HasValue(ValuesOf(T, v)[i]))
              => Convert[T][v] =
                   IF T.kind = "map" THEN MapValue(PairsOf(KeysOf(T, v), ValuesOf(T, v), Len(v.val)))
                   ELSE ToArray(PairsOf(KeysOf(T, v), ValuesOf(T, v), Len(v.val)))
         /\ (\E i \in 1..Len(v.val) : ~HasValue(KeysOf(T, v)[i]) \/ ~HasValue(ValuesOf(T, v)[i]))
              => Convert[T][v] = NoValue
<1>1. Convert[T][v] = ConvertRows(T.kind, KeysOf(T, v), ValuesOf(T, v), Len(v.val))
  BY ConvertTable
<1>2. T.kind \in {"map", "array"}
  BY DEF IsContainer
<1>3. Len(v.val) \in Nat
  BY TableAssumption
<1>4. QED
  BY <1>1, <1>2, <1>3, RowsDone, RowsFail

\* The position of a key is that of the pair it was taken from: no other has
\* the same key.
LEMMA PositionFacts ==
  ASSUME NEW v \in TableValues, v.kind = "table", PairsBelow = v.val,
         NEW p \in 0..Len(v.val), NEW k, k = IF p = 0 THEN Nil ELSE v.val[p][1]
  PROVE  Position(k) = p
<1>1. /\ DOMAIN v.val = 1..Len(v.val) /\ Len(v.val) \in Nat
      /\ \A i \in DOMAIN v.val : v.val[i][1].kind # "nil"
      /\ \A i, j \in DOMAIN v.val : SameKey(v.val[i][1], v.val[j][1]) => i = j
  BY TableAssumption
<1>2. CASE p = 0
  BY <1>2 DEF Position, Nil
<1>3. CASE p # 0
  <2>1. p \in DOMAIN v.val /\ k = v.val[p][1] /\ k.kind # "nil"
    BY <1>1, <1>3
  <2>2. SameKey(v.val[p][1], v.val[p][1])
    BY DEF SameKey
  <2>3. Positions(k) = {p}
    BY <1>1, <2>1, <2>2 DEF Positions
  <2>4. QED
    BY <2>1, <2>3 DEF Position
<1>4. QED
  BY <1>2, <1>3

\* Where the innermost level is while it is walked over.
LEMMA WalkFacts ==
  ASSUME TableInductive, FollowsReference, step = "next"
  PROVE  \E n, t \in Nat \ {0}, p \in Nat :
           /\ n = Len(frames) /\ t = Spot(under, frames, n)
           /\ Innermost = frames[n] /\ IsFrame(frames[n])
           /\ slots[t] \in TableValues /\ slots[t].kind = "table" /\ PairsBelow = slots[t].val
           /\ slots[t].val \in Seq(TableValues \X TableValues)
           /\ p \in 0..Len(slots[t].val) /\ IsAtPair(frames[n], slots, t, FALSE, p)
           /\ Len(slots) = t + 1 /\ Position(Last(slots)) = p
<1>1. frames # <<>>
  BY DEF TableInductive, LevelsFit
<1>2. PICK n, t \in Nat \ {0}, p \in Nat :
           /\ n = Len(frames) /\ t = Spot(under, frames, n)
           /\ Innermost = frames[n] /\ IsFrame(frames[n])
           /\ slots[t] \in TableValues /\ slots[t].kind = "table"
           /\ slots[t].val \in Seq(TableValues \X TableValues)
           /\ p \in 0..Len(slots[t].val) /\ IsAtPair(frames[n], slots, t, step # "next", p)
           /\ Len(slots) = t + IF step # "next" /\ frames[n].stage = "value" THEN 2 ELSE 1
  BY <1>1, InnermostFollows
<1>3. IsAtPair(frames[n], slots, t, FALSE, p) /\ Len(slots) = t + 1
  <2>1. (step # "next") = FALSE
    OBVIOUS
  <2>2. QED
    BY <1>2, <2>1
<1>4. PairsBelow = slots[t].val
  BY <1>3 DEF PairsBelow, TableIndex
<1>5. Last(slots) = IF p = 0 THEN Nil ELSE slots[t].val[p][1]
  BY <1>3 DEF IsAtPair, Last
<1>6. Position(Last(slots)) = p
  BY <1>2, <1>4, <1>5, PositionFacts
<1>7. QED
  BY <1>2, <1>3, <1>4, <1>6

\* The level comes to the next pair, and asks for its value (NextItem).
LEMMA NextItemFollows == TableInductive /\ FollowsReference /\ NextItem => FollowsReference'
<1> SUFFICES ASSUME TableInductive, FollowsReference, NextItem PROVE FollowsReference'
  OBVIOUS
<1>1. step = "next" /\ ~IterationIsBroken
  BY IterationGoesOn DEF NextItem
<1>2. PICK n, t \in Nat \ {0}, p \in Nat :
           /\ n = Len(frames) /\ t = Spot(under, frames, n)
           /\ Innermost = frames[n] /\ IsFrame(frames[n])
           /\ slots[t] \in TableValues /\ slots[t].kind = "table" /\ PairsBelow = slots[t].val
           /\ slots[t].val \in Seq(TableValues \X TableValues)
           /\ p \in 0..Len(slots[t].val) /\ IsAtPair(frames[n], slots, t, FALSE, p)
           /\ Len(slots) = t + 1 /\ Position(Last(slots)) = p
  BY <1>1, WalkFacts
<1> DEFINE g == [frames[n] EXCEPT !.stage = "value"]
           q == slots[t].val[p + 1]
<1>3. /\ p < Len(slots[t].val) /\ step' = "top" /\ wanted' = frames[n].type.of
      /\ slots' = Front(slots) \o q
      /\ UNCHANGED <<conversion, under>>
  BY <1>1, <1>2 DEF NextItem, ItemIsNext
<1>4. frames' = [frames EXCEPT ![n] = g]
  BY <1>1, <1>2 DEF NextItem
<1>5. q \in TableValues \X TableValues
  <2>1. p + 1 \in DOMAIN slots[t].val
    BY <1>2, <1>3
  <2>2. QED
    BY <1>2, <2>1
<1>6. q = slots[t].val[p + 1] /\ q = <<q[1], q[2]>> /\ q[1] \in Slots /\ q[2] \in Slots
  BY <1>5 DEF Slots
<1>7. g.type = frames[n].type /\ g.stage = "value" /\ g.map = frames[n].map
  BY <1>2 DEF IsFrame
<1> HIDE DEF q, g
<1>8. slots \in Seq(Slots) /\ IsSequence(frames)
  BY LevelFacts
<1>9. /\ Front(slots) \in Seq(Slots) /\ Len(Front(slots)) = t
      /\ \A i \in 1..t : Front(slots)[i] = slots[i]
  <2>1. Len(slots) > 0 /\ Len(slots) - 1 = t
    BY <1>2
  <2>2. QED
    BY <1>8, <2>1, FrontFacts
<1>10. q \in Seq(Slots) /\ Len(q) = 2
  <2>1. \A v, w \in Slots : <<v, w>> \in Seq(Slots) /\ Len(<<v, w>>) = 2
    OBVIOUS
  <2>2. QED
    BY <1>6, <2>1
<1>11. /\ slots' \in Seq(Slots) /\ Len(slots') = t + 2
       /\ slots'[t + 1] = q[1] /\ slots'[t + 2] = q[2]
       /\ \A i \in 1..t : slots'[i] = slots[i]
  <2>1. Front(slots) \o q \in Seq(Slots)
    BY <1>9, <1>10, ConcatProperties
  <2>2. IsConcat(Front(slots) \o q, Front(slots), q)
    BY <1>9, <1>10, SeqIsSequence, ConcatFacts
  <2>3. /\ Len(slots') = t + 2 /\ slots'[t + 1] = q[1] /\ slots'[t + 2] = q[2]
        /\ \A i \in 1..t : slots'[i] = Front(slots)[i]
    BY <1>3, <1>9, <1>10, <2>2 DEF IsConcat
  <2>4. QED
    BY <1>3, <1>9, <2>1, <2>3
<1>12. /\ IsSequence(frames') /\ Len(frames') = n /\ frames'[n] = g
       /\ \A i \in 1..(n - 1) : frames'[i] = frames[i]
  <2>1. IsSequence(frames) /\ n \in Nat \ {0} /\ n = Len(frames)
    BY <1>2, <1>8
  <2>2. EndsIn([frames EXCEPT ![n] = g], frames, n, g)
    BY <2>1, LastIsReplaced, Zenon
  <2>3. EndsIn(frames', frames, n, g)
    BY <1>4, <2>2, Zenon
  <2>4. QED
    BY <2>3 DEF EndsIn
<1>13. KeptBelow(n)
  <2>1. t <= Len(slots')
    BY <1>11
  <2>2. QED
    BY <1>2, <1>3, <1>11, <1>12, <2>1 DEF KeptBelow
<1>14. AtPair(g, slots', t, TRUE)
  <2>1. slots'[t] = slots[t]
    BY <1>11
  <2>2. p + 1 - 1 = p /\ p + 1 > 0 /\ p + 1 # 0
    OBVIOUS
  <2>3. IsAtPair(g, slots', t, TRUE, p + 1)
    BY <1>2, <1>6, <1>7, <1>11, <2>1, <2>2 DEF IsAtPair
  <2>4. p + 1 \in 0..Len(slots'[t].val)
    BY <1>2, <1>3, <2>1
  <2>5. QED
    BY <2>3, <2>4 DEF AtPair
<1>15. AtPair(frames'[n], slots', Spot(under, frames, n), step' # "next")
  <2>1. (step' # "next") = TRUE
    BY <1>3
  <2>2. QED
    BY <1>2, <1>12, <1>14, <2>1
<1>16. QED
  BY <1>1, <1>2, <1>3, <1>7, <1>12, <1>13, <1>15, InnermostGoesOn

\* The last pair is in the map: the level answers what its table is by
\* definition (EndMap).
LEMMA EndMapFollows == TableInductive /\ FollowsReference /\ EndMap => FollowsReference'
<1> SUFFICES ASSUME TableInductive, FollowsReference, EndMap PROVE FollowsReference'
  OBVIOUS
<1>1. step = "next"
  BY DEF EndMap
<1>2. PICK n, t \in Nat \ {0}, p \in Nat :
           /\ n = Len(frames) /\ t = Spot(under, frames, n)
           /\ Innermost = frames[n] /\ IsFrame(frames[n])
           /\ slots[t] \in TableValues /\ slots[t].kind = "table" /\ PairsBelow = slots[t].val
           /\ slots[t].val \in Seq(TableValues \X TableValues)
           /\ p \in 0..Len(slots[t].val) /\ IsAtPair(frames[n], slots, t, FALSE, p)
           /\ Len(slots) = t + 1 /\ Position(Last(slots)) = p
  BY <1>1, WalkFacts
<1> DEFINE T == frames[n].type
           v == slots[t]
           map == frames[n].map
<1>3. /\ p = Len(v.val) /\ step' = "return"
      /\ slots' = Front(slots) /\ frames' = SubSeq(frames, 1, n - 1)
      /\ answer' = IF T.kind = "map" THEN MapValue(map) ELSE ToArray(map)
      /\ UNCHANGED <<wanted, conversion, under>>
  BY <1>2 DEF EndMap, Answer, Outer
<1>4. slots \in Seq(Slots) /\ IsSequence(frames) /\ n - 1 \in 0..Len(frames)
  BY <1>2, LevelFacts
<1>5. /\ slots' \in Seq(Slots) /\ Len(slots') = t
      /\ \A i \in 1..t : slots'[i] = slots[i]
  <2>1. Len(slots) > 0 /\ Len(slots) - 1 = t
    BY <1>2
  <2>2. QED
    BY <1>3, <1>4, <2>1, FrontFacts
<1>6. /\ IsSequence(frames') /\ Len(frames') = n - 1
      /\ \A i \in 1..(n - 1) : frames'[i] = frames[i]
  BY <1>3, <1>4, PrefixFacts
<1>7. KeptBelow(n)
  BY <1>2, <1>3, <1>5, <1>6 DEF KeptBelow
<1>8. /\ \A i \in 1..Len(v.val) : HasValue(KeysOf(T, v)[i]) /\ HasValue(ValuesOf(T, v)[i])
      /\ map = PairsOf(KeysOf(T, v), ValuesOf(T, v), Len(v.val))
  BY <1>2, <1>3 DEF IsAtPair
<1>9. T \in TableTypes /\ IsContainer(T) /\ v \in TableValues /\ v.kind = "table"
  BY <1>2 DEF IsFrame
<1> HIDE DEF T, v, map
<1>10. answer' = Convert[T][v]
  BY <1>3, <1>8, <1>9, TableFacts
<1>11. answer' = Convert[frames[n].type][slots[t]]
  BY <1>10 DEF T, v
<1>12. QED
  BY <1>1, <1>2, <1>3, <1>5, <1>6, <1>7, <1>11, InnermostAnswers

\* The value of a pair has been converted: it is kept while the key is
\* (PopValue).
LEMMA PopValueFollows == TableInductive /\ FollowsReference /\ PopValue => FollowsReference'
<1> SUFFICES ASSUME TableInductive, FollowsReference, PopValue PROVE FollowsReference'
  OBVIOUS
<1>1. step = "return" /\ frames # <<>>
  BY DEF PopValue
<1>2. PICK n, t \in Nat \ {0}, p \in Nat :
           /\ n = Len(frames) /\ t = Spot(under, frames, n)
           /\ Innermost = frames[n] /\ IsFrame(frames[n])
           /\ slots[t].val \in Seq(TableValues \X TableValues)
           /\ p \in 0..Len(slots[t].val) /\ IsAtPair(frames[n], slots, t, step # "next", p)
           /\ Len(slots) = t + IF step # "next" /\ frames[n].stage = "value" THEN 2 ELSE 1
  BY <1>1, InnermostFollows
<1> DEFINE g == [[frames[n] EXCEPT !.value = answer] EXCEPT !.stage = "key"]
           T == frames[n].type
           v == slots[t]
<1>3. /\ frames[n].stage = "value" /\ step' = "top" /\ wanted' = T.key
      /\ slots' = Front(slots)
      /\ UNCHANGED <<answer, conversion, under>>
  BY <1>2 DEF PopValue
<1>4. frames' = [frames EXCEPT ![n] = g]
  <2>1. frames' = [frames EXCEPT ![n] = [@ EXCEPT !.value = answer, !.stage = "key"]]
    BY <1>2 DEF PopValue
  <2>2. QED
    BY <2>1
<1>5. IsAtPair(frames[n], slots, t, TRUE, p) /\ Len(slots) = t + 2
  <2>1. (step # "next") = TRUE
    BY <1>1
  <2>2. QED
    BY <1>2, <1>3, <2>1
<1>6. p \in 1..Len(v.val) /\ Last(slots) = v.val[p][2]
  <2>1. p <= Len(slots[t].val) /\ t \in Nat /\ slots[t].val \in Seq(TableValues \X TableValues)
    BY <1>2
  <2>2. Len(slots) = t + IF frames[n].stage = "value" THEN 2 ELSE 1
    BY <1>3, <1>5
  <2>3. /\ p \in 1..Len(slots[t].val)
        /\ Last(slots) = IF frames[n].stage = "value" THEN slots[t].val[p][2] ELSE slots[t].val[p][1]
    <3>1. IsBusy(frames[n], slots, t, p)
      BY <1>5, <2>1, <2>2, BusyFacts
    <3>2. QED
      BY <3>1 DEF IsBusy
  <2>4. QED
    BY <1>3, <2>3
<1>7. answer = ValuesOf(T, v)[p]
  <2>1. n # 0
    OBVIOUS
  <2>2. TypeAsked(n) = T.of
    BY <1>3, <2>1 DEF TypeAsked
  <2>3. answer = Convert[TypeAsked(n)][Last(slots)]
    BY <1>1, <1>2 DEF FollowsReference
  <2>4. QED
    BY <1>6, <2>2, <2>3 DEF ValuesOf
<1>8. g.type = T /\ g.stage = "key" /\ g.map = frames[n].map /\ g.value = answer
  BY <1>2 DEF IsFrame
<1> HIDE DEF g
<1>9. slots \in Seq(Slots) /\ IsSequence(frames)
  BY LevelFacts
<1>10. /\ slots' \in Seq(Slots) /\ Len(slots') = t + 1
       /\ \A i \in 1..(t + 1) : slots'[i] = slots[i]
  <2>1. Len(slots) > 0 /\ Len(slots) - 1 = t + 1
    BY <1>5
  <2>2. QED
    BY <1>3, <1>9, <2>1, FrontFacts
<1>11. /\ IsSequence(frames') /\ Len(frames') = n /\ frames'[n] = g
       /\ \A i \in 1..(n - 1) : frames'[i] = frames[i]
  <2>1. IsSequence(frames) /\ n \in Nat \ {0} /\ n = Len(frames)
    BY <1>2, <1>9
  <2>2. EndsIn([frames EXCEPT ![n] = g], frames, n, g)
    BY <2>1, LastIsReplaced, Zenon
  <2>3. EndsIn(frames', frames, n, g)
    BY <1>4, <2>2, Zenon
  <2>4. QED
    BY <2>3 DEF EndsIn
<1>12. KeptBelow(n)
  BY <1>2, <1>3, <1>10, <1>11 DEF KeptBelow
<1>13. AtPair(g, slots', t, TRUE)
  <2>1. slots'[t] = slots[t] /\ slots'[t + 1] = slots[t + 1]
    BY <1>10
  <2>2. IsAtPair(g, slots', t, TRUE, p)
    BY <1>5, <1>7, <1>8, <2>1 DEF IsAtPair, T, v
  <2>3. p \in 0..Len(slots'[t].val)
    BY <1>2, <2>1
  <2>4. QED
    BY <2>2, <2>3 DEF AtPair
<1>14. AtPair(frames'[n], slots', Spot(under, frames, n), step' # "next")
  <2>1. (step' # "next") = TRUE
    BY <1>3
  <2>2. QED
    BY <1>2, <1>11, <1>13, <2>1
<1>15. QED
  BY <1>1, <1>2, <1>3, <1>8, <1>11, <1>12, <1>14, InnermostGoesOn

\* What is known of a pair when its key has been converted, too.
LEMMA KeyFacts ==
  ASSUME TableInductive, FollowsReference, step = "return", frames # <<>>, Innermost.stage = "key"
  PROVE  \E n, t \in Nat \ {0}, p \in Nat :
           /\ n = Len(frames) /\ t = Spot(under, frames, n)
           /\ Innermost = frames[n] /\ IsFrame(frames[n])
           /\ slots[t] \in TableValues /\ slots[t].kind = "table" /\ Len(slots) = t + 1
           /\ p \in 1..Len(slots[t].val) /\ slots[t + 1] = slots[t].val[p][1]
           /\ answer = KeysOf(frames[n].type, slots[t])[p]
           /\ frames[n].value = ValuesOf(frames[n].type, slots[t])[p]
           /\ frames[n].map = PairsOf(KeysOf(frames[n].type, slots[t]),
                                      ValuesOf(frames[n].type, slots[t]), p - 1)
           /\ \A i \in 1..(p - 1) : /\ HasValue(KeysOf(frames[n].type, slots[t])[i])
                                    /\ HasValue(ValuesOf(frames[n].type, slots[t])[i])
<1>1. PICK n, t \in Nat \ {0}, p \in Nat :
           /\ n = Len(frames) /\ t = Spot(under, frames, n)
           /\ Innermost = frames[n] /\ IsFrame(frames[n])
           /\ slots[t] \in TableValues /\ slots[t].kind = "table"
           /\ slots[t].val \in Seq(TableValues \X TableValues)
           /\ p \in 0..Len(slots[t].val) /\ IsAtPair(frames[n], slots, t, step # "next", p)
           /\ Len(slots) = t + IF step # "next" /\ frames[n].stage = "value" THEN 2 ELSE 1
  BY InnermostFollows
<1> DEFINE T == frames[n].type
           v == slots[t]
<1>2. frames[n].stage = "key"
  BY <1>1
<1>3. IsAtPair(frames[n], slots, t, TRUE, p) /\ Len(slots) = t + 1
  <2>1. (step # "next") = TRUE
    OBVIOUS
  <2>2. QED
    BY <1>1, <1>2, <2>1
<1>4. /\ p \in 1..Len(v.val) /\ slots[t + 1] = v.val[p][1] /\ Last(slots) = v.val[p][1]
      /\ frames[n].value = ValuesOf(T, v)[p]
      /\ frames[n].map = PairsOf(KeysOf(T, v), ValuesOf(T, v), p - 1)
      /\ \A i \in 1..(p - 1) : HasValue(KeysOf(T, v)[i]) /\ HasValue(ValuesOf(T, v)[i])
  <2>1. /\ p <= Len(slots[t].val) /\ t \in Nat /\ frames[n].stage # "value"
        /\ slots[t].val \in Seq(TableValues \X TableValues)
    BY <1>1, <1>2
  <2>2. Len(slots) = t + IF frames[n].stage = "value" THEN 2 ELSE 1
    BY <1>3, <2>1
  <2>3. IsBusy(frames[n], slots, t, p)
    BY <1>3, <2>1, <2>2, BusyFacts
  <2>4. QED
    BY <2>1, <2>3 DEF IsBusy
<1>5. answer = KeysOf(T, v)[p]
  <2>1. n # 0 /\ frames[n].stage # "value"
    BY <1>2
  <2>2. TypeAsked(n) = T.key
    BY <2>1 DEF TypeAsked
  <2>3. answer = Convert[TypeAsked(n)][Last(slots)]
    BY <1>1 DEF FollowsReference
  <2>4. QED
    BY <1>4, <2>2, <2>3 DEF KeysOf
<1>6. QED
  BY <1>1, <1>3, <1>4, <1>5

\* Both halves have values: the pair joins the map (TakePair).
LEMMA TakePairFollows == TableInductive /\ FollowsReference /\ TakePair => FollowsReference'
<1> SUFFICES ASSUME TableInductive, FollowsReference, TakePair PROVE FollowsReference'
  OBVIOUS
<1>1. step = "return" /\ frames # <<>> /\ Innermost.stage = "key"
  BY DEF TakePair
<1>2. PICK n, t \in Nat \ {0}, p \in Nat :
           /\ n = Len(frames) /\ t = Spot(under, frames, n)
           /\ Innermost = frames[n] /\ IsFrame(frames[n])
           /\ slots[t] \in TableValues /\ slots[t].kind = "table" /\ Len(slots) = t + 1
           /\ p \in 1..Len(slots[t].val) /\ slots[t + 1] = slots[t].val[p][1]
           /\ answer = KeysOf(frames[n].type, slots[t])[p]
           /\ frames[n].value = ValuesOf(frames[n].type, slots[t])[p]
           /\ frames[n].map = PairsOf(KeysOf(frames[n].type, slots[t]),
                                      ValuesOf(frames[n].type, slots[t]), p - 1)
           /\ \A i \in 1..(p - 1) : /\ HasValue(KeysOf(frames[n].type, slots[t])[i])
                                    /\ HasValue(ValuesOf(frames[n].type, slots[t])[i])
  BY <1>1, KeyFacts
<1> DEFINE T == frames[n].type
           v == slots[t]
           keys == KeysOf(T, v)
           values == ValuesOf(T, v)
           map == Emplace(frames[n].map, answer, frames[n].value)
           g == [frames[n] EXCEPT !.map = map]
<1>3. /\ step' = "next" /\ HasValue(answer) /\ HasValue(frames[n].value)
      /\ UNCHANGED <<slots, conversion, under>>
  BY <1>2 DEF TakePair
<1>4. frames' = [frames EXCEPT ![n] = g]
  BY <1>2 DEF TakePair
<1>5. map = PairsOf(keys, values, p)
  <2>1. p - 1 \in Nat /\ p - 1 + 1 = p
    BY <1>2
  <2>2. frames[n].map = PairsOf(keys, values, p - 1) /\ answer = keys[p] /\ frames[n].value = values[p]
    BY <1>2
  <2> HIDE DEF keys, values
  <2>3. Emplace(PairsOf(keys, values, p - 1), keys[p - 1 + 1], values[p - 1 + 1])
          = PairsOf(keys, values, p - 1 + 1)
    BY <2>1, EmplaceNext
  <2>4. QED
    BY <2>1, <2>2, <2>3
<1>6. \A i \in 1..p : HasValue(keys[i]) /\ HasValue(values[i])
  <2>1. answer = keys[p] /\ frames[n].value = values[p]
    BY <1>2
  <2>2. \A i \in 1..(p - 1) : HasValue(keys[i]) /\ HasValue(values[i])
    BY <1>2
  <2>3. \A i \in 1..p : i \in 1..(p - 1) \/ i = p
    OBVIOUS
  <2> HIDE DEF keys, values
  <2>4. QED
    BY <1>3, <2>1, <2>2, <2>3
<1>7. g.type = T /\ g.map = map
  BY <1>2 DEF IsFrame
<1> HIDE DEF g, map
<1>8. slots \in Seq(Slots) /\ IsSequence(frames)
  BY LevelFacts
<1>9. /\ IsSequence(frames') /\ Len(frames') = n /\ frames'[n] = g
      /\ \A i \in 1..(n - 1) : frames'[i] = frames[i]
  <2>1. IsSequence(frames) /\ n \in Nat \ {0} /\ n = Len(frames)
    BY <1>2, <1>8
  <2>2. EndsIn([frames EXCEPT ![n] = g], frames, n, g)
    BY <2>1, LastIsReplaced, Zenon
  <2>3. EndsIn(frames', frames, n, g)
    BY <1>4, <2>2, Zenon
  <2>4. QED
    BY <2>3 DEF EndsIn
<1>10. KeptBelow(n)
  BY <1>2, <1>3, <1>8, <1>9 DEF KeptBelow
<1>11. AtPair(g, slots', t, FALSE)
  <2>1. IsAtPair(g, slots, t, FALSE, p)
    <3>1. slots[t + 1] = IF p = 0 THEN Nil ELSE slots[t].val[p][1]
      BY <1>2
    <3>2. QED
      BY <1>5, <1>6, <1>7, <3>1 DEF IsAtPair
  <2>2. p \in 0..Len(slots[t].val)
    BY <1>2
  <2>3. slots' = slots
    BY <1>3
  <2>4. QED
    BY <2>1, <2>2, <2>3 DEF AtPair
<1>12. AtPair(frames'[n], slots', Spot(under, frames, n), step' # "next")
  <2>1. (step' # "next") = FALSE
    BY <1>3
  <2>2. QED
    BY <1>2, <1>9, <1>11, <2>1
<1>13. QED
  BY <1>1, <1>2, <1>3, <1>7, <1>9, <1>10, <1>12, InnermostGoesOn

\* A half has no value: neither has the table, by definition (AbortMap).
LEMMA AbortMapFollows == TableInductive /\ FollowsReference /\ AbortMap => FollowsReference'
<1> SUFFICES ASSUME TableInductive, FollowsReference, AbortMap PROVE FollowsReference'
  OBVIOUS
<1>1. step = "return" /\ frames # <<>> /\ Innermost.stage = "key"
  BY DEF AbortMap
<1>2. PICK n, t \in Nat \ {0}, p \in Nat :
           /\ n = Len(frames) /\ t = Spot(under, frames, n)
           /\ Innermost = frames[n] /\ IsFrame(frames[n])
           /\ slots[t] \in TableValues /\ slots[t].kind = "table" /\ Len(slots) = t + 1
           /\ p \in 1..Len(slots[t].val)
           /\ answer = KeysOf(frames[n].type, slots[t])[p]
           /\ frames[n].value = ValuesOf(frames[n].type, slots[t])[p]
  BY <1>1, KeyFacts
<1> DEFINE T == frames[n].type
           v == slots[t]
<1>3. /\ step' = "return" /\ answer' = NoValue
      /\ ~HasValue(answer) \/ ~HasValue(frames[n].value)
      /\ slots' = Front(slots) /\ frames' = SubSeq(frames, 1, n - 1)
      /\ UNCHANGED <<wanted, conversion, under>>
  BY <1>2 DEF AbortMap, Answer, Outer
<1>4. slots \in Seq(Slots) /\ IsSequence(frames) /\ n - 1 \in 0..Len(frames)
  BY <1>2, LevelFacts
<1>5. /\ slots' \in Seq(Slots) /\ Len(slots') = t
      /\ \A i \in 1..t : slots'[i] = slots[i]
  <2>1. Len(slots) > 0 /\ Len(slots) - 1 = t
    BY <1>2
  <2>2. QED
    BY <1>3, <1>4, <2>1, FrontFacts
<1>6. /\ IsSequence(frames') /\ Len(frames') = n - 1
      /\ \A i \in 1..(n - 1) : frames'[i] = frames[i]
  BY <1>3, <1>4, PrefixFacts
<1>7. KeptBelow(n)
  BY <1>2, <1>3, <1>5, <1>6 DEF KeptBelow
<1>8. p \in 1..Len(v.val) /\ (~HasValue(KeysOf(T, v)[p]) \/ ~HasValue(ValuesOf(T, v)[p]))
  BY <1>2, <1>3
<1>9. T \in TableTypes /\ IsContainer(T) /\ v \in TableValues /\ v.kind = "table"
  BY <1>2 DEF IsFrame
<1> HIDE DEF T, v
<1>10. Convert[T][v] = NoValue
  BY <1>8, <1>9, TableFacts
<1>11. answer' = Convert[frames[n].type][slots[t]]
  BY <1>3, <1>10 DEF T, v
<1>12. QED
  BY <1>1, <1>2, <1>3, <1>5, <1>6, <1>7, <1>11, InnermostAnswers

\* The host is given what its value is by definition (Return).
LEMMA ReturnFollows ==
  TableInductive /\ FollowsReference /\ Return => FollowsReference' /\ ConvertsByDefinition'
<1> SUFFICES ASSUME TableInductive, FollowsReference, Return
             PROVE  FollowsReference' /\ ConvertsByDefinition'
  OBVIOUS
<1>1. /\ step = "return" /\ step' = "idle" /\ frames = <<>>
      /\ UNCHANGED <<wanted, frames, answer, conversion, under>>
  BY DEF Return
<1>2. Len(frames) = 0 /\ Last(slots) = conversion.value /\ IsSequence(frames)
  BY <1>1, OutermostFacts, EmptyIsSequence
<1>3. answer = Convert[conversion.type][conversion.value]
  BY <1>1, <1>2 DEF FollowsReference, TypeAsked
<1>4. ConvertsByDefinition'
  BY <1>1, <1>3 DEF ConvertsByDefinition
<1>5. FollowsReference'
  BY <1>1, <1>2, FollowAfter
<1>6. QED
  BY <1>4, <1>5

\* After the overflow nothing is said of the levels any more (Overflow).
LEMMA OverflowFollows == TableInductive /\ FollowsReference /\ Overflow => FollowsReference'
<1> SUFFICES ASSUME TableInductive, FollowsReference, Overflow PROVE FollowsReference'
  OBVIOUS
<1>1. step # "idle" /\ step' = "undefined" /\ conversion' = conversion
  BY DEF Overflow, MapStarts, ItemIsNext
<1>2. QED
  BY <1>1 DEF FollowsReference

\* The invariant holds of every reachable state, with what levels have
\* converted so far.
THEOREM ReferenceInvariant == TableSpec => []ReferenceInductive
<1>1. TableInit => FollowsReference /\ ConvertsByDefinition
  <2> SUFFICES ASSUME TableInit PROVE FollowsReference /\ ConvertsByDefinition
    OBVIOUS
  <2>1. /\ step = "idle" /\ frames = <<>> /\ conversion.type.kind = "none"
    BY DEF TableInit, Scalar
  <2>2. DOMAIN frames = {}
    BY <2>1, EmptyIsSequence
  <2>3. QED
    BY <2>1, <2>2 DEF FollowsReference, ConvertsByDefinition
<1>2. TableInductive /\ FollowsReference /\ ConvertsByDefinition /\ [TableNext]_tableVars
        => FollowsReference' /\ ConvertsByDefinition'
  <2> SUFFICES ASSUME TableInductive, FollowsReference, ConvertsByDefinition, [TableNext]_tableVars
               PROVE  FollowsReference' /\ ConvertsByDefinition'
    OBVIOUS
  <2>1. CASE UNCHANGED tableVars
    <3>1. ConvertsByDefinition'
      BY <2>1 DEF tableVars, ConvertsByDefinition
    <3>2. TableAt' = TableAt
      BY <2>1 DEF tableVars, TableAt
    <3>3. \A m : TypeAsked(m)' = TypeAsked(m)
      BY <2>1 DEF tableVars, TypeAsked
    <3>4. FollowsReference'
      BY <2>1, <3>2, <3>3 DEF tableVars, FollowsReference
    <3>5. QED
      BY <3>1, <3>4
  <2>2. CASE TableNext
    <3>1. CASE Return
      BY <3>1, ReturnFollows
    <3>2. CASE \E r \in Conversions : Request(r)
      <4>1. step' # "idle"
        BY <3>2 DEF Request
      <4>2. QED
        BY <3>2, <4>1, RequestFollows DEF ConvertsByDefinition
    <3>3. CASE TopValue \/ StartMap \/ NextItem \/ EndMap \/ Overflow \/ PopValue \/ TakePair \/ AbortMap
      <4>1. FollowsReference'
        BY <3>3, TopValueFollows, StartMapFollows, NextItemFollows, EndMapFollows,
           OverflowFollows, PopValueFollows, TakePairFollows, AbortMapFollows
      <4>2. step' # "idle"
        <5>1. NextItem => step' # "idle"
          BY DEF NextItem
        <5>2. TopValue \/ StartMap \/ EndMap \/ Overflow \/ PopValue \/ TakePair \/ AbortMap => step' # "idle"
          BY DEF TopValue, StartMap, EndMap, Overflow, PopValue, TakePair, AbortMap, Answer
        <5>3. QED
          BY <3>3, <5>1, <5>2
      <4>3. QED
        BY <4>1, <4>2 DEF ConvertsByDefinition
    <3>4. QED
      BY <2>2, <3>1, <3>2, <3>3 DEF TableNext
  <2>3. QED
    BY <2>1, <2>2
<1>3. TableSpec => []TableInductive
  BY TableInvariant
<1>4. ReferenceInductive <=> TableInductive /\ FollowsReference /\ ConvertsByDefinition
  BY DEF ReferenceInductive
<1>5. QED
  BY <1>1, <1>2, <1>3, <1>4, PTL DEF TableSpec

\* The conversion of a table, with all tables in it, gives what the table is
\* by definition (ConvertsByDefinition).
THEOREM ConversionsAreAsDefined == TableSpec => []ConvertsByDefinition
<1>1. ReferenceInductive => ConvertsByDefinition
  BY DEF ReferenceInductive
<1>2. QED
  BY <1>1, ReferenceInvariant, PTL
=============================================================================
