--------------------------- MODULE Library_proofs ---------------------------
(***************************************************************************)
(* Proofs about Library, for any number of plugins and objects, and        *)
(* whatever libraries are installed.  The heart of them is that the        *)
(* loader's count of a library is the number of its holders, so that what  *)
(* a plugin has is mapped.                                                 *)
(***************************************************************************)
EXTENDS Library, FiniteSetTheorems, SequenceTheorems, TLAPS

\* How many of the plugins have library f, if plugin p has handles[p].
Count(handles, f) == Cardinality({p \in Plugins : handles[p].file = f})

\* Plugin p gets another library, and nobody else does.
Reassigns(handles, after, p, new) ==
  after[p] = new /\ \A q \in Plugins \ {p} : after[q] = handles[q]

-----------------------------------------------------------------------------
(* Lemmas about handles and images *)

\* A handle is None, or has a file and the number of an image.
LEMMA HandleFacts ==
  /\ None \in Handles /\ None.file \notin Files
  /\ \A h \in Handles : h # None => h.file \in Files /\ h.number \in 1..MaxImages
  /\ \A h, k \in Handles : h.file = k.file /\ h.number = k.number => h = k
  /\ NoImage.number = 0
<1>1. None \in Handles /\ None.file \notin Files /\ NoImage.number = 0
  BY DEF None, Handles, Files, NoImage
<1>2. \A h \in Handles : h # None => h.file \in Files /\ h.number \in 1..MaxImages
  BY DEF Handles
<1>3. ASSUME NEW h \in Handles, NEW k \in Handles, h.file = k.file, h.number = k.number
      PROVE  h = k
  <2>1. h = [file |-> h.file, number |-> h.number]
    BY DEF Handles, None
  <2>2. k = [file |-> k.file, number |-> k.number]
    BY DEF Handles, None
  <2>3. QED
    BY <1>3, <2>1, <2>2, Zenon
<1>4. QED
  BY <1>1, <1>2, <1>3

\* A handle counts for its file and for no other.
LEMMA OnceFacts ==
  ASSUME NEW h, NEW f \in Files
  PROVE  /\ Once(h)[f] = (IF f = h.file THEN 1 ELSE 0)
         /\ Once(h)[f] \in {0, 1}
BY DEF Once

\* How many plugins have a library is a number, and not 0 if one has it.
LEMMA CountFacts ==
  ASSUME NEW handles, NEW f
  PROVE  /\ Count(handles, f) \in Nat
         /\ Count(handles, f) > 0 <=> \E p \in Plugins : handles[p].file = f
<1> DEFINE S == {p \in Plugins : handles[p].file = f}
<1>1. IsFiniteSet(S)
  BY ConstantsAssumption, FS_Subset, S \in SUBSET Plugins
<1>2. Cardinality(S) \in Nat
  BY <1>1, FS_CardinalityType
<1>3. Cardinality(S) = 0 <=> S = {}
  BY <1>1, FS_EmptySet
<1>4. QED
  BY <1>2, <1>3 DEF Count

\* If a plugin gets another library, the counts change by one each: every
\* holder is counted once.
LEMMA CountReassign ==
  ASSUME NEW handles \in [Plugins -> Handles], NEW p \in Plugins, NEW new \in Handles,
         NEW after, Reassigns(handles, after, p, new), NEW f \in Files
  PROVE  /\ Count(after, f) = Count(handles, f) - Once(handles[p])[f] + Once(new)[f]
         /\ Count(handles, f) >= Once(handles[p])[f]
<1> DEFINE Rest == {q \in Plugins \ {p} : handles[q].file = f}
           Before == {q \in Plugins : handles[q].file = f}
           After == {q \in Plugins : after[q].file = f}
<1>1. IsFiniteSet(Rest) /\ Cardinality(Rest) \in Nat /\ p \notin Rest
  BY ConstantsAssumption, FS_Subset, FS_CardinalityType, Rest \in SUBSET Plugins
<1>2. Cardinality(Rest \cup {p}) = Cardinality(Rest) + 1
  BY <1>1, FS_AddElement
<1>3. Before = IF handles[p].file = f THEN Rest \cup {p} ELSE Rest
  OBVIOUS
<1>4. After = IF new.file = f THEN Rest \cup {p} ELSE Rest
  BY DEF Reassigns
<1> HIDE DEF Rest, Before, After
<1>5. Cardinality(Before) = Cardinality(Rest) + Once(handles[p])[f]
  <2>1. Once(handles[p])[f] = (IF f = handles[p].file THEN 1 ELSE 0)
    BY OnceFacts
  <2>2. QED
    BY <1>1, <1>2, <1>3, <2>1
<1>6. Cardinality(After) = Cardinality(Rest) + Once(new)[f]
  <2>1. Once(new)[f] = (IF f = new.file THEN 1 ELSE 0)
    BY OnceFacts
  <2>2. QED
    BY <1>1, <1>2, <1>4, <2>1
<1>7. Count(handles, f) = Cardinality(Before)
      /\ Count(after, f) = Cardinality(After)
  BY DEF Count, Before, After
<1>8. Once(handles[p])[f] \in Nat /\ Once(new)[f] \in Nat
  BY OnceFacts
<1>9. QED
  BY <1>1, <1>5, <1>6, <1>7, <1>8

\* So do they if two plugins get other libraries.
LEMMA CountReassignTwo ==
  ASSUME NEW handles \in [Plugins -> Handles], NEW p \in Plugins, NEW q \in Plugins, p # q,
         NEW a \in Handles, NEW b \in Handles,
         NEW after, after[p] = a, after[q] = b,
         \A r \in Plugins \ {p, q} : after[r] = handles[r], NEW f \in Files
  PROVE  Count(after, f) = Count(handles, f) - Once(handles[p])[f] - Once(handles[q])[f]
                           + Once(a)[f] + Once(b)[f]
<1>1. PICK one \in [Plugins -> Handles] :
        Reassigns(handles, one, p, a)
  <2>1. [handles EXCEPT ![p] = a] \in [Plugins -> Handles]
    OBVIOUS
  <2>2. /\ [handles EXCEPT ![p] = a][p] = a
        /\ \A r \in Plugins \ {p} : [handles EXCEPT ![p] = a][r] = handles[r]
    OBVIOUS
  <2>3. QED
    BY <2>1, <2>2 DEF Reassigns
<1>2. one[q] = handles[q]
  BY <1>1 DEF Reassigns
<1>3. Count(one, f) = Count(handles, f) - Once(handles[p])[f] + Once(a)[f]
  BY <1>1, CountReassign
<1>4. Reassigns(one, after, q, b)
  BY <1>1 DEF Reassigns
<1>5. Count(after, f) = Count(one, f) - Once(one[q])[f] + Once(b)[f]
  BY <1>4, CountReassign
<1>6. /\ Once(handles[p])[f] \in Nat /\ Once(handles[q])[f] \in Nat
      /\ Once(a)[f] \in Nat /\ Once(b)[f] \in Nat /\ Count(handles, f) \in Nat
  BY OnceFacts, CountFacts
<1>7. Once(one[q])[f] = Once(handles[q])[f]
  BY <1>2
<1>8. QED
  BY <1>3, <1>5, <1>6, <1>7

\* The parts of TypeOK and RefsMatchHolders that are about the loader alone.
Images == [number : 1..MaxImages, version : Versions, x : {"initial", "written"}]
LoaderTypeOK == /\ refs \in [Files -> Nat] /\ mapped \in [Files -> {NoImage} \cup Images]
                /\ images \in 0..MaxImages
OpenIsMapped == \A f \in Files : refs[f] > 0 <=> mapped[f] # NoImage

\* Who has a library open, before a step and after it.
LEMMA HoldersCount ==
  ASSUME NEW f \in Files
  PROVE  /\ Holders(f) = Count(handle, f) + Once(loading.temporary)[f] + Once(loading.new)[f]
         /\ Holders(f)' = Count(handle', f) + Once(loading'.temporary)[f]
                                           + Once(loading'.new)[f]
BY DEF Holders, Count

\* What is mapped has a number, and nothing has none.
LEMMA ImageFacts == \A image \in Images : image # NoImage /\ image.number \in 1..MaxImages
BY DEF Images, NoImage

\* The loader maps a library that is not open and counts one that is; what was
\* mapped stays.
LEMMA OpenFacts ==
  ASSUME TypeOK, OpenIsMapped, NEW f \in Files, CanOpen(f), Open(f)
  PROVE  /\ LoaderTypeOK' /\ OpenIsMapped'
         /\ \A g \in Files : refs'[g] = refs[g] + (IF g = f THEN 1 ELSE 0)
         /\ HandleOf(f) \in Handles \ {None} /\ HandleOf(f).file = f
         /\ mapped'[f].number = HandleOf(f).number
         /\ \A h \in Handles \ {None} : IsMapped(h) => IsMapped(h)'
         /\ refs[f] > 0 => UNCHANGED mapped
         /\ refs[f] = 0 => disk[f] \in Versions /\ mapped'[f].version = disk[f]
                           /\ mapped'[f].x = "initial"
<1> USE ConstantsAssumption
<1>1. /\ refs' \in [Files -> Nat]
      /\ \A g \in Files : refs'[g] = refs[g] + (IF g = f THEN 1 ELSE 0)
  BY DEF Open, TypeOK
<1>2. CASE refs[f] > 0
  <2>1. UNCHANGED <<mapped, images>> /\ mapped[f] # NoImage
    BY <1>2 DEF Open, OpenIsMapped
  <2>2. mapped[f] \in Images
    BY <2>1 DEF TypeOK, Images
  <2>3. HandleOf(f) = [file |-> f, number |-> mapped[f].number]
    BY <1>2 DEF HandleOf
  <2>4. HandleOf(f) \in Handles /\ HandleOf(f) # None
    BY <2>2, <2>3, ImageFacts DEF Handles, None, Files
  <2>5. LoaderTypeOK'
    BY <1>1, <2>1 DEF LoaderTypeOK, TypeOK, Images
  <2>6. OpenIsMapped'
    <3>1. \A g \in Files : refs'[g] > 0 <=> refs[g] > 0
      <4>1. \A g \in Files : refs[g] \in Nat /\ (g # f => refs'[g] = refs[g])
        BY <1>1 DEF TypeOK
      <4>2. refs'[f] > 0
        BY <1>1, <1>2, <4>1
      <4>3. QED
        BY <1>2, <4>1, <4>2
    <3>2. QED
      BY <2>1, <3>1 DEF OpenIsMapped
  <2>7. QED
    BY <1>1, <1>2, <2>1, <2>3, <2>4, <2>5, <2>6 DEF IsMapped
<1>3. CASE refs[f] = 0
  <2> DEFINE image == [number |-> images + 1, version |-> disk[f], x |-> "initial"]
  <2>1. images < MaxImages /\ images' = images + 1 /\ disk[f] \in Versions /\ mapped[f] = NoImage
    BY <1>3 DEF Open, CanOpen, OpenIsMapped, TypeOK
  <2>2. image \in Images /\ images + 1 \in 1..MaxImages
    BY <2>1 DEF TypeOK, Images
  <2>3. mapped'[f] = image /\ \A g \in Files : g # f => mapped'[g] = mapped[g]
    BY <1>3 DEF Open, TypeOK
  <2>4. LoaderTypeOK'
    BY <1>1, <1>3, <2>1, <2>2 DEF Open, LoaderTypeOK, TypeOK, Images
  <2>5. HandleOf(f) = [file |-> f, number |-> images + 1]
    BY <1>3 DEF HandleOf
  <2>6. HandleOf(f) \in Handles /\ HandleOf(f) # None
    BY <2>2, <2>5 DEF Handles, None, Files
  <2>7. OpenIsMapped'
    BY <1>1, <1>3, <2>2, <2>3, ImageFacts DEF OpenIsMapped, TypeOK
  <2>8. ASSUME NEW h \in Handles \ {None}, IsMapped(h) PROVE IsMapped(h)'
    <3>1. h.file \in Files /\ h.number \in 1..MaxImages /\ mapped[h.file].number = h.number
      BY <2>8, HandleFacts DEF IsMapped
    <3>2. h.file # f
      BY <2>1, <3>1, HandleFacts
    <3>3. QED
      BY <2>3, <3>1, <3>2 DEF IsMapped
  <2>9. QED
    BY <1>1, <1>3, <2>1, <2>3, <2>4, <2>5, <2>6, <2>7, <2>8
<1>4. QED
  BY <1>2, <1>3 DEF TypeOK

\* The loader forgets a library only when all that was open is closed.
LEMMA CloseFacts ==
  ASSUME TypeOK, OpenIsMapped, NEW count, \A f \in Files : count[f] \in 0..refs[f],
         CloseAll(count)
  PROVE  /\ LoaderTypeOK' /\ OpenIsMapped'
         /\ \A f \in Files : refs'[f] = refs[f] - count[f]
         /\ \A f \in Files : refs[f] > count[f] => mapped'[f] = mapped[f]
<1>1. \A f \in Files : refs'[f] = refs[f] - count[f] /\ refs'[f] \in Nat
  BY DEF CloseAll, TypeOK
<1>2. \A f \in Files : mapped'[f] = IF refs[f] = count[f] THEN NoImage ELSE mapped[f]
  BY DEF CloseAll
<1>3. LoaderTypeOK'
  BY <1>1, <1>2 DEF CloseAll, LoaderTypeOK, TypeOK, Images
<1>4. OpenIsMapped'
  <2>1. ASSUME NEW f \in Files PROVE refs'[f] > 0 <=> mapped'[f] # NoImage
    <3>1. refs[f] \in Nat /\ count[f] \in 0..refs[f] /\ refs'[f] = refs[f] - count[f]
      BY <1>1 DEF TypeOK
    <3>2. CASE refs[f] = count[f]
      BY <1>2, <3>1, <3>2
    <3>3. CASE refs[f] # count[f]
      <4>1. mapped'[f] = mapped[f] /\ refs[f] > 0 /\ refs'[f] > 0
        BY <1>2, <3>1, <3>3
      <4>2. QED
        BY <4>1 DEF OpenIsMapped
    <3>4. QED
      BY <3>2, <3>3
  <2>2. QED
    BY <2>1 DEF OpenIsMapped
<1>5. QED
  BY <1>1, <1>2, <1>3, <1>4 DEF TypeOK

-----------------------------------------------------------------------------
(* Lemmas about the counts *)

\* What the invariant says of the counts, in numbers.
LEMMA Accounting ==
  ASSUME TypeOK, RefsMatchHolders
  PROVE  /\ OpenIsMapped
         /\ \A f \in Files :
              /\ refs[f] = Count(handle, f) + Once(loading.temporary)[f] + Once(loading.new)[f]
              /\ Count(handle, f) \in 0..refs[f]
              /\ Once(loading.temporary)[f] \in 0..1 /\ Once(loading.new)[f] \in 0..1
<1>1. OpenIsMapped
  BY DEF RefsMatchHolders, OpenIsMapped
<1>2. ASSUME NEW f \in Files
      PROVE  /\ refs[f] = Count(handle, f) + Once(loading.temporary)[f] + Once(loading.new)[f]
             /\ Count(handle, f) \in 0..refs[f]
             /\ Once(loading.temporary)[f] \in 0..1 /\ Once(loading.new)[f] \in 0..1
  <2>1. refs[f] = Count(handle, f) + Once(loading.temporary)[f] + Once(loading.new)[f]
    BY HoldersCount DEF RefsMatchHolders
  <2>2. Once(loading.temporary)[f] \in 0..1 /\ Once(loading.new)[f] \in 0..1
    BY OnceFacts
  <2>3. Count(handle, f) \in Nat
    BY CountFacts
  <2>4. QED
    BY <2>1, <2>2, <2>3
<1>3. QED
  BY <1>1, <1>2

\* A library with a holder is not forgotten, so what plugins have is mapped.
LEMMA HoldersStayMapped ==
  ASSUME handle' \in [Plugins -> Handles],
         \A f \in Files : refs'[f] = Holders(f)',
         \A f \in Files : refs'[f] > 0 => mapped'[f] = mapped[f],
         \A p \in Plugins : handle'[p] # None =>
            mapped[handle'[p].file].number = handle'[p].number
  PROVE  \A p \in Plugins : handle'[p] # None => IsMapped(handle[p])'
<1> SUFFICES ASSUME NEW p \in Plugins, handle'[p] # None PROVE IsMapped(handle[p])'
  OBVIOUS
<1> DEFINE f == handle'[p].file
<1>1. f \in Files
  BY HandleFacts
<1>2. Count(handle', f) > 0 /\ Count(handle', f) \in Nat
  BY CountFacts
<1>3. refs'[f] > 0
  <2>1. Once(loading'.temporary)[f] \in {0, 1} /\ Once(loading'.new)[f] \in {0, 1}
    BY <1>1, OnceFacts
  <2>2. QED
    BY <1>1, <1>2, <2>1, HoldersCount
<1>4. QED
  BY <1>1, <1>3 DEF IsMapped

\* Neither the loader nor those who have libraries do anything.
LEMMA CountsUnchanged ==
  ASSUME RefsMatchHolders, UNCHANGED <<loader, handle>>,
         loading'.temporary = loading.temporary, loading'.new = loading.new
  PROVE  RefsMatchHolders'
<1>1. UNCHANGED <<mapped, refs>>
  BY DEF loader
<1>2. \A f \in Files : Holders(f)' = Holders(f)
  BY HoldersCount
<1>3. QED
  BY <1>1, <1>2 DEF RefsMatchHolders, IsMapped

\* Without a load, the invariant says nothing about loads.
LEMMA NothingLoading ==
  ASSUME Inductive, pc = "idle", pc' = "idle", UNCHANGED loading
  PROVE  LoadHoldsItsLibrary' /\ LoadSeesChanges' /\ NewIsFresh' /\ CrashIsOutside'
BY DEF Inductive, LoadHoldsItsLibrary, LoadSeesChanges, NewIsFresh, CrashIsOutside

-----------------------------------------------------------------------------
(* Copies, moves and destruction *)

\* The copy of a plugin opens what it copies and closes what was there.
LEMMA CopyAssignKeeps ==
  ASSUME Inductive, NEW p \in Plugins, NEW q \in Plugins, CopyAssign(p, q)
  PROVE  TypeOK' /\ RefsMatchHolders'
<1>1. TypeOK /\ RefsMatchHolders
  BY DEF Inductive
<1>2. handle \in [Plugins -> Handles] /\ loading' = loading
      /\ handle' = [handle EXCEPT ![p] = handle[q]]
  BY <1>1 DEF TypeOK, CopyAssign
<1>3. handle' \in [Plugins -> Handles]
  BY <1>2
<1>4. ASSUME NEW f \in Files
      PROVE  /\ refs'[f] \in Nat /\ refs'[f] = Holders(f)'
             /\ mapped'[f] = IF refs'[f] = 0 THEN NoImage ELSE mapped[f]
             /\ refs'[f] > 0 => refs[f] > 0
  <2>1. refs'[f] = refs[f] - Once(handle[p])[f] + Once(handle[q])[f]
    BY DEF CopyAssign
  <2>2. /\ Count(handle', f) = Count(handle, f) - Once(handle[p])[f] + Once(handle[q])[f]
        /\ Count(handle, f) >= Once(handle[p])[f]
    <3>1. Reassigns(handle, handle', p, handle[q])
      BY <1>2 DEF Reassigns
    <3>2. QED
      BY <1>2, <3>1, handle[q] \in Handles, CountReassign
  <2>3. /\ Once(handle[p])[f] \in {0, 1} /\ Once(handle[q])[f] \in {0, 1}
        /\ Once(loading.temporary)[f] \in {0, 1} /\ Once(loading.new)[f] \in {0, 1}
    BY OnceFacts
  <2>4. refs[f] = Count(handle, f) + Once(loading.temporary)[f] + Once(loading.new)[f]
    BY <1>1, Accounting
  <2>5. Count(handle, f) \in Nat /\ (Once(handle[q])[f] = 1 => Count(handle, f) > 0)
    BY OnceFacts, CountFacts
  <2>6. refs'[f] = Count(handle', f) + Once(loading.temporary)[f] + Once(loading.new)[f]
    BY <2>1, <2>2, <2>3, <2>4, <2>5
  <2>7. mapped'[f] = IF refs'[f] = 0 THEN NoImage ELSE mapped[f]
    BY DEF CopyAssign
  <2>8. refs'[f] = Holders(f)'
    BY <1>2, <2>6, HoldersCount
  <2>9. refs'[f] \in Nat /\ (refs'[f] > 0 => refs[f] > 0)
    BY <2>1, <2>2, <2>3, <2>4, <2>5
  <2>10. QED
    BY <2>7, <2>8, <2>9
<1>5. refs' \in [Files -> Nat]
  BY <1>4 DEF CopyAssign
<1>6. mapped' \in [Files -> {NoImage} \cup Images]
  BY <1>1, <1>4 DEF CopyAssign, TypeOK, Images
<1>7. \A f \in Files : refs'[f] > 0 => mapped'[f] = mapped[f]
  BY <1>4
<1>8. \A r \in Plugins : handle'[r] # None =>
         mapped[handle'[r].file].number = handle'[r].number
  <2>1. \A r \in Plugins : handle[r] # None => mapped[handle[r].file].number = handle[r].number
    BY <1>1 DEF RefsMatchHolders, IsMapped
  <2>2. QED
    BY <1>2, <2>1
<1>9. \A r \in Plugins : handle'[r] # None => IsMapped(handle[r])'
  BY <1>3, <1>4, <1>7, <1>8, HoldersStayMapped
<1>10. \A f \in Files : refs'[f] > 0 <=> mapped'[f] # NoImage
  BY <1>1, <1>4, Accounting DEF OpenIsMapped
<1>11. TypeOK'
  BY <1>1, <1>3, <1>5, <1>6 DEF TypeOK, CopyAssign, others, Images
<1>12. RefsMatchHolders'
  BY <1>4, <1>9, <1>10 DEF RefsMatchHolders
<1>13. QED
  BY <1>11, <1>12

\* A plugin that loses its library, be it destroyed or given another one:
\* what it had is closed once.
LEMMA CloseKeeps ==
  ASSUME Inductive, NEW p \in Plugins, Close(handle[p]), UNCHANGED loading,
         handle' \in [Plugins -> Handles],
         \A f \in Files : Count(handle', f) = Count(handle, f) - Once(handle[p])[f],
         \A r \in Plugins : handle'[r] # None => \E q \in Plugins : handle'[r] = handle[q]
  PROVE  LoaderTypeOK' /\ RefsMatchHolders'
<1>1. TypeOK /\ RefsMatchHolders /\ OpenIsMapped
  BY Accounting DEF Inductive
<1>2. ASSUME NEW f \in Files
      PROVE  /\ Once(handle[p])[f] \in 0..refs[f]
             /\ refs[f] - Once(handle[p])[f] = Holders(f)'
  <2>1. refs[f] = Count(handle, f) + Once(loading.temporary)[f] + Once(loading.new)[f]
    BY <1>1, Accounting
  <2>2. /\ Once(handle[p])[f] \in {0, 1}
        /\ Once(loading.temporary)[f] \in {0, 1} /\ Once(loading.new)[f] \in {0, 1}
    BY OnceFacts
  <2>3. Count(handle, f) \in Nat /\ (Once(handle[p])[f] = 1 => Count(handle, f) > 0)
    BY OnceFacts, CountFacts
  <2>4. Holders(f)' = Count(handle', f) + Once(loading.temporary)[f] + Once(loading.new)[f]
    BY HoldersCount
  <2>5. QED
    BY <2>1, <2>2, <2>3, <2>4
<1>3. /\ LoaderTypeOK' /\ OpenIsMapped'
      /\ \A f \in Files : refs'[f] = refs[f] - Once(handle[p])[f]
      /\ \A f \in Files : refs[f] > Once(handle[p])[f] => mapped'[f] = mapped[f]
  BY <1>1, <1>2, CloseFacts DEF Close
<1>4. \A f \in Files : refs'[f] = Holders(f)'
  BY <1>2, <1>3
<1>5. \A f \in Files : refs'[f] > 0 => mapped'[f] = mapped[f]
  BY <1>1, <1>2, <1>3 DEF TypeOK
<1>6. \A r \in Plugins : handle'[r] # None =>
         mapped[handle'[r].file].number = handle'[r].number
  BY <1>1 DEF RefsMatchHolders, IsMapped
<1>7. \A r \in Plugins : handle'[r] # None => IsMapped(handle[r])'
  BY <1>4, <1>5, <1>6, HoldersStayMapped
<1>8. QED
  BY <1>3, <1>4, <1>7 DEF RefsMatchHolders, OpenIsMapped

\* The target is closed, or the two swap their libraries.
LEMMA MoveAssignKeeps ==
  ASSUME Inductive, NEW p \in Plugins, NEW q \in Plugins, MoveAssign(p, q)
  PROVE  TypeOK' /\ RefsMatchHolders'
<1>1. TypeOK /\ RefsMatchHolders /\ handle \in [Plugins -> Handles] /\ p # q
  BY DEF Inductive, TypeOK, MoveAssign, SameType
<1>2. handle[p] \in Handles /\ handle[q] \in Handles /\ None \in Handles
  BY <1>1, HandleFacts
<1>3. ASSUME NEW f \in Files
      PROVE  /\ Once(handle[p])[f] \in Nat /\ Once(handle[q])[f] \in Nat
             /\ Once(None)[f] = 0 /\ Count(handle, f) \in Nat
  BY OnceFacts, CountFacts, HandleFacts
<1>4. CASE handle' = [handle EXCEPT ![p] = handle[q], ![q] = handle[p]] /\ UNCHANGED loader
  <2>1. handle' \in [Plugins -> Handles]
    BY <1>1, <1>4
  <2>2. ASSUME NEW f \in Files
        PROVE  Count(handle', f) = Count(handle, f) - Once(handle[p])[f] - Once(handle[q])[f]
                                   + Once(handle[q])[f] + Once(handle[p])[f]
    <3>1. /\ handle'[p] = handle[q] /\ handle'[q] = handle[p]
          /\ \A r \in Plugins \ {p, q} : handle'[r] = handle[r]
      BY <1>1, <1>4
    <3>2. QED
      BY <1>1, <1>2, <3>1, CountReassignTwo
  <2>3. ASSUME NEW f \in Files PROVE Count(handle', f) = Count(handle, f)
    BY <1>3, <2>2
  <2>4. UNCHANGED <<refs, mapped, loading, images>>
    BY <1>4 DEF MoveAssign, loader
  <2>5. \A f \in Files : refs'[f] = Holders(f)' /\ (refs'[f] > 0 <=> mapped'[f] # NoImage)
    BY <1>1, <2>3, <2>4, HoldersCount DEF RefsMatchHolders
  <2>6. \A r \in Plugins : handle'[r] # None => IsMapped(handle[r])'
    <3>1. \A r \in Plugins : handle[r] # None =>
             handle[r].file \in Files /\ mapped[handle[r].file].number = handle[r].number
      BY <1>1 DEF RefsMatchHolders, IsMapped
    <3>2. \A r \in Plugins : handle'[r] # None =>
             handle'[r].file \in Files /\ mapped'[handle'[r].file].number = handle'[r].number
      BY <1>1, <1>4, <2>4, <3>1
    <3>3. QED
      BY <3>2 DEF IsMapped
  <2>7. TypeOK'
    BY <1>1, <2>1, <2>4 DEF TypeOK, MoveAssign, others
  <2>8. QED
    BY <2>5, <2>6, <2>7 DEF RefsMatchHolders
<1>5. CASE handle' = [handle EXCEPT ![p] = handle[q], ![q] = None] /\ Close(handle[p])
  <2>1. handle' \in [Plugins -> Handles]
    BY <1>1, <1>5, HandleFacts
  <2>2. ASSUME NEW f \in Files
        PROVE  Count(handle', f) = Count(handle, f) - Once(handle[p])[f] - Once(handle[q])[f]
                                   + Once(handle[q])[f] + Once(None)[f]
    <3>1. /\ handle'[p] = handle[q] /\ handle'[q] = None
          /\ \A r \in Plugins \ {p, q} : handle'[r] = handle[r]
      BY <1>1, <1>5
    <3>2. QED
      BY <1>1, <1>2, <3>1, CountReassignTwo
  <2>3. ASSUME NEW f \in Files PROVE Count(handle', f) = Count(handle, f) - Once(handle[p])[f]
    BY <1>3, <2>2
  <2>4. \A r \in Plugins : handle'[r] # None => \E s \in Plugins : handle'[r] = handle[s]
    BY <1>1, <1>5
  <2>5. UNCHANGED loading
    BY DEF MoveAssign
  <2>6. LoaderTypeOK' /\ RefsMatchHolders'
    BY <1>5, <2>1, <2>3, <2>4, <2>5, CloseKeeps
  <2>7. TypeOK'
    BY <1>1, <2>1, <2>6 DEF TypeOK, LoaderTypeOK, Images, MoveAssign, others
  <2>8. QED
    BY <2>6, <2>7
<1>6. QED
  BY <1>4, <1>5 DEF MoveAssign

\* A destructor closes the library.
LEMMA DestroyKeeps ==
  ASSUME Inductive, NEW p \in Plugins, Destroy(p)
  PROVE  TypeOK' /\ RefsMatchHolders'
<1>1. /\ TypeOK /\ handle \in [Plugins -> Handles]
      /\ handle' = [handle EXCEPT ![p] = None] /\ UNCHANGED loading /\ Close(handle[p])
  BY DEF Inductive, TypeOK, Destroy
<1>2. handle' \in [Plugins -> Handles]
  BY <1>1, HandleFacts
<1>3. ASSUME NEW f \in Files PROVE Count(handle', f) = Count(handle, f) - Once(handle[p])[f]
  <2>1. Count(handle', f) = Count(handle, f) - Once(handle[p])[f] + Once(None)[f]
    <3>1. None \in Handles
      BY HandleFacts
    <3>2. Reassigns(handle, handle', p, None)
      BY <1>1 DEF Reassigns
    <3>3. QED
      BY <1>1, <3>1, <3>2, CountReassign
  <2>2. Once(None)[f] = 0 /\ Once(handle[p])[f] \in Nat /\ Count(handle, f) \in Nat
    BY OnceFacts, HandleFacts, CountFacts
  <2>3. QED
    BY <2>1, <2>2
<1>4. LoaderTypeOK' /\ RefsMatchHolders'
  BY <1>1, <1>2, <1>3, CloseKeeps
<1>5. TypeOK'
  BY <1>1, <1>2, <1>4 DEF TypeOK, LoaderTypeOK, Images, Destroy, others
<1>6. QED
  BY <1>4, <1>5

-----------------------------------------------------------------------------
(* The steps of a load *)

\* The library that load() has opened is new, or some plugin has it already.
LEMMA OpenLibraryKeeps ==
  ASSUME Inductive, OpenLibrary
  PROVE  Inductive'
<1>1. /\ TypeOK /\ RefsMatchHolders /\ OpenIsMapped /\ pc = "open"
      /\ loading.temporary = None /\ loading.new = None /\ loading.target \in Plugins
  BY Accounting DEF Inductive, OpenLibrary, LoadHoldsItsLibrary
<1>2. PICK f \in Files :
        CanOpen(f) /\ Open(f) /\ loading' = [loading EXCEPT !.temporary = HandleOf(f)]
  BY DEF OpenLibrary
<1>3. /\ loading'.temporary = HandleOf(f) /\ loading'.new = None
      /\ loading'.target = loading.target
      /\ pc' = "copy" /\ UNCHANGED <<handle, frames, objects, disk, installs, seen, used>>
  BY <1>1, <1>2 DEF TypeOK, OpenLibrary, others
<1>4. /\ LoaderTypeOK' /\ OpenIsMapped'
      /\ \A g \in Files : refs'[g] = refs[g] + (IF g = f THEN 1 ELSE 0)
      /\ HandleOf(f) \in Handles \ {None} /\ HandleOf(f).file = f
      /\ mapped'[f].number = HandleOf(f).number
      /\ \A h \in Handles \ {None} : IsMapped(h) => IsMapped(h)'
      /\ refs[f] > 0 => UNCHANGED mapped
      /\ refs[f] = 0 => disk[f] \in Versions /\ mapped'[f].version = disk[f]
                        /\ mapped'[f].x = "initial"
  BY <1>1, <1>2, OpenFacts
<1>5. TypeOK'
  <2>1. loading' \in [target : Plugins \cup {"none"}, temporary : Handles, new : Handles]
    BY <1>1, <1>2, <1>4 DEF TypeOK
  <2>2. QED
    BY <1>1, <1>3, <1>4, <2>1 DEF TypeOK, LoaderTypeOK, Images
<1>6. RefsMatchHolders'
  <2>1. ASSUME NEW g \in Files PROVE refs'[g] = Holders(g)'
    <3>1. refs[g] = Count(handle, g) + Once(None)[g] + Once(None)[g]
      BY <1>1, Accounting
    <3>2. Holders(g)' = Count(handle, g) + Once(HandleOf(f))[g] + Once(None)[g]
      BY <1>3, HoldersCount
    <3>3. Once(None)[g] = 0 /\ Once(HandleOf(f))[g] = (IF g = f THEN 1 ELSE 0)
      BY <1>4, OnceFacts, HandleFacts
    <3>4. Count(handle, g) \in Nat
      BY CountFacts
    <3>5. QED
      BY <1>4, <3>1, <3>2, <3>3, <3>4
  <2>2. \A p \in Plugins : handle'[p] # None => IsMapped(handle[p])'
    <3>1. ASSUME NEW p \in Plugins, handle[p] # None PROVE IsMapped(handle[p])'
      <4>1. IsMapped(handle[p]) /\ handle[p] \in Handles \ {None}
        BY <1>1, <3>1 DEF RefsMatchHolders, TypeOK
      <4>2. handle'[p] = handle[p]
        BY <1>3
      <4>3. QED
        BY <1>4, <4>1, <4>2 DEF IsMapped
    <3>2. QED
      BY <1>3, <3>1
  <2>3. QED
    BY <1>4, <2>1, <2>2 DEF RefsMatchHolders, OpenIsMapped
<1>7. LoadHoldsItsLibrary'
  <2>1. IsMapped(loading.temporary)'
    BY <1>2, <1>3, <1>4 DEF IsMapped
  <2>2. QED
    BY <1>1, <1>3, <1>4, <2>1 DEF LoadHoldsItsLibrary
<1>8. LoadSeesChanges' /\ CrashIsOutside'
  BY <1>1, <1>3 DEF Inductive, LoadSeesChanges, CrashIsOutside
<1>9. NewIsFresh'
  <2>1. CASE refs[f] > 0
    <3>1. Count(handle, f) > 0
      <4>1. refs[f] = Count(handle, f) + Once(None)[f] + Once(None)[f]
        BY <1>1, Accounting
      <4>2. Once(None)[f] = 0 /\ Count(handle, f) \in Nat
        BY OnceFacts, HandleFacts, CountFacts
      <4>3. QED
        BY <2>1, <4>1, <4>2
    <3>2. PICK p \in Plugins : handle[p].file = f
      BY <3>1, CountFacts
    <3>3. handle[p] \in Handles /\ mapped[f].number = handle[p].number
      <4>1. handle[p] # None
        BY <3>2, HandleFacts
      <4>2. QED
        BY <1>1, <3>2, <4>1 DEF RefsMatchHolders, IsMapped, TypeOK
    <3>4. handle'[p] = loading'.temporary
      <4>1. handle[p].file = HandleOf(f).file /\ handle[p].number = HandleOf(f).number
        BY <1>4, <2>1, <3>2, <3>3
      <4>2. QED
        BY <1>3, <1>4, <3>3, <4>1, HandleFacts
    <3>5. QED
      BY <3>4 DEF NewIsFresh
  <2>2. CASE refs[f] = 0
    <3>1. <<f, disk[f]>> \in seen
      BY <1>1 DEF Inductive, LoadSeesChanges
    <3>2. QED
      BY <1>3, <1>4, <2>2, <3>1 DEF NewIsFresh
  <2>3. QED
    BY <1>1, <2>1, <2>2 DEF TypeOK
<1>10. QED
  BY <1>5, <1>6, <1>7, <1>8, <1>9 DEF Inductive

\* The copy counts the library once more.
LEMMA CopyLibraryKeeps ==
  ASSUME Inductive, CopyLibrary
  PROVE  Inductive'
<1> DEFINE t == loading.temporary
           f == t.file
<1>1. /\ TypeOK /\ RefsMatchHolders /\ OpenIsMapped /\ pc = "copy"
      /\ loading.new = None /\ loading.target \in Plugins
      /\ t \in Handles /\ t # None /\ IsMapped(t) /\ f \in Files
  BY Accounting DEF Inductive, CopyLibrary, LoadHoldsItsLibrary, TypeOK, IsMapped
<1>2. Open(f) /\ loading' = [loading EXCEPT !.new = t]
  BY DEF CopyLibrary
<1>3. /\ loading'.temporary = t /\ loading'.new = t
      /\ loading'.target = loading.target
      /\ pc' = "return" /\ UNCHANGED <<handle, frames, objects, disk, installs, seen, used>>
  BY <1>1, <1>2 DEF TypeOK, CopyLibrary, others
<1>4. refs[f] > 0
  <2>1. refs[f] = Count(handle, f) + Once(t)[f] + Once(None)[f]
    BY <1>1, Accounting
  <2>2. Once(None)[f] = 0 /\ Once(t)[f] = 1 /\ Count(handle, f) \in Nat
    BY <1>1, OnceFacts, HandleFacts, CountFacts
  <2>3. QED
    BY <2>1, <2>2
<1> HIDE DEF t, f
<1>5. /\ LoaderTypeOK' /\ OpenIsMapped' /\ UNCHANGED mapped
      /\ \A g \in Files : refs'[g] = refs[g] + (IF g = f THEN 1 ELSE 0)
  BY <1>1, <1>2, <1>4, OpenFacts DEF CanOpen
<1>6. TypeOK'
  <2>1. loading' \in [target : Plugins \cup {"none"}, temporary : Handles, new : Handles]
    BY <1>1, <1>2 DEF TypeOK
  <2>2. QED
    BY <1>1, <1>3, <1>5, <2>1 DEF TypeOK, LoaderTypeOK, Images
<1>7. RefsMatchHolders'
  <2>1. ASSUME NEW g \in Files PROVE refs'[g] = Holders(g)'
    <3>1. refs[g] = Count(handle, g) + Once(t)[g] + Once(None)[g]
      BY <1>1, Accounting DEF t
    <3>2. Holders(g)' = Count(handle, g) + Once(t)[g] + Once(t)[g]
      BY <1>3, HoldersCount
    <3>3. Once(None)[g] = 0 /\ Once(t)[g] = (IF g = f THEN 1 ELSE 0)
      BY OnceFacts, HandleFacts DEF f
    <3>4. Count(handle, g) \in Nat
      BY CountFacts
    <3>5. QED
      BY <1>5, <3>1, <3>2, <3>3, <3>4
  <2>2. QED
    BY <1>1, <1>3, <1>5, <2>1 DEF RefsMatchHolders, OpenIsMapped, IsMapped
<1>8. LoadHoldsItsLibrary'
  <2>1. IsMapped(loading.temporary)'
    BY <1>1, <1>3, <1>5 DEF IsMapped
  <2>2. QED
    BY <1>1, <1>3, <2>1 DEF LoadHoldsItsLibrary
<1>9. LoadSeesChanges' /\ CrashIsOutside'
  BY <1>1, <1>3 DEF Inductive, LoadSeesChanges, CrashIsOutside
<1>10. NewIsFresh'
  BY <1>1, <1>3, <1>5 DEF Inductive, NewIsFresh, t
<1>11. QED
  BY <1>6, <1>7, <1>8, <1>9, <1>10 DEF Inductive

\* What the target had is closed, and so is the library that was copied; the
\* one the plugin gets is not forgotten.
LEMMA ReturnPluginKeeps ==
  ASSUME Inductive, ReturnPlugin
  PROVE  Inductive' /\ mapped'[loading.new.file] = mapped[loading.new.file]
<1> DEFINE p == loading.target
           t == loading.temporary
           old == handle[p]
           count == [f \in Files |-> Once(old)[f] + Once(t)[f]]
<1>1. /\ TypeOK /\ RefsMatchHolders /\ OpenIsMapped /\ pc = "return"
      /\ p \in Plugins /\ t \in Handles /\ t # None /\ IsMapped(t) /\ t.file \in Files
      /\ loading.new = t /\ handle \in [Plugins -> Handles]
  BY Accounting DEF Inductive, ReturnPlugin, LoadHoldsItsLibrary, TypeOK, IsMapped
<1>2. /\ handle' = [handle EXCEPT ![p] = t] /\ CloseAll(count)
      /\ pc' = "idle" /\ loading' = NotLoading
      /\ UNCHANGED <<frames, objects, disk, installs, used>>
  BY <1>1 DEF ReturnPlugin, EndLoad
<1>3. loading'.temporary = None /\ loading'.new = None
  BY <1>2 DEF NotLoading
<1>4. \A f \in Files : count[f] = Once(old)[f] + Once(t)[f]
  OBVIOUS
<1> HIDE DEF t, p, old, count
<1>5. handle' \in [Plugins -> Handles] /\ Reassigns(handle, handle', p, t)
  BY <1>1, <1>2 DEF Reassigns
<1>6. ASSUME NEW f \in Files
      PROVE  /\ count[f] \in 0..refs[f] /\ refs[f] - count[f] = Holders(f)'
             /\ f = t.file => refs[f] > count[f]
  <2>1. refs[f] = Count(handle, f) + Once(t)[f] + Once(t)[f]
    BY <1>1, Accounting DEF t
  <2>2. /\ Count(handle', f) = Count(handle, f) - Once(old)[f] + Once(t)[f]
        /\ Count(handle, f) >= Once(old)[f]
    BY <1>1, <1>5, CountReassign DEF old
  <2>3. Holders(f)' = Count(handle', f) + Once(None)[f] + Once(None)[f]
    BY <1>3, HoldersCount
  <2>4. /\ Once(t)[f] \in Nat /\ Once(old)[f] \in Nat /\ Once(None)[f] = 0
        /\ Count(handle, f) \in Nat /\ (f = t.file => Once(t)[f] = 1)
    BY OnceFacts, HandleFacts, CountFacts
  <2>5. QED
    BY <1>4, <2>1, <2>2, <2>3, <2>4
<1>7. /\ LoaderTypeOK' /\ OpenIsMapped'
      /\ \A f \in Files : refs'[f] = refs[f] - count[f]
      /\ \A f \in Files : refs[f] > count[f] => mapped'[f] = mapped[f]
  BY <1>1, <1>2, <1>6, CloseFacts
<1>8. mapped'[loading.new.file] = mapped[loading.new.file]
  BY <1>1, <1>6, <1>7
<1>9. RefsMatchHolders'
  <2>1. \A f \in Files : refs'[f] = Holders(f)'
    BY <1>6, <1>7
  <2>2. \A f \in Files : refs'[f] > 0 => mapped'[f] = mapped[f]
    BY <1>1, <1>6, <1>7 DEF TypeOK
  <2>3. \A r \in Plugins : handle'[r] # None =>
           mapped[handle'[r].file].number = handle'[r].number
    <3>1. \A r \in Plugins : handle[r] # None =>
             mapped[handle[r].file].number = handle[r].number
      BY <1>1 DEF RefsMatchHolders, IsMapped
    <3>2. mapped[t.file].number = t.number
      BY <1>1 DEF IsMapped
    <3>3. QED
      BY <1>5, <3>1, <3>2 DEF Reassigns
  <2>4. \A r \in Plugins : handle'[r] # None => IsMapped(handle[r])'
    BY <1>5, <2>1, <2>2, <2>3, HoldersStayMapped
  <2>5. QED
    BY <1>7, <2>1, <2>4 DEF RefsMatchHolders, OpenIsMapped
<1>10. TypeOK'
  <2>1. loading' \in [target : Plugins \cup {"none"}, temporary : Handles, new : Handles]
    BY <1>2, HandleFacts DEF NotLoading
  <2>2. QED
    BY <1>1, <1>2, <1>5, <1>7, <2>1 DEF TypeOK, LoaderTypeOK, Images
<1>11. LoadHoldsItsLibrary' /\ LoadSeesChanges' /\ NewIsFresh' /\ CrashIsOutside'
  BY <1>2 DEF LoadHoldsItsLibrary, LoadSeesChanges, NewIsFresh, CrashIsOutside
<1>12. QED
  BY <1>8, <1>9, <1>10, <1>11 DEF Inductive

\* The steps of a load that touch no library: its start, and its failures.
LEMMA LoadCheckKeeps ==
  ASSUME Inductive, (\E p \in Plugins : BeginLoad(p)) \/ CheckAgain \/ LoadThrows
  PROVE  Inductive'
<1>1. /\ TypeOK /\ RefsMatchHolders /\ loading.temporary = None /\ loading.new = None
      /\ pc \in {"idle", "check", "open"}
      /\ UNCHANGED <<loader, handle, frames, objects, disk, installs, used>>
  BY DEF Inductive, LoadHoldsItsLibrary, NotLoading, BeginLoad, CheckAgain, LoadThrows
<1>2. /\ pc' \in {"idle", "check", "open"}
      /\ pc' = "idle" => loading' = NotLoading
      /\ loading' \in {loading, NotLoading} \cup {[NotLoading EXCEPT !.target = p] : p \in Plugins}
      /\ pc' # "idle" => loading'.target \in Plugins
      /\ loading'.temporary = None /\ loading'.new = None
  <2>1. CASE \E p \in Plugins : BeginLoad(p)
    BY <2>1 DEF BeginLoad, EndLoad, NotLoading
  <2>2. CASE CheckAgain
    BY <1>1, <2>2 DEF Inductive, LoadHoldsItsLibrary, CheckAgain, EndLoad, NotLoading
  <2>3. CASE LoadThrows
    BY <2>3 DEF LoadThrows, EndLoad, NotLoading
  <2>4. QED
    BY <2>1, <2>2, <2>3
<1>3. TypeOK'
  <2>1. loading' \in [target : Plugins \cup {"none"}, temporary : Handles, new : Handles]
    <3>1. \A p \in Plugins \cup {"none"} : [NotLoading EXCEPT !.target = p] \in
             [target : Plugins \cup {"none"}, temporary : Handles, new : Handles]
      BY HandleFacts DEF NotLoading
    <3>2. NotLoading \in [target : Plugins \cup {"none"}, temporary : Handles, new : Handles]
      BY HandleFacts DEF NotLoading
    <3>3. QED
      BY <1>1, <1>2, <3>1, <3>2 DEF TypeOK
  <2>2. QED
    BY <1>1, <1>2, <2>1 DEF TypeOK, loader
<1>4. RefsMatchHolders'
  BY <1>1, <1>2, CountsUnchanged
<1>5. LoadHoldsItsLibrary'
  BY <1>2 DEF LoadHoldsItsLibrary
<1>6. LoadSeesChanges'
  <2>1. CASE \E p \in Plugins : BeginLoad(p)
    <3>1. CASE pc' = "idle"
      BY <3>1 DEF LoadSeesChanges
    <3>2. CASE pc' # "idle"
      <4>1. disk["exact"] # "absent" /\ seen' = {<<f, disk[f]>> : f \in Files} /\ disk' = disk
        BY <2>1, <3>2 DEF BeginLoad, EndLoad
      <4>2. Files = {"exact", "decorated"} /\ disk["exact"] \in Contents /\ disk["decorated"] \in Contents
        BY <1>1 DEF TypeOK, Files
      <4>3. seen' = {<<"exact", disk["exact"]>>} \cup {<<"decorated", disk["decorated"]>>}
        BY <4>1, <4>2
      <4>4. IsFiniteSet(seen')
        BY <4>3, FS_Singleton, FS_AddElement
      <4>5. QED
        BY <4>1, <4>2, <4>3, <4>4 DEF LoadSeesChanges
    <3>3. QED
      BY <3>1, <3>2
  <2>2. CASE CheckAgain \/ LoadThrows
    <3>1. CASE pc' = "idle"
      BY <3>1 DEF LoadSeesChanges
    <3>2. CASE pc' # "idle"
      BY <1>1, <2>2, <3>2 DEF Inductive, LoadSeesChanges, CheckAgain, LoadThrows, EndLoad
    <3>3. QED
      BY <3>1, <3>2
  <2>3. QED
    BY <2>1, <2>2
<1>7. NewIsFresh' /\ CrashIsOutside'
  BY <1>2 DEF NewIsFresh, CrashIsOutside
<1>8. QED
  BY <1>3, <1>4, <1>5, <1>6, <1>7 DEF Inductive

-----------------------------------------------------------------------------
(* Files, calls and globals *)

\* A change of a file changes nothing that is mapped, and a load sees it.
LEMMA InstallKeeps ==
  ASSUME Inductive, NEW f \in Files, NEW content \in Contents, Install(f, content)
  PROVE  Inductive'
<1>1. /\ TypeOK /\ RefsMatchHolders
      /\ disk' = [disk EXCEPT ![f] = content] /\ installs' = installs + 1 /\ installs < MaxInstalls
      /\ seen' = (IF pc = "idle" THEN seen ELSE seen \cup {<<f, content>>})
      /\ UNCHANGED <<pc, loader, handle, loading, frames, objects, used>>
  BY DEF Inductive, Install
<1>2. TypeOK'
  BY <1>1, ConstantsAssumption DEF TypeOK, loader
<1>3. RefsMatchHolders'
  BY <1>1, CountsUnchanged
<1>4. LoadHoldsItsLibrary' /\ CrashIsOutside'
  BY <1>1 DEF Inductive, LoadHoldsItsLibrary, CrashIsOutside, loader, IsMapped
<1>5. LoadSeesChanges'
  <2>1. CASE pc \in {"check", "open", "copy", "return"}
    <3>1. seen' = seen \cup {<<f, content>>} /\ LoadSeesChanges
      BY <1>1, <2>1 DEF Inductive
    <3>2. IsFiniteSet(seen')
      BY <2>1, <3>1, FS_AddElement DEF LoadSeesChanges
    <3>3. \A g \in Files : <<g, disk'[g]>> \in seen'
      BY <1>1, <2>1, <3>1 DEF LoadSeesChanges, TypeOK
    <3>4. QED
      BY <2>1, <3>1, <3>2, <3>3 DEF LoadSeesChanges
  <2>2. CASE pc \notin {"check", "open", "copy", "return"}
    BY <1>1, <2>2 DEF LoadSeesChanges
  <2>3. QED
    BY <2>1, <2>2
<1>6. NewIsFresh'
  BY <1>1 DEF Inductive, NewIsFresh, loader
<1>7. QED
  BY <1>2, <1>3, <1>4, <1>5, <1>6 DEF Inductive

\* Calls, and the destruction of objects, leave the libraries alone; what
\* crashes was not mapped.
LEMMA CallKeeps ==
  ASSUME Inductive,
         \/ \E p \in Plugins : Call(p) \/ GetGlobal(p)
         \/ \E o \in Objects : DestroyObject(o)
         \/ Return
  PROVE  Inductive'
<1>1. /\ TypeOK /\ RefsMatchHolders /\ pc = "idle"
      /\ UNCHANGED <<loader, handle, loading, disk, installs>>
  BY DEF Inductive, Call, GetGlobal, DestroyObject, Return, others, loader
<1>2. RefsMatchHolders'
  BY <1>1, CountsUnchanged
<1>3. /\ frames' \in Seq(Handles \ {None}) /\ objects' \in [Objects -> Handles]
      /\ \/ pc' = "idle" /\ used' = used
         \/ pc' = "segfault" /\ used' \in Handles \ {None} /\ ~IsMapped(used')
  <2>1. ASSUME NEW p \in Plugins, Call(p)
        PROVE  /\ frames' \in Seq(Handles \ {None}) /\ objects' = objects
               /\ pc' = "idle" /\ used' = used
    <3>1. CASE FunctionSymbol(p).hasValue
      <4>1. handle[p] # None
        BY <3>1 DEF FunctionSymbol, IsCallable, AndThen, Error
      <4>2. handle[p] \in Handles \ {None} /\ frames \in Seq(Handles \ {None})
        BY <1>1, <4>1 DEF TypeOK
      <4>3. frames' = Append(frames, handle[p])
        BY <2>1, <3>1 DEF Call
      <4>4. QED
        BY <1>1, <2>1, <4>2, <4>3 DEF Call, others
    <3>2. CASE ~FunctionSymbol(p).hasValue
      BY <1>1, <2>1, <3>2 DEF Call, others, TypeOK
    <3>3. QED
      BY <3>1, <3>2
  <2>2. ASSUME NEW p \in Plugins, GetGlobal(p)
        PROVE  frames' = frames /\ objects' = objects /\ pc' = "idle" /\ used' = used
    BY <1>1, <2>2 DEF GetGlobal, others
  <2>3. ASSUME NEW o \in Objects, DestroyObject(o)
        PROVE  /\ frames' = frames /\ objects' \in [Objects -> Handles]
               /\ \/ pc' = "idle" /\ used' = used
                  \/ pc' = "segfault" /\ used' \in Handles \ {None} /\ ~IsMapped(used')
    <3>1. objects[o] \in Handles \ {None} /\ frames' = frames
      BY <1>1, <2>3 DEF DestroyObject, TypeOK
    <3>2. CASE IsMapped(objects[o])
      BY <1>1, <2>3, <3>1, <3>2, HandleFacts DEF DestroyObject, TypeOK
    <3>3. CASE ~IsMapped(objects[o])
      BY <1>1, <2>3, <3>1, <3>3 DEF DestroyObject, Crash, TypeOK
    <3>4. QED
      BY <3>2, <3>3
  <2>4. CASE Return
    <3>1. frames # <<>> /\ frames \in Seq(Handles \ {None})
      BY <1>1, <2>4 DEF Return, TypeOK
    <3>2. Last(frames) \in Handles \ {None}
      BY <3>1 DEF Last
    <3>3. Front(frames) \in Seq(Handles \ {None})
      BY <3>1 DEF Front
    <3>4. CASE IsMapped(Last(frames))
      <4>1. /\ frames' = Front(frames) /\ pc' = pc /\ used' = used
            /\ \/ UNCHANGED objects
               \/ \E o \in Objects : objects' = [objects EXCEPT ![o] = Last(frames)]
        BY <2>4, <3>4 DEF Return
      <4>2. QED
        BY <1>1, <3>2, <3>3, <4>1 DEF TypeOK
    <3>5. CASE ~IsMapped(Last(frames))
      BY <1>1, <2>4, <3>1, <3>2, <3>5 DEF Return, Crash, TypeOK
    <3>6. QED
      BY <3>4, <3>5
  <2>5. QED
    BY <1>1, <2>1, <2>2, <2>3, <2>4 DEF TypeOK
<1>4. TypeOK'
  BY <1>1, <1>3 DEF TypeOK, loader
<1>5. LoadHoldsItsLibrary' /\ LoadSeesChanges' /\ NewIsFresh'
  BY <1>1, <1>3 DEF Inductive, LoadHoldsItsLibrary, LoadSeesChanges, NewIsFresh
<1>6. CrashIsOutside'
  BY <1>1, <1>3 DEF CrashIsOutside, loader, IsMapped
<1>7. QED
  BY <1>2, <1>4, <1>5, <1>6 DEF Inductive

\* A write to a global changes what is mapped, but not which image it is.
LEMMA SetGlobalKeeps ==
  ASSUME Inductive, NEW p \in Plugins, SetGlobal(p)
  PROVE  Inductive'
<1>1. /\ TypeOK /\ RefsMatchHolders /\ pc = "idle"
      /\ UNCHANGED <<pc, refs, images, handle, loading, frames, objects, disk, installs, seen, used>>
  BY DEF Inductive, SetGlobal, others
<1>2. /\ mapped' \in [Files -> {NoImage} \cup Images]
      /\ \A f \in Files : mapped'[f].number = mapped[f].number
                        /\ (mapped'[f] = NoImage <=> mapped[f] = NoImage)
  <2>1. CASE DataSymbol(p).hasValue
    <3>1. handle[p] # None
      BY <2>1 DEF DataSymbol, IsCallable, Error
    <3>2. handle[p].file \in Files /\ mapped[handle[p].file].number \in 1..MaxImages
      BY <1>1, <3>1, HandleFacts DEF TypeOK, RefsMatchHolders, IsMapped
    <3>3. mapped[handle[p].file] \in Images
      BY <1>1, <3>2, HandleFacts DEF TypeOK, Images
    <3>4. mapped' = [mapped EXCEPT ![handle[p].file].x = "written"]
      BY <2>1 DEF SetGlobal
    <3>5. /\ [mapped[handle[p].file] EXCEPT !.x = "written"] \in Images
          /\ [mapped[handle[p].file] EXCEPT !.x = "written"].number
               = mapped[handle[p].file].number
      BY <3>3 DEF Images
    <3>6. /\ mapped'[handle[p].file] = [mapped[handle[p].file] EXCEPT !.x = "written"]
          /\ \A f \in Files : f # handle[p].file => mapped'[f] = mapped[f]
          /\ DOMAIN mapped' = Files
      BY <1>1, <3>2, <3>4 DEF TypeOK
    <3>7. \A f \in Files : mapped'[f] \in {NoImage} \cup Images
      BY <1>1, <3>5, <3>6 DEF TypeOK, Images
    <3>8. mapped' \in [Files -> {NoImage} \cup Images]
      BY <1>1, <3>4, <3>7 DEF TypeOK
    <3>9. QED
      BY <3>3, <3>5, <3>6, <3>8, ImageFacts
  <2>2. CASE ~DataSymbol(p).hasValue
    BY <1>1, <2>2 DEF SetGlobal, TypeOK, Images
  <2>3. QED
    BY <2>1, <2>2
<1>3. TypeOK'
  BY <1>1, <1>2 DEF TypeOK, Images
<1>4. RefsMatchHolders'
  <2>1. \A f \in Files : Holders(f)' = Holders(f)
    BY <1>1, HoldersCount
  <2>2. QED
    BY <1>1, <1>2, <2>1 DEF RefsMatchHolders, IsMapped
<1>5. QED
  BY <1>1, <1>3, <1>4, NothingLoading DEF Inductive

-----------------------------------------------------------------------------
(* Theorems *)

\* Counts, handles, images and loads stay in order, in every behaviour of a
\* host that loads, copies, moves, calls and destroys plugins while files
\* change.
THEOREM InductiveInvariant == Spec => []Inductive
<1>1. Init => Inductive
  <2> SUFFICES ASSUME Init PROVE Inductive
    OBVIOUS
  <2>1. TypeOK
    <3>1. NotLoading \in [target : Plugins \cup {"none"}, temporary : Handles, new : Handles]
      BY HandleFacts DEF NotLoading
    <3>2. <<>> \in Seq(Handles \ {None})
      OBVIOUS
    <3>3. QED
      BY <3>1, <3>2, HandleFacts, ConstantsAssumption DEF Init, TypeOK
  <2>2. RefsMatchHolders
    <3>1. ASSUME NEW f \in Files PROVE Holders(f) = 0
      <4>1. loading.temporary = None /\ loading.new = None
        BY DEF Init, NotLoading
      <4>2. Once(None)[f] = 0
        BY OnceFacts, HandleFacts
      <4>3. \A p \in Plugins : handle[p].file # f
        BY HandleFacts DEF Init
      <4>4. Count(handle, f) = 0
        BY <4>3, CountFacts
      <4>5. QED
        BY <4>1, <4>2, <4>4, HoldersCount
    <3>2. QED
      BY <3>1 DEF Init, RefsMatchHolders
  <2>3. QED
    BY <2>1, <2>2 DEF Init, Inductive, LoadHoldsItsLibrary, LoadSeesChanges, NewIsFresh,
       CrashIsOutside
<1>2. Inductive /\ [Next]_vars => Inductive'
  <2> SUFFICES ASSUME Inductive, [Next]_vars PROVE Inductive'
    OBVIOUS
  <2>1. CASE \E f \in Files, content \in Contents : Install(f, content)
    BY <2>1, InstallKeeps
  <2>2. CASE (\E p \in Plugins : BeginLoad(p)) \/ CheckAgain \/ LoadThrows
    BY <2>2, LoadCheckKeeps
  <2>3. CASE OpenLibrary \/ CopyLibrary \/ ReturnPlugin
    BY <2>3, OpenLibraryKeeps, CopyLibraryKeeps, ReturnPluginKeeps
  <2>4. CASE \E p, q \in Plugins : CopyAssign(p, q) \/ MoveAssign(p, q)
    <3>1. TypeOK' /\ RefsMatchHolders'
      BY <2>4, CopyAssignKeeps, MoveAssignKeeps
    <3>2. pc = "idle" /\ pc' = "idle" /\ UNCHANGED loading
      BY <2>4 DEF CopyAssign, MoveAssign
    <3>3. QED
      BY <3>1, <3>2, NothingLoading DEF Inductive
  <2>5. CASE \E p \in Plugins : Destroy(p)
    <3>1. TypeOK' /\ RefsMatchHolders'
      BY <2>5, DestroyKeeps
    <3>2. pc = "idle" /\ pc' = "idle" /\ UNCHANGED loading
      BY <2>5 DEF Destroy
    <3>3. QED
      BY <3>1, <3>2, NothingLoading DEF Inductive
  <2>6. CASE \/ \E p \in Plugins : Call(p) \/ GetGlobal(p)
             \/ \E o \in Objects : DestroyObject(o)
             \/ Return
    BY <2>6, CallKeeps
  <2>7. CASE \E p \in Plugins : SetGlobal(p)
    BY <2>7, SetGlobalKeeps
  <2>8. CASE UNCHANGED vars
    <3>1. /\ TypeOK /\ RefsMatchHolders
          /\ UNCHANGED <<pc, disk, mapped, refs, handle, loading, frames, objects, images,
                         installs, seen, used>>
      BY <2>8 DEF vars, Inductive
    <3>2. RefsMatchHolders'
      BY <3>1, CountsUnchanged DEF loader
    <3>3. QED
      BY <3>1, <3>2 DEF Inductive, TypeOK, LoadHoldsItsLibrary, LoadSeesChanges, NewIsFresh,
         CrashIsOutside, IsMapped
  <2>9. QED
    BY <2>1, <2>2, <2>3, <2>4, <2>5, <2>6, <2>7, <2>8 DEF Next
<1>3. QED
  BY <1>1, <1>2, PTL DEF Spec

\* Libraries, counts, handles and calls are well-formed: no library is closed
\* more often than it was opened.
THEOREM TypeCorrect == Spec => []TypeOK
BY InductiveInvariant, PTL DEF Inductive

\* A library is open once for every plugin and step of a load that has it,
\* and mapped as long as somebody does: no copy, move, destructor or failure
\* counts it twice or forgets it.
THEOREM EveryHolderIsCounted == Spec => []RefsMatchHolders
BY InductiveInvariant, PTL DEF Inductive

\* A call or a destructor in code that is gone happens only when no plugin has
\* that code's library.
THEOREM PluginsDoNotCrash == Spec => []CrashNeedsNoPlugin
<1>1. Inductive => CrashNeedsNoPlugin
  BY DEF Inductive, RefsMatchHolders, CrashIsOutside, CrashNeedsNoPlugin
<1>2. QED
  BY <1>1, InductiveInvariant, PTL

\* If load() saw the file both there and absent, it saw at least one change.
LEMMA SawThreeThings ==
  ASSUME LoadSeesChanges, pc \in {"check", "open"}, <<"exact", "absent">> \in seen
  PROVE  Cardinality(seen) > 2
<1>1. PICK c \in Contents \ {"absent"}, d \in Contents :
        <<"exact", c>> \in seen /\ <<"decorated", d>> \in seen
  BY DEF LoadSeesChanges
<1>2. ASSUME NEW x, NEW y, NEW z, x # y, x # z, y # z
      PROVE  IsFiniteSet({x, y, z}) /\ Cardinality({x, y, z}) = 3
  <2>1. IsFiniteSet({x}) /\ Cardinality({x}) = 1
    BY FS_Singleton
  <2>2. IsFiniteSet({x} \cup {y}) /\ Cardinality({x} \cup {y}) = 2
    BY <1>2, <2>1, FS_AddElement
  <2>3. {x} \cup {y} = {x, y} /\ z \notin {x, y}
    BY <1>2
  <2>4. IsFiniteSet({x, y}) /\ Cardinality({x, y}) = 2
    BY <2>2, <2>3
  <2>5. IsFiniteSet({x, y} \cup {z}) /\ Cardinality({x, y} \cup {z}) = 3
    <3>1. PICK two : two = {x, y}
      OBVIOUS
    <3>2. IsFiniteSet(two) /\ Cardinality(two) = 2 /\ z \notin two
      BY <2>3, <2>4, <3>1
    <3>3. IsFiniteSet(two \cup {z}) /\ Cardinality(two \cup {z}) = 3
      BY <3>2, FS_AddElement
    <3>4. QED
      BY <3>1, <3>3
  <2>6. {x, y} \cup {z} = {x, y, z}
    OBVIOUS
  <2>7. QED
    BY <2>5, <2>6
<1> DEFINE three == {<<"exact", "absent">>, <<"exact", c>>, <<"decorated", d>>}
<1>3. /\ <<"exact", "absent">> # <<"exact", c>> /\ <<"exact", c>> # <<"decorated", d>>
      /\ <<"exact", "absent">> # <<"decorated", d>>
  OBVIOUS
<1>4. Cardinality(three) = 3
  BY <1>2, <1>3
<1>5. three \in SUBSET seen /\ IsFiniteSet(seen)
  BY <1>1 DEF LoadSeesChanges
<1>6. Cardinality(three) <= Cardinality(seen) /\ Cardinality(seen) \in Nat
  BY <1>5, FS_Subset, FS_CardinalityType
<1>7. QED
  BY <1>4, <1>6

\* What load() returns is what it could find while it looked, and it throws
\* only for a file that is no library or that was just removed.
THEOREM LoadsFindWhatIsThere == Spec => LoadIsAccurate
<1>1. Inductive /\ [Next]_vars =>
        [(pc \in {"check", "open", "return"} /\ pc' = "idle") => FoundByLoad]_vars
  <2> SUFFICES ASSUME Inductive, Next, pc \in {"check", "open", "return"}, pc' = "idle"
               PROVE  FoundByLoad
    BY DEF vars
  <2>1. CheckAgain \/ LoadThrows \/ ReturnPlugin
    BY DEF Next, Install, BeginLoad, OpenLibrary, CopyLibrary, CopyAssign, MoveAssign, Destroy,
       Call, GetGlobal, SetGlobal, DestroyObject, Return
  <2>2. TypeOK /\ LoadSeesChanges
    BY DEF Inductive
  <2>3. CASE CheckAgain
    <3>1. /\ pc = "check" /\ disk["exact"] = "absent" /\ reply' = Error("unknown")
      BY <2>3 DEF CheckAgain, EndLoad
    <3>2. <<"exact", "absent">> \in seen
      BY <2>2, <3>1 DEF LoadSeesChanges, Files
    <3>3. Cardinality(seen) > 2
      BY <2>2, <3>1, <3>2, SawThreeThings
    <3>4. QED
      BY <3>1, <3>2, <3>3 DEF FoundByLoad, Error
  <2>4. CASE LoadThrows
    <3>1. /\ pc = "open" /\ reply' = Error("exception") /\ ~reply'.hasValue
          /\ reply' # Error("unknown")
          /\ ~CanOpen("decorated") /\ (disk["decorated"] # "absent" \/ ~CanOpen("exact"))
      BY <2>4 DEF LoadThrows, EndLoad, Error
    <3>2. \A f \in Files :
            /\ disk[f] \in Contents /\ <<f, disk[f]>> \in seen
            /\ ~CanOpen(f) => disk[f] \in {"absent", "garbage"}
      BY <2>2, <3>1 DEF LoadSeesChanges, TypeOK, CanOpen, Contents
    <3>3. \/ \E f \in Files : <<f, "garbage">> \in seen
          \/ <<"exact", "absent">> \in seen
      <4>1. "exact" \in Files /\ "decorated" \in Files
        BY DEF Files
      <4>2. CASE disk["decorated"] = "garbage"
        BY <3>2, <4>1, <4>2
      <4>3. CASE disk["decorated"] = "absent" /\ disk["exact"] \in {"absent", "garbage"}
        BY <3>2, <4>1, <4>3
      <4>4. QED
        BY <3>1, <3>2, <4>1, <4>2, <4>3
    <3>4. <<"exact", "absent">> \in seen => Cardinality(seen) > 2
      BY <2>2, <3>1, SawThreeThings
    <3>5. QED
      BY <3>1, <3>3, <3>4 DEF FoundByLoad
  <2>5. CASE ReturnPlugin
    <3>1. /\ pc = "return" /\ reply' = Value("plugin") /\ loading.new = loading.temporary
      BY <2>5 DEF ReturnPlugin, EndLoad, Inductive, LoadHoldsItsLibrary
    <3>2. mapped'[loading.new.file] = mapped[loading.new.file]
      BY <2>5, ReturnPluginKeeps
    <3>3. ASSUME \A p \in Plugins : handle[p] # loading.new
          PROVE  /\ <<loading.new.file, mapped'[loading.new.file].version>> \in seen
                 /\ mapped'[loading.new.file].x = "initial"
      BY <3>1, <3>2, <3>3 DEF Inductive, NewIsFresh
    <3>4. QED
      <4>1. reply'.hasValue /\ reply' # Error("unknown")
        BY <3>1 DEF Value, Error
      <4>2. QED
        BY <3>3, <4>1 DEF FoundByLoad
  <2>6. QED
    BY <2>1, <2>3, <2>4, <2>5
<1>2. QED
  BY <1>1, InductiveInvariant, PTL DEF Spec, LoadIsAccurate
=============================================================================
