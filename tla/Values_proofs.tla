---------------------------- MODULE Values_proofs ----------------------------
(***************************************************************************)
(* Proofs about the values of a shell plugin, the results that carry them  *)
(* and the guards next to them.                                            *)
(*                                                                         *)
(* ExpectedObject and ScopeGuard come first.  For ShellCall, an invariant  *)
(* says that a line in the shell is read as the words that were meant, an  *)
(* answer is what was printed, and a result is made of the answer.  What   *)
(* carries it are two facts about the conversions, for any characters: the *)
(* words of a command line are its name and arguments (ReadCommandLine),   *)
(* and a list that is printed is the list that is returned                 *)
(* (ListIsReturned).  Quoting, reading and separating are folds; each is   *)
(* followed through the states that it goes through, one step a character. *)
(***************************************************************************)
EXTENDS ShellCall, ExpectedObject, ScopeGuard, SequenceFacts

-----------------------------------------------------------------------------
(* ExpectedObject: SideIsKept for any variables, types and values.         *)

Sides == {"value", "error", "either"}

\* What is held is of the type of its side, and the side is the one meant.
IsMeant(x, type, side) ==
  /\ x.T = type.T /\ x.E = type.E /\ x.has \in BOOLEAN
  /\ x.holds.type = IF x.has THEN x.T ELSE x.E
  /\ side \in Sides
  /\ side = "value" => x.has
  /\ side = "error" => ~x.has

ObjectInv ==
  /\ object = [v \in Variables |-> object[v]]
  /\ meant = [v \in Variables |-> meant[v]]
  /\ \A v \in Variables : IsMeant(object[v], TypeOf[v], meant[v])

-----------------------------------------------------------------------------
LEMMA InitObjectInv == ObjectInit => ObjectInv
<1> SUFFICES ASSUME ObjectInit PROVE ObjectInv
    OBVIOUS
<1>1. object = [v \in Variables |-> object[v]] /\ meant = [v \in Variables |-> meant[v]]
    BY DEF ObjectInit
<1>2. ASSUME NEW v \in Variables PROVE IsMeant(object[v], TypeOf[v], meant[v])
    <2>1. object[v] = Ok(TypeOf[v].T, TypeOf[v].E, Of(TypeOf[v].T, 0)) /\ meant[v] = "value"
        BY DEF ObjectInit
    <2> QED
        BY <2>1 DEF IsMeant, Sides, Ok, Of
<1> QED
    BY <1>1, <1>2 DEF ObjectInv

\* The strengthening implies SideIsKept.
LEMMA InvImpliesSideIsKept == ObjectInv => SideIsKept
<1> SUFFICES ASSUME ObjectInv PROVE SideIsKept
    OBVIOUS
<1>1. \A v \in Variables : IsMeant(object[v], TypeOf[v], meant[v])
    BY DEF ObjectInv
<1>2. ASSUME NEW v \in Variables, meant[v] = "value"
      PROVE  LET x == object[v] IN
               Value(x) = x.holds /\ ValueOptional(x) # {} /\ Error(x) = Thrown
    BY <1>1, <1>2 DEF IsMeant, Value, Error, ValueOptional
<1>3. ASSUME NEW v \in Variables, meant[v] = "error"
      PROVE  LET x == object[v] IN
               /\ Error(x) # Thrown /\ ErrorOptional(x) = {x.holds}
               /\ Value(x) = IF x.T = "void" THEN Of("void", 0) ELSE Thrown
    <2>1. ~object[v].has /\ object[v].holds.type = TypeOf[v].E
        BY <1>1, <1>3 DEF IsMeant
    <2>2. Thrown.type = "exception" /\ TypeOf[v].E # "exception"
        BY ObjectAssumption DEF Thrown, Of
    <2> QED
        BY <2>1, <2>2 DEF Value, Error, ErrorOptional
<1>4. ASSUME NEW v \in Variables, NEW w \in Variables, object[v].has = object[w].has,
             "either" \notin {meant[v], meant[w]}
      PROVE  meant[v] = meant[w]
    BY <1>1, <1>4 DEF IsMeant, Sides
<1> QED
    BY <1>1, <1>2, <1>3, <1>4 DEF SideIsKept, IsMeant, Equal

-----------------------------------------------------------------------------
\* A write of what is meant keeps the invariant.
LEMMA WriteKeepsInv ==
  ASSUME ObjectInv, NEW v \in Variables, NEW x, NEW side,
         Write_(v, x, side), IsMeant(x, TypeOf[v], side)
  PROVE  ObjectInv'
BY DEF ObjectInv, Write_

LEMMA NewKeepsInv ==
  ASSUME ObjectInv, NEW v \in Variables, NEW it, New(v, it)
  PROVE  ObjectInv'
<1> DEFINE x == object[v]
<1>1. IsMeant(Construct(x.T, x.E, it), TypeOf[v], SideOf(it.type, x))
    BY DEF New, ObjectInv, IsMeant, Sides, Construct, Ok, Fail, SideOf
<1> QED
    BY <1>1, WriteKeepsInv DEF New

LEMMA AssignPlainKeepsInv ==
  ASSUME ObjectInv, NEW v \in Variables, NEW it, AssignPlain(v, it)
  PROVE  ObjectInv'
<1> DEFINE x == object[v]
           side == IF it.type # x.T /\ Converts(it.type, x.T) THEN "either"
                                                              ELSE SideOf(it.type, x)
<1>1. IsMeant(Assign(x, it), TypeOf[v], side)
    BY DEF ObjectInv, IsMeant, Sides, Assign, Cast, Of, Ok, Fail, SideOf, Converts
<1> QED
    BY <1>1, WriteKeepsInv DEF AssignPlain

LEMMA AssignExpectedKeepsInv ==
  ASSUME ObjectInv, NEW v \in Variables, NEW w \in Variables, AssignExpected(v, w)
  PROVE  ObjectInv'
<1>1. IsMeant(Convert(object[v], object[w]), TypeOf[v], meant[w])
    BY DEF ObjectInv, IsMeant, Sides, Convert, Cast, Of, Ok, Fail
<1> QED
    BY <1>1, WriteKeepsInv DEF AssignExpected

LEMMA AssignAndThenKeepsInv ==
  ASSUME ObjectInv, NEW v \in Variables, NEW w \in Variables, NEW it, AssignAndThen(v, w, it)
  PROVE  ObjectInv'
<1>1. IsMeant(AndThen(object[w], it), TypeOf[v], meant[w])
    BY DEF AssignAndThen, ObjectInv, IsMeant, Sides, AndThen, Ok, Fail
<1> QED
    BY <1>1, WriteKeepsInv DEF AssignAndThen

\* The Expecteds that functions return hold what their type says.
LEMMA ReturnedIsTyped ==
  ASSUME NEW y \in Returned
  PROVE  y.has \in BOOLEAN /\ y.holds.type = IF y.has THEN y.T ELSE y.E
<1>1. CASE \E v \in Variables : y = Ok(TypeOf[v].T, TypeOf[v].E, Of(TypeOf[v].T, 0))
    BY <1>1 DEF Ok, Of
<1>2. CASE \E v \in Variables, it \in Written :
             it.type \in {TypeOf[v].T, TypeOf[v].E} /\ y = Construct(TypeOf[v].T, TypeOf[v].E, it)
    BY <1>2 DEF Construct, Ok, Fail
<1> QED
    BY <1>1, <1>2 DEF Returned

LEMMA AssignAndThenExpectedKeepsInv ==
  ASSUME ObjectInv, NEW v \in Variables, NEW w \in Variables, NEW y \in Returned,
         AssignAndThenExpected(v, w, y)
  PROVE  ObjectInv'
<1> DEFINE x == AndThenExpected(object[w], y)
           wrapped == object[w].T = "void" \/ object[w].E # y.E
           side == IF y.has \/ wrapped THEN meant[w] ELSE "error"
<1>1. x.T = TypeOf[v].T /\ x.E = TypeOf[v].E
    BY DEF AssignAndThenExpected, ObjectInv, IsMeant
<1>2. IsMeant(object[w], TypeOf[w], meant[w])
    BY DEF ObjectInv
<1>3. ASSUME wrapped PROVE IsMeant(x, TypeOf[v], side)
    <2>1. x = AndThen(object[w], Of("Expected", y)) /\ side = meant[w]
        BY <1>3 DEF AndThenExpected
    <2> HIDE DEF x, side
    <2>2. CASE object[w].has
        <3>1. x.has = TRUE /\ x.holds.type = x.T
            BY <2>1, <2>2 DEF AndThen, Ok, Of
        <3> QED
            BY <1>1, <1>2, <2>1, <2>2, <3>1 DEF IsMeant
    <2>3. CASE ~object[w].has
        <3>1. x.has = FALSE /\ x.E = object[w].E /\ x.holds = object[w].holds
            BY <2>1, <2>3 DEF AndThen, Fail
        <3> QED
            BY <1>1, <1>2, <2>1, <2>3, <3>1 DEF IsMeant
    <2> QED
        BY <2>2, <2>3
<1>4. ASSUME ~wrapped, object[w].has PROVE IsMeant(x, TypeOf[v], side)
    <2>1. x = y /\ side = IF y.has THEN meant[w] ELSE "error"
        BY <1>4 DEF AndThenExpected
    <2> HIDE DEF x, side
    <2> QED
        BY <1>1, <1>2, <1>4, <2>1, ReturnedIsTyped DEF IsMeant, Sides
<1>5. ASSUME ~wrapped, ~object[w].has PROVE IsMeant(x, TypeOf[v], side)
    <2>1. x = Fail(y.T, object[w].E, object[w].holds)
        BY <1>5 DEF AndThenExpected
    <2>2. side \in Sides /\ side # "value"
        BY <1>2, <1>5 DEF IsMeant, Sides
    <2> HIDE DEF x, side
    <2>3. x.has = FALSE /\ x.E = object[w].E /\ x.holds = object[w].holds
        BY <2>1 DEF Fail
    <2> QED
        BY <1>1, <1>2, <1>5, <2>2, <2>3 DEF IsMeant
<1>6. IsMeant(x, TypeOf[v], side)
    BY <1>3, <1>4, <1>5
<1> QED
    BY <1>6, WriteKeepsInv DEF AssignAndThenExpected

LEMMA StepKeepsObjectInv == ObjectInv /\ [ObjectNext]_objectVars => ObjectInv'
<1> SUFFICES ASSUME ObjectInv, [ObjectNext]_objectVars PROVE ObjectInv'
    OBVIOUS
<1>1. CASE UNCHANGED objectVars
    BY <1>1 DEF objectVars, ObjectInv
<1>2. ASSUME NEW v \in Variables, NEW it, New(v, it) \/ AssignPlain(v, it) PROVE ObjectInv'
    BY <1>2, NewKeepsInv, AssignPlainKeepsInv
<1>3. ASSUME NEW v \in Variables, NEW w \in Variables, NEW it, AssignOr(v, w, it)
      PROVE  ObjectInv'
    BY <1>3, AssignPlainKeepsInv DEF AssignOr
<1> QED
    BY <1>1, <1>2, <1>3, AssignExpectedKeepsInv, AssignAndThenKeepsInv,
       AssignAndThenExpectedKeepsInv DEF ObjectNext

-----------------------------------------------------------------------------
\* No chain of copies, conversions, defaults and andThen turns an error into
\* a value, or a value into an error, whatever the types.
THEOREM SidesAreKept == ObjectSpec => []SideIsKept
BY InitObjectInv, StepKeepsObjectInv, InvImpliesSideIsKept, PTL DEF ObjectSpec

-----------------------------------------------------------------------------
(* ScopeGuard: RunsExactlyOnce for any number of guards and functions.  It *)
(* is not inductive: it says nothing of functions that were not given to a *)
(* guard yet, nor that a guard outside of its scope has none.              *)

GuardTypeOK ==
  /\ scope \subseteq Guards
  /\ function_ \in [Guards -> Actions \cup {NoAction}]
  /\ runs \in [Actions -> Nat]
  /\ given \subseteq Actions
  /\ cancelled \subseteq given
  /\ thrown \in [Actions -> Nat]

\* Only guards that exist own functions, of those that were given.
OwnersExist ==
  \A g \in Guards : IsActive(g) => g \in scope /\ function_[g] \in given

\* No function is owned by two guards.
OneOwner ==
  \A g, h \in Guards : IsActive(g) /\ function_[g] = function_[h] => g = h

NotGivenNotRun == \A a \in Actions \ given : runs[a] = 0 /\ thrown[a] = 0

RunOrOwned ==
  ~aborted =>
    \A a \in given :
      \/ /\ \A g \in Guards : function_[g] # a
         /\ runs[a] = IF a \in cancelled THEN thrown[a] ELSE thrown[a] + 1
      \/ /\ \E g \in Guards : function_[g] = a
         /\ a \notin cancelled /\ runs[a] = thrown[a]

GuardInv == GuardTypeOK /\ OwnersExist /\ OneOwner /\ NotGivenNotRun /\ RunOrOwned

-----------------------------------------------------------------------------
LEMMA InitGuardInv == GuardInit => GuardInv
BY GuardAssumption DEF GuardInit, GuardInv, GuardTypeOK, OwnersExist, OneOwner,
   NotGivenNotRun, RunOrOwned, IsActive

LEMMA InvImpliesRunsOnce == GuardInv => RunsExactlyOnce
<1> SUFFICES ASSUME GuardInv, ~aborted, NEW a \in given
             PROVE LET owners == {g \in scope : function_[g] = a} IN
                     \/ owners = {} /\ a \notin cancelled /\ runs[a] = thrown[a] + 1
                     \/ owners = {} /\ a \in cancelled    /\ runs[a] = thrown[a]
                     \/ /\ a \notin cancelled /\ runs[a] = thrown[a]
                        /\ \E g \in Guards : owners = {g}
    BY DEF RunsExactlyOnce
<1> DEFINE owners == {g \in scope : function_[g] = a}
<1>1. a \in Actions /\ a # NoAction
    BY GuardAssumption DEF GuardInv, GuardTypeOK
<1>2. CASE /\ \A g \in Guards : function_[g] # a
           /\ runs[a] = IF a \in cancelled THEN thrown[a] ELSE thrown[a] + 1
    BY <1>2 DEF GuardInv, GuardTypeOK
<1>3. CASE /\ \E g \in Guards : function_[g] = a
           /\ a \notin cancelled /\ runs[a] = thrown[a]
    <2> PICK g \in Guards : function_[g] = a
        BY <1>3
    <2>1. g \in scope
        BY <1>1 DEF GuardInv, OwnersExist, IsActive
    <2>2. \A h \in scope : function_[h] = a => h = g
        BY <1>1 DEF GuardInv, GuardTypeOK, OneOwner, IsActive
    <2>3. owners = {g}
        BY <2>1, <2>2
    <2> QED
        BY <1>3, <2>3
<1> QED
    BY <1>2, <1>3 DEF GuardInv, RunOrOwned

-----------------------------------------------------------------------------
LEMMA StepKeepsGuardInv == GuardInv /\ [GuardNext]_guardVars => GuardInv'
<1> SUFFICES ASSUME GuardInv, [GuardNext]_guardVars PROVE GuardInv'
    OBVIOUS
<1> USE GuardAssumption DEF GuardInv, GuardTypeOK, OwnersExist, OneOwner, NotGivenNotRun,
        RunOrOwned, IsActive
<1>1. CASE UNCHANGED guardVars
    BY <1>1 DEF guardVars
<1>2. ASSUME NEW g \in Guards, NEW a \in Actions, ~aborted, Guard(g, a) PROVE GuardInv'
    BY <1>2 DEF Guard
<1>3. ASSUME NEW g \in Guards, ~aborted, CallGuard(g) PROVE GuardInv'
    BY <1>3 DEF CallGuard, Run
<1>4. ASSUME NEW g \in Guards, ~aborted, CallThrows(g) PROVE GuardInv'
    BY <1>4 DEF CallThrows, Run
<1>5. ASSUME NEW g \in Guards, ~aborted, Cancel(g) PROVE GuardInv'
    BY <1>5 DEF Cancel
<1>6. ASSUME NEW g \in Guards, ~aborted, Destroy(g) PROVE GuardInv'
    BY <1>6 DEF Destroy, Run
<1>7. ASSUME NEW g \in Guards, ~aborted, Aborts(g) PROVE GuardInv'
    BY <1>7 DEF Aborts, Run
<1>8. ASSUME NEW g \in Guards, NEW h \in Guards, ~aborted, MoveConstruct(g, h) PROVE GuardInv'
    BY <1>8 DEF MoveConstruct, Take
<1>9. ASSUME NEW g \in Guards, NEW h \in Guards, ~aborted, MoveAssign(g, h) PROVE GuardInv'
    BY <1>9 DEF MoveAssign, Take, Run
<1> QED
    BY <1>1, <1>2, <1>3, <1>4, <1>5, <1>6, <1>7, <1>8, <1>9 DEF GuardNext

-----------------------------------------------------------------------------
\* However guards are moved, called and cancelled: each function that was
\* given to a guard has either run to its end once, or was cancelled, or is
\* owned by exactly one guard that will run it, also after it threw.
THEOREM EachRunsOnce == GuardSpec => []RunsExactlyOnce
BY InitGuardInv, StepKeepsGuardInv, InvImpliesRunsOnce, PTL DEF GuardSpec

-----------------------------------------------------------------------------
(* ShellCall: ArgumentsArrive, ResultIsOutput and VariableIsWritten for any *)
(* names, arguments and outputs.                                            *)

-----------------------------------------------------------------------------
(* What is folded over a sequence, step by step.  The steps have names, for *)
(* a lemma cannot take an operator.                                         *)

Step(how, st, c) ==
  CASE how = "quote"    -> AddElement(st, c)
    [] how = "hear"     -> TakeCharacter(st, c)
    [] how = "read"     -> ReadCharacter(st, c)
    [] how = "separate" -> SeparatorStep(st, c)
    [] how = "join"     -> st \o c

IsHistory(g, how, first, s, n) ==
  g = [k \in 0..n |-> IF k = 0 THEN first ELSE Step(how, g[k - 1], s[k])]

History(how, first, s) == CHOOSE g : IsHistory(g, how, first, s, Len(s))

After(how, first, s) == History(how, first, s)[Len(s)]

\* The states that a fold goes through exist, whatever it folds.
LEMMA HistoryExists ==
  ASSUME NEW how, NEW first, NEW s, NEW n \in Nat
  PROVE  \E g : IsHistory(g, how, first, s, n)
<1> DEFINE P == {k \in 0..n : \E g : IsHistory(g, how, first, s, k)}
<1>1. 0 \in P
  <2>1. IsHistory([i \in 0..0 |-> first], how, first, s, 0)
    BY DEF IsHistory
  <2>2. QED
    BY <2>1, 0 \in 0..n
<1>2. ASSUME NEW k \in 1..n, k - 1 \in P PROVE k \in P
  <2>1. PICK g : IsHistory(g, how, first, s, k - 1)
    BY <1>2
  <2> DEFINE h == [i \in 0..k |-> IF i = 0 THEN first ELSE Step(how, g[i - 1], s[i])]
  <2>2. ASSUME NEW i \in 0..k, i # 0 PROVE h[i - 1] = g[i - 1]
    <3>1. i - 1 \in 0..(k - 1) /\ i - 1 \in 0..k
      BY <2>2
    <3>2. QED
      BY <2>1, <3>1 DEF IsHistory
  <2>3. IsHistory(h, how, first, s, k)
    BY <2>2 DEF IsHistory
  <2>4. QED
    BY <2>3
<1>3. QED
  <2> HIDE DEF P
  <2>1. n \in P
    BY <1>1, <1>2, UpTo
  <2>2. QED
    BY <2>1 DEF P

LEMMA StepsOfHistory ==
  ASSUME NEW g, NEW how, NEW first, NEW s, Len(s) \in Nat,
         IsHistory(g, how, first, s, Len(s))
  PROVE  g[0] = first /\ \A k \in 1..Len(s) : g[k] = Step(how, g[k - 1], s[k])
<1>1. 0 \in 0..Len(s) /\ \A k \in 1..Len(s) : k \in 0..Len(s) /\ k # 0
  OBVIOUS
<1>2. QED
  BY <1>1 DEF IsHistory

\* (A definition of its own, for the provers.)
IsFold(h, how, first, s) ==
  /\ h[0] = first
  /\ \A k \in 1..Len(s) : h[k] = Step(how, h[k - 1], s[k])

\* A fold goes through the states of its history.
LEMMA HistoryIsFold ==
  ASSUME NEW how, NEW first, NEW s, IsSequence(s)
  PROVE  IsFold(History(how, first, s), how, first, s)
<1>1. Len(s) \in Nat
  BY DEF IsSequence
<1> DEFINE g == History(how, first, s)
<1>2. IsHistory(g, how, first, s, Len(s))
  BY <1>1, HistoryExists, Zenon DEF History
<1> HIDE DEF g
<1>3. IsFold(g, how, first, s)
  BY <1>1, <1>2, StepsOfHistory DEF IsFold
<1>4. QED
  BY <1>3 DEF g

\* There is one way to fold.
LEMMA FoldIsUnique ==
  ASSUME NEW how, NEW first, NEW s, NEW g, NEW h, Len(s) \in Nat,
         IsFold(g, how, first, s), IsFold(h, how, first, s)
  PROVE  \A k \in 0..Len(s) : g[k] = h[k]
<1> DEFINE n == Len(s)
           P == {k \in 0..n : g[k] = h[k]}
<1>1. n \in Nat
  OBVIOUS
<1>2. 0 \in P
  BY <1>1 DEF IsFold
<1>3. ASSUME NEW k \in 1..n, k - 1 \in P PROVE k \in P
  BY <1>3 DEF IsFold
<1>4. \A k \in 0..n : k \in P
  <2> HIDE DEF P, n
  <2>1. QED
    BY <1>1, <1>2, <1>3, UpTo
<1>5. QED
  BY <1>4

\* Any fold of these steps ends where the history ends.
LEMMA AfterIsEnd ==
  ASSUME NEW how, NEW first, NEW s, NEW h, IsSequence(s), IsFold(h, how, first, s)
  PROVE  After(how, first, s) = h[Len(s)]
<1>1. Len(s) \in Nat /\ Len(s) \in 0..Len(s)
  BY DEF IsSequence
<1> DEFINE g == History(how, first, s)
<1>2. IsFold(g, how, first, s)
  BY HistoryIsFold, Zenon
<1> HIDE DEF g
<1>3. g[Len(s)] = h[Len(s)]
  BY <1>1, <1>2, FoldIsUnique
<1>4. QED
  BY <1>3 DEF After, g

LEMMA AfterNothing ==
  ASSUME NEW how, NEW first
  PROVE  After(how, first, <<>>) = first
<1>1. IsSequence(<<>>) /\ Len(<<>>) = 0
  BY EmptyIsSequence
<1>2. IsFold(History(how, first, <<>>), how, first, <<>>)
  BY <1>1, HistoryIsFold
<1>3. QED
  BY <1>1, <1>2 DEF After, IsFold

LEMMA OneIsSequence ==
  ASSUME NEW c
  PROVE  IsSequence(<<c>>) /\ Len(<<c>>) = 1 /\ <<c>>[1] = c
BY DEF IsSequence

LEMMA AfterOne ==
  ASSUME NEW how, NEW first, NEW c
  PROVE  After(how, first, <<c>>) = Step(how, first, c)
<1>1. IsSequence(<<c>>) /\ Len(<<c>>) = 1 /\ <<c>>[1] = c
  BY OneIsSequence
<1> DEFINE h == History(how, first, <<c>>)
<1>2. IsFold(h, how, first, <<c>>)
  BY <1>1, HistoryIsFold
<1>3. h[1] = Step(how, h[1 - 1], <<c>>[1]) /\ h[0] = first
  <2> HIDE DEF h
  <2>1. 1 \in 1..Len(<<c>>)
    BY <1>1
  <2>2. QED
    BY <1>2, <2>1 DEF IsFold
<1>4. QED
  BY <1>1, <1>3 DEF After

\* Folding two sequences one after the other is folding the second from where
\* the first has ended.
LEMMA AfterConcat ==
  ASSUME NEW how, NEW first, NEW s, NEW t, IsSequence(s), IsSequence(t)
  PROVE  After(how, first, s \o t) = After(how, After(how, first, s), t)
<1> DEFINE middle == After(how, first, s)
           g == History(how, first, s)
           f == History(how, middle, t)
           n == Len(s)
           m == Len(t)
           u == s \o t
           h == [k \in 0..(n + m) |-> IF k <= n THEN g[k] ELSE f[k - n]]
<1>1. IsConcat(u, s, t) /\ n \in Nat /\ m \in Nat
  <2>1. IsConcat(u, s, t)
    BY ConcatFacts, Zenon
  <2>2. QED
    BY <2>1 DEF IsSequence
<1>2. IsFold(g, how, first, s) /\ IsFold(f, how, middle, t) /\ g[n] = middle /\ f[m] = After(how, middle, t)
  BY HistoryIsFold, Zenon DEF After
<1> HIDE DEF middle, g, f, n, m, u
<1>3. f[0] = g[n]
  BY <1>2 DEF IsFold
<1>4. Len(u) = n + m /\ IsSequence(u)
  BY <1>1 DEF IsConcat, n, m
<1>5. h[0] = first
  BY <1>1, <1>2 DEF IsFold
<1>6. ASSUME NEW k \in 1..Len(u) PROVE h[k] = Step(how, h[k - 1], u[k])
  <2>1. k \in 0..(n + m) /\ k - 1 \in 0..(n + m)
    BY <1>1, <1>4
  <2>2. CASE k <= n
    <3>1. k \in 1..n /\ h[k] = g[k] /\ h[k - 1] = g[k - 1]
      BY <1>1, <2>1, <2>2
    <3>2. g[k] = Step(how, g[k - 1], s[k])
      BY <1>2, <3>1 DEF IsFold, n
    <3>3. u[k] = s[k]
      BY <1>1, <3>1 DEF IsConcat, n
    <3>4. QED
      BY <3>1, <3>2, <3>3, Zenon
  <2>3. CASE ~(k <= n)
    <3>1. k - n \in 1..m /\ h[k] = f[k - n] /\ n + (k - n) = k
      BY <1>1, <1>4, <2>1, <2>3
    <3>2. f[k - n] = Step(how, f[(k - n) - 1], t[k - n])
      BY <1>2, <3>1 DEF IsFold, m
    <3>3. u[k] = t[k - n]
      <4>1. u[n + (k - n)] = t[k - n]
        BY <1>1, <3>1, Zenon DEF IsConcat, n, m
      <4>2. QED
        BY <3>1, <4>1
    <3>4. h[k - 1] = f[(k - n) - 1]
      <4>1. CASE k - 1 <= n
        <5>1. k - 1 = n /\ (k - n) - 1 = 0 /\ h[k - 1] = g[n]
          BY <1>1, <2>1, <2>3, <4>1
        <5>2. QED
          BY <1>3, <5>1
      <4>2. CASE ~(k - 1 <= n)
        <5>1. h[k - 1] = f[(k - 1) - n] /\ (k - 1) - n = (k - n) - 1
          BY <1>1, <2>1, <4>2
        <5>2. QED
          BY <5>1
      <4>3. QED
        BY <4>1, <4>2
    <3>5. QED
      BY <3>1, <3>2, <3>3, <3>4, Zenon
  <2>4. QED
    BY <2>2, <2>3
<1>7. h[n + m] = f[m]
  <2>1. CASE m = 0
    BY <1>1, <1>3, <2>1
  <2>2. CASE m # 0
    <3>1. n + m \in 0..(n + m) /\ ~(n + m <= n) /\ n + m - n = m
      BY <1>1, <2>2
    <3>2. \A k \in 0..(n + m) : ~(k <= n) => h[k] = f[k - n]
      BY Zenon
    <3>3. QED
      <4> HIDE DEF h
      <4>1. h[n + m] = f[n + m - n]
        BY <1>1, <3>1, <3>2
      <4>2. QED
        BY <1>1, <3>1, <4>1
  <2>3. QED
    BY <2>1, <2>2
<1> HIDE DEF h
<1>8. After(how, first, u) = h[Len(u)]
  <2>1. IsFold(h, how, first, u)
    BY <1>5, <1>6 DEF IsFold
  <2>2. QED
    BY <1>4, <2>1, AfterIsEnd
<1>9. After(how, first, u) = After(how, middle, t)
  BY <1>2, <1>4, <1>7, <1>8
<1>10. QED
  BY <1>9 DEF u, middle

-----------------------------------------------------------------------------
(* The folds of the model are these *)

IsQuoting(g, first, s, n) ==
  g = [k \in 0..n |-> IF k = 0 THEN first ELSE AddElement(g[k - 1], s[k])]

\* ConvertToShellString folds over a sequence.
LEMMA QuotingIsAfter ==
  ASSUME NEW first, NEW s, IsSequence(s)
  PROVE  Folded(AddElement, first, s) = After("quote", first, s)
<1> DEFINE n == Len(s)
           g == CHOOSE h : IsQuoting(h, first, s, n)
<1>1. n \in Nat
  BY DEF IsSequence
<1>2. \A h : IsHistory(h, "quote", first, s, n) <=> IsQuoting(h, first, s, n)
  BY DEF IsHistory, IsQuoting, Step
<1>3. IsQuoting(g, first, s, n)
  <2>1. \E h : IsHistory(h, "quote", first, s, n)
    BY <1>1, HistoryExists
  <2>2. QED
    BY <1>2, <2>1, Zenon
<1>4. Folded(AddElement, first, s) = g[n]
  BY Zenon DEF Folded, IsQuoting
<1> HIDE DEF g
<1>5. IsHistory(g, "quote", first, s, n)
  BY <1>2, <1>3, Zenon
<1>6. IsFold(g, "quote", first, s)
  BY <1>1, <1>5, StepsOfHistory DEF IsFold
<1>7. After("quote", first, s) = g[n]
  BY <1>6, AfterIsEnd
<1>8. QED
  BY <1>4, <1>7, Zenon

IsHearing(g, first, s, n) ==
  g = [k \in 0..n |-> IF k = 0 THEN first ELSE TakeCharacter(g[k - 1], s[k])]

\* WithoutNul folds over a sequence.
LEMMA HearingIsAfter ==
  ASSUME NEW first, NEW s, IsSequence(s)
  PROVE  Folded(TakeCharacter, first, s) = After("hear", first, s)
<1> DEFINE n == Len(s)
           g == CHOOSE h : IsHearing(h, first, s, n)
<1>1. n \in Nat
  BY DEF IsSequence
<1>2. \A h : IsHistory(h, "hear", first, s, n) <=> IsHearing(h, first, s, n)
  BY DEF IsHistory, IsHearing, Step
<1>3. IsHearing(g, first, s, n)
  <2>1. \E h : IsHistory(h, "hear", first, s, n)
    BY <1>1, HistoryExists
  <2>2. QED
    BY <1>2, <2>1, Zenon
<1>4. Folded(TakeCharacter, first, s) = g[n]
  BY Zenon DEF Folded, IsHearing
<1> HIDE DEF g
<1>5. IsHistory(g, "hear", first, s, n)
  BY <1>2, <1>3, Zenon
<1>6. IsFold(g, "hear", first, s)
  BY <1>1, <1>5, StepsOfHistory DEF IsFold
<1>7. After("hear", first, s) = g[n]
  BY <1>6, AfterIsEnd
<1>8. QED
  BY <1>4, <1>7, Zenon

IsReading(g, first, s, n) ==
  g = [k \in 0..n |-> IF k = 0 THEN first ELSE ReadCharacter(g[k - 1], s[k])]

\* Words folds over a sequence.
LEMMA ReadingIsAfter ==
  ASSUME NEW first, NEW s, IsSequence(s)
  PROVE  Folded(ReadCharacter, first, s) = After("read", first, s)
<1> DEFINE n == Len(s)
           g == CHOOSE h : IsReading(h, first, s, n)
<1>1. n \in Nat
  BY DEF IsSequence
<1>2. \A h : IsHistory(h, "read", first, s, n) <=> IsReading(h, first, s, n)
  BY DEF IsHistory, IsReading, Step
<1>3. IsReading(g, first, s, n)
  <2>1. \E h : IsHistory(h, "read", first, s, n)
    BY <1>1, HistoryExists
  <2>2. QED
    BY <1>2, <2>1, Zenon
<1>4. Folded(ReadCharacter, first, s) = g[n]
  BY Zenon DEF Folded, IsReading
<1> HIDE DEF g
<1>5. IsHistory(g, "read", first, s, n)
  BY <1>2, <1>3, Zenon
<1>6. IsFold(g, "read", first, s)
  BY <1>1, <1>5, StepsOfHistory DEF IsFold
<1>7. After("read", first, s) = g[n]
  BY <1>6, AfterIsEnd
<1>8. QED
  BY <1>4, <1>7, Zenon

IsSeparating(g, first, s, n) ==
  g = [k \in 0..n |-> IF k = 0 THEN first ELSE SeparatorStep(g[k - 1], s[k])]

\* Separate folds over a sequence.
LEMMA SeparatingIsAfter ==
  ASSUME NEW first, NEW s, IsSequence(s)
  PROVE  Folded(SeparatorStep, first, s) = After("separate", first, s)
<1> DEFINE n == Len(s)
           g == CHOOSE h : IsSeparating(h, first, s, n)
<1>1. n \in Nat
  BY DEF IsSequence
<1>2. \A h : IsHistory(h, "separate", first, s, n) <=> IsSeparating(h, first, s, n)
  BY DEF IsHistory, IsSeparating, Step
<1>3. IsSeparating(g, first, s, n)
  <2>1. \E h : IsHistory(h, "separate", first, s, n)
    BY <1>1, HistoryExists
  <2>2. QED
    BY <1>2, <2>1, Zenon
<1>4. Folded(SeparatorStep, first, s) = g[n]
  BY Zenon DEF Folded, IsSeparating
<1> HIDE DEF g
<1>5. IsHistory(g, "separate", first, s, n)
  BY <1>2, <1>3, Zenon
<1>6. IsFold(g, "separate", first, s)
  BY <1>1, <1>5, StepsOfHistory DEF IsFold
<1>7. After("separate", first, s) = g[n]
  BY <1>6, AfterIsEnd
<1>8. QED
  BY <1>4, <1>7, Zenon

-----------------------------------------------------------------------------
(* A sequence of sequences, flattened one by one *)

IsFlattened(f, seqs, u) ==
  /\ f[0] = <<>>
  /\ \A i \in 0..Len(seqs) : IsSequence(f[i])
  /\ \A i \in 1..Len(seqs) : f[i] = f[i - 1] \o seqs[i]
  /\ f[Len(seqs)] = u

LEMMA EmptyConcat ==
  ASSUME NEW s, IsSequence(s)
  PROVE  <<>> \o s = s /\ s \o <<>> = s
<1>1. IsSequence(<<>>) /\ Len(<<>>) = 0 /\ Len(s) \in Nat
  BY EmptyIsSequence DEF IsSequence
<1>2. IsConcat(<<>> \o s, <<>>, s) /\ IsConcat(s \o <<>>, s, <<>>)
  BY <1>1, ConcatFacts, Zenon
<1> DEFINE u == <<>> \o s
           v == s \o <<>>
<1>3. IsConcat(u, <<>>, s) /\ IsConcat(v, s, <<>>)
  BY <1>2
<1> HIDE DEF u, v
<1>4. IsSequence(u) /\ Len(u) = Len(s) /\ \A i \in 1..Len(s) : u[i] = s[i]
  BY <1>1, <1>3 DEF IsConcat
<1>5. IsSequence(v) /\ Len(v) = Len(s) /\ \A i \in 1..Len(s) : v[i] = s[i]
  BY <1>1, <1>3 DEF IsConcat
<1>6. u = s /\ v = s
  BY <1>4, <1>5, SameSequence
<1>7. QED
  BY <1>6 DEF u, v

LEMMA ConcatIsSequence ==
  ASSUME NEW s, NEW t, IsSequence(s), IsSequence(t)
  PROVE  IsSequence(s \o t) /\ Len(s \o t) = Len(s) + Len(t)
BY ConcatFacts DEF IsConcat

\* (A definition of its own, for the provers.)
IsFlattening(g, seqs) ==
  g = [i \in 1..Len(seqs) |-> IF i = 1 THEN seqs[i] ELSE g[i - 1] \o seqs[i]]

\* FlattenSeq is the concatenation of its elements, one after the other.
LEMMA FlattenFacts ==
  ASSUME NEW seqs, IsSequence(seqs), \A i \in 1..Len(seqs) : IsSequence(seqs[i])
  PROVE  \E f : IsFlattened(f, seqs, FlattenSeq(seqs))
<1> DEFINE n == Len(seqs)
           f == History("join", <<>>, seqs)
           u == FlattenSeq(seqs)
<1>1. n \in Nat
  BY DEF IsSequence
<1>2. IsFold(f, "join", <<>>, seqs)
  BY HistoryIsFold, Zenon
<1> HIDE DEF f
<1>3. f[0] = <<>> /\ \A i \in 1..n : f[i] = f[i - 1] \o seqs[i]
  BY <1>2 DEF IsFold, Step
<1>4. \A i \in 0..n : IsSequence(f[i])
  <2> DEFINE P == {i \in 0..n : IsSequence(f[i])}
  <2>1. 0 \in P
    BY <1>1, <1>3, EmptyIsSequence
  <2>2. ASSUME NEW i \in 1..n, i - 1 \in P PROVE i \in P
    <3>1. IsSequence(f[i - 1]) /\ IsSequence(seqs[i]) /\ f[i] = f[i - 1] \o seqs[i] /\ i \in 0..n
      <4>1. i - 1 \in P /\ i \in 0..n
        BY <1>1, <2>2
      <4>2. IsSequence(f[i - 1])
        BY <4>1
      <4>3. QED
        BY <1>3, <4>1, <4>2
    <3>2. QED
      BY <3>1, ConcatIsSequence
  <2> HIDE DEF P, n
  <2>3. \A i \in 0..n : i \in P
    BY <1>1, <2>1, <2>2, UpTo
  <2>4. QED
    BY <2>3 DEF P
<1>5. f[n] = u
  <2>1. CASE n = 0
    <3>1. u = seqs
      BY <2>1 DEF FlattenSeq
    <3>2. seqs = <<>>
      BY <2>1, EmptyIsSequence, SameSequence
    <3>3. QED
      BY <1>3, <2>1, <3>1, <3>2
  <2>2. CASE n # 0
    <3> DEFINE g == CHOOSE h : IsFlattening(h, seqs)
               h0 == [i \in 1..n |-> f[i]]
    <3>1. u = g[n]
      BY <2>2, Zenon DEF FlattenSeq, IsFlattening
    <3>2. IsFlattening(h0, seqs)
      <4>1. ASSUME NEW i \in 1..n
            PROVE  f[i] = IF i = 1 THEN seqs[i] ELSE h0[i - 1] \o seqs[i]
        <5>1. CASE i = 1
          <6>1. f[i] = <<>> \o seqs[i]
            <7>1. i - 1 = 0
              BY <5>1
            <7>2. f[i] = f[i - 1] \o seqs[i]
              BY <1>3
            <7>3. QED
              BY <1>3, <7>1, <7>2
          <6>2. <<>> \o seqs[i] = seqs[i]
            BY EmptyConcat
          <6>3. QED
            BY <5>1, <6>1, <6>2
        <5>2. CASE i # 1
          <6>1. i - 1 \in 1..n /\ h0[i - 1] = f[i - 1]
            BY <5>2
          <6>2. QED
            BY <1>3, <5>2, <6>1
        <5>3. QED
          BY <5>1, <5>2
      <4>2. QED
        BY <4>1 DEF IsFlattening
    <3>3. IsFlattening(g, seqs)
      BY <3>2, Zenon
    <3> HIDE DEF g, h0
    <3>4. \A i \in 1..n : g[i] = f[i]
      <4> DEFINE P == {i \in 0..n : i = 0 \/ g[i] = f[i]}
      <4>1. 0 \in P
        BY <1>1
      <4>2. ASSUME NEW i \in 1..n, i - 1 \in P PROVE i \in P
        <5>1. g[i] = IF i = 1 THEN seqs[i] ELSE g[i - 1] \o seqs[i]
          BY <3>3 DEF IsFlattening
        <5>2. CASE i = 1
          <6>1. f[i] = <<>> \o seqs[i]
            <7>1. i - 1 = 0
              BY <5>2
            <7>2. f[i] = f[i - 1] \o seqs[i]
              BY <1>3
            <7>3. QED
              BY <1>3, <7>1, <7>2
          <6>2. <<>> \o seqs[i] = seqs[i]
            BY EmptyConcat
          <6>3. QED
            BY <5>1, <5>2, <6>1, <6>2
        <5>3. CASE i # 1
          <6>1. i - 1 # 0 /\ i - 1 \in P /\ i \in 0..n
            BY <1>1, <4>2, <5>3
          <6>2. g[i - 1] = f[i - 1]
            BY <6>1
          <6>3. g[i] = f[i]
            BY <1>3, <4>2, <5>1, <5>3, <6>2
          <6>4. QED
            BY <6>1, <6>3
        <5>4. QED
          BY <5>2, <5>3
      <4> HIDE DEF P, n
      <4>3. \A i \in 0..n : i \in P
        BY <1>1, <4>1, <4>2, UpTo
      <4>4. QED
        BY <1>1, <4>3 DEF P
    <3>5. QED
      BY <1>1, <2>2, <3>1, <3>4
  <2>3. QED
    BY <2>1, <2>2
<1>6. IsFlattened(f, seqs, u)
  BY <1>3, <1>4, <1>5 DEF IsFlattened
<1>7. QED
  BY <1>6, Zenon

\* What is flattened from sequences is one.
LEMMA FlattenIsSequence ==
  ASSUME NEW seqs, IsSequence(seqs), \A i \in 1..Len(seqs) : IsSequence(seqs[i])
  PROVE  IsSequence(FlattenSeq(seqs))
<1>1. PICK f : IsFlattened(f, seqs, FlattenSeq(seqs))
  BY FlattenFacts
<1>2. Len(seqs) \in 0..Len(seqs)
  BY DEF IsSequence
<1>3. QED
  BY <1>1, <1>2 DEF IsFlattened

\* (A definition of its own, for the provers.)
FoldsOver(how, first, f, seqs) ==
  /\ After(how, first, f[0]) = first
  /\ \A i \in 1..Len(seqs) :
       After(how, first, f[i]) = After(how, After(how, first, f[i - 1]), seqs[i])

\* What is folded over a flattened sequence is folded over its parts.
LEMMA FoldFlattened ==
  ASSUME NEW seqs, \A i \in 1..Len(seqs) : IsSequence(seqs[i]), NEW u,
         NEW f, IsFlattened(f, seqs, u), NEW how, NEW first
  PROVE  FoldsOver(how, first, f, seqs)
<1>1. After(how, first, f[0]) = first
  BY AfterNothing DEF IsFlattened
<1>2. ASSUME NEW i \in 1..Len(seqs)
      PROVE  After(how, first, f[i]) = After(how, After(how, first, f[i - 1]), seqs[i])
  <2>1. i - 1 \in 0..Len(seqs)
    OBVIOUS
  <2>2. f[i] = f[i - 1] \o seqs[i] /\ IsSequence(f[i - 1]) /\ IsSequence(seqs[i])
    BY <2>1 DEF IsFlattened
  <2>3. QED
    BY <2>2, AfterConcat
<1>3. QED
  BY <1>1, <1>2 DEF FoldsOver

\* A sequence grows by its elements, one by one.
LEMMA GrowByOne ==
  ASSUME NEW w, NEW s, IsSequence(w), IsSequence(s), NEW n \in 1..Len(s)
  PROVE  Append(w \o SubSeq(s, 1, n - 1), s[n]) = w \o SubSeq(s, 1, n)
<1>1. Len(s) \in Nat /\ Len(w) \in Nat /\ n \in 0..Len(s) /\ n - 1 \in 0..Len(s)
  BY DEF IsSequence
<1> DEFINE a == SubSeq(s, 1, n - 1)
           b == SubSeq(s, 1, n)
           u == w \o a
           v == w \o b
           x == Append(u, s[n])
<1>2. IsSequence(a) /\ Len(a) = n - 1 /\ \A i \in 1..(n - 1) : a[i] = s[i]
  BY <1>1, PrefixFacts
<1>3. IsSequence(b) /\ Len(b) = n /\ \A i \in 1..n : b[i] = s[i]
  BY <1>1, PrefixFacts
<1> HIDE DEF a, b
<1>4. IsConcat(u, w, a) /\ IsConcat(v, w, b)
  BY <1>2, <1>3, ConcatFacts
<1> HIDE DEF u, v
<1>5. /\ IsSequence(x) /\ Len(x) = Len(u) + 1 /\ x[Len(u) + 1] = s[n]
      /\ \A i \in 1..Len(u) : x[i] = u[i]
  <2>1. IsSequence(u)
    BY <1>4 DEF IsConcat
  <2>2. QED
    BY <2>1, AppendFacts
<1> HIDE DEF x
<1>6. Len(u) = Len(w) + n - 1 /\ Len(v) = Len(w) + n /\ Len(x) = Len(v) /\ IsSequence(v)
  BY <1>1, <1>2, <1>3, <1>4, <1>5 DEF IsConcat
<1>7. ASSUME NEW i \in 1..Len(x) PROVE x[i] = v[i]
  <2>1. CASE i \in 1..Len(w)
    <3>1. i \in 1..Len(u)
      BY <1>1, <1>6, <2>1
    <3>2. x[i] = u[i] /\ u[i] = w[i] /\ v[i] = w[i]
      BY <1>4, <1>5, <2>1, <3>1 DEF IsConcat
    <3>3. QED
      BY <3>2
  <2>2. CASE ~(i \in 1..Len(w))
    <3> DEFINE j == i - Len(w)
    <3>1. j \in 1..n /\ i = Len(w) + j /\ j \in Int
      BY <1>1, <1>6, <2>2
    <3> HIDE DEF j
    <3>2. v[Len(w) + j] = s[j]
      BY <1>3, <1>4, <3>1 DEF IsConcat
    <3>3. x[Len(w) + j] = s[j]
      <4>1. CASE j = n
        <5>1. Len(w) + j = Len(u) + 1
          BY <1>1, <1>6, <4>1
        <5>2. QED
          BY <1>5, <4>1, <5>1
      <4>2. CASE j # n
        <5>1. j \in 1..(n - 1) /\ Len(w) + j \in 1..Len(u) /\ j \in 1..Len(a)
          BY <1>1, <1>2, <1>6, <3>1, <4>2
        <5>2. u[Len(w) + j] = a[j] /\ a[j] = s[j]
          BY <1>2, <1>4, <5>1 DEF IsConcat
        <5>3. QED
          BY <1>5, <5>1, <5>2
      <4>3. QED
        BY <4>1, <4>2
    <3>4. QED
      BY <3>1, <3>2, <3>3
  <2>3. QED
    BY <2>1, <2>2
<1>8. x = v
  BY <1>5, <1>6, <1>7, SameSequence
<1>9. QED
  BY <1>8 DEF x, v, u, a, b

LEMMA NothingAndAll ==
  ASSUME NEW s, IsSequence(s)
  PROVE  SubSeq(s, 1, 0) = <<>> /\ SubSeq(s, 1, Len(s)) = s
<1>1. Len(s) \in Nat /\ 0 \in 0..Len(s) /\ Len(s) \in 0..Len(s)
  BY DEF IsSequence
<1> DEFINE a == SubSeq(s, 1, 0)
           b == SubSeq(s, 1, Len(s))
<1>2. IsSequence(a) /\ Len(a) = 0
  BY <1>1, PrefixFacts
<1>3. IsSequence(b) /\ Len(b) = Len(s) /\ \A i \in 1..Len(s) : b[i] = s[i]
  BY <1>1, PrefixFacts
<1> HIDE DEF a, b
<1>4. a = <<>>
  BY <1>2, EmptyIsSequence, SameSequence
<1>5. b = s
  BY <1>3, SameSequence
<1>6. QED
  BY <1>4, <1>5 DEF a, b

-----------------------------------------------------------------------------
(* Characters one by one *)

\* The first character is folded first.
LEMMA AfterFirst ==
  ASSUME NEW how, NEW first, NEW c, NEW s, IsSequence(s)
  PROVE  After(how, first, <<c>> \o s) = After(how, Step(how, first, c), s)
<1>1. IsSequence(<<c>>)
  BY OneIsSequence
<1>2. After(how, first, <<c>> \o s) = After(how, After(how, first, <<c>>), s)
  BY <1>1, AfterConcat
<1>3. After(how, first, <<c>>) = Step(how, first, c)
  BY AfterOne
<1>4. QED
  BY <1>2, <1>3

LEMMA ConcatOfOnes ==
  ASSUME NEW s, NEW t, IsSequence(s), IsSequence(t), Len(s) = 1, Len(t) = 1
  PROVE  Len(s \o t) = 2 /\ (s \o t)[1] = s[1] /\ (s \o t)[2] = t[1]
<1> DEFINE u == s \o t
<1>1. IsConcat(u, s, t)
  BY ConcatFacts, Zenon
<1> HIDE DEF u
<1>2. Len(u) = 1 + 1 /\ u[1] = s[1] /\ u[1 + 1] = t[1]
  BY <1>1 DEF IsConcat
<1>3. QED
  BY <1>2 DEF u

LEMMA TwoFacts ==
  ASSUME NEW a, NEW b
  PROVE  IsSequence(<<a, b>>) /\ <<a, b>> = <<a>> \o <<b>>
<1> DEFINE u == <<a>> \o <<b>>
           v == <<a, b>>
<1>1. IsSequence(v) /\ Len(v) = 2 /\ v[1] = a /\ v[2] = b
  BY DEF IsSequence
<1>2. IsSequence(u) /\ Len(u) = 2 /\ u[1] = <<a>>[1] /\ u[2] = <<b>>[1]
  <2> DEFINE s == <<a>>
             t == <<b>>
  <2>1. IsSequence(s) /\ IsSequence(t) /\ Len(s) = 1 /\ Len(t) = 1
    BY OneIsSequence, Zenon
  <2> HIDE DEF s, t
  <2>2. IsSequence(s \o t) /\ Len(s \o t) = 2 /\ (s \o t)[1] = s[1] /\ (s \o t)[2] = t[1]
    BY <2>1, ConcatOfOnes, ConcatIsSequence
  <2>3. QED
    BY <2>2, Zenon DEF s, t
<1>3. u[1] = a /\ u[2] = b
  <2> HIDE DEF u
  <2>1. QED
    BY <1>2
<1> HIDE DEF u, v
<1>4. \A i \in 1..Len(u) : u[i] = v[i]
  BY <1>1, <1>2, <1>3
<1>5. u = v
  BY <1>1, <1>2, <1>4, SameSequence
<1>6. QED
  BY <1>1, <1>5 DEF u, v

\* Two characters are two steps.
LEMMA AfterTwo ==
  ASSUME NEW how, NEW first, NEW a, NEW b
  PROVE  After(how, first, <<a, b>>) = Step(how, Step(how, first, a), b)
<1>1. <<a, b>> = <<a>> \o <<b>> /\ IsSequence(<<b>>)
  BY TwoFacts, OneIsSequence
<1>2. After(how, first, <<a>> \o <<b>>) = After(how, Step(how, first, a), <<b>>)
  BY <1>1, AfterFirst
<1>3. After(how, Step(how, first, a), <<b>>) = Step(how, Step(how, first, a), b)
  BY AfterOne
<1>4. QED
  BY <1>1, <1>2, <1>3

\* (A definition of its own, for the provers.)
IsTwoByTwo(s, front, back) == IsSequence(s) /\ s = front \o back

LEMMA FourFacts ==
  ASSUME NEW a, NEW b, NEW c, NEW d
  PROVE  IsTwoByTwo(<<a, b, c, d>>, <<a, b>>, <<c, d>>)
<1>1. IsSequence(<<a, b, c, d>>)
  BY DEF IsSequence
<1>2. <<a, b, c, d>> = <<a, b>> \o <<c, d>>
  OBVIOUS
<1>3. QED
  BY <1>1, <1>2 DEF IsTwoByTwo

-----------------------------------------------------------------------------
(* The shell reads a line *)

Reader(mode, word, words) == [mode |-> mode, word |-> word, words |-> words]

\* A quote begins a quoted part.
LEMMA QuoteOpens ==
  \A w, ws, m : m \in {"space", "word"} => Step("read", Reader(m, w, ws), Quote) = Reader("quoted", w, ws)
BY DEF Step, ReadCharacter, Reader, Quote, Nul

\* The next quote ends it, and the word goes on.
LEMMA QuoteCloses ==
  \A w, ws : Step("read", Reader("quoted", w, ws), Quote) = Reader("word", w, ws)
BY DEF Step, ReadCharacter, Reader, Quote, Nul

\* A NUL is dropped wherever it stands.
LEMMA NulIsDropped ==
  \A st : Step("read", st, Nul) = st
<1> TAKE st
<1>1. Step("read", st, Nul) = ReadCharacter(st, Nul)
  BY DEF Step
<1>2. QED
  BY <1>1 DEF ReadCharacter

\* All else that is quoted is taken as it is.
LEMMA QuotedIsTaken ==
  \A w, ws, c : c # Quote /\ c # Nul => Step("read", Reader("quoted", w, ws), c) = Reader("quoted", Append(w, c), ws)
BY DEF Step, ReadCharacter, Reader, Quote

\* Outside of quotes a backslash escapes the next character,
LEMMA BackslashEscapes ==
  \A w, ws : Step("read", Reader("word", w, ws), Backslash) = Reader("escaped", w, ws)
BY DEF Step, ReadCharacter, Reader, Quote, Backslash, Nul

Grown(st, v) == [st EXCEPT !.mode = "word", !.word = v]

LEMMA WordGrows ==
  ASSUME NEW m, NEW w, NEW ws, NEW v
  PROVE  Grown(Reader(m, w, ws), v) = Reader("word", v, ws)
<1> DEFINE st == Reader(m, w, ws)
           next == Reader("word", w, ws)
<1>1. Grown(st, v) = [[st EXCEPT !.mode = "word"] EXCEPT !.word = v]
  BY DEF Grown
<1>2. [st EXCEPT !.mode = "word"] = next
  BY DEF Reader
<1>3. [next EXCEPT !.word = v] = Reader("word", v, ws)
  BY DEF Reader
<1>4. QED
  BY <1>1, <1>2, <1>3, Zenon

\* which is then taken as it is.
LEMMA EscapedIsTaken ==
  \A w, ws, c : c # Nul => Step("read", Reader("escaped", w, ws), c) = Reader("word", Append(w, c), ws)
<1> TAKE w, ws, c
<1> HAVE c # Nul
<1> DEFINE st == Reader("escaped", w, ws)
<1>1. Step("read", st, c) = [st EXCEPT !.mode = "word", !.word = Append(@, c)]
  BY DEF Step, ReadCharacter, Reader
<1>2. st.word = w /\ st = [mode |-> "escaped", word |-> w, words |-> ws]
  BY DEF Reader
<1> HIDE DEF st
<1> DEFINE v == Append(w, c)
<1>3. Step("read", st, c) = [st EXCEPT !.mode = "word", !.word = v]
  BY <1>1, <1>2, Zenon
<1> HIDE DEF v
<1>4. Grown(st, v) = Reader("word", v, ws)
  BY WordGrows DEF st
<1>5. QED
  BY <1>3, <1>4, Zenon DEF Grown, st, v

\* A space ends the word.
LEMMA SpaceEndsWord ==
  \A w, ws : Step("read", Reader("word", w, ws), Space) = Reader("space", <<>>, Append(ws, w))
BY DEF Step, ReadCharacter, Reader, Quote, Backslash, Space, Nul

\* Between words it says nothing.
LEMMA SpaceIsSkipped ==
  \A w, ws : Step("read", Reader("space", w, ws), Space) = Reader("space", w, ws)
BY DEF Step, ReadCharacter, Reader, Quote, Backslash, Space, Nul

\* Any other character is the beginning of a word.
LEMMA PlainIsTaken ==
  \A w, ws, c : c \notin {Quote, Backslash, Space, Nul} =>
    Step("read", Reader("space", w, ws), c) = Reader("word", Append(w, c), ws)
<1> TAKE w, ws, c
<1> HAVE c \notin {Quote, Backslash, Space, Nul}
<1> DEFINE st == Reader("space", w, ws)
<1>1. Step("read", st, c) = [st EXCEPT !.mode = "word", !.word = Append(@, c)]
  BY DEF Step, ReadCharacter, Reader
<1>2. st.word = w /\ st = [mode |-> "space", word |-> w, words |-> ws]
  BY DEF Reader
<1> HIDE DEF st
<1> DEFINE v == Append(w, c)
<1>3. Step("read", st, c) = [st EXCEPT !.mode = "word", !.word = v]
  BY <1>1, <1>2, Zenon
<1> HIDE DEF v
<1>4. Grown(st, v) = Reader("word", v, ws)
  BY WordGrows DEF st
<1>5. QED
  BY <1>3, <1>4, Zenon DEF Grown, st, v

\* What is heard of a text is a text.
LEMMA HeardIsSequence ==
  ASSUME NEW w, IsSequence(w), NEW text, IsSequence(text)
  PROVE  IsSequence(After("hear", w, text))
<1> DEFINE n == Len(text)
           g == History("hear", w, text)
           P == {i \in 0..n : IsSequence(g[i])}
<1>1. n \in Nat
  BY DEF IsSequence
<1>2. IsFold(g, "hear", w, text) /\ After("hear", w, text) = g[n]
  BY HistoryIsFold, Zenon DEF After
<1> HIDE DEF g
<1>3. g[0] = w /\ \A i \in 1..n : g[i] = TakeCharacter(g[i - 1], text[i])
  BY <1>2 DEF IsFold, Step
<1>4. 0 \in P
  BY <1>1, <1>3
<1>5. ASSUME NEW i \in 1..n, i - 1 \in P PROVE i \in P
  <2> DEFINE v == g[i - 1]
  <2>1. IsSequence(v) /\ g[i] = TakeCharacter(v, text[i]) /\ i \in 0..n
    BY <1>1, <1>3, <1>5
  <2> HIDE DEF v
  <2>2. IsSequence(Append(v, text[i]))
    BY <2>1, AppendFacts
  <2>3. QED
    BY <2>1, <2>2 DEF TakeCharacter
<1>6. n \in P
  <2> HIDE DEF P, n
  <2>1. QED
    BY <1>1, <1>4, <1>5, UpTo
<1>7. QED
  BY <1>2, <1>6

LEMMA WithoutNulFacts ==
  ASSUME NEW text, IsSequence(text)
  PROVE  WithoutNul(text) = After("hear", <<>>, text) /\ IsSequence(WithoutNul(text))
<1>1. WithoutNul(text) = After("hear", <<>>, text)
  BY HearingIsAfter, Zenon DEF WithoutNul
<1>2. IsSequence(After("hear", <<>>, text))
  BY EmptyIsSequence, HeardIsSequence
<1>3. QED
  BY <1>1, <1>2

EscapedCharacter(c) == IF c = Quote THEN <<Quote, Backslash, Quote, Quote>> ELSE <<c>>

\* What stands for a character inside quotes is read as that character.
LEMMA ReadEscapedCharacter ==
  ASSUME NEW c, NEW w, NEW ws
  PROVE  /\ IsSequence(EscapedCharacter(c))
         /\ After("read", Reader("quoted", w, ws), EscapedCharacter(c)) = Reader("quoted", TakeCharacter(w, c), ws)
<1>1. CASE c # Quote
  <2>1. EscapedCharacter(c) = <<c>>
    BY <1>1 DEF EscapedCharacter
  <2>2. After("read", Reader("quoted", w, ws), <<c>>) = Step("read", Reader("quoted", w, ws), c)
    BY AfterOne
  <2>3. IsSequence(<<c>>)
    BY OneIsSequence
  <2>4. CASE c = Nul
    BY <2>1, <2>2, <2>3, <2>4, NulIsDropped DEF TakeCharacter
  <2>5. CASE c # Nul
    BY <1>1, <2>1, <2>2, <2>3, <2>5, QuotedIsTaken DEF TakeCharacter
  <2>6. QED
    BY <2>4, <2>5
<1>2. CASE c = Quote
  <2> DEFINE R == Reader("quoted", w, ws)
             front == <<Quote, Backslash>>
             back == <<Quote, Quote>>
  <2>1. EscapedCharacter(c) = front \o back /\ IsSequence(EscapedCharacter(c))
    <3>1. EscapedCharacter(c) = <<Quote, Backslash, Quote, Quote>>
      BY <1>2 DEF EscapedCharacter
    <3>2. QED
      <4> DEFINE four == <<Quote, Backslash, Quote, Quote>>
      <4>1. four = front \o back /\ IsSequence(four)
        <5>1. IsTwoByTwo(four, front, back)
          BY FourFacts, Zenon
        <5> HIDE DEF four, front, back
        <5>2. QED
          BY <5>1 DEF IsTwoByTwo
      <4> HIDE DEF four, front, back
      <4>2. EscapedCharacter(c) = four
        BY <3>1 DEF four
      <4>3. QED
        BY <4>1, <4>2
  <2>2. IsSequence(front) /\ IsSequence(back)
    BY TwoFacts
  <2>3. After("read", R, front) = Reader("escaped", w, ws)
    <3>1. After("read", R, front) = Step("read", Step("read", R, Quote), Backslash)
      BY AfterTwo
    <3>2. Step("read", R, Quote) = Reader("word", w, ws)
      BY QuoteCloses
    <3>3. QED
      BY <3>1, <3>2, BackslashEscapes
  <2>4. After("read", Reader("escaped", w, ws), back) = Reader("quoted", Append(w, c), ws)
    <3>1. After("read", Reader("escaped", w, ws), back) =
            Step("read", Step("read", Reader("escaped", w, ws), Quote), Quote)
      BY AfterTwo
    <3>2. Step("read", Reader("escaped", w, ws), Quote) = Reader("word", Append(w, c), ws)
      BY <1>2, EscapedIsTaken DEF Quote, Nul
    <3>3. QED
      BY <3>1, <3>2, QuoteOpens
  <2> HIDE DEF front, back, R
  <2>5. After("read", R, front \o back) = After("read", After("read", R, front), back)
    BY <2>2, AfterConcat
  <2>6. After("read", R, EscapedCharacter(c)) = Reader("quoted", Append(w, c), ws)
    BY <2>1, <2>3, <2>4, <2>5
  <2>7. TakeCharacter(w, c) = Append(w, c)
    BY <1>2 DEF TakeCharacter, Quote, Nul
  <2>8. QED
    BY <2>1, <2>6, <2>7 DEF R
<1>3. QED
  BY <1>1, <1>2

\* Between quotes, the escaped text is read as the text, without its NULs.
LEMMA ReadEscaped ==
  ASSUME NEW text, IsSequence(text), NEW w, IsSequence(w), NEW ws
  PROVE  /\ IsSequence(Escaped(text))
         /\ After("read", Reader("quoted", w, ws), Escaped(text)) = Reader("quoted", After("hear", w, text), ws)
<1> DEFINE n == Len(text)
           seqs == [i \in 1..n |-> EscapedCharacter(text[i])]
           u == FlattenSeq(seqs)
<1>1. n \in Nat /\ DOMAIN text = 1..n
  BY SequenceIsSeq
<1>2. Escaped(text) = u
  <2>1. Escaped(text) = FlattenSeq([i \in DOMAIN text |-> EscapedCharacter(text[i])])
    BY Zenon DEF Escaped, EscapedCharacter
  <2>2. QED
    BY <1>1, <2>1, Zenon
<1>3. \A i \in 1..n : seqs[i] = EscapedCharacter(text[i])
  OBVIOUS
<1>4. IsSequence(seqs) /\ Len(seqs) = n
  <2>1. seqs = [i \in 1..n |-> seqs[i]]
    OBVIOUS
  <2> HIDE DEF seqs, n
  <2>2. QED
    BY <1>1, <2>1, FunctionIsSequence
<1> HIDE DEF seqs
<1>5. \A i \in 1..Len(seqs) : IsSequence(seqs[i])
  BY <1>3, <1>4, ReadEscapedCharacter
<1>6. IsSequence(u)
  BY <1>4, <1>5, FlattenIsSequence
<1>7. PICK f : IsFlattened(f, seqs, u)
  BY <1>4, <1>5, FlattenFacts
<1> HIDE DEF u
<1> DEFINE at(i) == After("read", Reader("quoted", w, ws), f[i])
           g == History("hear", w, text)
           P == {i \in 0..n : at(i) = Reader("quoted", g[i], ws)}
<1>8. at(0) = Reader("quoted", w, ws) /\ \A i \in 1..n : at(i) = After("read", at(i - 1), seqs[i])
  <2> DEFINE first == Reader("quoted", w, ws)
  <2> HIDE DEF first
  <2>1. FoldsOver("read", first, f, seqs)
    BY <1>5, <1>7, FoldFlattened, Zenon
  <2>2. QED
    BY <1>4, <2>1 DEF first, FoldsOver
<1>14. IsFold(g, "hear", w, text) /\ After("hear", w, text) = g[n]
  BY HistoryIsFold, Zenon DEF After
<1> HIDE DEF at, g
<1>9. 0 \in P
  <2>1. g[0] = w
    BY <1>14 DEF IsFold
  <2>2. at(0) = Reader("quoted", g[0], ws)
    BY <1>8, <2>1, Zenon
  <2>3. 0 \in 0..n
    BY <1>1
  <2>4. QED
    BY <2>2, <2>3, Zenon
<1>10. ASSUME NEW i \in 1..n, i - 1 \in P PROVE i \in P
  <2> DEFINE v == g[i - 1]
  <2>1. at(i - 1) = Reader("quoted", v, ws)
    BY <1>10
  <2>2. TakeCharacter(v, text[i]) = g[i]
    BY <1>14 DEF IsFold, Step
  <2> HIDE DEF v
  <2>3. After("read", Reader("quoted", v, ws), seqs[i]) = Reader("quoted", TakeCharacter(v, text[i]), ws)
    BY <1>3, ReadEscapedCharacter
  <2>4. at(i) = Reader("quoted", g[i], ws)
    BY <1>8, <2>1, <2>2, <2>3
  <2>5. i \in 0..n
    BY <1>1
  <2>6. QED
    BY <2>4, <2>5
<1>11. at(n) = Reader("quoted", After("hear", w, text), ws)
  <2>1. n \in P
    <3> HIDE DEF P, n
    <3>1. QED
      BY <1>1, <1>9, <1>10, UpTo
  <2>2. QED
    BY <1>14, <2>1
<1>12. f[n] = u
  BY <1>4, <1>7 DEF IsFlattened
<1>13. QED
  BY <1>2, <1>6, <1>11, <1>12 DEF at

\* A quoted text is read as the text, as a word or the end of one.
LEMMA ReadQuoted ==
  ASSUME NEW text, IsSequence(text), NEW w, IsSequence(w), NEW ws,
         NEW m \in {"space", "word"}
  PROVE  /\ IsSequence(Quoted(text))
         /\ After("read", Reader(m, w, ws), Quoted(text)) = Reader("word", After("hear", w, text), ws)
<1> DEFINE e == Escaped(text)
           q == <<Quote>> \o e
           v == After("hear", w, text)
<1>1. /\ IsSequence(e) /\ IsSequence(<<Quote>>)
      /\ After("read", Reader("quoted", w, ws), e) = Reader("quoted", v, ws)
  BY ReadEscaped, OneIsSequence
<1>2. Quoted(text) = q \o <<Quote>>
  BY DEF Quoted
<1> HIDE DEF e, v
<1>3. IsSequence(q)
  BY <1>1, ConcatIsSequence
<1>4. After("read", Reader(m, w, ws), q) = Reader("quoted", v, ws)
  <2>1. After("read", Reader(m, w, ws), q) = After("read", Step("read", Reader(m, w, ws), Quote), e)
    BY <1>1, AfterFirst
  <2>2. Step("read", Reader(m, w, ws), Quote) = Reader("quoted", w, ws)
    BY QuoteOpens
  <2>3. QED
    BY <1>1, <2>1, <2>2
<1> HIDE DEF q
<1>5. IsSequence(q \o <<Quote>>)
  BY <1>1, <1>3, ConcatIsSequence
<1>6. After("read", Reader(m, w, ws), q \o <<Quote>>) =
        After("read", After("read", Reader(m, w, ws), q), <<Quote>>)
  BY <1>1, <1>3, AfterConcat
<1>7. After("read", Reader("quoted", v, ws), <<Quote>>) = Reader("word", v, ws)
  BY AfterOne, QuoteCloses
<1>8. QED
  BY <1>2, <1>4, <1>5, <1>6, <1>7 DEF v

-----------------------------------------------------------------------------
(* The words of a command line *)

\* (A definition of its own, for the provers.)
Associate(s, t, u) == (s \o t) \o u = s \o (t \o u)

LEMMA ConcatIsAssociative ==
  ASSUME NEW s, NEW t, NEW u, IsSequence(s), IsSequence(t), IsSequence(u)
  PROVE  Associate(s, t, u)
<1> DEFINE S == {s[i] : i \in 1..Len(s)} \cup {t[i] : i \in 1..Len(t)} \cup {u[i] : i \in 1..Len(u)}
<1>1. s \in Seq(S) /\ t \in Seq(S) /\ u \in Seq(S)
  BY SequenceOver
<1> HIDE DEF S
<1>2. QED
  BY <1>1, ConcatAssociative DEF Associate

LEMMA AppendingIsConcat ==
  ASSUME NEW s, IsSequence(s), NEW c
  PROVE  Append(s, c) = s \o <<c>>
<1> DEFINE S == {s[i] : i \in 1..Len(s)} \cup {c}
<1>1. s \in Seq(S) /\ c \in S
  BY SequenceOver
<1> HIDE DEF S
<1>2. QED
  BY <1>1, AppendIsConcat, Zenon

\* What is heard after something is the same as on its own.
LEMMA HeardOnItsOwn ==
  ASSUME NEW w, IsSequence(w), NEW text, IsSequence(text)
  PROVE  After("hear", w, text) = w \o After("hear", <<>>, text)
<1> DEFINE n == Len(text)
           g == History("hear", w, text)
           h == History("hear", <<>>, text)
           P == {i \in 0..n : IsSequence(h[i]) /\ g[i] = w \o h[i]}
<1>1. n \in Nat
  BY DEF IsSequence
<1>2. /\ IsFold(g, "hear", w, text) /\ After("hear", w, text) = g[n]
      /\ IsFold(h, "hear", <<>>, text) /\ After("hear", <<>>, text) = h[n]
  BY HistoryIsFold, Zenon DEF After
<1> HIDE DEF g, h
<1>3. /\ g[0] = w /\ \A i \in 1..n : g[i] = TakeCharacter(g[i - 1], text[i])
      /\ h[0] = <<>> /\ \A i \in 1..n : h[i] = TakeCharacter(h[i - 1], text[i])
  BY <1>2 DEF IsFold, Step
<1>4. 0 \in P
  <2>1. w \o <<>> = w /\ IsSequence(<<>>)
    BY EmptyIsSequence, EmptyConcat
  <2>2. IsSequence(h[0]) /\ g[0] = w \o h[0]
    BY <1>3, <2>1, Zenon
  <2>3. 0 \in 0..n
    BY <1>1
  <2>4. QED
    BY <2>2, <2>3, Zenon
<1>5. ASSUME NEW i \in 1..n, i - 1 \in P PROVE i \in P
  <2> DEFINE a == g[i - 1]
             b == h[i - 1]
             c == text[i]
  <2>1. IsSequence(b) /\ a = w \o b /\ g[i] = TakeCharacter(a, c) /\ h[i] = TakeCharacter(b, c) /\ i \in 0..n
    BY <1>1, <1>3, <1>5
  <2> HIDE DEF a, b, c
  <2>2. CASE c = Nul
    BY <2>1, <2>2 DEF TakeCharacter
  <2>3. CASE c # Nul
    <3> DEFINE one == <<c>>
    <3>1. g[i] = Append(a, c) /\ h[i] = Append(b, c)
      BY <2>1, <2>3 DEF TakeCharacter
    <3>2. IsSequence(a) /\ IsSequence(one)
      BY <2>1, ConcatIsSequence, OneIsSequence
    <3>3. Append(a, c) = a \o one /\ Append(b, c) = b \o one /\ IsSequence(b \o one)
      BY <2>1, <3>2, AppendingIsConcat, ConcatIsSequence
    <3> HIDE DEF one
    <3>4. Associate(w, b, one)
      BY <2>1, <3>2, ConcatIsAssociative
    <3>5. (w \o b) \o one = w \o (b \o one)
      BY <3>4 DEF Associate
    <3>6. QED
      BY <2>1, <3>1, <3>3, <3>5
  <2>4. QED
    BY <2>2, <2>3
<1>6. n \in P
  <2> HIDE DEF P, n
  <2>1. QED
    BY <1>1, <1>4, <1>5, UpTo
<1>7. QED
  BY <1>2, <1>6

\* A name has no NUL.
LEMMA NameIsHeard ==
  ASSUME NEW name, IsSequence(name), IsValidShellVariableName(name)
  PROVE  WithoutNul(name) = name
<1> DEFINE n == Len(name)
           h == History("hear", <<>>, name)
           P == {i \in 0..n : h[i] = <<>> \o SubSeq(name, 1, i)}
<1>1. n \in Nat /\ \A i \in 1..n : name[i] # Nul
  BY SequenceIsSeq DEF IsValidShellVariableName
<1>2. IsFold(h, "hear", <<>>, name) /\ After("hear", <<>>, name) = h[n]
  BY HistoryIsFold, Zenon DEF After
<1> HIDE DEF h
<1>3. h[0] = <<>> /\ \A i \in 1..n : h[i] = TakeCharacter(h[i - 1], name[i])
  BY <1>2 DEF IsFold, Step
<1>4. 0 \in P
  <2>1. SubSeq(name, 1, 0) = <<>> /\ <<>> \o <<>> = <<>>
    BY NothingAndAll, EmptyIsSequence, EmptyConcat
  <2>2. h[0] = <<>> \o SubSeq(name, 1, 0)
    BY <1>3, <2>1, Zenon
  <2>3. 0 \in 0..n
    BY <1>1
  <2>4. QED
    BY <2>2, <2>3, Zenon
<1>5. ASSUME NEW i \in 1..n, i - 1 \in P PROVE i \in P
  <2> DEFINE a == <<>> \o SubSeq(name, 1, i - 1)
  <2>1. h[i] = TakeCharacter(a, name[i]) /\ name[i] # Nul /\ i \in 0..n
    <3>1. h[i - 1] = a
      BY <1>5, Zenon
    <3> HIDE DEF a
    <3>2. QED
      BY <1>1, <1>3, <3>1
  <2>2. Append(a, name[i]) = <<>> \o SubSeq(name, 1, i)
    BY EmptyIsSequence, GrowByOne
  <2> HIDE DEF a
  <2>3. QED
    BY <2>1, <2>2 DEF TakeCharacter
<1>6. n \in P
  <2> HIDE DEF P, n
  <2>1. QED
    BY <1>1, <1>4, <1>5, UpTo
<1>7. SubSeq(name, 1, n) = name /\ <<>> \o name = name
  BY NothingAndAll, EmptyConcat
<1>8. WithoutNul(name) = After("hear", <<>>, name)
  BY WithoutNulFacts
<1>9. QED
  BY <1>2, <1>6, <1>7, <1>8

\* The word of a write is the name and what is heard of the value.
LEMMA WordIsHeard ==
  ASSUME NEW name, IsSequence(name), IsValidShellVariableName(name), NEW text, IsSequence(text)
  PROVE  WithoutNul(name \o <<Equals>> \o text) = name \o <<Equals>> \o WithoutNul(text)
<1> DEFINE one == <<Equals>>
           front == name \o one
           word == front \o text
           heard == WithoutNul(text)
<1>1. IsSequence(one) /\ IsSequence(front) /\ IsSequence(word)
  <2>1. IsSequence(one)
    BY OneIsSequence
  <2> HIDE DEF one
  <2>2. IsSequence(front)
    BY <2>1, ConcatIsSequence
  <2> HIDE DEF front
  <2>3. QED
    BY <2>1, <2>2, ConcatIsSequence
<1>2. heard = After("hear", <<>>, text) /\ WithoutNul(name) = After("hear", <<>>, name) /\ WithoutNul(name) = name
  BY WithoutNulFacts, NameIsHeard
<1>3. After("hear", <<>>, front) = front
  <2>1. After("hear", <<>>, front) = After("hear", After("hear", <<>>, name), one)
    BY <1>1, AfterConcat
  <2>2. After("hear", name, one) = Step("hear", name, Equals)
    BY AfterOne
  <2>3. Step("hear", name, Equals) = Append(name, Equals)
    BY DEF Step, TakeCharacter, Equals, Nul
  <2>4. Append(name, Equals) = front
    BY AppendingIsConcat
  <2>5. QED
    BY <1>2, <2>1, <2>2, <2>3, <2>4
<1> HIDE DEF heard, front
<1>4. After("hear", <<>>, word) = After("hear", front, text)
  BY <1>1, <1>3, AfterConcat
<1>5. After("hear", front, text) = front \o heard
  BY <1>1, <1>2, HeardOnItsOwn
<1>6. WithoutNul(word) = After("hear", <<>>, word)
  BY <1>1, WithoutNulFacts
<1>7. QED
  BY <1>4, <1>5, <1>6 DEF word, front, one, heard

\* What was read so far are these words.
IsClean(st, total) ==
  \/ st = Reader("space", <<>>, total)
  \/ \E w, ws : /\ IsSequence(w) /\ IsSequence(ws)
                /\ st = Reader("word", w, ws) /\ total = Append(ws, w)

NothingRead == Reader("space", <<>>, <<>>)

\* The words are those that were read when the line ends.
LEMMA WordsOfClean ==
  ASSUME NEW text, IsSequence(text), NEW total, IsClean(After("read", NothingRead, text), total)
  PROVE  Words(text) = total
<1> DEFINE end == After("read", NothingRead, text)
<1>1. Folded(ReadCharacter, [mode |-> "space", word |-> <<>>, words |-> <<>>], text) = end
  BY ReadingIsAfter, Zenon DEF NothingRead, Reader
<1>2. Words(text) = IF end.mode \in {"quoted", "escaped"} THEN <<<<"incomplete">>>>
                    ELSE IF end.mode = "space" THEN end.words
                    ELSE Append(end.words, end.word)
  BY <1>1, Zenon DEF Words
<1>3. IsClean(end, total)
  OBVIOUS
<1> HIDE DEF end
<1>4. CASE end = Reader("space", <<>>, total)
  <2>1. end.mode = "space" /\ end.words = total
    BY <1>4 DEF Reader
  <2>2. QED
    BY <1>2, <2>1
<1>5. ASSUME NEW w, NEW ws, end = Reader("word", w, ws), total = Append(ws, w)
      PROVE  Words(text) = total
  <2>1. end.mode = "word" /\ end.words = ws /\ end.word = w
    BY <1>5 DEF Reader
  <2>2. QED
    BY <1>2, <1>5, <2>1
<1>6. QED
  BY <1>3, <1>4, <1>5, Zenon DEF IsClean

\* A space after a word makes it one of the words.
LEMMA SpaceAfterClean ==
  ASSUME NEW st, NEW total, IsClean(st, total)
  PROVE  Step("read", st, Space) = Reader("space", <<>>, total)
<1>1. CASE st = Reader("space", <<>>, total)
  BY <1>1, SpaceIsSkipped
<1>2. ASSUME NEW w, NEW ws, st = Reader("word", w, ws), total = Append(ws, w)
      PROVE  Step("read", st, Space) = Reader("space", <<>>, total)
  BY <1>2, SpaceEndsWord
<1>3. QED
  BY <1>1, <1>2, Zenon DEF IsClean

\* A quoted text is read as one more word.
LEMMA ReadOneMore ==
  ASSUME NEW total, IsSequence(total), NEW text, IsSequence(text)
  PROVE  /\ IsSequence(Quoted(text))
         /\ IsClean(After("read", Reader("space", <<>>, total), Quoted(text)), Append(total, WithoutNul(text)))
<1>1. IsSequence(<<>>) /\ WithoutNul(text) = After("hear", <<>>, text) /\ IsSequence(WithoutNul(text))
  BY EmptyIsSequence, WithoutNulFacts
<1>2. /\ IsSequence(Quoted(text))
      /\ After("read", Reader("space", <<>>, total), Quoted(text)) = Reader("word", WithoutNul(text), total)
  BY <1>1, ReadQuoted
<1>3. QED
  BY <1>1, <1>2, Zenon DEF IsClean

\* A vector is read as its elements.
\* A vector is read as one word for each of its elements.
LEMMA ReadVector ==
  ASSUME NEW total, IsSequence(total),
         NEW list, IsSequence(list), \A i \in 1..Len(list) : IsSequence(list[i])
  PROVE  /\ IsSequence(After("quote", <<>>, list))
         /\ IsClean(After("read", Reader("space", <<>>, total), After("quote", <<>>, list)),
                    total \o [i \in 1..Len(list) |-> WithoutNul(list[i])])
<1> DEFINE n == Len(list)
           heard == [i \in 1..n |-> WithoutNul(list[i])]
           open == Reader("space", <<>>, total)
           g == History("quote", <<>>, list)
           read(i) == After("read", open, g[i])
           so(i) == total \o SubSeq(heard, 1, i)
           P == {i \in 0..n : IsSequence(g[i]) /\ IsClean(read(i), so(i))}
<1>1. n \in Nat
  BY DEF IsSequence
<1>2. IsFold(g, "quote", <<>>, list) /\ After("quote", <<>>, list) = g[n]
  BY HistoryIsFold, Zenon DEF After
<1> HIDE DEF g
<1>3. g[0] = <<>> /\ \A i \in 1..n : g[i] = AddElement(g[i - 1], list[i])
  BY <1>2 DEF IsFold, Step
<1>11. IsSequence(heard) /\ Len(heard) = n
  <2>1. heard = [i \in 1..n |-> heard[i]]
    OBVIOUS
  <2> HIDE DEF heard, n
  <2>2. QED
    BY <1>1, <2>1, FunctionIsSequence
<1>12. \A i \in 1..n : heard[i] = WithoutNul(list[i])
  OBVIOUS
<1> HIDE DEF heard
<1>4. \A i \in 0..n : IsSequence(so(i))
  <2>1. \A i \in 0..n : IsSequence(SubSeq(heard, 1, i))
    BY <1>11, PrefixFacts
  <2>2. QED
    BY <2>1, ConcatIsSequence
<1>5. \A i \in 1..n : Append(so(i - 1), WithoutNul(list[i])) = so(i)
  BY <1>11, <1>12, GrowByOne
<1>6. so(0) = total /\ so(n) = total \o heard
  BY <1>11, NothingAndAll, EmptyConcat
<1> HIDE DEF so
<1>7. 0 \in P
  <2>1. IsSequence(g[0]) /\ read(0) = open
    BY <1>3, EmptyIsSequence, AfterNothing
  <2>2. IsClean(read(0), so(0))
    BY <1>6, <2>1 DEF IsClean
  <2>3. QED
    BY <1>1, <2>1, <2>2
<1>8. ASSUME NEW i \in 1..n, i - 1 \in P PROVE i \in P
  <2>1. IsSequence(g[i - 1]) /\ IsClean(read(i - 1), so(i - 1)) /\ i - 1 \in 0..n /\ i \in 0..n
    BY <1>1, <1>8
  <2>2. /\ IsSequence(Quoted(list[i]))
        /\ IsClean(After("read", Reader("space", <<>>, so(i - 1)), Quoted(list[i])), so(i))
    <3>1. IsSequence(so(i - 1)) /\ IsSequence(list[i]) /\ Append(so(i - 1), WithoutNul(list[i])) = so(i)
      BY <1>4, <1>5, <2>1
    <3>2. QED
      BY <3>1, ReadOneMore
  <2> DEFINE q == Quoted(list[i])
             so1 == so(i - 1)
             old == g[i - 1]
  <2>3. CASE old = <<>>
    <3>1. g[i] = <<>> \o q
      BY <1>3, <2>3 DEF AddElement
    <3>2. g[i] = q
      BY <2>2, <3>1, EmptyConcat
    <3>3. IsClean(open, so1)
      BY <2>1, <2>3, AfterNothing
    <3>4. open = Reader("space", <<>>, so1)
      <4> HIDE DEF so1
      <4>1. open.mode = "space"
        BY DEF Reader
      <4>2. \A w, ws : open # Reader("word", w, ws)
        BY DEF Reader
      <4>3. QED
        BY <3>3, <4>2, Zenon DEF IsClean
    <3>5. read(i) = After("read", Reader("space", <<>>, so1), q)
      BY <3>2, <3>4, Zenon
    <3>6. QED
      BY <2>1, <2>2, <3>2, <3>5, Zenon
  <2>4. CASE old # <<>>
    <3> DEFINE spaced == old \o <<Space>>
    <3>1. g[i] = spaced \o q
      BY <1>3, <2>4 DEF AddElement
    <3>2. IsSequence(<<Space>>) /\ IsSequence(spaced)
      BY <2>1, OneIsSequence, ConcatIsSequence
    <3>3. After("read", open, spaced) = Reader("space", <<>>, so1)
      <4>1. After("read", open, spaced) = After("read", read(i - 1), <<Space>>)
        BY <2>1, <3>2, AfterConcat
      <4>2. After("read", read(i - 1), <<Space>>) = Step("read", read(i - 1), Space)
        BY AfterOne
      <4>3. Step("read", read(i - 1), Space) = Reader("space", <<>>, so1)
        BY <2>1, SpaceAfterClean
      <4>4. QED
        BY <4>1, <4>2, <4>3
    <3>4. read(i) = After("read", After("read", open, spaced), q)
      <4> HIDE DEF spaced, q
      <4>1. After("read", open, spaced \o q) = After("read", After("read", open, spaced), q)
        BY <2>2, <3>2, AfterConcat DEF q
      <4>2. QED
        BY <3>1, <4>1
    <3>5. read(i) = After("read", Reader("space", <<>>, so1), q)
      BY <3>3, <3>4
    <3>6. IsSequence(g[i])
      BY <2>2, <3>1, <3>2, ConcatIsSequence
    <3>7. QED
      BY <2>1, <2>2, <3>5, <3>6, Zenon
  <2>5. QED
    BY <2>3, <2>4
<1>9. n \in P
  <2> HIDE DEF P, n
  <2>1. QED
    BY <1>1, <1>7, <1>8, UpTo
<1>10. QED
  BY <1>2, <1>6, <1>9 DEF heard

\* An argument is read as the words of its elements.
LEMMA ReadArgument ==
  ASSUME NEW total, IsSequence(total), NEW arg, IsArgument(arg)
  PROVE  /\ IsSequence(ConvertToShellString(arg)) /\ IsSequence(ElementsOf(arg))
         /\ IsClean(After("read", Reader("space", <<>>, total), ConvertToShellString(arg)),
                    total \o ElementsOf(arg))
<1>1. CASE arg.type = "vector"
  <2> DEFINE list == arg.it
             n == Len(list)
             heard == [i \in 1..n |-> WithoutNul(list[i])]
  <2>2. IsSequence(list) /\ DOMAIN list = 1..n /\ n \in Nat /\ \A i \in 1..n : IsSequence(list[i])
    BY <1>1, SequenceIsSeq DEF IsArgument
  <2>1. ConvertToShellString(arg) = Folded(AddElement, <<>>, list) /\ ElementsOf(arg) = heard
    BY <1>1, <2>2, Zenon DEF ConvertToShellString, ElementsOf
  <2>3. Folded(AddElement, <<>>, list) = After("quote", <<>>, list)
    BY <2>2, QuotingIsAfter, Zenon
  <2>5. IsSequence(heard)
    <3>1. heard = [i \in 1..n |-> heard[i]]
      OBVIOUS
    <3> HIDE DEF heard, n
    <3>2. QED
      BY <2>2, <3>1, FunctionIsSequence
  <2>6. /\ IsSequence(After("quote", <<>>, list))
        /\ IsClean(After("read", Reader("space", <<>>, total), After("quote", <<>>, list)), total \o heard)
    BY <2>2, ReadVector
  <2> HIDE DEF heard, list
  <2>4. QED
    BY <2>1, <2>3, <2>5, <2>6
<1>2. CASE arg.type # "vector"
  <2>1. ConvertToShellString(arg) = Quoted(arg.it) /\ ElementsOf(arg) = <<WithoutNul(arg.it)>>
    BY <1>2, Zenon DEF ConvertToShellString, ElementsOf
  <2>2. IsSequence(arg.it)
    BY DEF IsArgument
  <2>3. /\ Append(total, WithoutNul(arg.it)) = total \o <<WithoutNul(arg.it)>>
        /\ IsSequence(<<WithoutNul(arg.it)>>)
    BY AppendingIsConcat, OneIsSequence
  <2>4. QED
    BY <2>1, <2>2, <2>3, ReadOneMore
<1>3. QED
  BY <1>1, <1>2

LEMMA AppendToEmpty ==
  ASSUME NEW c
  PROVE  Append(<<>>, c) = <<c>>
OBVIOUS

\* A command line is read as the function and its arguments, whatever they
\* hold.
LEMMA ReadCommandLine ==
  ASSUME NEW name, IsSequence(name),
         NEW args, IsSequence(args), \A i \in 1..Len(args) : IsArgument(args[i])
  PROVE  Words(BuildCommandLine(name, args)) =
           <<WithoutNul(name)>> \o FlattenSeq([i \in DOMAIN args |-> ElementsOf(args[i])])
<1> DEFINE n == Len(args)
           seqs == [i \in 1..n |-> <<Space>> \o ConvertToShellString(args[i])]
           els == [i \in 1..n |-> ElementsOf(args[i])]
           u == FlattenSeq(seqs)
           v == FlattenSeq(els)
           q == Quoted(name)
           start == After("read", NothingRead, q)
           named == <<WithoutNul(name)>>
<1>1. n \in Nat /\ DOMAIN args = 1..n
  BY SequenceIsSeq
<1>2. BuildCommandLine(name, args) = q \o u /\ FlattenSeq([i \in DOMAIN args |-> ElementsOf(args[i])]) = v
  BY <1>1, Zenon DEF BuildCommandLine
<1>3. IsSequence(q) /\ IsClean(start, named) /\ IsSequence(named)
  BY ReadOneMore, AppendToEmpty, EmptyIsSequence, OneIsSequence DEF NothingRead
<1>4. \A i \in 1..n : /\ seqs[i] = <<Space>> \o ConvertToShellString(args[i])
                      /\ els[i] = ElementsOf(args[i])
  OBVIOUS
<1>5. IsSequence(seqs) /\ Len(seqs) = n /\ IsSequence(els) /\ Len(els) = n
  <2>1. seqs = [i \in 1..n |-> seqs[i]] /\ els = [i \in 1..n |-> els[i]]
    OBVIOUS
  <2> HIDE DEF seqs, els, n
  <2>2. QED
    BY <1>1, <2>1, FunctionIsSequence
<1> HIDE DEF seqs, els, q, start, named
<1>6. \A i \in 1..n : IsSequence(seqs[i]) /\ IsSequence(els[i])
  <2>1. \A i \in 1..n : IsSequence(ConvertToShellString(args[i])) /\ IsSequence(ElementsOf(args[i]))
    BY <1>3, ReadArgument
  <2>2. IsSequence(<<Space>>)
    BY OneIsSequence
  <2>3. ASSUME NEW i \in 1..n PROVE IsSequence(seqs[i]) /\ IsSequence(els[i])
    <3> DEFINE text == ConvertToShellString(args[i])
               one == <<Space>>
    <3>1. seqs[i] = one \o text /\ els[i] = ElementsOf(args[i])
      BY <1>4
    <3>2. IsSequence(one) /\ IsSequence(text) /\ IsSequence(els[i])
      BY <2>1, <2>2, <3>1
    <3> HIDE DEF text, one
    <3>3. QED
      BY <3>1, <3>2, ConcatIsSequence
  <2>4. QED
    BY <2>3
<1>7. PICK f : IsFlattened(f, seqs, u)
  BY <1>5, <1>6, FlattenFacts
<1>8. PICK h : IsFlattened(h, els, v)
  BY <1>5, <1>6, FlattenFacts
<1>9. IsSequence(u) /\ IsSequence(v)
  BY <1>5, <1>6, FlattenIsSequence
<1> HIDE DEF u, v
<1> DEFINE at(i) == After("read", start, f[i])
           so(i) == named \o h[i]
           P == {i \in 0..n : IsClean(at(i), so(i))}
<1>10. at(0) = start /\ \A i \in 1..n : at(i) = After("read", at(i - 1), seqs[i])
  <2>1. FoldsOver("read", start, f, seqs)
    BY <1>5, <1>6, <1>7, FoldFlattened, Zenon
  <2>2. QED
    BY <1>5, <2>1 DEF FoldsOver
<1>11. so(0) = named /\ \A i \in 1..n : so(i) = so(i - 1) \o els[i] /\ IsSequence(so(i - 1))
  <2>1. h[0] = <<>> /\ \A i \in 1..n : h[i] = h[i - 1] \o els[i] /\ IsSequence(h[i - 1])
    <3>1. h[0] = <<>> /\ \A i \in 1..n : h[i] = h[i - 1] \o els[i]
      BY <1>5, <1>8 DEF IsFlattened
    <3>2. \A i \in 0..n : IsSequence(h[i])
      BY <1>5, <1>8 DEF IsFlattened
    <3>3. \A i \in 1..n : i - 1 \in 0..n
      BY <1>1
    <3>4. QED
      BY <3>1, <3>2, <3>3
  <2>2. so(0) = named
    BY <1>3, <2>1, EmptyConcat
  <2>3. ASSUME NEW i \in 1..n PROVE so(i) = so(i - 1) \o els[i] /\ IsSequence(so(i - 1))
    <3>1. h[i] = h[i - 1] \o els[i] /\ IsSequence(h[i - 1]) /\ IsSequence(els[i])
      BY <1>6, <2>1
    <3>2. (named \o h[i - 1]) \o els[i] = named \o (h[i - 1] \o els[i])
      <4> DEFINE a == h[i - 1]
                 b == els[i]
      <4>1. IsSequence(a) /\ IsSequence(b) /\ IsSequence(named)
        BY <1>3, <3>1
      <4> HIDE DEF a, b
      <4>2. Associate(named, a, b)
        BY <4>1, ConcatIsAssociative, Zenon
      <4>3. QED
        BY <4>2 DEF Associate, a, b
    <3>3. IsSequence(so(i - 1))
      BY <1>3, <3>1, ConcatIsSequence
    <3>4. QED
      BY <3>1, <3>2, <3>3
  <2>4. QED
    BY <2>2, <2>3
<1> HIDE DEF at, so
<1>12. 0 \in P
  BY <1>1, <1>3, <1>10, <1>11
<1>13. ASSUME NEW i \in 1..n, i - 1 \in P PROVE i \in P
  <2> DEFINE st == at(i - 1)
             so1 == so(i - 1)
             text == ConvertToShellString(args[i])
  <2>1. IsClean(st, so1) /\ IsSequence(so1) /\ so(i) = so1 \o els[i] /\ i \in 0..n
    <3>1. i - 1 \in P /\ i \in 0..n
      BY <1>1, <1>13
    <3>2. IsClean(st, so1)
      BY <3>1
    <3>3. IsSequence(so1) /\ so(i) = so1 \o els[i]
      BY <1>11
    <3>4. QED
      BY <3>1, <3>2, <3>3
  <2>2. at(i) = After("read", st, <<Space>> \o text)
    BY <1>4, <1>10
  <2> HIDE DEF st, so1
  <2>3. /\ IsSequence(text)
        /\ IsClean(After("read", Reader("space", <<>>, so1), text), so1 \o els[i])
    BY <1>4, <2>1, ReadArgument
  <2> HIDE DEF text
  <2>4. After("read", st, <<Space>> \o text) = After("read", Reader("space", <<>>, so1), text)
    BY <2>1, <2>3, AfterFirst, SpaceAfterClean
  <2>5. IsClean(at(i), so(i))
    BY <2>1, <2>2, <2>3, <2>4
  <2>6. QED
    BY <2>1, <2>5
<1>14. IsClean(at(n), so(n))
  <2>1. n \in P
    <3> HIDE DEF P, n
    <3>1. QED
      BY <1>1, <1>12, <1>13, UpTo
  <2>2. QED
    BY <2>1
<1>15. f[n] = u /\ h[n] = v
  BY <1>5, <1>7, <1>8 DEF IsFlattened
<1>16. After("read", NothingRead, q \o u) = at(n)
  BY <1>3, <1>9, <1>15, AfterConcat DEF at, start
<1>17. IsSequence(q \o u)
  BY <1>3, <1>9, ConcatIsSequence
<1>18. Words(q \o u) = so(n)
  BY <1>14, <1>16, <1>17, WordsOfClean
<1>19. QED
  BY <1>2, <1>15, <1>18, Zenon DEF so, named

\* A command of one character with a quoted text is read as these two words.
LEMMA ReadCommand ==
  ASSUME NEW c, c \notin {Quote, Backslash, Space, Nul}, NEW text, IsSequence(text)
  PROVE  Words(<<c, Space>> \o Quoted(text)) = <<<<c>>, WithoutNul(text)>>
<1> DEFINE front == <<c, Space>>
           q == Quoted(text)
           total == <<<<c>>>>
<1>1. IsSequence(front) /\ IsSequence(total)
  BY TwoFacts, OneIsSequence, Zenon
<1>2. After("read", NothingRead, front) = Reader("space", <<>>, total)
  <2>1. After("read", NothingRead, front) = Step("read", Step("read", NothingRead, c), Space)
    BY AfterTwo
  <2>2. Step("read", NothingRead, c) = Reader("word", Append(<<>>, c), <<>>)
    BY PlainIsTaken DEF NothingRead
  <2>3. Step("read", Reader("word", <<c>>, <<>>), Space) = Reader("space", <<>>, Append(<<>>, <<c>>))
    BY SpaceEndsWord
  <2>4. Append(<<>>, c) = <<c>> /\ Append(<<>>, <<c>>) = total
    BY AppendToEmpty, Zenon
  <2>5. QED
    BY <2>1, <2>2, <2>3, <2>4, Zenon
<1> DEFINE heard == WithoutNul(text)
<1>3. Append(total, heard) = <<<<c>>, heard>>
  <2>1. Append(total, heard) = total \o <<heard>>
    BY <1>1, AppendingIsConcat
  <2>2. total \o <<heard>> = <<<<c>>, heard>>
    BY TwoFacts, Zenon
  <2>3. QED
    BY <2>1, <2>2, Zenon
<1> HIDE DEF front, total
<1>4. IsSequence(q) /\ IsClean(After("read", Reader("space", <<>>, total), q), Append(total, heard))
  BY <1>1, ReadOneMore
<1> HIDE DEF q, heard
<1>5. IsSequence(front \o q) /\ After("read", NothingRead, front \o q) = After("read", Reader("space", <<>>, total), q)
  BY <1>1, <1>2, <1>4, AfterConcat, ConcatIsSequence
<1>6. Words(front \o q) = Append(total, heard)
  BY <1>4, <1>5, WordsOfClean
<1>7. QED
  BY <1>3, <1>6 DEF front, q, heard

-----------------------------------------------------------------------------
(* The shell splits name and value at the first = *)

\* What is left of a sequence from some place on.
LEMMA SuffixFacts ==
  ASSUME NEW s, IsSequence(s), NEW m \in 1..(Len(s) + 1)
  PROVE  /\ IsSequence(SubSeq(s, m, Len(s))) /\ Len(SubSeq(s, m, Len(s))) = Len(s) - m + 1
         /\ \A i \in 1..(Len(s) - m + 1) : SubSeq(s, m, Len(s))[i] = s[m + i - 1]
<1> DEFINE S == {s[i] : i \in 1..Len(s)}
           n == Len(s)
<1>1. n \in Nat /\ s \in Seq(S) /\ \A i \in 1..n : s[i] \in S
  BY SequenceIsSeq
<1> HIDE DEF S, n
<1>2. m \in Int /\ n \in Int /\ m <= n + 1 /\ 1 <= m
  BY <1>1 DEF n
<1>3. \A i \in m..n : s[i] \in S
  BY <1>1, <1>2
<1>4. /\ SubSeq(s, m, n) \in Seq(S)
      /\ Len(SubSeq(s, m, n)) = IF m <= n THEN n - m + 1 ELSE 0
      /\ \A i \in 1..(n - m + 1) : SubSeq(s, m, n)[i] = s[m + i - 1]
  BY <1>1, <1>2, <1>3, SubSeqProperties
<1>5. Len(SubSeq(s, m, n)) = n - m + 1
  BY <1>2, <1>4
<1>6. IsSequence(SubSeq(s, m, n))
  BY <1>4, SeqIsSequence
<1>7. QED
  BY <1>4, <1>5, <1>6 DEF n

\* A concatenation can be taken apart again.
LEMMA SplitConcat ==
  ASSUME NEW s, NEW t, IsSequence(s), IsSequence(t)
  PROVE  /\ SubSeq(s \o t, 1, Len(s)) = s
         /\ SubSeq(s \o t, Len(s) + 1, Len(s \o t)) = t
<1> DEFINE u == s \o t
           n == Len(s)
           m == Len(t)
           a == SubSeq(u, 1, n)
           b == SubSeq(u, n + 1, Len(u))
<1>1. IsConcat(u, s, t) /\ n \in Nat /\ m \in Nat
  <2>1. IsConcat(u, s, t)
    BY ConcatFacts, Zenon
  <2>2. QED
    BY <2>1 DEF IsSequence
<1> HIDE DEF u, n, m
<1>2. IsSequence(u) /\ Len(u) = n + m
  BY <1>1 DEF IsConcat, n, m
<1>3. n \in 0..Len(u) /\ n + 1 \in 1..(Len(u) + 1) /\ Len(u) - (n + 1) + 1 = m
  BY <1>1, <1>2
<1>4. IsSequence(a) /\ Len(a) = n /\ \A i \in 1..n : a[i] = u[i]
  BY <1>2, <1>3, PrefixFacts
<1>5. IsSequence(b) /\ Len(b) = m /\ \A i \in 1..m : b[i] = u[n + 1 + i - 1]
  <2> DEFINE m1 == n + 1
             length == Len(u) - m1 + 1
  <2>1. m1 \in 1..(Len(u) + 1) /\ length = m
    BY <1>3
  <2>2. /\ IsSequence(SubSeq(u, m1, Len(u))) /\ Len(SubSeq(u, m1, Len(u))) = length
        /\ \A i \in 1..length : SubSeq(u, m1, Len(u))[i] = u[m1 + i - 1]
    <3> HIDE DEF m1
    <3>1. QED
      BY <1>2, <2>1, SuffixFacts
  <2>3. QED
    BY <2>1, <2>2
<1>6. a = s
  <2>1. \A i \in 1..n : u[i] = s[i]
    BY <1>1 DEF IsConcat, n
  <2> HIDE DEF a
  <2>2. \A i \in 1..Len(a) : a[i] = s[i]
    BY <1>4, <2>1
  <2>3. QED
    BY <1>4, <2>2, SameSequence DEF n
<1>7. b = t
  <2>1. \A i \in 1..m : u[n + i] = t[i]
    BY <1>1 DEF IsConcat, n, m
  <2> HIDE DEF b
  <2>2. \A i \in 1..m : n + 1 + i - 1 = n + i
    BY <1>1
  <2>3. \A i \in 1..Len(b) : b[i] = t[i]
    BY <1>5, <2>1, <2>2
  <2>4. QED
    BY <1>5, <2>3, SameSequence DEF m
<1>8. QED
  BY <1>6, <1>7 DEF a, b, u, n

SplitsAtEquals(word, name, text) ==
  LET end == CHOOSE i \in DOMAIN word :
               word[i] = Equals /\ \A j \in 1..(i - 1) : word[j] # Equals
  IN /\ SubSeq(word, 1, end - 1) = name
     /\ SubSeq(word, end + 1, Len(word)) = text

\* What cannot be part of a name ends it: the first = is the one after it.
LEMMA FirstEquals ==
  ASSUME NEW name, IsSequence(name), IsValidShellVariableName(name), NEW text, IsSequence(text)
  PROVE  SplitsAtEquals(name \o <<Equals>> \o text, name, text)
<1> DEFINE one == <<Equals>>
           front == name \o one
           word == front \o text
           n == Len(name)
           First(i) == word[i] = Equals /\ \A j \in 1..(i - 1) : word[j] # Equals
           end == CHOOSE i \in DOMAIN word : First(i)
<1>1. IsSequence(one) /\ Len(one) = 1 /\ one[1] = Equals
  BY OneIsSequence, Zenon
<1>2. n \in Nat /\ DOMAIN name = 1..n
  BY SequenceIsSeq
<1>3. \A i \in 1..n : name[i] # Equals
  BY <1>2 DEF IsValidShellVariableName
<1> HIDE DEF one, n
<1>4. IsConcat(front, name, one)
  BY <1>1, ConcatFacts
<1>5. IsSequence(front) /\ Len(front) = n + 1 /\ (\A i \in 1..n : front[i] = name[i]) /\ front[n + 1] = Equals
  <2>1. 1 \in 1..Len(one)
    BY <1>1
  <2> HIDE DEF front
  <2>2. QED
    BY <1>1, <1>4, <2>1 DEF IsConcat, n
<1>6. SubSeq(front, 1, n) = name
  BY <1>1, SplitConcat DEF n
<1> HIDE DEF front
<1>7. IsConcat(word, front, text)
  BY <1>5, ConcatFacts
<1>8. SubSeq(word, n + 2, Len(word)) = text
  <2>1. SubSeq(word, Len(front) + 1, Len(word)) = text
    BY <1>5, SplitConcat
  <2>2. Len(front) + 1 = n + 2
    BY <1>2, <1>5
  <2>3. QED
    BY <2>1, <2>2
<1>9. SubSeq(word, 1, n) = name
  <2>1. SubSeq(word, 1, Len(front)) = front
    BY <1>5, SplitConcat
  <2> DEFINE a == SubSeq(word, 1, n)
             b == SubSeq(front, 1, n)
  <2>2. /\ Len(word) = n + 1 + Len(text) /\ Len(text) \in Nat /\ IsSequence(word)
        /\ \A i \in 1..(n + 1) : word[i] = front[i]
    BY <1>5, <1>7 DEF IsConcat
  <2> HIDE DEF word
  <2>3. n \in 0..Len(word) /\ n \in 0..Len(front)
    BY <1>2, <1>5, <2>2
  <2>4. IsSequence(a) /\ Len(a) = n /\ \A i \in 1..n : a[i] = word[i]
    BY <2>2, <2>3, PrefixFacts
  <2>5. IsSequence(b) /\ Len(b) = n /\ \A i \in 1..n : b[i] = front[i]
    BY <1>5, <2>3, PrefixFacts
  <2> HIDE DEF a, b
  <2>6. \A i \in 1..n : i \in 1..(n + 1)
    BY <1>2
  <2>7. \A i \in 1..Len(a) : a[i] = b[i]
    BY <2>2, <2>4, <2>5, <2>6
  <2>8. a = b
    BY <2>4, <2>5, <2>7, SameSequence
  <2>9. QED
    BY <1>6, <2>8 DEF a, b
<1>10. /\ IsSequence(word) /\ Len(word) = n + 1 + Len(text) /\ Len(text) \in Nat
       /\ word[n + 1] = Equals /\ \A i \in 1..n : word[i] # Equals
  <2> HIDE DEF word
  <2>1. \A i \in 1..(n + 1) : word[i] = front[i]
    BY <1>5, <1>7 DEF IsConcat
  <2>2. n + 1 \in 1..(n + 1) /\ \A i \in 1..n : i \in 1..(n + 1)
    BY <1>2
  <2>3. \A i \in 1..n : word[i] # Equals
    BY <1>3, <1>5, <2>1, <2>2
  <2>4. word[n + 1] = Equals
    BY <1>5, <2>1, <2>2
  <2>5. QED
    BY <1>5, <1>7, <2>3, <2>4 DEF IsConcat
<1>11. DOMAIN word = 1..Len(word)
  BY <1>10, SequenceIsSeq
<1> HIDE DEF word
<1>12. n + 1 \in DOMAIN word /\ First(n + 1)
  BY <1>2, <1>10, <1>11
<1>13. \A i \in DOMAIN word : First(i) => i = n + 1
  <2> SUFFICES ASSUME NEW i \in DOMAIN word, First(i), i # n + 1 PROVE FALSE
    OBVIOUS
  <2>1. i \in 1..(n + 1 + Len(text)) /\ word[i] = Equals
    BY <1>10, <1>11
  <2>2. CASE i < n + 1
    BY <1>2, <1>10, <2>1, <2>2
  <2>3. CASE ~(i < n + 1)
    <3>1. n + 1 \in 1..(i - 1)
      BY <1>2, <1>10, <2>1, <2>3
    <3>2. QED
      BY <1>10, <3>1
  <2>4. QED
    BY <2>2, <2>3
<1>14. end = n + 1
  <2>1. end \in DOMAIN word /\ First(end)
    BY <1>12, Zenon
  <2> HIDE DEF end, First
  <2>2. QED
    BY <1>13, <2>1
<1>15. end - 1 = n /\ end + 1 = n + 2
  <2> HIDE DEF end
  <2>1. QED
    BY <1>2, <1>14
<1>16. SubSeq(word, 1, end - 1) = name /\ SubSeq(word, end + 1, Len(word)) = text
  <2> HIDE DEF end
  <2>1. QED
    BY <1>8, <1>9, <1>15
<1>17. QED
  BY <1>16, Zenon DEF SplitsAtEquals, end, First, word, front, one

-----------------------------------------------------------------------------
(* The output is separated *)

Separator(elements, element, quoted, escape, bad) ==
  [elements |-> elements, element |-> element, quoted |-> quoted, escape |-> escape, bad |-> bad]

Collector(elements, element) == Separator(elements, element, FALSE, FALSE, FALSE)

Escaping(elements, element) == Separator(elements, element, FALSE, TRUE, FALSE)

WithElements(st, x) == [st EXCEPT !.elements = x]
WithElement(st, x) == [st EXCEPT !.element = x]
WithEscape(st, x) == [st EXCEPT !.escape = x]
WithBad(st, x) == [st EXCEPT !.bad = x]

\* (The fields that are FALSE or TRUE have names, for the provers.)
LEMMA ElementsAreSet ==
  ASSUME NEW es, NEW e, NEW x
  PROVE  WithElements(Collector(es, e), x) = Collector(x, e)
<1>1. \A no : no = FALSE =>
        WithElements(Separator(es, e, no, no, no), x) = Separator(x, e, no, no, no)
  BY DEF WithElements, Separator
<1>2. QED
  BY <1>1, Zenon DEF Collector

LEMMA ElementIsSetNamed ==
  ASSUME NEW es, NEW e, NEW x, NEW no, no = FALSE
  PROVE  WithElement(Separator(es, e, no, no, no), x) = Separator(es, x, no, no, no)
BY DEF WithElement, Separator

LEMMA ElementIsSet ==
  ASSUME NEW es, NEW e, NEW x
  PROVE  WithElement(Collector(es, e), x) = Collector(es, x)
BY ElementIsSetNamed, Zenon DEF Collector

LEMMA EscapeIsSetNamed ==
  ASSUME NEW es, NEW e, NEW no, no = FALSE, NEW yes, yes = TRUE
  PROVE  WithEscape(Separator(es, e, no, no, no), yes) = Separator(es, e, no, yes, no)
<1>1. \A v : WithEscape(Separator(es, e, no, no, no), v) = Separator(es, e, no, v, no)
  BY DEF WithEscape, Separator
<1>2. QED
  BY <1>1

LEMMA EscapeIsSet ==
  ASSUME NEW es, NEW e
  PROVE  WithEscape(Collector(es, e), TRUE) = Escaping(es, e)
BY EscapeIsSetNamed, Zenon DEF Collector, Escaping

LEMMA EscapeIsResetNamed ==
  ASSUME NEW es, NEW e, NEW no, no = FALSE, NEW yes, yes = TRUE
  PROVE  WithEscape(Separator(es, e, no, yes, no), no) = Separator(es, e, no, no, no)
BY DEF WithEscape, Separator

LEMMA EscapeIsReset ==
  ASSUME NEW es, NEW e
  PROVE  WithEscape(Escaping(es, e), FALSE) = Collector(es, e)
BY EscapeIsResetNamed, Zenon DEF Collector, Escaping

LEMMA BadIsKeptNamed ==
  ASSUME NEW es, NEW e, NEW no, no = FALSE
  PROVE  WithBad(Separator(es, e, no, no, no), no) = Separator(es, e, no, no, no)
BY DEF WithBad, Separator

LEMMA BadIsKept ==
  ASSUME NEW es, NEW e
  PROVE  WithBad(Collector(es, e), FALSE) = Collector(es, e)
BY BadIsKeptNamed, Zenon DEF Collector

LEMMA CollectorIsRead ==
  ASSUME NEW es, NEW e
  PROVE  /\ Collector(es, e).elements = es /\ Collector(es, e).element = e
         /\ ~Collector(es, e).quoted /\ ~Collector(es, e).escape /\ ~Collector(es, e).bad
BY DEF Collector, Separator

LEMMA EscapingIsRead ==
  ASSUME NEW es, NEW e
  PROVE  /\ Escaping(es, e).element = e
         /\ Escaping(es, e).escape /\ ~Escaping(es, e).bad
BY DEF Escaping, Separator

\* A character without a meaning is part of the element.
LEMMA PlainIsCollected ==
  ASSUME NEW es, NEW e, NEW c, c \notin {Backslash, DoubleQuote, Space}
  PROVE  Step("separate", Collector(es, e), c) = Collector(es, Append(e, c))
<1> DEFINE st == Collector(es, e)
<1>1. st.element = e /\ ~st.escape /\ ~st.quoted
  BY CollectorIsRead
<1>2. c # Backslash /\ c # DoubleQuote /\ c # Space
  OBVIOUS
<1> HIDE DEF st
<1>3. SeparatorStep(st, c) = WithElement(st, Append(e, c))
  BY <1>1, <1>2, Zenon DEF SeparatorStep, WithElement
<1>4. Step("separate", st, c) = SeparatorStep(st, c)
  BY DEF Step
<1>5. QED
  BY <1>3, <1>4, ElementIsSet, Zenon DEF st

\* A backslash waits for the next character,
LEMMA BackslashWaits ==
  ASSUME NEW es, NEW e
  PROVE  Step("separate", Collector(es, e), Backslash) = Escaping(es, e)
<1> DEFINE st == Collector(es, e)
<1>1. ~st.escape
  BY CollectorIsRead
<1> HIDE DEF st
<1>2. SeparatorStep(st, Backslash) = WithEscape(st, TRUE)
  BY <1>1, Zenon DEF SeparatorStep, WithEscape
<1>3. Step("separate", st, Backslash) = SeparatorStep(st, Backslash)
  BY DEF Step
<1>4. QED
  BY <1>2, <1>3, EscapeIsSet, Zenon DEF st

\* A space ends the element.
LEMMA SpaceSeparates ==
  ASSUME NEW es, NEW e
  PROVE  Step("separate", Collector(es, e), Space) = Collector(Append(es, e), <<>>)
<1> DEFINE st == Collector(es, e)
           v == Append(es, e)
<1>1. st.element = e /\ st.elements = es /\ ~st.escape /\ ~st.quoted
  BY CollectorIsRead
<1>2. Space # Backslash /\ Space # DoubleQuote
  BY DEF Space, Backslash, DoubleQuote
<1> HIDE DEF st
<1>3. SeparatorStep(st, Space) = [st EXCEPT !.elements = v, !.element = <<>>]
  BY <1>1, <1>2, Zenon DEF SeparatorStep
<1>4. Step("separate", st, Space) = SeparatorStep(st, Space)
  BY DEF Step
<1> HIDE DEF v
<1>5. [st EXCEPT !.elements = v, !.element = <<>>] = WithElement(WithElements(st, v), <<>>)
  BY DEF WithElement, WithElements
<1>6. WithElements(st, v) = Collector(v, e) /\ WithElement(Collector(v, e), <<>>) = Collector(v, <<>>)
  BY ElementsAreSet, ElementIsSet DEF st
<1>7. QED
  BY <1>3, <1>4, <1>5, <1>6, Zenon DEF st, v

Unescaped(c) == IF c = LetterN THEN Newline ELSE c

\* which is then part of the element.
LEMMA EscapedIsCollected ==
  ASSUME NEW es, NEW e, NEW c, c \in {LetterN, DoubleQuote, Space, Backslash}
  PROVE  Step("separate", Escaping(es, e), c) = Collector(es, Append(e, Unescaped(c)))
<1> DEFINE st == Escaping(es, e)
           v == Append(e, Unescaped(c))
<1>1. st.element = e /\ st.escape /\ ~st.bad
  BY EscapingIsRead
<1>2. (st.bad \/ c \notin {LetterN, DoubleQuote, Space, Backslash}) = FALSE
  BY <1>1
<1> HIDE DEF st
<1>3. SeparatorStep(st, c) = [st EXCEPT !.escape = FALSE, !.bad = FALSE, !.element = v]
  BY <1>1, <1>2, Zenon DEF SeparatorStep, Unescaped
<1>4. Step("separate", st, c) = SeparatorStep(st, c)
  BY DEF Step
<1> HIDE DEF v
<1>5. [st EXCEPT !.escape = FALSE, !.bad = FALSE, !.element = v] =
        WithElement(WithBad(WithEscape(st, FALSE), FALSE), v)
  BY DEF WithElement, WithBad, WithEscape
<1>6. WithElement(WithBad(WithEscape(st, FALSE), FALSE), v) = Collector(es, v)
  <2>1. WithEscape(st, FALSE) = Collector(es, e)
    BY EscapeIsReset DEF st
  <2>2. WithBad(Collector(es, e), FALSE) = Collector(es, e)
    BY BadIsKept
  <2>3. WithElement(Collector(es, e), v) = Collector(es, v)
    BY ElementIsSet
  <2>4. QED
    BY <2>1, <2>2, <2>3, Zenon
<1>7. QED
  BY <1>3, <1>4, <1>5, <1>6, Zenon DEF st, v

-----------------------------------------------------------------------------
(* A printed list comes back *)

PrintedCharacter(c) ==
  IF c = Newline THEN <<Backslash, LetterN>>
  ELSE IF c \in {Space, DoubleQuote, Backslash} THEN <<Backslash, c>>
  ELSE <<c>>

\* Both together are one character of the element.
LEMMA CollectEscaped ==
  ASSUME NEW es, NEW e, NEW c, c \in {LetterN, DoubleQuote, Space, Backslash}
  PROVE  After("separate", Collector(es, e), <<Backslash, c>>) = Collector(es, Append(e, Unescaped(c)))
<1>1. After("separate", Collector(es, e), <<Backslash, c>>) =
        Step("separate", Step("separate", Collector(es, e), Backslash), c)
  BY AfterTwo
<1>2. Step("separate", Collector(es, e), Backslash) = Escaping(es, e)
  BY BackslashWaits
<1>3. Step("separate", Escaping(es, e), c) = Collector(es, Append(e, Unescaped(c)))
  BY EscapedIsCollected
<1>4. QED
  BY <1>1, <1>2, <1>3

\* What is printed for a character is collected as that character.
LEMMA CollectCharacter ==
  ASSUME NEW c, NEW es, NEW e
  PROVE  /\ IsSequence(PrintedCharacter(c))
         /\ After("separate", Collector(es, e), PrintedCharacter(c)) = Collector(es, Append(e, c))
<1>1. CASE c = Newline
  <2>1. PrintedCharacter(c) = <<Backslash, LetterN>>
    BY <1>1 DEF PrintedCharacter
  <2>2. LetterN \in {LetterN, DoubleQuote, Space, Backslash} /\ Unescaped(LetterN) = c
    BY <1>1 DEF Unescaped
  <2>3. IsSequence(<<Backslash, LetterN>>)
    BY TwoFacts, Zenon
  <2>4. QED
    BY <2>1, <2>2, <2>3, CollectEscaped
<1>2. CASE c # Newline /\ c \in {Space, DoubleQuote, Backslash}
  <2>1. PrintedCharacter(c) = <<Backslash, c>>
    BY <1>2 DEF PrintedCharacter
  <2>2. c \in {LetterN, DoubleQuote, Space, Backslash} /\ Unescaped(c) = c
    BY <1>2 DEF Unescaped, LetterN, Space, DoubleQuote, Backslash
  <2>3. IsSequence(<<Backslash, c>>)
    BY TwoFacts, Zenon
  <2>4. QED
    BY <2>1, <2>2, <2>3, CollectEscaped
<1>3. CASE c # Newline /\ c \notin {Space, DoubleQuote, Backslash}
  <2>1. PrintedCharacter(c) = <<c>>
    BY <1>3, Zenon DEF PrintedCharacter
  <2>2. After("separate", Collector(es, e), <<c>>) = Step("separate", Collector(es, e), c)
    BY AfterOne
  <2>3. c \notin {Backslash, DoubleQuote, Space}
    BY <1>3
  <2>4. Step("separate", Collector(es, e), c) = Collector(es, Append(e, c))
    BY <2>3, PlainIsCollected
  <2>5. IsSequence(<<c>>)
    BY OneIsSequence
  <2>6. QED
    BY <2>1, <2>2, <2>4, <2>5
<1>4. QED
  BY <1>1, <1>2, <1>3

\* An element that was printed is collected as it is.
\* What is printed for an element is collected as that element.
LEMMA CollectElement ==
  ASSUME NEW text, IsSequence(text), NEW w, IsSequence(w), NEW es
  PROVE  /\ IsSequence(PrintedElement(text))
         /\ After("separate", Collector(es, w), PrintedElement(text)) = Collector(es, w \o text)
<1> DEFINE n == Len(text)
           seqs == [i \in 1..n |-> PrintedCharacter(text[i])]
           u == FlattenSeq(seqs)
<1>1. n \in Nat /\ DOMAIN text = 1..n
  BY SequenceIsSeq
<1>2. PrintedElement(text) = u
  <2>1. PrintedElement(text) = FlattenSeq([i \in DOMAIN text |-> PrintedCharacter(text[i])])
    BY Zenon DEF PrintedElement, PrintedCharacter
  <2>2. QED
    BY <1>1, <2>1, Zenon
<1>3. \A i \in 1..n : seqs[i] = PrintedCharacter(text[i])
  OBVIOUS
<1>4. IsSequence(seqs) /\ Len(seqs) = n
  <2>1. seqs = [i \in 1..n |-> seqs[i]]
    OBVIOUS
  <2> HIDE DEF seqs, n
  <2>2. QED
    BY <1>1, <2>1, FunctionIsSequence
<1> HIDE DEF seqs
<1>5. \A i \in 1..Len(seqs) : IsSequence(seqs[i])
  BY <1>3, <1>4, CollectCharacter
<1>6. IsSequence(u)
  BY <1>4, <1>5, FlattenIsSequence
<1>7. PICK f : IsFlattened(f, seqs, u)
  BY <1>4, <1>5, FlattenFacts
<1> HIDE DEF u
<1> DEFINE at(i) == After("separate", Collector(es, w), f[i])
           P == {i \in 0..n : at(i) = Collector(es, w \o SubSeq(text, 1, i))}
<1>8. at(0) = Collector(es, w) /\ \A i \in 1..n : at(i) = After("separate", at(i - 1), seqs[i])
  <2> DEFINE first == Collector(es, w)
  <2> HIDE DEF first
  <2>1. FoldsOver("separate", first, f, seqs)
    BY <1>5, <1>7, FoldFlattened, Zenon
  <2>2. QED
    BY <1>4, <2>1 DEF first, FoldsOver
<1> HIDE DEF at
<1>9. 0 \in P
  <2>1. w \o SubSeq(text, 1, 0) = w
    BY NothingAndAll, EmptyConcat
  <2>2. at(0) = Collector(es, w \o SubSeq(text, 1, 0))
    BY <1>8, <2>1, Zenon
  <2>3. 0 \in 0..n
    BY <1>1
  <2>4. QED
    BY <2>2, <2>3, Zenon
<1>10. ASSUME NEW i \in 1..n, i - 1 \in P PROVE i \in P
  <2> DEFINE v == w \o SubSeq(text, 1, i - 1)
  <2>1. at(i - 1) = Collector(es, v)
    BY <1>10
  <2>2. Append(v, text[i]) = w \o SubSeq(text, 1, i)
    BY GrowByOne
  <2> HIDE DEF v
  <2>3. After("separate", Collector(es, v), seqs[i]) = Collector(es, Append(v, text[i]))
    BY <1>3, CollectCharacter
  <2>4. at(i) = Collector(es, w \o SubSeq(text, 1, i))
    BY <1>8, <2>1, <2>2, <2>3
  <2>5. i \in 0..n
    BY <1>1
  <2>6. QED
    BY <2>4, <2>5
<1>11. at(n) = Collector(es, w \o text)
  <2>1. n \in P
    <3> HIDE DEF P, n
    <3>1. QED
      BY <1>1, <1>9, <1>10, UpTo
  <2>2. SubSeq(text, 1, n) = text
    BY NothingAndAll
  <2>3. QED
    BY <2>1, <2>2
<1>12. f[n] = u
  BY <1>4, <1>7 DEF IsFlattened
<1>13. QED
  BY <1>2, <1>6, <1>11, <1>12 DEF at

NothingCollected == Collector(<<>>, <<>>)

\* What was collected is the list: all but its last element is separated.
\* What is printed for a list is collected as its elements; the last one is
\* not ended.
LEMMA CollectList ==
  ASSUME NEW list, IsSequence(list), \A i \in 1..Len(list) : IsSequence(list[i])
  PROVE  /\ IsSequence(Printed(list))
         /\ Len(list) # 0 =>
              After("separate", NothingCollected, Printed(list)) =
                Collector(SubSeq(list, 1, Len(list) - 1), list[Len(list)])
<1> DEFINE n == Len(list)
           lead(i) == IF i = 1 THEN <<>> ELSE <<Space>>
           seqs == [i \in 1..n |-> lead(i) \o PrintedElement(list[i])]
           u == FlattenSeq(seqs)
<1>1. n \in Nat /\ DOMAIN list = 1..n
  BY SequenceIsSeq
<1>2. Printed(list) = u
  BY <1>1, Zenon DEF Printed
<1>3. \A i \in 1..n : seqs[i] = lead(i) \o PrintedElement(list[i])
  OBVIOUS
<1>4. IsSequence(seqs) /\ Len(seqs) = n
  <2>1. seqs = [i \in 1..n |-> seqs[i]]
    OBVIOUS
  <2> HIDE DEF seqs, n
  <2>2. QED
    BY <1>1, <2>1, FunctionIsSequence
<1> HIDE DEF seqs
<1>5. \A i \in 1..n : IsSequence(PrintedElement(list[i])) /\ IsSequence(lead(i))
  BY CollectElement, EmptyIsSequence, OneIsSequence
<1>6. \A i \in 1..Len(seqs) : IsSequence(seqs[i])
  <2> SUFFICES ASSUME NEW i \in 1..n PROVE IsSequence(seqs[i])
    BY <1>4
  <2> DEFINE a == lead(i)
             b == PrintedElement(list[i])
  <2>1. seqs[i] = a \o b /\ IsSequence(a) /\ IsSequence(b)
    BY <1>3, <1>5
  <2> HIDE DEF a, b
  <2>2. QED
    BY <2>1, ConcatIsSequence
<1>7. IsSequence(u)
  BY <1>4, <1>6, FlattenIsSequence
<1>8. PICK f : IsFlattened(f, seqs, u)
  BY <1>4, <1>6, FlattenFacts
<1> HIDE DEF u
<1> DEFINE at(i) == After("separate", NothingCollected, f[i])
           so(i) == SubSeq(list, 1, i)
           P == {i \in 0..n : i # 0 => at(i) = Collector(so(i - 1), list[i])}
<1>9. at(0) = NothingCollected /\ \A i \in 1..n : at(i) = After("separate", at(i - 1), seqs[i])
  <2>1. FoldsOver("separate", NothingCollected, f, seqs)
    BY <1>6, <1>8, FoldFlattened, Zenon
  <2>2. QED
    BY <1>4, <2>1 DEF FoldsOver
<1>10. so(0) = <<>> /\ \A i \in 1..n : so(i) = Append(so(i - 1), list[i])
  <2>1. \A i \in 0..n : IsSequence(so(i))
    BY PrefixFacts
  <2>2. ASSUME NEW i \in 1..n PROVE so(i) = Append(so(i - 1), list[i])
    <3>1. Append(<<>> \o SubSeq(list, 1, i - 1), list[i]) = <<>> \o SubSeq(list, 1, i)
      BY EmptyIsSequence, GrowByOne
    <3>2. i \in 0..n /\ i - 1 \in 0..n
      BY <1>1
    <3>3. <<>> \o SubSeq(list, 1, i - 1) = SubSeq(list, 1, i - 1) /\ <<>> \o SubSeq(list, 1, i) = SubSeq(list, 1, i)
      BY <2>1, <3>2, EmptyConcat
    <3>4. QED
      BY <3>1, <3>3, Zenon
  <2>3. QED
    BY <2>2, NothingAndAll
<1> HIDE DEF at, so
<1>11. 0 \in P
  BY <1>1
<1>12. ASSUME NEW i \in 1..n, i - 1 \in P PROVE i \in P
  <2> DEFINE text == PrintedElement(list[i])
             es == so(i - 1)
  <2>1. i \in 0..n /\ i # 0 /\ i - 1 \in P
    BY <1>1, <1>12
  <2>2. IsSequence(text) /\ After("separate", Collector(es, <<>>), text) = Collector(es, list[i])
    <3>1. IsSequence(list[i]) /\ IsSequence(<<>>) /\ <<>> \o list[i] = list[i]
      BY EmptyIsSequence, EmptyConcat
    <3> HIDE DEF es
    <3>2. QED
      BY <3>1, CollectElement
  <2>3. CASE i = 1
    <3>1. seqs[i] = <<>> \o text
      BY <1>3, <2>3
    <3>2. at(i) = After("separate", at(0), text)
      <4>1. i - 1 = 0
        BY <2>3
      <4>2. <<>> \o text = text
        BY <2>2, EmptyConcat
      <4>3. at(i) = After("separate", at(i - 1), seqs[i])
        BY <1>9
      <4>4. QED
        BY <3>1, <4>1, <4>2, <4>3
    <3>3. at(0) = Collector(es, <<>>)
      <4>1. i - 1 = 0
        BY <2>3
      <4>2. es = <<>>
        BY <1>10, <4>1
      <4>3. QED
        BY <1>9, <4>2, Zenon DEF NothingCollected
    <3>4. QED
      BY <2>1, <2>2, <3>2, <3>3
  <2>4. CASE i # 1
    <3>1. i - 1 # 0 /\ i - 1 \in 1..n
      BY <1>1, <2>4
    <3>2. at(i - 1) = Collector(so(i - 1 - 1), list[i - 1])
      BY <2>1, <3>1
    <3>3. Append(so(i - 1 - 1), list[i - 1]) = es
      BY <1>10, <3>1
    <3>4. Step("separate", at(i - 1), Space) = Collector(es, <<>>)
      BY <3>2, <3>3, SpaceSeparates
    <3>5. seqs[i] = <<Space>> \o text
      BY <1>3, <2>4
    <3>6. at(i) = After("separate", at(i - 1), <<Space>> \o text)
      BY <1>9, <3>5
    <3> DEFINE st == at(i - 1)
    <3> HIDE DEF text, es, st
    <3>7. After("separate", st, <<Space>> \o text) = After("separate", Step("separate", st, Space), text)
      BY <2>2, AfterFirst
    <3>8. at(i) = Collector(es, list[i])
      BY <2>2, <3>4, <3>6, <3>7 DEF st
    <3>9. QED
      BY <2>1, <3>8 DEF es
  <2>5. QED
    BY <2>3, <2>4
<1>13. n # 0 => at(n) = Collector(so(n - 1), list[n])
  <2>1. n \in P
    <3> HIDE DEF P, n
    <3>1. QED
      BY <1>1, <1>11, <1>12, UpTo
  <2>2. QED
    BY <2>1
<1>14. f[n] = u
  BY <1>4, <1>8 DEF IsFlattened
<1>15. QED
  BY <1>2, <1>7, <1>13, <1>14 DEF at, so

-----------------------------------------------------------------------------
(* What the output is converted to *)

\* Separating a text is folding it.
LEMMA SeparateIsAfter ==
  ASSUME NEW text, IsSequence(text)
  PROVE  Separate(text) = After("separate", NothingCollected, text)
<1> DEFINE first == [elements |-> <<>>, element |-> <<>>, quoted |-> FALSE,
                     escape |-> FALSE, bad |-> FALSE]
<1>1. Separate(text) = Folded(SeparatorStep, first, text)
  BY Zenon DEF Separate
<1>2. first = NothingCollected
  BY Zenon DEF NothingCollected, Collector, Separator
<1> HIDE DEF first
<1>3. Folded(SeparatorStep, first, text) = After("separate", first, text)
  BY SeparatingIsAfter, Zenon
<1>4. QED
  BY <1>1, <1>2, <1>3, Zenon

LEMMA FlattenNothing ==
  ASSUME NEW seqs, IsSequence(seqs), Len(seqs) = 0
  PROVE  seqs = <<>> /\ FlattenSeq(seqs) = <<>>
<1>1. seqs = <<>>
  BY EmptyIsSequence, SameSequence
<1>2. FlattenSeq(seqs) = seqs
  BY Zenon DEF FlattenSeq
<1>3. QED
  BY <1>1, <1>2, Zenon

LEMMA FlattenOne ==
  ASSUME NEW seqs, IsSequence(seqs), Len(seqs) = 1, IsSequence(seqs[1])
  PROVE  FlattenSeq(seqs) = seqs[1]
<1> DEFINE u == FlattenSeq(seqs)
<1>1. \A i \in 1..Len(seqs) : IsSequence(seqs[i])
  OBVIOUS
<1>2. PICK f : IsFlattened(f, seqs, u)
  BY <1>1, FlattenFacts
<1> HIDE DEF u
<1>3. f[0] = <<>> /\ f[1] = f[1 - 1] \o seqs[1] /\ f[1] = u
  <2>1. 1 \in 1..Len(seqs)
    OBVIOUS
  <2>2. QED
    BY <1>2, <2>1 DEF IsFlattened
<1>4. u = <<>> \o seqs[1]
  <2>1. 1 - 1 = 0
    OBVIOUS
  <2>2. QED
    BY <1>3, <2>1, Zenon
<1>5. QED
  BY <1>4, EmptyConcat DEF u

\* Nothing, and one empty text, are printed alike.
LEMMA NothingIsPrinted == Printed(<<>>) = <<>> /\ Printed(<<<<>>>>) = <<>>
<1>1. PrintedElement(<<>>) = <<>>
  <2> DEFINE seqs == [i \in DOMAIN <<>> |-> PrintedCharacter(<<>>[i])]
  <2>1. DOMAIN <<>> = 1..0
    OBVIOUS
  <2>2. seqs = [i \in 1..0 |-> seqs[i]]
    BY <2>1
  <2>3. PrintedElement(<<>>) = FlattenSeq(seqs)
    BY Zenon DEF PrintedElement, PrintedCharacter
  <2> HIDE DEF seqs
  <2>4. IsSequence(seqs) /\ Len(seqs) = 0
    BY <2>2, FunctionIsSequence
  <2>5. QED
    BY <2>3, <2>4, FlattenNothing
<1>2. Printed(<<>>) = <<>>
  <2> DEFINE element(i) == (IF i = 1 THEN <<>> ELSE <<Space>>) \o PrintedElement(<<>>[i])
             seqs == [i \in DOMAIN <<>> |-> element(i)]
  <2>1. Printed(<<>>) = FlattenSeq(seqs)
    BY Zenon DEF Printed
  <2> HIDE DEF element
  <2>2. DOMAIN <<>> = 1..0
    OBVIOUS
  <2>3. seqs = [i \in 1..0 |-> seqs[i]]
    BY <2>2
  <2> HIDE DEF seqs
  <2>4. IsSequence(seqs) /\ Len(seqs) = 0
    BY <2>3, FunctionIsSequence
  <2>5. QED
    BY <2>1, <2>4, FlattenNothing
<1>3. Printed(<<<<>>>>) = <<>>
  <2> DEFINE list == <<<<>>>>
             element(i) == (IF i = 1 THEN <<>> ELSE <<Space>>) \o PrintedElement(list[i])
             seqs == [i \in DOMAIN list |-> element(i)]
  <2>1. Printed(list) = FlattenSeq(seqs)
    BY Zenon DEF Printed
  <2>2. list[1] = <<>> /\ DOMAIN list = 1..1
    OBVIOUS
  <2>3. element(1) = <<>> \o <<>>
    BY <1>1, <2>2
  <2>4. element(1) = <<>>
    BY <2>3, EmptyIsSequence, EmptyConcat, Zenon
  <2> HIDE DEF list, element
  <2>5. seqs = [i \in 1..1 |-> seqs[i]] /\ seqs[1] = element(1)
    BY <2>2
  <2> HIDE DEF seqs
  <2>6. IsSequence(seqs) /\ Len(seqs) = 1 /\ IsSequence(seqs[1])
    BY <2>4, <2>5, FunctionIsSequence, EmptyIsSequence
  <2>7. Printed(list) = <<>>
    BY <2>1, <2>4, <2>5, <2>6, FlattenOne
  <2>8. QED
    BY <2>7 DEF list
<1>4. QED
  BY <1>2, <1>3

\* (A record with a name, for the provers.)
Typed(type, it) == [type |-> type, it |-> it]

\* The last element is one of the vector, unless nothing was printed.
LEMMA VectorOfCollected ==
  ASSUME NEW text, NEW es, NEW e, Separate(text) = Collector(es, e)
  PROVE  ConvertFromShellString("vector", text) =
           {Typed("vector", IF text = <<>> THEN <<>> ELSE es \o <<e>>)}
<1> DEFINE st == Separate(text)
<1>1. ~st.bad /\ ~st.escape /\ st.elements = es /\ st.element = e
  BY CollectorIsRead
<1> HIDE DEF st
<1>2. ConvertFromShellString("vector", text) =
        IF st.bad \/ st.escape THEN {Threw}
        ELSE {[type |-> "vector", it |-> IF text = <<>> THEN <<>> ELSE st.elements \o LastElement(st)]}
  BY DEF ConvertFromShellString, st
<1>3. LastElement(st) = <<e>>
  BY <1>1, Zenon DEF LastElement
<1>4. QED
  BY <1>1, <1>2, <1>3, Zenon DEF Typed

\* A list that was printed is converted to that list, but for that of one
\* empty text.
LEMMA ListIsReturned ==
  ASSUME NEW list, IsSequence(list), \A i \in 1..Len(list) : IsSequence(list[i])
  PROVE  /\ IsSequence(Printed(list))
         /\ ConvertFromShellString("vector", Printed(list)) =
              {Typed("vector", IF list = <<<<>>>> THEN <<>> ELSE list)}
<1> DEFINE n == Len(list)
           text == Printed(list)
           front == SubSeq(list, 1, n - 1)
           result == IF list = <<<<>>>> THEN <<>> ELSE list
<1>1. n \in Nat
  BY DEF IsSequence
<1>2. IsSequence(text) /\ (n # 0 => After("separate", NothingCollected, text) = Collector(front, list[n]))
  BY CollectList
<1>3. Separate(text) = After("separate", NothingCollected, text)
  BY <1>2, SeparateIsAfter
<1>4. CASE n = 0
  <2>1. list = <<>>
    BY <1>4, EmptyIsSequence, SameSequence
  <2>2. text = <<>>
    BY <2>1, NothingIsPrinted
  <2>3. Separate(text) = Collector(<<>>, <<>>)
    BY <1>3, <2>2, AfterNothing, Zenon DEF NothingCollected
  <2>4. ConvertFromShellString("vector", text) = {Typed("vector", <<>>)}
    BY <2>2, <2>3, VectorOfCollected, Zenon
  <2>5. result = <<>>
    BY <2>1
  <2>6. QED
    BY <1>2, <2>4, <2>5
<1>5. CASE n # 0
  <2>1. Separate(text) = Collector(front, list[n])
    BY <1>2, <1>3, <1>5
  <2>2. ConvertFromShellString("vector", text) =
          {Typed("vector", IF text = <<>> THEN <<>> ELSE front \o <<list[n]>>)}
    <3> HIDE DEF text, front, n
    <3>1. QED
      BY <2>1, VectorOfCollected
  <2>3. n - 1 \in 0..n /\ n \in 1..n
    BY <1>1, <1>5
  <2>4. IsSequence(front) /\ Len(front) = n - 1
    BY <2>3, PrefixFacts
  <2>5. CASE text = <<>>
    <3>1. Collector(front, list[n]) = Collector(<<>>, <<>>)
      BY <1>3, <2>1, <2>5, AfterNothing, Zenon DEF NothingCollected
    <3>2. front = <<>> /\ list[n] = <<>>
      <4> HIDE DEF front, n
      <4>1. QED
        BY <3>1, CollectorIsRead
    <3>3. n = 1
      <4>1. Len(front) = 0
        BY <3>2, EmptyIsSequence
      <4>2. Len(front) = n - 1 /\ n \in Nat
        BY <1>1, <2>4
      <4> HIDE DEF front, n
      <4>3. QED
        BY <4>1, <4>2
    <3>4. list = <<<<>>>>
      <4> DEFINE one == <<<<>>>>
      <4>1. IsSequence(one) /\ Len(one) = 1 /\ one[1] = <<>>
        BY OneIsSequence, Zenon
      <4> HIDE DEF one
      <4>2. list = one
        BY <3>2, <3>3, <4>1, SameSequence
      <4>3. QED
        BY <4>2 DEF one
    <3>5. QED
      BY <1>2, <2>2, <2>5, <3>4
  <2>6. CASE text # <<>>
    <3>1. list # <<<<>>>>
      BY <2>6, NothingIsPrinted
    <3>2. front \o <<list[n]>> = list
      <4>1. Append(<<>> \o front, list[n]) = <<>> \o SubSeq(list, 1, n)
        BY <2>3, EmptyIsSequence, GrowByOne
      <4>2. <<>> \o front = front /\ SubSeq(list, 1, n) = list /\ <<>> \o list = list
        BY <2>4, NothingAndAll, EmptyConcat
      <4>3. Append(front, list[n]) = front \o <<list[n]>>
        BY <2>4, AppendingIsConcat
      <4>4. QED
        BY <4>1, <4>2, <4>3, Zenon
    <3>3. QED
      BY <1>2, <2>2, <2>6, <3>1, <3>2
  <2>7. QED
    BY <2>5, <2>6
<1>6. QED
  BY <1>4, <1>5

\* The separator finds no fault with a text without a backslash.
LEMMA NoBackslashNoFault ==
  ASSUME NEW text, IsSequence(text), \A i \in 1..Len(text) : text[i] # Backslash
  PROVE  ~Separate(text).bad /\ ~Separate(text).escape
<1> DEFINE n == Len(text)
           g == History("separate", NothingCollected, text)
           Fine(st) == /\ ~st.bad /\ ~st.escape
                       /\ DOMAIN st = {"elements", "element", "quoted", "escape", "bad"}
           P == {i \in 0..n : Fine(g[i])}
<1>1. n \in Nat
  BY DEF IsSequence
<1>2. IsFold(g, "separate", NothingCollected, text) /\ Separate(text) = g[n]
  BY HistoryIsFold, SeparateIsAfter, Zenon DEF After
<1> HIDE DEF g
<1>3. g[0] = NothingCollected /\ \A i \in 1..n : g[i] = SeparatorStep(g[i - 1], text[i])
  BY <1>2 DEF IsFold, Step
<1>4. 0 \in P
  <2>1. ~NothingCollected.bad /\ ~NothingCollected.escape
    BY CollectorIsRead DEF NothingCollected
  <2>2. DOMAIN NothingCollected = {"elements", "element", "quoted", "escape", "bad"}
    BY DEF NothingCollected, Collector, Separator
  <2>3. Fine(g[0])
    BY <1>3, <2>1, <2>2
  <2> HIDE DEF Fine
  <2>4. QED
    BY <1>1, <2>3
<1>5. ASSUME NEW i \in 1..n, i - 1 \in P PROVE i \in P
  <2> DEFINE st == g[i - 1]
             c == text[i]
  <2>1. g[i] = SeparatorStep(st, c) /\ c # Backslash /\ i \in 0..n
    BY <1>1, <1>3
  <2>2. Fine(st)
    BY <1>5
  <2> HIDE DEF st, c
  <2>3. ~st.escape /\ ~st.bad
    BY <2>2
  <2>4. CASE c = DoubleQuote
    <3>1. SeparatorStep(st, c) = [st EXCEPT !.quoted = ~st.quoted]
      BY <2>1, <2>3, <2>4, Zenon DEF SeparatorStep
    <3>2. Fine([st EXCEPT !.quoted = ~st.quoted])
      BY <2>2
    <3> HIDE DEF Fine
    <3>3. QED
      BY <2>1, <3>1, <3>2
  <2>5. CASE c # DoubleQuote /\ c = Space /\ ~st.quoted
    <3> DEFINE v == Append(st.elements, st.element)
    <3>1. SeparatorStep(st, c) = [st EXCEPT !.elements = v, !.element = <<>>]
      BY <2>1, <2>3, <2>5, Zenon DEF SeparatorStep
    <3> HIDE DEF v
    <3>2. Fine([st EXCEPT !.elements = v, !.element = <<>>])
      BY <2>2
    <3> HIDE DEF Fine
    <3>3. QED
      BY <2>1, <3>1, <3>2
  <2>6. CASE c # DoubleQuote /\ ~(c = Space /\ ~st.quoted)
    <3> DEFINE v == Append(st.element, c)
    <3>1. SeparatorStep(st, c) = [st EXCEPT !.element = v]
      BY <2>1, <2>3, <2>6, Zenon DEF SeparatorStep
    <3> HIDE DEF v
    <3>2. Fine([st EXCEPT !.element = v])
      BY <2>2
    <3> HIDE DEF Fine
    <3>3. QED
      BY <2>1, <3>1, <3>2
  <2>7. QED
    BY <2>4, <2>5, <2>6
<1>6. n \in P
  <2> HIDE DEF P, n, Fine
  <2>1. \A i \in 0..n : i \in P
    BY <1>1, <1>4, <1>5, UpTo
  <2>2. QED
    BY <1>1, <2>1
<1>7. QED
  BY <1>2, <1>6

-----------------------------------------------------------------------------
(* Results *)

LEMMA ResultFacts ==
  ASSUME NEW type, NEW it
  PROVE  /\ Result(type, it).T = type /\ Result(type, it).E = "CallError"
         /\ Result(type, it).has /\ Result(type, it).holds.it = it
BY DEF Result, Ok, Of

LEMMA FailureFacts ==
  ASSUME NEW type, NEW code
  PROVE  /\ Failure(type, code).T = type /\ Failure(type, code).E = "CallError"
         /\ ~Failure(type, code).has
BY DEF Failure, Fail

LEMMA RequestFacts ==
  ASSUME NEW op, NEW name, NEW type
  PROVE  Request(op, name, type).op = op /\ Request(op, name, type).name = name
         /\ Request(op, name, type).type = type
BY DEF Request

Types == {"void", "text", "number", "vector"}

LEMMA ConvertedVoid ==
  ASSUME NEW text
  PROVE  Converted("void", text) = Result("void", <<>>)
BY DEF Converted

\* (Properties of what was converted, for the provers.)
LEMMA ConvertedOne ==
  ASSUME NEW type, type # "void", NEW text, NEW it,
         ConvertFromShellString(type, text) = {Typed(type, it)}, type # "threw"
  PROVE  Converted(type, text) = Result(type, it)
<1> DEFINE value == ConvertFromShellString(type, text)
           one == Typed(type, it)
<1>1. value = {one}
  OBVIOUS
<1>2. one.type = type /\ one.it = it
  BY DEF Typed
<1>3. Threw.type = "threw"
  BY DEF Threw
<1>4. Converted(type, text) =
        CASE value = {}      -> Failure(type, "incorrectType")
          [] value = {Threw} -> Failure(type, "thrown")
          [] OTHER           -> Result(type, (CHOOSE v \in value : TRUE).it)
  BY Zenon DEF Converted
<1> HIDE DEF value, one
<1>5. value # {} /\ value # {Threw} /\ (CHOOSE v \in value : TRUE) = one
  BY <1>1, <1>2, <1>3
<1>6. Converted(type, text) = Result(type, (CHOOSE v \in value : TRUE).it)
  BY <1>4, <1>5
<1>7. QED
  BY <1>2, <1>5, <1>6, Zenon

LEMMA ConvertedNone ==
  ASSUME NEW type, type # "void", NEW text, ConvertFromShellString(type, text) = {}
  PROVE  Converted(type, text) = Failure(type, "incorrectType")
BY DEF Converted

LEMMA ConvertedThrew ==
  ASSUME NEW type, type # "void", NEW text, ConvertFromShellString(type, text) = {Threw}
  PROVE  Converted(type, text) = Failure(type, "thrown")
<1>1. {Threw} # {}
  OBVIOUS
<1>2. QED
  BY <1>1 DEF Converted

LEMMA ConvertedText ==
  ASSUME NEW text
  PROVE  Converted("text", text) = Result("text", text)
<1>1. ConvertFromShellString("text", text) = {Typed("text", text)}
  BY DEF ConvertFromShellString, Typed
<1>2. QED
  BY <1>1, ConvertedOne

LEMMA ConvertedNumber ==
  ASSUME NEW text
  PROVE  Converted("number", text) = IF IsNumber(text) THEN Result("number", text)
                                     ELSE Failure("number", "incorrectType")
<1>1. CASE IsNumber(text)
  <2>1. ConvertFromShellString("number", text) = {Typed("number", text)}
    BY <1>1 DEF ConvertFromShellString, Typed
  <2>2. QED
    BY <1>1, <2>1, ConvertedOne
<1>2. CASE ~IsNumber(text)
  <2>1. ConvertFromShellString("number", text) = {}
    BY <1>2 DEF ConvertFromShellString
  <2>2. QED
    BY <1>2, <2>1, ConvertedNone
<1>3. QED
  BY <1>1, <1>2

\* A vector is what was separated, unless the output ended the separation
\* with an exception.
LEMMA ConvertedVector ==
  ASSUME NEW text
  PROVE  \/ Converted("vector", text) = Failure("vector", "thrown")
            /\ (Separate(text).bad \/ Separate(text).escape)
         \/ \E it : Converted("vector", text) = Result("vector", it)
<1> DEFINE st == Separate(text)
           it == IF text = <<>> THEN <<>> ELSE st.elements \o LastElement(st)
<1>1. CASE st.bad \/ st.escape
  <2>1. ConvertFromShellString("vector", text) = {Threw}
    BY <1>1 DEF ConvertFromShellString
  <2>2. QED
    BY <1>1, <2>1, ConvertedThrew
<1>2. CASE ~(st.bad \/ st.escape)
  <2>1. ConvertFromShellString("vector", text) = {Typed("vector", it)}
    BY <1>2 DEF ConvertFromShellString, Typed
  <2> HIDE DEF it
  <2>2. Converted("vector", text) = Result("vector", it)
    BY <2>1, ConvertedOne
  <2>3. QED
    BY <2>2
<1>3. QED
  BY <1>1, <1>2

\* A result is of the type that was asked for.
LEMMA ConvertedIsTyped ==
  ASSUME NEW type \in Types, NEW text
  PROVE  Converted(type, text).T = type /\ Converted(type, text).E = "CallError"
<1>1. CASE type = "void"
  BY <1>1, ConvertedVoid, ResultFacts
<1>2. CASE type = "text"
  BY <1>2, ConvertedText, ResultFacts
<1>3. CASE type = "number"
  BY <1>3, ConvertedNumber, ResultFacts, FailureFacts
<1>4. CASE type = "vector"
  BY <1>4, ConvertedVector, ResultFacts, FailureFacts
<1>5. QED
  BY <1>1, <1>2, <1>3, <1>4 DEF Types

\* The result is what was converted, or the error of the session.
LEMMA ReplyFacts ==
  ASSUME session.T = "text", session.E = "CallError", request.type \in Types
  PROVE  /\ Reply.T = request.type /\ Reply.E = "CallError"
         /\ session.has => Reply = Converted(request.type, Text)
         /\ ~session.has => ~Reply.has
<1> DEFINE y == IF session.has THEN Converted(request.type, Text) ELSE Result(request.type, <<>>)
<1>1. y.T = request.type /\ y.E = "CallError"
  BY ConvertedIsTyped, ResultFacts
<1>2. session.has => y = Converted(request.type, Text)
  OBVIOUS
<1>3. Reply = AndThenExpected(session, y)
  BY DEF Reply
<1> HIDE DEF y
<1>4. Reply = IF session.has THEN y ELSE Fail(y.T, session.E, session.holds)
  BY <1>1, <1>3 DEF AndThenExpected
<1>5. CASE session.has
  BY <1>1, <1>2, <1>4, <1>5
<1>6. CASE ~session.has
  <2>1. Reply = Fail(request.type, "CallError", session.holds)
    BY <1>1, <1>4, <1>6
  <2>2. QED
    BY <1>6, <2>1 DEF Fail
<1>7. QED
  BY <1>5, <1>6

-----------------------------------------------------------------------------
(* The invariant says what a result is *)

\* The text that is converted is the output, or the variable.
LEMMA TextIsOutput ==
  ASSUME Inductive, pc = "returned", session.has
  PROVE  /\ IsSequence(Text)
         /\ Text = IF request.op = "get" THEN env[request.name] ELSE session.holds.it
         /\ \A list \in printed : Text = Printed(list)
<1>1. IsSequence(session.holds.it) /\ \A name \in DOMAIN env : IsSequence(env[name])
  BY DEF Inductive, AnswerIsOfShell
<1>2. \A list \in printed : request.op = "call" /\ session.holds.it = Printed(list)
  BY DEF Inductive, AnswerIsOfShell
<1>3. CASE request.op = "get"
  <2> DEFINE value == env[request.name]
             output == session.holds.it
  <2>1. IsSequence(value) /\ output = value \o <<Newline>>
    BY <1>1, <1>3 DEF Inductive, AnswerIsOfShell
  <2>2. Text = SubSeq(output, 1, Len(output) - 1)
    BY <1>3 DEF Text, Front
  <2> HIDE DEF value, output
  <2> DEFINE last == <<Newline>>
  <2>3. IsSequence(last) /\ Len(last) = 1
    BY OneIsSequence, Zenon
  <2> HIDE DEF last
  <2>4. Len(output) = Len(value) + 1 /\ Len(value) \in Nat
    BY <2>1, <2>3, ConcatIsSequence DEF last, IsSequence
  <2>5. SubSeq(output, 1, Len(value)) = value
    BY <2>1, <2>3, SplitConcat DEF last
  <2>6. Len(output) - 1 = Len(value)
    BY <2>4
  <2>7. Text = value
    BY <2>2, <2>5, <2>6
  <2>8. QED
    BY <1>2, <1>3, <2>1, <2>7 DEF value
<1>4. CASE request.op # "get"
  <2>1. Text = session.holds.it
    BY <1>4 DEF Text
  <2>2. QED
    BY <1>1, <1>2, <1>4, <2>1
<1>5. QED
  BY <1>3, <1>4

\* A result is the converted output.
LEMMA ReturnedReply ==
  ASSUME Inductive, pc = "returned", session.has
  PROVE  reply = Converted(request.type, Text) /\ request.type \in Types
<1>1. /\ reply = Reply /\ session.T = "text" /\ session.E = "CallError"
      /\ request.type \in {"void", "text", "number", "vector"}
  BY DEF Inductive, TypeOK, RequestStands
<1>2. QED
  BY <1>1, ReplyFacts DEF Types

\* A number has digits only, and no more than an int can have.
LEMMA NumberFacts ==
  ASSUME NEW text
  PROVE  IsNumber(text) <=> text # <<>> /\ Len(text) <= IntDigits /\ ToSet(text) \subseteq Digits
BY DEF IsNumber, ToSet

\* The strengthening implies ResultIsOutput.
LEMMA InvImpliesResultIsOutput == Inductive => ResultIsOutput
<1> SUFFICES ASSUME Inductive, pc = "returned", request.op # "set", session.has
             PROVE  LET output == session.holds.it
                        text   == IF request.op = "get" THEN env[request.name] ELSE output
                    IN /\ request.type = "text" => reply = Result("text", text)
                       /\ request.type = "number" =>
                            (reply.has <=> text # <<>> /\ Len(text) <= IntDigits /\ ToSet(text) \subseteq Digits)
                       /\ request.type = "number" /\ reply.has => reply.holds.it = text
                       /\ request.type = "vector" =>
                            \A list \in printed : reply = Result("vector", IF list = <<<<>>>> THEN <<>> ELSE list)
                       /\ reply = Failure(request.type, "thrown") =>
                            request.type = "vector" /\ Backslash \in ToSet(text)
  BY Zenon DEF ResultIsOutput
<1> DEFINE text == IF request.op = "get" THEN env[request.name] ELSE session.holds.it
<1>1. Text = text /\ IsSequence(text) /\ \A list \in printed : text = Printed(list)
  BY TextIsOutput
<1> HIDE DEF text
<1>2. reply = Converted(request.type, text) /\ request.type \in Types
  BY <1>1, ReturnedReply
<1>3. request.type = "text" => reply = Result("text", text)
  BY <1>2, ConvertedText
<1>4. request.type = "number" =>
        (reply.has <=> text # <<>> /\ Len(text) <= IntDigits /\ ToSet(text) \subseteq Digits)
  <2> SUFFICES ASSUME request.type = "number" PROVE reply.has <=> IsNumber(text)
    BY NumberFacts
  <2>1. reply = IF IsNumber(text) THEN Result("number", text) ELSE Failure("number", "incorrectType")
    BY <1>2, ConvertedNumber
  <2>2. QED
    BY <2>1, ResultFacts, FailureFacts
<1>5. request.type = "number" /\ reply.has => reply.holds.it = text
  <2> SUFFICES ASSUME request.type = "number", reply.has PROVE reply.holds.it = text
    OBVIOUS
  <2>1. reply = IF IsNumber(text) THEN Result("number", text) ELSE Failure("number", "incorrectType")
    BY <1>2, ConvertedNumber
  <2>2. QED
    BY <2>1, ResultFacts, FailureFacts
<1>6. request.type = "vector" =>
        \A list \in printed : reply = Result("vector", IF list = <<<<>>>> THEN <<>> ELSE list)
  <2> SUFFICES ASSUME request.type = "vector", NEW list \in printed
               PROVE  reply = Result("vector", IF list = <<<<>>>> THEN <<>> ELSE list)
    OBVIOUS
  <2> DEFINE it == IF list = <<<<>>>> THEN <<>> ELSE list
  <2>1. IsSequence(list) /\ \A i \in 1..Len(list) : IsSequence(list[i])
    <3>1. list \in Lists
      BY DEF Inductive, TypeOK
    <3>2. QED
      BY <3>1, ShellAssumption, SequenceIsSeq
  <2>2. ConvertFromShellString("vector", text) = {Typed("vector", it)}
    BY <1>1, <2>1, ListIsReturned
  <2> HIDE DEF it
  <2>3. Converted("vector", text) = Result("vector", it)
    BY <2>2, ConvertedOne
  <2>4. QED
    BY <1>2, <2>3 DEF it
<1>7. reply = Failure(request.type, "thrown") => request.type = "vector" /\ Backslash \in ToSet(text)
  <2> SUFFICES ASSUME reply = Failure(request.type, "thrown")
               PROVE  request.type = "vector" /\ Backslash \in ToSet(text)
    OBVIOUS
  <2>1. ~reply.has
    BY FailureFacts
  <2>2. request.type # "void" /\ request.type # "text"
    BY <1>2, <2>1, ConvertedVoid, ConvertedText, ResultFacts
  <2>3. request.type # "number"
    <3> SUFFICES ASSUME request.type = "number" PROVE FALSE
      OBVIOUS
    <3>1. reply = Failure("number", "incorrectType")
      BY <1>2, <2>1, ConvertedNumber, ResultFacts
    <3>2. \A code : Failure("number", code).holds.it = code
      BY DEF Failure, Fail, Error_, Of
    <3>3. QED
      BY <3>1, <3>2
  <2>4. request.type = "vector"
    BY <1>2, <2>2, <2>3 DEF Types
  <2>5. Separate(text).bad \/ Separate(text).escape
    BY <1>2, <2>1, <2>4, ConvertedVector, ResultFacts
  <2>6. \E i \in 1..Len(text) : text[i] = Backslash
    BY <1>1, <2>5, NoBackslashNoFault
  <2>7. Backslash \in ToSet(text)
    BY <1>1, <2>6, SequenceIsSeq DEF ToSet
  <2>8. QED
    BY <2>4, <2>7
<1>8. QED
  BY <1>3, <1>4, <1>5, <1>6, <1>7, Zenon DEF text

-----------------------------------------------------------------------------
(* Steps of the host *)

\* It holds in the beginning.
LEMMA InitIsInductive == Init => Inductive
<1> SUFFICES ASSUME Init PROVE Inductive
  OBVIOUS
<1>1. /\ request.op = "call" /\ request.type = "void" /\ pc = "idle" /\ printed = {} /\ alive = TRUE
      /\ DOMAIN env = {}
  BY RequestFacts DEF Init, NoRequest
<1>2. session.T = "text" /\ session.E = "CallError" /\ reply.E = "CallError"
  BY ResultFacts DEF Init
<1>3. QED
  BY <1>1, <1>2 DEF Inductive, TypeOK, ArgumentsArrive, RequestStands, AnswerIsOfShell

\* What Send leaves to its caller is the request.
LEMMA SendFacts ==
  ASSUME Inductive, pc = "idle", NEW command, Send(command)
  PROVE  /\ pc' \in {"line", "answer"} /\ (pc' = "line" => alive') /\ line' = command /\ printed' = {}
         /\ alive' \in BOOLEAN /\ DOMAIN env' \subseteq Identifiers
         /\ session'.T = "text" /\ session'.E = "CallError" /\ reply'.E = "CallError"
         /\ AnswerIsOfShell'
<1>1. /\ alive \in BOOLEAN /\ DOMAIN env \subseteq Identifiers /\ session.T = "text"
      /\ session.E = "CallError" /\ reply.E = "CallError"
      /\ \A name \in DOMAIN env : IsSequence(env[name])
  BY DEF Inductive, TypeOK, AnswerIsOfShell
<1>2. line' = command /\ printed' = {} /\ alive' = alive /\ env' = env /\ reply' = reply
  BY DEF Send
<1>3. CASE alive
  <2>1. pc' = "line" /\ session' = session
    BY <1>3 DEF Send
  <2>2. AnswerIsOfShell'
    BY <1>1, <1>2, <2>1 DEF AnswerIsOfShell
  <2>3. QED
    BY <1>1, <1>2, <1>3, <2>1, <2>2
<1>4. CASE ~alive
  <2>1. pc' = "answer" /\ session' = Failure("text", "unknown")
    BY <1>4 DEF Send
  <2>2. session'.T = "text" /\ session'.E = "CallError" /\ ~session'.has
    BY <2>1, FailureFacts
  <2>3. AnswerIsOfShell'
    BY <1>1, <1>2, <2>2 DEF AnswerIsOfShell
  <2>4. QED
    BY <1>1, <1>2, <2>1, <2>2, <2>3
<1>5. QED
  BY <1>3, <1>4

\* A call writes a line that the shell reads as what was called.
LEMMA CallKeeps ==
  ASSUME Inductive, NEW name \in Names, NEW args \in Arguments, NEW type \in Types,
         Call(name, args, type)
  PROVE  Inductive'
<1>1. /\ pc = "idle" /\ passed' = args /\ request' = Request("call", name, type)
      /\ Send(BuildCommandLine(name, args))
  BY DEF Call
<1>2. request'.op = "call" /\ request'.name = name /\ request'.type = type
  BY <1>1, RequestFacts
<1>3. /\ pc' \in {"line", "answer"} /\ (pc' = "line" => alive') /\ printed' = {}
      /\ line' = BuildCommandLine(name, args)
      /\ alive' \in BOOLEAN /\ DOMAIN env' \subseteq Identifiers
      /\ session'.T = "text" /\ session'.E = "CallError" /\ reply'.E = "CallError"
      /\ AnswerIsOfShell'
  BY <1>1, SendFacts
<1>4. IsSequence(name) /\ IsSequence(args) /\ \A i \in 1..Len(args) : IsArgument(args[i])
  BY ShellAssumption, SequenceIsSeq
<1>5. Words(line') = <<WithoutNul(name)>> \o FlattenSeq([i \in DOMAIN args |-> ElementsOf(args[i])])
  BY <1>3, <1>4, ReadCommandLine
<1>6. ArgumentsArrive'
  BY <1>1, <1>2, <1>5, Zenon DEF ArgumentsArrive
<1>7. TypeOK'
  BY <1>2, <1>3 DEF TypeOK
<1>8. RequestStands'
  BY <1>1, <1>2, <1>3 DEF RequestStands, Types
<1>9. QED
  BY <1>3, <1>6, <1>7, <1>8 DEF Inductive

\* A name that cannot be one is refused before the shell is asked.
LEMMA RefuseFacts ==
  ASSUME Inductive, pc = "idle", Refuse
  PROVE  /\ pc' = "answer" /\ printed' = {} /\ env' = env
         /\ alive' \in BOOLEAN /\ DOMAIN env' \subseteq Identifiers
         /\ session'.T = "text" /\ session'.E = "CallError" /\ reply'.E = "CallError"
         /\ AnswerIsOfShell'
<1>1. /\ alive \in BOOLEAN /\ DOMAIN env \subseteq Identifiers /\ reply.E = "CallError" /\ printed = {}
      /\ \A name \in DOMAIN env : IsSequence(env[name])
  BY DEF Inductive, TypeOK, AnswerIsOfShell, RequestStands
<1>2. /\ pc' = "answer" /\ printed' = printed /\ alive' = alive /\ env' = env /\ reply' = reply
      /\ session' = Failure("text", "symbolNotFound")
  BY DEF Refuse
<1>3. session'.T = "text" /\ session'.E = "CallError" /\ ~session'.has
  BY <1>2, FailureFacts
<1>4. AnswerIsOfShell'
  BY <1>1, <1>2, <1>3 DEF AnswerIsOfShell
<1>5. QED
  BY <1>1, <1>2, <1>3, <1>4

\* A refused name leaves nothing to the shell.
LEMMA RefusedKeeps ==
  ASSUME Inductive, pc = "idle", Refuse, request'.op \in {"get", "set"}, request'.type \in Types,
         request'.op = "get" => request'.type # "void"
  PROVE  Inductive'
<1>1. /\ pc' = "answer" /\ printed' = {} /\ env' = env
      /\ alive' \in BOOLEAN /\ DOMAIN env' \subseteq Identifiers
      /\ session'.T = "text" /\ session'.E = "CallError" /\ reply'.E = "CallError"
      /\ AnswerIsOfShell'
  BY RefuseFacts
<1>2. TypeOK'
  BY <1>1 DEF TypeOK
<1>3. RequestStands'
  BY <1>1 DEF RequestStands, Types
<1>4. ArgumentsArrive'
  BY <1>1 DEF ArgumentsArrive
<1>5. QED
  BY <1>1, <1>2, <1>3, <1>4 DEF Inductive

\* A read writes a line that the shell reads as printenv of the variable.
LEMMA GetKeeps ==
  ASSUME Inductive, NEW name \in Names, NEW type \in Types \ {"void"}, Get(name, type)
  PROVE  Inductive'
<1>1. /\ pc = "idle" /\ request' = Request("get", name, type) /\ passed' = <<>>
      /\ IF IsValidShellVariableName(name)
           THEN Send(<<"printenv", Space>> \o Quoted(name)) ELSE Refuse
  BY DEF Get
<1>2. request'.op = "get" /\ request'.name = name /\ request'.type = type
  BY <1>1, RequestFacts
<1>3. CASE ~IsValidShellVariableName(name)
  BY <1>1, <1>2, <1>3, RefusedKeeps
<1>4. CASE IsValidShellVariableName(name)
  <2>1. /\ pc' \in {"line", "answer"} /\ (pc' = "line" => alive') /\ printed' = {}
        /\ line' = <<"printenv", Space>> \o Quoted(name)
        /\ alive' \in BOOLEAN /\ DOMAIN env' \subseteq Identifiers
        /\ session'.T = "text" /\ session'.E = "CallError" /\ reply'.E = "CallError"
        /\ AnswerIsOfShell'
    BY <1>1, <1>4, SendFacts
  <2>2. IsSequence(name) /\ "printenv" \notin {Quote, Backslash, Space, Nul}
    BY ShellAssumption DEF Quote, Backslash, Space, Nul
  <2>8. WithoutNul(name) = name
    BY <1>4, <2>2, NameIsHeard
  <2>3. Words(line') = <<<<"printenv">>, name>>
    BY <2>1, <2>2, <2>8, ReadCommand
  <2>4. ArgumentsArrive'
    BY <1>1, <1>2, <2>3 DEF ArgumentsArrive
  <2>5. TypeOK'
    BY <1>2, <2>1 DEF TypeOK
  <2>6. RequestStands'
    BY <1>2, <2>1 DEF RequestStands, Types
  <2>7. QED
    BY <2>1, <2>4, <2>5, <2>6 DEF Inductive
<1>5. QED
  BY <1>3, <1>4

\* A write writes a line that the shell reads as export of name and value.
LEMMA SetKeeps ==
  ASSUME Inductive, NEW name \in Names, NEW text \in Texts, Set(name, text)
  PROVE  Inductive'
<1> DEFINE word == name \o <<Equals>> \o text
<1>1. /\ pc = "idle" /\ request' = Request("set", name, "void")
      /\ passed' = <<[type |-> "text", it |-> text]>>
      /\ IF IsValidShellVariableName(name)
           THEN Send(<<"export", Space>> \o Quoted(word)) ELSE Refuse
  BY DEF Set
<1>2. request'.op = "set" /\ request'.name = name /\ request'.type = "void"
  BY <1>1, RequestFacts
<1>3. CASE ~IsValidShellVariableName(name)
  BY <1>1, <1>2, <1>3, RefusedKeeps DEF Types
<1>4. CASE IsValidShellVariableName(name)
  <2>1. /\ pc' \in {"line", "answer"} /\ (pc' = "line" => alive') /\ printed' = {}
        /\ line' = <<"export", Space>> \o Quoted(word)
        /\ alive' \in BOOLEAN /\ DOMAIN env' \subseteq Identifiers
        /\ session'.T = "text" /\ session'.E = "CallError" /\ reply'.E = "CallError"
        /\ AnswerIsOfShell'
    BY <1>1, <1>4, SendFacts
  <2>2. IsSequence(name) /\ IsSequence(text)
    BY ShellAssumption
  <2>3. IsSequence(word) /\ "export" \notin {Quote, Backslash, Space, Nul}
    <3>1. IsSequence(<<Equals>>)
      BY OneIsSequence
    <3>2. IsSequence(name \o <<Equals>>)
      BY <2>2, <3>1, ConcatIsSequence
    <3> DEFINE front == name \o <<Equals>>
    <3> HIDE DEF front
    <3>3. IsSequence(front \o text)
      BY <2>2, <3>2, ConcatIsSequence DEF front
    <3>4. QED
      BY <3>3 DEF front, Quote, Backslash, Space, Nul
  <2> DEFINE heard == name \o <<Equals>> \o WithoutNul(text)
  <2>10. WithoutNul(word) = heard
    BY <1>4, <2>2, WordIsHeard
  <2>4. Words(line') = <<<<"export">>, heard>>
    <3> HIDE DEF word, heard
    <3>1. QED
      BY <2>1, <2>3, <2>10, ReadCommand
  <2>5. passed'[1].it = text
    BY <1>1
  <2>6. ArgumentsArrive'
    <3>1. Words(line') = <<<<"export">>, request'.name \o <<Equals>> \o WithoutNul(passed'[1].it)>>
      BY <1>2, <2>4, <2>5
    <3>2. QED
      BY <1>2, <3>1, Zenon DEF ArgumentsArrive
  <2>7. TypeOK'
    BY <1>2, <2>1 DEF TypeOK
  <2>8. RequestStands'
    BY <1>2, <1>4, <2>1, <2>2, <2>5 DEF RequestStands
  <2>9. QED
    BY <2>1, <2>6, <2>7, <2>8 DEF Inductive
<1>5. QED
  BY <1>3, <1>4

-----------------------------------------------------------------------------
(* Steps of the shell *)

\* The words of a call, of a read and of a write.
LEMMA LineFacts ==
  ASSUME Inductive, pc = "line"
  PROVE  LET words == Words(line) IN
         /\ request.op = "call" =>
              words[1] = WithoutNul(request.name) /\ words[1] \notin {<<"printenv">>, <<"export">>}
         /\ request.op = "get" =>
              words[1] = <<"printenv">> /\ words[2] = request.name /\ words[1] \notin Functions
         /\ request.op = "set" =>
              /\ words[1] = <<"export">> /\ words[1] \notin Functions
              /\ words[2] = request.name \o <<Equals>> \o WithoutNul(passed[1].it)
<1> DEFINE words == Words(line)
<1>1. /\ <<"printenv">> \notin Functions /\ <<"export">> \notin Functions
      /\ \A name \in Names : WithoutNul(name) \notin {<<"printenv">>, <<"export">>}
  BY ShellAssumption
<1>2. CASE request.op = "call"
  <2> DEFINE els == [i \in DOMAIN passed |-> ElementsOf(passed[i])]
             flat == FlattenSeq(els)
             heard == WithoutNul(request.name)
             one == <<heard>>
             n == Len(passed)
  <2>1. words = one \o flat
    BY <1>2, Zenon DEF Inductive, ArgumentsArrive
  <2>2. request.name \in Names /\ passed \in Arguments
    BY <1>2 DEF Inductive, RequestStands
  <2>3. IsSequence(passed) /\ (\A i \in 1..n : IsArgument(passed[i])) /\ DOMAIN passed = 1..n /\ n \in Nat
    BY <2>2, ShellAssumption, SequenceIsSeq
  <2>4. IsSequence(els) /\ Len(els) = n
    <3>1. els = [i \in 1..n |-> els[i]]
      BY <2>3
    <3> HIDE DEF els, n
    <3>2. QED
      BY <2>3, <3>1, FunctionIsSequence
  <2>5. \A i \in 1..Len(els) : IsSequence(els[i])
    <3>1. \A i \in 1..n : els[i] = ElementsOf(passed[i])
      BY <2>3
    <3>2. \A i \in 1..n : IsSequence(ElementsOf(passed[i]))
      BY <2>3, EmptyIsSequence, ReadArgument
    <3> HIDE DEF els
    <3>3. QED
      BY <2>4, <3>1, <3>2
  <2> HIDE DEF els
  <2>6. IsSequence(flat) /\ IsSequence(one) /\ Len(one) = 1 /\ one[1] = heard
    BY <2>4, <2>5, FlattenIsSequence, OneIsSequence
  <2> HIDE DEF flat, one, heard
  <2>7. (one \o flat)[1] = heard
    <3>1. IsConcat(one \o flat, one, flat)
      BY <2>6, ConcatFacts
    <3> DEFINE u == one \o flat
    <3> HIDE DEF u
    <3>2. u[1] = one[1]
      BY <2>6, <3>1 DEF IsConcat, u
    <3>3. QED
      BY <2>6, <3>2 DEF u
  <2>8. words[1] = WithoutNul(request.name)
    BY <2>1, <2>7 DEF heard
  <2>9. QED
    BY <1>1, <1>2, <2>2, <2>8
<1>3. CASE request.op = "get"
  <2>1. words = <<<<"printenv">>, request.name>>
    BY <1>3 DEF Inductive, ArgumentsArrive
  <2>2. QED
    BY <1>1, <1>3, <2>1
<1>4. CASE request.op = "set"
  <2> DEFINE word == request.name \o <<Equals>> \o WithoutNul(passed[1].it)
  <2>1. words = <<<<"export">>, word>>
    BY <1>4, Zenon DEF Inductive, ArgumentsArrive
  <2> HIDE DEF word
  <2>2. words[1] = <<"export">> /\ words[2] = word
    BY <2>1
  <2>3. QED
    BY <1>1, <1>4, <2>2 DEF word
<1>5. QED
  BY <1>2, <1>3, <1>4 DEF Inductive, TypeOK

\* What a step of the shell has to do about the rest.
LEMMA ExecutedKeeps ==
  ASSUME Inductive, pc = "line", pc' = "answer", request' = request, reply' = reply,
         alive' \in BOOLEAN, DOMAIN env' \subseteq Identifiers, printed' \subseteq Lists,
         session'.T = "text", session'.E = "CallError", AnswerIsOfShell'
  PROVE  Inductive'
<1>1. TypeOK'
  BY DEF Inductive, TypeOK
<1>2. ArgumentsArrive'
  BY DEF ArgumentsArrive
<1>3. RequestStands'
  BY DEF Inductive, RequestStands
<1>4. QED
  BY <1>1, <1>2, <1>3 DEF Inductive

\* What a shell finds that has a line.
LEMMA LineState ==
  ASSUME Inductive, pc = "line"
  PROVE  /\ alive /\ alive \in BOOLEAN /\ printed = {} /\ DOMAIN env \subseteq Identifiers
         /\ \A name \in DOMAIN env : IsSequence(env[name])
         /\ request.op \in {"call", "get", "set"}
BY DEF Inductive, TypeOK, RequestStands, AnswerIsOfShell

\* A command that fails says nothing.
LEMMA FailedKeeps ==
  ASSUME Inductive, pc = "line", pc' = "answer", request' = request, reply' = reply,
         ExitsWithError, alive' \in BOOLEAN, env' = env, printed' = printed
  PROVE  Inductive'
<1>1. /\ printed = {} /\ DOMAIN env \subseteq Identifiers
      /\ \A name \in DOMAIN env : IsSequence(env[name])
  BY LineState
<1>2. session'.T = "text" /\ session'.E = "CallError" /\ ~session'.has
  BY FailureFacts DEF ExitsWithError
<1>3. AnswerIsOfShell'
  BY <1>1, <1>2 DEF AnswerIsOfShell
<1>4. QED
  BY <1>1, <1>2, <1>3, ExecutedKeeps

\* A command that prints what it was asked for has an answer that stands.
LEMMA PrintsKeeps ==
  ASSUME Inductive, pc = "line", pc' = "answer", request' = request, reply' = reply, alive' = alive,
         NEW text, IsSequence(text), Prints(text),
         DOMAIN env' \subseteq Identifiers, \A name \in DOMAIN env' : IsSequence(env'[name]),
         request.op = "get" => request.name \in DOMAIN env' /\ text = env'[request.name] \o <<Newline>>,
         request.op = "set" =>
           /\ passed' = passed /\ request.name \in DOMAIN env'
           /\ env'[request.name] = WithoutNul(passed[1].it),
         printed' \subseteq Lists, \A list \in printed' : request.op = "call" /\ text = Printed(list)
  PROVE  Inductive'
<1>1. alive /\ alive \in BOOLEAN
  BY LineState
<1>2. session' = Result("text", text)
  BY DEF Prints
<1>3. session'.T = "text" /\ session'.E = "CallError" /\ session'.holds.it = text
  BY <1>2, ResultFacts
<1>4. AnswerIsOfShell'
  BY <1>1, <1>2, <1>3 DEF AnswerIsOfShell
<1>5. QED
  BY <1>1, <1>3, <1>4, ExecutedKeeps

\* A function of the script prints one of its outputs.
LEMMA RunFunctionKeeps ==
  ASSUME Inductive, pc = "line", pc' = "answer", request' = request, reply' = reply,
         RunFunction(Words(line))
  PROVE  Inductive'
<1> USE DEF RunFunction
<1>1. /\ printed = {} /\ DOMAIN env \subseteq Identifiers /\ alive' = alive /\ env' = env
      /\ \A name \in DOMAIN env : IsSequence(env[name])
      /\ request.op \in {"call", "get", "set"}
  BY LineState
<1>2. request.op = "call"
  BY <1>1, LineFacts
<1>3. CASE ExitsWithError /\ UNCHANGED printed
  BY <1>1, <1>3, LineState, FailedKeeps
<1>4. ASSUME NEW text \in Outputs, Prints(text), UNCHANGED printed
      PROVE  Inductive'
  <2>1. IsSequence(text)
    BY ShellAssumption
  <2>2. QED
    BY <1>1, <1>2, <1>4, <2>1, PrintsKeeps
<1>5. ASSUME NEW list \in Lists, Prints(Printed(list)), printed' = {list}
      PROVE  Inductive'
  <2> DEFINE text == Printed(list)
  <2>1. IsSequence(list) /\ \A i \in 1..Len(list) : IsSequence(list[i])
    BY ShellAssumption, SequenceIsSeq
  <2>2. IsSequence(text)
    BY <2>1, CollectList
  <2> HIDE DEF text
  <2>3. Prints(text) /\ \A l \in printed' : request.op = "call" /\ text = Printed(l)
    BY <1>2, <1>5 DEF text
  <2>4. QED
    BY <1>1, <1>2, <1>5, <2>2, <2>3, PrintsKeeps
<1>6. QED
  BY <1>3, <1>4, <1>5

\* A function of the script that assigns a variable keeps its name.
LEMMA ChangeEnvironmentKeeps ==
  ASSUME Inductive, pc = "line", pc' = "answer", request' = request, reply' = reply,
         ChangeEnvironment(Words(line))
  PROVE  Inductive' /\ request.op = "call"
<1>1. /\ printed = {} /\ DOMAIN env \subseteq Identifiers
      /\ \A name \in DOMAIN env : IsSequence(env[name])
      /\ request.op \in {"call", "get", "set"}
  BY LineState
<1>2. request.op = "call"
  BY <1>1, LineFacts DEF ChangeEnvironment
<1>3. PICK name \in DOMAIN env, text \in Texts : env' = [env EXCEPT ![name] = WithoutNul(text)]
  BY DEF ChangeEnvironment
<1>4. Prints(<<>>) /\ alive' = alive /\ printed' = {}
  BY <1>1 DEF ChangeEnvironment
<1>5. DOMAIN env' = DOMAIN env /\ IsSequence(WithoutNul(text))
  BY <1>3, ShellAssumption, WithoutNulFacts
<1>6. \A other \in DOMAIN env' : IsSequence(env'[other])
  BY <1>1, <1>3, <1>5
<1>7. Inductive'
  BY <1>1, <1>2, <1>4, <1>5, <1>6, EmptyIsSequence, PrintsKeeps
<1>8. QED
  BY <1>2, <1>7

\* There is no such command.
LEMMA RunUnknownKeeps ==
  ASSUME Inductive, pc = "line", pc' = "answer", request' = request, reply' = reply,
         RunUnknown(Words(line))
  PROVE  Inductive'
BY LineState, FailedKeeps DEF RunUnknown

\* A variable that is read is printed as it is.
LEMMA RunPrintenvKeeps ==
  ASSUME Inductive, pc = "line", pc' = "answer", request' = request, reply' = reply,
         RunPrintenv(Words(line))
  PROVE  Inductive'
<1> DEFINE name == Words(line)[2]
<1>1. /\ printed = {} /\ DOMAIN env \subseteq Identifiers /\ alive \in BOOLEAN
      /\ \A other \in DOMAIN env : IsSequence(env[other])
      /\ request.op \in {"call", "get", "set"}
  BY LineState
<1>2. /\ Words(line)[1] = <<"printenv">> /\ alive' = alive /\ env' = env /\ printed' = printed
      /\ IF name \in DOMAIN env THEN Prints(env[name] \o <<Newline>>) ELSE ExitsWithError
  BY DEF RunPrintenv
<1>3. request.op = "get" /\ name = request.name
  BY <1>1, <1>2, LineFacts
<1> HIDE DEF name
<1>4. CASE name \notin DOMAIN env
  BY <1>1, <1>2, <1>4, FailedKeeps
<1>5. CASE name \in DOMAIN env
  <2> DEFINE text == env[name] \o <<Newline>>
  <2>1. Prints(text)
    BY <1>2, <1>5
  <2>2. IsSequence(text)
    BY <1>1, <1>5, OneIsSequence, ConcatIsSequence
  <2>3. request.op = "get" => request.name \in DOMAIN env' /\ text = env'[request.name] \o <<Newline>>
    BY <1>2, <1>3, <1>5
  <2> HIDE DEF text
  <2>4. QED
    BY <1>1, <1>2, <1>3, <2>1, <2>2, <2>3, PrintsKeeps
<1>6. QED
  BY <1>4, <1>5

\* The variable that is written is the one that was named.
LEMMA RunExportFacts ==
  ASSUME Inductive, pc = "line", RunExport(Words(line))
  PROVE  /\ request.op = "set" /\ printed' = printed /\ IsSequence(WithoutNul(passed[1].it))
         /\ \/ /\ request.name \in Identifiers /\ Prints(<<>>) /\ alive' = alive
               /\ env' = With(request.name, WithoutNul(passed[1].it))
            \/ alive' \in BOOLEAN /\ ExitsWithError /\ env' = env
<1> DEFINE word == Words(line)[2]
           end  == CHOOSE i \in DOMAIN word :
                     word[i] = Equals /\ \A j \in 1..(i - 1) : word[j] # Equals
           name == SubSeq(word, 1, end - 1)
           text == SubSeq(word, end + 1, Len(word))
           heard == WithoutNul(passed[1].it)
<1>1. /\ Words(line)[1] = <<"export">>
      /\ IF name \in Identifiers
           THEN env' = With(name, text) /\ Prints(<<>>) /\ UNCHANGED alive
           ELSE alive' \in BOOLEAN /\ ExitsWithError /\ UNCHANGED env
      /\ printed' = printed
  BY Zenon DEF RunExport
<1>2. request.op = "set" /\ word = request.name \o <<Equals>> \o heard
  <2>1. request.op \in {"call", "get", "set"} /\ <<"export">> # <<"printenv">>
    BY LineState
  <2>2. QED
    BY <1>1, <2>1, LineFacts
<1>3. /\ IsSequence(request.name) /\ IsValidShellVariableName(request.name)
      /\ IsSequence(heard)
  <2>1. /\ IsSequence(request.name) /\ IsValidShellVariableName(request.name)
        /\ IsSequence(passed[1].it)
    BY <1>2 DEF Inductive, RequestStands
  <2>2. QED
    BY <2>1, WithoutNulFacts
<1> HIDE DEF heard
<1>4. name = request.name /\ text = heard
  <2>1. SplitsAtEquals(request.name \o <<Equals>> \o heard, request.name, heard)
    BY <1>3, FirstEquals, Zenon
  <2> HIDE DEF word
  <2>2. SplitsAtEquals(word, request.name, heard)
    BY <1>2, <2>1, Zenon
  <2>3. QED
    BY <2>2, Zenon DEF SplitsAtEquals
<1> HIDE DEF name, text
<1>5. QED
  BY <1>1, <1>2, <1>3, <1>4 DEF heard

\* A variable that is written is a sequence of characters again.
LEMMA RunExportKeeps ==
  ASSUME Inductive, pc = "line", pc' = "answer", request' = request, reply' = reply,
         request.op = "set" => passed' = passed, RunExport(Words(line))
  PROVE  Inductive'
<1> DEFINE name == request.name
           text == WithoutNul(passed[1].it)
<1>1. /\ printed = {} /\ DOMAIN env \subseteq Identifiers
      /\ \A other \in DOMAIN env : IsSequence(env[other])
  BY LineState
<1>2. request.op = "set" /\ printed' = printed /\ IsSequence(text)
  BY RunExportFacts
<1>3. CASE alive' \in BOOLEAN /\ ExitsWithError /\ env' = env
  BY <1>2, <1>3, FailedKeeps
<1>4. CASE /\ name \in Identifiers /\ Prints(<<>>) /\ alive' = alive
           /\ env' = With(name, text)
  <2>6. passed' = passed
    BY <1>2
  <2>1. DOMAIN env' = {name} \cup DOMAIN env
    BY <1>4 DEF With
  <2>2. \A other \in DOMAIN env' : env'[other] = IF other = name THEN text ELSE env[other]
    BY <1>4 DEF With
  <2> HIDE DEF text, name
  <2>3. \A other \in DOMAIN env' : IsSequence(env'[other])
    BY <1>1, <1>2, <2>1, <2>2
  <2>4. DOMAIN env' \subseteq Identifiers
    BY <1>1, <1>4, <2>1
  <2>5. QED
    <3>1. request.op = "set" =>
            /\ passed' = passed /\ request.name \in DOMAIN env'
            /\ env'[request.name] = WithoutNul(passed[1].it)
      BY <2>1, <2>2, <2>6 DEF name, text
    <3>2. QED
      BY <1>1, <1>2, <1>4, <2>3, <2>4, <3>1, EmptyIsSequence, PrintsKeeps
<1>5. QED
  BY <1>3, <1>4, RunExportFacts

\* Whatever the line makes the shell do.
LEMMA ExecuteKeeps == Inductive /\ Execute => Inductive'
<1> SUFFICES ASSUME Inductive, Execute PROVE Inductive'
  OBVIOUS
<1>1. /\ pc = "line" /\ pc' = "answer" /\ request' = request /\ reply' = reply
      /\ request.op = "set" => passed' = passed
      /\ \/ RunFunction(Words(line)) \/ ChangeEnvironment(Words(line)) \/ RunUnknown(Words(line))
         \/ RunPrintenv(Words(line)) \/ RunExport(Words(line))
  BY DEF Execute
<1>2. QED
  BY <1>1, RunFunctionKeeps, ChangeEnvironmentKeeps, RunUnknownKeeps, RunPrintenvKeeps, RunExportKeeps

-----------------------------------------------------------------------------
(* The rest of the steps *)

\* What a return makes of the answer.
LEMMA ReturnFacts ==
  ASSUME Inductive, Return
  PROVE  reply' = Reply /\ Reply' = Reply /\ Reply.T = request.type /\ Reply.E = "CallError"
         /\ (Reply.has => session.has)
<1>1. reply' = Reply /\ request' = request /\ session' = session
  BY DEF Return
<1>2. Reply' = Reply
  BY <1>1 DEF Reply, Text
<1>3. session.T = "text" /\ session.E = "CallError" /\ request.type \in Types
  BY DEF Inductive, TypeOK, RequestStands, Types
<1>4. QED
  BY <1>1, <1>2, <1>3, ReplyFacts

\* A result is made of the answer.
LEMMA ReturnKeeps == Inductive /\ Return => Inductive'
<1> SUFFICES ASSUME Inductive, Return PROVE Inductive'
  OBVIOUS
<1>1. reply' = Reply /\ Reply' = Reply /\ Reply.T = request.type /\ Reply.E = "CallError"
  BY ReturnFacts
<1>2. /\ pc = "answer" /\ pc' = "returned" /\ request' = request /\ passed' = passed
      /\ alive' = alive /\ env' = env /\ printed' = printed /\ session' = session
  BY DEF Return
<1>3. TypeOK'
  BY <1>1, <1>2 DEF Inductive, TypeOK
<1>4. ArgumentsArrive'
  BY <1>2 DEF ArgumentsArrive
<1>5. RequestStands'
  BY <1>2 DEF Inductive, RequestStands
<1>6. AnswerIsOfShell'
  BY <1>2 DEF Inductive, AnswerIsOfShell
<1>7. QED
  BY <1>1, <1>3, <1>4, <1>5, <1>6 DEF Inductive

\* A result that is dropped leaves a plugin as in the beginning.
LEMMA DropKeeps == Inductive /\ Drop => Inductive'
<1> SUFFICES ASSUME Inductive, Drop PROVE Inductive'
  OBVIOUS
<1>1. /\ pc' = "idle" /\ printed' = {} /\ request' = NoRequest
      /\ session' = Result("text", <<>>) /\ reply' = Result("void", <<>>)
      /\ alive' = alive /\ env' = env
  BY DEF Drop
<1>2. request'.op = "call" /\ request'.type = "void"
  BY <1>1, RequestFacts DEF NoRequest
<1>3. session'.T = "text" /\ session'.E = "CallError" /\ reply'.E = "CallError"
  BY <1>1, ResultFacts
<1>4. TypeOK'
  BY <1>1, <1>2, <1>3 DEF Inductive, TypeOK
<1>5. ArgumentsArrive'
  BY <1>1 DEF ArgumentsArrive
<1>6. RequestStands'
  BY <1>1, <1>2 DEF RequestStands
<1>7. AnswerIsOfShell'
  BY <1>1 DEF Inductive, AnswerIsOfShell
<1>8. QED
  BY <1>1, <1>4, <1>5, <1>6, <1>7 DEF Inductive

\* A step of something else.
LEMMA StutterKeeps == Inductive /\ UNCHANGED vars => Inductive'
<1> SUFFICES ASSUME Inductive, UNCHANGED vars PROVE Inductive'
  OBVIOUS
<1> USE DEF vars
<1>1. TypeOK'
  BY DEF Inductive, TypeOK
<1>2. ArgumentsArrive'
  BY DEF Inductive, ArgumentsArrive
<1>3. RequestStands'
  BY DEF Inductive, RequestStands
<1>4. AnswerIsOfShell'
  BY DEF Inductive, AnswerIsOfShell
<1>5. pc' = "returned" => reply' = Reply'
  BY DEF Inductive, Reply, Text
<1>6. QED
  BY <1>1, <1>2, <1>3, <1>4, <1>5 DEF Inductive

\* The strengthening is inductive.
LEMMA StepIsInductive == Inductive /\ [Next]_vars => Inductive'
<1> SUFFICES ASSUME Inductive, [Next]_vars PROVE Inductive'
  OBVIOUS
<1>1. ASSUME NEW name \in Names, NEW type \in {"text", "number", "vector"}, Get(name, type)
      PROVE  Inductive'
  <2>1. type \in Types \ {"void"}
    BY DEF Types
  <2>2. QED
    BY <1>1, <2>1, GetKeeps
<1>2. ASSUME NEW name \in Names, NEW text \in Texts, Set(name, text)
      PROVE  Inductive'
  BY <1>2, SetKeeps
<1>3. ASSUME NEW name \in Names, NEW args \in Arguments,
             NEW type \in {"void", "text", "number", "vector"}, Call(name, args, type)
      PROVE  Inductive'
  <2>1. type \in Types
    BY DEF Types
  <2>2. QED
    BY <1>3, <2>1, CallKeeps
<1>4. QED
  BY <1>1, <1>2, <1>3, ExecuteKeeps, ReturnKeeps, DropKeeps, StutterKeeps DEF Next

\* A write that succeeds has been made.
LEMMA InvImpliesWritten ==
  ASSUME Inductive, pc = "returned", request.op = "set", reply.has
  PROVE  request.name \in DOMAIN env /\ env[request.name] = WithoutNul(passed[1].it)
<1>1. session.T = "text" /\ session.E = "CallError" /\ request.type \in Types /\ reply = Reply
  BY DEF Inductive, TypeOK, RequestStands, Types
<1>2. session.has
  BY <1>1, ReplyFacts
<1>3. QED
  BY <1>2 DEF Inductive, AnswerIsOfShell

\* A step that changes the environment is a call or writes what was asked for.
LEMMA StepWrites ==
  ASSUME Inductive, [Next]_vars, env' # env, request.op # "call"
  PROVE  request.op = "set" /\ env' = With(request.name, WithoutNul(passed[1].it))
<1>1. Execute
  BY DEF Next, Get, Set, Call, Send, Refuse, Return, Drop, vars
<1>2. pc = "line" /\ pc' = "answer" /\ request' = request /\ reply' = reply
  BY <1>1 DEF Execute
<1>3. ~ChangeEnvironment(Words(line))
  BY <1>2, ChangeEnvironmentKeeps
<1>4. RunExport(Words(line))
  BY <1>1, <1>3 DEF Execute, RunFunction, RunUnknown, RunPrintenv
<1>5. QED
  BY <1>2, <1>4, RunExportFacts

\* A result that is there comes from an answer of a shell that runs.
LEMMA StepReturns ==
  ASSUME Inductive, [Next]_vars, pc' = "returned", reply'.has
  PROVE  session'.has /\ alive'
<1>1. CASE UNCHANGED vars
  <2>1. /\ pc = "returned" /\ reply = Reply /\ session' = session /\ alive' = alive /\ Reply.has
    BY <1>1 DEF Inductive, vars
  <2>2. session.T = "text" /\ session.E = "CallError" /\ request.type \in Types
    BY DEF Inductive, TypeOK, RequestStands, Types
  <2>3. session.has
    BY <2>1, <2>2, ReplyFacts
  <2>4. QED
    BY <2>1, <2>3 DEF Inductive, AnswerIsOfShell
<1>2. CASE Next
  <2>1. Return
    BY <1>2 DEF Next, Get, Set, Call, Send, Refuse, Execute, Drop
  <2>2. pc = "answer" /\ session' = session /\ alive' = alive /\ Reply.has /\ session.has
    BY <2>1, ReturnFacts DEF Return
  <2>3. QED
    BY <2>2 DEF Inductive, AnswerIsOfShell
<1>3. QED
  BY <1>1, <1>2

-----------------------------------------------------------------------------
(* Theorems *)

\* The strengthening: what is passed is what the shell reads, an answer is
\* what the shell has printed for the request, and a result is made of the
\* answer and nothing else.
THEOREM ShellCallInvariant == Spec => []Inductive
<1>1. Init => Inductive
  BY InitIsInductive
<1>2. Inductive /\ [Next]_vars => Inductive'
  BY StepIsInductive
<1>3. QED
  BY <1>1, <1>2, PTL DEF Spec

\* Results and sessions have the types of their requests, exported variables
\* have names that the shell accepts.
THEOREM ShellCallTypeCorrect == Spec => []TypeOK
<1>1. Inductive => TypeOK
  BY DEF Inductive
<1>2. QED
  BY <1>1, ShellCallInvariant, PTL

\* Whatever characters names and arguments have, quoting and reading the line
\* give back the name and the arguments (buildCommandLine).
THEOREM ArgumentsArriveAsWords == Spec => []ArgumentsArrive
<1>1. Inductive => ArgumentsArrive
  BY DEF Inductive
<1>2. QED
  BY <1>1, ShellCallInvariant, PTL

\* A result is the output, all of it, a number only if the output is one, and
\* a list that was printed is returned element by element.
THEOREM ResultsAreTheOutput == Spec => []ResultIsOutput
<1>1. Inductive => ResultIsOutput
  BY InvImpliesResultIsOutput
<1>2. QED
  BY <1>1, ShellCallInvariant, PTL

\* A set that returns success has written the variable it names, whatever the
\* value is, and no other one, and a result comes from a shell that runs.
THEOREM VariablesAreWritten == Spec => VariableIsWritten
<1>1. Inductive /\ [Next]_vars =>
        [env' # env =>
           \/ request.op = "call"
           \/ request.op = "set" /\ env' = With(request.name, WithoutNul(passed[1].it))]_vars
  BY StepWrites
<1>4. Inductive =>
        (pc = "returned" /\ request.op = "set" /\ reply.has =>
           request.name \in DOMAIN env /\ env[request.name] = WithoutNul(passed[1].it))
  BY InvImpliesWritten
<1>2. Inductive /\ [Next]_vars => [pc' = "returned" /\ reply'.has => session'.has /\ alive']_vars
  BY StepReturns
<1>3. QED
  BY <1>1, <1>2, <1>4, ShellCallInvariant, PTL DEF Spec, VariableIsWritten
=============================================================================
