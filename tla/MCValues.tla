------------------------------ MODULE MCValues ------------------------------
(***************************************************************************)
(* The values that cross the border to a shell, the results that carry     *)
(* them and the guards next to them: three machines that share no state.   *)
(* A behaviour is one of them; the others stay as they are.                *)
(***************************************************************************)
EXTENDS ShellCall, ExpectedObject, ScopeGuard

CONSTANTS i, d, n, m, k   \* variables of the host

VARIABLE part   \* the machine that runs

allVars == <<vars, objectVars, guardVars, part>>

MCInit == Init /\ ObjectInit /\ GuardInit /\ part \in {"shell", "objects", "guards"}

MCNext ==
  /\ \/ part = "shell"   /\ Next       /\ UNCHANGED <<objectVars, guardVars>>
     \/ part = "objects" /\ ObjectNext /\ UNCHANGED <<vars, guardVars>>
     \/ part = "guards"  /\ GuardNext  /\ UNCHANGED <<vars, objectVars>>
  /\ UNCHANGED part

MCSpec == MCInit /\ [][MCNext]_allVars

-----------------------------------------------------------------------------
(* Texts of the characters that matter, in every order: arguments of up to *)
(* two of them, lists of up to two texts of up to one.                     *)

Characters == {"n", "1", " ", "'", "\"", "\\", "\n", Nul}
ShortTexts == BoundedSeq(Characters, 1)
MCTexts == {<<>>, <<"'">>, <<"1">>, <<"=", "'">>, <<"n", " ">>, <<"\\", "n">>, <<"1", "\n">>, <<Nul, "n">>}

MCNames == {<<>>, <<"n">>, <<"1">>, <<"n", "=">>, <<"n", "'">>, <<"n", Nul>>}
MCFunctions == {<<"n">>, <<"n", "'">>}
MCIdentifiers == {<<"n">>}

MCLists == BoundedSeq(ShortTexts, 2)
PlainLists == BoundedSeq({<<>>, <<"'">>, <<" ">>}, 2)
Values == {[type |-> "text", it |-> text] : text \in BoundedSeq(Characters, 2)}
          \cup {[type |-> "number", it |-> <<"1">>]}
          \cup {[type |-> "vector", it |-> list] : list \in PlainLists}
Few    == {[type |-> "text", it |-> text] : text \in {<<>>, <<"'">>, <<"n">>}}
          \cup {[type |-> "vector", it |-> list] : list \in {<<>>, <<<<>>, <<"'">>>>}}
MCArguments == {<<>>} \cup {<<v>> : v \in Values}
               \cup {<<v, w>> : v, w \in Few}
MCOutputs == BoundedSeq(Characters, 2) \cup {<<"1", "1", "1">>}
             \cup {<<"\"", " ", c>> : c \in Characters}

-----------------------------------------------------------------------------
(* Expected types: two that convert to each other, one of no value, and    *)
(* one whose error converts to its value.  The values are 1 and 1.5.        *)

MCVariables == {i, d, n, m, k}
MCTypeOf == [x \in MCVariables |->
  CASE x \in {i, k} -> [T |-> "int",    E |-> "string"]
    [] x = d        -> [T |-> "double", E |-> "string"]
    [] x = n        -> [T |-> "void",   E |-> "string"]
    [] x = m        -> [T |-> "double", E |-> "int"]]
MCWritten == {Of("int", 2), Of("double", 3), Of("string", 1)}
=============================================================================
