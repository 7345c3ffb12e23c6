------------------------------ MODULE Expected ------------------------------
(***************************************************************************)
(* Expected<T, E> (expected.h): a value of type T or an error of type E,   *)
(* what every operation of every plugin returns.  Its members are          *)
(* operators on a record; a member with overloads for lvalues and rvalues  *)
(* is one operator where both do the same.  Results that C++ moves out of  *)
(* an object are copied here: no function of the library looks at an       *)
(* object it has moved from.                                               *)
(*                                                                         *)
(* Types are names.  A value has a type and what it is: an arithmetic one  *)
(* is a number, counted in halves so that 1.5 can be told from 1.  A       *)
(* function that is given to a member is represented by what it returns    *)
(* when it is invoked.                                                     *)
(***************************************************************************)
EXTENDS Naturals

Of(type, it) == [type |-> type, it |-> it]

Arithmetic == {"bool", "int", "double"}

\* Implicit conversion, and what static_cast makes of a value.
Converts(U, T) == U = T \/ {U, T} \subseteq Arithmetic
Cast(T, v) ==
  Of(T, CASE T = "bool" -> IF v.it = 0 THEN 0 ELSE 2
          [] T = "int"  -> v.it - (v.it % 2)
          [] OTHER      -> v.it)

Ok(T, E, v)   == [T |-> T, E |-> E, has |-> TRUE, holds |-> v]
Fail(T, E, e) == [T |-> T, E |-> E, has |-> FALSE, holds |-> e]

\* The constructors from a value and from an error: the type decides.
Construct(T, E, v) == IF v.type = T THEN Ok(T, E, v) ELSE Fail(T, E, v)

\* (Keeping the side of the target.)
Convert_KeepsSide(x, y) ==
  IF x.has THEN Ok(x.T, x.E, Cast(x.T, y.holds)) ELSE Fail(x.T, x.E, Cast(x.E, y.holds))

\* x after it was constructed from, or assigned, an Expected of other types.
Convert(x, y) ==
  IF y.has THEN Ok(x.T, x.E, Cast(x.T, y.holds)) ELSE Fail(x.T, x.E, Cast(x.E, y.holds))

\* operator=(U&&): anything that converts to T is a value, be it an E.
Assign(x, v) ==
  IF Converts(v.type, x.T) THEN Ok(x.T, x.E, Cast(x.T, v))
                           ELSE Fail(x.T, x.E, Cast(x.E, v))

\* value() and error() throw if it is the other one that is there; so do
\* operator* and operator->, though with another exception.  value() of
\* Expected<void, E> returns nothing, also in place of an error; its operator*
\* asserts that there is none.
Thrown == Of("exception", 0)
Value(x) == IF x.has THEN x.holds ELSE IF x.T = "void" THEN Of("void", 0) ELSE Thrown
Error(x) == IF x.has THEN Thrown ELSE x.holds

\* A std::optional is a set of at most one value.
ValueOptional(x) == IF x.has THEN {x.holds} ELSE {}
ErrorOptional(x) == IF x.has THEN {} ELSE {x.holds}

ValueOr(x, default)   == IF x.has THEN x.holds ELSE Cast(x.T, default)
ValueOrElse(x, returned) == ValueOr(x, returned)

ErrorOr(x, default) == IF x.has THEN Cast(x.E, default) ELSE x.holds
ErrorOrElse(x, returned) == ErrorOr(x, returned)

\* The overload for rvalues casts the default to T first.
ErrorOrMoved(x, default) ==
  IF x.has THEN Cast(x.E, IF x.T = "void" THEN default ELSE Cast(x.T, default))
           ELSE x.holds

\* The function returns v, or nothing (of type void).
AndThen(x, v) == IF x.has THEN Ok(v.type, x.E, v) ELSE Fail(v.type, x.E, x.holds)

\* Expected<void, E> has an andThen for lvalues that is different: it returns
\* the error itself, or what the function returns, which must be an E then.
AndThenOfLvalue(x, returned) == IF x.has THEN returned ELSE x.holds

\* The function returns an Expected y.  One of another error type becomes the
\* value; so does any that a function given to Expected<void, E> returns.
AndThenExpected(x, y) ==
  IF x.T # "void" /\ x.E = y.E
    THEN IF x.has THEN y ELSE Fail(y.T, x.E, x.holds)
    ELSE AndThen(x, Of("Expected", y))

\* std::variant compares the alternatives first; errors compare by code.  Only
\* for two of one type, which is not that of no value.
Equal(x, y) == x.has = y.has /\ x.holds = y.holds
=============================================================================
