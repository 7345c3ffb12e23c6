--------------------------- MODULE ExpectedObject ---------------------------
(***************************************************************************)
(* Variables of the host of several Expected types, written in any order   *)
(* through constructors, assignments and andThen.  Next to each is kept    *)
(* which side it is to be on by what was written to it.                    *)
(***************************************************************************)
EXTENDS Expected

CONSTANTS
  Variables,  \* names of the variables
  TypeOf,     \* the Expected type of each: a record [T, E]
  Written     \* values the host writes, of those types

\* expected.h:16; and no type is that of the exception.
ASSUME ObjectAssumption ==
  \A v \in Variables :
    TypeOf[v].T # TypeOf[v].E /\ "exception" \notin {TypeOf[v].T, TypeOf[v].E}

VARIABLES
  object,     \* the Expected that each variable is
  meant       \* "value", "error" or "either" (for the properties)

objectVars == <<object, meant>>

\* The default constructor.
ObjectInit ==
  /\ object = [v \in Variables |-> Ok(TypeOf[v].T, TypeOf[v].E, Of(TypeOf[v].T, 0))]
  /\ meant = [v \in Variables |-> "value"]

Write_(v, x, side) ==
  /\ object' = [object EXCEPT ![v] = x]
  /\ meant' = [meant EXCEPT ![v] = side]

SideOf(type, x) == IF type = x.T THEN "value" ELSE "error"

\* v = Expected { it };
New(v, it) ==
  LET x == object[v] IN
    /\ it.type \in {x.T, x.E}
    /\ Write_(v, Construct(x.T, x.E, it), SideOf(it.type, x))

\* v = it;  A plain error of a type that converts to T is not told from a
\* value (operator=(U&&)): nothing is promised of it.
AssignPlain(v, it) ==
  LET x == object[v] IN
    /\ Converts(it.type, x.T) \/ Converts(it.type, x.E)
    /\ Write_(v, Assign(x, it),
              IF it.type # x.T /\ Converts(it.type, x.T) THEN "either"
                                                         ELSE SideOf(it.type, x))

\* v = w;  Expected<void, E> takes none but its own type.
AssignExpected(v, w) ==
  LET x == object[v]  y == object[w] IN
    /\ Converts(y.T, x.T) /\ Converts(y.E, x.E)
    /\ x.T = "void" => y.E = x.E
    /\ Write_(v, Convert(x, y), meant[w])

\* v = w.andThen(f);  where f would return it, or an Expected y.
AssignAndThen(v, w, it) ==
  LET x == AndThen(object[w], it) IN
    /\ x.T = object[v].T /\ x.E = object[v].E
    /\ Write_(v, x, meant[w])

AssignAndThenExpected(v, w, y) ==
  LET x == AndThenExpected(object[w], y)
      wrapped == object[w].T = "void" \/ object[w].E # y.E
  IN /\ x.T = object[v].T /\ x.E = object[v].E
     /\ Write_(v, x, IF y.has \/ wrapped THEN meant[w] ELSE "error")

\* v = w.valueOr(d);  v = w.errorOr(d);  and of a copy of w, an rvalue; or
\* v = w.andThen(f); where f would return the error d, of no value.
AssignOr(v, w, d) ==
  LET y == object[w] IN
    \/ y.T # "void" /\ Converts(d.type, y.T) /\ AssignPlain(v, ValueOrElse(y, d))
    \/ Converts(d.type, y.E)
         /\ AssignPlain(v, ErrorOrElse(y, d))
    \/ Converts(d.type, y.E) /\ (y.T = "void" \/ Converts(d.type, y.T))
         /\ AssignPlain(v, ErrorOrMoved(y, d))
    \/ y.T = "void" /\ d.type = y.E /\ AssignPlain(v, AndThenOfLvalue(y, d))

\* What functions return that are given to andThen.
Returned ==
  LET types == {TypeOf[v] : v \in Variables} IN
    {Ok(i.T, i.E, Of(i.T, 0)) : i \in types} \cup
    UNION {{Construct(i.T, i.E, it) : it \in {w \in Written : w.type \in {i.T, i.E}}}
             : i \in types}

ObjectNext ==
  \E v \in Variables :
    \/ \E it \in Written : New(v, it) \/ AssignPlain(v, it)
    \/ \E w \in Variables :
         \/ AssignExpected(v, w)
         \/ \E it \in Written : AssignOr(v, w, it) \/ AssignAndThen(v, w, it)
         \/ \E y \in Returned : AssignAndThenExpected(v, w, y)

ObjectSpec == ObjectInit /\ [][ObjectNext]_objectVars

-----------------------------------------------------------------------------
(* Properties *)

\* No chain of copies, conversions between Expected types and andThen turns
\* an error into a value or a value into an error: the first error written is
\* what is there to be read at the end, by whichever accessor; what is held
\* is of the type of its side, and no value equals an error.  Of no value it
\* cannot be read that it is missing.
SideIsKept ==
  \A v \in Variables :
    LET x == object[v] IN
      /\ x.T = TypeOf[v].T /\ x.E = TypeOf[v].E
      /\ x.holds.type = IF x.has THEN x.T ELSE x.E
      /\ meant[v] = "value" =>
           Value(x) = x.holds /\ ValueOptional(x) # {} /\ Error(x) = Thrown
      /\ meant[v] = "error" =>
           /\ Error(x) # Thrown /\ ErrorOptional(x) = {x.holds}
           /\ Value(x) = IF x.T = "void" THEN Of("void", 0) ELSE Thrown
      /\ \A w \in Variables :
           /\ TypeOf[v] = TypeOf[w] /\ x.T # "void"
           /\ Equal(x, object[w]) /\ "either" \notin {meant[v], meant[w]}
           => meant[v] = meant[w]
=============================================================================
