----------------------------- MODULE PythonCall -----------------------------
(***************************************************************************)
(* The operations of one Python plugin (python_interpreter.cpp) and the    *)
(* error indicator of its thread state, which the C API sets when one of   *)
(* its functions fails and which stays set until somebody takes it.        *)
(* internalCall asks for it after the call; conversions (PythonValues) may *)
(* leave it set, and then the next operation finds it.                     *)
(*                                                                         *)
(* The plugin is used by one thread, under its lock (PythonInterpreter),   *)
(* so that an operation is one step.  The functions of the script are      *)
(* external: they return, or raise, what they like.                        *)
(***************************************************************************)
EXTENDS PythonValues

CONSTANTS
  Names,      \* names of globals of the script
  Globals,    \* what the script may define: a set of functions on Names
  Returns,    \* what a function of the script may return
  Arguments,  \* what the host passes to functions: a set of sequences
  Given,      \* what the host assigns to globals
  Types,      \* the C++ types results are converted to
  NewApi      \* whether Python is 3.12 or newer

ASSUME PythonAssumption ==
  /\ \A g \in Globals : g = [n \in Names |-> g[n]] /\ \A n \in Names : IsObject(g[n])
  /\ \A v \in Returns : IsObject(v)
  /\ \A args \in Arguments : IsSequence(args) /\ \A i \in 1..Len(args) : IsValue(args[i])
  /\ \A v \in Given : IsValue(v)
  /\ \A T \in Types : IsType(T)

VARIABLES
  pc,         \* "running", or how the process ended
  globals,    \* the globals of the script
  indicator,  \* whether the error indicator is set
  did,        \* what the script did in the last operation, with what arguments
  reply

\* History, for the properties:
VARIABLES
  written,    \* the value the host has set each variable to, last of all
  cause,      \* the operation that has set the indicator, if it is set
  before      \* cause, when the last operation began

vars == <<pc, globals, indicator, did, reply, written, cause, before>>

-----------------------------------------------------------------------------
(* A plugin whose script has run: load (PythonPlugin::load) has succeeded,  *)
(* otherwise there is no plugin.                                            *)

NoReply == [op |-> "none", type |-> <<"void">>, of |-> Missing, outcome |-> "none", value |-> 0]
Nothing == [what |-> "nothing", given |-> <<>>, got |-> <<>>]
NoOperation == [reply |-> NoReply, what |-> "nothing"]
Unwritten == [type |-> "unwritten", val |-> 0]

Init ==
  /\ pc = "running"
  /\ globals \in Globals
  /\ indicator = FALSE /\ did = Nothing /\ reply = NoReply
  /\ written = [n \in Names |-> Unwritten]
  /\ cause = NoOperation /\ before = NoOperation

Return(o, T, v, outcome, value) ==
  reply' = [op |-> o, type |-> T, of |-> v, outcome |-> outcome, value |-> value]

\* Converting v and reporting what comes of it.
ReturnAs(o, T, v, set) ==
  LET c == As(T, v, set) IN
    /\ indicator' = c.indicator
    /\ Return(o, T, v, IF c.ok THEN "ok" ELSE "incorrectType", c.value)

Begin ==
  /\ pc = "running"
  /\ before' = cause

\* With the functions of Python 3.12 the first argument of an exception is
\* released although it is only borrowed.
Released == {"running"} \cup IF NewApi THEN {"releasedTwice"} ELSE {}

\* (Looking at the exception without taking it.)
Latest_Peeks ==
  /\ indicator' = TRUE
  /\ pc' \in Released

\* PythonException::latest takes the exception.
Latest ==
  /\ indicator' = FALSE
  /\ pc' \in Released

AssertFails ==
  /\ pc = "running" /\ pc' = "assertFailed"
  /\ UNCHANGED <<globals, indicator, did, reply, written, before>>

\* A function of the script may leave other globals behind.
ScriptWrites ==
  /\ globals' \in Globals \cup {globals}
  /\ written' = [n \in Names |-> IF globals'[n] = globals[n] THEN written[n] ELSE Unwritten]

-----------------------------------------------------------------------------
(* call() *)

Passed(args) == \A i \in DOMAIN args : HasObject(args[i])

\* An argument, or an element of one, that has no Python object.
CallBadArgument(args) == ~Passed(args) /\ AssertFails

\* PyObject_GetAttrString fails, or finds nothing callable: that is told from
\* a missing symbol by the indicator, and so not if it was set before.
CallNotFound(n, args) ==
  /\ Begin /\ Passed(args)
  /\ globals[n] # Callable
  /\ did' = Nothing /\ UNCHANGED <<globals, written>>
  /\ IF globals[n] = Missing \/ indicator
       THEN Return("call", <<"void">>, globals[n], "symbolNotFound", 0) /\ Latest
       ELSE Return("call", <<"void">>, globals[n], "unknown", 0) /\ UNCHANGED <<pc, indicator>>

Invoke(n, args, what) ==
  /\ Begin /\ Passed(args)
  /\ globals[n] = Callable
  /\ did' = [what |-> what, given |-> args, got |-> [i \in DOMAIN args |-> From(args[i])]]

\* (Asking whether something has failed without taking the exception.)
CallRaises_Kept(n, args) ==
  /\ Invoke(n, args, "raised")
  /\ Return("call", <<"void">>, Missing, "raised", 0)
  /\ indicator' = TRUE
  /\ UNCHANGED <<pc, globals, written>>

\* Turning the value of the exception into a string may fail in turn, which
\* sets the indicator again.  If there is a traceback, that of a function
\* written in Python, the import of "traceback" is asserted not to fail with
\* it, and format_tb returns a null pointer, whose type is then looked at.
CallRaises(n, args) ==
  /\ Return("call", <<"void">>, Missing, "raised", 0)
  /\ \/ Invoke(n, args, "raised") /\ Latest
     \/ /\ Invoke(n, args, "raisedUnprintable")
        /\ indicator' = TRUE
        /\ pc' \in Released \cup {"assertFailed", "nullRead"}
  /\ ScriptWrites

\* The function returns; PyObject_Call, and then internalCall, take an
\* indicator that is set for its failure.
CallReturns(n, args, T) ==
  /\ Invoke(n, args, "returned")
  /\ \E v \in Returns :
       IF indicator
         THEN Return("call", T, v, "raised", 0) /\ Latest
         ELSE ReturnAs("call", T, v, FALSE) /\ UNCHANGED pc
  /\ ScriptWrites

-----------------------------------------------------------------------------
(* global() *)

\* Unlike a call, a read that succeeds does not ask for the indicator.
Get(n, T) ==
  /\ T # <<"void">>
  /\ Begin
  /\ IF globals[n] = Missing
       THEN Return("get", T, Missing, "symbolNotFound", 0) /\ Latest
       ELSE ReturnAs("get", T, globals[n], indicator) /\ UNCHANGED pc
  /\ did' = Nothing
  /\ UNCHANGED <<globals, written>>

Succeed(n, v) ==
  /\ Return("set", <<"void">>, v, "ok", 0)
  /\ written' = [written EXCEPT ![n] = v]
  /\ UNCHANGED pc

\* (Creating a variable, but keeping one that is there.)
Set_Creates(n, v) ==
  /\ Begin /\ HasObject(v)
  /\ globals' = [globals EXCEPT ![n] = IF @ = Missing THEN From(v) ELSE @]
  /\ Succeed(n, v)
  /\ did' = Nothing
  /\ UNCHANGED indicator

Set(n, v) ==
  /\ Begin /\ HasObject(v)
  /\ globals' = [globals EXCEPT ![n] = From(v)]
  /\ Succeed(n, v)
  /\ did' = Nothing
  /\ UNCHANGED indicator

\* A value with no Python object: PyObject_SetAttr deletes the variable.
SetInvalid(n, v) ==
  /\ Begin /\ ~IsContainer(v) /\ ~HasObject(v)
  /\ globals' = [globals EXCEPT ![n] = Missing]
  /\ IF globals[n] = Missing
       THEN Return("set", <<"void">>, v, "unknown", 0) /\ Latest /\ UNCHANGED written
       ELSE Succeed(n, v) /\ indicator' = TRUE
  /\ did' = Nothing

SetBadElement(v) == IsContainer(v) /\ ~HasObject(v) /\ AssertFails

-----------------------------------------------------------------------------
\* Which operation has set the indicator since it was last taken.
Remember ==
  cause' = IF ~indicator' THEN NoOperation
           ELSE IF indicator /\ did'.what # "raisedUnprintable" THEN cause
           ELSE [reply |-> reply', what |-> did'.what]

Operation ==
  \/ \E args \in Arguments :
       \/ CallBadArgument(args)
       \/ \E n \in Names :
            \/ CallNotFound(n, args) \/ CallRaises(n, args)
            \/ \E T \in Types : CallReturns(n, args, T)
  \/ \E n \in Names :
       \/ \E T \in Types : Get(n, T)
       \/ \E v \in Given : Set(n, v) \/ SetInvalid(n, v)
  \/ \E v \in Given : SetBadElement(v)

Next == Operation /\ Remember

Spec == Init /\ [][Next]_vars

-----------------------------------------------------------------------------
(* Properties *)

TypeOK ==
  /\ pc \in {"running", "assertFailed", "nullRead", "releasedTwice"}
  /\ DOMAIN globals = Names
  /\ written \in [Names -> Given \cup {Unwritten}]
  /\ indicator \in BOOLEAN
  /\ did.what \in {"nothing", "returned", "raised", "raisedUnprintable"}
  /\ reply.outcome \in {"none", "ok", "symbolNotFound", "unknown", "raised", "incorrectType"}
  /\ reply.type = <<"int">> /\ reply.outcome = "ok" => Fits(reply.value, IntRange)

\* The globals are objects that conversions can be asked of: what the script
\* or the host has put there.
GlobalsAreObjects ==
  /\ globals = [n \in Names |-> globals[n]]
  /\ \A n \in Names : IsObject(globals[n])

\* What makes an operation leave the indicator set: an integer too large for
\* long or a string without an encoding, also within a container; an exception
\* that could not be printed; a value that was set though it has no object.
BlamesScalar(T, v) ==
  \/ T = "int" /\ v.type = "int" /\ ~Fits(v.val, LongRange)
  \/ T \in {"string", "char"} /\ v.type = "str" /\ Contains(v.val, "surrogate")

Blames(T, v) ==
  \/ T[1] = "vector" /\ v.type = "list" /\ \E e \in ToSet(v.val) : BlamesScalar(T[2], e)
  \/ T[1] = "map" /\ v.type = "dict"
       /\ \E p \in ToSet(v.val) : BlamesScalar(T[2], p[1]) \/ BlamesScalar(T[3], p[2])
  \/ BlamesScalar(T[1], v)

LeavesSet(o) ==
  \/ o.reply.outcome = "incorrectType" /\ Blames(o.reply.type, o.reply.of)
  \/ o.what = "raisedUnprintable"
  \/ o.reply.op = "set" /\ ~HasObject(o.reply.of)

\* Nothing else sets the indicator, however many elements were converted.
IndicatorHasCause ==
  [][indicator' /\ ~indicator => LeavesSet([reply |-> reply', what |-> did'.what])]_vars

\* A call may report an exception although its function returned, and a symbol
\* that is not found although it is there and only not callable: internalCall
\* (lines 159-168 and 178-184) asks nobody whose exception it is.  Whatever
\* was called, read and written before: then some operation, since when nobody
\* has taken an exception, has failed in one of these ways.
FailureHasCause ==
  /\ reply.op = "call"
  /\ \/ reply.outcome = "raised" /\ did.what = "returned"
     \/ reply.outcome = "symbolNotFound" /\ reply.of # Missing
  => LeavesSet(before)

\* A value its type can hold, each element of a container included, is
\* returned as it is, none left out and none added, whatever failed before;
\* but that -1 is taken for an error if an operation left the indicator set.
ValueIsExact ==
  /\ reply.op \in {"call", "get"} /\ Holds(reply.type, reply.of)
  /\ reply.outcome \in {"ok", "incorrectType"}
  => IF reply.outcome = "ok" THEN reply.value = ValueOf(reply.type, reply.of)
     ELSE LeavesSet(before) /\ \E e \in Objects(reply.of) : e.type \in {"int", "float"} /\ e.val = -1

\* A function is called with the arguments of the host, each in its place and
\* element by element (setTupleItem, setListItem, setDictItem).  Each variable
\* is what the host has last set that one to, whatever it has called, read and
\* written since, unless the script has changed it; but one that was set to a
\* value that has no object is gone (global(), line 209).
ArgumentsArrive ==
  /\ did.what # "nothing" =>
       /\ DOMAIN did.got = DOMAIN did.given
       /\ \A i \in DOMAIN did.given : StandsFor(did.got[i], did.given[i])
  /\ \A n \in Names : written[n] # Unwritten =>
       IF HasObject(written[n]) THEN StandsFor(globals[n], written[n])
       ELSE globals[n] = Missing

\* The indicator is set only while its cause is known.
CauseIsKnown == indicator => LeavesSet(cause)

\* Inductive: with what a call converts, what it reports about it is known.
Inductive ==
  /\ TypeOK /\ GlobalsAreObjects /\ CauseIsKnown
  /\ FailureHasCause /\ ValueIsExact /\ ArgumentsArrive

\* What python_object.h (lines 40-44) says of objects that are not owned: no
\* Py_DECREF at the end of the lifetime of what wraps them.
NothingReleasedTwice == pc # "releasedTwice"
=============================================================================
