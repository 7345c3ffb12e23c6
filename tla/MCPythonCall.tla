---------------------------- MODULE MCPythonCall ----------------------------
(* PythonCall on small instances: a short holds -1 and 0, an int -2 .. 1,   *)
(* an unsigned 0 .. 3, a long -4 .. 3.                                      *)
EXTENDS PythonCall

CONSTANTS f, x

MCNames == {f, x}

MCGlobals ==
  { [n \in MCNames |-> IF n = f THEN Callable ELSE Missing],
    [n \in MCNames |-> IF n = f THEN PyInt(4) ELSE PyFloat(-1)] }

a == PyStr(<<"a">>)

\* In range of int, of long, of neither; the value that means "maybe an
\* error"; every kind of string; a bool.  In lists and dicts: good and bad at
\* each place, and keys that become equal (3 and -1 as int, a str and bytes).
MCReturns ==
  { PyInt(1), PyInt(-1), PyInt(3), PyInt(4), PyBool(1), PyFloat(-1), a,
    PyStr(<<"wide">>), PyStr(<<"a", "NUL">>), PyStr(<<"surrogate">>), PyBytes(<<"NUL", "a">>),
    PyList(<<PyInt(1), PyInt(-1)>>), PyList(<<PyInt(4), PyInt(1)>>), PyList(<<a, PyInt(1)>>),
    PyDict(<<<<a, PyInt(-1)>>, <<PyBytes(<<"a">>), PyInt(1)>>>>),
    PyDict(<<<<PyInt(3), a>>, <<PyInt(-1), PyStr(<<"surrogate">>)>>>>),
    PyDict(<<<<PyInt(3), a>>, <<PyInt(-1), PyStr(<<"a", "a">>)>>>>),
    PyDict(<<<<a, PyInt(1)>>, <<PyStr(<<"a", "a">>), PyInt(3)>>>>) }

MCTypes ==
  { <<"int">>, <<"long long">>, <<"short">>, <<"unsigned">>, <<"double">>, <<"bool">>, <<"char">>,
    <<"string">>, <<"void">>, <<"vector", "int">>, <<"vector", "string">>,
    <<"map", "string", "int">>, <<"map", "int", "string">> }

Text(s)  == Cpp("string", s)
Entries  == Cpp("map", << <<Text(<<"a">>), Cpp("int", 1)>>, <<Text(<<"wide">>), Cpp("int", 0)>> >>)
BadEntry == Cpp("map", << <<Text(<<"a">>), Text(<<"invalid">>)>> >>)
Elements == Cpp("vector", << Cpp("int", -1), Cpp("int", 1) >>)
BadElement == Cpp("vector", << Text(<<"invalid">>) >>)

\* A map whose keys are vectors.
ListAsKey == Cpp("map", << <<Elements, Cpp("int", 1)>> >>)

MCGiven == { Cpp("int", -1), Text(<<"invalid">>), Entries, BadEntry, BadElement, ListAsKey }

MCArguments ==
  { <<Cpp("double", 1), Entries, Elements, Cpp("nullptr", 0), Cpp("bool", 1)>>,
    <<Text(<<"invalid">>)>>, <<Cpp("int", 1), BadElement>>, <<BadEntry>>, <<ListAsKey>> }
=============================================================================
