------------------------ MODULE MCPythonInterpreter ------------------------
(* PythonInterpreter on small instances: see the .cfg files for the bounds. *)
EXTENDS PythonInterpreter
=============================================================================
