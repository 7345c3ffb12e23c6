--------------------------- MODULE MCShellSession ---------------------------
(* ShellSession on small instances: see the .cfg files for the bounds.     *)
EXTENDS ShellRefinement
=============================================================================
