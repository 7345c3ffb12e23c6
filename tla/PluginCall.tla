----------------------------- MODULE PluginCall -----------------------------
(***************************************************************************)
(* What a plugin that runs in a process of its own promises its caller,    *)
(* without threads, pipes or handlers.  A call is one step at each end;    *)
(* in between, its line is executed to the end at most once.  A call is    *)
(* answered only while the process lives and after its line has ended      *)
(* with exit code 0; it may fail at any time, whatever became of the line. *)
(* ShellSession implements this module (see ShellRefinement).            *)
(***************************************************************************)
EXTENDS Integers

VARIABLES
  phase,    \* of the plugin, as its user sees it
  calls,    \* calls made so far
  alive,    \* whether the process lives
  codes,    \* exit codes of the line of the current call: none or one
  outcome   \* of the last call that returned

vars == <<phase, calls, alive, codes, outcome>>

Init ==
  /\ phase = "idle" /\ calls = 0 /\ alive = TRUE
  /\ codes = {} /\ outcome = "none"

Begin ==
  /\ phase = "idle"
  /\ phase' = "busy" /\ calls' = calls + 1
  /\ UNCHANGED <<alive, codes, outcome>>

\* The line ends, with an exit code.
Execute ==
  /\ phase = "busy" /\ alive /\ codes = {}
  /\ \E code \in {0, 1} : codes' = {code}
  /\ UNCHANGED <<phase, calls, alive, outcome>>

Answer ==
  /\ phase = "busy" /\ alive /\ codes = {0}
  /\ phase' = "idle" /\ outcome' = "ok" /\ codes' = {}
  /\ UNCHANGED <<calls, alive>>

\* A first call that fails is a failed load: the plugin is dropped.
Fail ==
  /\ phase = "busy"
  /\ phase' = IF calls = 1 THEN "closing" ELSE "idle"
  /\ outcome' = "failed" /\ codes' = {}
  /\ UNCHANGED <<calls, alive>>

Die ==
  /\ alive /\ alive' = FALSE
  /\ UNCHANGED <<phase, calls, codes, outcome>>

Close ==
  /\ phase = "idle" /\ calls > 0
  /\ phase' = "closing"
  /\ UNCHANGED <<calls, alive, codes, outcome>>

Closed ==
  /\ phase = "closing" /\ ~alive
  /\ phase' = "over"
  /\ UNCHANGED <<calls, alive, codes, outcome>>

\* The program is aborted: by SIGPIPE, an assert or std::terminate.
Abort ==
  /\ phase \in {"idle", "busy"}
  /\ phase' = "over" /\ codes' = {}
  /\ UNCHANGED <<calls, alive, outcome>>

Next == Begin \/ Execute \/ Answer \/ Fail \/ Die \/ Close \/ Closed \/ Abort

Spec == Init /\ [][Next]_vars
=============================================================================
