-------------------------- MODULE ShellRefinement ---------------------------
(***************************************************************************)
(* ShellSession implements PluginCall.  The exit codes of a line are those *)
(* of the end markers of the current call that are in the stdout pipe or   *)
(* already in the buffer of the host.                                      *)
(***************************************************************************)
EXTENDS ShellSession

PhaseOf ==
  CASE pc = "idle" -> "idle"
    [] pc \in InCall -> "busy"
    [] pc \in {"destroy", "stop", "join"} -> "closing"
    [] OTHER -> "over"

Reported(code) ==
  \/ \E i \in DOMAIN result : result[i] = Mark(call, code)
  \/ \E i \in DOMAIN stdout : stdout[i] = Mark(call, code)

CodesOf == IF pc \in InCall THEN {code \in {0, 1} : Reported(code)} ELSE {}

OutcomeOf ==
  IF reply.outcome \in {"none", "ok"} THEN reply.outcome ELSE "failed"

Abstract == INSTANCE PluginCall WITH
  phase <- PhaseOf, calls <- call, alive <- Running, codes <- CodesOf,
  outcome <- OutcomeOf

\* Seen by its user, the session is a plugin that answers a call only with
\* the end of its own line, executed once, by a live shell.
ImplementsPluginCall == Abstract!Spec

-----------------------------------------------------------------------------
(* What the refinement needs beside the inductive invariant of the session, *)
(* above all when the shell is dead and Service says nothing of the pipes.  *)

\* No party is ahead of the host: no line and no chunk, of a living shell or
\* a dead one, names a call that has not been made yet, so that a new call
\* starts with no exit code.  Only the first call is a load, and a session
\* whose thread is being joined has waited for its shell.
NothingFromLaterCalls ==
  /\ line.call <= call
  /\ \A i \in DOMAIN stdin : stdin[i].call <= call
  /\ \A i \in DOMAIN Stream : Stream[i].call <= call
  /\ pc \in InCall => (op = "load" <=> call = 1)
  /\ pc \in {"stop", "join"} => ~Running
=============================================================================
