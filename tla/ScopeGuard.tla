----------------------------- MODULE ScopeGuard -----------------------------
(***************************************************************************)
(* ScopeGuard (detail/scope_guard.h): guards that own a function each and  *)
(* run it at the end of their scope, at the latest.  A function may throw. *)
(***************************************************************************)
EXTENDS Naturals

CONSTANTS
  Guards,
  Actions,   \* the functions given to guards, each to one
  NoAction,  \* the function of a guard that is not active
  MaxThrows  \* bound: how often one function throws out of call()

ASSUME GuardAssumption == NoAction \notin Actions /\ MaxThrows \in Nat

VARIABLES
  scope,     \* the guards that exist
  function_, \* what each guard is to run
  runs,      \* how often each function has run
  given,     \* functions that were given to a guard
  cancelled, \* those that were cancelled, and how often each has thrown out
  thrown,    \* of call() (for the properties)
  aborted    \* whether an exception has left a function that is noexcept

guardVars == <<scope, function_, runs, given, cancelled, thrown, aborted>>

GuardInit ==
  /\ scope = {} /\ function_ = [g \in Guards |-> NoAction]
  /\ runs = [a \in Actions |-> 0]
  /\ given = {} /\ cancelled = {} /\ thrown = [a \in Actions |-> 0] /\ aborted = FALSE

IsActive(g) == function_[g] # NoAction

\* g runs its function, if it has one.
Run(g) ==
  runs' = IF IsActive(g) THEN [runs EXCEPT ![function_[g]] = @ + 1] ELSE runs

Guard(g, a) ==
  /\ g \notin scope /\ a \in Actions \ given
  /\ scope' = scope \cup {g} /\ given' = given \cup {a}
  /\ function_' = [function_ EXCEPT ![g] = a]
  /\ UNCHANGED <<runs, cancelled, thrown, aborted>>

\* call(): cancel() is reached only if the function returns.
CallGuard(g) ==
  /\ g \in scope
  /\ Run(g)
  /\ function_' = [function_ EXCEPT ![g] = NoAction]
  /\ UNCHANGED <<scope, given, cancelled, thrown, aborted>>

CallThrows(g) ==
  /\ g \in scope /\ IsActive(g) /\ runs[function_[g]] < MaxThrows
  /\ Run(g)
  /\ thrown' = [thrown EXCEPT ![function_[g]] = @ + 1]
  /\ UNCHANGED <<scope, function_, given, cancelled, aborted>>

Cancel(g) ==
  /\ g \in scope
  /\ function_' = [function_ EXCEPT ![g] = NoAction]
  /\ cancelled' = cancelled \cup ({function_[g]} \ {NoAction})
  /\ UNCHANGED <<scope, runs, given, thrown, aborted>>

\* A std::function that was moved from is empty (external).
Take(g, h) == function_' = [function_ EXCEPT ![g] = function_[h], ![h] = NoAction]

MoveConstruct(g, h) ==
  /\ g \notin scope /\ h \in scope
  /\ scope' = scope \cup {g}
  /\ Take(g, h)
  /\ UNCHANGED <<runs, given, cancelled, thrown, aborted>>

\* (Dropping the function of the target.)
MoveAssign_Drops(g, h) ==
  /\ {g, h} \subseteq scope
  /\ IF g = h THEN UNCHANGED function_ ELSE Take(g, h)
  /\ UNCHANGED <<scope, runs, given, cancelled, thrown, aborted>>

\* g = std::move(h): the function of g runs first.
MoveAssign(g, h) ==
  /\ {g, h} \subseteq scope
  /\ IF g = h THEN UNCHANGED <<function_, runs>> ELSE Run(g) /\ Take(g, h)
  /\ UNCHANGED <<scope, given, cancelled, thrown, aborted>>

Destroy(g) ==
  /\ g \in scope
  /\ Run(g)
  /\ scope' = scope \ {g}
  /\ function_' = [function_ EXCEPT ![g] = NoAction]
  /\ UNCHANGED <<given, cancelled, thrown, aborted>>

\* In the destructor and the move assignment, which are noexcept, a function
\* that throws ends the program.
Aborts(g) ==
  /\ g \in scope /\ IsActive(g)
  /\ Run(g)
  /\ aborted' = TRUE
  /\ UNCHANGED <<scope, function_, given, cancelled, thrown>>

GuardNext ==
  /\ ~aborted
  /\ \E g \in Guards :
       \/ \E a \in Actions : Guard(g, a)
       \/ CallGuard(g) \/ CallThrows(g) \/ Cancel(g) \/ Destroy(g) \/ Aborts(g)
       \/ \E h \in Guards : MoveConstruct(g, h) \/ MoveAssign(g, h)

GuardSpec == GuardInit /\ [][GuardNext]_guardVars

-----------------------------------------------------------------------------
(* Properties *)

\* However guards are moved, assigned and called before they end: a function
\* is owned by one guard until it has run to its end, it does so once, and
\* none is forgotten that was not cancelled.  One that throws out of call() is
\* still owned, and runs again; one that is cancelled does not (call() and
\* cancel(), lines 33-40).
RunsExactlyOnce ==
  ~aborted =>
    \A a \in given :
      LET owners == {g \in scope : function_[g] = a} IN
        \/ owners = {} /\ a \notin cancelled /\ runs[a] = thrown[a] + 1
        \/ owners = {} /\ a \in cancelled    /\ runs[a] = thrown[a]
        \/ a \notin cancelled /\ runs[a] = thrown[a] /\ \E g \in Guards : owners = {g}
=============================================================================
