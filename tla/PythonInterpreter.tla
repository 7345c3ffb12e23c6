------------------------- MODULE PythonInterpreter -------------------------
(***************************************************************************)
(* Python plugins: sub-interpreters (python_interpreter.h/.cpp) and the    *)
(* global interpreter lock they are used under (python_guard.cpp).  Host   *)
(* threads create, use, move and destroy plugins; each plugin is used by   *)
(* one thread at a time, but any thread may use it.                        *)
(*                                                                         *)
(* The C API (external) is modelled by its documented effect on locks and  *)
(* thread states.  From Python 3.12 on every sub-interpreter has a lock of *)
(* its own (OwnGil); before, all share the one of the main interpreter.    *)
(***************************************************************************)
EXTENDS Integers, Sequences, FiniteSets

CONSTANTS
  Threads,           \* host threads
  Plugins,           \* variables of type PythonPlugin
  MaxInterpreters,   \* bound: sub-interpreters created
  OwnGil,            \* PY_VERSION_HEX >= 0x030c0000
  AssignOverLive     \* whether the host move-assigns onto a plugin in use

ASSUME ConstantAssumption ==
  /\ MaxInterpreters \in Nat
  /\ OwnGil \in BOOLEAN /\ AssignOverLive \in BOOLEAN
  /\ {"free", "lost"} \cap Threads = {}

VARIABLES
  once,      \* python_initialization_done
  gil,       \* who holds each lock
  attached,  \* the thread state each thread has attached
  interp,    \* the sub-interpreters
  member,    \* what state_ and main_module_ of a plugin point to
  pc, on,    \* what a thread does, and with which plugin
  drops      \* deleters a thread has yet to run

vars == <<once, gil, attached, interp, member, pc, on, drops>>

Ids  == 1..MaxInterpreters
Main == 0                       \* the main interpreter
None == -1
GilOf(i) == IF OwnGil THEN i ELSE Main

Null == [state |-> None, module |-> None]

TypeOK ==
  /\ once \in {"not", "running", "done"}
  /\ gil \in [{Main} \cup Ids -> Threads \cup {"free", "lost"}]
  /\ attached \in [Threads -> {None, Main} \cup Ids]
  /\ interp \in [Ids -> {"unused", "alive", "ended"}]
  /\ member \in [Plugins -> [state : {None} \cup Ids, module : {None} \cup Ids]]
  /\ pc \in [Threads -> {"idle", "once", "init", "ensure", "new", "publish",
                        "load", "loading", "call", "calling", "drop", "dropping",
                        "aborted"}]
  /\ on \in [Threads -> Plugins]
  /\ drops \in [Threads -> Seq({"state", "module"} \X Ids)]

Init ==
  /\ once = "not"
  /\ gil = [i \in {Main} \cup Ids |-> "free"]
  /\ attached = [t \in Threads |-> None]
  /\ interp = [i \in Ids |-> "unused"]
  /\ member = [p \in Plugins |-> Null]
  /\ pc = [t \in Threads |-> "idle"]
  /\ on \in [Threads -> Plugins]
  /\ drops = [t \in Threads |-> <<>>]

-----------------------------------------------------------------------------
(* The lock (external): PyEval_AcquireThread and PyEval_ReleaseThread, as   *)
(* PythonGuard calls them.                                                  *)

Acquire(t, i) ==
  /\ gil[GilOf(i)] = "free"
  /\ gil' = [gil EXCEPT ![GilOf(i)] = t]
  /\ attached' = [attached EXCEPT ![t] = i]

ReleaseThread(t) ==
  /\ gil' = [gil EXCEPT ![GilOf(attached[t])] = "free"]
  /\ attached' = [attached EXCEPT ![t] = None]

Goto(t, label) == pc' = [pc EXCEPT ![t] = label]

\* One thread at a time uses a plugin.
InUse(p) == \E t \in Threads : pc[t] # "idle" /\ on[t] = p

-----------------------------------------------------------------------------
(* The constructor *)

\* The bound: an interpreter for every thread that is to create one.
MayConstruct ==
  Cardinality({t \in Threads : pc[t] \in {"once", "init", "ensure", "new"}})
    < Cardinality({i \in Ids : interp[i] = "unused"})

Construct(t, p) ==
  /\ pc[t] = "idle" /\ ~InUse(p) /\ member[p] = Null
  /\ MayConstruct
  /\ on' = [on EXCEPT ![t] = p]
  /\ Goto(t, "once")
  /\ UNCHANGED <<once, gil, attached, interp, member, drops>>

\* std::call_once: the first thread initialises Python, which attaches the
\* main interpreter, and releases its lock; others wait until that is done.
InitPython(t) ==
  /\ pc[t] = "once" /\ once = "not"
  /\ once' = "running"
  /\ Acquire(t, Main)
  /\ Goto(t, "init")
  /\ UNCHANGED <<interp, member, on, drops>>

ReleaseMain(t) ==
  /\ pc[t] = "init"
  /\ once' = "done"
  /\ ReleaseThread(t)
  /\ Goto(t, "ensure")
  /\ UNCHANGED <<interp, member, on, drops>>

OnceDone(t) ==
  /\ pc[t] = "once" /\ once = "done"
  /\ Goto(t, "ensure")
  /\ UNCHANGED <<once, gil, attached, interp, member, on, drops>>

\* PyGILState_Ensure, which no PyGILState_Release follows, attaches the thread
\* state that it remembers for the thread.  With sub-interpreters that need not
\* be one of the main interpreter: which live one it is is left open.
Ensure(t) ==
  /\ pc[t] = "ensure"
  /\ \E i \in {Main} \cup {j \in Ids : interp[j] = "alive"} : Acquire(t, i)
  /\ Goto(t, "new")
  /\ UNCHANGED <<once, interp, member, on, drops>>

\* Python cannot be initialised, which nobody asks about before the thread
\* state is (a fatal error); or an interpreter cannot be created (an assert).
\* That is the end of the process.
CannotCreate(t) ==
  /\ pc[t] \in {"init", "new"}
  /\ pc' = [u \in Threads |-> "aborted"]
  /\ UNCHANGED <<once, gil, attached, interp, member, on, drops>>

\* (A new interpreter that leaves the lock of the old one taken.)
NewInterpreter_KeepsMain(t) ==
  /\ pc[t] = "new"
  /\ \E i \in Ids :
       /\ interp[i] = "unused" /\ \A j \in Ids : j < i => interp[j] # "unused"
       /\ interp' = [interp EXCEPT ![i] = "alive"]
       /\ gil' = [gil EXCEPT ![GilOf(i)] = t]
       /\ attached' = [attached EXCEPT ![t] = i]
       /\ member' = [member EXCEPT ![on[t]] = [state |-> i, module |-> i]]
  /\ Goto(t, "publish")
  /\ UNCHANGED <<once, on, drops>>

\* Py_NewInterpreterFromConfig leaves the lock of the new interpreter held in
\* place of the one it was called with; Py_NewInterpreter shares that one.
NewInterpreter(t) ==
  /\ pc[t] = "new"
  /\ \E i \in Ids :
       /\ interp[i] = "unused" /\ \A j \in Ids : j < i => interp[j] # "unused"
       /\ interp' = [interp EXCEPT ![i] = "alive"]
       /\ gil' = [gil EXCEPT ![GilOf(attached[t])] = "free", ![GilOf(i)] = t]
       /\ attached' = [attached EXCEPT ![t] = i]
       /\ member' = [member EXCEPT ![on[t]] = [state |-> i, module |-> i]]
  /\ Goto(t, "publish")
  /\ UNCHANGED <<once, on, drops>>

\* (A constructor that returns with the lock.)
Publish_Keeps(t) ==
  /\ pc[t] = "publish"
  /\ Goto(t, "load")
  /\ UNCHANGED <<once, gil, attached, interp, member, on, drops>>

Publish(t) ==
  /\ pc[t] = "publish"
  /\ ReleaseThread(t)
  /\ Goto(t, "load")
  /\ UNCHANGED <<once, interp, member, on, drops>>

-----------------------------------------------------------------------------
(* load, call, global: a PythonGuard around everything that touches Python  *)

\* (The deleter of a member that was moved from.)
MoveDropsOf_Unchecked(m) == << <<"state", m.state>>, <<"module", m.module>> >>

\* The deleters of state_ and main_module_ in the order in which the members
\* are moved: that of their declaration.
MoveDropsOf(m) ==
  IF m = Null THEN <<>> ELSE << <<"state", m.state>>, <<"module", m.module>> >>

\* ... and in the order of the destructor.
DropsOf(m) ==
  IF m = Null THEN <<>> ELSE << <<"module", m.module>>, <<"state", m.state>> >>

\* (Leaving the interpreter of a plugin that could not be loaded.)
Drop_Forgets(t, p) ==
  /\ member' = [member EXCEPT ![p] = Null]
  /\ Goto(t, "drop")
  /\ UNCHANGED drops

\* The members of p are gone: their deleters are to be run.
Drop(t, p) ==
  /\ drops' = [drops EXCEPT ![t] = DropsOf(member[p])]
  /\ member' = [member EXCEPT ![p] = Null]
  /\ Goto(t, "drop")

\* The script cannot be opened: load fails before it locks anything.
OpenFails(t) ==
  /\ pc[t] = "load"
  /\ Drop(t, on[t])
  /\ UNCHANGED <<once, gil, attached, interp, on>>

Load(t) ==
  /\ pc[t] = "load"
  /\ Acquire(t, member[on[t]].state)
  /\ Goto(t, "loading")
  /\ UNCHANGED <<once, interp, member, on, drops>>

\* The script has run, or failed, which ends the plugin.
Loaded(t) ==
  /\ pc[t] = "loading" /\ attached[t] # None
  /\ ReleaseThread(t)
  /\ \/ Goto(t, "idle") /\ UNCHANGED <<member, drops>>
     \/ Drop(t, on[t])
  /\ UNCHANGED <<once, interp, on>>

\* call() or global().
Use(t, p) ==
  /\ pc[t] = "idle" /\ ~InUse(p) /\ member[p] # Null
  /\ on' = [on EXCEPT ![t] = p]
  /\ Goto(t, "call")
  /\ UNCHANGED <<once, gil, attached, interp, member, drops>>

Call(t) ==
  /\ pc[t] = "call"
  /\ Acquire(t, member[on[t]].state)
  /\ Goto(t, "calling")
  /\ UNCHANGED <<once, interp, member, on, drops>>

\* (Returning without unlocking.)
Called_Keeps(t) ==
  /\ pc[t] = "calling" /\ attached[t] # None
  /\ Goto(t, "idle")
  /\ UNCHANGED <<once, gil, attached, interp, member, on, drops>>

Called(t) ==
  /\ pc[t] = "calling" /\ attached[t] # None
  /\ ReleaseThread(t)
  /\ Goto(t, "idle")
  /\ UNCHANGED <<once, interp, member, on, drops>>

\* While it runs Python code a thread lets others have the lock.
Yield(t) ==
  /\ pc[t] \in {"loading", "calling"} /\ attached[t] # None
  /\ ReleaseThread(t)
  /\ UNCHANGED <<once, interp, member, pc, on, drops>>

Resume(t) ==
  /\ pc[t] \in {"loading", "calling"} /\ attached[t] = None
  /\ Acquire(t, member[on[t]].state)
  /\ UNCHANGED <<once, interp, member, pc, on, drops>>

-----------------------------------------------------------------------------
(* Destruction and assignment *)

Destroy(t, p) ==
  /\ pc[t] = "idle" /\ ~InUse(p) /\ member[p] # Null
  /\ on' = [on EXCEPT ![t] = p]
  /\ Drop(t, p)
  /\ UNCHANGED <<once, gil, attached, interp>>

\* The defaulted move assignment moves state_, then main_module_; the deleter
\* of what p had runs as each is moved.
MoveAssign(t, p, q) ==
  /\ pc[t] = "idle" /\ p # q /\ ~InUse(p) /\ ~InUse(q)
  /\ member[q] # Null /\ (AssignOverLive \/ member[p] = Null)
  /\ on' = [on EXCEPT ![t] = p]
  /\ member' = [member EXCEPT ![p] = member[q], ![q] = Null]
  /\ drops' = [drops EXCEPT ![t] = MoveDropsOf(member[p])]
  /\ Goto(t, "drop")
  /\ UNCHANGED <<once, gil, attached, interp>>

\* Both deleters lock the interpreter first.
DropLock(t) ==
  /\ pc[t] = "drop" /\ drops[t] # <<>>
  /\ Acquire(t, Head(drops[t])[2])
  /\ Goto(t, "dropping")
  /\ UNCHANGED <<once, interp, member, on, drops>>

DropModule(t) ==
  /\ pc[t] = "dropping" /\ Head(drops[t])[1] = "module"
  /\ ReleaseThread(t)
  /\ drops' = [drops EXCEPT ![t] = Tail(@)]
  /\ Goto(t, "drop")
  /\ UNCHANGED <<once, interp, member, on>>

\* Py_EndInterpreter: no thread state is attached afterwards.  The lock of
\* its own ends with the interpreter; the shared one stays held.
EndInterpreter(t) ==
  /\ pc[t] = "dropping" /\ Head(drops[t])[1] = "state"
  /\ interp' = [interp EXCEPT ![Head(drops[t])[2]] = "ended"]
  /\ gil' = [gil EXCEPT ![GilOf(attached[t])] = IF OwnGil THEN "free" ELSE "lost"]
  /\ attached' = [attached EXCEPT ![t] = None]
  /\ drops' = [drops EXCEPT ![t] = Tail(@)]
  /\ Goto(t, "drop")
  /\ UNCHANGED <<once, member, on>>

Dropped(t) ==
  /\ pc[t] = "drop" /\ drops[t] = <<>>
  /\ Goto(t, "idle")
  /\ UNCHANGED <<once, gil, attached, interp, member, on, drops>>

-----------------------------------------------------------------------------
Step(t) ==
  \/ InitPython(t) \/ ReleaseMain(t) \/ OnceDone(t) \/ Ensure(t)
  \/ CannotCreate(t) \/ NewInterpreter(t) \/ Publish(t)
  \/ OpenFails(t) \/ Load(t) \/ Loaded(t) \/ Call(t) \/ Called(t)
  \/ Yield(t) \/ Resume(t)
  \/ DropLock(t) \/ DropModule(t) \/ EndInterpreter(t) \/ Dropped(t)

HostStep(t) ==
  \E p \in Plugins :
    \/ Construct(t, p) \/ Use(t, p) \/ Destroy(t, p)
    \/ \E q \in Plugins : MoveAssign(t, p, q)

Next == \E t \in Threads : Step(t) \/ HostStep(t)

Spec == Init /\ [][Next]_vars

\* Threads are scheduled, the lock is passed on to every thread that waits
\* for it, and a script that is given the lock again and again ends.
Fairness ==
  \A t \in Threads :
    /\ WF_vars(InitPython(t) \/ ReleaseMain(t) \/ OnceDone(t)
               \/ NewInterpreter(t) \/ Publish(t)
               \/ DropModule(t) \/ EndInterpreter(t) \/ Dropped(t))
    /\ SF_vars(Ensure(t) \/ Load(t) \/ OpenFails(t) \/ Call(t)
               \/ Resume(t) \/ DropLock(t))
    /\ SF_vars(Loaded(t) \/ Called(t))

FairSpec == Spec /\ Fairness

-----------------------------------------------------------------------------
(* Properties *)

\* A lock is held by the thread that has attached a thread state of its
\* interpreter, and by no other: every path through the constructor, load,
\* call and the deleters returns what it has taken ("the GIL must be held",
\* python_interpreter.h, lines 40, 47 and 54).
GilFollowsAttachment ==
  /\ \A t \in Threads : attached[t] # None => gil[GilOf(attached[t])] = t
  /\ \A g \in DOMAIN gil :
       gil[g] \in Threads => attached[gil[g]] # None /\ GilOf(attached[gil[g]]) = g

\* A thread that returns to the host has no thread state attached.
NothingHeldOutside == \A t \in Threads : pc[t] = "idle" => attached[t] = None

\* No interpreter is locked, or left for another, after it has ended: "main_module_ must be
\* destructed before state_ since it will access the state object in its
\* deleter" (python_interpreter.cpp, lines 119-120).
OnlyLiveInterpreters ==
  \A t \in Threads :
    /\ pc[t] = "new" /\ attached[t] # Main => interp[attached[t]] = "alive"
    /\ pc[t] \in {"load", "loading", "call", "calling"}
         => interp[member[on[t]].state] = "alive"
    /\ pc[t] \in {"drop", "dropping"} /\ drops[t] # <<>>
         => interp[Head(drops[t])[2]] = "alive"

\* When no thread is busy, every interpreter that has not ended belongs to
\* exactly one plugin: none leaks, however load failed or plugins were moved.
NoInterpreterLeaks ==
  (\A t \in Threads : pc[t] = "idle") =>
    /\ \A i \in Ids : interp[i] = "alive" => \E p \in Plugins : member[p].state = i
    /\ \A p, q \in Plugins :
         member[p] # Null => /\ interp[member[p].state] = "alive"
                             /\ member[p].state = member[q].state => p = q

\* Every operation returns, or the process has ended.
OperationReturns == \A t \in Threads : pc[t] # "idle" ~> pc[t] \in {"idle", "aborted"}
-----------------------------------------------------------------------------
(* The inductive invariant behind the safety properties *)

\* What a thread has attached, and whose members it may rely on, follows from
\* where it is in an operation.
AttachedOnTheWay ==
  \A t \in Threads :
    /\ pc[t] \in {"idle", "once", "ensure", "load", "call", "drop"} => attached[t] = None
    /\ pc[t] = "init" => attached[t] = Main
    /\ pc[t] = "new" => attached[t] # None
    /\ pc[t] = "publish" => attached[t] = member[on[t]].state
    /\ pc[t] \in {"loading", "calling"} => attached[t] \in {None, member[on[t]].state}
    /\ pc[t] = "dropping" => drops[t] # <<>> /\ attached[t] = Head(drops[t])[2]
    /\ pc[t] \in {"once", "init", "ensure", "new"} => member[on[t]] = Null
    /\ pc[t] \in {"publish", "load", "loading", "call", "calling"} => member[on[t]] # Null
    /\ pc[t] \notin {"drop", "dropping", "aborted"} => drops[t] = <<>>

\* One thread at a time uses a plugin, whose members belong together.
OneThreadPerPlugin ==
  /\ \A t, u \in Threads :
       {pc[t], pc[u]} \cap {"idle", "aborted"} = {} /\ on[t] = on[u] => t = u
  /\ \A p \in Plugins :
       member[p] # Null => member[p].state # None /\ member[p].module = member[p].state

\* Nobody has an interpreter before it is created.
UnusedIsUnknown ==
  \A i \in Ids : interp[i] = "unused" =>
    /\ OwnGil => gil[i] = "free"
    /\ \A p \in Plugins : member[p].state # i
    /\ \A t \in Threads : \A k \in DOMAIN drops[t] : drops[t][k][2] # i

\* An interpreter lent to a constructor does not end under it: who ends one has
\* attached it.
LentIsAlive ==
  \A t \in Threads :
    pc[t] = "new" /\ attached[t] # Main => interp[attached[t]] = "alive"

Locking == /\ TypeOK /\ GilFollowsAttachment
           /\ AttachedOnTheWay /\ OneThreadPerPlugin /\ UnusedIsUnknown

\* Deleters to be run are those of one interpreter, that of the state last.
DropsInOrder ==
  \A t \in Threads :
    drops[t] # <<>> =>
      \E i \in Ids : drops[t] \in { << <<"state", i>> >>,
                                     << <<"module", i>>, <<"state", i>> >> }

\* An interpreter has one owner from its creation to its end: a plugin, or the
\* thread that is about to run its deleters.
OneOwner ==
  /\ \A p \in Plugins : member[p] # Null =>
       /\ interp[member[p].state] = "alive"
       /\ \A q \in Plugins : member[q].state = member[p].state => q = p
       /\ \A t \in Threads : drops[t] # <<>> => Head(drops[t])[2] # member[p].state
  /\ \A t \in Threads : drops[t] # <<>> =>
       /\ interp[Head(drops[t])[2]] = "alive"
       /\ \A u \in Threads :
            drops[u] # <<>> /\ Head(drops[u])[2] = Head(drops[t])[2] => u = t
  /\ \A i \in Ids : interp[i] = "alive" =>
       \/ \E p \in Plugins : member[p].state = i
       \/ \E t \in Threads : drops[t] # <<>> /\ Head(drops[t])[2] = i

\* A host that assigns onto a live plugin reverses the order of the deleters;
\* the locks do not depend on it, the lives of interpreters do.
Inductive == Locking /\ LentIsAlive /\ (~AssignOverLive => DropsInOrder /\ OneOwner)
=============================================================================
