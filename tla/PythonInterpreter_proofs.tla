---------------------- MODULE PythonInterpreter_proofs ----------------------
(***************************************************************************)
(* Proofs about PythonInterpreter, for any number of threads, plugins and  *)
(* interpreters.  That locks are returned holds for every host; that only  *)
(* live interpreters are used holds for hosts that do not assign onto a    *)
(* plugin in use.                                                          *)
(***************************************************************************)
EXTENDS PythonInterpreter, SequenceTheorems, TLAPS

USE DEF Ids, Main, None, Goto

\* A plugin without members has no interpreter.
LEMMA NullMember ==
  Null \in [state : {None} \cup Ids, module : {None} \cup Ids] /\ Null.state = None
BY DEF Null

-----------------------------------------------------------------------------
(* Lemmas about the lock and the deleters *)

\* Taking a lock that is free keeps the agreement of locks and attachments.
LEMMA AcquireKeepsAgreement ==
  ASSUME TypeOK, GilFollowsAttachment,
         NEW t \in Threads, NEW i \in {Main} \cup Ids,
         attached[t] = None, Acquire(t, i)
  PROVE  GilFollowsAttachment' /\ attached' \in [Threads -> {None, Main} \cup Ids]
<1>1. GilOf(i) \in {Main} \cup Ids
  BY DEF GilOf
<1>2. attached' \in [Threads -> {None, Main} \cup Ids] /\ attached'[t] = i /\ gil'[GilOf(i)] = t
  BY <1>1 DEF Acquire, TypeOK
<1>3. ASSUME NEW u \in Threads, attached'[u] # None
      PROVE  gil'[GilOf(attached'[u])] = u
  <2>1. CASE u = t
    BY <1>2, <2>1
  <2>2. CASE u # t
    <3>1. attached'[u] = attached[u] /\ gil[GilOf(attached[u])] = u
      BY <1>3, <2>2 DEF Acquire, TypeOK, GilFollowsAttachment
    <3>2. GilOf(attached[u]) # GilOf(i)
      BY <3>1, ConstantAssumption DEF Acquire
    <3>3. QED
      BY <1>1, <3>1, <3>2 DEF Acquire, TypeOK, GilOf
  <2>3. QED
    BY <2>1, <2>2
<1>4. ASSUME NEW g \in DOMAIN gil', gil'[g] \in Threads
      PROVE  attached'[gil'[g]] # None /\ GilOf(attached'[gil'[g]]) = g
  <2>1. CASE g = GilOf(i)
    BY <1>2, <2>1
  <2>2. CASE g # GilOf(i)
    <3>1. gil'[g] = gil[g] /\ g \in DOMAIN gil
      BY <1>1, <2>2 DEF Acquire, TypeOK
    <3>2. gil[g] # t
      BY <1>4, <3>1 DEF GilFollowsAttachment
    <3>3. QED
      BY <1>4, <3>1, <3>2 DEF Acquire, TypeOK, GilFollowsAttachment
  <2>3. QED
    BY <2>1, <2>2
<1>5. QED
  BY <1>2, <1>3, <1>4 DEF GilFollowsAttachment

\* So does passing the lock on, be it to nobody or, when an interpreter ends
\* that shares its lock, to nobody for good.
LEMMA ReleaseKeepsAgreement ==
  ASSUME TypeOK, GilFollowsAttachment,
         NEW t \in Threads, attached[t] # None,
         NEW to \in {"free", "lost"},
         gil' = [gil EXCEPT ![GilOf(attached[t])] = to],
         attached' = [attached EXCEPT ![t] = None]
  PROVE  GilFollowsAttachment'
<1>1. gil[GilOf(attached[t])] = t /\ GilOf(attached[t]) \in {Main} \cup Ids
  BY DEF GilFollowsAttachment, TypeOK, GilOf
<1>2. ASSUME NEW u \in Threads, attached'[u] # None
      PROVE  gil'[GilOf(attached'[u])] = u
  <2>1. u # t /\ attached'[u] = attached[u] /\ gil[GilOf(attached[u])] = u
    BY <1>2 DEF TypeOK, GilFollowsAttachment
  <2>2. GilOf(attached[u]) # GilOf(attached[t])
    BY <1>1, <2>1
  <2>3. QED
    BY <1>1, <2>1, <2>2 DEF TypeOK, GilOf
<1>3. ASSUME NEW g \in DOMAIN gil', gil'[g] \in Threads
      PROVE  attached'[gil'[g]] # None /\ GilOf(attached'[gil'[g]]) = g
  <2>1. g # GilOf(attached[t]) /\ gil'[g] = gil[g] /\ g \in DOMAIN gil
    BY <1>1, <1>3, ConstantAssumption DEF TypeOK
  <2>2. gil[g] # t
    BY <2>1, <1>3 DEF GilFollowsAttachment
  <2>3. QED
    BY <1>3, <2>1, <2>2 DEF TypeOK, GilFollowsAttachment
<1>4. QED
  BY <1>2, <1>3 DEF GilFollowsAttachment

\* The deleters of a plugin are none, or those of the one interpreter it has,
\* in the order of the destructor or of a move.
LEMMA DeletersOfMember ==
  ASSUME NEW m \in [state : {None} \cup Ids, module : {None} \cup Ids],
         m # Null => m.state # None /\ m.module = m.state,
         NEW order \in {DropsOf(m), MoveDropsOf(m)}
  PROVE  /\ order \in Seq({"state", "module"} \X Ids)
         /\ m = Null => order = <<>>
         /\ \A k \in DOMAIN order : order[k][2] = m.state
<1>1. CASE m = Null
  <2>1. order = <<>>
    BY <1>1 DEF DropsOf, MoveDropsOf
  <2>2. <<>> \in Seq({"state", "module"} \X Ids)
    OBVIOUS
  <2>3. QED
    BY <2>1, <2>2
<1>2. CASE m # Null
  <2>1. m.state \in Ids /\ m.module = m.state
    BY <1>2
  <2>2. \/ order = << <<"module", m.state>>, <<"state", m.state>> >>
        \/ order = << <<"state", m.state>>, <<"module", m.state>> >>
    BY <1>2, <2>1 DEF DropsOf, MoveDropsOf
  <2>3. order \in Seq({"state", "module"} \X Ids)
    <3>1. ASSUME NEW i \in Ids
          PROVE  /\ << <<"module", i>>, <<"state", i>> >> \in Seq({"state", "module"} \X Ids)
                 /\ << <<"state", i>>, <<"module", i>> >> \in Seq({"state", "module"} \X Ids)
      OBVIOUS
    <3>2. QED
      BY <2>1, <2>2, <3>1
  <2>4. \A k \in DOMAIN order : order[k][2] = m.state
    <3>1. CASE order = << <<"module", m.state>>, <<"state", m.state>> >>
      BY <3>1
    <3>2. CASE order = << <<"state", m.state>>, <<"module", m.state>> >>
      BY <3>2
    <3>3. QED
      BY <2>2, <3>1, <3>2
  <2>5. QED
    BY <1>2, <2>3, <2>4
<1>3. QED
  BY <1>1, <1>2

\* Taking over the deleters of a plugin: they are run for its interpreter.
LEMMA DeletersAreTaken ==
  ASSUME TypeOK, OneThreadPerPlugin, NEW t \in Threads, NEW p \in Plugins,
         NEW order \in {DropsOf(member[p]), MoveDropsOf(member[p])},
         drops' = [drops EXCEPT ![t] = order]
  PROVE  /\ drops' \in [Threads -> Seq({"state", "module"} \X Ids)]
         /\ \A u \in Threads : u # t => drops'[u] = drops[u]
         /\ member[p] = Null => drops'[t] = <<>>
         /\ \A k \in DOMAIN drops'[t] : drops'[t][k][2] = member[p].state
<1>1. /\ member[p] \in [state : {None} \cup Ids, module : {None} \cup Ids]
      /\ member[p] # Null => member[p].state # None /\ member[p].module = member[p].state
  BY DEF TypeOK, OneThreadPerPlugin
<1>2. drops'[t] = order /\ \A u \in Threads : u # t => drops'[u] = drops[u]
  BY DEF TypeOK
<1>3. /\ order \in Seq({"state", "module"} \X Ids)
      /\ member[p] = Null => order = <<>>
      /\ \A k \in DOMAIN order : order[k][2] = member[p].state
  BY <1>1, DeletersOfMember
<1>4. QED
  BY <1>2, <1>3 DEF TypeOK

\* A thread that uses a plugin finds an interpreter that has been created.
LEMMA PluginHasInterpreter ==
  ASSUME Locking, NEW t \in Threads,
         pc[t] \in {"publish", "load", "loading", "call", "calling"}
  PROVE  /\ on[t] \in Plugins /\ member[on[t]] # Null
         /\ member[on[t]].state \in Ids /\ interp[member[on[t]].state] # "unused"
BY DEF Locking, TypeOK, AttachedOnTheWay, OneThreadPerPlugin, UnusedIsUnknown

\* A deleter that has taken the lock is the first of those its thread is to run.
LEMMA DeleterIsFirst ==
  ASSUME Locking, NEW t \in Threads, drops[t] # <<>>
  PROVE  /\ Head(drops[t])[2] \in Ids
         /\ interp[Head(drops[t])[2]] # "unused"
         /\ Tail(drops[t]) \in Seq({"state", "module"} \X Ids)
         /\ \A k \in DOMAIN Tail(drops[t]) : interp[Tail(drops[t])[k][2]] # "unused"
<1> DEFINE d == drops[t]
<1>1. d \in Seq({"state", "module"} \X Ids) /\ d # <<>>
  BY DEF Locking, TypeOK
<1>2. /\ Head(d) = d[1] /\ 1 \in DOMAIN d /\ d[1] \in {"state", "module"} \X Ids
      /\ Tail(d) \in Seq({"state", "module"} \X Ids)
      /\ \A k \in DOMAIN Tail(d) : k + 1 \in DOMAIN d /\ Tail(d)[k] = d[k + 1]
  BY <1>1
<1>3. \A k \in DOMAIN d : d[k][2] \in Ids
  BY <1>1
<1>4. \A k \in DOMAIN d : interp[d[k][2]] # "unused"
  BY <1>3 DEF Locking, UnusedIsUnknown
<1>5. QED
  BY <1>2, <1>3, <1>4

-----------------------------------------------------------------------------
(* Locks *)

\* A thread that takes up a plugin nobody uses does not share it.
LEMMA OneBecomesBusy ==
  ASSUME TypeOK, OneThreadPerPlugin, NEW t \in Threads, NEW p \in Plugins, ~InUse(p),
         NEW l, on' = [on EXCEPT ![t] = p], pc' = [pc EXCEPT ![t] = l]
  PROVE  \A u, v \in Threads :
           {pc'[u], pc'[v]} \cap {"idle", "aborted"} = {} /\ on'[u] = on'[v] => u = v
<1> SUFFICES ASSUME NEW u \in Threads, NEW v \in Threads,
                    {pc'[u], pc'[v]} \cap {"idle", "aborted"} = {}, on'[u] = on'[v], u # v
             PROVE  FALSE
  OBVIOUS
<1>1. \A w \in Threads : w # t => pc'[w] = pc[w] /\ on'[w] = on[w]
  BY DEF TypeOK
<1>2. CASE u # t /\ v # t
  BY <1>1, <1>2 DEF OneThreadPerPlugin
<1>3. on'[t] = p
  BY DEF TypeOK
<1>4. CASE u = t \/ v = t
  BY <1>1, <1>3, <1>4 DEF InUse
<1>5. QED
  BY <1>2, <1>4

\* The locks, and what threads, plugins and interpreters have of them, start
\* in order...
LEMMA LockingInit == Init => Locking
<1> SUFFICES ASSUME Init PROVE Locking
  OBVIOUS
<1>1. TypeOK
  BY NullMember DEF Init, TypeOK
<1>2. GilFollowsAttachment
  BY ConstantAssumption DEF Init, GilFollowsAttachment
<1>3. AttachedOnTheWay
  BY DEF Init, AttachedOnTheWay
<1>4. OneThreadPerPlugin
  BY DEF Init, OneThreadPerPlugin
<1>5. UnusedIsUnknown
  BY NullMember DEF Init, UnusedIsUnknown, GilOf
<1>6. QED
  BY <1>1, <1>2, <1>3, <1>4, <1>5 DEF Locking

\* ... and every step of an operation, in whatever order threads take them,
\* leaves them in order.
LEMMA LockingStep == Locking /\ [Next]_vars => Locking'
<1> SUFFICES ASSUME Locking, [Next]_vars PROVE Locking'
  OBVIOUS
<1> USE NullMember DEF Locking
<1>1. ASSUME NEW t \in Threads, Step(t) PROVE Locking'
  <2>1. CASE InitPython(t)
    <3>1. GilFollowsAttachment' /\ attached' \in [Threads -> {None, Main} \cup Ids]
      <4>1. attached[t] = None /\ Main \in {Main} \cup Ids
        BY <2>1 DEF AttachedOnTheWay, InitPython
      <4>2. QED
        BY <2>1, <4>1, AcquireKeepsAgreement DEF InitPython
    <3>2. TypeOK'
      BY <2>1, <3>1 DEF TypeOK, InitPython, Acquire, GilOf
    <3>3. AttachedOnTheWay'
      BY <2>1, ConstantAssumption DEF TypeOK, AttachedOnTheWay, OneThreadPerPlugin, UnusedIsUnknown, InitPython, Acquire, GilOf, InUse
    <3>4. OneThreadPerPlugin'
      BY <2>1, ConstantAssumption DEF TypeOK, AttachedOnTheWay, OneThreadPerPlugin, UnusedIsUnknown, InitPython, Acquire, GilOf, InUse
    <3>5. UnusedIsUnknown'
      BY <2>1, ConstantAssumption DEF TypeOK, AttachedOnTheWay, OneThreadPerPlugin, UnusedIsUnknown, InitPython, Acquire, GilOf, InUse
    <3>6. QED
      BY <3>1, <3>2, <3>3, <3>4, <3>5
  <2>2. CASE ReleaseMain(t)
    <3>1. GilFollowsAttachment'
      <4>1. attached[t] # None
        BY <2>2 DEF AttachedOnTheWay, ReleaseMain
      <4>2. QED
        BY <2>2, <4>1, ReleaseKeepsAgreement DEF ReleaseMain, ReleaseThread
    <3>2. TypeOK'
      BY <2>2, <3>1 DEF TypeOK, ReleaseMain, ReleaseThread, GilOf
    <3>3. AttachedOnTheWay'
      BY <2>2, ConstantAssumption DEF TypeOK, AttachedOnTheWay, OneThreadPerPlugin, UnusedIsUnknown, ReleaseMain, ReleaseThread, GilOf, InUse
    <3>4. OneThreadPerPlugin'
      BY <2>2, ConstantAssumption DEF TypeOK, AttachedOnTheWay, OneThreadPerPlugin, UnusedIsUnknown, ReleaseMain, ReleaseThread, GilOf, InUse
    <3>5. UnusedIsUnknown'
      BY <2>2, ConstantAssumption DEF TypeOK, AttachedOnTheWay, OneThreadPerPlugin, UnusedIsUnknown, ReleaseMain, ReleaseThread, GilOf, InUse
    <3>6. QED
      BY <3>1, <3>2, <3>3, <3>4, <3>5
  <2>3. CASE OnceDone(t)
    <3>1. GilFollowsAttachment'
      BY <2>3 DEF GilFollowsAttachment, OnceDone
    <3>2. TypeOK'
      BY <2>3, <3>1 DEF TypeOK, OnceDone, GilOf
    <3>3. AttachedOnTheWay'
      BY <2>3, ConstantAssumption DEF TypeOK, AttachedOnTheWay, OneThreadPerPlugin, UnusedIsUnknown, OnceDone, GilOf, InUse
    <3>4. OneThreadPerPlugin'
      BY <2>3, ConstantAssumption DEF TypeOK, AttachedOnTheWay, OneThreadPerPlugin, UnusedIsUnknown, OnceDone, GilOf, InUse
    <3>5. UnusedIsUnknown'
      BY <2>3, ConstantAssumption DEF TypeOK, AttachedOnTheWay, OneThreadPerPlugin, UnusedIsUnknown, OnceDone, GilOf, InUse
    <3>6. QED
      BY <3>1, <3>2, <3>3, <3>4, <3>5
  <2>4. CASE Ensure(t)
    <3>1. GilFollowsAttachment' /\ attached' \in [Threads -> {None, Main} \cup Ids]
      <4>1. attached[t] = None
        BY <2>4 DEF AttachedOnTheWay, Ensure
      <4>2. PICK i \in {Main} \cup Ids : Acquire(t, i)
        BY <2>4 DEF Ensure
      <4>3. QED
        BY <4>1, <4>2, AcquireKeepsAgreement
    <3>2. TypeOK'
      BY <2>4, <3>1 DEF TypeOK, Ensure, Acquire, GilOf
    <3>3. AttachedOnTheWay'
      BY <2>4, ConstantAssumption DEF TypeOK, AttachedOnTheWay, OneThreadPerPlugin, UnusedIsUnknown, Ensure, Acquire, GilOf, InUse
    <3>4. OneThreadPerPlugin'
      BY <2>4, ConstantAssumption DEF TypeOK, AttachedOnTheWay, OneThreadPerPlugin, UnusedIsUnknown, Ensure, Acquire, GilOf, InUse
    <3>5. UnusedIsUnknown'
      BY <2>4, ConstantAssumption DEF TypeOK, AttachedOnTheWay, OneThreadPerPlugin, UnusedIsUnknown, Ensure, Acquire, GilOf, InUse
    <3>6. QED
      BY <3>1, <3>2, <3>3, <3>4, <3>5
  <2>5. CASE NewInterpreter(t)
    <3>1. GilFollowsAttachment'
      <4>1. PICK i \in Ids :
              /\ interp[i] = "unused"
              /\ gil' = [gil EXCEPT ![GilOf(attached[t])] = "free", ![GilOf(i)] = t]
              /\ attached' = [attached EXCEPT ![t] = i]
        BY <2>5 DEF NewInterpreter
      <4>2. attached[t] # None /\ gil[GilOf(attached[t])] = t
        BY <2>5 DEF NewInterpreter, AttachedOnTheWay, GilFollowsAttachment, GilOf
      <4>3. OwnGil => gil[i] = "free"
        BY <4>1 DEF UnusedIsUnknown
      <4>4. ASSUME NEW u \in Threads, attached'[u] # None
            PROVE  gil'[GilOf(attached'[u])] = u
        BY <4>1, <4>2, <4>3, <4>4, ConstantAssumption DEF TypeOK, GilFollowsAttachment, GilOf
      <4>5. ASSUME NEW g \in DOMAIN gil', gil'[g] \in Threads
            PROVE  attached'[gil'[g]] # None /\ GilOf(attached'[gil'[g]]) = g
        <5>1. CASE gil'[g] = t
          <6>1. attached'[t] = i
            BY <4>1 DEF TypeOK
          <6>2. g = GilOf(i)
            <7>1. SUFFICES ASSUME g # GilOf(i) PROVE FALSE
              OBVIOUS
            <7>2. g # GilOf(attached[t])
              BY <4>1, <5>1, <7>1, ConstantAssumption DEF TypeOK
            <7>3. g \in DOMAIN gil /\ gil[g] = t
              BY <4>1, <5>1, <7>1, <7>2 DEF TypeOK
            <7>4. GilOf(attached[t]) = g
              BY <7>3 DEF GilFollowsAttachment
            <7>5. QED
              BY <7>2, <7>4
          <6>3. QED
            BY <5>1, <6>1, <6>2
        <5>2. CASE gil'[g] # t
          <6>1. gil'[g] = gil[g] /\ g \in DOMAIN gil
            BY <4>1, <4>5, <5>2, ConstantAssumption DEF TypeOK, GilOf
          <6>2. attached'[gil'[g]] = attached[gil[g]]
            BY <4>1, <4>5, <5>2, <6>1 DEF TypeOK
          <6>3. QED
            BY <4>5, <6>1, <6>2 DEF GilFollowsAttachment
        <5>3. QED
          BY <5>1, <5>2
      <4>6. QED
        BY <4>4, <4>5 DEF GilFollowsAttachment
    <3>2. TypeOK'
      BY <2>5, <3>1 DEF TypeOK, NewInterpreter, GilOf
    <3>3. AttachedOnTheWay'
      BY <2>5, ConstantAssumption DEF TypeOK, AttachedOnTheWay, OneThreadPerPlugin, UnusedIsUnknown, NewInterpreter, GilOf, InUse
    <3>4. OneThreadPerPlugin'
      BY <2>5, ConstantAssumption DEF TypeOK, AttachedOnTheWay, OneThreadPerPlugin, UnusedIsUnknown, NewInterpreter, GilOf, InUse
    <3>5. UnusedIsUnknown'
      BY <2>5, ConstantAssumption DEF TypeOK, AttachedOnTheWay, OneThreadPerPlugin, UnusedIsUnknown, NewInterpreter, GilOf, InUse
    <3>6. QED
      BY <3>1, <3>2, <3>3, <3>4, <3>5
  <2>6. CASE Publish(t)
    <3>1. GilFollowsAttachment'
      <4>1. attached[t] # None
        BY <2>6, PluginHasInterpreter DEF AttachedOnTheWay, Publish
      <4>2. QED
        BY <2>6, <4>1, ReleaseKeepsAgreement DEF Publish, ReleaseThread
    <3>2. TypeOK'
      BY <2>6, <3>1 DEF TypeOK, Publish, ReleaseThread, GilOf
    <3>3. AttachedOnTheWay'
      BY <2>6, ConstantAssumption DEF TypeOK, AttachedOnTheWay, OneThreadPerPlugin, UnusedIsUnknown, Publish, ReleaseThread, GilOf, InUse
    <3>4. OneThreadPerPlugin'
      BY <2>6, ConstantAssumption DEF TypeOK, AttachedOnTheWay, OneThreadPerPlugin, UnusedIsUnknown, Publish, ReleaseThread, GilOf, InUse
    <3>5. UnusedIsUnknown'
      BY <2>6, ConstantAssumption DEF TypeOK, AttachedOnTheWay, OneThreadPerPlugin, UnusedIsUnknown, Publish, ReleaseThread, GilOf, InUse
    <3>6. QED
      BY <3>1, <3>2, <3>3, <3>4, <3>5
  <2>7. CASE OpenFails(t)
    <3>1. GilFollowsAttachment'
      BY <2>7 DEF GilFollowsAttachment, OpenFails
    <3>2. /\ drops' \in [Threads -> Seq({"state", "module"} \X Ids)]
          /\ \A u \in Threads : u # t => drops'[u] = drops[u]
          /\ \A k \in DOMAIN drops'[t] : drops'[t][k][2] = member[on[t]].state
      BY <2>7, DeletersAreTaken DEF TypeOK, OpenFails, Drop
    <3>3. TypeOK'
      BY <2>7, <3>1, <3>2 DEF TypeOK, OpenFails, Drop, GilOf
    <3>4. AttachedOnTheWay'
      BY <2>7, <3>2, ConstantAssumption DEF TypeOK, AttachedOnTheWay, OneThreadPerPlugin, UnusedIsUnknown, OpenFails, Drop, GilOf, InUse
    <3>5. OneThreadPerPlugin'
      BY <2>7, <3>2, ConstantAssumption DEF TypeOK, AttachedOnTheWay, OneThreadPerPlugin, UnusedIsUnknown, OpenFails, Drop, GilOf, InUse
    <3>6. UnusedIsUnknown'
      BY <2>7, <3>2, ConstantAssumption DEF TypeOK, AttachedOnTheWay, OneThreadPerPlugin, UnusedIsUnknown, OpenFails, Drop, GilOf, InUse
    <3>7. QED
      BY <3>1, <3>3, <3>4, <3>5, <3>6
  <2>8. CASE Load(t)
    <3>1. GilFollowsAttachment' /\ attached' \in [Threads -> {None, Main} \cup Ids]
      <4>1. attached[t] = None /\ member[on[t]].state \in {Main} \cup Ids
        BY <2>8, PluginHasInterpreter DEF AttachedOnTheWay, Load
      <4>2. QED
        BY <2>8, <4>1, AcquireKeepsAgreement DEF Load
    <3>2. TypeOK'
      BY <2>8, <3>1 DEF TypeOK, Load, Acquire, GilOf
    <3>3. AttachedOnTheWay'
      BY <2>8, ConstantAssumption DEF TypeOK, AttachedOnTheWay, OneThreadPerPlugin, UnusedIsUnknown, Load, Acquire, GilOf, InUse
    <3>4. OneThreadPerPlugin'
      BY <2>8, ConstantAssumption DEF TypeOK, AttachedOnTheWay, OneThreadPerPlugin, UnusedIsUnknown, Load, Acquire, GilOf, InUse
    <3>5. UnusedIsUnknown'
      BY <2>8, ConstantAssumption DEF TypeOK, AttachedOnTheWay, OneThreadPerPlugin, UnusedIsUnknown, Load, Acquire, GilOf, InUse
    <3>6. QED
      BY <3>1, <3>2, <3>3, <3>4, <3>5
  <2>9. CASE Loaded(t)
    <3>1. GilFollowsAttachment'
      <4>1. attached[t] # None
        BY <2>9 DEF AttachedOnTheWay, Loaded
      <4>2. QED
        BY <2>9, <4>1, ReleaseKeepsAgreement DEF Loaded, ReleaseThread
    <3>2. /\ drops' \in [Threads -> Seq({"state", "module"} \X Ids)]
          /\ \A u \in Threads : u # t => drops'[u] = drops[u]
          /\ \A k \in DOMAIN drops'[t] : drops'[t][k][2] = member[on[t]].state
      <4>1. CASE Drop(t, on[t])
        BY <2>9, <4>1, DeletersAreTaken DEF TypeOK, Drop
      <4>2. CASE UNCHANGED drops
        <5>1. drops[t] = <<>> /\ drops \in [Threads -> Seq({"state", "module"} \X Ids)]
          BY <2>9 DEF TypeOK, AttachedOnTheWay, Loaded
        <5>2. DOMAIN drops[t] = {}
          BY <5>1
        <5>3. QED
          BY <4>2, <5>1, <5>2
      <4>3. QED
        BY <2>9, <4>1, <4>2 DEF Loaded
    <3>3. /\ pc[t] = "loading" /\ attached[t] # None /\ ReleaseThread(t)
          /\ UNCHANGED <<once, interp, on>>
          /\ \/ pc' = [pc EXCEPT ![t] = "idle"] /\ UNCHANGED <<member, drops>>
             \/ /\ pc' = [pc EXCEPT ![t] = "drop"]
                /\ member' = [member EXCEPT ![on[t]] = Null]
      BY <2>9 DEF Loaded, Drop
    <3>4. /\ member' \in [Plugins -> [state : {None} \cup Ids, module : {None} \cup Ids]]
          /\ \A r \in Plugins : member'[r] = member[r] \/ member'[r] = Null
          /\ pc' \in [Threads -> {"idle", "once", "init", "ensure", "new", "publish",
                        "load", "loading", "call", "calling", "drop", "dropping",
                        "aborted"}]
          /\ \A u \in Threads : u # t => pc'[u] = pc[u]
      <4>1. CASE pc' = [pc EXCEPT ![t] = "idle"] /\ UNCHANGED <<member, drops>>
        BY <3>3, <4>1 DEF TypeOK
      <4>2. CASE pc' = [pc EXCEPT ![t] = "drop"] /\ member' = [member EXCEPT ![on[t]] = Null]
        BY <3>3, <4>2 DEF TypeOK
      <4>3. QED
        BY <3>3, <4>1, <4>2
    <3>5. /\ gil' \in [{Main} \cup Ids -> Threads \cup {"free", "lost"}]
          /\ attached' \in [Threads -> {None, Main} \cup Ids]
      BY <3>3 DEF TypeOK, ReleaseThread, GilOf
    <3>6. TypeOK'
      BY <3>2, <3>3, <3>4, <3>5 DEF TypeOK
    <3>7. AttachedOnTheWay'
      BY <3>2, <3>3, ConstantAssumption DEF TypeOK, AttachedOnTheWay, OneThreadPerPlugin, ReleaseThread
    <3>8. OneThreadPerPlugin'
      <4>1. \A u \in Threads : pc[u] \in {"idle", "aborted"} => pc'[u] \in {"idle", "aborted"}
        BY <3>3, <3>4
      <4>2. \A u, v \in Threads :
              {pc'[u], pc'[v]} \cap {"idle", "aborted"} = {} /\ on'[u] = on'[v] => u = v
        BY <3>3, <4>1 DEF OneThreadPerPlugin
      <4>3. \A r \in Plugins : member'[r] # Null =>
              member'[r].state # None /\ member'[r].module = member'[r].state
        BY <3>4 DEF OneThreadPerPlugin
      <4>4. QED
        BY <4>2, <4>3 DEF OneThreadPerPlugin
    <3>9. UnusedIsUnknown'
      <4>1. ASSUME NEW i \in Ids, interp[i] = "unused"
            PROVE  /\ OwnGil => gil'[i] = "free"
                   /\ \A r \in Plugins : member'[r].state # i
                   /\ \A u \in Threads : \A k \in DOMAIN drops'[u] : drops'[u][k][2] # i
        <5>1. OwnGil => gil'[i] = "free"
          BY <3>3, <4>1 DEF TypeOK, UnusedIsUnknown, ReleaseThread, GilOf
        <5>2. \A r \in Plugins : member'[r].state # i
          BY <3>4, <4>1 DEF UnusedIsUnknown
        <5>3. member[on[t]].state # i
          BY <4>1 DEF TypeOK, UnusedIsUnknown
        <5>4. \A u \in Threads : \A k \in DOMAIN drops'[u] : drops'[u][k][2] # i
          BY <3>2, <4>1, <5>3 DEF UnusedIsUnknown
        <5>5. QED
          BY <5>1, <5>2, <5>4
      <4>2. QED
        BY <3>3, <4>1 DEF UnusedIsUnknown
    <3>10. QED
      BY <3>1, <3>6, <3>7, <3>8, <3>9
  <2>10. CASE Call(t)
    <3>1. GilFollowsAttachment' /\ attached' \in [Threads -> {None, Main} \cup Ids]
      <4>1. attached[t] = None /\ member[on[t]].state \in {Main} \cup Ids
        BY <2>10, PluginHasInterpreter DEF AttachedOnTheWay, Call
      <4>2. QED
        BY <2>10, <4>1, AcquireKeepsAgreement DEF Call
    <3>2. TypeOK'
      BY <2>10, <3>1 DEF TypeOK, Call, Acquire, GilOf
    <3>3. AttachedOnTheWay'
      BY <2>10, ConstantAssumption DEF TypeOK, AttachedOnTheWay, OneThreadPerPlugin, UnusedIsUnknown, Call, Acquire, GilOf, InUse
    <3>4. OneThreadPerPlugin'
      BY <2>10, ConstantAssumption DEF TypeOK, AttachedOnTheWay, OneThreadPerPlugin, UnusedIsUnknown, Call, Acquire, GilOf, InUse
    <3>5. UnusedIsUnknown'
      BY <2>10, ConstantAssumption DEF TypeOK, AttachedOnTheWay, OneThreadPerPlugin, UnusedIsUnknown, Call, Acquire, GilOf, InUse
    <3>6. QED
      BY <3>1, <3>2, <3>3, <3>4, <3>5
  <2>11. CASE Called(t)
    <3>1. GilFollowsAttachment'
      <4>1. attached[t] # None
        BY <2>11 DEF AttachedOnTheWay, Called
      <4>2. QED
        BY <2>11, <4>1, ReleaseKeepsAgreement DEF Called, ReleaseThread
    <3>2. TypeOK'
      BY <2>11, <3>1 DEF TypeOK, Called, ReleaseThread, GilOf
    <3>3. AttachedOnTheWay'
      BY <2>11, ConstantAssumption DEF TypeOK, AttachedOnTheWay, OneThreadPerPlugin, UnusedIsUnknown, Called, ReleaseThread, GilOf, InUse
    <3>4. OneThreadPerPlugin'
      BY <2>11, ConstantAssumption DEF TypeOK, AttachedOnTheWay, OneThreadPerPlugin, UnusedIsUnknown, Called, ReleaseThread, GilOf, InUse
    <3>5. UnusedIsUnknown'
      BY <2>11, ConstantAssumption DEF TypeOK, AttachedOnTheWay, OneThreadPerPlugin, UnusedIsUnknown, Called, ReleaseThread, GilOf, InUse
    <3>6. QED
      BY <3>1, <3>2, <3>3, <3>4, <3>5
  <2>12. CASE Yield(t)
    <3>1. GilFollowsAttachment'
      <4>1. attached[t] # None
        BY <2>12 DEF AttachedOnTheWay, Yield
      <4>2. QED
        BY <2>12, <4>1, ReleaseKeepsAgreement DEF Yield, ReleaseThread
    <3>2. TypeOK'
      BY <2>12, <3>1 DEF TypeOK, Yield, ReleaseThread, GilOf
    <3>3. AttachedOnTheWay'
      BY <2>12, ConstantAssumption DEF TypeOK, AttachedOnTheWay, OneThreadPerPlugin, UnusedIsUnknown, Yield, ReleaseThread, GilOf, InUse
    <3>4. OneThreadPerPlugin'
      BY <2>12, ConstantAssumption DEF TypeOK, AttachedOnTheWay, OneThreadPerPlugin, UnusedIsUnknown, Yield, ReleaseThread, GilOf, InUse
    <3>5. UnusedIsUnknown'
      BY <2>12, ConstantAssumption DEF TypeOK, AttachedOnTheWay, OneThreadPerPlugin, UnusedIsUnknown, Yield, ReleaseThread, GilOf, InUse
    <3>6. QED
      BY <3>1, <3>2, <3>3, <3>4, <3>5
  <2>13. CASE Resume(t)
    <3>1. GilFollowsAttachment' /\ attached' \in [Threads -> {None, Main} \cup Ids]
      <4>1. attached[t] = None /\ member[on[t]].state \in {Main} \cup Ids
        BY <2>13, PluginHasInterpreter DEF AttachedOnTheWay, Resume
      <4>2. QED
        BY <2>13, <4>1, AcquireKeepsAgreement DEF Resume
    <3>2. TypeOK'
      BY <2>13, <3>1 DEF TypeOK, Resume, Acquire, GilOf
    <3>3. AttachedOnTheWay'
      BY <2>13, ConstantAssumption DEF TypeOK, AttachedOnTheWay, OneThreadPerPlugin, UnusedIsUnknown, Resume, Acquire, GilOf, InUse
    <3>4. OneThreadPerPlugin'
      BY <2>13, ConstantAssumption DEF TypeOK, AttachedOnTheWay, OneThreadPerPlugin, UnusedIsUnknown, Resume, Acquire, GilOf, InUse
    <3>5. UnusedIsUnknown'
      BY <2>13, ConstantAssumption DEF TypeOK, AttachedOnTheWay, OneThreadPerPlugin, UnusedIsUnknown, Resume, Acquire, GilOf, InUse
    <3>6. QED
      BY <3>1, <3>2, <3>3, <3>4, <3>5
  <2>14. CASE DropLock(t)
    <3>1. GilFollowsAttachment' /\ attached' \in [Threads -> {None, Main} \cup Ids]
      <4>1. attached[t] = None /\ Head(drops[t])[2] \in {Main} \cup Ids
        BY <2>14, DeleterIsFirst DEF AttachedOnTheWay, DropLock
      <4>2. QED
        BY <2>14, <4>1, AcquireKeepsAgreement DEF DropLock
    <3>2. TypeOK'
      BY <2>14, <3>1 DEF TypeOK, DropLock, Acquire, GilOf
    <3>3. AttachedOnTheWay'
      BY <2>14, ConstantAssumption DEF TypeOK, AttachedOnTheWay, OneThreadPerPlugin, UnusedIsUnknown, DropLock, Acquire, GilOf, InUse
    <3>4. OneThreadPerPlugin'
      BY <2>14, ConstantAssumption DEF TypeOK, AttachedOnTheWay, OneThreadPerPlugin, UnusedIsUnknown, DropLock, Acquire, GilOf, InUse
    <3>5. UnusedIsUnknown'
      BY <2>14, ConstantAssumption DEF TypeOK, AttachedOnTheWay, OneThreadPerPlugin, UnusedIsUnknown, DropLock, Acquire, GilOf, InUse
    <3>6. QED
      BY <3>1, <3>2, <3>3, <3>4, <3>5
  <2>15. CASE DropModule(t)
    <3>1. GilFollowsAttachment'
      <4>1. attached[t] # None
        BY <2>15, DeleterIsFirst DEF AttachedOnTheWay, DropModule
      <4>2. QED
        BY <2>15, <4>1, ReleaseKeepsAgreement DEF DropModule, ReleaseThread
    <3>2. TypeOK'
      BY <2>15, <3>1, DeleterIsFirst DEF TypeOK, AttachedOnTheWay, DropModule, ReleaseThread, GilOf
    <3>3. AttachedOnTheWay'
      BY <2>15, DeleterIsFirst, ConstantAssumption DEF TypeOK, AttachedOnTheWay, OneThreadPerPlugin, UnusedIsUnknown, DropModule, ReleaseThread, GilOf, InUse
    <3>4. OneThreadPerPlugin'
      BY <2>15, DeleterIsFirst, ConstantAssumption DEF TypeOK, AttachedOnTheWay, OneThreadPerPlugin, UnusedIsUnknown, DropModule, ReleaseThread, GilOf, InUse
    <3>5. UnusedIsUnknown'
      BY <2>15, DeleterIsFirst, ConstantAssumption DEF TypeOK, AttachedOnTheWay, OneThreadPerPlugin, UnusedIsUnknown, DropModule, ReleaseThread, GilOf, InUse
    <3>6. QED
      BY <3>1, <3>2, <3>3, <3>4, <3>5
  <2>16. CASE EndInterpreter(t)
    <3>1. GilFollowsAttachment'
      <4>1. attached[t] # None
        BY <2>16, DeleterIsFirst DEF AttachedOnTheWay, EndInterpreter
      <4>2. QED
        BY <2>16, <4>1, ReleaseKeepsAgreement DEF EndInterpreter, ReleaseThread
    <3>2. TypeOK'
      BY <2>16, <3>1, DeleterIsFirst DEF TypeOK, AttachedOnTheWay, EndInterpreter, GilOf
    <3>3. AttachedOnTheWay'
      BY <2>16, DeleterIsFirst, ConstantAssumption DEF TypeOK, AttachedOnTheWay, OneThreadPerPlugin, UnusedIsUnknown, EndInterpreter, GilOf, InUse
    <3>4. OneThreadPerPlugin'
      BY <2>16, DeleterIsFirst, ConstantAssumption DEF TypeOK, AttachedOnTheWay, OneThreadPerPlugin, UnusedIsUnknown, EndInterpreter, GilOf, InUse
    <3>5. UnusedIsUnknown'
      BY <2>16, DeleterIsFirst, ConstantAssumption DEF TypeOK, AttachedOnTheWay, OneThreadPerPlugin, UnusedIsUnknown, EndInterpreter, GilOf, InUse
    <3>6. QED
      BY <3>1, <3>2, <3>3, <3>4, <3>5
  <2>17. CASE Dropped(t)
    <3>1. GilFollowsAttachment'
      BY <2>17 DEF GilFollowsAttachment, Dropped
    <3>2. TypeOK'
      BY <2>17, <3>1 DEF TypeOK, Dropped, GilOf
    <3>3. AttachedOnTheWay'
      BY <2>17, ConstantAssumption DEF TypeOK, AttachedOnTheWay, OneThreadPerPlugin, UnusedIsUnknown, Dropped, GilOf, InUse
    <3>4. OneThreadPerPlugin'
      BY <2>17, ConstantAssumption DEF TypeOK, AttachedOnTheWay, OneThreadPerPlugin, UnusedIsUnknown, Dropped, GilOf, InUse
    <3>5. UnusedIsUnknown'
      BY <2>17, ConstantAssumption DEF TypeOK, AttachedOnTheWay, OneThreadPerPlugin, UnusedIsUnknown, Dropped, GilOf, InUse
    <3>6. QED
      BY <3>1, <3>2, <3>3, <3>4, <3>5
  <2>18. CASE CannotCreate(t)
    <3>1. GilFollowsAttachment'
      BY <2>18 DEF GilFollowsAttachment, CannotCreate
    <3>2. TypeOK'
      BY <2>18 DEF TypeOK, CannotCreate
    <3>3. AttachedOnTheWay'
      BY <2>18 DEF AttachedOnTheWay, CannotCreate
    <3>4. OneThreadPerPlugin'
      BY <2>18 DEF OneThreadPerPlugin, CannotCreate
    <3>5. UnusedIsUnknown'
      BY <2>18 DEF UnusedIsUnknown, CannotCreate
    <3>6. QED
      BY <3>1, <3>2, <3>3, <3>4, <3>5
  <2>19. QED
    BY <1>1, <2>1, <2>2, <2>3, <2>4, <2>5, <2>6, <2>7, <2>8, <2>9, <2>10, <2>11, <2>12, <2>13, <2>14, <2>15, <2>16, <2>17, <2>18 DEF Step
<1>2. ASSUME NEW t \in Threads, HostStep(t) PROVE Locking'
  <2>1. PICK p \in Plugins :
          \/ Construct(t, p) \/ Use(t, p) \/ Destroy(t, p)
          \/ \E q \in Plugins : MoveAssign(t, p, q)
    BY <1>2 DEF HostStep
  <2>2. CASE Construct(t, p)
    <3>1. GilFollowsAttachment'
      BY <2>2 DEF GilFollowsAttachment, Construct
    <3>2. TypeOK'
      BY <2>2, <3>1 DEF TypeOK, Construct, GilOf
    <3>3. AttachedOnTheWay'
      BY <2>2, ConstantAssumption DEF TypeOK, AttachedOnTheWay, OneThreadPerPlugin, UnusedIsUnknown, Construct, GilOf, InUse
    <3>4. OneThreadPerPlugin'
      BY <2>2, OneBecomesBusy DEF OneThreadPerPlugin, Construct
    <3>5. UnusedIsUnknown'
      BY <2>2, ConstantAssumption DEF TypeOK, AttachedOnTheWay, OneThreadPerPlugin, UnusedIsUnknown, Construct, GilOf, InUse
    <3>6. QED
      BY <3>1, <3>2, <3>3, <3>4, <3>5
  <2>3. CASE Use(t, p)
    <3>1. GilFollowsAttachment'
      BY <2>3 DEF GilFollowsAttachment, Use
    <3>2. TypeOK'
      BY <2>3, <3>1 DEF TypeOK, Use, GilOf
    <3>3. AttachedOnTheWay'
      BY <2>3, ConstantAssumption DEF TypeOK, AttachedOnTheWay, OneThreadPerPlugin, UnusedIsUnknown, Use, GilOf, InUse
    <3>4. OneThreadPerPlugin'
      BY <2>3, OneBecomesBusy DEF OneThreadPerPlugin, Use
    <3>5. UnusedIsUnknown'
      BY <2>3, ConstantAssumption DEF TypeOK, AttachedOnTheWay, OneThreadPerPlugin, UnusedIsUnknown, Use, GilOf, InUse
    <3>6. QED
      BY <3>1, <3>2, <3>3, <3>4, <3>5
  <2>4. CASE Destroy(t, p)
    <3>1. GilFollowsAttachment'
      BY <2>4 DEF GilFollowsAttachment, Destroy
    <3>2. /\ drops' \in [Threads -> Seq({"state", "module"} \X Ids)]
          /\ \A u \in Threads : u # t => drops'[u] = drops[u]
          /\ \A k \in DOMAIN drops'[t] : drops'[t][k][2] = member[p].state
      BY <2>4, DeletersAreTaken DEF TypeOK, Destroy, Drop
    <3>3. TypeOK'
      BY <2>4, <3>1, <3>2 DEF TypeOK, Destroy, Drop, GilOf
    <3>4. AttachedOnTheWay'
      BY <2>4, <3>2, ConstantAssumption DEF TypeOK, AttachedOnTheWay, OneThreadPerPlugin, UnusedIsUnknown, Destroy, Drop, GilOf, InUse
    <3>5. OneThreadPerPlugin'
      <4>1. \A r \in Plugins : member'[r] = member[r] \/ member'[r] = Null
        BY <2>4 DEF TypeOK, Destroy, Drop
      <4>2. QED
        BY <2>4, <4>1, OneBecomesBusy DEF OneThreadPerPlugin, Destroy, Drop
    <3>6. UnusedIsUnknown'
      BY <2>4, <3>2, ConstantAssumption DEF TypeOK, AttachedOnTheWay, OneThreadPerPlugin, UnusedIsUnknown, Destroy, Drop, GilOf, InUse
    <3>7. QED
      BY <3>1, <3>3, <3>4, <3>5, <3>6
  <2>5. ASSUME NEW q \in Plugins, MoveAssign(t, p, q) PROVE Locking'
    <3>1. /\ drops' \in [Threads -> Seq({"state", "module"} \X Ids)]
          /\ \A u \in Threads : u # t => drops'[u] = drops[u]
          /\ \A k \in DOMAIN drops'[t] : drops'[t][k][2] = member[p].state
      BY <2>5, DeletersAreTaken DEF MoveAssign
    <3>2. /\ pc[t] = "idle" /\ ~InUse(p) /\ ~InUse(q) /\ p # q
          /\ on' = [on EXCEPT ![t] = p] /\ pc' = [pc EXCEPT ![t] = "drop"]
          /\ UNCHANGED <<once, gil, attached, interp>>
          /\ member' = [member EXCEPT ![p] = member[q], ![q] = Null]
      BY <2>5 DEF MoveAssign
    <3>3. /\ member' \in [Plugins -> [state : {None} \cup Ids, module : {None} \cup Ids]]
          /\ member'[p] = member[q] /\ member'[q] = Null
          /\ \A r \in Plugins : r # p /\ r # q => member'[r] = member[r]
      BY <3>2 DEF TypeOK
    <3>4. TypeOK'
      BY <3>1, <3>2, <3>3 DEF TypeOK
    <3>5. GilFollowsAttachment'
      BY <3>2 DEF GilFollowsAttachment
    <3>6. AttachedOnTheWay'
      BY <3>1, <3>2, <3>3 DEF TypeOK, AttachedOnTheWay, InUse
    <3>7. OneThreadPerPlugin'
      <4>1. \A u, v \in Threads :
              {pc'[u], pc'[v]} \cap {"idle", "aborted"} = {} /\ on'[u] = on'[v] => u = v
        BY <3>2, OneBecomesBusy
      <4>2. \A r \in Plugins : member'[r] # Null =>
              member'[r].state # None /\ member'[r].module = member'[r].state
        BY <3>3 DEF OneThreadPerPlugin
      <4>3. QED
        BY <4>1, <4>2 DEF OneThreadPerPlugin
    <3>8. UnusedIsUnknown'
      <4>1. ASSUME NEW i \in Ids, interp[i] = "unused"
            PROVE  /\ \A r \in Plugins : member'[r].state # i
                   /\ \A u \in Threads : \A k \in DOMAIN drops'[u] : drops'[u][k][2] # i
        <5>1. \A r \in Plugins : member[r].state # i
          BY <4>1 DEF UnusedIsUnknown
        <5>2. \A r \in Plugins : member'[r].state # i
          BY <3>3, <5>1
        <5>3. ASSUME NEW u \in Threads, NEW k \in DOMAIN drops'[u]
              PROVE  drops'[u][k][2] # i
          <6>1. CASE u = t
            BY <3>1, <5>1, <6>1
          <6>2. CASE u # t
            BY <3>1, <4>1, <6>2 DEF UnusedIsUnknown
          <6>3. QED
            BY <6>1, <6>2
        <5>4. QED
          BY <5>2, <5>3
      <4>2. QED
        BY <3>2, <4>1 DEF UnusedIsUnknown
    <3>9. QED
      BY <3>4, <3>5, <3>6, <3>7, <3>8
  <2>6. QED
    BY <2>1, <2>2, <2>3, <2>4, <2>5
<1>3. CASE UNCHANGED vars
  BY <1>3 DEF vars, TypeOK, GilFollowsAttachment, AttachedOnTheWay, OneThreadPerPlugin,
     UnusedIsUnknown, InUse
<1>4. QED
  BY <1>1, <1>2, <1>3 DEF Next

-----------------------------------------------------------------------------
(* Lives of interpreters *)

\* Interpreters, plugins and deleters stay as they are, and so do the owners.
LEMMA OwnersUnchanged ==
  ASSUME DropsInOrder, OneOwner, UNCHANGED <<interp, member, drops>>
  PROVE  DropsInOrder' /\ OneOwner'
BY DEF DropsInOrder, OneOwner

\* A destructor, and the end of a load that failed, passes the interpreter on
\* to the thread that runs the deleters.
LEMMA DropPassesOwnership ==
  ASSUME Locking, DropsInOrder, OneOwner,
         NEW t \in Threads, NEW p \in Plugins,
         drops[t] = <<>>, member[p] # Null, Drop(t, p), UNCHANGED interp
  PROVE  DropsInOrder' /\ OneOwner'
<1> USE NullMember
<1> DEFINE i == member[p].state
<1>1. i \in Ids /\ member[p].module = i /\ interp[i] = "alive"
  BY DEF Locking, TypeOK, OneThreadPerPlugin, OneOwner
<1>2. drops'[t] = << <<"module", i>>, <<"state", i>> >>
  BY <1>1 DEF Locking, TypeOK, Drop, DropsOf
<1>3. drops'[t] # <<>> /\ Head(drops'[t])[2] = i
  BY <1>2
<1>4. \A u \in Threads : u # t => drops'[u] = drops[u]
  BY DEF Locking, TypeOK, Drop
<1>5. /\ member'[p] = Null /\ \A q \in Plugins : q # p => member'[q] = member[q]
  BY DEF Locking, TypeOK, Drop
<1>6. DropsInOrder'
  BY <1>1, <1>2, <1>4 DEF DropsInOrder
<1>7. OneOwner'
  <2>1. ASSUME NEW q \in Plugins, member'[q] # Null
        PROVE  /\ interp'[member'[q].state] = "alive"
               /\ \A r \in Plugins : member'[r].state = member'[q].state => r = q
               /\ \A u \in Threads : drops'[u] # <<>> => Head(drops'[u])[2] # member'[q].state
    <3>1. q # p /\ member'[q] = member[q] /\ member[q].state \in Ids
      BY <1>5, <2>1 DEF Locking, TypeOK, OneThreadPerPlugin
    <3>2. \A r \in Plugins : member'[r].state = member'[q].state => r = q
      BY <1>5, <2>1, <3>1 DEF OneOwner
    <3>3. member[q].state # i
      BY <2>1, <3>1 DEF OneOwner
    <3>4. \A u \in Threads : drops'[u] # <<>> => Head(drops'[u])[2] # member'[q].state
      BY <1>3, <1>4, <2>1, <3>1, <3>3 DEF OneOwner
    <3>5. QED
      BY <2>1, <3>1, <3>2, <3>4 DEF OneOwner
  <2>2. ASSUME NEW u \in Threads, drops'[u] # <<>>
        PROVE  /\ interp'[Head(drops'[u])[2]] = "alive"
               /\ \A v \in Threads :
                    drops'[v] # <<>> /\ Head(drops'[v])[2] = Head(drops'[u])[2] => v = u
    <3>1. \A v \in Threads : v # t /\ drops[v] # <<>> => Head(drops[v])[2] # i
      BY DEF OneOwner
    <3>2. QED
      BY <1>1, <1>3, <1>4, <2>2, <3>1 DEF OneOwner
  <2>3. ASSUME NEW j \in Ids, interp'[j] = "alive"
        PROVE  \/ \E q \in Plugins : member'[q].state = j
               \/ \E u \in Threads : drops'[u] # <<>> /\ Head(drops'[u])[2] = j
    <3>1. CASE j = i
      BY <1>3, <3>1
    <3>2. CASE j # i
      BY <1>4, <1>5, <2>3, <3>2 DEF OneOwner
    <3>3. QED
      BY <3>1, <3>2
  <2>4. QED
    BY <2>1, <2>2, <2>3 DEF OneOwner
<1>8. QED
  BY <1>6, <1>7

\* Creating, passing on and ending interpreters keeps one owner for each, if
\* no plugin is assigned onto that is in use.
LEMMA LivesStep ==
  ASSUME ~AssignOverLive, Locking, DropsInOrder, OneOwner, [Next]_vars
  PROVE  DropsInOrder' /\ OneOwner'
<1> USE NullMember
<1>1. ASSUME NEW t \in Threads, Step(t) PROVE DropsInOrder' /\ OneOwner'
  <2>1. CASE \/ InitPython(t) \/ ReleaseMain(t) \/ OnceDone(t) \/ Ensure(t) \/ Publish(t)
             \/ Load(t) \/ Call(t) \/ Called(t) \/ Yield(t) \/ Resume(t)
             \/ DropLock(t) \/ Dropped(t) \/ CannotCreate(t)
    <3>1. UNCHANGED <<interp, member, drops>>
      BY <2>1 DEF InitPython, ReleaseMain, OnceDone, Ensure, CannotCreate, Publish, Load, Call, Called,
         Yield, Resume, DropLock, Dropped
    <3>2. QED
      BY <3>1, OwnersUnchanged
  <2>2. CASE NewInterpreter(t)
    <3>1. PICK i \in Ids :
            /\ interp[i] = "unused" /\ interp' = [interp EXCEPT ![i] = "alive"]
            /\ member' = [member EXCEPT ![on[t]] = [state |-> i, module |-> i]]
            /\ UNCHANGED drops
      BY <2>2 DEF NewInterpreter
    <3>2. /\ \A p \in Plugins : member[p].state # i
          /\ \A u \in Threads : drops[u] # <<>> => Head(drops[u])[2] # i
          /\ member[on[t]] = Null /\ on[t] \in Plugins
      BY <2>2, <3>1, DeleterIsFirst DEF Locking, TypeOK, UnusedIsUnknown, AttachedOnTheWay, NewInterpreter
    <3>3. /\ member'[on[t]].state = i
          /\ \A q \in Plugins : q # on[t] => member'[q] = member[q]
          /\ interp'[i] = "alive" /\ \A j \in Ids : j # i => interp'[j] = interp[j]
      BY <3>1, <3>2 DEF Locking, TypeOK
    <3>4. DropsInOrder'
      BY <3>1 DEF DropsInOrder
    <3>5. ASSUME NEW q \in Plugins, member'[q] # Null
          PROVE  /\ interp'[member'[q].state] = "alive"
                 /\ \A r \in Plugins : member'[r].state = member'[q].state => r = q
                 /\ \A u \in Threads : drops'[u] # <<>> => Head(drops'[u])[2] # member'[q].state
      <4>1. CASE q = on[t]
        BY <3>1, <3>2, <3>3, <4>1
      <4>2. CASE q # on[t]
        <5>1. member'[q] = member[q] /\ member[q].state \in Ids
          BY <3>3, <3>5, <4>2 DEF Locking, TypeOK, OneThreadPerPlugin
        <5>2. QED
          BY <3>1, <3>2, <3>3, <3>5, <4>2, <5>1 DEF OneOwner
      <4>3. QED
        BY <4>1, <4>2
    <3>6. ASSUME NEW u \in Threads, drops'[u] # <<>>
          PROVE  /\ interp'[Head(drops'[u])[2]] = "alive"
                 /\ \A v \in Threads :
                      drops'[v] # <<>> /\ Head(drops'[v])[2] = Head(drops'[u])[2] => v = u
      BY <3>1, <3>3, <3>6, DeleterIsFirst DEF OneOwner
    <3>7. ASSUME NEW j \in Ids, interp'[j] = "alive"
          PROVE  \/ \E q \in Plugins : member'[q].state = j
                 \/ \E u \in Threads : drops'[u] # <<>> /\ Head(drops'[u])[2] = j
      <4>1. CASE j = i
        BY <3>2, <3>3, <4>1
      <4>2. CASE j # i
        <5>1. j # None
          OBVIOUS
        <5>2. QED
          BY <3>1, <3>2, <3>3, <3>7, <4>2, <5>1 DEF OneOwner
      <4>3. QED
        BY <4>1, <4>2
    <3>8. QED
      BY <3>4, <3>5, <3>6, <3>7 DEF OneOwner
  <2>3. CASE OpenFails(t)
    BY <2>3, PluginHasInterpreter, DropPassesOwnership DEF OpenFails, Locking, AttachedOnTheWay
  <2>4. CASE Loaded(t)
    <3>1. CASE Drop(t, on[t])
      BY <2>4, <3>1, PluginHasInterpreter, DropPassesOwnership DEF Loaded, Locking, AttachedOnTheWay
    <3>2. CASE UNCHANGED <<member, drops>>
      BY <2>4, <3>2, OwnersUnchanged DEF Loaded
    <3>3. QED
      BY <2>4, <3>1, <3>2 DEF Loaded
  <2>5. CASE DropModule(t)
    <3>1. drops[t] # <<>> /\ Head(drops[t])[1] = "module"
      BY <2>5 DEF DropModule, Locking, AttachedOnTheWay
    <3>2. PICK i \in Ids : drops[t] = << <<"module", i>>, <<"state", i>> >>
      BY <3>1 DEF DropsInOrder
    <3>3. /\ drops'[t] = << <<"state", i>> >>
          /\ \A u \in Threads : u # t => drops'[u] = drops[u]
          /\ UNCHANGED <<interp, member>>
      BY <2>5, <3>2 DEF DropModule, Locking, TypeOK
    <3>4. DropsInOrder'
      BY <3>3 DEF DropsInOrder
    <3>5. \A u \in Threads :
            /\ drops'[u] # <<>> <=> drops[u] # <<>>
            /\ drops[u] # <<>> => Head(drops'[u])[2] = Head(drops[u])[2]
      BY <3>2, <3>3
    <3>6. OneOwner'
      BY <3>3, <3>5 DEF OneOwner
    <3>7. QED
      BY <3>4, <3>6
  <2>6. CASE EndInterpreter(t)
    <3>1. drops[t] # <<>> /\ Head(drops[t])[1] = "state"
      BY <2>6 DEF EndInterpreter, Locking, AttachedOnTheWay
    <3>2. PICK i \in Ids : drops[t] = << <<"state", i>> >>
      BY <3>1 DEF DropsInOrder
    <3>3. /\ drops'[t] = <<>> /\ Head(drops[t])[2] = i
          /\ \A u \in Threads : u # t => drops'[u] = drops[u]
          /\ interp' = [interp EXCEPT ![i] = "ended"] /\ UNCHANGED member
      <4>1. Head(drops[t]) = <<"state", i>> /\ Tail(drops[t]) = <<>>
        BY <3>2
      <4>2. /\ drops' = [drops EXCEPT ![t] = Tail(drops[t])]
            /\ interp' = [interp EXCEPT ![Head(drops[t])[2]] = "ended"] /\ UNCHANGED member
        BY <2>6 DEF EndInterpreter
      <4>3. QED
        <5>1. drops' = [drops EXCEPT ![t] = <<>>]
          BY <4>1, <4>2, Zenon
        <5>2. Head(drops[t])[2] = i
          BY <4>1
        <5>3. drops \in [Threads -> Seq({"state", "module"} \X Ids)]
          BY DEF Locking, TypeOK
        <5>4. QED
          BY <4>2, <5>1, <5>2, <5>3
    <3>4. DropsInOrder'
      BY <3>3 DEF DropsInOrder
    <3>5. /\ \A j \in Ids : interp'[j] = IF j = i THEN "ended" ELSE interp[j]
          /\ \A q \in Plugins : member[q] # Null => member[q].state # i /\ member[q].state \in Ids
          /\ \A u \in Threads : u # t /\ drops[u] # <<>> =>
               Head(drops[u])[2] # i /\ Head(drops[u])[2] \in Ids
      BY <3>1, <3>3, DeleterIsFirst DEF Locking, TypeOK, OneThreadPerPlugin, OneOwner
    <3>6. OneOwner'
      BY <3>1, <3>3, <3>5 DEF OneOwner
    <3>7. QED
      BY <3>4, <3>6
  <2>7. QED
    BY <1>1, <2>1, <2>2, <2>3, <2>4, <2>5, <2>6 DEF Step
<1>2. ASSUME NEW t \in Threads, HostStep(t) PROVE DropsInOrder' /\ OneOwner'
  <2>1. PICK p \in Plugins :
          \/ Construct(t, p) \/ Use(t, p) \/ Destroy(t, p)
          \/ \E q \in Plugins : MoveAssign(t, p, q)
    BY <1>2 DEF HostStep
  <2>2. CASE Construct(t, p) \/ Use(t, p)
    BY <2>2, OwnersUnchanged DEF Construct, Use
  <2>3. CASE Destroy(t, p)
    BY <2>3, DropPassesOwnership DEF Destroy, Locking, AttachedOnTheWay
  <2>4. ASSUME NEW q \in Plugins, MoveAssign(t, p, q) PROVE DropsInOrder' /\ OneOwner'
    <3>1. /\ drops[t] = <<>> /\ member[p] = Null /\ member[q] # Null /\ p # q
          /\ UNCHANGED interp
      BY <2>4 DEF MoveAssign, Locking, AttachedOnTheWay
    <3>2. UNCHANGED drops
      BY <2>4, <3>1 DEF MoveAssign, MoveDropsOf, Locking, TypeOK
    <3>3. /\ member'[p] = member[q] /\ member'[q] = Null
          /\ \A r \in Plugins : r # p /\ r # q => member'[r] = member[r]
      BY <2>4 DEF MoveAssign, Locking, TypeOK
    <3>4. DropsInOrder'
      BY <3>2 DEF DropsInOrder
    <3>5. \A r \in Plugins : member[r] # Null => member[r].state # None
      BY DEF Locking, OneThreadPerPlugin
    <3>6. OneOwner'
      BY <3>1, <3>2, <3>3, <3>5 DEF OneOwner
    <3>7. QED
      BY <3>4, <3>6
  <2>5. QED
    BY <2>1, <2>2, <2>3, <2>4
<1>3. CASE UNCHANGED vars
  BY <1>3, OwnersUnchanged DEF vars
<1>4. QED
  BY <1>1, <1>2, <1>3 DEF Next

-----------------------------------------------------------------------------
(* The interpreter lent to a constructor *)

\* A thread that ends an interpreter has attached it, so its lock is with no
\* thread that constructs a plugin.
LEMMA LentStep == Locking /\ LentIsAlive /\ [Next]_vars => LentIsAlive'
<1> SUFFICES ASSUME Locking, LentIsAlive, [Next]_vars, NEW u \in Threads,
                    pc'[u] = "new", attached'[u] # Main
             PROVE  interp'[attached'[u]] = "alive"
  BY DEF LentIsAlive
<1> USE DEF Locking
<1>1. ASSUME NEW t \in Threads, Ensure(t) PROVE interp'[attached'[u]] = "alive"
  <2>1. CASE u = t
    <3>1. PICK i \in {Main} \cup {j \in Ids : interp[j] = "alive"} : Acquire(t, i)
      BY <1>1 DEF Ensure
    <3>2. attached'[u] = i /\ UNCHANGED interp
      BY <1>1, <2>1, <3>1 DEF TypeOK, Acquire, Ensure
    <3>3. QED
      BY <3>2
  <2>2. CASE u # t
    BY <1>1, <2>2 DEF TypeOK, LentIsAlive, Ensure, Acquire
  <2>3. QED
    BY <2>1, <2>2
<1>2. ASSUME NEW t \in Threads, EndInterpreter(t) PROVE interp'[attached'[u]] = "alive"
  <2>1. u # t /\ pc[u] = "new" /\ attached'[u] = attached[u]
    BY <1>2 DEF TypeOK, EndInterpreter
  <2>2. interp[attached[u]] = "alive" /\ attached[u] \in Ids
    BY <2>1 DEF TypeOK, LentIsAlive, AttachedOnTheWay
  <2>3. attached[t] = Head(drops[t])[2] /\ attached[t] # None
    BY <1>2, DeleterIsFirst DEF AttachedOnTheWay, EndInterpreter
  <2>4. attached[u] # attached[t]
    BY <2>1, <2>2, <2>3 DEF GilFollowsAttachment
  <2>5. QED
    BY <1>2, <2>1, <2>2, <2>3, <2>4 DEF TypeOK, EndInterpreter
<1>3. ASSUME NEW t \in Threads,
             \/ InitPython(t) \/ ReleaseMain(t) \/ OnceDone(t) \/ CannotCreate(t)
             \/ NewInterpreter(t) \/ Publish(t) \/ OpenFails(t) \/ Load(t) \/ Loaded(t)
             \/ Call(t) \/ Called(t) \/ Yield(t) \/ Resume(t) \/ DropLock(t)
             \/ DropModule(t) \/ Dropped(t) \/ HostStep(t)
      PROVE  interp'[attached'[u]] = "alive"
  <2>1. u # t /\ pc[u] = "new" /\ attached'[u] = attached[u]
    BY <1>3 DEF TypeOK, InitPython, ReleaseMain, OnceDone, CannotCreate, NewInterpreter,
       Publish, OpenFails, Load, Loaded, Call, Called, Yield, Resume, DropLock, DropModule,
       Dropped, HostStep, Construct, Use, Destroy, MoveAssign, Drop, Acquire, ReleaseThread
  <2>2. interp[attached[u]] = "alive"
    BY <2>1 DEF LentIsAlive
  <2>3. UNCHANGED interp \/ \E i \in Ids : interp' = [interp EXCEPT ![i] = "alive"]
    BY <1>3 DEF InitPython, ReleaseMain, OnceDone, CannotCreate, NewInterpreter,
       Publish, OpenFails, Load, Loaded, Call, Called, Yield, Resume, DropLock, DropModule,
       Dropped, HostStep, Construct, Use, Destroy, MoveAssign
  <2>4. attached[u] \in Ids
    BY <2>1 DEF TypeOK, AttachedOnTheWay
  <2>5. interp'[attached[u]] = "alive"
    <3>1. CASE UNCHANGED interp
      BY <2>2, <3>1
    <3>2. ASSUME NEW i \in Ids, interp' = [interp EXCEPT ![i] = "alive"]
          PROVE  interp'[attached[u]] = "alive"
      BY <2>2, <2>4, <3>2 DEF TypeOK
    <3>3. QED
      BY <2>3, <3>1, <3>2
  <2>6. QED
    BY <2>1, <2>5
<1>4. CASE UNCHANGED vars
  BY <1>4 DEF vars, LentIsAlive
<1>5. QED
  BY <1>1, <1>2, <1>3, <1>4 DEF Next, Step

-----------------------------------------------------------------------------
(* Theorems *)

\* Locks, attachments, plugins and interpreters stay in order, in every
\* behaviour of threads that create, use, move and destroy plugins.
THEOREM InductiveInvariant == Spec => []Inductive
<1>1. Init => Inductive
  <2>1. Init => DropsInOrder /\ OneOwner
    BY NullMember DEF Init, DropsInOrder, OneOwner
  <2>2. QED
    BY <2>1, LockingInit DEF Inductive, Init, LentIsAlive
<1>2. Inductive /\ [Next]_vars => Inductive'
  <2> SUFFICES ASSUME Inductive, [Next]_vars PROVE Inductive'
    OBVIOUS
  <2>1. Locking'
    BY LockingStep DEF Inductive
  <2>2. ASSUME ~AssignOverLive PROVE DropsInOrder' /\ OneOwner'
    BY <2>2, LivesStep DEF Inductive
  <2>3. LentIsAlive'
    BY LentStep DEF Inductive
  <2>4. QED
    BY <2>1, <2>2, <2>3 DEF Inductive
<1>3. QED
  BY <1>1, <1>2, PTL DEF Spec

\* Every variable keeps its type.
THEOREM TypeCorrect == Spec => []TypeOK
<1>1. Inductive => TypeOK
  BY DEF Inductive, Locking
<1>2. QED
  BY <1>1, InductiveInvariant, PTL

\* Whoever holds a lock has attached the interpreter it belongs to, and the
\* other way round, whatever the host assigns to what and whatever the version
\* of Python.
THEOREM LocksFollowAttachment == Spec => []GilFollowsAttachment
<1>1. Inductive => GilFollowsAttachment
  BY DEF Inductive, Locking
<1>2. QED
  BY <1>1, InductiveInvariant, PTL

\* Nobody returns to the host with a lock, whichever operation failed.
THEOREM LocksAreReturned == Spec => []NothingHeldOutside
<1>1. Inductive => NothingHeldOutside
  BY DEF Inductive, Locking, AttachedOnTheWay, GilFollowsAttachment, NothingHeldOutside
<1>2. QED
  BY <1>1, InductiveInvariant, PTL

\* Unless the host assigns onto a plugin in use, no thread locks or enters an
\* interpreter that has ended: the module is always destroyed before it.
THEOREM NoneIsUsedAfterItsEnd == ~AssignOverLive => (Spec => []OnlyLiveInterpreters)
<1> SUFFICES ASSUME ~AssignOverLive PROVE Spec => []OnlyLiveInterpreters
  OBVIOUS
<1>1. Inductive => OnlyLiveInterpreters
  <2> SUFFICES ASSUME Locking, LentIsAlive, OneOwner PROVE OnlyLiveInterpreters
    BY DEF Inductive
  <2>1. ASSUME NEW t \in Threads, pc[t] \in {"load", "loading", "call", "calling"}
        PROVE  interp[member[on[t]].state] = "alive"
    BY <2>1, PluginHasInterpreter DEF OneOwner
  <2>2. ASSUME NEW t \in Threads, drops[t] # <<>>
        PROVE  interp[Head(drops[t])[2]] = "alive"
    BY <2>2 DEF OneOwner
  <2>3. QED
    BY <2>1, <2>2 DEF OnlyLiveInterpreters, LentIsAlive
<1>2. QED
  BY <1>1, InductiveInvariant, PTL

\* Nor does an interpreter leak, or come to belong to two plugins, whatever
\* loads fail and plugins are moved.
THEOREM EachHasOneOwner == ~AssignOverLive => (Spec => []NoInterpreterLeaks)
<1> SUFFICES ASSUME ~AssignOverLive PROVE Spec => []NoInterpreterLeaks
  OBVIOUS
<1>1. Inductive => NoInterpreterLeaks
  <2> SUFFICES ASSUME Locking, OneOwner,
                      \A t \in Threads : pc[t] = "idle"
               PROVE  /\ \A i \in Ids : interp[i] = "alive" =>
                           \E p \in Plugins : member[p].state = i
                      /\ \A p, q \in Plugins :
                           member[p] # Null => /\ interp[member[p].state] = "alive"
                                               /\ member[p].state = member[q].state => p = q
    BY DEF Inductive, NoInterpreterLeaks
  <2>1. \A t \in Threads : drops[t] = <<>>
    BY DEF Locking, AttachedOnTheWay
  <2>2. QED
    BY <2>1 DEF OneOwner
<1>2. QED
  BY <1>1, InductiveInvariant, PTL
=============================================================================
