------------------------------ MODULE LuaStack ------------------------------
(***************************************************************************)
(* A Lua plugin: LuaScript (lua_script.h) on the stack of one lua_State    *)
(* (lua_state.h).  Every operation pushes what it needs and is to pop it   *)
(* again; nothing restores the stack when an operation fails half-way, and *)
(* nothing calls lua_checkstack before it pushes.  One action is one call  *)
(* of a LuaState member; the functions of the script (external) return or  *)
(* raise what they like.                                                   *)
(*                                                                         *)
(* Tables are flat here; the conversion of nested tables is the subject of *)
(* LuaTable.  The globals are a plain function: what Lua raises outside of *)
(* lua_pcall (a metamethod that a script has given _G, memory that runs    *)
(* short), and then the panic handler throws through Lua, is left out, and *)
(* so is what such a metamethod may return or store instead.               *)
(***************************************************************************)
EXTENDS LuaValues, FiniteSetsExt

CONSTANTS
  Names,          \* names of globals
  Globals,        \* what scripts may define: a set of functions on Names
  ChunkResults,   \* what a script may leave on the stack: a set of sequences
  Requests,       \* the calls, reads and writes the host makes
  Returns,        \* what a function of the script may return as one result,
                  \* nil included: lua_pcall supplies what is missing
  Errors          \* what it may raise: a set of values

\* A value as the host passes it: a table is a sequence of pairs.
IsValue(v) ==
  /\ v.kind \in Kinds
  /\ v.kind = "number" => v.val \in Int
  /\ v.kind = "table" =>
       /\ v = Table(v.val) /\ IsSequence(v.val)
       /\ \A i \in DOMAIN v.val :
            /\ v.val[i] = <<v.val[i][1], v.val[i][2]>>
            /\ \A h \in {1, 2} :
                 /\ v.val[i][h].kind \in Kinds
                 /\ v.val[i][h].kind = "number" => v.val[i][h].val \in Int

ASSUME StackAssumption ==
  /\ \A g \in Globals : g = [n \in Names |-> g[n]] /\ \A n \in Names : IsValue(g[n])
  /\ \A s \in ChunkResults : IsSequence(s) /\ \A i \in DOMAIN s : IsValue(s[i])
  /\ \A v \in Returns \cup Errors : IsValue(v)
  /\ \A r \in Requests :
       /\ r.op \in {"call", "get", "set"} /\ r.name \in Names
       /\ r.op = "call" => /\ IsSequence(r.args) /\ IsSequence(r.ret)
                           /\ \A i \in DOMAIN r.args : IsValue(r.args[i])
       /\ r.op = "set" => IsValue(r.arg)

VARIABLES
  pc,        \* what the host does
  request,   \* the operation in progress, or the last one
  globals,   \* the globals of the script
  stack,     \* the Lua stack, its top last
  todo,      \* what is left to push for the request
  popped,    \* results popped so far
  returned,  \* what the function returned (for the properties)
  below,     \* the stack as the operation found it (for the properties)
  failed,    \* whether an operation has failed (for the properties)
  reply

vars == <<pc, request, globals, stack, todo, popped, returned, below, failed, reply>>

-----------------------------------------------------------------------------
(* C++ types *)

\* C++ converts implicitly between bool, int and double.  (Of a double that an
\* int does not hold anything may become.)
Cast(T, v) ==
  CASE T = "bool" /\ v.kind = "number" -> Bool(IF v.val = 0 THEN 0 ELSE 1)
    [] T \in {"int", "double"} /\ v.kind = "boolean" -> Number(2 * v.val)
    [] T = "int" /\ v.kind = "number" ->
         Number(IF v.val < 0 THEN v.val + (v.val % 2) ELSE v.val - (v.val % 2))
    [] OTHER -> v

-----------------------------------------------------------------------------
(* Init and load *)

NoReply == [op |-> "none", outcome |-> "none", value |-> <<>>]

Init ==
  /\ pc = "unloaded" /\ request = [op |-> "none"]
  /\ globals = [n \in Names |-> Nil]
  /\ stack = <<>> /\ todo = <<>> /\ popped = <<>> /\ returned = <<>>
  /\ below = <<>> /\ failed = FALSE /\ reply = NoReply

Reply(o, outcome, value) ==
  reply' = [op |-> o, outcome |-> outcome, value |-> value]

\* load() of a script that does not exist, cannot be parsed, or fails.
LoadFails ==
  /\ pc = "unloaded"
  /\ \E error \in {"fileNotFound", "fileInvalid", "unknown"} :
       Reply("load", error, <<>>)
  /\ pc' = "dropped"
  /\ UNCHANGED <<request, globals, stack, todo, popped, returned, below, failed>>

\* With LUA_MULTRET all results of the script stay on the stack; without
\* auto_run its chunk does, and none of its globals exist.
Load ==
  /\ pc = "unloaded"
  /\ \/ /\ globals' \in Globals
        /\ \E results \in ChunkResults : stack' = results
     \/ UNCHANGED globals /\ stack' = <<Function("chunk")>>
  /\ pc' = "idle"
  /\ Reply("load", "ok", <<>>)
  /\ UNCHANGED <<request, todo, popped, returned, below, failed>>

-----------------------------------------------------------------------------
(* Pushing *)

\* A push into a slot nobody has asked Lua for is undefined behaviour.
Push(v, next) ==
  IF Len(stack) < Capacity
    THEN stack' = Append(stack, v) /\ pc' = next
    ELSE stack' = stack /\ pc' = "undefined"

\* push(args...): a value, or a table with its keys and values on top of it.
PushSteps(v) ==
  IF v.kind # "table" THEN <<[push |-> "value", arg |-> v]>>
  ELSE <<[push |-> "table", arg |-> Table(<<>>)]>>
       \o [i \in 1..(2 * Len(v.val)) |->
             [push |-> "value",
              arg |-> v.val[(i + 1) \div 2][IF i % 2 = 1 THEN 1 ELSE 2]]]
       \o <<[push |-> "end", arg |-> Len(v.val)]>>

\* StepsOf(args)[i] : the steps of the first i arguments.
StepsOf(args) ==
  LET Steps[i \in 0..Len(args)] ==
        IF i = 0 THEN <<>> ELSE Steps[i - 1] \o PushSteps(args[i])
  IN Steps

PushAll(args) == StepsOf(args)[Len(args)]

PushNext ==
  /\ pc = "pushing" /\ todo # <<>> /\ Head(todo).push # "end"
  /\ todo' = Tail(todo)
  /\ Push(Head(todo).arg, "pushing")
  /\ UNCHANGED <<request, globals, popped, returned, below, failed, reply>>

\* (One pair short.)
EndTable_OneShort ==
  /\ pc = "pushing" /\ todo # <<>> /\ Head(todo).push = "end"
  /\ LET n == Head(todo).arg
         t == Len(stack) - 2 * n
     IN stack' = IF n = 0 THEN stack
                 ELSE SubSeq(stack, 1, t - 1) \o
                      <<Table([i \in 1..(n - 1) |->
                          <<stack[t + 2 * i + 1], stack[t + 2 * i + 2]>>]),
                        stack[t + 1], stack[t + 2]>>
  /\ todo' = Tail(todo)
  /\ UNCHANGED <<pc, request, globals, popped, returned, below, failed, reply>>

\* endTable: lua_settable moves the pairs above the table into it, the last
\* one first.
EndTable ==
  /\ pc = "pushing" /\ todo # <<>> /\ Head(todo).push = "end"
  /\ LET n == Head(todo).arg
         t == Len(stack) - 2 * n
     IN /\ pc' = IF Len(stack) > 2 * n THEN "pushing" ELSE "assertFailed"
        /\ stack' = IF Len(stack) > 2 * n
             THEN Append(SubSeq(stack, 1, t - 1),
                         Table([i \in 1..n |->
                           <<stack[t + 2 * i - 1], stack[t + 2 * i]>>]))
             ELSE stack
  /\ todo' = Tail(todo)
  /\ UNCHANGED <<request, globals, popped, returned, below, failed, reply>>

-----------------------------------------------------------------------------
(* call(), global() *)

Finish(outcome, value) ==
  /\ pc' = "idle"
  /\ Reply(request'.op, outcome, value)
  /\ failed' = (failed \/ outcome # "ok")

\* pushGlobal, and what the caller does when there is nothing to go on with:
\* a missing symbol leaves the stack alone, one of the wrong type stays on it.
Begin(r) ==
  /\ pc = "idle" /\ request' = r
  /\ below' = stack /\ popped' = <<>> /\ returned' = <<>>
  /\ UNCHANGED globals

Lookup(r) ==
  /\ r.op \in {"call", "get"}
  /\ Begin(r)
  /\ IF Len(stack) >= Capacity
       THEN pc' = "undefined" /\ UNCHANGED <<stack, todo, reply, failed>>
     ELSE IF globals[r.name].kind = "nil"
       THEN Finish("symbolNotFound", <<>>) /\ UNCHANGED <<stack, todo>>
     ELSE /\ stack' = Append(stack, globals[r.name])
          /\ IF r.op = "call" /\ globals[r.name].kind # "function"
               THEN Finish("mismatch", <<>>) /\ UNCHANGED todo
               ELSE /\ pc' = IF r.op = "call" THEN "pushing" ELSE "popping"
                    /\ todo' = IF r.op = "call" THEN PushAll(r.args) ELSE <<>>
                    /\ UNCHANGED <<reply, failed>>

Set(r) ==
  /\ r.op = "set"
  /\ Begin(r)
  /\ pc' = "pushing" /\ todo' = PushAll(<<r.arg>>)
  /\ UNCHANGED <<stack, reply, failed>>

\* markGlobal: lua_setglobal pops the value.
MarkGlobal ==
  /\ pc = "pushing" /\ todo = <<>> /\ request.op = "set"
  /\ globals' = [globals EXCEPT ![request.name] = stack[Len(stack)]]
  /\ stack' = SubSeq(stack, 1, Len(stack) - 1)
  /\ request' = request
  /\ Finish("ok", <<>>)
  /\ UNCHANGED <<todo, popped, returned, below>>

\* What is left once pcall has popped the function and its arguments.
UnderFunction == SubSeq(stack, 1, Len(stack) - Len(request.args) - 1)

\* lua_pcall that succeeds: as many results as the return type asks for.
\* The function may have changed the globals.
PcallReturns ==
  /\ pc = "pushing" /\ todo = <<>> /\ request.op = "call"
  /\ \E results \in [1..Len(request.ret) -> Returns] :
       IF Len(UnderFunction) + Len(results) <= Capacity
         THEN /\ returned' = results /\ stack' = UnderFunction \o results
              /\ pc' = "popping"
         ELSE pc' = "undefined" /\ UNCHANGED <<returned, stack>>
  /\ globals' \in Globals \cup {globals}
  /\ UNCHANGED <<request, todo, popped, below, failed, reply>>

\* (Discarding the error object a second time.)
PcallFails_PopsTwice ==
  /\ pc = "pushing" /\ todo = <<>> /\ request.op = "call"
  /\ stack' = SubSeq(UnderFunction, 1, Len(UnderFunction) - 1)
  /\ request' = request
  /\ Finish("callFailed", <<>>)
  /\ UNCHANGED <<globals, todo, popped, returned, below>>

\* lua_pcall that fails leaves the error object on the stack: the value that
\* was raised (code 2), or a message, say that memory is short.  It is popped
\* only if it is a string and the code is 2.
PcallFails ==
  /\ pc = "pushing" /\ todo = <<>> /\ request.op = "call"
  /\ \/ \E error \in Errors :
          stack' = IF error.kind = "string"
                     THEN UnderFunction ELSE Append(UnderFunction, error)
     \/ stack' = Append(UnderFunction, String("memory"))
  /\ request' = request
  /\ Finish("callFailed", <<>>)
  /\ globals' \in Globals \cup {globals}
  /\ UNCHANGED <<todo, popped, returned, below>>

-----------------------------------------------------------------------------
(* Popping results.  PopTuple pops the types from the first to the last,    *)
(* the values of the stack from the last to the first.  The call that pops  *)
(* the n-th value puts it behind those popped by the calls it makes, and    *)
(* then converts all of them, element by element, to the n-th and later     *)
(* types.                                                                   *)

TypesToPop == IF request.op = "call" THEN request.ret ELSE <<request.type>>

\* Through(types, v)[n] : v once it was converted to the last n of the types,
\* the last one first.
Through(types, v) ==
  LET Casts[n \in 0..Len(types)] ==
        IF n = 0 THEN v ELSE Cast(types[Len(types) + 1 - n], Casts[n - 1])
  IN Casts

\* (The values in the order in which they were popped.)
Assemble_InOrder(results) ==
  [i \in DOMAIN results |-> Through(TypesToPop, results[i])[Len(results) + 1 - i]]

\* The n-th that was popped becomes the n-th from behind, and has gone through
\* the last n types.
Assemble(results) ==
  LET n(i) == Len(results) + 1 - i
  IN [i \in DOMAIN results |-> Through(TypesToPop, results[n(i)])[n(i)]]

\* (Using the result without asking whether there is one.)
PopNext_Unchecked ==
  /\ pc = "popping" /\ Len(popped) < Len(TypesToPop)
  /\ popped' = Append(popped, TopScalar(TypesToPop[Len(popped) + 1], stack[Len(stack)]))
  /\ stack' = SubSeq(stack, 1, Len(stack) - 1)
  /\ UNCHANGED <<pc, request, globals, todo, returned, below, failed, reply>>

\* (Reading a value without discarding it.)
PopNext_Tops ==
  /\ pc = "popping" /\ Len(popped) < Len(TypesToPop)
  /\ LET v == TopScalar(TypesToPop[Len(popped) + 1], stack[Len(stack)]) IN
       IF v = NoValue
         THEN request' = request /\ Finish("incorrectType", <<>>) /\ UNCHANGED popped
         ELSE popped' = Append(popped, v) /\ UNCHANGED <<pc, request, reply, failed>>
  /\ UNCHANGED <<globals, stack, todo, returned, below>>

PopNext ==
  /\ pc = "popping" /\ Len(popped) < Len(TypesToPop)
  /\ LET v == TopScalar(TypesToPop[Len(popped) + 1], stack[Len(stack)]) IN
       IF v = NoValue
         THEN /\ request' = request
              /\ Finish("incorrectType", <<>>)
              /\ UNCHANGED <<stack, popped>>
         ELSE /\ popped' = Append(popped, v)
              /\ stack' = SubSeq(stack, 1, Len(stack) - 1)
              /\ UNCHANGED <<pc, request, reply, failed>>
  /\ UNCHANGED <<globals, todo, returned, below>>

PopDone ==
  /\ pc = "popping" /\ Len(popped) = Len(TypesToPop)
  /\ request' = request
  /\ Finish("ok", Assemble(popped))
  /\ UNCHANGED <<globals, stack, todo, popped, returned, below>>

-----------------------------------------------------------------------------
Next ==
  \/ Load \/ LoadFails
  \/ (\E r \in Requests : Lookup(r) \/ Set(r))
  \/ PushNext \/ EndTable \/ MarkGlobal
  \/ PcallReturns \/ PcallFails
  \/ PopNext \/ PopDone

Spec == Init /\ [][Next]_vars

-----------------------------------------------------------------------------
(* Properties *)

Outcomes == {"none", "ok", "fileNotFound", "fileInvalid", "unknown",
             "symbolNotFound", "mismatch", "callFailed", "incorrectType"}

TypeOK ==
  /\ pc \in {"unloaded", "idle", "pushing", "popping",
             "dropped", "undefined", "assertFailed"}
  /\ DOMAIN globals = Names
  /\ \A n \in Names : globals[n].kind \in Kinds
  /\ \A i \in DOMAIN stack : stack[i].kind \in Kinds
  /\ \A i \in DOMAIN popped : popped[i].kind \in {"boolean", "number", "string"}
  /\ \A i \in DOMAIN todo : todo[i].push \in {"value", "table", "end"}
  /\ reply.outcome \in Outcomes
  /\ failed \in BOOLEAN

\* Whatever an operation meets on its way, it takes nothing off the stack
\* that it has not put there (lua_state.h topFunction, pop; pushGlobal).
FrameIntact ==
  pc \in {"idle", "pushing", "popping"} =>
    /\ Len(below) <= Len(stack)
    /\ SubSeq(stack, 1, Len(below)) = below

\* An operation that succeeds, and one that finds no symbol, leaves the stack
\* as it found it: call() pops the function and every result.  One that fails
\* leaves at most one value behind, or the results that were not popped yet
\* (topFunction, lines 290-314).
StackIsRestored ==
  pc = "idle" /\ request.op # "none" =>
    Len(stack) - Len(below) <=
      CASE reply.outcome \in {"ok", "symbolNotFound"} -> 0
        [] reply.outcome = "incorrectType"           -> Len(TypesToPop)
        [] OTHER                                     -> 1

\* The slots a request needs, the most that are in use at any time.
ToPush(r) ==
  CASE r.op = "call" -> PushAll(r.args)
    [] r.op = "set"  -> PushAll(<<r.arg>>)
    [] OTHER         -> <<>>

\* Heights(r)[m] : those in use after m steps.
Heights(r) ==
  LET steps == ToPush(r)
      Height[m \in 0..Len(steps)] ==
        IF m = 0 THEN (IF r.op = "set" THEN 0 ELSE 1)
        ELSE IF steps[m].push = "end" THEN Height[m - 1] - 2 * steps[m].arg
        ELSE Height[m - 1] + 1
  IN Height

Need(r) ==
  LET results == IF r.op = "call" THEN {Len(r.ret)} ELSE {}
  IN Max({Heights(r)[m] : m \in 0..Len(ToPush(r))} \cup results)

\* As long as no operation has failed, every operation finds the stack that
\* load left, however many there were: one that runs out of slots has asked
\* for more of them than there ever were.
OverflowNeedsFailure ==
  /\ pc = "idle" /\ ~failed => stack \in ChunkResults \cup {<<Function("chunk")>>}
  /\ pc = "undefined" /\ ~failed => Len(below) + Need(request) > Capacity

\* A variable that was set, be it a table, is the value that was given, key
\* by key (pushOne and endTable), and no table is short of pairs on the way
\* (the assert of endTable, lua_state.cpp line 180).
SetIsRead ==
  /\ pc # "assertFailed"
  /\ pc = "idle" /\ reply.op = "set" /\ reply.outcome = "ok"
       => globals[request.name] = request.arg

\* A call succeeds just when every value the function returned has the type
\* that was asked for, and then returns these values in their order.  (For a
\* number that an int does not hold some other may come.)
HasType(T, v) ==
  \/ T = "bool" /\ v.kind = "boolean"
  \/ T \in {"int", "double"} /\ v.kind = "number"
  \/ T = "string" /\ v.kind = "string"

AsReturned ==
  IF \E i \in DOMAIN returned : ~HasType(request.ret[i], returned[i])
    THEN reply.outcome = "incorrectType"
    ELSE /\ reply.outcome = "ok" /\ DOMAIN reply.value = DOMAIN returned
         /\ \A i \in DOMAIN returned :
              /\ reply.value[i].kind = returned[i].kind
              /\ (request.ret[i] = "int" => FitsInt(returned[i].val))
                   => reply.value[i].val = returned[i].val

CallHasReturned ==
  /\ pc = "idle" /\ reply.op = "call"
  /\ reply.outcome \in {"ok", "incorrectType"}

\* True of void, of one value and of tuples of one type.
ResultIsReturned ==
  CallHasReturned /\ (\A i, j \in DOMAIN request.ret : request.ret[i] = request.ret[j])
    => AsReturned

\* What plugin.h (lines 26-37) says of every return type it lists, std::tuple
\* among them.
TupleIsReturned == CallHasReturned => AsReturned

\* What plugin.h (lines 72-73) says of setting a variable: it cannot fail.
SetCannotFail == request.op = "set" => pc \notin {"undefined", "assertFailed"}

-----------------------------------------------------------------------------
(* The inductive invariant behind them *)

Shapes ==
  /\ \A s \in {stack, todo, popped, returned, below} : IsSequence(s)
  /\ \A i \in DOMAIN stack : stack[i].kind = "number" => stack[i].val \in Int
  /\ \A i \in DOMAIN returned : returned[i].kind = "number" => returned[i].val \in Int
  /\ \A n \in Names : globals[n].kind = "number" => globals[n].val \in Int
  /\ request \in Requests \/ (request.op = "none" /\ pc \notin {"pushing", "popping"})
  /\ pc \in {"unloaded", "dropped"} => request.op = "none" /\ below = <<>>
  /\ pc \notin {"pushing", "undefined"} => todo = <<>>
  /\ pc = "pushing" => popped = <<>>

\* The frame of the operation in progress: what it found is below.
FrameIsKept ==
  pc \in {"idle", "pushing", "popping"} =>
    Len(below) <= Len(stack) /\ \A i \in 1..Len(below) : stack[i] = below[i]

\* On top of it, the function, then the arguments that are complete, then what
\* has been pushed for the next one.
ArgsOf(r) == IF r.op = "call" THEN r.args ELSE <<r.arg>>
Base      == Len(below) + (IF request.op = "call" THEN 1 ELSE 0)

ArgumentsAreUnderWay(args, m) ==
  \E i \in 0..Len(args) :
    LET extra == m - Len(StepsOf(args)[i]) IN
    /\ extra \in Nat
    /\ IF i = Len(args) THEN extra = 0 ELSE extra < Len(PushSteps(args[i + 1]))
    /\ Len(stack) = Base + i + extra
    /\ \A j \in 1..i : stack[Base + j] = args[j]
    /\ \A k \in 1..extra : stack[Base + i + k] = PushSteps(args[i + 1])[k].arg

PushesInOrder ==
  pc = "pushing" =>
    LET args == ArgsOf(request)
        m == Len(PushAll(args)) - Len(todo)
    IN /\ request.op \in {"call", "set"} /\ m \in Nat
       /\ \A k \in 1..Len(todo) : todo[k] = PushAll(args)[m + k]
       /\ ArgumentsAreUnderWay(args, m)

\* The results that were not popped yet are on top of the frame; those that
\* were had their types.
PopsInOrder ==
  pc = "popping" =>
    LET types == TypesToPop
        left == Len(types) - Len(popped)
    IN /\ request.op \in {"call", "get"} /\ left \in Nat
       /\ Len(stack) = Len(below) + left
       /\ request.op = "call" =>
            /\ Len(returned) = Len(types)
            /\ \A k \in 1..left : stack[Len(below) + k] = returned[k]
            /\ \A j \in 1..Len(popped) :
                 /\ popped[j] = TopScalar(types[j], returned[Len(types) + 1 - j])
                 /\ popped[j] # NoValue

\* Until an operation has failed, each has found the stack that load left.
FoundAsLoaded ==
  ~failed /\ pc \notin {"unloaded", "dropped"} =>
    (IF request.op = "none" THEN stack ELSE below)
      \in ChunkResults \cup {<<Function("chunk")>>}

Replied ==
  pc = "idle" /\ request.op # "none" =>
    /\ reply.op = request.op
    /\ reply.outcome \in {"ok", "symbolNotFound", "mismatch", "callFailed", "incorrectType"}
    /\ ~failed => reply.outcome = "ok"

StackIsInOrder ==
  /\ TypeOK /\ Shapes /\ FrameIsKept /\ PushesInOrder /\ PopsInOrder /\ FoundAsLoaded
  /\ Replied /\ StackIsRestored /\ SetIsRead /\ ResultIsReturned

\* Behind OverflowNeedsFailure: as many slots are in use as were counted, and
\* they run out only when there are fewer than the request needs.
SlotsAreCounted ==
  /\ pc = "pushing" =>
       Len(stack) = Len(below) + Heights(request)[Len(ToPush(request)) - Len(todo)]
  /\ pc = "undefined" => Len(below) + Need(request) > Capacity

Inductive == StackIsInOrder /\ SlotsAreCounted
=============================================================================
