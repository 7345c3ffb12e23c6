# ppplugin in TLA+

ppplugin is a C++ library through which a host program loads *plugins* — shell
scripts, Lua scripts, Python scripts, and shared libraries written in C or
C++ — and calls their functions and reads and writes their globals through one
interface: `load`, `call`, `global`. This directory holds TLA+ modules that
model how the plugins work, TLC configurations that check them on small
instances, and proofs, checked by TLAPS, about the shell session and the
contract it implements, the texts that pass through it, the Lua stack and its
tables, Python interpreters and their locks, calls of Python and their values,
shared libraries, the results all plugins return, and scope guards.

`PROJECT.json` lists the components, the runs, the theorems, the hazards each
property is there for, the lines of source each definition stands for, and,
for every property, a plausible bug in the code that would violate it.

## 1. Inventory

| Component | Source | State it keeps | Operations |
|---|---|---|---|
| Shell session | `shell/shell_session.h`, `shell/plugin.h` | a shell process, three pipes, an `io_context` and the thread that runs it | `load`, `call`, `global` (read and write), destruction, move |
| Shell type conversion | `shell/shell_type_conversion.h`, `detail/string_utils.h` | none | values to words of a command line and back, the check of variable names |
| Lua plugin | `lua/plugin.h`, `lua_script.h/.cpp`, `lua_state.h/.cpp`, `lua_helpers.h` | one `lua_State`: its stack and its globals | `load`, `call`, `global`; below them `push*`, `top*`, `pop*`, `endTable`, `pushGlobal`, `markGlobal` |
| Python interpreters | `python_interpreter.h/.cpp`, `python_guard.cpp`, `python/plugin.cpp` | sub-interpreters, their locks, the thread state each thread has attached | construction, `load`, `call`, `global`, move, destruction |
| Python calls and values | `python_interpreter.cpp`, `python_object.cpp`, `python_tuple.cpp`, `python_exception.cpp` | globals of the script, the error indicator, reference counts | conversions, `internalCall`, `getGlobal`, `setGlobal`, `PythonException::latest` |
| C and C++ plugins | `c/plugin.*`, `cpp/plugin.*`, `detail/boost_dll_loader.h`, `boost_dll_loader.cpp` | a loaded library, shared by the objects made from it | `load`, `call`, `global` |
| Plugin manager | `plugin_manager.h` | `plugins_`, meant to keep libraries loaded | `loadPlugin` for every kind |
| Generic and no-op plugin | `plugin.h`, `noop_plugin.h` | a variant of the kinds of plugin | dispatch |
| Expected, errors | `expected.h`, `errors.h` | a value or an error | construction, conversion, assignment, `value…`, `error…`, `andThen`, comparison |
| Scope guard | `detail/scope_guard.h` | a function to run once | `call`, `cancel`, move, destruction |
| Template helpers | `detail/*` | none | computed by the compiler |

How they interact: every kind of plugin implements the same operations and
returns an `Expected`; `GenericPlugin` dispatches to one of them; the manager
creates them. A shell plugin talks to its process through pipes, and its
asynchronous reads complete on a thread of its own through callbacks that hold
raw pointers into the session. A Lua plugin shares the one stack of its state
with everything that is called on it. Python plugins of one process share the
runtime: one initialisation, and, before Python 3.12, one lock.

The hard parts, and what makes each component correct:

* **Shell session.** Two threads and one or more processes. The shell may die at
  any moment; its output arrives in pieces; a background child shares its
  stdout; a line may redirect or close the stdout of the shell; the handler that
  reports the shell's death races the read it is to cancel; the destructor races
  both handlers. Correct means: an answer is what the line of *this* call
  printed, all of it and nothing else; host and shell stay in step as long as
  the shell has its stdout; every call and the destructor return; no handler
  runs after what it writes to is gone.
* **Lua stack.** A long sequence of legal operations, some of which fail
  half-way, on a stack nobody restores and whose size nobody checks. Correct
  means: no operation takes what is not its own, a successful one leaves the
  stack as it was, values arrive as they were given, the stack does not
  overflow.
* **Python interpreters.** Several threads, several locks, early returns that
  must give the lock back, members destroyed in an order that matters. Correct
  means: a lock is held by exactly the thread that has attached its
  interpreter, no ended interpreter is used, none leaks, every operation
  returns.
* **Python calls.** The error indicator outlives the operation that set it.
  Correct means: an operation reports its own failure and not an earlier one,
  and returns values as they are; where the code does otherwise, the cause is known.
* **Lua tables.** An iteration keeps its key on the stack while keys and values
  that are tables themselves are converted on top of it, and any of them may be
  of the wrong type. Correct means: each level finds its table and its key
  where it left them, the stack is as it was before, and the result is the one
  a definition without a stack gives.
* **C and C++ plugins.** The dynamic loader counts who has a library open, over
  copies, moves and loads that race changes of the files; a function may call
  back into a host that destroys its plugin. Correct means: a library is mapped
  exactly as long as somebody has it, plugins can always be called, a crash
  needs a host that kept something longer than every plugin of the library, and
  a library nobody had starts anew.
* **Texts for the shell.** Every argument, name and value is pasted into a line
  that the shell parses. Correct means: it arrives as one word, whatever
  characters it has, and what a function printed is what its caller gets.
* **Expected.** A type decides whether something is a value or an error, and
  types convert to each other. Correct means: along any chain of copies,
  conversions and `andThen` a result stays on the side it was put.
* **Scope guard.** Guards are moved, assigned, called and destroyed, and their
  functions may throw. Correct means: each function runs exactly once.

## 2. Modules

| Module | What it is |
|---|---|
| `ShellSession` | the session, its io thread, the shell, a background child |
| `IndexedSequences` | what a sequence is, and folding one, for the conversions of texts, lists and arguments |
| `PluginCall` | what any plugin promises its caller, independent of its kind |
| `ShellRefinement` | the mapping under which `ShellSession` implements `PluginCall` |
| `ShellSession_proofs` | theorems about `ShellSession`, and that it implements the contract |
| `LuaValues` | Lua values and the conversion of scalars to C++ |
| `LuaStack` | `load`, `call`, `global` of a Lua plugin on the stack of one state |
| `LuaTable` | the conversion of nested tables to maps and vectors, on the stack |
| `LuaTableReference` | what that conversion computes, by definition, and the invariant that relates the two |
| `PythonInterpreter` | sub-interpreters, locks, threads |
| `PythonValues` | the conversions between C++ and Python, of scalars, lists and dicts |
| `PythonCall` | calls, globals and the error indicator of one plugin |
| `Library` | C and C++ plugins, the loader's count, files, calls that call back, objects |
| `ShellWords` | texts between C++ and the shell: quoting, the words of a line, output as a value |
| `ShellCall` | calls and variables of a shell plugin, from C++ arguments to words and from output to results |
| `Expected` | `Expected<T, E>` as operators |
| `ExpectedObject` | variables of several Expected types, written in any order |
| `ScopeGuard` | guards and the functions they own |
| `SequenceFacts` | lemmas about sequences that the proofs share |
| `Values_proofs` | theorems about `ShellCall`, `ExpectedObject` and `ScopeGuard` |
| `LuaStack_proofs`, `LuaTable_proofs` | theorems about the Lua stack and about nested tables |
| `PythonInterpreter_proofs`, `PythonCall_proofs` | theorems about interpreters and locks, and about calls and their values |
| `Library_proofs` | theorems about shared libraries |
| `MC…` | instances for TLC; one `.cfg` per run |

Operators whose name ends in a suffix like `_KeepsMain` are not part of the
model. Each is a defective variant of the definition that follows it, with the
bug named in the comment above it; replacing the definition by its variant
must violate the property `PROJECT.json` names under `mutants`.

### 2.1 ShellSession

One action is what the code does between two points at which another thread or
process can be seen. `pc` follows the host thread through `ShellPlugin::call`
and `ShellSession::callWithResult`:

| `pc` | Action | Code |
|---|---|---|
| `idle` | `Call` | entry of `load`, `call`, `global` |
| `check` | `CheckRunning` | the early return if the process does not run |
| `write` | `Write` | the line and `; echo :$?<uuid>` into the stdin pipe |
| `start` | `StartRead` | `async_read_until`, which tries a first read at once |
| `wait` | `WakeUp` | `future.wait()` |
| `finish` | `Finish` | the checks of the buffer, the exit code, `environmentVariable` |
| `destroy`, `stop`, `join` | `Terminate`, `Stop`, `Join` | the destructor |

`readOp`, `exitWait` and `io` are the two asynchronous operations and the
thread that completes them. An operation that is ready (`data`, `ended`,
`ready`) has a handler that is posted and not yet run; which of two posted
handlers runs first is left open. `ReadHandler` is the loop inside
`async_read_until`: it reads on until the marker of the call is in the buffer.
`ExitHandler` is the callback of `async_wait`, which cancels what is
outstanding on stdout *at that moment*.

The shell and the child are external: the shell takes one line at a time, writes
to stdout and stderr in any order, may leave a child behind, dies when it likes.
`target` is where the shell's own stdout goes, because `exec` in a line, a
script or a function it calls can change that: to the pipe; `aside`, with a copy
kept to restore it from; or `away` for good. Then `echo :$?<uuid>` writes its
marker there. A shell that gave its pipe up lets the read meet its end while it
still executes the line: the call fails at line 108 and calls overlap from then
on, all of them failing, which `InStepBetweenCalls` leaves out by its condition
on `target`. A shell that kept a copy, or a child that has the pipe open, makes
the host wait. Lines do not read from or redirect the shell's *stdin*: a command
that does takes the next lines for its input. A pipe is a sequence of chunks; a
full one blocks its writer. The uuid of a call is the number of the call,
because the code draws a fresh one each time and compares it as a whole. The
model begins with a session that has been constructed; `load` of a file that
does not exist returns before that (`plugin.cpp:10-12`). A file that vanishes
after the check is a `.` that fails.

`pc` has three values from which nothing follows: `brokenPipe` (writing to a
pipe nobody reads ends the call with SIGPIPE or an exception),
`assertFailed` (the asserts of `environmentVariable`), `terminated` (move
assignment over a session with a joinable thread). They end the process;
for that reason the runs do not check for deadlock.

`HostKeepsChildEnds` says whether the Boost object in the member `io_` keeps
the child's pipe ends open in the host, which depends on the version of the
library: `shell_session` is checked without, `shell_death` with; the theorems
hold for both.

### 2.2 PluginCall and ShellRefinement

`PluginCall` is the contract: a caller that is idle calls; the call is answered
once, with a failure or with what the plugin produced for *that* call; a plugin
that has ended never answers with a value again. `ShellRefinement` maps the
session to it and TLC checks that every step of the session is a step of the
contract or none. The operations of the other kinds of plugin are one step of
the host each, where the contract has nothing to say beyond their own
properties.

### 2.3 LuaStack

`stack` is the Lua stack, top last. `todo` holds what a request has still to
push, in the order of the parameter pack; `PushNext` and `EndTable` are
`pushOne` and `endTable`; `PcallReturns` and `PcallFails` are the two results of
`lua_pcall` in `topFunction`; `PopNext` is one step of `PopTuple`. Each call of
`PopTuple` converts the tuple it has so far to the types from its own on, so
that the first result goes through one type and the last through all of them
(`Through`, `Assemble`). Numbers are counted in halves so that 1.5 can be told
from 1. The conversion of a number to `int` loses what an `int` does not hold
(`lua_state.cpp:53`); `ResultIsReturned` asks for the very number only where
nothing is lost. The globals are a plain function: what Lua raises outside of
`lua_pcall`, and what metamethods of `_G` do, is left out (section 7). A push
beyond `Capacity` ends in `pc = "undefined"`: Lua allows `LUA_MINSTACK` slots to
be used without `lua_checkstack`, which the code never calls.

`below`, `returned` and `failed` are history variables that only the
properties read.

### 2.4 LuaTable

`frames` holds the calls of `topMap` that are in progress, the innermost last:
the type each converts to, the map it has so far, the value it has popped, and
whether it is at the value or the key of a pair. `StartMap`, `NextItem` and
`EndMap` are the three ways `pushNextTableItem` is used; `PopValue`, `TakePair`
and `AbortMap` are the body of the loop; `answer` is the `std::optional` that
the innermost `top<T>()` returns. A table has an identity, because `lua_next`
looks a key up as Lua compares keys; a key that is not there would be an error
outside of any `lua_pcall`, `step = "panic"`. The iteration takes a slot for the
nil it starts with, and one for each value, without `lua_checkstack`; where there
is none left (`Capacity`) the conversion ends in `step = "undefined"`
(`Overflow`), which takes as many tables and waiting keys as there were slots
(`OverflowNeedsDepth`). The scalars are those of Lua 5.3
and later, where `lua_tointeger` of 1.5 is 0.

`LuaTableReference!Convert` says what a conversion gives, by recursion over the
type and without a stack, an order or a place to stop: `FirstRows` are the rows
whose key has not come before, `ConvertRows` makes a map of them, or an array
if their keys are 1, 2, 3… `ConvertsByDefinition` compares the two.

### 2.5 Library

`handle[p]` is the `shared_library` in a plugin: the file it was opened from
and the number of the image it stands for. `refs` and `mapped` are the dynamic
loader's. `load()` is five steps: two checks that the file exists, the opening
(under the decorated name first, because of `append_decorations`), the copy
into `new_plugin`, which opens the library once more, and the return. `Install`
may change a file between any two of them. A library that is open is not
looked for on disk again, so a load may find an older version than the one
installed, with the globals others have written.

`frames` are the calls that have not returned. Between `Call` and `Return` the
host runs again, in a callback, and may do anything. `Return` and
`DestroyObject` run code of the library: if its image is gone, `pc` becomes
`segfault`. `used` and `seen` are history variables of the properties.

The loader, `boost::dll::shared_library` and the file system are external. A
symbol that exists but is of another kind than what is asked for is undefined
behaviour; hosts that do that are outside the model. Files are replaced, not
overwritten in place.

### 2.6 PythonInterpreter

Each thread runs one operation at a time on one of the plugin variables.
`member[p]` is what `state_` and `main_module_` point to; destroying or
assigning over a plugin puts the deleters on the list `drops[t]`, in the order
in which C++ runs them — reverse declaration order for the destructor,
declaration order for the defaulted move assignment. The C API is external and
modelled by its documented effect on `gil` and `attached`. `Yield` and `Resume`
are the switches the interpreter makes while it runs a script.
`PyGILState_Ensure` attaches the thread state that Python remembers for the
thread, which need not be one of the main interpreter: `Ensure` may attach any
that is alive. `CannotCreate` is a Python that cannot be initialised, which the
code does not look at and the next function of the C API takes for a fatal
error, or an interpreter that cannot be created, an `assert(false)`
(`python_interpreter.cpp:79-101`): every thread is at `aborted`, and nothing
follows.

### 2.7 PythonValues and PythonCall

Operations of one plugin by one thread under its lock, hence one step each. A
function that is called may leave other globals behind (`ScriptWrites`). A
conversion is an operator that says whether there is a value, which one, and
whether the error indicator is set afterwards. Integers have a width: `AsInt`
goes through `long` and is cut to `int`, as `PyLong_AsLong` and the cast do;
`short`, `unsigned` and `long long` go through `long long` (`AsIntegral`,
`python_object.h:148-149`). `AsArray` and `AsMap` fold over the elements and
hand the indicator on from one to the next, as `getNextItem` and `as<T>()` do.
`From` is the other direction; a text that is not UTF-8 has no object, which the
asserts of `setTupleItem`, `setListItem` and `setDictItem` notice and
`PyObject_SetAttr` takes for a deletion. A list or dict as the key of a dict is
unhashable, which fails an assert as well (`python_object.cpp:251`); elsewhere a
container within a container is converted by the same functions once more, and
left out. The asserts are compiled in every build type the repository defines
(`CMakeLists.txt` sets the flags without `NDEBUG`).

A failed assert ends in `pc = "assertFailed"`. If an exception with a traceback
cannot be printed, formatting the traceback fails as well, and the type of the
null pointer it returns is looked at (`python_exception.cpp:55-56`): `pc =
"nullRead"`. Values of exceptions that are raised while another is printed can
be printed themselves.

`written`, `cause` and `before` are history: what the host has last set each
variable to, which operation has set the indicator that is set now, and which
one had when the last operation began.

Reference counts are left out, with one exception: `Latest`, which takes an
exception, may end in `pc = "releasedTwice"` with Python 3.12 (`NewApi`), where the
code releases an argument it has borrowed. Whether anything else held the
argument depends on the exception, so both outcomes are possible and the
behaviours without it are a subset.

### 2.8 ShellWords and ShellCall

A text is a sequence of characters, of which only those are named that quoting
or conversion tell apart: a letter, `n` (which `\n` has a use for), a digit, a
space, the two quotes, backslash, newline, `=`, NUL. `Words` is how a POSIX shell
splits a line into words; a NUL among its input it drops, as dash, bash and
busybox do (zsh keeps it). `Separate` is `boost::escaped_list_separator` with the
three characters the code gives it; both are external. Neither `=` nor NUL is in a
name that passes the check of names. `Call`, `Get` and `Set`
build the line, `Execute` is the shell: it reads the words and runs a function,
`printenv`, `export` or nothing it knows; a function prints any of `Outputs`, or
a list with its special characters escaped. `export` of a name that is no
identifier may end the shell, as POSIX lets a special builtin do. `Return`
converts what `callWithResult` returned. How the line and the output travel is
the matter of `ShellSession`, which is why this is one step here.

### 2.9 Expected and ExpectedObject

Members of `Expected` are operators on records `[T, E, has, holds]`; overloads
that do the same are one. Where they do not, there are two: `errorOr` of an
rvalue casts its default by way of `T`. `Expected<void, E>` has a `value()` that
does nothing, also in place of an error, an `operator*` that asserts
(`expected.h:786-789`), and two forms of `andThen`: that of an rvalue wraps what
the function returns even if that is an Expected, that of an lvalue returns the
bare error or the bare result (`AndThenOfLvalue`, `expected.h:761-767`), which
compiles only if the function returns an `E`. `ExpectedObject` lets variables of
several types be constructed, assigned, converted and chained in any order and
keeps in `meant` what was put into each. Its one gap is one of the code: a plain
value of the error's type that also converts to the value's type becomes a value
(`operator=(U&&)`, `expected.h:290`); `meant` is then `"either"`.

### 2.10 ScopeGuard

`function_[g]` is the member of that name; `runs` counts; `thrown` and
`cancelled` are history: how often a function has thrown out of `call()`, and
which were cancelled. `Aborts` is a function that throws out of a destructor or
a move assignment, which are `noexcept`; `CallThrows` one that throws out of
`call()`, where the guard keeps it and will run it again, which
`RunsExactlyOnce` asks for. A function that uses its own guard is left out; the
library has none.

### 2.11 MCLua, MCValues

Components that share no state are checked in one run: the variable `part` picks
the machine that runs, the others stay as they are. `MCLua` holds `LuaStack` and
`LuaTable`; `MCValues` holds `ShellCall`, `ExpectedObject` and `ScopeGuard`.

## 3. Runs

| Run | Shows |
|---|---|
| `shell_session` | `Inductive` and its consequences for three calls: answers are own, complete and in order; host and shell are in step between calls; a lost answer needs background output or a redirection of the shell's stdout, a failed assert background output; a dead shell never answers; no handler runs late; the session implements `PluginCall`; every call returns, or the shell is blocked on stderr, or the cancellation came when no read was outstanding, or the marker went elsewhere while somebody kept the pipe open; the end of the pipe ends the wait; the destructor returns |
| `shell_death` | *violated*: the wait ends when the shell dies |
| `values` | arguments, names and values arrive as the words they are, a variable that was set is the one named, results are the output; results keep their side in every chain of Expecteds; guards run their function to its end once, however often it has thrown before |
| `lua` | any sequence of operations on five slots: frames stay intact, a success leaves the stack as it was and a failure a bounded rest, overflow needs a failure or a request that is too large, tables are read as they were set, results arrive as given, the slots in use are those that were counted; and tables in tables, as values and as keys, good and bad at every place: each level stays intact, the stack is
restored, the result is the defined one, slots run out only by depth |
| `lua_tuple` | *violated*: a call returns the tuple that was asked for |
| `lua_set` | *violated*: setting a variable cannot fail |
| `python_lifecycle` | two threads, two plugins, three interpreters, locks of their own: locks follow attachment, no ended interpreter is used, none leaks, everything returns or ends the process |
| `python_shared` | *violated*: every operation returns, with one lock for all interpreters |
| `python_assign` | *violated*: no ended interpreter is locked, with move assignment over a live plugin |
| `python_call` | what sets the indicator; a call that reports what is not its own failure has found it set by an operation that failed in one of these ways; which values, lists and dicts arrive as they are, in both directions; each variable is what the host last set it to |
| `python_borrowed` | *violated*: nothing that is not owned is released |
| `library` | two C++ plugins and a C plugin, with callbacks and changing files: the loader's count is right, plugins can be called, crashes need a host that kept more than every plugin, load finds what is there |

The runs `shell_session`, `values`, `lua`, `python_lifecycle`, `python_call` and
`library` check the inductive invariants of section 6 (`Inductive`,
`ReferenceInductive`). The type invariant of each of these modules is their
first conjunct and not checked a second time.

### Bounds, and why they are enough

* `MaxCalls = 3`: `load` and two calls, so that leftovers of one call can reach
  the next and the one after. `MaxOutput = 2` chunks give an order to get wrong
  and a read that ends in the middle. `StdoutCapacity = 3` is smaller than the
  output of one call with a marker and background output, so that writers
  block. `MaxNoise = 1`: one chunk can come before, between or after output and
  marker. For the safety properties the theorems of section 6 remove these
  bounds.
* Lua: `Capacity = 5` instead of 20, so that a few failed calls use it up and a
  table of three pairs does not fit; the code does nothing that depends on the
  number. A table in a table fits on an empty stack and overflows on what failed
  conversions have left. `IntRange = 4` makes an integer that an `int` does not
  hold. The theorems of section 6 hold for any capacity, values, scripts and
  requests.
* Tables: three levels of tables; arrays in order, out of order, with a gap, from
  0, with keys that become equal and one an `int` does not hold;
  tables with a bad key or value first or last, at the outer and the inner level;
  two different tables with equal contents as keys. Failed conversions leave
  `MaxBelow = 2` values under the next.
* Library: `MaxImages = 3` lets a library be unloaded and loaded again twice, or
  both files be in use and one reloaded. All combinations of contents of the two
  files are initial states, so that one change (`MaxInstalls = 1`) gives every
  race of a load with a change. Three plugins, two of a type that can be copied
  to each other; one object and one call at a time (`MaxNesting = 1`), because
  objects and calls do not meet each other: each is checked against the plugins.
  The theorems of section 6 remove these bounds.
* Python: two threads and two plugins give every pair of operations on the same
  and on different interpreters, and all orders of initialisation; three
  interpreters let a plugin be created after another was destroyed or failed to
  load. A `short` holds −1..0, an `int` −2..1, an `unsigned` 0..3 and a `long`
  −4..3, so that each conversion has values inside, between and outside. One
  list of five arguments has everything that arrives, four others what does not.
  Lists and dicts have two elements, so that the bad one can be first or last
  and two keys can become equal; elements are scalars, but for a list as a key.
  `NewApi = TRUE` only adds behaviours. The theorems of section 6 hold for any
  widths and for lists and dicts of any size.
* Values: every text of up to two of eight characters, NUL among them, is an
  argument and an output, with all pairs that quoting could confuse; two
  arguments and lists of two texts, empty ones included, are enough for a
  separator to be missing or too many. `IntDigits = 2` with outputs of three
  digits makes a number that does not fit. Five variables of four Expected
  types: two that convert to each other, one of no value, one whose error
  converts to its value. Three guards and two functions give every pair of
  owners; `MaxThrows = 1` is one throw per function. The theorems of section 6
  remove all of these bounds.

Deadlock is not checked: where the process has ended (an assert,
`std::terminate`, undefined behaviour), where the bound on calls or
interpreters is used up, and, in the shell, where a call really waits for good
nothing further happens. That calls do return is stated as a liveness property
instead.

### Fairness

* `ShellSession`: weak fairness of the host thread and of each handler of the
  io thread — both are threads of the operating system, and the io thread runs
  every handler that is posted. Weak fairness of `TakeLine` and `EchoMark`: a
  shell that can read does read, and a line that can end ends; a line that
  never ends makes a call that never returns and refutes nothing. There is no
  fairness for the death of the shell, its output, the child, or the user.
* `PythonInterpreter`: weak fairness of the steps of a thread that need no
  lock. Strong fairness of every step that waits for a lock: CPython's lock
  forces a switch when another thread asks for it, so a thread that waits gets
  it eventually. Strong fairness of the end of a script: a script that is
  given the lock again and again ends.

## 4. Findings

Each is a run that TLC refutes; the trace shows how.

1. **A shell that dies may leave its call waiting** (`shell_death`,
   `shell_session.h:42`). The handler of `async_wait` cancels the read once. If
   it runs before the read starts, or between two reads of
   `async_read_until`, the cancellation is lost, and as long as somebody else
   has the pipe open there is no end of file either.
2. **Tuples of several types are popped against the wrong types** (`lua_tuple`,
   `lua_helpers.h:42`). Values come from last to first, types from first to
   last.
3. **Setting a variable to a table overflows the Lua stack** (`lua_set`,
   `lua_state.h:384`): all of it is pushed before `endTable`, without
   `lua_checkstack`.
4. **Before Python 3.12, the lock is lost with the first plugin that is
   destroyed** (`python_shared`, `python_interpreter.cpp:71`).
5. **Move assignment destroys the members in the wrong order**
   (`python_assign`, `python_interpreter.h:21`).
6. **With Python 3.12, the message of an exception is released twice**
   (`python_borrowed`, `python_exception.cpp:24`): `PyTuple_GetItem` lends its
   result, and a `PythonObject` takes it for its own.

Further divergences that the passing properties describe precisely rather than a
run of their own: an answer is lost when background output is read together with
the marker, and the asserts of `environmentVariable` can fail then; it is also
lost when a line redirects or closes the stdout of the shell (`LossHasCause`),
and the call may then wait for good (`HostReturns`); a failed conversion in
Python is reported by the next call (`FailureHasCause`); setting a variable of
Python to a string that is not UTF-8 deletes it and reports success, although
`python_interpreter.h:50-52` says that the value is set (`ArgumentsArrive`); a
failed call in Lua leaves values behind (`StackIsRestored`); the plugin manager
does not keep libraries loaded, although `plugin_manager.h:80` says so of
`plugins_` (`CrashNeedsNoPlugin`); a list printed by a shell function may make
the call throw instead of returning an error, and a list of one empty text comes
back empty (`ResultIsOutput`); a number that is printed with a newline is no
number (`ResultIsOutput`); an error may be taken for a value if its type
converts (`SideIsKept`). A call of a shell plugin for `bool`, `const char*` or a
`std::tuple`, which `shell/plugin.h:26-33` lists, does not compile; neither does
a comparison of two `Expected<void, E>` (`expected.h:805` names a member that
does not exist).

## 5. Mutants

For every property of a passing run one definition of the model is replaced
by a variant with a plausible bug — a read that overwrites the buffer, a
cancellation that forgets the read, a constructor that keeps the lock, an
`endTable` that is one pair short — and TLC then finds the property violated
under the configuration of the run. So none of the properties holds merely by
the shape of the model.

## 6. Proofs

For all values of the constants that the `ASSUME`s of the modules allow, and
for specifications without fairness:

| Module | Theorem | States |
|---|---|---|
| `ShellSession_proofs` | `TypeCorrect` | `Spec => []TypeOK` |
| | `InductiveInvariant` | `Spec => []Inductive` |
| | `AnswersAreExact` | answers are own, complete, in order |
| | `InStep` | host and shell are in step between calls, and no read is left |
| | `LossesHaveCauses` | lost answers need background output or a redirection, failed asserts background output |
| | `DeadStaysSilent` | no answer from a dead shell |
| | `NoLateHandler` | no handler after the destructor |
| | `SessionImplementsPlugin` | `Spec => Abstract!Spec`: the session implements `PluginCall` |
| `LuaStack_proofs` | `InductiveInvariant`, `TypeCorrect` | `Spec => []Inductive`, `Spec => []TypeOK` |
| | `FrameStaysIntact` | no operation takes what is not its own |
| | `StackIsLeftAsFound` | a success leaves the stack as it was, a failure a bounded rest |
| | `SetValuesAreRead` | a global is the value, or table, that was set |
| | `ResultsAreReturned` | results arrive in order, or a type was wrong |
| | `NothingLeaks` | the stack overflows only after a failure, or when one request needs more than there is |
| `LuaTable_proofs` | `TableInvariant`, `TableTypeCorrect` | `TableSpec => []TableInductive`, `=> []TableTypeOK` |
| | `LevelsStayIntact` | each level finds its table and key, `lua_next` never fails |
| | `OverflowsOnlyByDepth` | a conversion runs out of slots only by the depth of the tables and what others left |
| | `TablesAreTaken` | a conversion leaves the stack as it was, but for a value it could not convert |
| | `ReferenceInvariant` | `TableSpec => []ReferenceInductive` |
| | `ConversionsAreAsDefined` | a conversion gives what the recursive definition says |
| `PythonInterpreter_proofs` | `InductiveInvariant`, `TypeCorrect` | `Spec => []Inductive`, `Spec => []TypeOK` |
| | `LocksFollowAttachment`, `LocksAreReturned` | a lock is held by exactly the thread that has attached its interpreter; no thread returns to the host with one |
| | `NoneIsUsedAfterItsEnd` | no interpreter is locked or entered after its end |
| | `EachHasOneOwner` | none leaks, none belongs to two plugins |
| `Library_proofs` | `InductiveInvariant`, `TypeCorrect` | `Spec => []Inductive`, `Spec => []TypeOK` |
| | `EveryHolderIsCounted` | the loader's count is the number of holders |
| | `PluginsDoNotCrash` | a crash needs something kept longer than every plugin of its library |
| | `LoadsFindWhatIsThere` | `load` returns what was there while it looked (an action property) |
| `PythonCall_proofs` | `InductiveInvariant`, `TypeCorrect` | `Spec => []Inductive`, `Spec => []TypeOK` |
| | `FailuresHaveCauses` | a call reports its own failure, or that of an operation known to leave the indicator set |
| | `ValuesAreExact` | scalars, lists and dicts that their C++ type can hold are returned as they are |
| | `ArgumentsReachTheScript` | arguments reach functions, each in its place, and each variable is what it was last set to |
| | `IndicatorHasItsCause` | what leaves the error indicator set (an action property) |
| `Values_proofs` | `ShellCallInvariant`, `ShellCallTypeCorrect` | `Spec => []Inductive`, `Spec => []TypeOK` of `ShellCall` |
| | `ArgumentsArriveAsWords` | the shell reads a line as the name and the arguments it was built from, NULs dropped |
| | `ResultsAreTheOutput` | results are the output; lists that are printed come back element by element |
| | `VariablesAreWritten` | a write that succeeds has written the variable it names, whole, and no write changes another (an action property) |
| | `SidesAreKept` | a result stays on the side it was put |
| | `EachRunsOnce` | a guarded function runs to its end exactly once, unless it is cancelled |

Every invariant and action property that a passing run checks is one of these.
The inductive invariants of the shell, Lua, Python and library modules are also
`INVARIANT`s of runs, so that TLC has looked for a counterexample first. The
proofs that a step keeps them have one lemma or step per action.

### 6.1 The shell session

That an answer is the call's own is not inductive: it says nothing of an answer
that is still on its way. The argument is about one stream, `result \o stdout`:
what has been read so far followed by what is still in the pipe. `Handshake`
says where the read and the two threads are relative to each other;
`OneLineInFlight` that while a call is served its line is in stdin, or with the
shell, or done; `StreamIsOwn` that the stream holds the output of that line,
complete and in order, and ends with its marker but for noise. Reading moves a
chunk from `stdout` to `result` and leaves the stream as it is; only the shell
and the child add to it, at its end. `InStepBetweenCalls` carries the
invariant from one call to the next: nothing is left in the pipe that the next
call could take for its own. `NoiseIsCounted` adds that without background
output there is none in the stream, so that the marker is last in the buffer
and the checks of `Finish` succeed. All of this is about a shell that has its
stdout; `AwayIsSilent` is about one that has given it up: no marker comes any
more, and a call that met the end of the pipe has emptied it, so that no later
call is answered either.

### 6.2 The session implements the contract

Each action of the session is mapped to a step of `PluginCall` or to a stutter.
The exit codes of a line, `codes`, are read off the same stream
(`ReportedInStream`), so reading is a stutter, `EchoMark` is the execution of
the line, and `Finish` answers with the code that is in the stream
(`CodeIsOwn`). `Inductive` says nothing of the pipes once the shell is dead, and
a call on a dead session would then be one whose marker may already be there.
`NothingFromLaterCalls` excludes that: whatever is in the pipes, alive or dead,
names no call after the current one. It is an auxiliary invariant of this proof
only (the lemma `NoPartyIsAhead`).

### 6.3 The Lua stack and nested tables

While a request is under way the stack is the frame it found, the function, the
arguments that are complete, and the part of a table that is being built
(`PushesInOrder`, `ArgumentsAreUnderWay`); while results are popped, the frame
and the results that are left (`PopsInOrder`). How far the pushes are is a
position in the steps of *all* arguments, a recursive function (`StepsOf`); that
the position is inside exactly one argument follows from taking the least
counterexample (`LeastNumber`). The other half of `Inductive`,
`SlotsAreCounted`, counts slots by the same means: the stack is as high as
`Heights` says for the steps done, and `Need` is the greatest of those heights.
That results of one type go through `PopTuple` unchanged is `ThroughOneType`, by
the first conversion that would change one (`UpTo`).
`FoundAsLoaded` gives `OverflowNeedsFailure`: until something fails, each
request starts on what the script itself left. The assumptions
(`StackAssumption`) are only that values are values, a table a sequence of pairs
of scalars, and requests well-formed.

For tables, `Level` says in which slot each call of `topMap` has its table: one
above the level below it, or two if that level converts a value, whose key is
under it. `LevelsFit` says that nothing else is on the stack, `KeysAreTheirs`
that the key of a level is one of its table. A step touches the innermost level
only; `BelowIsKept` says once that the levels below stand as they stood.
`TableAssumption` says that `TableTypes` and `TableValues` are closed under
taking parts, which any set of types and finite tables can be extended to, and
that no key is nil and no two keys of a table are the same, which Lua
guarantees. `OverflowNeedsDepth` follows from `LevelsFit` at the step that finds
no slot; after it nothing is said of the levels any more.

What the levels have converted is `FollowsReference`: a level that is at the
`p`-th pair of its table has in its map what the definition makes of the pairs
before it, and what a level answers is the definition of what the level below
has asked for. A step then needs three facts about the definition, which no
stack appears in: `emplace` of one more row is the map of one row more
(`EmplaceNext`); the map of all rows is an array for `topArray`, which looks at
the places of the keys in their order, just when the definition says so, which
looks at the keys as a set (`WhenAnArray`, by counting); and `Convert` exists.
That is not a matter of course for a recursive function: `TypesAssumption` says
that types are made of smaller ones, as C++ types are, `AttemptsAgree` and
`AttemptsExist` that two partial solutions agree and that every type is in one,
both by taking a smallest counterexample. So the prover needs no induction over
tables: the nesting of the values is followed by the steps of the program, that
of the types by this argument.

### 6.4 Interpreters, libraries

`Inductive` of `PythonInterpreter` has three parts. `Locking` follows each
thread through its operation: which interpreter it has attached at each `pc`,
that one thread at a time uses a plugin, that nobody holds what is not created
yet. It does not depend on the host. Neither does `LentIsAlive`: an interpreter
that `Ensure` has attached does not end before the new one is there, because who
ends one has attached it, and no two threads attach interpreters of one lock.
`DropsInOrder` and `OneOwner` — deleters run in the order module, state; every
live interpreter has one owner, a plugin or a list of deleters — need that the
host does not assign over a plugin in use: that is the hypothesis
`~AssignOverLive` of `NoneIsUsedAfterItsEnd` and `EachHasOneOwner`, and the run
`python_assign` shows that it cannot be dropped.

`RefsMatchHolders` of `Library` is nearly inductive; what is missing is what a
load under way holds (`LoadHoldsItsLibrary`), what it has seen of the files
(`LoadSeesChanges`), and that an image that only it has is fresh (`NewIsFresh`).
Counting needs that there are finitely many plugins (`IsFiniteSet(Plugins)`,
variables of a program). `LoadsFindWhatIsThere` is an action property: at the
step that ends a load, the invariant before it gives what it may return.

### 6.5 Values of Python

The invariant is the conjunction of what is promised (`FailureHasCause`,
`ValueIsExact`, `ArgumentsArrive`) with the types of what the script holds
(`GlobalsAreObjects`) and with `CauseIsKnown`: as long as the indicator is set,
the operation that has set it is one that can. It is what carries a failure over
any number of calls, reads and writes to the call that reports it;
`IndicatorHasCause` is the step that begins it. The work is in the conversions:
`AsArray` and `AsMap` hand container and indicator from one element to the next,
and what holds of all elements follows from the first element at which it would
not (`UpTo`, a least counterexample). `RangeAssumption` says that an `int` is no
wider than a `long`, `PythonAssumption` that scripts hold objects and hosts pass
values, of any size and number.

### 6.6 Texts for the shell

`Inductive` of `ShellCall` follows a request: the line that is written is read
as the words that were meant (`ArgumentsArrive`, `RequestStands`), an answer is
all of what was printed for it (`AnswerIsOfShell`), and a result is `Reply`, what
the code makes of an answer. Two facts about conversions carry it, each for any
characters:

* `ReadCommandLine`: `Words(BuildCommandLine(name, args))` is the name followed
  by the texts and elements of the arguments. The shell reads character after
  character, so its reader is followed through the states it goes through: after
  what stands for a character inside quotes it is inside the same quotes with
  that character at the end of its word (`ReadEscapedCharacter`), after a quoted
  text it has the text (`ReadQuoted`), after an argument its words
  (`ReadArgument`). A NUL changes none of these states (`HeardOnItsOwn`,
  `WordIsHeard`), and a name has none (`NameIsHeard`).
* `ListIsReturned`: a list that is printed with its special characters escaped is
  converted back to that list, but for that of one empty text, which is printed as
  nothing at all. The separator is followed in the same way (`CollectElement`,
  `CollectList`).

For a write, `FirstEquals` says that the first `=` of the word is the one behind
the name, because the check of names lets no `=` through. `ShellAssumption` says
that names, texts and outputs are sequences of characters and arguments are
texts, numbers or vectors. It also says that the names of the two commands that
the library itself writes, `printenv` and `export`, which the model counts as one
character each, are not among the names the host asks for and the functions of
the script: what a script does that defines a function `export` of its own is
nothing the library could promise anything of.

`ReadCharacter`, `AddElement` and `SeparatorStep` are folded with `Folded`, a
recursive function; the fold of the community modules goes over sets, by a
recursion on their choice of elements that says nothing about an order.

### 6.7 Expected and scope guards

`SidesAreKept` rests on the assumption that the value and the error of an
Expected are of different types, which `expected.h:16` asserts. The strengthening
is that what is held is of the type of its side: a conversion, which casts by
side, would otherwise lose the side it started from. `EachRunsOnce` needs that
guards outside of their scope own nothing, that no function has two owners, and
that a function not yet given has neither run, thrown, nor been cancelled.

### 6.8 Only model-checked

* Liveness (`HostReturns`, `OperationReturns`): fairness and `ENABLED` are
  beyond the prover.
* The runs with `expect: violation` are counterexamples and need no proof.

## 7. Not modelled

* **Reference counts of Python**, but for the borrowed argument above. The
  globals of `__main__` and the module itself are also released without having
  been taken (`python_interpreter.cpp:145`, `:110`), and `None` given as an
  argument is; when that frees an object that is in use depends on counts the
  runtime keeps.
* **What `PyGILState_Ensure` remembers.** If it is the thread state of an
  interpreter that another thread has ended, the constructor uses freed memory
  (`python_interpreter.cpp:91`). For sub-interpreters the C API does not say what
  is remembered, so the model takes only interpreters that are alive.
* **Functions as arguments of Lua calls, and callables taken from the stack.**
  No operation of the plugin takes one; `LuaState` is internal to it.
* **Errors that Lua raises outside of `lua_pcall`**: by a metamethod that a script
  has given `_G`, which `lua_getglobal` and `lua_setglobal` honour
  (`lua_state.cpp:155`, `:160`), or for want of memory. They end in the panic
  handler, which throws through Lua (`lua_script.cpp:31-35`). What such a metamethod
  returns or stores in place of a variable is left out as well.
* **`GenericPlugin` and `NoopPlugin`** (`plugin.h`, `noop_plugin.h`). The concept
  `IsPlugin` asks for a `call` without a name, which no plugin has, and for
  `NoopPlugin::load`, which does not exist, so that under C++20 the type `Plugin`
  cannot be instantiated; `GenericPlugin::global(name, value)` returns nothing
  where a result is needed, and `plugin()` gives `std::get_if` a variant for a
  pointer. What is left hands each call on to the plugin it holds.
* **The plugin manager** beyond the loads it forwards: it keeps no state.
* **The strict check of variable names**, which no caller asks for
  (`shell_type_conversion.h:89-99`).
* **Lifetimes of what results refer to**: `call<std::string_view>` of a shell
  plugin returns a view of a text that is gone.
* **`load` of a shell script by a path without a slash**: `.` then looks the file
  up in `PATH`, though the check was made in the working directory.
* `python_list.cpp` (not part of the build: no CMakeLists names it and the header
  it includes does not exist); the template helpers, which the compiler
  evaluates; examples, tests and build files, which are read as statements of
  what the library is to do.

Calls of one plugin by several threads at the same time are outside the model,
as the interface promises nothing about them.
