------------------------------ MODULE Library -------------------------------
(***************************************************************************)
(* Plugins written in C and C++: a plugin object holds a                   *)
(* boost::dll::shared_library, and the dynamic loader counts how often     *)
(* each library was opened.  The last close unmaps it, whatever the host   *)
(* still has of it: objects the plugin made, calls that have not returned. *)
(*                                                                         *)
(* The host has one thread.  Between the steps of a load, somebody may     *)
(* install or remove the file; while a function of a plugin runs, it may   *)
(* call back into the host, which may do anything but return.              *)
(***************************************************************************)
EXTENDS Integers, Sequences, FiniteSets, SequencesExt

CONSTANTS
  Plugins,      \* the host's variables for plugins
  CppPlugins,   \* those of type CppPlugin; the others are CPlugin
  Objects,      \* the host's variables for what plugins make
  Versions,     \* libraries that may be installed
  Exports,      \* Exports[v] : what of {"f", "x"} the library v exports
  NullAliases,  \* libraries in which the exported function pointer is null
  MaxImages,    \* bound: how often a library is mapped
  MaxInstalls,  \* bound: how often the files change
  MaxNesting    \* bound: calls within calls

ASSUME ConstantsAssumption ==
  /\ IsFiniteSet(Plugins)
  /\ CppPlugins \subseteq Plugins /\ NullAliases \subseteq Versions
  /\ Exports \in [Versions -> SUBSET {"f", "x"}]
  /\ {MaxImages, MaxInstalls, MaxNesting} \subseteq Nat
  /\ "absent" \notin Versions /\ "garbage" \notin Versions

\* append_decorations: a load of "dir/a" tries "dir/liba.so" first.
Files    == {"exact", "decorated"}
Contents == Versions \cup {"absent", "garbage"}

VARIABLES
  pc,       \* "idle", the steps of a load, or "segfault"
  disk,     \* what is installed under the two names
  mapped,   \* per file: the image the loader has of it, or NoImage
  refs,     \* per file: how often it is open
  handle,   \* the library each plugin has: a file and the number of its image
  loading,  \* the load in progress: its target, the shared_library in the
            \* std::optional and the one in new_plugin
  frames,   \* calls that have not returned, the innermost last
  objects,  \* what each object's code belongs to
  images,   \* images so far
  installs, \* changes of files so far
  reply,    \* of the last load, call, read or write
  seen,     \* what the load in progress could find (for the properties)
  used      \* the code a crash was in (for the properties)

vars == <<pc, disk, mapped, refs, handle, loading, frames, objects, images,
          installs, reply, seen, used>>

loader == <<mapped, refs, images>>
others == <<disk, installs, seen, used>>

NoImage == [number |-> 0, version |-> "none", x |-> "none"]
None    == [file |-> "none", number |-> 0]
NotLoading == [target |-> "none", temporary |-> None, new |-> None]

\* Code that is gone: what is mapped there now is another image, or nothing.
IsMapped(h) == h.file \in Files /\ mapped[h.file].number = h.number

\* Expected<T, E>: a value or an error.
Value(v)    == [hasValue |-> TRUE, is |-> v]
Error(e)    == [hasValue |-> FALSE, is |-> e]
AndThen(result, next) == IF result.hasValue THEN next ELSE result

Init ==
  /\ pc = "idle"
  /\ disk \in [Files -> Contents]
  /\ mapped = [f \in Files |-> NoImage] /\ refs = [f \in Files |-> 0]
  /\ handle = [p \in Plugins |-> None]
  /\ loading = NotLoading
  /\ frames = <<>> /\ objects = [o \in Objects |-> None]
  /\ images = 0 /\ installs = 0
  /\ reply = Value("none") /\ seen = {} /\ used = None

-----------------------------------------------------------------------------
(* The dynamic loader (external)                                           *)

\* A library that is open under this name is not looked for on disk.
CanOpen(f) == refs[f] > 0 \/ disk[f] \in Versions

HandleOf(f) == [file |-> f, number |-> IF refs[f] > 0 THEN mapped[f].number ELSE images + 1]

Open(f) ==
  /\ refs' = [refs EXCEPT ![f] = @ + 1]
  /\ IF refs[f] > 0 THEN UNCHANGED <<mapped, images>>
     ELSE /\ images < MaxImages
          /\ images' = images + 1
          /\ mapped' = [mapped EXCEPT ![f] =
                          [number |-> images + 1, version |-> disk[f], x |-> "initial"]]

\* What the loader has after count[f] of the libraries were closed once each.
CloseAll(count) ==
  /\ refs' = [f \in Files |-> refs[f] - count[f]]
  /\ mapped' = [f \in Files |-> IF refs[f] = count[f] THEN NoImage ELSE mapped[f]]
  /\ UNCHANGED images

Once(h) == [f \in Files |-> IF f = h.file THEN 1 ELSE 0]
Close(h) == CloseAll(Once(h))

\* Somebody installs another library, something else, or removes the file.
Install(f, content) ==
  /\ installs < MaxInstalls /\ disk[f] # content
  /\ disk' = [disk EXCEPT ![f] = content]
  /\ installs' = installs + 1
  /\ seen' = IF pc = "idle" THEN seen ELSE seen \cup {<<f, content>>}
  /\ UNCHANGED <<pc, loader, handle, loading, frames, objects, reply, used>>

-----------------------------------------------------------------------------
(* load(): two checks, a load that may throw, a copy                        *)

EndLoad(result) ==
  pc' = "idle" /\ loading' = NotLoading /\ reply' = result /\ seen' = {}

BeginLoad(p) ==
  /\ pc = "idle"
  /\ IF disk["exact"] = "absent"
       THEN EndLoad(Error("fileNotFound"))
       ELSE /\ pc' = "check" /\ loading' = [NotLoading EXCEPT !.target = p]
            /\ seen' = {<<f, disk[f]>> : f \in Files}
            /\ reply' = Value("none")
  /\ UNCHANGED <<loader, handle, frames, objects, disk, installs, used>>

\* loadSharedLibrary asks again whether the file is there.
CheckAgain ==
  /\ pc = "check"
  /\ IF disk["exact"] = "absent" THEN EndLoad(Error("unknown"))
     ELSE pc' = "open" /\ UNCHANGED <<loading, reply, seen>>
  /\ UNCHANGED <<loader, handle, frames, objects, disk, installs, used>>

\* The decorated name comes first; a file of that name that cannot be opened
\* is an error, and so is one that cannot be opened under the given name.
OpenLibrary ==
  /\ pc = "open"
  /\ \E f \in Files :
       /\ CanOpen(f)
       /\ f = "exact" => ~CanOpen("decorated") /\ disk["decorated"] = "absent"
       /\ Open(f)
       /\ loading' = [loading EXCEPT !.temporary = HandleOf(f)]
  /\ pc' = "copy"
  /\ UNCHANGED <<handle, frames, objects, reply, others>>

\* The exception of the constructor of shared_library leaves load().
LoadThrows ==
  /\ pc = "open"
  /\ ~CanOpen("decorated")
  /\ disk["decorated"] # "absent" \/ ~CanOpen("exact")
  /\ EndLoad(Error("exception"))
  /\ UNCHANGED <<loader, handle, frames, objects, disk, installs, used>>

\* (A copy that does not open the library once more.)
CopyLibrary_Shares ==
  /\ pc = "copy"
  /\ loading' = [loading EXCEPT !.new = loading.temporary]
  /\ pc' = "return"
  /\ UNCHANGED <<loader, handle, frames, objects, reply, others>>

\* new_plugin.plugin_ = *shared_library: the copy opens the library again.
CopyLibrary ==
  /\ pc = "copy"
  /\ Open(loading.temporary.file)
  /\ loading' = [loading EXCEPT !.new = loading.temporary]
  /\ pc' = "return"
  /\ UNCHANGED <<handle, frames, objects, reply, others>>

\* (The shared_library is released rather than destroyed.)
ReturnPlugin_Leaks ==
  /\ pc = "return"
  /\ handle' = [handle EXCEPT ![loading.target] = loading.new]
  /\ Close(handle[loading.target])
  /\ EndLoad(Value("plugin"))
  /\ UNCHANGED <<frames, objects, disk, installs, used>>

\* The plugin is moved to the host's variable, what was there goes, and with
\* it the shared_library that was copied.
ReturnPlugin ==
  /\ pc = "return"
  /\ handle' = [handle EXCEPT ![loading.target] = loading.new]
  /\ LET old == handle[loading.target]
     IN CloseAll([f \in Files |-> Once(old)[f] + Once(loading.temporary)[f]])
  /\ EndLoad(Value("plugin"))
  /\ UNCHANGED <<frames, objects, disk, installs, used>>

-----------------------------------------------------------------------------
(* Copy, move and destruction of plugins: the defaulted members             *)

SameType(p, q) == p # q /\ (p \in CppPlugins <=> q \in CppPlugins)

\* (By the pointer only: the library is not opened again.)
CopyAssign_Shares(p, q) ==
  /\ pc = "idle" /\ SameType(p, q)
  /\ handle' = [handle EXCEPT ![p] = handle[q]]
  /\ Close(handle[p])
  /\ UNCHANGED <<pc, loading, frames, objects, reply, others>>

\* Nothing happens if both have the same library.
CopyAssign(p, q) ==
  /\ pc = "idle" /\ SameType(p, q) /\ handle[p] # handle[q]
  /\ handle' = [handle EXCEPT ![p] = handle[q]]
  /\ refs' = [f \in Files |-> refs[f] - Once(handle[p])[f] + Once(handle[q])[f]]
  /\ mapped' = [f \in Files |-> IF refs'[f] = 0 THEN NoImage ELSE mapped[f]]
  /\ UNCHANGED <<pc, loading, frames, objects, reply, others, images>>

\* Boost.DLL documents that the target is closed, and swaps the two instead;
\* both are possible here.  With the same library in both, nothing happens.
MoveAssign(p, q) ==
  /\ pc = "idle" /\ SameType(p, q) /\ handle[p] # handle[q]
  /\ \/ /\ handle' = [handle EXCEPT ![p] = handle[q], ![q] = handle[p]]
        /\ UNCHANGED loader
     \/ /\ handle' = [handle EXCEPT ![p] = handle[q], ![q] = None]
        /\ Close(handle[p])
  /\ UNCHANGED <<pc, loading, frames, objects, reply, others>>

\* (That does not forget the library it has closed.)
Destroy_KeepsHandle(p) ==
  /\ pc = "idle" /\ handle[p] # None
  /\ Close(handle[p])
  /\ UNCHANGED <<pc, handle, loading, frames, objects, reply, others>>

Destroy(p) ==
  /\ pc = "idle" /\ handle[p] # None
  /\ handle' = [handle EXCEPT ![p] = None]
  /\ Close(handle[p])
  /\ UNCHANGED <<pc, loading, frames, objects, reply, others>>

-----------------------------------------------------------------------------
(* call() and global()                                                      *)

Crash(h) == pc' = "segfault" /\ used' = h

\* isCallable
IsCallable(p, symbol) ==
  IF handle[p] = None THEN Error("notLoaded")
  ELSE IF symbol \notin Exports[mapped[handle[p].file].version] THEN Error("symbolNotFound")
  ELSE Value(symbol)

\* getFunctionSymbol, and for C++, where an alias is a pointer to the function,
\* getFunctionPointerSymbol.
FunctionSymbol(p) ==
  AndThen(IsCallable(p, "f"),
    IF p \in CppPlugins /\ mapped[handle[p].file].version \in NullAliases
      THEN Error("unknown") ELSE Value("f"))

\* getSymbol: a variable has an address, which is never null.
DataSymbol(p) == IsCallable(p, "x")

\* What a plugin has is always there: see RefsMatchHolders.
HasImage(p) == handle[p] # None => IsMapped(handle[p])

Call(p) ==
  /\ pc = "idle" /\ HasImage(p) /\ Len(frames) < MaxNesting
  /\ LET symbol == FunctionSymbol(p)
     IN IF symbol.hasValue
          THEN frames' = Append(frames, handle[p]) /\ UNCHANGED reply
          ELSE reply' = symbol /\ UNCHANGED frames
  /\ UNCHANGED <<pc, loader, handle, loading, objects, others>>

\* The function returns to the host, with an object it has made or without, or
\* it throws, and call() does with it.
Return ==
  /\ pc = "idle" /\ frames # <<>>
  /\ IF IsMapped(Last(frames))
       THEN /\ frames' = Front(frames)
            /\ \/ /\ \E o \in Objects :
                       objects[o] = None /\ objects' = [objects EXCEPT ![o] = Last(frames)]
                  /\ reply' = Value("result")
               \/ /\ reply' \in {Value("result"), Error("exception")}
                  /\ UNCHANGED objects
            /\ UNCHANGED <<pc, used>>
       ELSE Crash(Last(frames)) /\ UNCHANGED <<frames, objects, reply>>
  /\ UNCHANGED <<loader, handle, loading, disk, installs, seen>>

\* The host destroys an object: its destructor is code of the library.
DestroyObject(o) ==
  /\ pc = "idle" /\ objects[o] # None
  /\ IF IsMapped(objects[o])
       THEN objects' = [objects EXCEPT ![o] = None] /\ UNCHANGED <<pc, used>>
       ELSE Crash(objects[o]) /\ UNCHANGED objects
  /\ UNCHANGED <<loader, handle, loading, frames, reply, disk, installs, seen>>

GetGlobal(p) ==
  /\ pc = "idle" /\ HasImage(p)
  /\ reply' = AndThen(DataSymbol(p), Value(mapped[handle[p].file].x))
  /\ UNCHANGED <<pc, loader, handle, loading, frames, objects, others>>

SetGlobal(p) ==
  /\ pc = "idle" /\ HasImage(p)
  /\ LET symbol == DataSymbol(p)
     IN IF symbol.hasValue
          THEN /\ mapped' = [mapped EXCEPT ![handle[p].file].x = "written"]
               /\ reply' = Value("none")
          ELSE reply' = symbol /\ UNCHANGED mapped
  /\ UNCHANGED <<pc, refs, images, handle, loading, frames, objects, others>>

Next ==
  \/ \E f \in Files, content \in Contents : Install(f, content)
  \/ \E p \in Plugins : BeginLoad(p)
  \/ CheckAgain \/ OpenLibrary \/ LoadThrows \/ CopyLibrary \/ ReturnPlugin
  \/ \E p, q \in Plugins : CopyAssign(p, q) \/ MoveAssign(p, q)
  \/ \E p \in Plugins : Destroy(p)
  \/ \E p \in Plugins : Call(p) \/ GetGlobal(p) \/ SetGlobal(p)
  \/ \E o \in Objects : DestroyObject(o)
  \/ Return

Spec == Init /\ [][Next]_vars

-----------------------------------------------------------------------------
(* Properties *)

Handles == {None} \cup [file : Files, number : 1..MaxImages]

TypeOK ==
  /\ pc \in {"idle", "check", "open", "copy", "return", "segfault"}
  /\ disk \in [Files -> Contents]
  /\ refs \in [Files -> Nat]
  /\ mapped \in [Files -> {NoImage} \cup [number : 1..MaxImages, version : Versions,
                                          x : {"initial", "written"}]]
  /\ handle \in [Plugins -> Handles] /\ objects \in [Objects -> Handles]
  /\ loading \in [target : Plugins \cup {"none"}, temporary : Handles, new : Handles]
  /\ frames \in Seq(Handles \ {None})
  /\ images \in 0..MaxImages /\ installs \in 0..MaxInstalls
  /\ used \in Handles

\* Who has a library open: the plugins, and the two objects in load().
Holders(f) ==
  Cardinality({p \in Plugins : handle[p].file = f})
  + Once(loading.temporary)[f] + Once(loading.new)[f]

\* The loader counts every plugin and every step of a load once, through all
\* copies, moves and failures, so that a library is mapped exactly as long as
\* somebody has it, and what each plugin has is what is mapped (the defaulted
\* members of the plugins, load in plugin.cpp, lines 4-15).
RefsMatchHolders ==
  /\ \A f \in Files : refs[f] = Holders(f) /\ (refs[f] > 0 <=> mapped[f] # NoImage)
  /\ \A p \in Plugins : handle[p] # None => IsMapped(handle[p])

\* Objects and running calls may crash, but only once no plugin is left that
\* has their library, be it the one that made them or another; a plugin itself
\* can always be called.  (plugin_manager.h, lines 59-61; the manager does not
\* help, lines 80-82.)
CrashNeedsNoPlugin == pc = "segfault" => \A p \in Plugins : handle[p] # used

\* What load() found is what was there while it looked, under one of the two
\* names.  A library nobody has starts anew; only one that somebody still has
\* comes with its globals, and its version, whatever is installed by now.
\* Nothing is thrown unless a file is no library or has just been removed
\* (boost_dll_loader.cpp, lines 76-87).
FoundByLoad ==
  CASE reply'.hasValue ->
         LET f == loading.new.file IN
         (\A p \in Plugins : handle[p] # loading.new) =>
           <<f, mapped'[f].version>> \in seen /\ mapped'[f].x = "initial"
    [] reply' = Error("unknown") ->
         {<<"exact", "absent">>} \subseteq seen /\ Cardinality(seen) > 2
    [] OTHER ->
         \/ \E f \in Files : <<f, "garbage">> \in seen
         \/ <<"exact", "absent">> \in seen /\ Cardinality(seen) > 2

LoadIsAccurate == [][(pc \in {"check", "open", "return"} /\ pc' = "idle") => FoundByLoad]_vars

-----------------------------------------------------------------------------
(* The inductive invariant behind them *)

\* What load() holds follows from how far it is, and is mapped.
LoadHoldsItsLibrary ==
  /\ pc \in {"idle", "segfault"} => loading = NotLoading
  /\ pc \in {"check", "open", "copy", "return"} => loading.target \in Plugins
  /\ pc \in {"check", "open"} => loading.temporary = None
  /\ pc \in {"check", "open", "copy"} => loading.new = None
  /\ pc = "return" => loading.new = loading.temporary
  /\ pc \in {"copy", "return"} => loading.temporary # None /\ IsMapped(loading.temporary)

\* While it looks, load() misses no change of a file; the file was there when
\* it began.
LoadSeesChanges ==
  pc \in {"check", "open", "copy", "return"} =>
    /\ IsFiniteSet(seen) /\ \A f \in Files : <<f, disk[f]>> \in seen
    /\ \E c \in Contents \ {"absent"} : <<"exact", c>> \in seen
    /\ \E c \in Contents : <<"decorated", c>> \in seen

\* A library that nobody else has is as it was found.
NewIsFresh ==
  LET new == loading.temporary IN
  pc \in {"copy", "return"} /\ (\A p \in Plugins : handle[p] # new) =>
    <<new.file, mapped[new.file].version>> \in seen /\ mapped[new.file].x = "initial"

\* What was used when the process crashed is gone.
CrashIsOutside == pc = "segfault" => used # None /\ ~IsMapped(used)

Inductive == /\ TypeOK /\ RefsMatchHolders
             /\ LoadHoldsItsLibrary /\ LoadSeesChanges /\ NewIsFresh /\ CrashIsOutside
=============================================================================
