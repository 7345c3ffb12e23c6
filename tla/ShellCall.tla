----------------------------- MODULE ShellCall -----------------------------
(***************************************************************************)
(* The values of a shell plugin: calls of functions of the script, reads   *)
(* and writes of variables (shell/plugin.h), from the C++ arguments to the *)
(* words the shell executes, and from its output to the C++ result.  The   *)
(* protocol that carries line and output is that of ShellSession; here it  *)
(* is one step of the shell.                                               *)
(***************************************************************************)
EXTENDS ShellWords, Expected

CONSTANTS
  Names,       \* names of functions and variables that the host asks for
  Functions,   \* those the script defines as functions
  Identifiers, \* those the shell accepts as names of variables
  Texts,       \* values of variables
  Arguments,   \* sequences of arguments of calls
  Outputs,     \* what a function may print
  Lists        \* what a function may print as a list

\* A value of C++: a text, a number, or a vector of texts.
IsArgument(value) ==
  /\ value.type \in {"text", "number", "vector"} /\ IsSequence(value.it)
  /\ value.type = "vector" => \A i \in DOMAIN value.it : IsSequence(value.it[i])

\* Nobody asks for a function of the name of a command, and the script does
\* not define one.
ASSUME ShellAssumption ==
  /\ \A text \in Names \cup Texts \cup Outputs : IsSequence(text)
  /\ \A list \in Lists : IsSequence(list) /\ \A i \in DOMAIN list : IsSequence(list[i])
  /\ \A args \in Arguments : IsSequence(args) /\ \A i \in DOMAIN args : IsArgument(args[i])
  /\ {<<"printenv">>, <<"export">>} \cap ({WithoutNul(name) : name \in Names} \cup Functions) = {}

VARIABLES
  pc,       \* "idle", "line" (written to the shell), "answer" (its output),
            \* "returned" (the host has the result)
  request,  \* what the host asks for: operation, name and type of the result
  passed,   \* values the host passes with it: of a call, until the shell has the line
  line,     \* the command line, until the shell has read it
  alive,    \* whether the shell runs
  env,      \* the exported variables of the shell
  printed,  \* the list a function has printed, if it did: a set
  session,  \* result of the session: callWithResult or environmentVariable
  reply     \* result of the last operation of the plugin

vars == <<pc, request, passed, line, alive, env, printed, session, reply>>

Error_(code)  == Of("CallError", code)
Result(type, it) == Ok(type, "CallError", Of(type, it))
Failure(type, code) == Fail(type, "CallError", Error_(code))

Request(op, name, type) == [op |-> op, name |-> name, type |-> type]
NoRequest == Request("call", <<>>, "void")

Init ==
  /\ pc = "idle" /\ alive = TRUE /\ line = <<>> /\ printed = {}
  /\ request = NoRequest /\ passed = <<>>
  /\ env = [name \in {} |-> <<>>]
  /\ session = Result("text", <<>>) /\ reply = Result("void", <<>>)

-----------------------------------------------------------------------------
(* Host *)

Send(command) ==
  /\ line' = command
  /\ IF alive THEN pc' = "line" /\ UNCHANGED session
              ELSE pc' = "answer" /\ session' = Failure("text", "unknown")
  /\ printed' = {}
  /\ UNCHANGED <<alive, env, reply>>

Call(name, args, type) ==
  /\ pc = "idle"
  /\ request' = Request("call", name, type) /\ passed' = args
  /\ Send(BuildCommandLine(name, args))

Refuse ==
  /\ pc' = "answer"
  /\ session' = Failure("text", "symbolNotFound")
  /\ UNCHANGED <<line, alive, env, printed, reply>>

Get(name, type) ==
  /\ pc = "idle"
  /\ request' = Request("get", name, type) /\ passed' = <<>>
  /\ IF IsValidShellVariableName(name)
       THEN Send(<<"printenv", Space>> \o Quoted(name))
       ELSE Refuse

Set(name, text) ==
  /\ pc = "idle"
  /\ request' = Request("set", name, "void")
  /\ passed' = <<[type |-> "text", it |-> text]>>
  /\ IF IsValidShellVariableName(name)
       THEN Send(<<"export", Space>> \o Quoted(name \o <<Equals>> \o text))
       ELSE Refuse

\* (Passing the text on as it is.)
Converted_Not(type, text) == Result("text", text)

\* What callWithResult returned, as the C++ type that was asked for.
Converted(type, text) ==
  IF type = "void" THEN Result("void", <<>>)
  ELSE LET value == ConvertFromShellString(type, text) IN
         CASE value = {}      -> Failure(type, "incorrectType")
           [] value = {Threw} -> Failure(type, "thrown")
           [] OTHER           -> Result(type, (CHOOSE v \in value : TRUE).it)

\* environmentVariable() removes the newline of printenv.
Text == IF request.op = "get" THEN Front(session.holds.it) ELSE session.holds.it

\* "thrown": the exception leaves the call.
Reply == AndThenExpected(session, IF session.has THEN Converted(request.type, Text)
                                                 ELSE Result(request.type, <<>>))

Return ==
  /\ pc = "answer"
  /\ pc' = "returned"
  /\ reply' = Reply
  /\ UNCHANGED <<request, passed, line, alive, env, printed, session>>

\* The host drops the result.
Drop ==
  /\ pc = "returned"
  /\ pc' = "idle" /\ printed' = {} /\ request' = NoRequest /\ passed' = <<>> /\ line' = <<>>
  /\ session' = Result("text", <<>>) /\ reply' = Result("void", <<>>)
  /\ UNCHANGED <<alive, env>>

-----------------------------------------------------------------------------
(* Shell (external) *)

\* The command has printed the text and ended with exit code 0.
Prints(text)  == session' = Result("text", text)
ExitsWithError == session' = Failure("text", "unknown")

\* A list as the comments of Boost.Tokenizer have it.
PrintedElement(text) ==
  FlattenSeq([i \in DOMAIN text |->
    IF text[i] = Newline THEN <<Backslash, LetterN>>
    ELSE IF text[i] \in {Space, DoubleQuote, Backslash} THEN <<Backslash, text[i]>>
    ELSE <<text[i]>>])

Printed(list) ==
  FlattenSeq([i \in DOMAIN list |->
    (IF i = 1 THEN <<>> ELSE <<Space>>) \o PrintedElement(list[i])])

\* A function prints something, and may assign a variable that is exported.
RunFunction(words) ==
  /\ words[1] \in Functions
  /\ \/ ExitsWithError /\ UNCHANGED printed
     \/ \E text \in Outputs : Prints(text) /\ UNCHANGED printed
     \/ \E list \in Lists : Prints(Printed(list)) /\ printed' = {list}
  /\ UNCHANGED <<alive, env>>

ChangeEnvironment(words) ==
  /\ words[1] \in Functions
  /\ \E name \in DOMAIN env, text \in Texts : env' = [env EXCEPT ![name] = WithoutNul(text)]
  /\ Prints(<<>>)
  /\ UNCHANGED <<alive, printed>>

RunUnknown(words) ==
  /\ words[1] \notin Functions \cup {<<"printenv">>, <<"export">>}
  /\ ExitsWithError
  /\ UNCHANGED <<alive, env, printed>>

RunPrintenv(words) ==
  /\ words[1] = <<"printenv">>
  /\ IF words[2] \in DOMAIN env THEN Prints(env[words[2]] \o <<Newline>>)
                                ELSE ExitsWithError
  /\ UNCHANGED <<alive, env, printed>>

\* The exported variables with this one.
With(name, text) ==
  [other \in {name} \cup DOMAIN env |-> IF other = name THEN text ELSE env[other]]

\* The name ends at the first =.  export is a special builtin: if the name is
\* none, the shell may exit.
RunExport(words) ==
  /\ words[1] = <<"export">>
  /\ LET word == words[2]
         end  == CHOOSE i \in DOMAIN word :
                   word[i] = Equals /\ \A j \in 1..(i - 1) : word[j] # Equals
         name == SubSeq(word, 1, end - 1)
     IN IF name \in Identifiers
          THEN /\ env' = With(name, SubSeq(word, end + 1, Len(word)))
               /\ Prints(<<>>) /\ UNCHANGED alive
          ELSE alive' \in BOOLEAN /\ ExitsWithError /\ UNCHANGED env
  /\ UNCHANGED printed

Execute ==
  /\ pc = "line"
  /\ pc' = "answer"
  /\ LET words == Words(line) IN
       \/ RunFunction(words) \/ ChangeEnvironment(words) \/ RunUnknown(words)
       \/ RunPrintenv(words) \/ RunExport(words)
  /\ line' = <<>> /\ passed' = IF request.op = "set" THEN passed ELSE <<>>
  /\ UNCHANGED <<request, reply>>

Next ==
  \/ \E name \in Names, type \in {"text", "number", "vector"} : Get(name, type)
  \/ \E name \in Names, text \in Texts : Set(name, text)
  \/ \E name \in Names, args \in Arguments, type \in {"void", "text", "number", "vector"} :
       Call(name, args, type)
  \/ Execute
  \/ Return
  \/ Drop

Spec == Init /\ [][Next]_vars

-----------------------------------------------------------------------------
(* Properties *)

TypeOK ==
  /\ pc \in {"idle", "line", "answer", "returned"} /\ alive \in BOOLEAN
  /\ request.op \in {"call", "get", "set"}
  /\ DOMAIN env \subseteq Identifiers
  /\ printed \subseteq Lists
  /\ session.T = "text" /\ session.E = "CallError"
  /\ reply.E = "CallError" /\ (pc = "returned" => reply.T = request.type)

ElementsOf(value) ==
  IF value.type = "vector" THEN [i \in DOMAIN value.it |-> WithoutNul(value.it[i])]
                           ELSE <<WithoutNul(value.it)>>

\* What the host passes reaches the program the shell starts: its first word
\* is the function, whatever characters its name has, and each text is one
\* word, whatever it holds but for NUL, which the shell drops; a vector is as
\* many words as it has elements.  Nothing of a text is read by the shell as
\* syntax (buildCommandLine, and the lines of environmentVariable).
ArgumentsArrive ==
  pc = "line" =>
    Words(line) =
      CASE request.op = "call" ->
             <<WithoutNul(request.name)>>
               \o FlattenSeq([i \in DOMAIN passed |-> ElementsOf(passed[i])])
        [] request.op = "get"  -> <<<<"printenv">>, request.name>>
        [] request.op = "set"  ->
             <<<<"export">>, request.name \o <<Equals>> \o WithoutNul(passed[1].it)>>

\* What a call or a read returns is what the shell has printed for it: all of
\* it as a text, newline included; as a number only if it is nothing but that
\* number; and a list that was printed with its special characters escaped,
\* element by element, but for that of one empty text, which looks like the
\* empty list.  An exception leaves the call only if it is to return a vector
\* and the output has a backslash in it.
ResultIsOutput ==
  pc = "returned" /\ request.op # "set" /\ session.has =>
    LET output == session.holds.it
        text   == IF request.op = "get" THEN env[request.name] ELSE output
    IN /\ request.type = "text" => reply = Result("text", text)
       /\ request.type = "number" =>
            (reply.has <=> text # <<>> /\ Len(text) <= IntDigits /\ ToSet(text) \subseteq Digits)
       /\ request.type = "number" /\ reply.has => reply.holds.it = text
       /\ request.type = "vector" =>
            \A list \in printed : reply = Result("vector", IF list = <<<<>>>> THEN <<>> ELSE list)
       /\ reply = Failure(request.type, "thrown") =>
            request.type = "vector" /\ Backslash \in ToSet(text)

\* A line is only sent for a request that has passed the check of its name,
\* and to a shell that runs.
RequestStands ==
  /\ request.type \in {"void", "text", "number", "vector"}
  /\ request.op = "get" => request.type # "void"
  /\ pc \in {"idle", "line"} => printed = {}
  /\ pc = "line" => alive
  /\ pc = "line" /\ request.op = "call" => request.name \in Names /\ passed \in Arguments
  /\ pc = "line" /\ request.op = "set" =>
       /\ IsSequence(request.name) /\ IsValidShellVariableName(request.name)
       /\ IsSequence(passed[1].it)

\* A session that has an answer has all that the shell has printed for the
\* request: for a read, the variable as it still is.  A write has been made.
AnswerIsOfShell ==
  /\ \A name \in DOMAIN env : IsSequence(env[name])
  /\ pc \in {"answer", "returned"} /\ session.has =>
       /\ alive /\ IsSequence(session.holds.it)
       /\ session = Result("text", session.holds.it)
       /\ request.op = "get" =>
            /\ request.name \in DOMAIN env
            /\ session.holds.it = env[request.name] \o <<Newline>>
       /\ request.op = "set" =>
            /\ request.name \in DOMAIN env
            /\ env[request.name] = WithoutNul(passed[1].it)
       /\ \A list \in printed : request.op = "call" /\ session.holds.it = Printed(list)

\* From a call to its result: what is passed is what the shell reads, what it
\* answers is what it has printed, and the result is made of the answer and
\* nothing else (shell/plugin.h, buildCommandLine).
Inductive ==
  /\ TypeOK /\ ArgumentsArrive /\ RequestStands /\ AnswerIsOfShell
  /\ pc = "returned" => reply = Reply

\* A set that returns success has written the variable it names, and the whole
\* text, which is there to be read when the host has the result.  No set
\* writes another variable: what cannot be a name is not taken for a name and
\* the beginning of a value.  A read writes nothing, and no result comes from
\* a line that failed (environmentVariable, isValidShellVariableName).
VariableIsWritten ==
  /\ [](pc = "returned" /\ request.op = "set" /\ reply.has =>
          request.name \in DOMAIN env /\ env[request.name] = WithoutNul(passed[1].it))
  /\ [][env' # env =>
          \/ request.op = "call"
          \/ request.op = "set" /\ env' = With(request.name, WithoutNul(passed[1].it))]_vars
  /\ [][pc' = "returned" /\ reply'.has => session'.has /\ alive']_vars
=============================================================================
