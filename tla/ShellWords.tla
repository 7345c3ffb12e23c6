----------------------------- MODULE ShellWords -----------------------------
(***************************************************************************)
(* Texts that pass between C++ and the shell: what becomes of a C++ value  *)
(* on a command line, how the shell reads that line, and what C++ value    *)
(* the output stands for (shell_type_conversion.h).  A text is a sequence  *)
(* of characters; only those that quoting and conversion tell apart are    *)
(* named.  A command of the shell counts as one character.                 *)
(***************************************************************************)
EXTENDS IndexedSequences, SequencesExt

CONSTANT IntDigits   \* digits of the largest number that fits its type

ASSUME IntDigitsAssumption == IntDigits \in Nat \ {0}

Space == " "   Quote == "'"   DoubleQuote == "\""   Backslash == "\\"
Newline == "\n"   Equals == "="   LetterN == "n"   Digits == {"1"}   Nul == "nul"

-----------------------------------------------------------------------------
(* C++ to shell.  A value is [type, it]: a text, a vector of texts, or a   *)
(* number, given by its digits.                                            *)

Escaped_Not(text) == text

\* A quote ends the quotation, stands escaped, and begins another one.
Escaped(text) ==
  FlattenSeq([i \in DOMAIN text |->
    IF text[i] = Quote THEN <<Quote, Backslash, Quote, Quote>> ELSE <<text[i]>>])

Quoted(text) == <<Quote>> \o Escaped(text) \o <<Quote>>

AddElement(line, text) ==
  (IF line = <<>> THEN <<>> ELSE line \o <<Space>>) \o Quoted(text)

\* An empty vector becomes nothing at all.
ConvertToShellString(value) ==
  IF value.type = "vector" THEN Folded(AddElement, <<>>, value.it) ELSE Quoted(value.it)

BuildCommandLine(name, args) ==
  Quoted(name)
    \o FlattenSeq([i \in DOMAIN args |-> <<Space>> \o ConvertToShellString(args[i])])

-----------------------------------------------------------------------------
(* The words the shell reads on a line (external).  A double quote outside *)
(* of single quotes does not occur on the lines that are built here.       *)

\* A shell drops every NUL among its input.
TakeCharacter(text, c) == IF c = Nul THEN text ELSE Append(text, c)
WithoutNul(text) == Folded(TakeCharacter, <<>>, text)

ReadCharacter(st, c) ==
  IF c = Nul THEN st ELSE
  CASE st.mode = "quoted"  -> IF c = Quote THEN [st EXCEPT !.mode = "word"]
                                           ELSE [st EXCEPT !.word = Append(@, c)]
    [] st.mode = "escaped" -> [st EXCEPT !.mode = "word", !.word = Append(@, c)]
    [] OTHER ->
       IF c = Quote THEN [st EXCEPT !.mode = "quoted"]
       ELSE IF c = Backslash THEN [st EXCEPT !.mode = "escaped"]
       ELSE IF c # Space THEN [st EXCEPT !.mode = "word", !.word = Append(@, c)]
       ELSE IF st.mode = "space" THEN st
       ELSE [mode |-> "space", word |-> <<>>, words |-> Append(st.words, st.word)]

\* A line that ends within quotes is not complete: the shell waits for more.
Words(line) ==
  LET end == Folded(ReadCharacter, [mode |-> "space", word |-> <<>>, words |-> <<>>], line)
  IN IF end.mode \in {"quoted", "escaped"} THEN <<<<"incomplete">>>>
     ELSE IF end.mode = "space" THEN end.words
     ELSE Append(end.words, end.word)

-----------------------------------------------------------------------------
(* Shell to C++.                                                           *)

\* (Dropping what stands after the last separator.)
LastElement_Dropped(st) == IF st.element = <<>> THEN <<>> ELSE <<st.element>>

\* What stands after the last separator is an element, also if it is empty.
LastElement(st) == <<st.element>>

\* boost::escaped_list_separator with escape \, separator space, quote "
\* (external): any character but these three and n after the \ is an error.
SeparatorStep(st, c) ==
  IF st.escape THEN
    [st EXCEPT !.escape = FALSE,
               !.bad = @ \/ c \notin {LetterN, DoubleQuote, Space, Backslash},
               !.element = Append(@, IF c = LetterN THEN Newline ELSE c)]
  ELSE IF c = Backslash THEN [st EXCEPT !.escape = TRUE]
  ELSE IF c = DoubleQuote THEN [st EXCEPT !.quoted = ~@]
  ELSE IF c = Space /\ ~st.quoted
    THEN [st EXCEPT !.elements = Append(@, st.element), !.element = <<>>]
  ELSE [st EXCEPT !.element = Append(@, c)]

Separate(text) ==
  Folded(SeparatorStep, [elements |-> <<>>, element |-> <<>>, quoted |-> FALSE,
                         escape |-> FALSE, bad |-> FALSE], text)

\* std::from_chars takes the whole text, and the number fits its type.
IsNumber(text) ==
  /\ text # <<>> /\ Len(text) <= IntDigits
  /\ \A i \in DOMAIN text : text[i] \in Digits

\* The error of the separator leaves as an exception.
Threw == [type |-> "threw", it |-> <<>>]

\* A std::optional: a set of at most one value.
ConvertFromShellString(type, text) ==
  CASE type = "text"   -> {[type |-> "text", it |-> text]}
    [] type = "number" -> IF IsNumber(text) THEN {[type |-> "number", it |-> text]} ELSE {}
    [] type = "vector" ->
         LET st == Separate(text) IN
           IF st.bad \/ st.escape THEN {Threw}
           ELSE {[type |-> "vector",
                  it |-> IF text = <<>> THEN <<>> ELSE st.elements \o LastElement(st)]}

-----------------------------------------------------------------------------
(* (Checking nothing but that there is a name.)                            *)
IsValidShellVariableName_Nonempty(name) == name # <<>>

\* The check that both accesses to variables make (strict is never passed).
IsValidShellVariableName(name) ==
  name # <<>> /\ \A i \in DOMAIN name : name[i] \notin {Equals, Nul}
=============================================================================
