---------------------------- MODULE ShellSession ----------------------------
(***************************************************************************)
(* A shell plugin: one ShellSession (shell_session.h) owned by one         *)
(* ShellPlugin (shell/plugin.h).  Four parties take steps:                 *)
(*                                                                         *)
(*   - the host thread that owns the plugin and calls it (pc, call, ...);  *)
(*   - the io thread of the session, which runs the completion handlers of *)
(*     the boost::asio io_context (io, readOp, exitWait);                  *)
(*   - the shell process (external), which reads lines from stdin and      *)
(*     writes to stdout and stderr, and may redirect or close its stdout;  *)
(*   - a background child a line may leave behind (external): it shares    *)
(*     the shell's stdout and may outlive the line, and the shell.         *)
(*                                                                         *)
(* Data is abstracted to what the protocol tells apart.  A pipe is a       *)
(* sequence of chunks; the uuid that ends the output of a call is the      *)
(* number of the call, as the code draws a fresh one for every call.       *)
(***************************************************************************)
EXTENDS Integers, Sequences

CONSTANTS
  MaxCalls,           \* bound: calls the host makes
  MaxOutput,          \* bound: chunks one line writes to stdout
  MaxNoise,           \* bound: chunks background children write to stdout
  StdoutCapacity,     \* chunks the stdout pipe holds before a writer blocks
  StderrCapacity,     \* chunks the stderr pipe holds before a writer blocks
  HostKeepsChildEnds  \* whether the member io_ keeps the child's ends of the
                      \* pipes open in the host (a matter of the library)

ASSUME BoundAssumption ==
  /\ MaxCalls \in Nat
  /\ MaxOutput \in Nat
  /\ MaxNoise \in Nat
  /\ StdoutCapacity \in Nat \ {0}
  /\ StderrCapacity \in Nat
  /\ HostKeepsChildEnds \in BOOLEAN

VARIABLES
  pc,        \* where the host thread is
  op,        \* which operation of the plugin the host performs
  call,      \* number of the current (or last) call; names its end marker
  result,    \* the local buffer of callWithResult
  reply,     \* what the last finished call returned
  readOp,    \* the async_read_until on stdout
  exitWait,  \* the async_wait on the shell process
  io,        \* the io thread
  shell,     \* the shell process ("dead" once it has been waited for)
  line,      \* the line the shell executes
  written,   \* chunks the last line the shell took has written
  status,    \* exit code the shell reported last
  target,    \* where the shell's stdout goes
  child,     \* whether a background child holds the stdout pipe
  noise,     \* chunks background children have written
  stdin, stdout, stderr

hostVars  == <<pc, op, call, reply>>
ioVars    == <<readOp, exitWait, io>>
shellVars == <<shell, line, written, status>>
outVars   == <<target, child, noise>>
vars == <<hostVars, result, ioVars, shellVars, outVars, stdin, stdout, stderr>>

-----------------------------------------------------------------------------
(* Types *)

\* The first call of a plugin is the "load" of its script; "get" is the read
\* of a variable, "call" a function call or the export of a variable.
Ops   == {"load", "call", "get"}
Lines == [call : Nat, op : Ops]
NoLine == [call |-> 0, op |-> "call"]

\* A chunk of stdout: output of a line (val: its position), the line
\* ":<code><uuid>" that ends a call (val: the code), or background output.
Chunks == [kind : {"out", "mark", "noise"}, call : Nat, val : Nat]
Out(n, i)  == [kind |-> "out", call |-> n, val |-> i]
Mark(n, c) == [kind |-> "mark", call |-> n, val |-> c]
Noise      == [kind |-> "noise", call |-> 0, val |-> 0]

Outcomes == {"none", "ok", "failed", "notRunning", "ended", "noOutput"}
Replies  == [call : Nat, outcome : Outcomes, value : Seq(Chunks)]

\* The shell's stdout is the pipe of the session; or the shell has redirected
\* it and kept a copy to restore it from ("exec 3>&1 >file"); or it has given
\* the pipe up for good ("exec >file", "exec >&-").
Targets == {"pipe", "aside", "away"}

InCall  == {"check", "write", "start", "wait", "finish"}
Aborted == {"brokenPipe", "assertFailed", "terminated"}

TypeOK ==
  /\ pc \in {"idle"} \cup InCall \cup {"destroy", "stop", "join", "gone"}
            \cup Aborted
  /\ op \in Ops
  /\ call \in Nat
  /\ result \in Seq(Chunks)
  /\ reply \in Replies
  /\ readOp \in {"none", "pending", "data", "ended", "done"}
  /\ exitWait \in {"armed", "ready", "cancelled", "missed"}
  /\ io \in {"running", "stopping", "stopped"}
  /\ shell \in {"reading", "executing", "blocked", "dead"}
  /\ line \in Lines
  /\ written \in Nat
  /\ status \in Nat
  /\ target \in Targets
  /\ child \in BOOLEAN
  /\ noise \in Nat
  /\ stdin \in Seq(Lines)
  /\ stdout \in Seq(Chunks)
  /\ stderr \in Nat

-----------------------------------------------------------------------------
(* The constructor has returned: the shell reads its stdin, the io thread   *)
(* runs and the wait for the exit of the shell is armed.                    *)
Init ==
  /\ pc = "idle" /\ op = "load" /\ call = 0
  /\ result = <<>>
  /\ reply = [call |-> 0, outcome |-> "none", value |-> <<>>]
  /\ readOp = "none" /\ exitWait = "armed" /\ io = "running"
  /\ shell = "reading" /\ line = NoLine /\ written = 0 /\ status = 0
  /\ target = "pipe" /\ child = FALSE /\ noise = 0
  /\ stdin = <<>> /\ stdout = <<>> /\ stderr = 0

Running == shell # "dead"

\* No process that could still write to the stdout pipe has it open.
EndOfFile == (~Running \/ target = "away") /\ ~child /\ ~HostKeepsChildEnds

\* (Reading to the end of a line, whichever it is.)
HasMark_AnyLine(buffer) == buffer # <<>>

\* The delimiter of async_read_until is found.
HasMark(buffer) ==
  \E i \in DOMAIN buffer : buffer[i].kind = "mark" /\ buffer[i].call = call

EndsWithMark(buffer) ==
  /\ buffer # <<>>
  /\ buffer[Len(buffer)].kind = "mark"
  /\ buffer[Len(buffer)].call = call

-----------------------------------------------------------------------------
(* Host thread: a call *)

\* A user of the plugin calls; the first call is the one ShellPlugin::load
\* makes.  An invalid variable name is refused before the session is touched.
Call(o) ==
  /\ pc = "idle" /\ call < MaxCalls
  /\ (o = "load") <=> (call = 0)
  /\ call' = call + 1 /\ op' = o
  /\ pc' = "check"
  /\ UNCHANGED <<result, reply, ioVars, shellVars, outVars, stdin, stdout, stderr>>

\* A load that fails drops the plugin.
AfterReply(outcome) ==
  IF op = "load" /\ outcome # "ok" THEN "destroy" ELSE "idle"

Return(outcome, value) ==
  /\ reply' = [call |-> call, outcome |-> outcome, value |-> value]
  /\ pc' = AfterReply(outcome)

CheckRunning ==
  /\ pc = "check"
  /\ IF Running THEN pc' = "write" /\ UNCHANGED reply
                ELSE Return("notRunning", <<>>)
  /\ UNCHANGED <<op, call, result, ioVars, shellVars, outVars, stdin, stdout, stderr>>

\* The write of the line and its end marker.  If nobody holds the other end
\* of the pipe any more, SIGPIPE or an exception ends the call.
Write ==
  /\ pc = "write"
  /\ IF Running \/ HostKeepsChildEnds
       THEN pc' = "start" /\ stdin' = Append(stdin, [call |-> call, op |-> op])
       ELSE pc' = "brokenPipe" /\ UNCHANGED stdin
  /\ UNCHANGED <<op, call, reply, result, ioVars, shellVars, outVars, stdout, stderr>>

\* One async_read_some into the buffer: it takes what is there, at most as
\* much as the buffer has room for, or stays registered with the reactor.
TakeOutput(buffer) ==
  \E k \in 1..Len(stdout) :
    /\ result' = buffer \o SubSeq(stdout, 1, k)
    /\ stdout' = SubSeq(stdout, k + 1, Len(stdout))
    /\ readOp' = "data"

TakeEndOfFile(buffer) ==
  /\ stdout = <<>> /\ EndOfFile
  /\ readOp' = "ended" /\ result' = buffer /\ UNCHANGED stdout

ReadSome(buffer) ==
  \/ TakeOutput(buffer)
  \/ TakeEndOfFile(buffer)
  \/ /\ stdout = <<>> /\ ~EndOfFile
     /\ readOp' = "pending" /\ result' = buffer /\ UNCHANGED stdout

StartRead ==
  /\ pc = "start"
  /\ pc' = "wait"
  /\ ReadSome(<<>>)
  /\ UNCHANGED <<op, call, reply, exitWait, io, shellVars, outVars, stdin, stderr>>

\* (A wait the exit of the shell ends as well as the read.)
WakeUp_OnExit ==
  /\ pc = "wait" /\ (readOp = "done" \/ exitWait \in {"cancelled", "missed"})
  /\ pc' = "finish" /\ readOp' = IF readOp = "done" THEN "none" ELSE readOp
  /\ UNCHANGED <<op, call, reply, result, exitWait, io, shellVars, outVars, stdin, stdout, stderr>>

\* The future is ready: wait() returns.
WakeUp ==
  /\ pc = "wait" /\ readOp = "done"
  /\ pc' = "finish" /\ readOp' = "none"
  /\ UNCHANGED <<op, call, reply, result, exitWait, io, shellVars, outVars, stdin, stdout, stderr>>

\* environmentVariable() asserts that printenv printed something that ends
\* with a newline; background output after it may end with one or not.
GetAsserts(value, newline) ==
  op = "get" => /\ value # <<>>
                /\ value[Len(value)].kind = "out" \/ newline

EndedPrematurely_Unchecked == FALSE
EndedPrematurely == ~Running

\* The buffer without the last line, and the exit code in that line.
Value_CutsMore == SubSeq(result, 1, Len(result) - 2)
Value == SubSeq(result, 1, Len(result) - 1)

ExitCode_Ignored == 0
ExitCode == result[Len(result)].val

\* What callWithResult makes of the buffer, and environmentVariable of that.
Finish ==
  /\ pc = "finish"
  /\ IF EndedPrematurely THEN Return("ended", <<>>)
     ELSE IF ~EndsWithMark(result) THEN Return("noOutput", <<>>)
     ELSE IF ExitCode # 0 THEN Return("failed", <<>>)
     ELSE \E newline \in BOOLEAN :
            IF GetAsserts(Value, newline) THEN Return("ok", Value)
            ELSE pc' = "assertFailed" /\ UNCHANGED reply
  /\ result' = <<>>
  /\ UNCHANGED <<op, call, ioVars, shellVars, outVars, stdin, stdout, stderr>>

-----------------------------------------------------------------------------
(* Host thread: the end of a session *)

\* Move-assigning onto a session overwrites thread_, which is joinable.
MoveAssignOver ==
  /\ pc = "idle" /\ call > 0
  /\ pc' = "terminated"
  /\ UNCHANGED <<op, call, reply, result, ioVars, shellVars, outVars, stdin, stdout, stderr>>

Release ==
  /\ pc = "idle" /\ call > 0
  /\ pc' = "destroy"
  /\ UNCHANGED <<op, call, reply, result, ioVars, shellVars, outVars, stdin, stdout, stderr>>

\* The destructor: terminate the shell, stop the context, join its thread.
Terminate ==
  /\ pc = "destroy"
  /\ shell' = "dead"
  /\ pc' = "stop"
  /\ UNCHANGED <<op, call, reply, result, ioVars, line, written, status, outVars, stdin, stdout, stderr>>

Stop ==
  /\ pc = "stop"
  /\ io' = "stopping"
  /\ pc' = "join"
  /\ UNCHANGED <<op, call, reply, result, readOp, exitWait, shellVars, outVars, stdin, stdout, stderr>>

\* (Detaching the thread.)
Join_Detaches ==
  /\ pc = "join"
  /\ pc' = "gone"
  /\ UNCHANGED <<op, call, reply, result, ioVars, shellVars, outVars, stdin, stdout, stderr>>

Join ==
  /\ pc = "join" /\ io = "stopped"
  /\ pc' = "gone"
  /\ UNCHANGED <<op, call, reply, result, ioVars, shellVars, outVars, stdin, stdout, stderr>>

-----------------------------------------------------------------------------
(* io thread.  Completions are kept per operation and not in one queue:    *)
(* whenever both are ready either may have been posted first.              *)

\* The reactor finds stdout readable, or closed.
ReadReady ==
  /\ io = "running" /\ readOp = "pending"
  /\ TakeOutput(result) \/ TakeEndOfFile(result)
  /\ UNCHANGED <<hostVars, exitWait, io, shellVars, outVars, stdin, stderr>>

\* The completion of one read: read on until the end marker is in the buffer.
ReadHandler ==
  /\ io = "running" /\ readOp \in {"data", "ended"}
  /\ IF readOp = "data" /\ ~HasMark(result)
       THEN ReadSome(result)
       ELSE readOp' = "done" /\ UNCHANGED <<result, stdout>>
  /\ UNCHANGED <<hostVars, exitWait, io, shellVars, outVars, stdin, stderr>>

ExitReady ==
  /\ io = "running" /\ exitWait = "armed" /\ ~Running
  /\ exitWait' = "ready"
  /\ UNCHANGED <<hostVars, result, readOp, io, shellVars, outVars, stdin, stdout, stderr>>

\* The handler of async_wait cancels what is outstanding on stdout.  A read
\* whose completion is already posted, or that starts later, is not affected.
ExitHandler_KeepsRead ==
  /\ io = "running" /\ exitWait = "ready"
  /\ exitWait' = IF readOp = "pending" THEN "cancelled" ELSE "missed"
  /\ UNCHANGED <<hostVars, result, readOp, io, shellVars, outVars, stdin, stdout, stderr>>

ExitHandler ==
  /\ io = "running" /\ exitWait = "ready"
  /\ IF readOp = "pending"
       THEN readOp' = "ended" /\ exitWait' = "cancelled"
       ELSE UNCHANGED readOp /\ exitWait' = "missed"
  /\ UNCHANGED <<hostVars, result, io, shellVars, outVars, stdin, stdout, stderr>>

\* context.run() returns once the context is stopped.
LeaveRun ==
  /\ io = "stopping"
  /\ io' = "stopped"
  /\ UNCHANGED <<hostVars, result, readOp, exitWait, shellVars, outVars, stdin, stdout, stderr>>

-----------------------------------------------------------------------------
(* The shell and a background child (external) *)

TakeLine ==
  /\ shell = "reading" /\ stdin # <<>>
  /\ shell' = "executing" /\ line' = Head(stdin) /\ written' = 0
  /\ stdin' = Tail(stdin)
  /\ UNCHANGED <<hostVars, result, ioVars, status, outVars, stdout, stderr>>

\* (Output of a shell that has redirected its stdout is not the session's.)
WriteStdout ==
  /\ shell = "executing" /\ target = "pipe" /\ written < MaxOutput
  /\ line.op = "get" => written = 0
  /\ Len(stdout) < StdoutCapacity
  /\ stdout' = Append(stdout, Out(line.call, written + 1))
  /\ written' = written + 1
  /\ UNCHANGED <<hostVars, result, ioVars, shell, line, status, outVars, stdin, stderr>>

\* Nobody reads stderr: once the pipe is full the writer blocks for good.
WriteStderr ==
  /\ shell = "executing"
  /\ IF stderr < StderrCapacity
       THEN stderr' = stderr + 1 /\ UNCHANGED shell
       ELSE shell' = "blocked" /\ UNCHANGED stderr
  /\ UNCHANGED <<hostVars, result, ioVars, line, written, status, outVars, stdin, stdout>>

\* A line, or a script or function it runs, redirects the stdout of the shell
\* itself ("exec"), or takes it back; printenv does neither.
Redirect ==
  /\ shell = "executing" /\ line.op # "get"
  /\ \/ target = "pipe"  /\ target' \in {"aside", "away"}
     \/ target = "aside" /\ target' \in {"pipe", "away"}
  /\ UNCHANGED <<hostVars, result, ioVars, shellVars, child, noise, stdin, stdout, stderr>>

\* "; echo :$?<uuid>", to wherever stdout goes now.  printenv prints the value
\* when it succeeds.
EchoMark(code) ==
  /\ shell = "executing"
  /\ (line.op = "get" /\ code = 0 /\ target = "pipe") => written > 0
  /\ IF target = "pipe"
       THEN /\ Len(stdout) < StdoutCapacity
            /\ stdout' = Append(stdout, Mark(line.call, code))
       ELSE UNCHANGED stdout
  /\ shell' = "reading" /\ status' = code
  /\ UNCHANGED <<hostVars, result, ioVars, line, written, outVars, stdin, stderr>>

\* The line exits the shell, or something kills it.
Die ==
  /\ Running
  /\ shell' = "dead"
  /\ UNCHANGED <<hostVars, result, ioVars, line, written, status, outVars, stdin, stdout, stderr>>

SpawnChild ==
  /\ shell = "executing" /\ line.op # "get"
  /\ target # "away" /\ ~child /\ noise < MaxNoise
  /\ child' = TRUE
  /\ UNCHANGED <<hostVars, result, ioVars, shellVars, target, noise, stdin, stdout, stderr>>

ChildWrites ==
  /\ child /\ noise < MaxNoise /\ Len(stdout) < StdoutCapacity
  /\ stdout' = Append(stdout, Noise)
  /\ noise' = noise + 1
  /\ UNCHANGED <<hostVars, result, ioVars, shellVars, target, child, stdin, stderr>>

ChildExits ==
  /\ child
  /\ child' = FALSE
  /\ UNCHANGED <<hostVars, result, ioVars, shellVars, target, noise, stdin, stdout, stderr>>

-----------------------------------------------------------------------------
HostStep  == CheckRunning \/ Write \/ StartRead \/ WakeUp \/ Finish
             \/ Terminate \/ Stop \/ Join
UserStep  == (\E o \in Ops : Call(o)) \/ MoveAssignOver \/ Release
IoStep    == ReadReady \/ ReadHandler \/ ExitReady \/ ExitHandler \/ LeaveRun
ShellStep == TakeLine \/ WriteStdout \/ WriteStderr \/ Redirect
             \/ (\E code \in {0, 1} : EchoMark(code)) \/ Die
ChildStep == SpawnChild \/ ChildWrites \/ ChildExits

Next == HostStep \/ UserStep \/ IoStep \/ ShellStep \/ ChildStep

Spec == Init /\ [][Next]_vars

\* The host thread and the io thread are scheduled, the io thread runs every
\* handler that is ready, and a line that can end does end.
Fairness ==
  /\ WF_vars(HostStep)
  /\ WF_vars(ReadReady) /\ WF_vars(ReadHandler)
  /\ WF_vars(ExitReady) /\ WF_vars(ExitHandler) /\ WF_vars(LeaveRun)
  /\ WF_vars(TakeLine)
  /\ WF_vars(\E code \in {0, 1} : EchoMark(code))

FairSpec == Spec /\ Fairness

-----------------------------------------------------------------------------
(* Properties *)

\* A call that succeeds returns what its own line wrote, and nothing of any
\* other call: no marker, no output of an earlier line.  Only chunks of
\* background children, which share the pipe, may be mixed in; and the exit
\* code of the line was 0 (callWithResult, lines 112-123).
AnswerIsOwn ==
  pc = "idle" /\ reply.outcome = "ok" =>
    /\ status = 0
    /\ \A i \in DOMAIN reply.value :
         \/ reply.value[i] = Noise
         \/ \E k \in 1..written : reply.value[i] = Out(call, k)

\* ... and all of it, once and in the order written, however the reads of
\* async_read_until split the output.
AnswerIsComplete ==
  pc = "idle" /\ reply.outcome = "ok" =>
    LET value == reply.value IN
      /\ \A k \in 1..written : \E i \in DOMAIN value : value[i] = Out(call, k)
      /\ \A i, j \in DOMAIN value :
           i < j /\ value[i].kind = "out" /\ value[j].kind = "out"
             => value[i].val < value[j].val

\* The answer of a call is that of its own line: nothing else, nothing less.
AnswerIsExact == AnswerIsOwn /\ AnswerIsComplete

\* Between calls the session is in step with its shell: while the shell runs
\* and has not given its stdout up, it has taken every line, finished it, and
\* nothing of a finished call is left in stdout for the next call to read as
\* its own.  (A shell that has given it up may still execute the line of a
\* call that failed at line 108; the calls after it fail there too.)
InStepBetweenCalls ==
  pc \in {"idle", "check", "write"} /\ Running /\ target # "away" =>
    /\ shell = "reading" /\ stdin = <<>> /\ target = "pipe"
    /\ \A i \in DOMAIN stdout : stdout[i] = Noise

\* A read is in progress exactly while the host waits for it: no handler can
\* write to the local buffer of a call that has returned.
ReadEndsBeforeCall == readOp # "none" <=> pc = "wait"

\* Nothing of a call outlives it: no line, no output, no read.
CallsDoNotOverlap == InStepBetweenCalls /\ ReadEndsBeforeCall

\* "failed to get command output" (line 109) has one of two causes: background
\* output was read together with the end marker, or a line gave the shell's
\* stdout up, so that the read met the end of the pipe.  A line that only
\* writes, however much and however the reads split it, never loses its answer.
LostOutputHasCause == reply.outcome = "noOutput" => noise > 0 \/ target = "away"

\* The asserts of environmentVariable (lines 133-134) hold unless background
\* output follows that of printenv.
AssertNeedsNoise == pc = "assertFailed" => noise > 0

\* An answer is lost to background output or to a redirection, and a read of
\* a variable aborts the program through background output only.
LossHasCause == LostOutputHasCause /\ AssertNeedsNoise

\* Once the shell is dead, no call returns an answer, not even one whose
\* output had been read completely; the shell is never started again.
DeadShellNeverAnswers ==
  [][~Running => /\ ~Running'
                 /\ reply' # reply =>
                      reply'.outcome \in {"notRunning", "ended"}]_vars

\* Handlers hold raw pointers into the session: none runs once it is gone.
NoHandlerAfterDestruction ==
  [][pc = "gone" => UNCHANGED <<result, ioVars>>]_vars

\* A call returns, unless the shell is blocked on the stderr pipe nobody
\* reads, or the one cancellation of the read came when none was outstanding,
\* or the line ended with the stdout of the shell redirected while the shell
\* or a background child kept the pipe open.
CancelLost == pc = "wait" /\ readOp = "pending" /\ exitWait = "missed"
AnswerElsewhere ==
  \/ target = "aside" /\ shell = "reading"
  \/ target = "away" /\ (child \/ HostKeepsChildEnds)
CallReturns == pc \in InCall ~> \/ pc \notin InCall
                               \/ shell = "blocked"
                               \/ CancelLost
                               \/ AnswerElsewhere

\* Whoever gave the pipe up, the shell by dying or by redirecting its stdout
\* or the last background child by exiting: the end of the pipe ends the wait.
EndOfFileEndsCall == (pc = "wait" /\ EndOfFile) ~> pc # "wait"

\* The destructor returns, whatever the shell is doing.
DestructorReturns == pc = "destroy" ~> pc = "gone"

\* Whatever the host asks of a session comes to an end.
HostReturns == CallReturns /\ EndOfFileEndsCall /\ DestructorReturns

\* What the comment in callWithResult (lines 97-98) says the code does: the
\* wait for the output ends when the shell process dies.
DeathEndsCall == (pc = "wait" /\ ~Running) ~> pc # "wait"

-----------------------------------------------------------------------------
(* The inductive invariant behind the safety properties.  What a call has   *)
(* been sent so far, read or still in the pipe, is one stream.              *)

Stream == result \o stdout

\* The read, the wait for the exit and the buffer agree with the host.
Handshake ==
  /\ ReadEndsBeforeCall
  /\ pc \notin {"wait", "finish"} => result = <<>>
  /\ exitWait # "armed" => ~Running
  /\ readOp = "ended" => ~Running \/ target = "away"
  /\ Running /\ target # "away" /\ (readOp = "done" \/ pc = "finish")
       => HasMark(result)
  /\ pc = "gone" => io = "stopped"

\* While a call is served, its line is in stdin, or with the shell, or done;
\* only a line that ended with stdout redirected leaves no marker.
OneLineInFlight ==
  Running /\ target # "away" /\ pc \in {"start", "wait", "finish"} =>
    \/ /\ shell = "reading" /\ stdin = <<[call |-> call, op |-> op]>>
       /\ \A i \in DOMAIN Stream : Stream[i] = Noise
    \/ /\ stdin = <<>> /\ line = [call |-> call, op |-> op]
       /\ (shell = "reading" /\ target = "pipe") <=> HasMark(Stream)

\* Once the shell has given its stdout up, no marker comes any more; and the
\* call that met the end of the pipe left nothing behind in it.
AwayIsSilent ==
  Running /\ target = "away" =>
    /\ pc \in {"start", "wait", "finish"} => ~HasMark(Stream)
    /\ pc \in {"idle", "check", "write", "finish"} \/ readOp \in {"ended", "done"}
         => stdout = <<>> /\ EndOfFile
    /\ pc = "idle" => reply.outcome # "ok"

\* The stream holds the output of that line, complete and in order, and ends
\* with its marker, but for background output.
StreamIsOwn ==
  Running /\ target # "away" /\ pc \in {"start", "wait", "finish"} /\ stdin = <<>> =>
    /\ \A i \in DOMAIN Stream :
         \/ Stream[i] = Noise
         \/ Stream[i] = Mark(call, status)
         \/ \E k \in 1..written : Stream[i] = Out(call, k)
    /\ \A k \in 1..written : \E i \in DOMAIN Stream : Stream[i] = Out(call, k)
    /\ \A i, j \in DOMAIN Stream :
         i < j => /\ Stream[i].kind = "mark" => Stream[j] = Noise
                  /\ Stream[i].kind = "out" /\ Stream[j].kind = "out"
                       => Stream[i].val < Stream[j].val
    /\ HasMark(Stream) /\ op = "get" /\ status = 0 => written > 0

NoiseIsCounted ==
  noise = 0 => \A i \in DOMAIN Stream : Stream[i].kind # "noise"

Service ==
  /\ InStepBetweenCalls
  /\ OneLineInFlight
  /\ StreamIsOwn
  /\ NoiseIsCounted
  /\ AnswerIsOwn /\ AnswerIsComplete
  /\ LostOutputHasCause /\ AssertNeedsNoise

Inductive == TypeOK /\ Handshake /\ AwayIsSilent /\ Service
=============================================================================
