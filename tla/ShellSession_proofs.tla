------------------------ MODULE ShellSession_proofs -------------------------
(***************************************************************************)
(* Proofs about ShellSession, for every value of its constants.  The       *)
(* invariant Inductive is preserved by every step; the safety properties   *)
(* of the session are conjuncts of it or follow from it.  With it, every   *)
(* step of the host, of the io thread, of the shell and of a background    *)
(* child maps to one step of PluginCall, or to none.                       *)
(***************************************************************************)
EXTENDS ShellRefinement, SequenceTheorems, TLAPS

-----------------------------------------------------------------------------
(* Lemmas about the pipe and the buffer *)

\* Moving a prefix of one sequence to the end of another does not change
\* the sequence they form together (the data of TakeOutput).
LEMMA MovePrefix ==
  ASSUME NEW S
  PROVE  \A b, s \in Seq(S) : \A k \in 1..Len(s) :
           /\ b \o SubSeq(s, 1, k) \in Seq(S)
           /\ SubSeq(s, k + 1, Len(s)) \in Seq(S)
           /\ (b \o SubSeq(s, 1, k)) \o SubSeq(s, k + 1, Len(s)) = b \o s
<1> TAKE b, s \in Seq(S)
<1> TAKE k \in 1..Len(s)
<1> DEFINE p == SubSeq(s, 1, k)
           q == SubSeq(s, k + 1, Len(s))
<1>1. Len(s) \in Nat /\ \A i \in 1..Len(s) : s[i] \in S
  BY LenProperties, ElementOfSeq
<1>2. p \in Seq(S) /\ q \in Seq(S)
  <2>1. \A i \in 1..k : s[i] \in S
    BY <1>1
  <2>2. \A i \in (k + 1)..Len(s) : s[i] \in S
    BY <1>1
  <2>3. k \in Int /\ k + 1 \in Int /\ Len(s) \in Int
    BY <1>1
  <2>4. QED
    BY <2>1, <2>2, <2>3, SubSeqProperties
<1>3. p \o q = s
  BY <1>1, ConcatAdjacentSubSeq, SubSeqFull
<1> HIDE DEF p, q
<1>4. (b \o p) \o q = b \o (p \o q)
  BY <1>2
<1>5. b \o p \in Seq(S)
  BY <1>2, ConcatProperties
<1>6. QED
  BY <1>2, <1>3, <1>4, <1>5 DEF p, q

\* What a read takes from the pipe and adds to the buffer leaves the stream
\* they form together as it was (TakeOutput).
LEMMA TakeOutputKeepsStream ==
  ASSUME NEW buffer \in Seq(Chunks), stdout \in Seq(Chunks), TakeOutput(buffer)
  PROVE  /\ result' \in Seq(Chunks) /\ stdout' \in Seq(Chunks)
         /\ readOp' = "data"
         /\ result' \o stdout' = buffer \o stdout
<1>1. PICK k \in 1..Len(stdout) :
        /\ result' = buffer \o SubSeq(stdout, 1, k)
        /\ stdout' = SubSeq(stdout, k + 1, Len(stdout))
        /\ readOp' = "data"
  BY DEF TakeOutput
<1>2. /\ buffer \o SubSeq(stdout, 1, k) \in Seq(Chunks)
      /\ SubSeq(stdout, k + 1, Len(stdout)) \in Seq(Chunks)
      /\ (buffer \o SubSeq(stdout, 1, k)) \o SubSeq(stdout, k + 1, Len(stdout))
           = buffer \o stdout
  <2>1. buffer \in Seq(Chunks) /\ stdout \in Seq(Chunks)
    OBVIOUS
  <2>2. \A b, s \in Seq(Chunks) : \A j \in 1..Len(s) :
          /\ b \o SubSeq(s, 1, j) \in Seq(Chunks)
          /\ SubSeq(s, j + 1, Len(s)) \in Seq(Chunks)
          /\ (b \o SubSeq(s, 1, j)) \o SubSeq(s, j + 1, Len(s)) = b \o s
    BY MovePrefix
  <2>3. QED
    BY <2>1, <2>2, Zenon
<1>3. QED
  BY <1>1, <1>2

\* The same of one async_read_some, whatever it finds (ReadSome).
LEMMA ReadSomeKeepsStream ==
  ASSUME NEW buffer \in Seq(Chunks), stdout \in Seq(Chunks), ReadSome(buffer)
  PROVE  /\ result' \in Seq(Chunks) /\ stdout' \in Seq(Chunks)
         /\ readOp' \in {"data", "ended", "pending"}
         /\ readOp' = "ended" => stdout' = <<>> /\ EndOfFile
         /\ result' \o stdout' = buffer \o stdout
<1>1. CASE TakeOutput(buffer)
  BY <1>1, TakeOutputKeepsStream
<1>2. CASE TakeEndOfFile(buffer)
  BY <1>2 DEF TakeEndOfFile
<1>3. CASE ~TakeOutput(buffer) /\ ~TakeEndOfFile(buffer)
  BY <1>3 DEF ReadSome
<1>4. QED
  BY <1>1, <1>2, <1>3

-----------------------------------------------------------------------------
(* Type correctness *)

\* What a call returns is a reply (Return).
LEMMA ReturnType ==
  ASSUME call \in Nat
  PROVE  \A o \in Outcomes, v \in Seq(Chunks) :
           Return(o, v) => reply' \in Replies /\ pc' \in {"idle", "destroy"}
  BY DEF Return, AfterReply, Replies

\* Every variable keeps its type under every handler, call and process step.
LEMMA TypeStep == TypeOK /\ [Next]_vars => TypeOK'
<1> SUFFICES ASSUME TypeOK, [Next]_vars PROVE TypeOK'
  OBVIOUS
<1> USE DEF TypeOK, hostVars, ioVars, shellVars, outVars, InCall, Aborted
<1>1. CASE UNCHANGED vars
  BY <1>1 DEF vars
<1>2. CASE HostStep
  <2>1. CASE CheckRunning
    <3>1. CASE Running
      BY <2>1, <3>1 DEF CheckRunning
    <3>2. CASE ~Running
      <4>1. Return("notRunning", <<>>)
        BY <2>1, <3>2 DEF CheckRunning
      <4>2. reply' \in Replies /\ pc' \in {"idle", "destroy"}
        <5>1. "notRunning" \in Outcomes /\ <<>> \in Seq(Chunks)
          BY DEF Outcomes
        <5>2. QED
          BY <4>1, <5>1, ReturnType
      <4>3. QED
        BY <2>1, <4>2 DEF CheckRunning
    <3>3. QED
      BY <3>1, <3>2
  <2>2. CASE Write
    <3>1. [call |-> call, op |-> op] \in Lines
      BY DEF Lines
    <3>2. Append(stdin, [call |-> call, op |-> op]) \in Seq(Lines)
      BY <3>1
    <3>3. pc' \in {"start", "brokenPipe"} /\ stdin' \in Seq(Lines)
      BY <2>2, <3>2 DEF Write
    <3>4. QED
      BY <2>2, <3>3 DEF Write
  <2>3. CASE StartRead
    <3>1. ReadSome(<<>>) /\ <<>> \in Seq(Chunks)
      BY <2>3 DEF StartRead
    <3>2. /\ result' \in Seq(Chunks) /\ stdout' \in Seq(Chunks)
          /\ readOp' \in {"data", "ended", "pending"}
      BY <3>1, ReadSomeKeepsStream
    <3>3. QED
      BY <2>3, <3>2 DEF StartRead
  <2>4. CASE WakeUp
    BY <2>4 DEF WakeUp
  <2>5. CASE Finish
    <3>1. pc = "finish" /\ Len(result) \in Nat
      BY <2>5 DEF Finish
    <3>2. SubSeq(result, 1, Len(result) - 1) \in Seq(Chunks)
      BY <3>1, SubSeqProperties, ElementOfSeq
    <3>3. /\ reply' \in Replies
          /\ pc' \in {"idle", "destroy", "assertFailed"}
      <4>1. \/ \E o \in {"ended", "noOutput", "failed"} : Return(o, <<>>)
            \/ Return("ok", Value)
            \/ pc' = "assertFailed" /\ UNCHANGED reply
        BY <2>5 DEF Finish
      <4>2. \A o \in {"ended", "noOutput", "failed"} : Return(o, <<>>) =>
              reply' \in Replies /\ pc' \in {"idle", "destroy"}
        <5>1. <<>> \in Seq(Chunks)
          OBVIOUS
        <5>2. QED
          BY <5>1, ReturnType DEF Outcomes
      <4>3. Return("ok", Value) => reply' \in Replies /\ pc' \in {"idle", "destroy"}
        BY <3>2, ReturnType DEF Outcomes, Value
      <4>4. QED
        BY <4>1, <4>2, <4>3
    <3>4. QED
      BY <2>5, <3>3 DEF Finish
  <2>6. CASE Terminate
    BY <2>6 DEF Terminate
  <2>7. CASE Stop
    BY <2>7 DEF Stop
  <2>8. CASE Join
    BY <2>8 DEF Join
  <2>9. QED
    BY <1>2, <2>1, <2>2, <2>3, <2>4, <2>5, <2>6, <2>7, <2>8 DEF HostStep
<1>3. CASE UserStep
  BY <1>3 DEF UserStep, Call, MoveAssignOver, Release, Ops
<1>4. CASE IoStep
  <2>1. CASE ReadReady
    <3>1. TakeOutput(result) => /\ result' \in Seq(Chunks)
                                /\ stdout' \in Seq(Chunks)
                                /\ readOp' = "data"
      BY TakeOutputKeepsStream
    <3>2. QED
      BY <2>1, <3>1 DEF ReadReady, TakeEndOfFile
  <2>2. CASE ReadHandler
    <3>1. ReadSome(result) => /\ result' \in Seq(Chunks)
                              /\ stdout' \in Seq(Chunks)
                              /\ readOp' \in {"data", "ended", "pending"}
      BY ReadSomeKeepsStream
    <3>2. QED
      BY <2>2, <3>1 DEF ReadHandler
  <2>3. CASE ExitReady
    BY <2>3 DEF ExitReady
  <2>4. CASE ExitHandler
    BY <2>4 DEF ExitHandler
  <2>5. CASE LeaveRun
    BY <2>5 DEF LeaveRun
  <2>6. QED
    BY <1>4, <2>1, <2>2, <2>3, <2>4, <2>5 DEF IoStep
<1>5. CASE ShellStep
  <2>1. CASE TakeLine
    BY <2>1 DEF TakeLine
  <2>2. CASE WriteStdout
    <3>1. Out(line.call, written + 1) \in Chunks
      BY DEF Out, Chunks, Lines
    <3>2. QED
      BY <2>2, <3>1 DEF WriteStdout
  <2>3. CASE WriteStderr
    BY <2>3 DEF WriteStderr
  <2>4. ASSUME NEW code \in {0, 1}, EchoMark(code) PROVE TypeOK'
    <3>1. Mark(line.call, code) \in Chunks
      BY DEF Mark, Chunks, Lines
    <3>2. stdout' \in Seq(Chunks)
      BY <2>4, <3>1 DEF EchoMark
    <3>3. QED
      BY <2>4, <3>2 DEF EchoMark
  <2>5. CASE Die
    BY <2>5 DEF Die
  <2>6. CASE Redirect
    BY <2>6 DEF Redirect, Targets
  <2>7. QED
    BY <1>5, <2>1, <2>2, <2>3, <2>4, <2>5, <2>6 DEF ShellStep
<1>6. CASE ChildStep
  <2>1. Noise \in Chunks
    BY DEF Noise, Chunks
  <2>2. CASE SpawnChild
    BY <2>2 DEF SpawnChild
  <2>3. CASE ChildWrites
    <3>1. Append(stdout, Noise) \in Seq(Chunks)
      BY <2>1
    <3>2. QED
      BY <2>3, <3>1 DEF ChildWrites
  <2>4. CASE ChildExits
    <3>1. /\ child' \in BOOLEAN
          /\ UNCHANGED <<hostVars, result, ioVars, shellVars, target, noise, stdin, stdout, stderr>>
      BY <2>4 DEF ChildExits
    <3>2. QED
      BY <3>1
  <2>5. QED
    BY <1>6, <2>2, <2>3, <2>4 DEF ChildStep
<1>7. QED
  BY <1>1, <1>2, <1>3, <1>4, <1>5, <1>6 DEF Next

\* The constructor establishes the types.
LEMMA InitType == Init => TypeOK
<1>1. <<>> \in Seq(Chunks) /\ <<>> \in Seq(Lines) /\ NoLine \in Lines
  BY DEF NoLine, Lines, Ops
<1>2. [call |-> 0, outcome |-> "none", value |-> <<>>] \in Replies
  BY <1>1 DEF Replies, Outcomes
<1>3. Init => /\ pc \in {"idle"} /\ op \in Ops /\ call \in Nat
              /\ reply \in Replies /\ line \in Lines
              /\ result \in Seq(Chunks) /\ stdout \in Seq(Chunks)
              /\ stdin \in Seq(Lines)
  BY <1>1, <1>2 DEF Init, Ops
<1>4. QED
  BY <1>3 DEF Init, TypeOK, Targets

\* Type correctness of the session (TypeOK).
THEOREM TypeCorrect == Spec => []TypeOK
<1>1. Init => TypeOK
  BY InitType
<1>2. TypeOK /\ [Next]_vars => TypeOK'
  BY TypeStep
<1>3. QED
  BY <1>1, <1>2, PTL DEF Spec

-----------------------------------------------------------------------------
(* How steps change the stream *)

\* What is written to stdout is appended to the stream of the call.
LEMMA AppendToStream ==
  ASSUME result \in Seq(Chunks), stdout \in Seq(Chunks), NEW x \in Chunks,
         stdout' = Append(stdout, x), result' = result
  PROVE  /\ Stream \in Seq(Chunks) /\ Stream' = Append(Stream, x)
<1>1. Stream \in Seq(Chunks)
  BY DEF Stream
<1>2. result \o Append(stdout, x) = Append(result \o stdout, x)
  OBVIOUS
<1>3. QED
  BY <1>1, <1>2 DEF Stream

\* Elements and domain of a stream after one more chunk (WriteStdout,
\* EchoMark, ChildWrites).
LEMMA AppendElements ==
  ASSUME NEW s \in Seq(Chunks), NEW x \in Chunks
  PROVE  /\ Len(s) \in Nat
         /\ DOMAIN s = 1..Len(s)
         /\ DOMAIN Append(s, x) = 1..(Len(s) + 1)
         /\ \A i \in 1..Len(s) : Append(s, x)[i] = s[i]
         /\ Append(s, x)[Len(s) + 1] = x
  OBVIOUS

\* The three kinds of chunk do not get confused (Out, Mark, Noise).
LEMMA ChunkKinds ==
  /\ Noise.kind = "noise"
  /\ \A n, k : /\ Out(n, k).kind = "out" /\ Out(n, k).call = n
              /\ Out(n, k).val = k
              /\ Mark(n, k).kind = "mark" /\ Mark(n, k).call = n
              /\ Mark(n, k).val = k
  BY DEF Noise, Out, Mark

\* With nothing in the buffer the stream is what is in the pipe.
LEMMA EmptyBuffer ==
  ASSUME stdout \in Seq(Chunks), result = <<>>
  PROVE  Stream = stdout
  BY DEF Stream

\* A marker in the buffer is one in the stream, and everything in the pipe
\* comes after it.
LEMMA BufferIsPrefix ==
  ASSUME result \in Seq(Chunks), stdout \in Seq(Chunks)
  PROVE  /\ Len(result) \in Nat /\ Len(stdout) \in Nat
         /\ DOMAIN result = 1..Len(result) /\ DOMAIN stdout = 1..Len(stdout)
         /\ DOMAIN Stream = 1..(Len(result) + Len(stdout))
         /\ \A i \in 1..Len(result) : Stream[i] = result[i]
         /\ \A i \in 1..Len(stdout) : Stream[Len(result) + i] = stdout[i]
  BY DEF Stream

\* Steps that leave the host, the shell and the stream alone keep what is
\* said of them; during a wait output may move from the pipe to the buffer.
LEMMA ServiceFrame ==
  ASSUME Service, UNCHANGED <<hostVars, shellVars, target, noise, stdin, Stream>>,
         pc = "wait" \/ UNCHANGED stdout
  PROVE  Service'
<1> USE DEF hostVars, shellVars, Running
<1>1. InStepBetweenCalls'
  BY DEF Service, InStepBetweenCalls
<1>2. OneLineInFlight'
  BY DEF Service, OneLineInFlight, HasMark
<1>3. StreamIsOwn'
  BY DEF Service, StreamIsOwn, HasMark
<1>4. NoiseIsCounted'
  BY DEF Service, NoiseIsCounted
<1>5. AnswerIsOwn' /\ AnswerIsComplete'
  BY DEF Service, AnswerIsOwn, AnswerIsComplete
<1>6. LostOutputHasCause' /\ AssertNeedsNoise'
  BY DEF Service, LostOutputHasCause, AssertNeedsNoise
<1>7. QED
  BY <1>1, <1>2, <1>3, <1>4, <1>5, <1>6 DEF Service

\* When the shell dies nothing is left to say about the call it served.
LEMMA ServiceWithoutShell ==
  ASSUME Service, shell' = "dead",
         UNCHANGED <<call, reply, written, status, target, noise, Stream>>,
         pc' = pc \/ pc' = "stop"
  PROVE  Service'
<1>1. InStepBetweenCalls' /\ OneLineInFlight' /\ StreamIsOwn'
  BY DEF InStepBetweenCalls, OneLineInFlight, StreamIsOwn, Running
<1>2. NoiseIsCounted'
  BY DEF Service, NoiseIsCounted
<1>3. AnswerIsOwn' /\ AnswerIsComplete'
  BY DEF Service, AnswerIsOwn, AnswerIsComplete
<1>4. LostOutputHasCause' /\ AssertNeedsNoise'
  BY DEF Service, LostOutputHasCause, AssertNeedsNoise
<1>5. QED
  BY <1>1, <1>2, <1>3, <1>4 DEF Service

-----------------------------------------------------------------------------
(* The handshake of the host with the io thread *)

\* No step of any party breaks the agreement of the host, the read and the
\* wait for the exit of the shell (Handshake).
LEMMA HandshakeStep == TypeOK /\ Handshake /\ [Next]_vars => Handshake'
<1> SUFFICES ASSUME TypeOK, Handshake, [Next]_vars PROVE Handshake'
  OBVIOUS
<1> USE DEF Handshake, ReadEndsBeforeCall, HasMark, Running,
            hostVars, ioVars, shellVars, outVars
<1>1. CASE UNCHANGED vars
  BY <1>1 DEF vars
<1>2. CASE HostStep
  <2>1. CASE CheckRunning
    BY <2>1 DEF CheckRunning, Return, AfterReply
  <2>2. CASE Write
    BY <2>2 DEF Write
  <2>3. CASE StartRead
    <3>1. /\ readOp' \in {"data", "ended", "pending"}
          /\ readOp' = "ended" => ~Running \/ target = "away"
      BY <2>3, ReadSomeKeepsStream DEF StartRead, TypeOK, EndOfFile
    <3>2. QED
      BY <2>3, <3>1 DEF StartRead
  <2>4. CASE WakeUp
    BY <2>4 DEF WakeUp
  <2>5. CASE Finish
    <3>1. pc' \in {"idle", "destroy", "assertFailed"}
      BY <2>5 DEF Finish, Return, AfterReply
    <3>2. QED
      BY <2>5, <3>1 DEF Finish
  <2>6. CASE Terminate
    BY <2>6 DEF Terminate
  <2>7. CASE Stop
    BY <2>7 DEF Stop
  <2>8. CASE Join
    BY <2>8 DEF Join
  <2>9. QED
    BY <1>2, <2>1, <2>2, <2>3, <2>4, <2>5, <2>6, <2>7, <2>8 DEF HostStep
<1>3. CASE UserStep
  BY <1>3 DEF UserStep, Call, MoveAssignOver, Release
<1>4. CASE IoStep
  <2>1. CASE ReadReady
    <3>1. readOp' = "data" \/ (readOp' = "ended" /\ (~Running \/ target = "away"))
      BY <2>1 DEF ReadReady, TakeOutput, TakeEndOfFile, EndOfFile
    <3>2. QED
      BY <2>1, <3>1 DEF ReadReady
  <2>2. CASE ReadHandler
    <3>1. CASE readOp = "data" /\ ~HasMark(result)
      <4>1. /\ readOp' \in {"data", "ended", "pending"}
            /\ readOp' = "ended" => ~Running \/ target = "away"
        BY <2>2, <3>1, ReadSomeKeepsStream DEF ReadHandler, TypeOK, EndOfFile
      <4>2. QED
        BY <2>2, <4>1 DEF ReadHandler
    <3>2. CASE ~(readOp = "data" /\ ~HasMark(result))
      BY <2>2, <3>2 DEF ReadHandler
    <3>3. QED
      BY <3>1, <3>2
  <2>3. CASE ExitReady
    BY <2>3 DEF ExitReady
  <2>4. CASE ExitHandler
    BY <2>4 DEF ExitHandler
  <2>5. CASE LeaveRun
    BY <2>5 DEF LeaveRun
  <2>6. QED
    BY <1>4, <2>1, <2>2, <2>3, <2>4, <2>5 DEF IoStep
<1>5. CASE ShellStep
  <2>1. CASE TakeLine
    BY <2>1 DEF TakeLine
  <2>2. CASE WriteStdout
    BY <2>2 DEF WriteStdout
  <2>3. CASE WriteStderr
    BY <2>3 DEF WriteStderr
  <2>4. ASSUME NEW code \in {0, 1}, EchoMark(code) PROVE Handshake'
    BY <2>4 DEF EchoMark
  <2>5. CASE Die
    BY <2>5 DEF Die
  <2>6. CASE Redirect
    BY <2>6 DEF Redirect
  <2>7. QED
    BY <1>5, <2>1, <2>2, <2>3, <2>4, <2>5, <2>6 DEF ShellStep
<1>6. CASE ChildStep
  BY <1>6 DEF ChildStep, SpawnChild, ChildWrites, ChildExits
<1>7. QED
  BY <1>1, <1>2, <1>3, <1>4, <1>5, <1>6 DEF Next

-----------------------------------------------------------------------------
(* What the steps of the other parties do to a call in progress *)

\* A step of the io thread moves output to the buffer and nothing else.
LEMMA ServiceIoStep == TypeOK /\ Handshake /\ Service /\ IoStep => Service'
<1> SUFFICES ASSUME TypeOK, Handshake, Service, IoStep PROVE Service'
  OBVIOUS
<1>1. result \in Seq(Chunks) /\ stdout \in Seq(Chunks)
  BY DEF TypeOK
<1>2. readOp # "none" => pc = "wait"
  BY DEF Handshake, ReadEndsBeforeCall
<1>3. CASE ReadReady
  <2>1. UNCHANGED Stream
    BY <1>1, <1>3, TakeOutputKeepsStream DEF ReadReady, TakeEndOfFile, Stream
  <2>2. QED
    BY <1>2, <1>3, <2>1, ServiceFrame DEF ReadReady, outVars
<1>4. CASE ReadHandler
  <2>1. UNCHANGED Stream
    BY <1>1, <1>4, ReadSomeKeepsStream DEF ReadHandler, Stream
  <2>2. QED
    BY <1>2, <1>4, <2>1, ServiceFrame DEF ReadHandler, outVars
<1>5. CASE ExitReady
  BY <1>5, ServiceFrame DEF ExitReady, outVars, Stream
<1>6. CASE ExitHandler
  BY <1>6, ServiceFrame DEF ExitHandler, outVars, Stream
<1>7. CASE LeaveRun
  BY <1>7, ServiceFrame DEF LeaveRun, outVars, Stream
<1>8. QED
  BY <1>3, <1>4, <1>5, <1>6, <1>7 DEF IoStep

\* A background child adds noise, which is counted, to the stream.
LEMMA ServiceChildStep == TypeOK /\ Service /\ ChildStep => Service'
<1> SUFFICES ASSUME TypeOK, Service, ChildStep PROVE Service'
  OBVIOUS
<1>1. CASE SpawnChild
  BY <1>1, ServiceFrame DEF SpawnChild, Stream
<1>2. CASE ChildExits
  BY <1>2, ServiceFrame DEF ChildExits, Stream
<1>3. CASE ChildWrites
  <2> USE <1>3 DEF ChildWrites, hostVars, shellVars, Running
  <2>1. Noise \in Chunks /\ Noise.kind = "noise"
    BY DEF Noise, Chunks
  <2>2. stdout' = Append(stdout, Noise) /\ result' = result
    OBVIOUS
  <2>3. Stream \in Seq(Chunks) /\ Stream' = Append(Stream, Noise)
    BY <2>1, <2>2, AppendToStream DEF TypeOK
  <2>4. /\ Len(Stream) \in Nat /\ DOMAIN Stream = 1..Len(Stream)
        /\ DOMAIN Stream' = 1..(Len(Stream) + 1)
        /\ \A i \in 1..Len(Stream) : Stream'[i] = Stream[i]
        /\ Stream'[Len(Stream) + 1] = Noise
    BY <2>1, <2>3, AppendElements
  <2>5. HasMark(Stream)' <=> HasMark(Stream)
    BY <2>1, <2>4 DEF HasMark
  <2>6. InStepBetweenCalls'
    <3>1. \A i \in DOMAIN stdout' : i \in DOMAIN stdout \/ stdout'[i] = Noise
      BY <2>1, <2>2, AppendElements DEF TypeOK
    <3>2. \A i \in DOMAIN stdout : stdout'[i] = stdout[i]
      BY <2>1, <2>2, AppendElements DEF TypeOK
    <3>3. QED
      BY <3>1, <3>2 DEF Service, InStepBetweenCalls
  <2>7. OneLineInFlight'
    BY <2>4, <2>5 DEF Service, OneLineInFlight
  <2>8. StreamIsOwn'
    <3> SUFFICES ASSUME pc \in {"start", "wait", "finish"}, shell # "dead",
                        target # "away", stdin = <<>>
                 PROVE  StreamIsOwn'
      BY DEF StreamIsOwn
    <3>1. \A i \in 1..(Len(Stream) + 1) :
            \/ Stream'[i] = Noise
            \/ Stream'[i] = Mark(call, status)
            \/ \E k \in 1..written : Stream'[i] = Out(call, k)
      BY <2>4 DEF Service, StreamIsOwn
    <3>2. \A k \in 1..written :
            \E i \in 1..(Len(Stream) + 1) : Stream'[i] = Out(call, k)
      BY <2>4 DEF Service, StreamIsOwn
    <3>3. \A i, j \in 1..(Len(Stream) + 1) :
            i < j => /\ Stream'[i].kind = "mark" => Stream'[j] = Noise
                     /\ Stream'[i].kind = "out" /\ Stream'[j].kind = "out"
                          => Stream'[i].val < Stream'[j].val
      <4> TAKE i, j \in 1..(Len(Stream) + 1)
      <4> HAVE i < j
      <4>1. i \in 1..Len(Stream)
        BY <2>4
      <4>2. CASE j \in 1..Len(Stream)
        <5>1. /\ Stream[i].kind = "mark" => Stream[j] = Noise
              /\ Stream[i].kind = "out" /\ Stream[j].kind = "out"
                   => Stream[i].val < Stream[j].val
          BY <2>4, <4>1, <4>2 DEF Service, StreamIsOwn
        <5>2. QED
          BY <2>4, <4>1, <4>2, <5>1
      <4>3. CASE j = Len(Stream) + 1
        BY <2>1, <2>4, <4>1, <4>3
      <4>4. QED
        BY <2>4, <4>2, <4>3
    <3>4. HasMark(Stream) /\ op = "get" /\ status = 0 => written > 0
      BY DEF Service, StreamIsOwn
    <3>5. QED
      BY <2>4, <2>5, <3>1, <3>2, <3>3, <3>4 DEF StreamIsOwn
  <2>9. noise' # 0 /\ noise' > 0
    BY DEF TypeOK
  <2>10. QED
    BY <2>6, <2>7, <2>8, <2>9
    DEF Service, NoiseIsCounted, AnswerIsOwn, AnswerIsComplete,
        LostOutputHasCause, AssertNeedsNoise
<1>4. QED
  BY <1>1, <1>2, <1>3 DEF ChildStep

\* A shell that has given its stdout up cannot disturb what is said of it: no
\* answer depends on it any more.
LEMMA ServiceWhenAway ==
  ASSUME Service, AwayIsSilent, Running, target = "away",
         UNCHANGED <<pc, call, reply, result, target, noise, stdout>>
  PROVE  Service'
<1>1. InStepBetweenCalls' /\ OneLineInFlight' /\ StreamIsOwn'
  BY DEF InStepBetweenCalls, OneLineInFlight, StreamIsOwn
<1>2. NoiseIsCounted'
  BY DEF Service, NoiseIsCounted, Stream
<1>3. AnswerIsOwn' /\ AnswerIsComplete'
  BY DEF AwayIsSilent, AnswerIsOwn, AnswerIsComplete
<1>4. LostOutputHasCause' /\ AssertNeedsNoise'
  BY DEF Service, LostOutputHasCause, AssertNeedsNoise
<1>5. QED
  BY <1>1, <1>2, <1>3, <1>4 DEF Service

\* The shell takes the line of the call, writes its output in order and ends
\* it with its marker; only then is the line done.
LEMMA ServiceShellStep ==
  TypeOK /\ AwayIsSilent /\ Service /\ ShellStep => Service'
<1> SUFFICES ASSUME TypeOK, AwayIsSilent, Service, ShellStep PROVE Service'
  OBVIOUS
<1> USE DEF hostVars, outVars, Running
<1>1. CASE Die
  BY <1>1, ServiceWithoutShell DEF Die, Stream
<1>9. CASE target = "away" /\ ~Die
  <2>1. Running /\ UNCHANGED <<pc, call, reply, result, target, noise, stdout>>
    BY <1>9 DEF ShellStep, TakeLine, WriteStdout, WriteStderr, Redirect, EchoMark
  <2>2. QED
    BY <1>9, <2>1, ServiceWhenAway
<1>7. CASE target # "away" /\ Redirect
  <2> USE <1>7 DEF Redirect, shellVars
  <2>1. UNCHANGED Stream /\ target' \in Targets
    BY DEF Stream, Targets
  <2>2. pc \notin {"idle", "check", "write"}
    BY DEF Service, InStepBetweenCalls
  <2>3. OneLineInFlight'
    BY <2>1 DEF Service, OneLineInFlight, HasMark
  <2>4. StreamIsOwn'
    BY <2>1 DEF Service, StreamIsOwn, HasMark
  <2>5. LostOutputHasCause'
    BY DEF Service, LostOutputHasCause
  <2>6. QED
    BY <2>1, <2>2, <2>3, <2>4, <2>5
    DEF Service, InStepBetweenCalls, NoiseIsCounted, AnswerIsOwn,
        AnswerIsComplete, AssertNeedsNoise
<1>2. CASE target # "away" /\ WriteStderr
  <2> USE <1>2 DEF WriteStderr
  <2>1. UNCHANGED Stream
    BY DEF Stream
  <2>2. InStepBetweenCalls' /\ NoiseIsCounted'
    BY <2>1 DEF Service, InStepBetweenCalls, NoiseIsCounted
  <2>3. OneLineInFlight'
    BY <2>1 DEF Service, OneLineInFlight, HasMark
  <2>4. StreamIsOwn'
    BY <2>1 DEF Service, StreamIsOwn, HasMark
  <2>5. QED
    BY <2>2, <2>3, <2>4
    DEF Service, AnswerIsOwn, AnswerIsComplete, LostOutputHasCause, AssertNeedsNoise
<1>3. CASE target # "away" /\ TakeLine
  <2> USE <1>3 DEF TakeLine
  <2>1. UNCHANGED Stream
    BY DEF Stream
  <2>2. pc \notin {"idle", "check", "write"}
    BY DEF Service, InStepBetweenCalls
  <2>3. pc \in {"start", "wait", "finish"} =>
          /\ line' = [call |-> call, op |-> op] /\ stdin' = <<>>
          /\ \A i \in DOMAIN Stream : Stream[i] = Noise
    <3>1. pc \in {"start", "wait", "finish"} =>
            /\ stdin = <<[call |-> call, op |-> op]>>
            /\ \A i \in DOMAIN Stream : Stream[i] = Noise
      BY <1>3 DEF Service, OneLineInFlight
    <3>2. \A x : Head(<<x>>) = x /\ Tail(<<x>>) = <<>>
      OBVIOUS
    <3>3. line' = Head(stdin) /\ stdin' = Tail(stdin)
      BY <1>3 DEF TakeLine
    <3>4. QED
      BY <3>1, <3>2, <3>3, Zenon
  <2>4. Noise.kind = "noise"
    BY DEF Noise
  <2>5. OneLineInFlight'
    BY <2>1, <2>3, <2>4 DEF OneLineInFlight, HasMark
  <2>6. StreamIsOwn'
    BY <2>1, <2>3, <2>4 DEF StreamIsOwn, HasMark
  <2>7. NoiseIsCounted'
    BY <2>1 DEF Service, NoiseIsCounted
  <2>8. QED
    BY <2>2, <2>5, <2>6, <2>7
    DEF Service, InStepBetweenCalls, AnswerIsOwn, AnswerIsComplete,
        LostOutputHasCause, AssertNeedsNoise
<1>4. CASE target # "away" /\ WriteStdout
  <2> USE <1>4 DEF WriteStdout
  <2> DEFINE x == Out(line.call, written + 1)
  <2>1. x \in Chunks /\ x.kind = "out" /\ x.val = written + 1
    BY DEF Out, Chunks, TypeOK, Lines
  <2>2. Stream \in Seq(Chunks) /\ Stream' = Append(Stream, x)
    BY <2>1, AppendToStream DEF TypeOK
  <2>3. /\ Len(Stream) \in Nat /\ DOMAIN Stream = 1..Len(Stream)
        /\ DOMAIN Stream' = 1..(Len(Stream) + 1)
        /\ \A i \in 1..Len(Stream) : Stream'[i] = Stream[i]
        /\ Stream'[Len(Stream) + 1] = x
    BY <2>1, <2>2, AppendElements
  <2>4. pc \notin {"idle", "check", "write"}
    BY DEF Service, InStepBetweenCalls
  <2>5. pc \in {"start", "wait", "finish"} =>
          /\ stdin = <<>> /\ line = [call |-> call, op |-> op]
          /\ ~HasMark(Stream)
    BY DEF Service, OneLineInFlight
  <2>6. HasMark(Stream)' <=> HasMark(Stream)
    BY <2>1, <2>3 DEF HasMark
  <2>7. OneLineInFlight'
    BY <2>5, <2>6 DEF OneLineInFlight
  <2>8. StreamIsOwn'
    <3> SUFFICES ASSUME pc \in {"start", "wait", "finish"} PROVE StreamIsOwn'
      BY DEF StreamIsOwn
    <3>1. x = Out(call, written + 1) /\ written \in Nat /\ written' = written + 1
      BY <2>5 DEF TypeOK
    <3>2. \A i \in 1..Len(Stream) :
            Stream[i] = Noise \/ \E k \in 1..written : Stream[i] = Out(call, k)
      BY <2>3, <2>5 DEF Service, StreamIsOwn, HasMark, Mark
    <3>3. \A i \in 1..(Len(Stream) + 1) :
            Stream'[i] = Noise \/ \E k \in 1..written' : Stream'[i] = Out(call, k)
      BY <2>3, <3>1, <3>2, SMTT(30)
    <3>4. \A k \in 1..written : \E i \in 1..Len(Stream) : Stream[i] = Out(call, k)
      BY <2>3, <2>5 DEF Service, StreamIsOwn
    <3>5. \A k \in 1..written' :
            \E i \in 1..(Len(Stream) + 1) : Stream'[i] = Out(call, k)
      <4> TAKE k \in 1..written'
      <4>1. CASE k \in 1..written
        BY <2>3, <3>4, <4>1
      <4>2. CASE k = written + 1
        BY <2>3, <3>1, <4>2
      <4>3. QED
        BY <3>1, <4>1, <4>2
    <3>6. \A i \in 1..Len(Stream) :
            /\ Stream[i].kind # "mark"
            /\ Stream[i].kind = "out" => Stream[i].val < written + 1
      <4> TAKE i \in 1..Len(Stream)
      <4>1. CASE Stream[i] = Noise
        BY <4>1, ChunkKinds
      <4>2. CASE \E k \in 1..written : Stream[i] = Out(call, k)
        BY <3>1, <4>2, ChunkKinds
      <4>3. QED
        BY <3>2, <4>1, <4>2
    <3>7. \A i, j \in 1..(Len(Stream) + 1) :
            i < j => /\ Stream'[i].kind = "mark" => Stream'[j] = Noise
                     /\ Stream'[i].kind = "out" /\ Stream'[j].kind = "out"
                          => Stream'[i].val < Stream'[j].val
      <4> TAKE i, j \in 1..(Len(Stream) + 1)
      <4> HAVE i < j
      <4>1. i \in 1..Len(Stream)
        BY <2>3
      <4>2. CASE j \in 1..Len(Stream)
        <5>1. Stream[i].kind = "out" /\ Stream[j].kind = "out"
                => Stream[i].val < Stream[j].val
          BY <2>3, <2>5, <4>1, <4>2 DEF Service, StreamIsOwn
        <5>2. QED
          BY <2>3, <3>6, <4>1, <4>2, <5>1
      <4>3. CASE j = Len(Stream) + 1
        BY <2>1, <2>3, <3>6, <4>1, <4>3
      <4>4. QED
        BY <2>3, <4>2, <4>3
    <3>8. QED
      BY <2>3, <2>5, <2>6, <3>3, <3>5, <3>7 DEF StreamIsOwn
  <2>9. NoiseIsCounted'
    BY <2>1, <2>3 DEF Service, NoiseIsCounted
  <2>10. QED
    BY <2>4, <2>7, <2>8, <2>9
    DEF Service, InStepBetweenCalls, AnswerIsOwn, AnswerIsComplete,
        LostOutputHasCause, AssertNeedsNoise
<1>5. ASSUME target # "away", NEW code \in {0, 1}, EchoMark(code), target = "pipe"
      PROVE  Service'
  <2> USE <1>5 DEF EchoMark
  <2> DEFINE x == Mark(line.call, code)
  <2>1. x \in Chunks /\ x.kind = "mark" /\ x.call = line.call
    BY DEF Mark, Chunks, TypeOK, Lines
  <2>2. Stream \in Seq(Chunks) /\ Stream' = Append(Stream, x)
    BY <2>1, AppendToStream DEF TypeOK
  <2>3. /\ Len(Stream) \in Nat /\ DOMAIN Stream = 1..Len(Stream)
        /\ DOMAIN Stream' = 1..(Len(Stream) + 1)
        /\ \A i \in 1..Len(Stream) : Stream'[i] = Stream[i]
        /\ Stream'[Len(Stream) + 1] = x
    BY <2>1, <2>2, AppendElements
  <2>4. pc \notin {"idle", "check", "write"}
    BY DEF Service, InStepBetweenCalls
  <2>5. pc \in {"start", "wait", "finish"} =>
          /\ stdin = <<>> /\ line = [call |-> call, op |-> op]
          /\ ~HasMark(Stream)
    BY DEF Service, OneLineInFlight
  <2>6. pc \in {"start", "wait", "finish"} => HasMark(Stream)'
    BY <2>1, <2>3, <2>5 DEF HasMark
  <2>7. OneLineInFlight'
    BY <2>5, <2>6 DEF OneLineInFlight
  <2>8. StreamIsOwn'
    <3> SUFFICES ASSUME pc \in {"start", "wait", "finish"} PROVE StreamIsOwn'
      BY DEF StreamIsOwn
    <3>1. \A i \in 1..Len(Stream) :
            Stream[i] = Noise \/ \E k \in 1..written : Stream[i] = Out(call, k)
      BY <2>3, <2>5 DEF Service, StreamIsOwn, HasMark, Mark
    <3>2. x = Mark(call, status')
      BY <2>5
    <3>3. \A i \in 1..Len(Stream) : Stream[i].kind # "mark"
      BY <3>1, ChunkKinds
    <3>4. \A k \in 1..written : \E i \in 1..(Len(Stream) + 1) : Stream'[i] = Out(call, k)
      BY <2>3, <2>5 DEF Service, StreamIsOwn
    <3>5. \A i, j \in 1..(Len(Stream) + 1) :
            i < j => /\ Stream'[i].kind = "mark" => Stream'[j] = Noise
                     /\ Stream'[i].kind = "out" /\ Stream'[j].kind = "out"
                          => Stream'[i].val < Stream'[j].val
      <4> TAKE i, j \in 1..(Len(Stream) + 1)
      <4> HAVE i < j
      <4>1. i \in 1..Len(Stream)
        BY <2>3
      <4>2. CASE j \in 1..Len(Stream)
        <5>1. Stream[i].kind = "out" /\ Stream[j].kind = "out"
                => Stream[i].val < Stream[j].val
          BY <2>3, <2>5, <4>1, <4>2 DEF Service, StreamIsOwn
        <5>2. QED
          BY <2>3, <3>3, <4>1, <4>2, <5>1
      <4>3. CASE j = Len(Stream) + 1
        BY <2>1, <2>3, <3>3, <4>1, <4>3
      <4>4. QED
        BY <2>3, <4>2, <4>3
    <3>6. op = "get" /\ status' = 0 => written > 0
      BY <2>5
    <3>7. \A i \in 1..(Len(Stream) + 1) :
            \/ Stream'[i] = Noise
            \/ Stream'[i] = Mark(call, status')
            \/ \E k \in 1..written : Stream'[i] = Out(call, k)
      BY <2>3, <3>1, <3>2
    <3>8. QED
      BY <2>3, <2>5, <3>4, <3>5, <3>6, <3>7 DEF StreamIsOwn
  <2>9. NoiseIsCounted'
    BY <2>1, <2>3 DEF Service, NoiseIsCounted
  <2>10. QED
    BY <2>4, <2>7, <2>8, <2>9
    DEF Service, InStepBetweenCalls, AnswerIsOwn, AnswerIsComplete,
        LostOutputHasCause, AssertNeedsNoise
<1>6. ASSUME target # "away", NEW code \in {0, 1}, EchoMark(code), target # "pipe"
      PROVE  Service'
  <2> USE <1>6 DEF EchoMark
  <2>1. UNCHANGED Stream
    BY DEF Stream
  <2>2. pc \notin {"idle", "check", "write"}
    BY DEF Service, InStepBetweenCalls
  <2>3. pc \in {"start", "wait", "finish"} =>
          /\ stdin = <<>> /\ line = [call |-> call, op |-> op]
          /\ ~HasMark(Stream)
    BY DEF Service, OneLineInFlight
  <2>4. OneLineInFlight'
    BY <2>1, <2>3 DEF OneLineInFlight, HasMark
  <2>5. StreamIsOwn'
    <3>1. pc \in {"start", "wait", "finish"} =>
            \A i \in DOMAIN Stream : Stream[i] # Mark(call, status)
      BY <2>3, ChunkKinds DEF HasMark
    <3>2. QED
      BY <2>1, <2>3, <3>1 DEF Service, StreamIsOwn, HasMark
  <2>6. QED
    BY <2>1, <2>2, <2>4, <2>5
    DEF Service, InStepBetweenCalls, NoiseIsCounted, AnswerIsOwn,
        AnswerIsComplete, LostOutputHasCause, AssertNeedsNoise
<1>8. QED
  BY <1>9, <1>1, <1>2, <1>3, <1>4, <1>5, <1>6, <1>7 DEF ShellStep

-----------------------------------------------------------------------------
(* What the steps of the host do *)

\* A step that takes the host out of a call, or keeps it between calls,
\* without a new reply.
LEMMA ServiceBetweenCalls ==
  ASSUME Service,
         UNCHANGED <<call, reply, result, shellVars, target, noise, stdin, stdout>>,
         pc' \in {"idle", "check", "write"} =>
           pc \in {"idle", "check", "write"} /\ pc' # "idle",
         pc' \notin {"start", "wait", "finish", "assertFailed"}
  PROVE  Service'
  BY DEF Service, InStepBetweenCalls, OneLineInFlight, StreamIsOwn,
         NoiseIsCounted, Stream, AnswerIsOwn, AnswerIsComplete,
         LostOutputHasCause, AssertNeedsNoise, shellVars, Running

\* The user of the plugin starts a call, or ends the session.
LEMMA ServiceUserStep == Service /\ UserStep => Service'
<1> SUFFICES ASSUME Service, UserStep PROVE Service'
  OBVIOUS
<1>1. ASSUME NEW o \in Ops, Call(o) PROVE Service'
  BY <1>1 DEF Call, Service, InStepBetweenCalls, OneLineInFlight, StreamIsOwn,
         NoiseIsCounted, Stream, AnswerIsOwn, AnswerIsComplete,
         LostOutputHasCause, AssertNeedsNoise, shellVars, outVars, Running
<1>2. CASE MoveAssignOver
  BY <1>2, ServiceBetweenCalls DEF MoveAssignOver, outVars
<1>3. CASE Release
  BY <1>3, ServiceBetweenCalls DEF Release, outVars
<1>4. QED
  BY <1>1, <1>2, <1>3 DEF UserStep

\* callWithResult answers with exactly what the line of the call wrote, and
\* leaves nothing of it in the pipe (Finish).
LEMMA ServiceFinish ==
  TypeOK /\ Handshake /\ AwayIsSilent /\ Service /\ Finish => Service'
<1> SUFFICES ASSUME TypeOK, Handshake, AwayIsSilent, Service, Finish PROVE Service'
  OBVIOUS
<1> USE DEF Finish, EndedPrematurely, shellVars, outVars, Running
<1> DEFINE value == Value
<1>1. /\ Len(result) \in Nat /\ Len(stdout) \in Nat
      /\ DOMAIN result = 1..Len(result) /\ DOMAIN stdout = 1..Len(stdout)
      /\ DOMAIN Stream = 1..(Len(result) + Len(stdout))
      /\ \A i \in 1..Len(result) : Stream[i] = result[i]
      /\ \A i \in 1..Len(stdout) : Stream[Len(result) + i] = stdout[i]
  BY BufferIsPrefix DEF TypeOK
<1>2. Stream' = stdout /\ UNCHANGED stdout
  BY DEF Stream, TypeOK
<1>3. NoiseIsCounted'
  <2>1. noise = 0 => \A i \in DOMAIN stdout : stdout[i].kind # "noise"
    BY <1>1 DEF Service, NoiseIsCounted
  <2>2. QED
    BY <1>2, <2>1 DEF NoiseIsCounted
<1>4. pc' \in {"idle", "destroy", "assertFailed"}
  BY DEF Return, AfterReply
<1>5. OneLineInFlight' /\ StreamIsOwn'
  BY <1>4 DEF OneLineInFlight, StreamIsOwn
<1>6. CASE shell = "dead"
  <2>1. reply'.outcome = "ended" /\ pc' # "assertFailed"
    BY <1>6 DEF Return, AfterReply
  <2>2. QED
    BY <1>3, <1>5, <1>6, <2>1
    DEF Service, InStepBetweenCalls, AnswerIsOwn, AnswerIsComplete,
        LostOutputHasCause, AssertNeedsNoise
<1>8. CASE shell # "dead" /\ target = "away"
  <2>1. ~HasMark(Stream)
    BY <1>8 DEF AwayIsSilent
  <2>2. ~EndsWithMark(result)
    BY <1>1, <2>1 DEF EndsWithMark, HasMark
  <2>3. reply'.outcome = "noOutput" /\ pc' # "assertFailed"
    BY <1>8, <2>2 DEF Return, AfterReply
  <2>4. QED
    BY <1>3, <1>5, <1>8, <2>3
    DEF Service, InStepBetweenCalls, AnswerIsOwn, AnswerIsComplete,
        LostOutputHasCause, AssertNeedsNoise
<1>7. CASE shell # "dead" /\ target # "away"
  <2>1. PICK m \in 1..Len(result) : result[m].kind = "mark" /\ result[m].call = call
    BY <1>1, <1>7 DEF Handshake, HasMark
  <2>2. Stream[m].kind = "mark" /\ m \in DOMAIN Stream
    BY <1>1, <2>1
  <2>3. HasMark(Stream)
    BY <1>1, <2>1, <2>2 DEF HasMark
  <2>4. shell = "reading" /\ stdin = <<>> /\ target = "pipe"
    <3>1. CASE \A i \in DOMAIN Stream : Stream[i] = Noise
      BY <2>2, <3>1, ChunkKinds
    <3>2. QED
      BY <1>7, <2>3, <3>1 DEF Service, OneLineInFlight
  <2>5. /\ \A i \in DOMAIN Stream :
             \/ Stream[i] = Noise
             \/ Stream[i] = Mark(call, status)
             \/ \E k \in 1..written : Stream[i] = Out(call, k)
        /\ \A k \in 1..written : \E i \in DOMAIN Stream : Stream[i] = Out(call, k)
        /\ \A i, j \in DOMAIN Stream :
             i < j => /\ Stream[i].kind = "mark" => Stream[j] = Noise
                      /\ Stream[i].kind = "out" /\ Stream[j].kind = "out"
                           => Stream[i].val < Stream[j].val
        /\ op = "get" /\ status = 0 => written > 0
    BY <1>7, <2>3, <2>4 DEF Service, StreamIsOwn
  <2>6. \A i \in 1..Len(stdout) : stdout[i] = Noise
    BY <1>1, <2>1, <2>2, <2>5, SMTT(30)
  <2>7. InStepBetweenCalls'
    BY <1>1, <2>4, <2>6 DEF InStepBetweenCalls
  <2>8. \A k \in 1..written : \E i \in 1..(m - 1) : result[i] = Out(call, k)
    <3> TAKE k \in 1..written
    <3>1. PICK i \in DOMAIN Stream : Stream[i] = Out(call, k)
      BY <2>5
    <3>2. i # m /\ ~(m < i)
      BY <2>2, <2>5, <3>1, ChunkKinds
    <3>3. i \in 1..(m - 1)
      BY <1>1, <2>1, <3>2
    <3>4. QED
      BY <1>1, <2>1, <3>1, <3>3
  <2>9. \A i \in (m + 1)..Len(result) : result[i] = Noise
    BY <1>1, <2>1, <2>2, <2>5
  <2>10. \A i \in 1..(m - 1) : i \in DOMAIN Stream /\ Stream[i].kind # "mark"
    <3> TAKE i \in 1..(m - 1)
    <3>1. i \in DOMAIN Stream /\ i < m
      BY <1>1
    <3>2. Stream[i].kind = "mark" => Stream[m] = Noise
      BY <2>2, <2>5, <3>1
    <3>3. QED
      BY <2>2, <3>1, <3>2, ChunkKinds
  <2>11. CASE m # Len(result)
    <3>1. result[Len(result)] = Noise /\ Len(result) \in DOMAIN Stream
      <4>1. Len(result) \in (m + 1)..Len(result)
        <5>1. Len(result) \in Nat
          BY <1>1
        <5>2. m \in Nat /\ m < Len(result)
          BY <5>1, <2>11
        <5>3. QED
          BY <5>1, <5>2
      <4>2. Len(result) \in 1..(Len(result) + Len(stdout))
        BY <1>1
      <4>3. QED
        BY <1>1, <2>9, <4>1, <4>2
    <3>2. ~EndsWithMark(result)
      BY <3>1, ChunkKinds DEF EndsWithMark
    <3>3. reply'.outcome = "noOutput" /\ pc' # "assertFailed"
      BY <1>7, <3>2 DEF Return, AfterReply
    <3>4. noise > 0
      <4>1. Stream[Len(result)].kind = "noise"
        BY <1>1, <2>1, <3>1, ChunkKinds
      <4>2. QED
        BY <3>1, <4>1 DEF Service, NoiseIsCounted, TypeOK
    <3>5. QED
      BY <1>3, <1>5, <2>7, <3>3, <3>4
      DEF Service, AnswerIsOwn, AnswerIsComplete, LostOutputHasCause,
          AssertNeedsNoise
  <2>12. CASE m = Len(result)
    <3>1. EndsWithMark(result) /\ result[Len(result)] = Mark(call, status)
      <4>1. result # <<>>
        BY <1>1, <2>1
      <4>2. result[m] = Mark(call, status)
        BY <1>1, <2>1, <2>2, <2>5, ChunkKinds
      <4>3. QED
        BY <2>1, <2>12, <4>1, <4>2 DEF EndsWithMark
    <3>2. ExitCode = status
      BY <3>1, ChunkKinds DEF ExitCode
    <3>3. /\ Len(value) = m - 1 /\ DOMAIN value = 1..(m - 1)
          /\ \A i \in 1..(m - 1) : value[i] = Stream[i] /\ value[i] = result[i]
      BY <1>1, <2>1, <2>12, SubSeqProperties DEF TypeOK, Value
    <3>4. CASE status # 0
      <4>1. reply'.outcome = "failed" /\ pc' # "assertFailed"
        BY <1>7, <3>1, <3>2, <3>4 DEF Return, AfterReply
      <4>2. QED
        BY <1>3, <1>5, <2>7, <4>1
        DEF Service, AnswerIsOwn, AnswerIsComplete, LostOutputHasCause,
            AssertNeedsNoise
    <3>8. status = 0 =>
            \/ /\ reply' = [call |-> call, outcome |-> "ok", value |-> value]
               /\ pc' = "idle"
            \/ /\ pc' = "assertFailed" /\ UNCHANGED reply
               /\ \E newline \in BOOLEAN : ~GetAsserts(value, newline)
      BY <1>7, <3>1, <3>2 DEF Return, AfterReply
    <3>5. CASE /\ status = 0 /\ pc' = "assertFailed" /\ UNCHANGED reply
               /\ \E newline \in BOOLEAN : ~GetAsserts(value, newline)
      <4>1. pc' = "assertFailed" /\ UNCHANGED reply
        BY <3>5
      <4>2. op = "get" /\ (value = <<>> \/ value[Len(value)].kind # "out")
        BY <3>5 DEF GetAsserts
      <4>3. PICK i \in 1..(m - 1) : result[i] = Out(call, 1)
        BY <2>5, <2>8, <3>5, <4>2 DEF TypeOK
      <4>4. value[m - 1].kind # "out" /\ m - 1 \in DOMAIN Stream
        BY <1>1, <2>1, <3>3, <4>2, <4>3
      <4>5. Stream[m - 1].kind # "mark"
        BY <2>10, <4>3
      <4>6. Stream[m - 1] = Noise
        BY <2>5, <3>3, <4>3, <4>4, <4>5, ChunkKinds
      <4>7. noise > 0
        BY <4>4, <4>6, ChunkKinds DEF Service, NoiseIsCounted, TypeOK
      <4>8. QED
        BY <1>3, <1>5, <2>7, <4>1, <4>7
        DEF Service, AnswerIsOwn, AnswerIsComplete, LostOutputHasCause,
            AssertNeedsNoise
    <3>6. CASE /\ status = 0 /\ pc' = "idle"
               /\ reply' = [call |-> call, outcome |-> "ok", value |-> value]
      <4>1. /\ reply' = [call |-> call, outcome |-> "ok", value |-> value]
            /\ pc' = "idle"
        BY <3>6
      <4>2. AnswerIsOwn'
        <5>1. \A i \in 1..(m - 1) : value[i].kind # "mark"
          BY <2>10, <3>3
        <5>2. \A i \in 1..(m - 1) :
                value[i] = Noise \/ \E k \in 1..written : value[i] = Out(call, k)
          <6> TAKE i \in 1..(m - 1)
          <6>1. /\ value[i] = Stream[i] /\ i \in DOMAIN Stream
                /\ Stream[i].kind # "mark"
            BY <2>10, <3>3
          <6>2. Stream[i] # Mark(call, status)
            BY <6>1, ChunkKinds
          <6>3. QED
            BY <2>5, <6>1, <6>2
        <5>3. QED
          BY <3>3, <3>6, <4>1, <5>2 DEF AnswerIsOwn
      <4>3. AnswerIsComplete'
        <5>1. \A k \in 1..written : \E i \in 1..(m - 1) : value[i] = Out(call, k)
          BY <2>8, <3>3
        <5>2. \A i, j \in 1..(m - 1) :
                i < j /\ value[i].kind = "out" /\ value[j].kind = "out"
                  => value[i].val < value[j].val
          <6> TAKE i, j \in 1..(m - 1)
          <6>1. /\ value[i] = Stream[i] /\ value[j] = Stream[j]
                /\ i \in DOMAIN Stream /\ j \in DOMAIN Stream
            BY <2>10, <3>3
          <6>2. QED
            BY <2>5, <6>1
        <5>3. QED
          BY <3>3, <4>1, <5>1, <5>2 DEF AnswerIsComplete
      <4>4. QED
        BY <1>3, <1>5, <2>7, <4>1, <4>2, <4>3
        DEF Service, LostOutputHasCause, AssertNeedsNoise
    <3>7. QED
      BY <3>4, <3>5, <3>6, <3>8
  <2>13. QED
    BY <2>11, <2>12
<1>9. QED
  BY <1>6, <1>7, <1>8

\* The steps of the host thread.
LEMMA ServiceHostStep ==
  TypeOK /\ Handshake /\ AwayIsSilent /\ Service /\ HostStep => Service'
<1> SUFFICES ASSUME TypeOK, Handshake, AwayIsSilent, Service, HostStep PROVE Service'
  OBVIOUS
<1> USE DEF shellVars, outVars, Running
<1>1. CASE CheckRunning
  <2>1. UNCHANGED Stream
    BY <1>1 DEF CheckRunning, Stream
  <2>2. CASE shell # "dead"
    BY <1>1, <2>2, ServiceBetweenCalls DEF CheckRunning
  <2>3. CASE shell = "dead"
    <3>1. reply'.outcome = "notRunning" /\ pc' \in {"idle", "destroy"}
      BY <1>1, <2>3 DEF CheckRunning, Return, AfterReply
    <3>2. QED
      BY <1>1, <2>1, <2>3, <3>1
      DEF CheckRunning, Service, InStepBetweenCalls, OneLineInFlight, StreamIsOwn,
          NoiseIsCounted, AnswerIsOwn, AnswerIsComplete, LostOutputHasCause,
          AssertNeedsNoise
  <2>4. QED
    BY <2>2, <2>3
<1>2. CASE Write
  <2>1. Stream = stdout /\ UNCHANGED Stream
    BY <1>2, EmptyBuffer DEF Write, Handshake, TypeOK, Stream
  <2>2. CASE pc' = "brokenPipe"
    BY <1>2, <2>1, <2>2
    DEF Write, Service, InStepBetweenCalls, OneLineInFlight, StreamIsOwn,
        NoiseIsCounted, AnswerIsOwn, AnswerIsComplete, LostOutputHasCause,
        AssertNeedsNoise
  <2>3. CASE pc' = "start"
    <3>1. stdin' = Append(stdin, [call |-> call, op |-> op])
      BY <1>2, <2>3 DEF Write
    <3>2. shell # "dead" /\ target # "away" =>
            /\ shell = "reading" /\ stdin = <<>>
            /\ \A i \in DOMAIN Stream : Stream[i] = Noise
      BY <1>2, <2>1 DEF Write, Service, InStepBetweenCalls
    <3>3. shell # "dead" /\ target # "away" => stdin' = <<[call |-> call, op |-> op]>>
      BY <3>1, <3>2
    <3>4. OneLineInFlight'
      BY <1>2, <2>1, <3>2, <3>3 DEF Write, OneLineInFlight
    <3>5. shell # "dead" /\ target # "away" => stdin' # <<>>
      BY <3>3
    <3>6. StreamIsOwn'
      BY <1>2, <3>5 DEF Write, StreamIsOwn
    <3>7. QED
      BY <1>2, <2>1, <2>3, <3>4, <3>6
      DEF Write, Service, InStepBetweenCalls, NoiseIsCounted, AnswerIsOwn,
          AnswerIsComplete, LostOutputHasCause, AssertNeedsNoise
  <2>4. QED
    BY <1>2, <2>2, <2>3 DEF Write
<1>3. CASE StartRead
  <2>1. UNCHANGED Stream
    <3>1. result = <<>>
      BY <1>3 DEF StartRead, Handshake
    <3>2. result' \o stdout' = <<>> \o stdout
      <4>1. <<>> \in Seq(Chunks) /\ ReadSome(<<>>) /\ stdout \in Seq(Chunks)
        BY <1>3 DEF StartRead, TypeOK
      <4>2. QED
        BY <4>1, ReadSomeKeepsStream
    <3>3. QED
      BY <3>1, <3>2 DEF Stream
  <2>2. OneLineInFlight'
    BY <1>3, <2>1 DEF StartRead, Service, OneLineInFlight, HasMark
  <2>3. StreamIsOwn'
    BY <1>3, <2>1 DEF StartRead, Service, StreamIsOwn, HasMark
  <2>4. QED
    BY <1>3, <2>1, <2>2, <2>3
    DEF StartRead, Service, InStepBetweenCalls, NoiseIsCounted, AnswerIsOwn,
        AnswerIsComplete, LostOutputHasCause, AssertNeedsNoise
<1>4. CASE WakeUp
  <2>1. UNCHANGED Stream
    BY <1>4 DEF WakeUp, Stream
  <2>2. OneLineInFlight'
    BY <1>4, <2>1 DEF WakeUp, Service, OneLineInFlight, HasMark
  <2>3. StreamIsOwn'
    BY <1>4, <2>1 DEF WakeUp, Service, StreamIsOwn, HasMark
  <2>4. QED
    BY <1>4, <2>1, <2>2, <2>3
    DEF WakeUp, Service, InStepBetweenCalls, NoiseIsCounted, AnswerIsOwn,
        AnswerIsComplete, LostOutputHasCause, AssertNeedsNoise
<1>5. CASE Finish
  BY <1>5, ServiceFinish
<1>6. CASE Terminate
  BY <1>6, ServiceWithoutShell DEF Terminate, Stream
<1>7. CASE Stop
  BY <1>7, ServiceBetweenCalls DEF Stop
<1>8. CASE Join
  BY <1>8, ServiceBetweenCalls DEF Join
<1>9. QED
  BY <1>1, <1>2, <1>3, <1>4, <1>5, <1>6, <1>7, <1>8 DEF HostStep

-----------------------------------------------------------------------------
(* A shell without a stdout *)

\* Once the shell has given its stdout up, no step of any party brings a
\* marker, or puts anything into a pipe whose end has been met (AwayIsSilent).
LEMMA AwayStep ==
  TypeOK /\ Handshake /\ AwayIsSilent /\ Service /\ [Next]_vars => AwayIsSilent'
<1> SUFFICES ASSUME TypeOK, Handshake, AwayIsSilent, Service, [Next]_vars,
                    shell' # "dead", target' = "away"
             PROVE  AwayIsSilent'
  BY DEF AwayIsSilent, Running
<1> USE DEF Running, EndOfFile
<1>1. result \in Seq(Chunks) /\ stdout \in Seq(Chunks)
  BY DEF TypeOK
<1>2. readOp # "none" <=> pc = "wait"
  BY DEF Handshake, ReadEndsBeforeCall
<1>3. CASE UNCHANGED vars
  BY <1>3 DEF vars, hostVars, ioVars, shellVars, outVars, AwayIsSilent, HasMark, Stream
<1>4. CASE IoStep
  <2> USE <1>4 DEF hostVars, shellVars, outVars
  <2>1. UNCHANGED <<pc, call, reply, shell, target, child>>
    BY DEF IoStep, ReadReady, ReadHandler, ExitReady, ExitHandler, LeaveRun
  <2>2. UNCHANGED Stream
    BY <1>1, TakeOutputKeepsStream, ReadSomeKeepsStream
    DEF IoStep, ReadReady, ReadHandler, ExitReady, ExitHandler, LeaveRun,
        TakeEndOfFile, Stream
  <2>3. HasMark(Stream)' <=> HasMark(Stream)
    BY <2>1, <2>2 DEF HasMark
  <2>4. readOp' \in {"ended", "done"} => stdout' = <<>> /\ EndOfFile
    <3>1. CASE ReadReady
      BY <3>1 DEF ReadReady, TakeOutput, TakeEndOfFile
    <3>2. CASE ReadHandler
      <4>1. CASE readOp = "data" /\ ~HasMark(result)
        BY <1>1, <3>2, <4>1, ReadSomeKeepsStream DEF ReadHandler
      <4>2. CASE readOp = "data" /\ HasMark(result)
        <5>1. HasMark(Stream)
          BY <1>1, <4>2, BufferIsPrefix DEF HasMark
        <5>2. QED
          BY <1>2, <2>1, <4>2, <5>1 DEF AwayIsSilent
      <4>3. CASE readOp = "ended"
        BY <2>1, <3>2, <4>3 DEF ReadHandler, AwayIsSilent
      <4>4. QED
        BY <3>2, <4>1, <4>2, <4>3 DEF ReadHandler
    <3>3. CASE ExitReady \/ ExitHandler \/ LeaveRun
      BY <2>1, <3>3 DEF ExitReady, ExitHandler, LeaveRun, AwayIsSilent, Handshake
    <3>4. QED
      BY <3>1, <3>2, <3>3 DEF IoStep
  <2>5. pc # "wait" => UNCHANGED stdout
    BY <1>2 DEF IoStep, ReadReady, ReadHandler, ExitReady, ExitHandler, LeaveRun
  <2>6. QED
    BY <2>1, <2>3, <2>4, <2>5 DEF AwayIsSilent
<1>5. CASE ChildStep
  <2> USE <1>5 DEF hostVars, shellVars, ioVars
  <2>1. target = "away" /\ UNCHANGED <<pc, call, reply, result, readOp, shell>>
    BY DEF ChildStep, SpawnChild, ChildWrites, ChildExits
  <2>2. CASE ChildWrites
    <3>1. Noise \in Chunks /\ Noise.kind = "noise"
      BY DEF Noise, Chunks
    <3>2. Stream \in Seq(Chunks) /\ Stream' = Append(Stream, Noise)
      BY <1>1, <2>1, <2>2, <3>1, AppendToStream DEF ChildWrites
    <3>3. HasMark(Stream)' <=> HasMark(Stream)
      BY <2>1, <3>1, <3>2, AppendElements DEF HasMark
    <3>4. QED
      BY <2>1, <2>2, <3>3 DEF AwayIsSilent, ChildWrites
  <2>3. CASE ChildExits
    <3>1. UNCHANGED <<Stream, stdout>> /\ child' = FALSE
      BY <2>1, <2>3 DEF ChildExits, Stream
    <3>2. QED
      BY <2>1, <3>1 DEF AwayIsSilent, HasMark
  <2>4. QED
    BY <2>1, <2>2, <2>3 DEF ChildStep, SpawnChild
<1>6. CASE ShellStep
  <2> USE <1>6 DEF hostVars, ioVars, outVars
  <2>1. UNCHANGED <<pc, call, reply, result, readOp, child>>
    BY DEF ShellStep, TakeLine, WriteStdout, WriteStderr, Redirect, EchoMark, Die
  <2>2. shell # "dead" /\ UNCHANGED stdout
    BY DEF ShellStep, TakeLine, WriteStdout, WriteStderr, Redirect, EchoMark, Die
  <2>3. UNCHANGED Stream
    BY <2>1, <2>2 DEF Stream
  <2>4. CASE target = "away"
    BY <2>1, <2>2, <2>3, <2>4 DEF AwayIsSilent, HasMark
  <2>5. CASE target # "away"
    <3>1. shell = "executing"
      BY <2>5
      DEF ShellStep, TakeLine, WriteStdout, WriteStderr, Redirect, EchoMark, Die
    <3>2. pc \notin {"idle", "check", "write"}
      BY <2>5, <3>1 DEF Service, InStepBetweenCalls
    <3>3. pc \in {"start", "wait", "finish"} => ~HasMark(Stream)
      BY <2>5, <3>1 DEF Service, OneLineInFlight
    <3>4. readOp \notin {"ended", "done"} /\ pc # "finish"
      <4>1. readOp = "done" \/ readOp = "ended" \/ pc = "finish" =>
              HasMark(result) /\ pc \in {"wait", "finish"}
        BY <1>2, <2>2, <2>5 DEF Handshake
      <4>2. HasMark(result) => HasMark(Stream)
        BY <1>1, BufferIsPrefix DEF HasMark
      <4>3. QED
        BY <3>3, <4>1, <4>2
    <3>5. QED
      BY <2>1, <2>3, <3>2, <3>3, <3>4 DEF AwayIsSilent, HasMark
  <2>6. QED
    BY <2>4, <2>5
<1>7. CASE UserStep
  <2>1. /\ UNCHANGED <<stdout, readOp, shell, target, child>>
        /\ pc = "idle" /\ pc' \notin {"idle", "start", "wait", "finish"}
    BY <1>7
    DEF UserStep, Call, MoveAssignOver, Release, ioVars, shellVars, outVars, hostVars
  <2>2. QED
    BY <2>1 DEF AwayIsSilent
<1>8. CASE HostStep
  <2> USE <1>8 DEF ioVars, shellVars, outVars
  <2>1. target = "away" /\ shell # "dead" /\ UNCHANGED <<call, shell, target, child>>
    BY DEF HostStep, CheckRunning, Write, StartRead, WakeUp, Finish, Terminate,
           Stop, Join
  <2>2. CASE CheckRunning \/ Stop \/ Join
    BY <2>1, <2>2 DEF CheckRunning, Stop, Join, AwayIsSilent
  <2>3. CASE Write
    <3>1. stdout = <<>> /\ result = <<>> /\ EndOfFile
      BY <2>3 DEF Write, AwayIsSilent, Handshake
    <3>2. Stream' = <<>>
      BY <2>3, <3>1 DEF Write, Stream
    <3>3. QED
      BY <2>1, <2>3, <3>1, <3>2 DEF Write, AwayIsSilent, HasMark
  <2>4. CASE StartRead
    <3>1. result = <<>> /\ ~HasMark(Stream)
      BY <2>1, <2>4 DEF StartRead, Handshake, AwayIsSilent
    <3>2. /\ readOp' \in {"data", "ended", "pending"}
          /\ readOp' = "ended" => stdout' = <<>> /\ EndOfFile
          /\ result' \o stdout' = <<>> \o stdout
      <4>1. <<>> \in Seq(Chunks) /\ ReadSome(<<>>)
        BY <2>4 DEF StartRead
      <4>2. QED
        BY <1>1, <4>1, ReadSomeKeepsStream
    <3>3. UNCHANGED Stream
      BY <3>1, <3>2 DEF Stream
    <3>4. QED
      BY <2>1, <2>4, <3>1, <3>2, <3>3 DEF StartRead, AwayIsSilent, HasMark
  <2>5. CASE WakeUp
    <3>1. UNCHANGED <<Stream, stdout>> /\ pc = "wait" /\ readOp = "done"
      BY <2>5 DEF WakeUp, Stream
    <3>2. QED
      BY <2>1, <2>5, <3>1 DEF WakeUp, AwayIsSilent, HasMark
  <2>6. CASE Finish
    <3>1. ~EndsWithMark(result)
      <4>1. ~HasMark(Stream)
        BY <2>1, <2>6 DEF Finish, AwayIsSilent
      <4>2. QED
        BY <1>1, <4>1, BufferIsPrefix DEF EndsWithMark, HasMark
    <3>2. reply'.outcome = "noOutput" /\ pc' \in {"idle", "destroy"}
      BY <2>1, <2>6, <3>1 DEF Finish, EndedPrematurely, Return, AfterReply
    <3>3. QED
      BY <1>2, <2>1, <2>6, <3>2 DEF Finish, AwayIsSilent
  <2>7. QED
    BY <2>1, <2>2, <2>3, <2>4, <2>5, <2>6 DEF HostStep, Terminate
<1>9. QED
  BY <1>3, <1>4, <1>5, <1>6, <1>7, <1>8 DEF Next

-----------------------------------------------------------------------------
(* The theorems *)

\* The invariant holds of every reachable state of the session.
THEOREM InductiveInvariant == Spec => []Inductive
<1>1. Init => Inductive
  <2> SUFFICES ASSUME Init PROVE Inductive
    OBVIOUS
  <2>1. TypeOK
    BY InitType
  <2>2. Handshake
    BY DEF Init, Handshake, ReadEndsBeforeCall
  <2>3. Stream = <<>>
    BY DEF Init, Stream
  <2>4. Service
    BY <2>3
    DEF Init, Service, InStepBetweenCalls, OneLineInFlight, StreamIsOwn,
        NoiseIsCounted, AnswerIsOwn, AnswerIsComplete, LostOutputHasCause,
        AssertNeedsNoise, Running
  <2>5. AwayIsSilent
    BY DEF Init, AwayIsSilent
  <2>6. QED
    BY <2>1, <2>2, <2>4, <2>5 DEF Inductive
<1>2. Inductive /\ [Next]_vars => Inductive'
  <2> SUFFICES ASSUME Inductive, [Next]_vars PROVE Inductive'
    OBVIOUS
  <2> USE DEF Inductive
  <2>1. TypeOK' /\ Handshake' /\ AwayIsSilent'
    BY TypeStep, HandshakeStep, AwayStep
  <2>2. CASE UNCHANGED vars
    <3>1. UNCHANGED <<hostVars, shellVars, target, noise, stdin, Stream, stdout>>
      BY <2>2 DEF vars, outVars, Stream
    <3>2. Service'
      BY <3>1, ServiceFrame
    <3>3. QED
      BY <2>1, <3>2
  <2>3. CASE Next
    BY <2>1, <2>3, ServiceHostStep, ServiceUserStep, ServiceIoStep,
       ServiceShellStep, ServiceChildStep DEF Next
  <2>4. QED
    BY <2>2, <2>3
<1>3. QED
  BY <1>1, <1>2, PTL DEF Spec

\* A successful call returns the output of its own line and nothing of any
\* other call, all of it and in order (AnswerIsExact).
THEOREM AnswersAreExact == Spec => []AnswerIsExact
<1>1. Inductive => AnswerIsExact
  BY DEF Inductive, Service, AnswerIsExact
<1>2. QED
  BY <1>1, InductiveInvariant, PTL

\* Between calls host and shell are in step: nothing of a finished call is
\* left for the next one to read, and no read outlives the call that owns its
\* buffer (CallsDoNotOverlap).
THEOREM InStep == Spec => []CallsDoNotOverlap
<1>1. Inductive => CallsDoNotOverlap
  BY DEF Inductive, Service, Handshake, CallsDoNotOverlap
<1>2. QED
  BY <1>1, InductiveInvariant, PTL

\* A call loses its answer only to background output or to a line that gave
\* the shell's stdout up, and a read of a variable fails its assert only after
\* background output (LossHasCause).
THEOREM LossesHaveCauses == Spec => []LossHasCause
<1>1. Inductive => LossHasCause
  BY DEF Inductive, Service, LossHasCause
<1>2. QED
  BY <1>1, InductiveInvariant, PTL

\* Once the shell is dead it stays dead and no call is answered, whatever had
\* been read of its output (DeadShellNeverAnswers).
THEOREM DeadStaysSilent == Spec => DeadShellNeverAnswers
<1> DEFINE A == ~Running => /\ ~Running'
                            /\ reply' # reply =>
                                 reply'.outcome \in {"notRunning", "ended"}
<1>1. [Next]_vars => [A]_vars
  <2> SUFFICES ASSUME Next PROVE A
    OBVIOUS
  <2> USE DEF Running, hostVars, ioVars, shellVars, outVars
  <2>1. CASE HostStep
    <3>1. CASE CheckRunning
      BY <3>1 DEF CheckRunning, Return
    <3>2. CASE Finish
      BY <3>2 DEF Finish, EndedPrematurely, Return
    <3>3. CASE Write \/ StartRead \/ WakeUp \/ Terminate \/ Stop \/ Join
      BY <3>3 DEF Write, StartRead, WakeUp, Terminate, Stop, Join
    <3>4. QED
      BY <2>1, <3>1, <3>2, <3>3 DEF HostStep
  <2>2. CASE UserStep
    BY <2>2 DEF UserStep, Call, MoveAssignOver, Release
  <2>3. CASE IoStep
    BY <2>3 DEF IoStep, ReadReady, ReadHandler, ExitReady, ExitHandler, LeaveRun
  <2>4. CASE ShellStep
    BY <2>4 DEF ShellStep, TakeLine, WriteStdout, WriteStderr, Redirect, EchoMark,
                Die
  <2>5. CASE ChildStep
    BY <2>5 DEF ChildStep, SpawnChild, ChildWrites, ChildExits
  <2>6. QED
    BY <2>1, <2>2, <2>3, <2>4, <2>5 DEF Next
<1>2. QED
  BY <1>1, PTL DEF Spec, DeadShellNeverAnswers

\* No completion handler runs, and nothing writes to the buffer, once the
\* session has been destroyed (NoHandlerAfterDestruction).
THEOREM NoLateHandler == Spec => NoHandlerAfterDestruction
<1> DEFINE A == pc = "gone" => UNCHANGED <<result, ioVars>>
<1>1. Inductive /\ [Next]_vars => [A]_vars
  <2> SUFFICES ASSUME Inductive, Next, pc = "gone" PROVE UNCHANGED <<result, ioVars>>
    OBVIOUS
  <2> USE DEF hostVars, ioVars, shellVars, outVars
  <2>1. io = "stopped"
    BY DEF Inductive, Handshake
  <2>2. CASE HostStep
    BY <2>2 DEF HostStep, CheckRunning, Write, StartRead, WakeUp, Finish,
                Terminate, Stop, Join
  <2>3. CASE UserStep
    BY <2>3 DEF UserStep, Call, MoveAssignOver, Release
  <2>4. CASE IoStep
    BY <2>1, <2>4 DEF IoStep, ReadReady, ReadHandler, ExitReady, ExitHandler, LeaveRun
  <2>5. CASE ShellStep
    BY <2>5 DEF ShellStep, TakeLine, WriteStdout, WriteStderr, Redirect, EchoMark,
                Die
  <2>6. CASE ChildStep
    BY <2>6 DEF ChildStep, SpawnChild, ChildWrites, ChildExits
  <2>7. QED
    BY <2>2, <2>3, <2>4, <2>5, <2>6 DEF Next
<1>2. QED
  BY <1>1, InductiveInvariant, PTL DEF Spec, NoHandlerAfterDestruction

-----------------------------------------------------------------------------
(* No party is ahead of the host (NothingFromLaterCalls) *)

\* A line or a chunk added at the end of a pipe is the only new element.
LEMMA AppendKeeps ==
  ASSUME NEW S, NEW s \in Seq(S), NEW x \in S
  PROVE  /\ \A i \in DOMAIN Append(s, x) : Append(s, x)[i] = x
              \/ \E j \in DOMAIN s : j = i /\ Append(s, x)[i] = s[j]
         /\ \E i \in DOMAIN Append(s, x) : Append(s, x)[i] = x
         /\ \A j \in DOMAIN s : j \in DOMAIN Append(s, x) /\ Append(s, x)[j] = s[j]
<1>1. /\ Len(s) \in Nat /\ DOMAIN s = 1..Len(s)
      /\ DOMAIN Append(s, x) = 1..(Len(s) + 1)
      /\ \A i \in 1..Len(s) : Append(s, x)[i] = s[i]
      /\ Append(s, x)[Len(s) + 1] = x
  OBVIOUS
<1>2. QED
  BY <1>1

\* The line the shell takes and those it leaves were all in its stdin
\* (TakeLine).
LEMMA TailKeeps ==
  ASSUME NEW S, NEW s \in Seq(S), s # <<>>
  PROVE  /\ 1 \in DOMAIN s /\ Head(s) = s[1]
         /\ \A i \in DOMAIN Tail(s) : i + 1 \in DOMAIN s /\ Tail(s)[i] = s[i + 1]
  OBVIOUS

\* Every read leaves the stream of the call as it is: chunks only move from
\* the pipe to the buffer (StartRead, ReadReady, ReadHandler).
LEMMA ReadsKeepStream ==
  ASSUME TypeOK, Handshake, StartRead \/ IoStep
  PROVE  UNCHANGED Stream
<1>1. result \in Seq(Chunks) /\ stdout \in Seq(Chunks) /\ <<>> \in Seq(Chunks)
  BY DEF TypeOK
<1>2. CASE StartRead
  <2>1. result = <<>> /\ ReadSome(<<>>)
    BY <1>2 DEF StartRead, Handshake
  <2>2. result' \o stdout' = <<>> \o stdout
    BY <1>1, <2>1, ReadSomeKeepsStream
  <2>3. QED
    BY <2>1, <2>2 DEF Stream
<1>3. CASE ReadReady
  <2>1. TakeOutput(result) => result' \o stdout' = result \o stdout
    BY <1>1, TakeOutputKeepsStream
  <2>2. TakeEndOfFile(result) => UNCHANGED <<result, stdout>>
    BY DEF TakeEndOfFile
  <2>3. QED
    BY <1>3, <2>1, <2>2 DEF ReadReady, Stream
<1>4. CASE ReadHandler
  <2>1. ReadSome(result) => result' \o stdout' = result \o stdout
    BY <1>1, ReadSomeKeepsStream
  <2>2. QED
    BY <1>4, <2>1 DEF ReadHandler, Stream
<1>5. CASE ExitReady \/ ExitHandler \/ LeaveRun
  BY <1>5 DEF ExitReady, ExitHandler, LeaveRun, Stream
<1>6. QED
  BY <1>2, <1>3, <1>4, <1>5 DEF IoStep

\* What the session has been sent names no later call, at any time, however
\* the shell died (NothingFromLaterCalls is inductive over Inductive).
LEMMA NothingFromLaterCallsStep ==
  ASSUME TypeOK, Handshake, NothingFromLaterCalls, [Next]_vars
  PROVE  NothingFromLaterCalls'
<1> USE DEF hostVars, ioVars, shellVars, outVars, Running, InCall
<1>1. /\ result \in Seq(Chunks) /\ stdout \in Seq(Chunks) /\ stdin \in Seq(Lines)
      /\ call \in Nat /\ line \in Lines /\ op \in Ops
  BY DEF TypeOK
<1>2. CASE UNCHANGED vars
  <2>1. UNCHANGED Stream
    BY <1>2 DEF vars, Stream
  <2>2. QED
    BY <1>2, <2>1 DEF vars, NothingFromLaterCalls
<1>3. CASE HostStep
  <2>1. CASE CheckRunning
    <3>1. UNCHANGED Stream /\ pc' \in {"write", "idle", "destroy"}
      BY <2>1 DEF CheckRunning, Return, AfterReply, Stream
    <3>2. QED
      BY <2>1, <3>1 DEF CheckRunning, NothingFromLaterCalls
  <2>2. CASE Write
    <3>1. UNCHANGED Stream /\ pc' \in {"start", "brokenPipe"}
      BY <2>2 DEF Write, Stream
    <3>2. \A i \in DOMAIN stdin' : stdin'[i].call <= call
      <4> DEFINE x == [call |-> call, op |-> op]
      <4>1. x \in Lines
        BY <1>1 DEF Lines
      <4> x.call <= call
        BY <1>1
      <4> \A i \in DOMAIN stdin : stdin[i].call <= call
        BY DEF NothingFromLaterCalls
      <4> HIDE DEF x
      <4>2. \A i \in DOMAIN Append(stdin, x) : Append(stdin, x)[i].call <= call
        <5>1. stdin \in Seq(Lines)
          BY <1>1
        <5>2. \A i \in DOMAIN Append(stdin, x) : Append(stdin, x)[i] = x
                \/ \E j \in DOMAIN stdin : j = i /\ Append(stdin, x)[i] = stdin[j]
          BY <4>1, <5>1, AppendKeeps, SMT
        <5>3. QED
          BY <5>2
      <4>3. QED
        BY <2>2, <4>2 DEF Write, x
    <3>3. QED
      BY <2>2, <3>1, <3>2 DEF Write, NothingFromLaterCalls
  <2>3. CASE StartRead
    BY <2>3, ReadsKeepStream DEF StartRead, NothingFromLaterCalls
  <2>4. CASE WakeUp
    <3>1. UNCHANGED Stream
      BY <2>4 DEF WakeUp, Stream
    <3>2. QED
      BY <2>4, <3>1 DEF WakeUp, NothingFromLaterCalls
  <2>5. CASE Finish
    <3>1. pc' \in {"idle", "destroy", "assertFailed"}
      BY <2>5 DEF Finish, Return, AfterReply
    <3>2. \A i \in DOMAIN Stream' : Stream'[i].call <= call
      <4>1. Stream' = stdout
        BY <1>1, <2>5 DEF Finish, Stream
      <4>2. \A i \in DOMAIN stdout : stdout[i].call <= call
        BY <1>1, BufferIsPrefix DEF NothingFromLaterCalls
      <4>3. QED
        BY <4>1, <4>2
    <3>3. QED
      BY <2>5, <3>1, <3>2 DEF Finish, NothingFromLaterCalls
  <2>6. CASE Terminate \/ Stop \/ Join
    <3>1. UNCHANGED Stream
      BY <2>6 DEF Terminate, Stop, Join, Stream
    <3>2. QED
      BY <2>6, <3>1 DEF Terminate, Stop, Join, NothingFromLaterCalls
  <2>7. QED
    BY <1>3, <2>1, <2>2, <2>3, <2>4, <2>5, <2>6 DEF HostStep
<1>4. CASE UserStep
  <2>1. UNCHANGED Stream
    BY <1>4 DEF UserStep, Call, MoveAssignOver, Release, Stream
  <2>2. CASE \E o \in Ops : Call(o)
    <3>1. call' = call + 1 /\ pc' = "check" /\ (op' = "load" <=> call = 0)
      BY <2>2 DEF Call
    <3>2. \A n \in Nat : n <= call => n <= call + 1
      BY <1>1
    <3>3. \A i \in DOMAIN stdin : stdin[i].call \in Nat
      <4>1. \A i \in DOMAIN stdin : stdin[i] \in Lines
        BY <1>1
      <4>2. QED
        BY <4>1 DEF Lines
    <3>4. \A i \in DOMAIN Stream : Stream[i].call \in Nat
      <4>1. Stream \in Seq(Chunks)
        BY <1>1 DEF Stream
      <4>2. \A i \in DOMAIN Stream : Stream[i] \in Chunks
        BY <4>1
      <4>3. QED
        BY <4>2 DEF Chunks
    <3>5. UNCHANGED <<stdin, line>> /\ line.call \in Nat
      BY <1>1, <2>2 DEF Call, Lines
    <3>6. QED
      BY <1>1, <2>1, <3>1, <3>2, <3>3, <3>4, <3>5 DEF NothingFromLaterCalls
  <2>3. CASE MoveAssignOver \/ Release
    BY <2>1, <2>3 DEF MoveAssignOver, Release, NothingFromLaterCalls
  <2>4. QED
    BY <1>4, <2>2, <2>3 DEF UserStep
<1>5. CASE IoStep
  <2>1. UNCHANGED <<hostVars, shellVars, stdin>>
    BY <1>5 DEF IoStep, ReadReady, ReadHandler, ExitReady, ExitHandler, LeaveRun
  <2>2. UNCHANGED Stream
    BY <1>5, ReadsKeepStream
  <2>3. QED
    BY <2>1, <2>2 DEF NothingFromLaterCalls
<1>6. CASE ShellStep
  <2>1. CASE TakeLine
    <3>1. UNCHANGED Stream
      BY <2>1 DEF TakeLine, Stream
    <3>2. \A i \in DOMAIN stdin : stdin[i].call <= call
      BY DEF NothingFromLaterCalls
    <3>3. stdin # <<>> /\ line' = Head(stdin) /\ stdin' = Tail(stdin)
      BY <2>1 DEF TakeLine
    <3>4. line'.call <= call /\ \A i \in DOMAIN stdin' : stdin'[i].call <= call
      BY <1>1, <3>2, <3>3, TailKeeps
    <3>5. QED
      BY <2>1, <3>1, <3>4 DEF TakeLine, NothingFromLaterCalls
  <2>2. CASE WriteStdout
    <3>1. Out(line.call, written + 1) \in Chunks
      BY <1>1 DEF Out, Chunks, Lines, TypeOK
    <3>2. Stream \in Seq(Chunks) /\ Stream' = Append(Stream, Out(line.call, written + 1))
      BY <1>1, <2>2, <3>1, AppendToStream DEF WriteStdout
    <3>3. \A i \in DOMAIN Stream' : Stream'[i].call <= call
      BY <3>1, <3>2, AppendKeeps, ChunkKinds DEF NothingFromLaterCalls
    <3>4. QED
      BY <2>2, <3>3 DEF WriteStdout, NothingFromLaterCalls
  <2>3. CASE WriteStderr
    <3>1. UNCHANGED Stream
      BY <2>3 DEF WriteStderr, Stream
    <3>2. QED
      BY <2>3, <3>1 DEF WriteStderr, NothingFromLaterCalls
  <2>4. ASSUME NEW code \in {0, 1}, EchoMark(code)
        PROVE  NothingFromLaterCalls'
    <3>1. Mark(line.call, code) \in Chunks
      BY <1>1 DEF Mark, Chunks, Lines
    <3>2. \/ UNCHANGED Stream
          \/ /\ Stream \in Seq(Chunks)
             /\ Stream' = Append(Stream, Mark(line.call, code))
      <4>1. CASE target = "pipe"
        BY <1>1, <2>4, <3>1, <4>1, AppendToStream DEF EchoMark
      <4>2. CASE target # "pipe"
        BY <2>4, <4>2 DEF EchoMark, Stream
      <4>3. QED
        BY <4>1, <4>2
    <3>3. \A i \in DOMAIN Stream' : Stream'[i].call <= call
      BY <3>1, <3>2, AppendKeeps, ChunkKinds DEF NothingFromLaterCalls
    <3>4. QED
      BY <2>4, <3>3 DEF EchoMark, NothingFromLaterCalls
  <2>5. CASE Die
    <3>1. UNCHANGED Stream
      BY <2>5 DEF Die, Stream
    <3>2. QED
      BY <2>5, <3>1 DEF Die, NothingFromLaterCalls
  <2>6. CASE Redirect
    <3>1. UNCHANGED Stream
      BY <2>6 DEF Redirect, Stream
    <3>2. QED
      BY <2>6, <3>1 DEF Redirect, NothingFromLaterCalls
  <2>7. QED
    BY <1>6, <2>1, <2>2, <2>3, <2>4, <2>5, <2>6 DEF ShellStep
<1>7. CASE ChildStep
  <2>1. CASE ChildWrites
    <3>1. Noise \in Chunks /\ Noise.call = 0
      BY DEF Noise, Chunks
    <3>2. Stream \in Seq(Chunks) /\ Stream' = Append(Stream, Noise)
      BY <1>1, <2>1, <3>1, AppendToStream DEF ChildWrites
    <3>3. \A i \in DOMAIN Stream' : Stream'[i].call <= call
      <4>1. Noise.call <= call /\ \A i \in DOMAIN Stream : Stream[i].call <= call
        BY <1>1, <3>1 DEF NothingFromLaterCalls
      <4>2. QED
        BY <3>1, <3>2, <4>1, AppendKeeps
    <3>4. QED
      BY <2>1, <3>3 DEF ChildWrites, NothingFromLaterCalls
  <2>2. CASE SpawnChild \/ ChildExits
    <3>1. UNCHANGED Stream
      BY <2>2 DEF SpawnChild, ChildExits, Stream
    <3>2. QED
      BY <2>2, <3>1 DEF SpawnChild, ChildExits, NothingFromLaterCalls
  <2>3. QED
    BY <1>7, <2>1, <2>2 DEF ChildStep
<1>8. QED
  BY <1>2, <1>3, <1>4, <1>5, <1>6, <1>7 DEF Next

\* No chunk and no line ever names a call that has not been made, so that a
\* new call of the plugin begins with no exit code; the refinement needs it
\* of dead shells too (NothingFromLaterCalls).
LEMMA NoPartyIsAhead == Spec => []NothingFromLaterCalls
<1>1. Init => NothingFromLaterCalls
  <2>1. Init => Stream = <<>>
    BY DEF Init, Stream
  <2>2. QED
    BY <2>1 DEF Init, NothingFromLaterCalls, NoLine, InCall
<1>2. Inductive /\ NothingFromLaterCalls /\ [Next]_vars => NothingFromLaterCalls'
  BY NothingFromLaterCallsStep DEF Inductive
<1>3. QED
  BY <1>1, <1>2, InductiveInvariant, PTL DEF Spec

-----------------------------------------------------------------------------
(* The steps of the session as steps of the plugin *)

\* A chunk is in the stream of a call when it is in the buffer or in the pipe.
LEMMA InEitherPart ==
  ASSUME NEW r \in Seq(Chunks), NEW s \in Seq(Chunks), NEW m
  PROVE  (\/ \E i \in DOMAIN r : r[i] = m
          \/ \E i \in DOMAIN s : s[i] = m)
         <=> \E i \in DOMAIN (r \o s) : (r \o s)[i] = m
<1>1. /\ Len(r) \in Nat /\ Len(s) \in Nat
      /\ DOMAIN r = 1..Len(r) /\ DOMAIN s = 1..Len(s)
      /\ DOMAIN (r \o s) = 1..(Len(r) + Len(s))
      /\ \A i \in 1..Len(r) : (r \o s)[i] = r[i]
      /\ \A i \in 1..Len(s) : (r \o s)[Len(r) + i] = s[i]
  OBVIOUS
<1>2. ASSUME NEW i \in 1..(Len(r) + Len(s)), i \notin 1..Len(r)
      PROVE  i - Len(r) \in 1..Len(s) /\ Len(r) + (i - Len(r)) = i
  BY <1>1, <1>2
<1>3. \A i \in 1..Len(r) : i \in 1..(Len(r) + Len(s))
  BY <1>1
<1>4. \A i \in 1..Len(s) : Len(r) + i \in 1..(Len(r) + Len(s))
  BY <1>1
<1>5. ASSUME NEW i \in DOMAIN (r \o s), (r \o s)[i] = m
      PROVE  (\E j \in DOMAIN r : r[j] = m) \/ (\E j \in DOMAIN s : s[j] = m)
  <2>1. CASE i \in 1..Len(r)
    BY <1>1, <1>5, <2>1
  <2>2. CASE i \notin 1..Len(r)
    BY <1>1, <1>2, <1>5, <2>2
  <2>3. QED
    BY <2>1, <2>2
<1>6. QED
  BY <1>1, <1>3, <1>4, <1>5

\* The exit codes of the current call, read from its stream (Reported).
LEMMA ReportedInStream ==
  ASSUME TypeOK, NEW code
  PROVE  Reported(code) <=> \E i \in DOMAIN Stream : Stream[i] = Mark(call, code)
<1>1. result \in Seq(Chunks) /\ stdout \in Seq(Chunks)
  BY DEF TypeOK
<1>2. (\/ \E i \in DOMAIN result : result[i] = Mark(call, code)
       \/ \E i \in DOMAIN stdout : stdout[i] = Mark(call, code))
      <=> \E i \in DOMAIN (result \o stdout) : (result \o stdout)[i] = Mark(call, code)
  BY <1>1, InEitherPart, ZenonT(60)
<1>3. QED
  BY <1>2, Zenon DEF Reported, Stream

\* The same after a step.
LEMMA ReportedInStreamAfter ==
  ASSUME TypeOK', NEW code
  PROVE  Reported(code)' <=> \E i \in DOMAIN Stream' : Stream'[i] = Mark(call', code)
<1>1. result' \in Seq(Chunks) /\ stdout' \in Seq(Chunks)
  BY DEF TypeOK
<1>2. (\/ \E i \in DOMAIN result' : result'[i] = Mark(call', code)
       \/ \E i \in DOMAIN stdout' : stdout'[i] = Mark(call', code))
      <=> \E i \in DOMAIN (result' \o stdout') : (result' \o stdout')[i] = Mark(call', code)
  BY <1>1, InEitherPart, ZenonT(60)
<1>3. QED
  BY <1>2, Zenon DEF Reported, Stream

\* A step that leaves the call and its stream alone, whatever it moves from
\* the pipe to the buffer, leaves the exit codes alone (CodesOf).
LEMMA StreamKeepsCodes ==
  ASSUME TypeOK, TypeOK', UNCHANGED <<call, Stream>>,
         pc \in InCall <=> pc' \in InCall
  PROVE  UNCHANGED CodesOf
<1>1. \A code \in {0, 1} : Reported(code) <=> Reported(code)'
  BY ReportedInStream, ReportedInStreamAfter
<1>2. QED
  BY <1>1 DEF CodesOf

\* A chunk that ends no line leaves the exit codes alone (CodesOf).
LEMMA OutputKeepsCodes ==
  ASSUME TypeOK, TypeOK', UNCHANGED <<call, pc>>, NEW x \in Chunks,
         x.kind # "mark", Stream' = Append(Stream, x)
  PROVE  UNCHANGED CodesOf
<1>1. Stream \in Seq(Chunks)
  BY DEF TypeOK, Stream
<1>2. \A code : (\E i \in DOMAIN Stream : Stream[i] = Mark(call, code))
                <=> \E i \in DOMAIN Append(Stream, x) : Append(Stream, x)[i] = Mark(call, code)
  BY <1>1, AppendKeeps, ChunkKinds
<1>3. \A code \in {0, 1} : Reported(code) <=> Reported(code)'
  BY <1>2, ReportedInStream, ReportedInStreamAfter
<1>4. QED
  BY <1>3 DEF CodesOf

\* While the shell runs, the exit codes of the call that is served are none
\* before its end marker, and the one the shell reported after it.
LEMMA CodesOfServed ==
  ASSUME TypeOK, AwayIsSilent, Service, Running, pc \in InCall
  PROVE  /\ shell = "executing" /\ target # "away" => CodesOf = {}
         /\ pc = "finish" /\ HasMark(result) /\ status \in {0, 1} => CodesOf = {status}
<1> USE DEF InCall
<1>1. CASE pc \in {"check", "write"}
  BY <1>1 DEF Service, InStepBetweenCalls
<1>2. CASE pc \in {"start", "wait", "finish"}
  <2>1. ASSUME shell = "executing", target # "away" PROVE CodesOf = {}
    <3>1. ~HasMark(Stream)
      BY <1>2, <2>1 DEF Service, OneLineInFlight
    <3>2. \A code \in {0, 1} : ~Reported(code)
      BY <3>1, ReportedInStream, ChunkKinds DEF HasMark
    <3>3. QED
      BY <3>2 DEF CodesOf
  <2>2. ASSUME pc = "finish", HasMark(result), status \in {0, 1}
        PROVE  CodesOf = {status}
    <3>1. PICK m \in DOMAIN result : result[m].kind = "mark" /\ result[m].call = call
      BY <2>2 DEF HasMark
    <3>2. m \in DOMAIN Stream /\ Stream[m] = result[m]
      BY <3>1, BufferIsPrefix DEF TypeOK
    <3>8. target # "away"
      BY <1>2, <3>1, <3>2 DEF AwayIsSilent, HasMark
    <3>3. stdin = <<>>
      BY <1>2, <3>1, <3>2, <3>8, ChunkKinds DEF Service, OneLineInFlight
    <3>4. \A i \in DOMAIN Stream :
            Stream[i].kind = "mark" => Stream[i] = Mark(call, status)
      BY <1>2, <3>8, <3>3, ChunkKinds DEF Service, StreamIsOwn
    <3>5. Reported(status)
      BY <3>1, <3>2, <3>4, ReportedInStream
    <3>6. \A code \in {0, 1} : Reported(code) => code = status
      <4> TAKE code \in {0, 1}
      <4> HAVE Reported(code)
      <4>1. PICK i \in DOMAIN Stream : Stream[i] = Mark(call, code)
        BY ReportedInStream
      <4>2. Mark(call, code) = Mark(call, status)
        BY <3>4, <4>1, ChunkKinds
      <4>3. QED
        BY <4>2, ChunkKinds
    <3>7. QED
      BY <2>2, <3>5, <3>6 DEF CodesOf
  <2>3. QED
    BY <2>1, <2>2
<1>3. QED
  BY <1>1, <1>2

\* A step the user of the plugin cannot see.
LEMMA Unseen ==
  ASSUME UNCHANGED <<PhaseOf, call, Running, CodesOf, OutcomeOf>>
  PROVE  UNCHANGED Abstract!vars
  BY DEF Abstract!vars

\* The exit code in the last line of the buffer is the one the shell reported
\* for the line of this call (ExitCode).
LEMMA CodeIsOwn ==
  ASSUME TypeOK, AwayIsSilent, Service, Running, pc = "finish", EndsWithMark(result)
  PROVE  HasMark(result) /\ ExitCode = status
<1>1. /\ Len(result) \in DOMAIN result
      /\ result[Len(result)].kind = "mark" /\ result[Len(result)].call = call
  <2>1. Len(result) \in Nat /\ DOMAIN result = 1..Len(result) /\ result # <<>>
    BY DEF EndsWithMark, TypeOK
  <2>2. Len(result) # 0
    BY <2>1, EmptySeq DEF TypeOK
  <2>3. QED
    BY <2>1, <2>2 DEF EndsWithMark
<1>2. Len(result) \in DOMAIN Stream /\ Stream[Len(result)] = result[Len(result)]
  BY <1>1, BufferIsPrefix DEF TypeOK
<1>7. target # "away"
  BY <1>1, <1>2 DEF AwayIsSilent, HasMark
<1>3. stdin = <<>>
  BY <1>1, <1>2, <1>7, ChunkKinds DEF Service, OneLineInFlight
<1>4. Stream[Len(result)] = Mark(call, status)
  BY <1>1, <1>2, <1>3, <1>7, ChunkKinds DEF Service, StreamIsOwn
<1>5. result[Len(result)].val = status
  BY <1>2, <1>4, ChunkKinds
<1>6. QED
  BY <1>1, <1>5 DEF HasMark, ExitCode

\* Every step of the host thread that serves a call or ends the session is a
\* step of the plugin or none.
LEMMA HostStepRefines ==
  ASSUME TypeOK, TypeOK', Handshake, AwayIsSilent, Service, NothingFromLaterCalls,
         HostStep
  PROVE  [Abstract!Next]_(Abstract!vars)
<1> USE DEF hostVars, ioVars, shellVars, outVars, Running
<1>1. CASE CheckRunning
  <2>1. CASE shell # "dead"
    <3>1. UNCHANGED <<call, Stream, reply, shell>> /\ pc' = "write" /\ pc = "check"
      BY <1>1, <2>1 DEF CheckRunning, Stream
    <3>2. UNCHANGED CodesOf
      BY <3>1, StreamKeepsCodes DEF InCall
    <3>3. QED
      BY <3>1, <3>2, Unseen DEF PhaseOf, OutcomeOf, InCall
  <2>2. CASE shell = "dead"
    <3>1. /\ UNCHANGED <<call, shell>> /\ pc = "check"
          /\ reply'.outcome = "notRunning"
          /\ pc' = IF op = "load" THEN "destroy" ELSE "idle"
      BY <1>1, <2>2 DEF CheckRunning, Return, AfterReply
    <3>2. op = "load" <=> call = 1
      BY <3>1 DEF NothingFromLaterCalls, InCall
    <3>3. Abstract!Fail
      BY <3>1, <3>2 DEF Abstract!Fail, PhaseOf, OutcomeOf, CodesOf, InCall
    <3>4. QED
      BY <3>3 DEF Abstract!Next
  <2>3. QED
    BY <2>1, <2>2
<1>2. CASE Write
  <2>1. UNCHANGED <<call, Stream, reply, shell>> /\ pc = "write"
    BY <1>2 DEF Write, Stream
  <2>2. CASE pc' = "start"
    <3>1. UNCHANGED CodesOf
      BY <2>1, <2>2, StreamKeepsCodes DEF InCall
    <3>2. QED
      BY <2>1, <2>2, <3>1, Unseen DEF PhaseOf, OutcomeOf, InCall
  <2>3. CASE pc' = "brokenPipe"
    <3>1. Abstract!Abort
      BY <2>1, <2>3 DEF Abstract!Abort, PhaseOf, OutcomeOf, CodesOf, InCall
    <3>2. QED
      BY <3>1 DEF Abstract!Next
  <2>4. QED
    BY <1>2, <2>2, <2>3 DEF Write
<1>3. CASE StartRead
  <2>1. UNCHANGED <<call, reply, shell>> /\ pc = "start" /\ pc' = "wait"
    BY <1>3 DEF StartRead
  <2>2. UNCHANGED Stream
    BY <1>3, ReadsKeepStream
  <2>3. UNCHANGED CodesOf
    BY <2>1, <2>2, StreamKeepsCodes DEF InCall
  <2>4. QED
    BY <2>1, <2>3, Unseen DEF PhaseOf, OutcomeOf, InCall
<1>4. CASE WakeUp
  <2>1. UNCHANGED <<call, Stream, reply, shell>> /\ pc = "wait" /\ pc' = "finish"
    BY <1>4 DEF WakeUp, Stream
  <2>2. UNCHANGED CodesOf
    BY <2>1, StreamKeepsCodes DEF InCall
  <2>3. QED
    BY <2>1, <2>2, Unseen DEF PhaseOf, OutcomeOf, InCall
<1>5. CASE Finish
  <2>1. UNCHANGED <<call, shell>> /\ pc = "finish"
    BY <1>5 DEF Finish
  <2>2. op = "load" <=> call = 1
    BY <2>1 DEF NothingFromLaterCalls, InCall
  <2>3. ASSUME NEW o \in {"ended", "noOutput", "failed"}, Return(o, <<>>)
        PROVE  Abstract!Fail
    <3>1. /\ reply'.outcome \in {"ended", "noOutput", "failed"}
          /\ pc' = IF op = "load" THEN "destroy" ELSE "idle"
      BY <2>3 DEF Return, AfterReply
    <3>2. QED
      BY <2>1, <2>2, <3>1 DEF Abstract!Fail, PhaseOf, OutcomeOf, CodesOf, InCall
  <2>4. ASSUME shell # "dead", EndsWithMark(result), ExitCode = 0, Return("ok", Value)
        PROVE  Abstract!Answer
    <3>1. reply'.outcome = "ok" /\ pc' = "idle"
      BY <2>4 DEF Return, AfterReply
    <3>2. HasMark(result) /\ status = 0
      BY <2>1, <2>4, CodeIsOwn
    <3>3. CodesOf = {0}
      BY <2>1, <2>4, <3>2, CodesOfServed DEF InCall
    <3>4. QED
      BY <2>1, <2>4, <3>1, <3>3 DEF Abstract!Answer, PhaseOf, OutcomeOf, CodesOf, InCall
  <2>5. ASSUME pc' = "assertFailed", UNCHANGED reply
        PROVE  Abstract!Abort
    BY <2>1, <2>5 DEF Abstract!Abort, PhaseOf, OutcomeOf, CodesOf, InCall
  <2>6. \/ \E o \in {"ended", "noOutput", "failed"} : Return(o, <<>>)
        \/ /\ shell # "dead" /\ EndsWithMark(result) /\ ExitCode = 0
           /\ Return("ok", Value)
        \/ pc' = "assertFailed" /\ UNCHANGED reply
    BY <1>5 DEF Finish, EndedPrematurely
  <2>7. QED
    BY <2>3, <2>4, <2>5, <2>6 DEF Abstract!Next
<1>6. CASE Terminate
  <2>1. /\ UNCHANGED <<call, reply>> /\ pc = "destroy" /\ pc' = "stop"
        /\ shell' = "dead"
    BY <1>6 DEF Terminate
  <2>2. UNCHANGED <<PhaseOf, CodesOf, OutcomeOf>>
    BY <2>1 DEF PhaseOf, CodesOf, OutcomeOf, InCall
  <2>3. CASE shell = "dead"
    BY <2>1, <2>2, <2>3, Unseen
  <2>4. CASE shell # "dead"
    <3>1. Abstract!Die
      BY <2>1, <2>2, <2>4 DEF Abstract!Die
    <3>2. QED
      BY <3>1 DEF Abstract!Next
  <2>5. QED
    BY <2>3, <2>4
<1>7. CASE Stop
  <2>1. UNCHANGED <<call, reply, shell>> /\ pc = "stop" /\ pc' = "join"
    BY <1>7 DEF Stop
  <2>2. QED
    BY <2>1, Unseen DEF PhaseOf, CodesOf, OutcomeOf, InCall
<1>8. CASE Join
  <2>1. UNCHANGED <<call, reply, shell>> /\ pc = "join" /\ pc' = "gone"
    BY <1>8 DEF Join
  <2>2. shell = "dead"
    BY <2>1 DEF NothingFromLaterCalls
  <2>3. Abstract!Closed
    BY <2>1, <2>2 DEF Abstract!Closed, PhaseOf, CodesOf, OutcomeOf, InCall
  <2>4. QED
    BY <2>3 DEF Abstract!Next
<1>9. QED
  BY <1>1, <1>2, <1>3, <1>4, <1>5, <1>6, <1>7, <1>8 DEF HostStep

\* A call by the user begins one of the plugin; releasing the plugin closes
\* it, and assigning over it ends the program.
LEMMA UserStepRefines ==
  ASSUME TypeOK, TypeOK', Handshake, Service, NothingFromLaterCalls, UserStep
  PROVE  [Abstract!Next]_(Abstract!vars)
<1> USE DEF hostVars, ioVars, shellVars, outVars, Running
<1>1. ASSUME NEW o \in Ops, Call(o) PROVE Abstract!Begin
  <2>1. /\ pc = "idle" /\ pc' = "check" /\ call' = call + 1
        /\ UNCHANGED <<reply, shell, Stream>>
    BY <1>1 DEF Call, Stream
  <2>2. \A i \in DOMAIN Stream : \A code : Stream[i] # Mark(call', code)
    <3>1. \A i \in DOMAIN Stream : Stream[i].call # call + 1
      <4>1. Stream \in Seq(Chunks)
        BY DEF TypeOK, Stream
      <4>2. \A i \in DOMAIN Stream : Stream[i] \in Chunks
        BY <4>1
      <4>3. \A i \in DOMAIN Stream : Stream[i].call \in Nat /\ Stream[i].call <= call
        BY <4>2 DEF Chunks, NothingFromLaterCalls
      <4>4. \A n \in Nat : n <= call => n # call + 1
        BY DEF TypeOK
      <4>5. QED
        BY <4>3, <4>4
    <3>2. QED
      BY <2>1, <3>1, ChunkKinds
  <2>3. \A code \in {0, 1} : ~Reported(code)'
    BY <2>1, <2>2, ReportedInStreamAfter
  <2>4. CodesOf' = {} /\ CodesOf = {}
    BY <2>1, <2>3 DEF CodesOf, InCall
  <2>5. QED
    BY <2>1, <2>4 DEF Abstract!Begin, PhaseOf, OutcomeOf, InCall
<1>2. CASE MoveAssignOver
  <2>1. UNCHANGED <<call, reply, shell>> /\ pc = "idle" /\ pc' = "terminated"
    BY <1>2 DEF MoveAssignOver
  <2>2. Abstract!Abort
    BY <2>1 DEF Abstract!Abort, PhaseOf, OutcomeOf, CodesOf, InCall
  <2>3. QED
    BY <2>2 DEF Abstract!Next
<1>3. CASE Release
  <2>1. UNCHANGED <<call, reply, shell>> /\ pc = "idle" /\ pc' = "destroy" /\ call > 0
    BY <1>3 DEF Release
  <2>2. Abstract!Close
    BY <2>1 DEF Abstract!Close, PhaseOf, OutcomeOf, CodesOf, InCall
  <2>3. QED
    BY <2>2 DEF Abstract!Next
<1>4. QED
  BY <1>1, <1>2, <1>3 DEF UserStep, Abstract!Next

\* The end of a line of the current call executes it; the death of the shell
\* is the death of the process; a line of an earlier call, which can only end
\* once the host has given up on it, is not seen.
LEMMA ShellStepRefines ==
  ASSUME TypeOK, TypeOK', Handshake, AwayIsSilent, Service, NothingFromLaterCalls,
         ShellStep
  PROVE  [Abstract!Next]_(Abstract!vars)
<1> USE DEF hostVars, ioVars, shellVars, outVars, Running
<1>1. CASE TakeLine
  <2>1. UNCHANGED <<call, reply, pc, Stream>> /\ shell # "dead" /\ shell' # "dead"
    BY <1>1 DEF TakeLine, Stream
  <2>2. UNCHANGED CodesOf
    BY <2>1, StreamKeepsCodes
  <2>3. QED
    BY <2>1, <2>2, Unseen DEF PhaseOf, OutcomeOf
<1>2. CASE WriteStdout
  <2> DEFINE x == Out(line.call, written + 1)
  <2>1. UNCHANGED <<call, reply, pc, shell, result>> /\ stdout' = Append(stdout, x)
    BY <1>2 DEF WriteStdout
  <2>2. x \in Chunks /\ x.kind # "mark"
    BY DEF Out, Chunks, Lines, TypeOK
  <2> HIDE DEF x
  <2>3. Stream' = Append(Stream, x)
    BY <2>1, <2>2, AppendToStream DEF TypeOK
  <2>4. UNCHANGED CodesOf
    BY <2>1, <2>2, <2>3, OutputKeepsCodes
  <2>5. QED
    BY <2>1, <2>4, Unseen DEF PhaseOf, OutcomeOf
<1>3. CASE WriteStderr
  <2>1. UNCHANGED <<call, reply, pc, Stream>> /\ shell # "dead" /\ shell' # "dead"
    BY <1>3 DEF WriteStderr, Stream
  <2>2. UNCHANGED CodesOf
    BY <2>1, StreamKeepsCodes
  <2>3. QED
    BY <2>1, <2>2, Unseen DEF PhaseOf, OutcomeOf
<1>4. ASSUME NEW code \in {0, 1}, EchoMark(code), target = "pipe"
      PROVE  [Abstract!Next]_(Abstract!vars)
  <2>1. /\ UNCHANGED <<call, reply, pc, result, line>>
        /\ shell = "executing" /\ shell' = "reading"
        /\ stdout' = Append(stdout, Mark(line.call, code))
    BY <1>4 DEF EchoMark
  <2>2. CASE pc \notin InCall
    <3>1. UNCHANGED CodesOf
      BY <2>1, <2>2 DEF CodesOf
    <3>2. QED
      BY <2>1, <3>1, Unseen DEF PhaseOf, OutcomeOf
  <2>3. CASE pc \in InCall
    <3>1. line.call = call
      <4>1. pc \in {"start", "wait", "finish"}
        BY <1>4, <2>1, <2>3 DEF Service, InStepBetweenCalls, InCall
      <4>2. QED
        BY <1>4, <2>1, <4>1 DEF Service, OneLineInFlight
    <3>2. CodesOf = {}
      BY <1>4, <2>1, <2>3, CodesOfServed
    <3>3. Mark(line.call, code) \in Chunks /\ Stream \in Seq(Chunks)
      BY DEF Mark, Chunks, Lines, TypeOK, Stream
    <3>4. Stream' = Append(Stream, Mark(line.call, code))
      BY <2>1, <3>3, AppendToStream DEF TypeOK
    <3>5. \A c \in {0, 1} : Reported(c)' <=> c = code
      <4> TAKE c \in {0, 1}
      <4>1. ~Reported(c)
        BY <2>3, <3>2 DEF CodesOf
      <4>2. \A i \in DOMAIN Stream : Stream[i] # Mark(call, c)
        BY <4>1, ReportedInStream
      <4>3. (\E i \in DOMAIN Stream' : Stream'[i] = Mark(call, c))
              <=> Mark(call, code) = Mark(call, c)
        BY <3>1, <3>3, <3>4, <4>2, AppendKeeps
      <4>4. Mark(call, code) = Mark(call, c) <=> c = code
        BY ChunkKinds
      <4>5. QED
        BY <2>1, <4>3, <4>4, ReportedInStreamAfter
    <3>6. CodesOf' = {code}
      BY <2>1, <2>3, <3>5 DEF CodesOf
    <3>7. PhaseOf = "busy" /\ UNCHANGED PhaseOf
      BY <2>1, <2>3 DEF PhaseOf, InCall
    <3>8. Abstract!Execute
      BY <2>1, <3>2, <3>6, <3>7 DEF Abstract!Execute, OutcomeOf
    <3>9. QED
      BY <3>8 DEF Abstract!Next
  <2>4. QED
    BY <2>2, <2>3
<1>5. CASE Die
  <2>1. UNCHANGED <<call, reply, pc, Stream>> /\ shell # "dead" /\ shell' = "dead"
    BY <1>5 DEF Die, Stream
  <2>2. UNCHANGED CodesOf
    BY <2>1, StreamKeepsCodes
  <2>3. Abstract!Die
    BY <2>1, <2>2 DEF Abstract!Die, PhaseOf, OutcomeOf
  <2>4. QED
    BY <2>3 DEF Abstract!Next
<1>6. CASE \/ Redirect
           \/ \E code \in {0, 1} : EchoMark(code) /\ target # "pipe"
  <2>1. UNCHANGED <<call, reply, pc, Stream>> /\ shell # "dead" /\ shell' # "dead"
    BY <1>6 DEF Redirect, EchoMark, Stream
  <2>2. UNCHANGED CodesOf
    BY <2>1, StreamKeepsCodes
  <2>3. QED
    BY <2>1, <2>2, Unseen DEF PhaseOf, OutcomeOf
<1>7. QED
  BY <1>1, <1>2, <1>3, <1>4, <1>5, <1>6 DEF ShellStep

\* What the io thread and background children do is never seen: it changes
\* neither the phase nor the outcome, and it brings no exit code.
LEMMA UnseenSteps ==
  ASSUME TypeOK, TypeOK', Handshake, IoStep \/ ChildStep
  PROVE  UNCHANGED Abstract!vars
<1> USE DEF hostVars, ioVars, shellVars, outVars, Running
<1>1. UNCHANGED <<call, reply, pc, shell>>
  BY DEF IoStep, ReadReady, ReadHandler, ExitReady, ExitHandler, LeaveRun,
         ChildStep, SpawnChild, ChildWrites, ChildExits
<1>2. UNCHANGED CodesOf
  <2>1. CASE IoStep
    <3>1. UNCHANGED Stream
      BY <2>1, ReadsKeepStream
    <3>2. QED
      BY <1>1, <3>1, StreamKeepsCodes
  <2>2. CASE SpawnChild \/ ChildExits
    <3>1. UNCHANGED Stream
      BY <2>2 DEF SpawnChild, ChildExits, Stream
    <3>2. QED
      BY <1>1, <3>1, StreamKeepsCodes
  <2>3. CASE ChildWrites
    <3>1. Noise \in Chunks /\ Noise.kind # "mark"
      BY DEF Noise, Chunks
    <3>2. Stream' = Append(Stream, Noise)
      BY <2>3, <3>1, AppendToStream DEF ChildWrites, TypeOK
    <3>3. QED
      BY <1>1, <3>1, <3>2, OutputKeepsCodes
  <2>4. QED
    BY <2>1, <2>2, <2>3 DEF ChildStep
<1>3. QED
  BY <1>1, <1>2, Unseen DEF PhaseOf, OutcomeOf

\* ShellSession implements PluginCall: to its user the session, with its two
\* threads, pipes, handlers and the processes behind them, is a plugin that
\* answers a call only while its process lives and only with the end of the
\* line of that very call, executed once with exit code 0
\* (ImplementsPluginCall).
THEOREM SessionImplementsPlugin == Spec => ImplementsPluginCall
<1>1. Init => Abstract!Init
  BY DEF Init, Abstract!Init, PhaseOf, CodesOf, OutcomeOf, InCall, Running
<1>2. /\ Inductive /\ Inductive' /\ NothingFromLaterCalls /\ [Next]_vars
      => [Abstract!Next]_(Abstract!vars)
  <2> SUFFICES ASSUME Inductive, Inductive', NothingFromLaterCalls, [Next]_vars
               PROVE  [Abstract!Next]_(Abstract!vars)
    OBVIOUS
  <2>1. TypeOK /\ TypeOK' /\ Handshake /\ AwayIsSilent /\ Service
    BY DEF Inductive
  <2>2. CASE UNCHANGED vars
    <3>1. UNCHANGED <<pc, call, reply, shell, result, stdout>>
      BY <2>2 DEF vars, hostVars, shellVars
    <3>2. UNCHANGED CodesOf
      BY <3>1 DEF CodesOf, Reported
    <3>3. QED
      BY <3>1, <3>2, Unseen DEF PhaseOf, OutcomeOf, Running
  <2>3. CASE HostStep
    BY <2>1, <2>3, HostStepRefines
  <2>4. CASE UserStep
    BY <2>1, <2>4, UserStepRefines
  <2>5. CASE ShellStep
    BY <2>1, <2>5, ShellStepRefines
  <2>6. CASE IoStep \/ ChildStep
    BY <2>1, <2>6, UnseenSteps
  <2>7. QED
    BY <2>2, <2>3, <2>4, <2>5, <2>6 DEF Next
<1>3. QED
  BY <1>1, <1>2, InductiveInvariant, NoPartyIsAhead, PTL
  DEF Spec, ImplementsPluginCall, Abstract!Spec
=============================================================================
