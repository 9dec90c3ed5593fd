-------------------------- MODULE EventLoop_proofs --------------------------
(***************************************************************************)
(* Proofs about EventLoop, for any number of loops, descriptors, events,   *)
(* bytes and signals.                                                      *)
(***************************************************************************)
EXTENDS EventLoop, FiniteSetTheorems, TLAPS

\* The streams and the calls have the values the kernel and the library give
\* them; a byte is added and taken within the capacity of its stream.
LEMMA InitType == Init => TypeOK
BY EventLoopAssumption, FdTableAssumption
   DEF Init, TableInit, TypeOK, TableTypeOK, Fds, Files, NoFile, Invalid, Numbers,
       Threads, Streams, NoStream, Frames, Idle, NoEvent, Forever, Errnos, Events

\* The kernel's calls keep the table well typed.
LEMMA SysOpenType ==
  ASSUME NEW n \in Fds, TableTypeOK, SysOpen(n)
  PROVE  TableTypeOK'
<1> USE FdTableAssumption DEF TableTypeOK, SysOpen, Fds
<1>1. opened' \in 0 .. MaxOpens
  OBVIOUS
<1>2. \A m \in Fds : table'[m] \in 0 .. opened'
  OBVIOUS
<1> QED
  BY <1>1, <1>2

\* Closing a number keeps the type of the table.
LEMMA SysCloseType ==
  ASSUME NEW n \in Fds, TableTypeOK, SysClose(n)
  PROVE  TableTypeOK'
BY FdTableAssumption DEF TableTypeOK, SysClose, Fds, NoFile

\* An open number has a file; the next one to be opened is a file.
LEMMA OpenIsFile ==
  ASSUME TableTypeOK
  PROVE  /\ \A n \in Fds : table[n] # NoFile => table[n] \in Files
         /\ opened < MaxOpens => opened + 1 \in Files
BY FdTableAssumption DEF TableTypeOK, Files, NoFile

\* What the kernel's calls make of a stream.
LEMMA StreamValues ==
  /\ NoStream \in Streams
  /\ \A s \in Streams :
       /\ [NoStream EXCEPT !.peer = s.peer] \in Streams
       /\ [s EXCEPT !.peer = "open"] \in Streams
       /\ \A how \in {"closed", "reset"} : Hangup(s, how) \in Streams
       /\ \A k \in Nat :
            /\ k <= s.buffered => Give(s, k) \in Streams
            /\ s.buffered + k <= Capacity => Accept(s, k) \in Streams
<1>1. NoStream \in Streams
  BY EventLoopAssumption DEF NoStream, Streams
<1>2. ASSUME NEW s \in Streams, NEW p \in {"none", "open", "closed", "reset"},
             NEW b \in 0 .. Capacity, NEW n \in Nat
      PROVE  /\ [s EXCEPT !.peer = p] \in Streams
             /\ [s EXCEPT !.peer = p, !.buffered = b] \in Streams
             /\ [s EXCEPT !.buffered = b, !.got = n] \in Streams
             /\ [s EXCEPT !.buffered = b, !.sent = n] \in Streams
  BY DEF Streams
<1>3. ASSUME NEW s \in Streams
      PROVE  /\ s.peer \in {"none", "open", "closed", "reset"}
             /\ s.buffered \in 0 .. Capacity /\ s.got \in Nat /\ s.sent \in Nat
  BY DEF Streams
<1>4. 0 \in 0 .. Capacity
  BY EventLoopAssumption
<1>5. ASSUME NEW s \in Streams, NEW k \in Nat, k <= s.buffered
      PROVE  s.buffered - k \in 0 .. Capacity /\ s.got + k \in Nat
  BY <1>3, <1>5, EventLoopAssumption
<1>6. ASSUME NEW s \in Streams, NEW k \in Nat, s.buffered + k <= Capacity
      PROVE  s.buffered + k \in 0 .. Capacity /\ s.sent + k \in Nat
  BY <1>3, <1>6, EventLoopAssumption
<1>7. ASSUME NEW s \in Streams, NEW how \in {"closed", "reset"}
      PROVE  Hangup(s, how) \in Streams
  <2>1. (IF how = "reset" THEN 0 ELSE s.buffered) \in 0 .. Capacity
    BY <1>3, <1>4
  <2> QED
    BY <1>2, <2>1 DEF Hangup
<1> QED
  BY <1>1, <1>2, <1>3, <1>5, <1>6, <1>7 DEF Give, Accept

\* A signal is counted.
LEMMA SignalCounts ==
  ASSUME signals \in 0 .. MaxSignals, MaySignal, signals' = signals + 1
  PROVE  signals' \in 0 .. MaxSignals
BY EventLoopAssumption DEF MaySignal

\* The timeouts wait() is called with.
LEMMA WaitTimes == WaitTime \in {Forever} \cup (0 .. Timeout)
BY EventLoopAssumption DEF WaitTime, Forever

\* The records the steps put into frame.
LEMMA FrameValues ==
  ASSUME TypeOK
  PROVE  /\ Idle \in Frames
         /\ \A t \in Loops : Handling(t) \in Frames
         /\ [Idle EXCEPT !.op = "wait", !.left = WaitTime] \in Frames
         /\ \A e \in Events : [Idle EXCEPT !.op = "read", !.ev = e] \in Frames
         /\ \A c \in Frames :
              /\ [c EXCEPT !.left = WaitTime, !.interrupts = c.interrupts + 1]
                   \in Frames
              /\ c.left # Forever /\ c.left > 0 =>
                   [c EXCEPT !.left = @ - 1, !.elapsed = @ + 1] \in Frames
         /\ \A f \in Files, len \in 0 .. MaxBytes :
              [Idle EXCEPT !.op = "write", !.len = len,
                           !.ev = [NoEvent EXCEPT !.file = f]] \in Frames
<1> USE EventLoopAssumption, FdTableAssumption
    DEF Frames, Forever, Numbers, Files, Fds
<1>1. Idle \in Frames
  BY DEF Idle, NoEvent, Invalid, NoFile
<1>2. \A t \in Loops : Handling(t) \in Frames
  BY <1>1 DEF TypeOK, Handling, Threads
<1>3. [Idle EXCEPT !.op = "wait", !.left = WaitTime] \in Frames
  BY <1>1, WaitTimes
<1>4. \A e \in Events : [Idle EXCEPT !.op = "read", !.ev = e] \in Frames
  <2>1. \A e \in Events : e \in [fd : Numbers, file : 0 .. MaxOpens]
    BY DEF Events
  <2> QED
    BY <1>1, <2>1
<1>5. \A f \in Files : [NoEvent EXCEPT !.file = f] \in [fd : Numbers, file : 0 .. MaxOpens]
  <2>1. NoEvent \in [fd : Numbers, file : 0 .. MaxOpens]
    BY DEF NoEvent, Invalid, NoFile
  <2> QED
    BY <2>1
<1>6. \A f \in Files, len \in 0 .. MaxBytes :
        [Idle EXCEPT !.op = "write", !.len = len,
                     !.ev = [NoEvent EXCEPT !.file = f]] \in Frames
  BY <1>1, <1>5
<1>7. ASSUME NEW c \in Frames
      PROVE  [c EXCEPT !.left = WaitTime, !.interrupts = c.interrupts + 1] \in Frames
  <2>1. c.interrupts + 1 \in Nat
    OBVIOUS
  <2> QED
    BY <2>1, WaitTimes
<1>8. ASSUME NEW c \in Frames, c.left # Forever, c.left > 0
      PROVE  [c EXCEPT !.left = @ - 1, !.elapsed = @ + 1] \in Frames
  <2>1. c.left - 1 \in {Forever} \cup (0 .. Timeout) /\ c.elapsed + 1 \in Nat
    BY <1>8
  <2> QED
    BY <2>1
<1> QED
  BY <1>1, <1>2, <1>3, <1>4, <1>6, <1>7, <1>8, ZenonT(40)

\* No step breaks the types, the bounds of the counters and of a stream among
\* them.
LEMMA StepType == TypeOK /\ [Next]_vars => TypeOK'
<1> SUFFICES ASSUME TypeOK, [Next]_vars PROVE TypeOK'
  OBVIOUS
<1> USE DEF TypeOK, Threads, kernel
<1>1. ASSUME NEW t \in Loops, LoopCalls(t) PROVE TypeOK'
  <2>1. CASE Create(t)
    <3>1. PICK n \in Fds : SysOpen(n) /\ ep' = n
      BY <2>1 DEF Create
    <3>2. TableTypeOK' /\ ep' \in Numbers
      BY <3>1, SysOpenType DEF Numbers
    <3> QED
      BY <2>1, <3>2 DEF Create
  <2>2. CASE Mod(t) \/ Finish(t)
    BY <2>2, FrameValues DEF Mod, Finish, TableTypeOK, Files
  <2>3. ASSUME NEW n \in Fds, Add(t, n) \/ Del(t, n) PROVE TypeOK'
    BY <2>3, FrameValues DEF Add, Del, Drop, IsStream, Registered, TableTypeOK
  <2>4. ASSUME NEW n \in Fds, Close(t, n) PROVE TypeOK'
    <3>1. TableTypeOK'
      BY <2>4, SysCloseType DEF Close
    <3>2. table[n] \in Files
      BY <2>4, OpenIsFile DEF Close, IsStream
    <3>3. [NoStream EXCEPT !.peer = stream[table[n]].peer] \in Streams
      BY <3>2, StreamValues
    <3>4. interest' \in [Files -> {"none", "armed", "disarmed"}] /\ frame' \in [Threads -> Frames]
      BY <2>4, FrameValues DEF Close, Drop
    <3> QED
      BY <2>4, <3>1, <3>2, <3>3, <3>4 DEF Close
  <2>5. CASE Wait(t)
    BY <2>5, FrameValues DEF Wait, TableTypeOK
  <2>6. ASSUME NEW e \in batch[t], StartRead(t, e) PROVE TypeOK'
    BY <2>6, FrameValues DEF StartRead, TableTypeOK
  <2> QED
    BY <1>1, <2>1, <2>2, <2>3, <2>4, <2>5, <2>6 DEF LoopCalls
<1>2. CASE WriterCalls
  <2>1. ASSUME NEW f \in Files, NEW len \in 0 .. MaxBytes, StartWrite(f, len)
        PROVE TypeOK'
    BY <2>1, FrameValues DEF StartWrite, TableTypeOK
  <2>2. ASSUME NEW f \in Files, NEW how \in {"closed", "reset"}, ClosePeer(f, how)
        PROVE TypeOK'
    <3>1. stream' \in [Files -> Streams]
      <4>1. stream[f] \in Streams
        OBVIOUS
      <4> QED
        BY <2>2, <4>1, StreamValues DEF ClosePeer
    <3> QED
      BY <2>2, <3>1 DEF ClosePeer, TableTypeOK
  <2> QED
    BY <1>2, <2>1, <2>2 DEF WriterCalls
<1>3. ASSUME NEW t \in Loops, WaitEnds(t) \/ WaitInterrupted(t) PROVE TypeOK'
  <2>1. CASE WaitReturns(t)
    BY <2>1, FrameValues DEF WaitReturns, Pending, TableTypeOK
  <2>2. CASE WaitTimesOut(t)
    BY <2>2, FrameValues DEF WaitTimesOut, TableTypeOK
  <2>3. CASE WaitInterrupted(t)
    BY <2>3, SignalCounts, FrameValues DEF WaitInterrupted, TableTypeOK, Errnos
  <2> QED
    BY <1>3, <2>1, <2>2, <2>3 DEF WaitEnds
<1>4. ASSUME NEW t \in Loops, ReadEnds(t) PROVE TypeOK'
  <2>1. CASE ReadTakes(t)
    <3>1. PICK k \in 1 .. stream[Source(t)].buffered :
            stream' = [stream EXCEPT ![Source(t)] = Give(@, k)]
      BY <2>1 DEF ReadTakes
    <3>2. stream' \in [Files -> Streams]
      <4>1. ASSUME Source(t) \in Files
            PROVE  Give(stream[Source(t)], k) \in Streams
        <5>1. stream[Source(t)] \in Streams
          BY <4>1
        <5>2. stream[Source(t)].buffered \in 0 .. Capacity
          BY <5>1 DEF Streams
        <5>3. k \in Nat /\ k <= stream[Source(t)].buffered
          BY <5>2, EventLoopAssumption
        <5> QED
          BY <5>1, <5>3, StreamValues
      <4> QED
        BY <3>1, <4>1
    <3> QED
      BY <2>1, <3>2, FrameValues DEF ReadTakes, TableTypeOK
  <2>2. CASE ReadEof(t)
    BY <2>2, FrameValues DEF ReadEof, TableTypeOK
  <2> QED
    BY <1>4, <2>1, <2>2 DEF ReadEnds
<1>5. ASSUME NEW t \in Loops, NEW e \in {"EAGAIN", "EINTR"}, ReadAgain(t, e)
      PROVE TypeOK'
  BY <1>5, SignalCounts, FrameValues DEF ReadAgain, TableTypeOK, Errnos
<1>6. ASSUME NEW t \in Loops, NEW e \in {"EBADF", "ECONNRESET"}, ReadFails(t, e)
      PROVE TypeOK'
  BY <1>6, FrameValues DEF ReadFails, TableTypeOK
<1>7. CASE WriteTakes
  <2>1. PICK k \in 1 .. frame[Writer].len :
          /\ stream[Target].buffered + k <= Capacity
          /\ stream' = [stream EXCEPT ![Target] = Accept(@, k)]
    BY <1>7 DEF WriteTakes
  <2>2. stream' \in [Files -> Streams]
    <3>1. ASSUME Target \in Files PROVE Accept(stream[Target], k) \in Streams
      <4>1. stream[Target] \in Streams
        BY <3>1
      <4>2. frame[Writer].len \in 0 .. MaxBytes
        BY DEF Frames
      <4>3. k \in Nat
        BY <4>2, EventLoopAssumption
      <4> QED
        BY <2>1, <4>1, <4>3, StreamValues
    <3> QED
      BY <2>1, <3>1
  <2> QED
    BY <1>7, <2>2, FrameValues DEF WriteTakes, TableTypeOK
<1>8. CASE WritePipe \/ WriteZero
  BY <1>8, FrameValues DEF WritePipe, WriteZero, TableTypeOK, Errnos
<1>9. ASSUME NEW e \in {"EAGAIN", "EINTR"}, WriteAgain(e) PROVE TypeOK'
  BY <1>9, SignalCounts, FrameValues DEF WriteAgain, TableTypeOK, Errnos
<1>10. CASE Tick
  BY <1>10, FrameValues DEF Tick, Timed, TableTypeOK
<1>11. CASE Connect
  <2>1. TableTypeOK' /\ opened + 1 \in Files
    <3>1. PICK n \in Fds : SysOpen(n)
      BY <1>11 DEF Connect
    <3> QED
      BY <3>1, SysOpenType, OpenIsFile DEF SysOpen
  <2>2. stream' \in [Files -> Streams]
    BY <1>11, <2>1, StreamValues DEF Connect
  <2> QED
    BY <1>11, <2>1, <2>2 DEF Connect
<1>12. CASE CloseEpoll
  <2>1. ep \in Fds /\ TableTypeOK'
    BY <1>12, SysCloseType DEF CloseEpoll, Numbers
  <2> QED
    BY <1>12, <2>1 DEF CloseEpoll, Numbers
<1>13. CASE UNCHANGED vars
  BY <1>13 DEF vars, TableTypeOK
<1> QED
  BY <1>1, <1>2, <1>3, <1>4, <1>5, <1>6, <1>7, <1>8, <1>9, <1>10, <1>11, <1>12,
     <1>13 DEF Next, Returns, WriteEnds
-----------------------------------------------------------------------------
\* Every byte of a stream that was not reset was read or is still buffered,
\* whether its read end is open or not; only programs with "reset" have reset
\* streams, and a stream has a peer once it was opened.
Accounts ==
  \A f \in Files :
    /\ stream[f].peer # "reset" =>
         stream[f].sent = stream[f].got + stream[f].buffered
    /\ stream[f].peer = "reset" => Style("reset")
    /\ f > opened => stream[f].peer = "none"

\* The steps that change a stream or open a file.
Flows ==
  \/ Connect
  \/ \E t \in Loops : \/ Create(t) \/ ReadTakes(t)
                      \/ \E n \in Fds : Close(t, n)
  \/ \E f \in Files, how \in {"closed", "reset"} : ClosePeer(f, how)
  \/ WriteTakes

\* All other steps leave the streams alone.
LEMMA StepFlows ==
  ASSUME [Next]_vars
  PROVE  Flows \/ UNCHANGED <<stream, opened, program>>
<1> USE DEF kernel
<1>1. ASSUME NEW t \in Loops, LoopCalls(t)
      PROVE  Flows \/ UNCHANGED <<stream, opened, program>>
  BY <1>1 DEF Flows, LoopCalls, Mod, Finish, Add, Del, Wait, StartRead
<1>2. CASE WriterCalls
  BY <1>2 DEF Flows, WriterCalls, StartWrite
<1>3. CASE Returns
  BY <1>3 DEF Flows, Returns, WaitEnds, WaitReturns, WaitTimesOut, WaitInterrupted,
     ReadEnds, ReadEof, ReadAgain, ReadFails, WriteEnds, WritePipe, WriteZero,
     WriteAgain
<1>4. CASE Tick \/ Connect \/ CloseEpoll
  BY <1>4 DEF Flows, Tick, CloseEpoll, SysClose
<1>5. CASE UNCHANGED vars
  BY <1>5 DEF vars
<1> QED
  BY <1>1, <1>2, <1>3, <1>4, <1>5 DEF Next

\* No step changes the kind of program.
LEMMA StepProgram == Next => program' = program
BY DEF Next, LoopCalls, WriterCalls, Returns, Create, Mod, Finish, Add, Del, Close,
   Wait, StartRead, StartWrite, ClosePeer, WaitEnds, WaitReturns, WaitTimesOut,
   WaitInterrupted, ReadEnds, ReadTakes, ReadEof, ReadAgain, ReadFails, WriteEnds,
   WriteTakes, WritePipe, WriteZero, WriteAgain, Tick, Connect, CloseEpoll

\* The fields of a stream after the kernel's calls.
LEMMA StreamFields ==
  ASSUME NEW s \in Streams, NEW k \in Nat, NEW how \in {"closed", "reset"}
  PROVE  /\ Accept(s, k).peer = s.peer /\ Accept(s, k).got = s.got
         /\ Accept(s, k).sent = s.sent + k
         /\ Accept(s, k).buffered = s.buffered + k
         /\ Give(s, k).peer = s.peer /\ Give(s, k).sent = s.sent
         /\ Give(s, k).got = s.got + k
         /\ Give(s, k).buffered = s.buffered - k
         /\ Hangup(s, how).peer = how
         /\ Hangup(s, how).sent = s.sent /\ Hangup(s, how).got = s.got
         /\ how = "closed" => Hangup(s, how).buffered = s.buffered
         /\ s.sent \in Nat /\ s.got \in Nat /\ s.buffered \in Nat
BY EventLoopAssumption DEF Streams, Accept, Give, Hangup

\* Every step keeps the accounts: a byte that enters a stream was told to the
\* writer, one that leaves it was told to a loop.
LEMMA StepAccounts == TypeOK /\ Accounts /\ [Next]_vars => Accounts'
<1> SUFFICES ASSUME TypeOK, Accounts, [Next]_vars PROVE Accounts'
  OBVIOUS
<1>1. /\ stream \in [Files -> Streams] /\ opened \in 0 .. MaxOpens
      /\ TableTypeOK
  BY DEF TypeOK, TableTypeOK
<1>2. ASSUME NEW t \in Loops, Create(t) PROVE Accounts'
  BY <1>1, <1>2, FdTableAssumption DEF Create, SysOpen, Accounts, Style, Files
<1>3. CASE Connect
  <2>1. /\ opened' = opened + 1 /\ program' = program
        /\ stream' = [stream EXCEPT ![opened + 1] = [@ EXCEPT !.peer = "open"]]
    BY <1>3 DEF Connect, SysOpen
  <2>2. \A s \in Streams :
          /\ [s EXCEPT !.peer = "open"].peer = "open"
          /\ [s EXCEPT !.peer = "open"].sent = s.sent
          /\ [s EXCEPT !.peer = "open"].got = s.got
          /\ [s EXCEPT !.peer = "open"].buffered = s.buffered
    BY DEF Streams
  <2> QED
    BY <1>1, <2>1, <2>2, FdTableAssumption DEF Accounts, Files, Style
<1>4. ASSUME NEW t \in Loops, ReadTakes(t) PROVE Accounts'
  <2>1. PICK k \in 1 .. stream[Source(t)].buffered :
          stream' = [stream EXCEPT ![Source(t)] = Give(@, k)]
    BY <1>4 DEF ReadTakes
  <2>2. UNCHANGED <<opened, program>>
    BY <1>4 DEF ReadTakes
  <2>3. ASSUME NEW f \in Files
        PROVE  /\ stream'[f].peer = stream[f].peer
               /\ stream[f].sent = stream[f].got + stream[f].buffered =>
                    stream'[f].sent = stream'[f].got + stream'[f].buffered
    <3>1. CASE f # Source(t)
      BY <1>1, <2>1, <3>1
    <3>2. CASE f = Source(t)
      <4>1. k \in Nat
        BY <1>1, <3>2, StreamFields
      <4>2. stream'[f] = Give(stream[f], k) /\ stream[f] \in Streams
        BY <1>1, <2>1, <3>2
      <4> QED
        BY <4>1, <4>2, StreamFields
    <3> QED
      BY <3>1, <3>2
  <2> QED
    BY <1>1, <2>2, <2>3 DEF Accounts, Style
<1>5. ASSUME NEW t \in Loops, NEW n \in Fds, Close(t, n) PROVE Accounts'
  <2>1. \A s \in Streams :
          /\ [NoStream EXCEPT !.peer = s.peer].peer = s.peer
          /\ [NoStream EXCEPT !.peer = s.peer].sent = 0
          /\ [NoStream EXCEPT !.peer = s.peer].got = 0
          /\ [NoStream EXCEPT !.peer = s.peer].buffered = 0
    BY DEF NoStream
  <2>2. /\ UNCHANGED <<opened, program>>
        /\ stream' = [stream EXCEPT ![table[n]] =
             [NoStream EXCEPT !.peer = stream[table[n]].peer]]
    BY <1>5 DEF Close, SysClose
  <2> QED
    BY <1>1, <2>1, <2>2 DEF Accounts, Style
<1>6. ASSUME NEW g \in Files, NEW how \in {"closed", "reset"}, ClosePeer(g, how)
      PROVE  Accounts'
  <2>1. /\ UNCHANGED <<opened, program>> /\ stream[g].peer = "open"
        /\ how = "reset" => Style("reset")
        /\ stream' = [stream EXCEPT ![g] = Hangup(@, how)]
    BY <1>6 DEF ClosePeer
  <2> QED
    BY <1>1, <2>1, StreamFields DEF Accounts, Style
<1>7. CASE WriteTakes
  <2>1. PICK k \in 1 .. frame[Writer].len :
          stream' = [stream EXCEPT ![Target] = Accept(@, k)]
    BY <1>7 DEF WriteTakes
  <2>2. UNCHANGED <<opened, program>>
    BY <1>7 DEF WriteTakes
  <2>3. k \in Nat
    BY DEF TypeOK, Frames, Threads
  <2>4. ASSUME NEW f \in Files
        PROVE  /\ stream'[f].peer = stream[f].peer
               /\ stream[f].sent = stream[f].got + stream[f].buffered =>
                    stream'[f].sent = stream'[f].got + stream'[f].buffered
    BY <1>1, <2>1, <2>3, StreamFields
  <2> QED
    BY <1>1, <2>2, <2>4 DEF Accounts, Style
<1>8. CASE UNCHANGED <<stream, opened, program>>
  BY <1>8 DEF Accounts, Style
<1> QED
  BY <1>2, <1>3, <1>4, <1>5, <1>6, <1>7, <1>8, StepFlows DEF Flows

\* No byte is lost or repeated, whatever calls are interrupted, take a part of
\* the bytes or fail: read() and write() return what moved, and try again only
\* when nothing did.
THEOREM BytesConserved == Spec => []Conserved
<1>1. Init => TypeOK /\ Accounts
  <2>1. Init => Accounts
    BY DEF Init, Accounts, NoStream
  <2> QED
    BY <2>1, InitType
<1>2. TypeOK /\ Accounts /\ [Next]_vars => TypeOK' /\ Accounts'
  BY StepType, StepAccounts
<1>3. TypeOK /\ Accounts => Conserved
  BY DEF Conserved, BytesOnce, Accounts
<1> QED
  BY <1>1, <1>2, <1>3, PTL DEF Spec
-----------------------------------------------------------------------------
\* What a thread may be doing.
Roles ==
  /\ frame[Writer].op \in {"idle", "write"}
  /\ frame[Writer].op = "write" /\ frame[Writer].len = 0 => Style("zero")
  /\ \A t \in Loops :
       /\ frame[t].op \in {"idle", "wait", "read", "handle"}
       /\ frame[t].op \in {"read", "handle"} => frame[t].ev \in Events

\* How long a wait has lasted and may still last.
Punctual ==
  \A t \in Loops : frame[t].op = "wait" =>
    IF Style("timed")
    THEN /\ frame[t].left \in 0 .. Timeout
         /\ frame[t].elapsed + frame[t].left <= Timeout * (1 + frame[t].interrupts)
    ELSE frame[t].left = Forever

\* The fields of the frames the actions build.
LEMMA FrameFields ==
  ASSUME TypeOK
  PROVE  /\ Idle.op = "idle"
         /\ \A t \in Loops : Handling(t).op = "handle" /\ Handling(t).ev = frame[t].ev
         /\ LET c == [Idle EXCEPT !.op = "wait", !.left = WaitTime]
            IN  /\ c.op = "wait" /\ c.left = WaitTime
                /\ c.elapsed = 0 /\ c.interrupts = 0
         /\ \A e : LET c == [Idle EXCEPT !.op = "read", !.ev = e]
                   IN  c.op = "read" /\ c.ev = e
         /\ \A len, e : LET c == [Idle EXCEPT !.op = "write", !.len = len, !.ev = e]
                        IN  c.op = "write" /\ c.len = len
<1>1. Idle \in Frames
  BY FrameValues
<1>2. Idle.op = "idle" /\ Idle.elapsed = 0 /\ Idle.interrupts = 0
  BY DEF Idle
<1>3. \A t \in Loops : Handling(t).op = "handle" /\ Handling(t).ev = frame[t].ev
  BY <1>1 DEF Handling, Frames
<1> QED
  BY <1>1, <1>2, <1>3 DEF Frames

\* What a step does to the call of a loop.
LEMMA StepFrame ==
  ASSUME TypeOK, Next, NEW t \in Loops
  PROVE  \/ frame'[t] = frame[t] \/ frame'[t] = Idle
         \/ \E e \in Events : frame'[t] = [Idle EXCEPT !.op = "read", !.ev = e]
         \/ frame[t].op = "read" /\ frame'[t] = Handling(t)
         \/ /\ frame[t].op = "idle"
            /\ frame'[t] = [Idle EXCEPT !.op = "wait", !.left = WaitTime]
         \/ /\ frame[t].op = "wait" /\ signals' = signals + 1
            /\ frame'[t] = [frame[t] EXCEPT !.left = WaitTime,
                                            !.interrupts = frame[t].interrupts + 1]
         \/ /\ frame[t].op = "wait" /\ frame[t].left # Forever /\ frame[t].left > 0 /\ Tick
            /\ frame'[t] = [frame[t] EXCEPT !.left = @ - 1, !.elapsed = @ + 1]
<1> DEFINE Goal ==
      \/ frame'[t] = frame[t] \/ frame'[t] = Idle
      \/ \E e \in Events : frame'[t] = [Idle EXCEPT !.op = "read", !.ev = e]
      \/ frame[t].op = "read" /\ frame'[t] = Handling(t)
      \/ /\ frame[t].op = "idle"
         /\ frame'[t] = [Idle EXCEPT !.op = "wait", !.left = WaitTime]
      \/ /\ frame[t].op = "wait" /\ signals' = signals + 1
         /\ frame'[t] = [frame[t] EXCEPT !.left = WaitTime,
                                         !.interrupts = frame[t].interrupts + 1]
      \/ /\ frame[t].op = "wait" /\ frame[t].left # Forever /\ frame[t].left > 0 /\ Tick
         /\ frame'[t] = [frame[t] EXCEPT !.left = @ - 1, !.elapsed = @ + 1]
<1>0. frame \in [Threads -> Frames] /\ Threads = Loops \cup {Writer} /\ t \in Threads
  BY DEF TypeOK, Threads
<1>1. ASSUME NEW u \in Loops, LoopCalls(u) PROVE Goal
  <2>1. CASE Create(u) \/ \E n \in Fds : Add(u, n)
    BY <2>1 DEF Create, Add
  <2>2. CASE Mod(u) \/ Finish(u)
    BY <2>2, <1>0 DEF Mod, Finish
  <2>3. ASSUME NEW n \in Fds, Del(u, n) \/ Close(u, n) PROVE Goal
    <3>1. frame' = frame \/ frame' = [frame EXCEPT ![u] = Idle]
      BY <2>3 DEF Del, Close, Drop
    <3> QED
      BY <1>0, <3>1
  <2>4. CASE Wait(u)
    BY <2>4, <1>0 DEF Wait, Calls
  <2>5. ASSUME NEW e \in batch[u], StartRead(u, e) PROVE Goal
    BY <2>5, <1>0 DEF StartRead, TypeOK
  <2> QED
    BY <1>1, <2>1, <2>2, <2>3, <2>4, <2>5 DEF LoopCalls
<1>2. CASE WriterCalls \/ Connect \/ CloseEpoll
  BY <1>2, <1>0, EventLoopAssumption DEF WriterCalls, StartWrite, ClosePeer, Connect, CloseEpoll
<1>3. ASSUME NEW u \in Loops, WaitEnds(u) \/ WaitInterrupted(u) PROVE Goal
  <2>1. CASE WaitEnds(u)
    BY <2>1, <1>0 DEF WaitEnds, WaitReturns, WaitTimesOut
  <2>2. CASE WaitInterrupted(u)
    BY <2>2, <1>0 DEF WaitInterrupted, Calls
  <2> QED
    BY <1>3, <2>1, <2>2
<1>4. ASSUME NEW u \in Loops,
             \/ ReadEnds(u) \/ \E e \in {"EAGAIN", "EINTR"} : ReadAgain(u, e)
             \/ \E e \in {"EBADF", "ECONNRESET"} : ReadFails(u, e)
      PROVE  Goal
  BY <1>4, <1>0
     DEF ReadEnds, ReadTakes, ReadEof, ReadAgain, ReadFails, Calls
<1>5. CASE WriteEnds \/ WriteZero \/ \E e \in {"EAGAIN", "EINTR"} : WriteAgain(e)
  BY <1>5, <1>0, EventLoopAssumption
     DEF WriteEnds, WriteTakes, WritePipe, WriteZero, WriteAgain
<1>6. CASE Tick
  BY <1>6, <1>0 DEF Tick, Timed
<1> QED
  BY <1>1, <1>2, <1>3, <1>4, <1>5, <1>6 DEF Next, Returns

\* Only an interrupt makes a wait longer, by at most one timeout.
LEMMA StepPunctual == TypeOK /\ Punctual /\ [Next]_vars => Punctual'
<1> SUFFICES ASSUME TypeOK, Punctual, [Next]_vars PROVE Punctual'
  OBVIOUS
<1>1. CASE UNCHANGED vars
  BY <1>1 DEF vars, Punctual, Style
<1>2. CASE Next
  <2>1. program' = program
    BY <1>2, StepProgram
  <2>2. ASSUME NEW t \in Loops, frame'[t].op = "wait"
        PROVE  IF Style("timed")
               THEN /\ frame'[t].left \in 0 .. Timeout
                    /\ frame'[t].elapsed + frame'[t].left
                         <= Timeout * (1 + frame'[t].interrupts)
               ELSE frame'[t].left = Forever
    <3>1. frame[t] \in Frames
      BY DEF TypeOK, Threads
    <3>2. /\ frame[t].elapsed \in Nat /\ frame[t].interrupts \in Nat
          /\ Timeout \in Nat
      BY <3>1, EventLoopAssumption DEF Frames
    <3>3. WaitTime = IF Style("timed") THEN Timeout ELSE Forever
      BY DEF WaitTime
    <3>4. CASE frame'[t] = frame[t]
      BY <2>2, <3>4 DEF Punctual
    <3>5. CASE frame'[t] = [Idle EXCEPT !.op = "wait", !.left = WaitTime]
      <4>1. /\ frame'[t].left = WaitTime
            /\ frame'[t].elapsed = 0 /\ frame'[t].interrupts = 0
        BY <3>5, FrameFields
      <4> QED
        BY <3>2, <3>3, <4>1
    <3>6. CASE /\ frame[t].op = "wait"
               /\ frame'[t] = [frame[t] EXCEPT !.left = WaitTime,
                                 !.interrupts = frame[t].interrupts + 1]
      <4>1. /\ frame'[t].left = WaitTime /\ frame'[t].elapsed = frame[t].elapsed
            /\ frame'[t].interrupts = frame[t].interrupts + 1
        BY <3>1, <3>6 DEF Frames
      <4>2. CASE Style("timed")
        <5>1. PICK e \in Nat, i \in Nat, l \in 0 .. Timeout :
                /\ e = frame[t].elapsed /\ i = frame[t].interrupts
                /\ e + l <= Timeout * (1 + i)
          BY <3>2, <3>6, <4>2 DEF Punctual
        <5>2. Timeout * (1 + (i + 1)) = Timeout * (1 + i) + Timeout
          BY <3>2
        <5>3. e + Timeout <= Timeout * (1 + (i + 1))
          BY <3>2, <5>1, <5>2
        <5> QED
          BY <3>2, <3>3, <4>1, <4>2, <5>1, <5>3
      <4> QED
        BY <3>3, <4>1, <4>2
    <3>7. CASE /\ frame[t].op = "wait" /\ frame[t].left # Forever
               /\ frame[t].left > 0
               /\ frame'[t] = [frame[t] EXCEPT !.left = @ - 1, !.elapsed = @ + 1]
      <4>1. /\ frame'[t].left = frame[t].left - 1
            /\ frame'[t].elapsed = frame[t].elapsed + 1
            /\ frame'[t].interrupts = frame[t].interrupts
        BY <3>1, <3>7 DEF Frames
      <4>2. Style("timed")
        BY <3>7 DEF Punctual
      <4>3. PICK e \in Nat, l \in 1 .. Timeout :
              /\ e = frame[t].elapsed /\ l = frame[t].left
              /\ e + l <= Timeout * (1 + frame[t].interrupts)
        BY <3>2, <3>7, <4>2 DEF Punctual
      <4>4. /\ l - 1 \in 0 .. Timeout
            /\ (e + 1) + (l - 1) = e + l
        BY <3>2, <4>3
      <4> QED
        BY <4>1, <4>2, <4>3, <4>4
    <3>8. frame'[t] # Idle /\ frame'[t] # Handling(t)
      BY <2>2, FrameFields
    <3>9. \A e \in Events : frame'[t] # [Idle EXCEPT !.op = "read", !.ev = e]
      BY <2>2, FrameFields
    <3> QED
      BY <1>2, <3>4, <3>5, <3>6, <3>7, <3>8, <3>9, StepFrame
  <2> QED
    BY <2>1, <2>2 DEF Punctual, Style
<1> QED
  BY <1>1, <1>2

\* A wait lasts longer than its timeout only by the signals that interrupt it,
\* and by less than a timeout each: the form that retries gives epoll_wait(2)
\* the whole timeout again.
THEOREM WaitsPunctual == Spec => []LateOnlyBySignals
<1>1. Init => TypeOK /\ Punctual
  <2>1. Init => Punctual
    BY FrameFields, InitType DEF Init, Punctual, Threads
  <2> QED
    BY <2>1, InitType
<1>2. TypeOK /\ Punctual /\ [Next]_vars => TypeOK' /\ Punctual'
  BY StepType, StepPunctual
<1>3. Punctual => LateOnlyBySignals
  BY DEF Punctual, LateOnlyBySignals, Timed
<1> QED
  BY <1>1, <1>2, <1>3, PTL DEF Spec
-----------------------------------------------------------------------------
\* A file has one number.
OneNumber ==
  \A m, n \in Fds : table[m] = table[n] /\ table[m] # NoFile => m = n

\* The events a loop has to handle, and the one it handles.
Taken(t) ==
  batch[t] \cup {e \in {frame[t].ev} : frame[t].op \in {"read", "handle"}}

\* They are about registered streams, still open under the same number.
EventsHold ==
  \A t \in Loops : \A e \in Taken(t) :
    /\ e \in Events /\ table[e.fd] = e.file
    /\ interest[e.file] # "none" /\ e.fd # ep

\* Those that were not read yet are about streams with data.
DataThere ==
  \A t \in Loops :
    /\ \A e \in batch[t] : Ready(e.file)
    /\ frame[t].op = "read" => Ready(frame[t].ev.file)

\* The event at hand is out of the batch; a wait begins with an empty batch.
InHand ==
  \A t \in Loops :
    /\ frame[t].op \in {"read", "handle"} => frame[t].ev \notin batch[t]
    /\ frame[t].op = "wait" => batch[t] = {}

\* A single loop runs, or each event is one loop's and its entry is disarmed.
OneOwner ==
  IF OneLoop
  THEN \A t \in Loops \ {First} : frame[t].op = "idle" /\ batch[t] = {}
  ELSE \A t \in Loops : \A e \in Taken(t) :
         /\ interest[e.file] = "disarmed"
         /\ \A u \in Loops \ {t} : e \notin Taken(u)

\* The epoll descriptor is no stream: its file is not in the interest list, and
\* no file is before it was opened.
Unwatched ==
  /\ ep \in Fds => table[ep] # NoFile /\ interest[table[ep]] = "none"
  /\ \A f \in Files : f > opened => interest[f] = "none"

Settled ==
  /\ OneNumber /\ Unwatched
  /\ Careful => EventsHold /\ DataThere /\ InHand /\ OneOwner

\* Loops never write, and the writer never waits or reads.
LEMMA StepRoles == TypeOK /\ Roles /\ [Next]_vars => Roles'
<1> SUFFICES ASSUME TypeOK, Roles, [Next]_vars PROVE Roles'
  OBVIOUS
<1>0. frame \in [Threads -> Frames] /\ Threads = Loops \cup {Writer}
  BY DEF TypeOK, Threads
<1>1. CASE UNCHANGED vars
  BY <1>1 DEF vars, Roles, Style, Files
<1>2. CASE Next
  <2>1. program' = program
    BY <1>2, StepProgram
  <2>2. ASSUME NEW t \in Loops
        PROVE  /\ frame'[t].op \in {"idle", "wait", "read", "handle"}
               /\ frame'[t].op \in {"read", "handle"} => frame'[t].ev \in Events
    <3>1. /\ frame[t] \in Frames
          /\ frame[t].op \in {"idle", "wait", "read", "handle"}
          /\ frame[t].op \in {"read", "handle"} => frame[t].ev \in Events
      BY <1>0 DEF Roles
    <3>2. CASE frame'[t] = frame[t] \/ frame'[t] = Idle
      BY <3>1, <3>2, FrameFields
    <3>3. ASSUME NEW e \in Events, frame'[t] = [Idle EXCEPT !.op = "read", !.ev = e]
          PROVE  frame'[t].op = "read" /\ frame'[t].ev = e
      BY <3>3, FrameFields
    <3>4. CASE frame[t].op = "read" /\ frame'[t] = Handling(t)
      BY <3>1, <3>4, FrameFields
    <3>5. [Idle EXCEPT !.op = "wait", !.left = WaitTime].op = "wait"
      BY FrameFields
    <3>6. /\ [frame[t] EXCEPT !.left = WaitTime,
                              !.interrupts = frame[t].interrupts + 1].op = frame[t].op
          /\ [frame[t] EXCEPT !.left = @ - 1, !.elapsed = @ + 1].op = frame[t].op
      BY <3>1 DEF Frames
    <3> QED
      BY <1>2, <3>2, <3>3, <3>4, <3>5, <3>6, StepFrame
  <2>3. \/ frame'[Writer] = frame[Writer] \/ frame'[Writer] = Idle
        \/ \E f \in Files, len \in 0 .. MaxBytes :
             /\ len = 0 => Style("zero")
             /\ frame'[Writer] = [Idle EXCEPT !.op = "write", !.len = len,
                                    !.ev = [NoEvent EXCEPT !.file = f]]
    <3> USE <1>0, EventLoopAssumption
    <3>1. ASSUME NEW u \in Loops, LoopCalls(u) PROVE frame'[Writer] = frame[Writer]
      BY <3>1 DEF LoopCalls, Create, Mod, Finish, Add, Del, Close, Drop, Wait, StartRead
    <3>2. CASE WriterCalls
      BY <3>2 DEF WriterCalls, StartWrite, ClosePeer
    <3>3. ASSUME NEW u \in Loops, WaitEnds(u) \/ WaitInterrupted(u) \/ ReadEnds(u)
          PROVE frame'[Writer] = frame[Writer]
      BY <3>3 DEF WaitEnds, WaitReturns, WaitTimesOut, WaitInterrupted, ReadEnds,
         ReadTakes, ReadEof
    <3>4. ASSUME NEW u \in Loops, NEW e, ReadAgain(u, e) \/ ReadFails(u, e)
          PROVE frame'[Writer] = frame[Writer]
      BY <3>4 DEF ReadAgain, ReadFails
    <3>5. CASE WriteEnds \/ WriteZero \/ \E e \in {"EAGAIN", "EINTR"} : WriteAgain(e)
      BY <3>5 DEF WriteEnds, WriteTakes, WritePipe, WriteZero, WriteAgain
    <3>6. CASE Tick \/ Connect \/ CloseEpoll
      BY <3>6 DEF Tick, Timed, Connect, CloseEpoll
    <3> QED
      BY <1>2, <3>1, <3>2, <3>3, <3>4, <3>5, <3>6 DEF Next, Returns
  <2>4. /\ frame'[Writer].op \in {"idle", "write"}
        /\ frame'[Writer].op = "write" /\ frame'[Writer].len = 0 => Style("zero")
    <3>1. CASE frame'[Writer] = frame[Writer]
      BY <3>1 DEF Roles
    <3>2. CASE frame'[Writer] = Idle
      BY <3>2, FrameFields
    <3>3. ASSUME NEW f \in Files, NEW len \in 0 .. MaxBytes, len = 0 => Style("zero"),
                 frame'[Writer] = [Idle EXCEPT !.op = "write", !.len = len,
                                     !.ev = [NoEvent EXCEPT !.file = f]]
          PROVE  /\ frame'[Writer].op = "write"
                 /\ frame'[Writer].len = 0 => Style("zero")
      BY <3>3, FrameFields
    <3> QED
      BY <2>3, <3>1, <3>2, <3>3
  <2> QED
    BY <2>1, <2>2, <2>4 DEF Roles, Style
<1> QED
  BY <1>1, <1>2

\* What a step does to the table.
LEMMA StepTable ==
  ASSUME TypeOK, Next
  PROVE  \/ UNCHANGED <<table, opened>>
         \/ \E n \in Fds : SysOpen(n) \/ SysClose(n)
<1> USE DEF kernel
<1>1. ASSUME NEW t \in Loops, LoopCalls(t)
      PROVE  \/ UNCHANGED <<table, opened>>
             \/ \E n \in Fds : SysOpen(n) \/ SysClose(n)
  BY <1>1 DEF LoopCalls, Create, Mod, Finish, Add, Del, Close, Wait, StartRead
<1>2. CASE WriterCalls \/ Tick
  BY <1>2 DEF WriterCalls, StartWrite, ClosePeer, Tick
<1>3. CASE Returns
  BY <1>3 DEF Returns, WaitEnds, WaitReturns, WaitTimesOut, WaitInterrupted,
     ReadEnds, ReadTakes, ReadEof, ReadAgain, ReadFails, WriteEnds, WriteTakes,
     WritePipe, WriteZero, WriteAgain
<1>4. CASE Connect \/ CloseEpoll
  BY <1>4 DEF Connect, CloseEpoll, TypeOK, Numbers
<1> QED
  BY <1>1, <1>2, <1>3, <1>4 DEF Next

\* A file that is opened gets a number; none gets a second one.
LEMMA StepOneNumber ==
  ASSUME TypeOK, OneNumber, Next
  PROVE  OneNumber'
<1>1. /\ opened \in Nat
      /\ \A n \in Fds : table[n] \in Nat /\ table[n] <= opened
      /\ table \in [Fds -> 0 .. opened]
  BY FdTableAssumption DEF TypeOK, TableTypeOK
<1>2. CASE UNCHANGED <<table, opened>>
  BY <1>2 DEF OneNumber
<1>3. ASSUME NEW n \in Fds, SysOpen(n) PROVE OneNumber'
  BY <1>1, <1>3 DEF SysOpen, OneNumber, NoFile
<1>4. ASSUME NEW n \in Fds, SysClose(n) PROVE OneNumber'
  BY <1>1, <1>4 DEF SysClose, OneNumber
<1> QED
  BY <1>2, <1>3, <1>4, StepTable

\* The steps that change the interest list, the table or the epoll descriptor.
Watches ==
  \/ Connect \/ CloseEpoll
  \/ \E t \in Loops : \/ Create(t) \/ Mod(t) \/ WaitReturns(t)
                      \/ \E n \in Fds : Add(t, n) \/ Del(t, n) \/ Close(t, n)

\* All other steps leave the table and the interest list alone.
LEMMA StepWatches ==
  ASSUME Next
  PROVE  Watches \/ UNCHANGED <<ep, table, opened, interest>>
<1> USE DEF kernel
<1>1. ASSUME NEW t \in Loops, LoopCalls(t)
      PROVE  Watches \/ UNCHANGED <<ep, table, opened, interest>>
  BY <1>1 DEF Watches, LoopCalls, Finish, Wait, StartRead
<1>2. CASE WriterCalls
  BY <1>2 DEF WriterCalls, StartWrite, ClosePeer
<1>3. CASE Returns
  BY <1>3 DEF Watches, Returns, WaitEnds, WaitTimesOut, WaitInterrupted, ReadEnds,
     ReadTakes, ReadEof, ReadAgain, ReadFails, WriteEnds, WriteTakes, WritePipe,
     WriteZero, WriteAgain
<1>4. CASE Tick \/ Connect \/ CloseEpoll
  BY <1>4 DEF Watches, Tick
<1> QED
  BY <1>1, <1>2, <1>3, <1>4 DEF Next

\* What TypeOK says of the table, for the steps that close and open.
LEMMA TableFacts ==
  ASSUME TypeOK
  PROVE  /\ opened \in Nat /\ table \in [Fds -> Nat]
         /\ \A n \in Fds : table[n] <= opened
         /\ \A n \in Fds : table[n] # NoFile => table[n] \in Files
         /\ opened < MaxOpens => opened + 1 \in Files
         /\ interest \in [Files -> {"none", "armed", "disarmed"}]
<1>1. TableTypeOK /\ interest \in [Files -> {"none", "armed", "disarmed"}]
  BY DEF TypeOK
<1>2. /\ opened \in Nat /\ table \in [Fds -> Nat]
      /\ \A n \in Fds : table[n] <= opened
  BY <1>1, FdTableAssumption DEF TableTypeOK
<1> QED
  BY <1>1, <1>2, OpenIsFile

\* A number that becomes the epoll descriptor has a new file, which nobody
\* registered.
LEMMA StepUnwatched ==
  ASSUME TypeOK, Roles, OneNumber, Unwatched, Next
  PROVE  Unwatched'
<1> USE TableFacts DEF NoFile
<1>1. ASSUME NEW t \in Loops, Create(t) PROVE Unwatched'
  <2>1. PICK n \in Fds : SysOpen(n) /\ ep' = n /\ interest' = interest
    BY <1>1 DEF Create
  <2>2. /\ opened < MaxOpens /\ opened' = opened + 1
        /\ table' = [table EXCEPT ![n] = opened + 1]
    BY <2>1 DEF SysOpen
  <2>3. table'[n] = opened + 1 /\ interest[opened + 1] = "none"
    BY <2>2 DEF Unwatched
  <2> QED
    BY <2>1, <2>2, <2>3, FdTableAssumption DEF Unwatched, Files
<1>2. CASE Connect
  <2>1. PICK n \in Fds : /\ SysOpen(n) /\ table[n] = NoFile
                         /\ ep' = ep /\ interest' = interest
    BY <1>2 DEF Connect, SysOpen, Lowest, FreeFds
  <2>2. /\ opened' = opened + 1
        /\ table' = [table EXCEPT ![n] = opened + 1]
    BY <2>1 DEF SysOpen
  <2>3. ep \in Fds => table'[ep] = table[ep]
    BY <2>1, <2>2 DEF Unwatched
  <2> QED
    BY <2>1, <2>2, <2>3, FdTableAssumption DEF Unwatched, Files
<1>3. CASE CloseEpoll
  BY <1>3 DEF CloseEpoll, SysClose, Unwatched, Invalid, Fds
<1>4. ASSUME NEW n \in Fds, n # ep, table[n] # NoFile, NEW state \in {"none", "armed"},
             UNCHANGED <<ep, opened>>, table'= table \/ SysClose(n),
             interest' = [interest EXCEPT ![table[n]] = state]
      PROVE  Unwatched'
  BY <1>4 DEF Unwatched, OneNumber, SysClose
<1>5. ASSUME NEW t \in Loops, NEW n \in Fds, Add(t, n) \/ Del(t, n) \/ Close(t, n)
      PROVE  Unwatched'
  BY <1>4, <1>5 DEF Add, Del, Close, Drop, IsStream, Registered, SysClose
<1>6. ASSUME NEW t \in Loops, Mod(t) PROVE Unwatched'
  <2>1. /\ UNCHANGED <<table, opened, ep>>
        /\ \/ interest' = interest
           \/ /\ Registered(frame[t].ev.fd)
              /\ interest' = [interest EXCEPT ![table[frame[t].ev.fd]] = "armed"]
    BY <1>6 DEF Mod
  <2>2. CASE interest' = interest
    BY <2>1, <2>2 DEF Unwatched
  <2>3. CASE Registered(frame[t].ev.fd) /\ frame[t].ev.fd \in Fds
    BY <1>4, <2>1, <2>2, <2>3 DEF Registered, IsStream
  <2>4. frame[t].ev.fd \in Fds
    BY <1>6 DEF Mod, Calls, Roles, Events
  <2> QED
    BY <2>1, <2>2, <2>3, <2>4
<1>7. ASSUME NEW t \in Loops, WaitReturns(t) PROVE Unwatched'
  <2>1. PICK s \in SUBSET Pending :
          interest' = [f \in Files |->
            IF Style("oneshot") /\ f \in {e.file : e \in s} THEN "disarmed"
            ELSE interest[f]]
    BY <1>7 DEF WaitReturns
  <2>2. UNCHANGED <<table, opened, ep>>
    BY <1>7 DEF WaitReturns
  <2>3. ASSUME NEW f \in Files, interest[f] = "none" PROVE interest'[f] = "none"
    BY <2>1, <2>3 DEF Pending
  <2> QED
    BY <2>2, <2>3 DEF Unwatched
<1>8. CASE UNCHANGED <<ep, table, opened, interest>>
  BY <1>8 DEF Unwatched
<1> QED
  BY <1>1, <1>2, <1>3, <1>5, <1>6, <1>7, <1>8, StepWatches DEF Watches

\* What a step does to the batch of a loop.
LEMMA StepBatch ==
  ASSUME TypeOK, Next, NEW u \in Loops
  PROVE  \/ batch'[u] = batch[u]
         \/ \E e \in batch[u] : StartRead(u, e)
         \/ WaitReturns(u)
<1> USE DEF TypeOK
<1>1. ASSUME NEW t \in Loops, LoopCalls(t)
      PROVE  batch'[u] = batch[u] \/ \E e \in batch[u] : StartRead(u, e)
  BY <1>1 DEF LoopCalls, Create, Mod, Finish, Add, Del, Close, Wait, StartRead
<1>2. CASE WriterCalls \/ Tick \/ Connect \/ CloseEpoll
  BY <1>2 DEF WriterCalls, StartWrite, ClosePeer, Tick, Connect, CloseEpoll
<1>3. CASE Returns
  <2>1. ASSUME NEW t \in Loops, WaitReturns(t)
        PROVE  batch'[u] = batch[u] \/ WaitReturns(u)
    BY <2>1 DEF WaitReturns
  <2> QED
    BY <1>3, <2>1 DEF Returns, WaitEnds, WaitTimesOut, WaitInterrupted, ReadEnds,
       ReadTakes, ReadEof, ReadAgain, ReadFails, WriteEnds, WriteTakes, WritePipe,
       WriteZero, WriteAgain
<1> QED
  BY <1>1, <1>2, <1>3 DEF Next

\* A step that begins or ends a read or a wait, seen from its loop.
LEMMA LoopSteps ==
  ASSUME TypeOK, NEW u \in Loops
  PROVE  /\ WaitReturns(u) => frame[u].op = "wait" /\ frame'[u] = Idle
         /\ \A e \in batch[u] : StartRead(u, e) =>
              /\ frame[u].op = "idle"
              /\ frame'[u].op = "read" /\ frame'[u].ev = e
              /\ batch'[u] = batch[u] \ {e}
<1>1. WaitReturns(u) => frame[u].op = "wait" /\ frame'[u] = Idle
  BY DEF WaitReturns, Calls, TypeOK, Threads
<1>2. ASSUME NEW e \in batch[u], StartRead(u, e)
      PROVE  /\ frame[u].op = "idle"
             /\ frame'[u].op = "read" /\ frame'[u].ev = e
             /\ batch'[u] = batch[u] \ {e}
  <2>1. frame'[u] = [Idle EXCEPT !.op = "read", !.ev = e]
    BY <1>2 DEF StartRead, TypeOK, Threads
  <2>2. frame'[u].op = "read" /\ frame'[u].ev = e
    BY <2>1, FrameFields
  <2>3. frame[u].op = "idle" /\ batch'[u] = batch[u] \ {e}
    BY <1>2 DEF StartRead, Calls, TypeOK
  <2> QED
    BY <2>2, <2>3
<1> QED
  BY <1>1, <1>2

\* Only Wait begins a wait and only StartRead a read, which take what they need.
LEMMA StepBegins ==
  ASSUME TypeOK, Next, NEW u \in Loops
  PROVE  /\ frame'[u].op = "wait" /\ frame[u].op # "wait" =>
              batch[u] = {} /\ batch'[u] = {} /\ Runs(u)
         /\ frame'[u].op = "read" =>
              \/ frame'[u] = frame[u]
              \/ \E e \in batch[u] : StartRead(u, e)
<1> DEFINE Goal ==
      /\ frame'[u].op = "wait" /\ frame[u].op # "wait" =>
           batch[u] = {} /\ batch'[u] = {} /\ Runs(u)
      /\ frame'[u].op = "read" =>
           \/ frame'[u] = frame[u]
           \/ \E e \in batch[u] : StartRead(u, e)
<1>0. /\ frame \in [Threads -> Frames] /\ Threads = Loops \cup {Writer}
      /\ u \in Threads
  BY DEF TypeOK, Threads
<1>1. ASSUME NEW t \in Loops, LoopCalls(t) PROVE Goal
  <2>1. CASE Create(t) \/ \E n \in Fds : Add(t, n)
    BY <2>1 DEF Create, Add
  <2>2. CASE Mod(t) \/ Finish(t)
    BY <2>2, <1>0, FrameFields DEF Mod, Finish
  <2>3. ASSUME NEW n \in Fds, Del(t, n) \/ Close(t, n) PROVE Goal
    <3>1. frame' = frame \/ frame' = [frame EXCEPT ![t] = Idle]
      BY <2>3 DEF Del, Close, Drop
    <3> QED
      BY <1>0, <3>1, FrameFields
  <2>4. CASE Wait(t)
    BY <2>4, <1>0, FrameFields DEF Wait, Calls
  <2>5. ASSUME NEW e \in batch[t], StartRead(t, e) PROVE Goal
    <3>1. CASE t = u
      BY <2>5, <3>1, LoopSteps
    <3>2. CASE t # u
      BY <2>5, <1>0, <3>2 DEF StartRead
    <3> QED
      BY <3>1, <3>2
  <2> QED
    BY <1>1, <2>1, <2>2, <2>3, <2>4, <2>5 DEF LoopCalls
<1>2. CASE WriterCalls \/ Connect \/ CloseEpoll
  BY <1>2, <1>0, EventLoopAssumption
     DEF WriterCalls, StartWrite, ClosePeer, Connect, CloseEpoll
<1>3. ASSUME NEW t \in Loops, WaitEnds(t) PROVE Goal
  BY <1>3, <1>0, FrameFields DEF WaitEnds, WaitReturns, WaitTimesOut
<1>4. ASSUME NEW t \in Loops, WaitInterrupted(t) PROVE Goal
  <2>1. [frame[t] EXCEPT !.left = WaitTime,
                         !.interrupts = frame[t].interrupts + 1].op = frame[t].op
    BY <1>0 DEF Frames
  <2> QED
    BY <1>4, <1>0, <2>1, FrameFields DEF WaitInterrupted, Calls
<1>5. ASSUME NEW t \in Loops,
             \/ ReadEnds(t) \/ \E e \in {"EAGAIN", "EINTR"} : ReadAgain(t, e)
             \/ \E e \in {"EBADF", "ECONNRESET"} : ReadFails(t, e)
      PROVE  Goal
  BY <1>5, <1>0, FrameFields
     DEF ReadEnds, ReadTakes, ReadEof, ReadAgain, ReadFails
<1>6. CASE WriteEnds \/ WriteZero \/ \E e \in {"EAGAIN", "EINTR"} : WriteAgain(e)
  BY <1>6, <1>0, EventLoopAssumption
     DEF WriteEnds, WriteTakes, WritePipe, WriteZero, WriteAgain
<1>7. CASE Tick
  BY <1>7, <1>0 DEF Tick, Timed, Frames
<1> QED
  BY <1>1, <1>2, <1>3, <1>4, <1>5, <1>6, <1>7 DEF Next, Returns

\* Only the end of a read begins a handler.
LEMMA StepHandles ==
  ASSUME TypeOK, Next, NEW u \in Loops, frame'[u].op = "handle"
  PROVE  frame[u].op \in {"read", "handle"} /\ frame'[u].ev = frame[u].ev
<1>1. frame[u] \in Frames
  BY DEF TypeOK, Threads
<1>2. /\ frame'[u] # Idle
      /\ \A e \in Events : frame'[u] # [Idle EXCEPT !.op = "read", !.ev = e]
      /\ frame'[u] # [Idle EXCEPT !.op = "wait", !.left = WaitTime]
  BY FrameFields
<1>3. CASE frame[u].op = "read" /\ frame'[u] = Handling(u)
  BY <1>3, FrameFields
<1>4. /\ [frame[u] EXCEPT !.left = WaitTime,
                          !.interrupts = frame[u].interrupts + 1].op = frame[u].op
      /\ [frame[u] EXCEPT !.left = @ - 1, !.elapsed = @ + 1].op = frame[u].op
  BY <1>1 DEF Frames
<1> QED
  BY <1>2, <1>3, <1>4, StepFrame

\* A read takes its event out of the batch, and a wait begins without one.
LEMMA StepInHand ==
  ASSUME TypeOK, Roles, InHand, Next
  PROVE  InHand'
<1> SUFFICES ASSUME NEW u \in Loops
             PROVE  /\ frame'[u].op \in {"read", "handle"} =>
                         frame'[u].ev \notin batch'[u]
                    /\ frame'[u].op = "wait" => batch'[u] = {}
  BY DEF InHand
<1>1. CASE WaitReturns(u) \/ \E e \in batch[u] : StartRead(u, e)
  BY <1>1, LoopSteps, FrameFields DEF TypeOK
<1>2. CASE batch'[u] = batch[u]
  <2>1. frame'[u].op = "wait" => batch'[u] = {}
    BY <1>2, StepBegins DEF InHand
  <2>2. ASSUME frame'[u].op \in {"read", "handle"},
               ~ \E e \in batch[u] : StartRead(u, e)
        PROVE  frame[u].op \in {"read", "handle"} /\ frame'[u].ev = frame[u].ev
    <3>1. CASE frame'[u].op = "read"
      BY <2>2, <3>1, StepBegins
    <3>2. CASE frame'[u].op = "handle"
      BY <2>2, <3>2, StepHandles
    <3> QED
      BY <2>2, <3>1, <3>2
  <2> QED
    BY <1>1, <1>2, <2>1, <2>2 DEF InHand
<1> QED
  BY <1>1, <1>2, StepBatch

\* Where a single loop runs, the others do nothing.
LEMMA StepIdle ==
  ASSUME TypeOK, Roles, OneLoop, OneOwner, Next, NEW u \in Loops \ {First}
  PROVE  frame'[u].op = "idle" /\ batch'[u] = {}
<1>1. frame[u].op = "idle" /\ batch[u] = {}
  BY DEF OneOwner
<1>2. batch'[u] = {}
  BY <1>1, StepBatch, LoopSteps
<1>3. frame'[u].op # "wait"
  BY <1>1, StepBegins DEF Runs
<1>4. frame'[u].op # "read" /\ frame'[u].op # "handle"
  BY <1>1, StepBegins, StepHandles
<1>5. Roles'
  BY StepRoles
<1> QED
  BY <1>2, <1>3, <1>4, <1>5 DEF Roles

\* Only a wait that returns gives a loop new events.
LEMMA StepTaken ==
  ASSUME TypeOK, Next, NEW u \in Loops, ~WaitReturns(u), NEW e \in Taken(u)'
  PROVE  e \in Taken(u)
<1>1. CASE e \in batch'[u]
  BY <1>1, StepBatch, LoopSteps DEF Taken
<1>2. CASE frame'[u].op = "read" /\ e = frame'[u].ev
  BY <1>2, StepBegins, LoopSteps DEF Taken
<1>3. CASE frame'[u].op = "handle" /\ e = frame'[u].ev
  BY <1>3, StepHandles DEF Taken
<1> QED
  BY <1>1, <1>2, <1>3 DEF Taken

\* Two events that agree on the number or on the file are the same.
LEMMA OneEvent ==
  ASSUME OneNumber, EventsHold, NEW t \in Loops, NEW u \in Loops,
         NEW e \in Taken(t), NEW d \in Taken(u), e.fd = d.fd \/ e.file = d.file
  PROVE  e = d
<1>1. /\ e \in Events /\ d \in Events
      /\ table[e.fd] = e.file /\ table[d.fd] = d.file
  BY DEF EventsHold
<1>2. e.fd \in Fds /\ d.fd \in Fds /\ e.file # NoFile /\ d.file # NoFile
  BY <1>1, FdTableAssumption DEF Events, Files, NoFile
<1>3. e.fd = d.fd /\ e.file = d.file
  BY <1>1, <1>2 DEF OneNumber
<1> QED
  BY <1>1, <1>3 DEF Events

\* No other event is about the stream a loop handles.
LEMMA Alone ==
  ASSUME OneNumber, EventsHold, InHand, OneOwner,
         NEW t \in Loops, frame[t].op \in {"read", "handle"},
         NEW u \in Loops, NEW e \in Taken(u), u # t \/ e \in batch[t]
  PROVE  e.fd # frame[t].ev.fd /\ e.file # frame[t].ev.file
<1>1. frame[t].ev \in Taken(t)
  BY DEF Taken
<1>2. e # frame[t].ev
  <2>1. CASE u = t
    BY <2>1 DEF InHand
  <2>2. CASE u # t /\ ~OneLoop
    BY <1>1, <2>2 DEF OneOwner
  <2>3. CASE u # t /\ OneLoop
    BY <2>3 DEF OneOwner, Taken
  <2> QED
    BY <2>1, <2>2, <2>3
<1> QED
  BY <1>1, <1>2, OneEvent

\* A stream that is dropped has no event left.
LEMMA Dropped ==
  ASSUME TypeOK, Roles, Careful, OneNumber, EventsHold, InHand, OneOwner, Next,
         NEW t \in Loops, NEW n \in Fds, Del(t, n) \/ Close(t, n),
         NEW u \in Loops, NEW e \in Taken(u)'
  PROVE  e.fd # n
<1>0. /\ frame \in [Threads -> Frames] /\ t \in Threads /\ u \in Threads
  BY DEF TypeOK, Threads
<1>1. /\ frame[t].op \in {"idle", "handle"} /\ Runs(t) /\ MayDrop(t, n)
      /\ batch' = batch
      /\ frame' = IF frame[t].ev.fd = n THEN [frame EXCEPT ![t] = Idle] ELSE frame
  BY DEF Del, Close, Running, Drop
<1>2. e \in Taken(u)
  BY <1>1, StepTaken, LoopSteps, <1>0, FrameFields DEF Taken
<1>3. ASSUME u = t, e \notin batch[t]
      PROVE  e.fd # n
  BY <1>0, <1>1, <1>3, FrameFields DEF Taken
<1>4. CASE OneLoop
  <2>1. u = First /\ t = First
    BY <1>1, <1>2, <1>4 DEF Runs, OneOwner, Taken
  <2>2. e \in batch[t] => e.fd # n
    BY <1>1, <1>4 DEF MayDrop, Careful, Style
  <2> QED
    BY <1>3, <2>1, <2>2
<1>5. CASE ~OneLoop
  <2>1. frame[t].op = "handle" /\ frame[t].ev.fd = n
    BY <1>1, <1>5 DEF MayDrop
  <2> QED
    BY <1>2, <1>3, <2>1, Alone
<1> QED
  BY <1>4, <1>5

\* A step leaves the streams of the events that remain as they were.
LEMMA StepKept ==
  ASSUME TypeOK, Roles, Careful, OneNumber, Unwatched, EventsHold, InHand, OneOwner,
         Next, NEW u \in Loops, NEW e \in Taken(u)',
         \A t \in Loops : ~WaitReturns(t)
  PROVE  /\ table'[e.fd] = table[e.fd] /\ interest'[e.file] = interest[e.file]
         /\ e.fd # ep'
<1>1. e \in Taken(u)
  BY StepTaken
<1>2. /\ e.fd \in Fds /\ e.file \in Files /\ table[e.fd] = e.file
      /\ table[e.fd] # NoFile /\ interest[e.file] # "none" /\ e.fd # ep
  BY <1>1, FdTableAssumption DEF EventsHold, Events, Files, NoFile
<1>3. /\ table \in [Fds -> Nat]
      /\ interest \in [Files -> {"none", "armed", "disarmed"}]
  BY TableFacts
<1>4. ASSUME NEW t \in Loops, Create(t)
      PROVE  table'[e.fd] = table[e.fd] /\ interest' = interest /\ e.fd # ep'
  BY <1>2, <1>3, <1>4 DEF Create, SysOpen, Lowest, FreeFds
<1>5. CASE Connect
  BY <1>2, <1>3, <1>5 DEF Connect, SysOpen, Lowest, FreeFds
<1>6. CASE CloseEpoll
  <2>1. frame[u].op = "idle" /\ batch[u] = {}
    BY <1>6, FrameFields DEF CloseEpoll
  <2> QED
    BY <1>1, <2>1 DEF Taken
<1>7. ASSUME NEW t \in Loops, NEW n \in Fds, Add(t, n)
      PROVE  /\ UNCHANGED <<table, ep>>
             /\ interest'[e.file] = interest[e.file]
  <2>1. /\ table[n] # NoFile /\ interest[table[n]] = "none"
        /\ UNCHANGED <<table, ep>>
        /\ interest' = [interest EXCEPT ![table[n]] = "armed"]
    BY <1>7, TableFacts DEF Add, Registered, IsStream
  <2> QED
    BY <1>2, <1>3, <2>1
<1>8. ASSUME NEW t \in Loops, NEW n \in Fds, Del(t, n) \/ Close(t, n)
      PROVE  /\ table'[e.fd] = table[e.fd] /\ ep' = ep
             /\ interest'[e.file] = interest[e.file]
  <2>1. e.fd # n
    BY <1>8, Dropped
  <2>2. /\ table[n] # NoFile /\ ep' = ep
        /\ interest' = [interest EXCEPT ![table[n]] = "none"]
        /\ table' = table \/ table' = [table EXCEPT ![n] = NoFile]
    BY <1>8 DEF Del, Close, Registered, IsStream, Drop, SysClose
  <2>3. table[n] # e.file
    BY <1>2, <2>1, <2>2 DEF OneNumber
  <2> QED
    BY <1>2, <1>3, <2>1, <2>2, <2>3
<1>9. ASSUME NEW t \in Loops, Mod(t)
      PROVE  UNCHANGED <<table, ep>> /\ interest'[e.file] = interest[e.file]
  <2>1. /\ frame[t].op = "handle" /\ UNCHANGED <<table, ep, batch>>
        /\ frame'[t] = Idle /\ frame[t].ev \in Taken(t)
        /\ \/ interest' = interest
           \/ interest' = [interest EXCEPT ![table[frame[t].ev.fd]] = "armed"]
    BY <1>9 DEF Mod, Calls, TypeOK, Threads, Taken
  <2>2. u # t \/ e \in batch[t]
    BY <2>1, FrameFields DEF Taken
  <2>3. table[frame[t].ev.fd] = frame[t].ev.file /\ e.file # frame[t].ev.file
    BY <1>1, <2>1, <2>2, Alone DEF EventsHold
  <2> QED
    BY <1>2, <1>3, <2>1, <2>3
<1>10. CASE UNCHANGED <<ep, table, opened, interest>>
  BY <1>2, <1>10
<1> QED
  BY <1>2, <1>4, <1>5, <1>6, <1>7, <1>8, <1>9, <1>10, StepWatches DEF Watches

\* New events are about streams that were armed.
LEMMA Woken ==
  ASSUME TypeOK, Unwatched, InHand, NEW t \in Loops, WaitReturns(t),
         NEW e \in Taken(t)'
  PROVE  /\ e \in Events /\ table[e.fd] = e.file
         /\ interest[e.file] = "armed" /\ Ready(e.file) /\ e.fd # ep
         /\ interest'[e.file] = IF Style("oneshot") THEN "disarmed" ELSE "armed"
<1>1. PICK s \in SUBSET Pending :
        /\ batch' = [batch EXCEPT ![t] = s]
        /\ interest' = [f \in Files |->
             IF Style("oneshot") /\ f \in {d.file : d \in s} THEN "disarmed"
             ELSE interest[f]]
  BY DEF WaitReturns
<1>2. e \in s
  BY <1>1, LoopSteps, FrameFields DEF Taken, TypeOK
<1>3. /\ e \in Events /\ table[e.fd] = e.file
      /\ interest[e.file] = "armed" /\ Ready(e.file)
  BY <1>2 DEF Pending
<1> QED
  BY <1>1, <1>2, <1>3 DEF Unwatched, Events

\* The other loops keep their events, whose entries are not armed.
LEMMA WokenOthers ==
  ASSUME TypeOK, Careful, ~OneLoop, OneNumber, EventsHold, OneOwner,
         NEW t \in Loops, WaitReturns(t), NEW u \in Loops \ {t}, NEW e \in Taken(u)'
  PROVE  e \in Taken(u) /\ interest'[e.file] = "disarmed"
<1>1. Style("oneshot")
  BY DEF Careful, OneLoop, Style
<1>2. batch'[u] = batch[u] /\ frame'[u] = frame[u]
  BY EventLoopAssumption DEF WaitReturns, TypeOK, Threads
<1>3. e \in Taken(u)
  BY <1>2 DEF Taken
<1>4. interest[e.file] = "disarmed" /\ e.file \in Files
  BY <1>3 DEF OneOwner, EventsHold, Events
<1> QED
  BY <1>3, <1>4 DEF WaitReturns

\* Events stay about the streams they were about, and with their one owner: the
\* owner closes only the stream at hand, and the kernel reports armed entries only.
LEMMA StepHolds ==
  ASSUME TypeOK, Roles, Careful, OneNumber, Unwatched, EventsHold, InHand, OneOwner,
         Next
  PROVE  EventsHold' /\ OneOwner'
<1>0. program' = program
  BY StepProgram
<1>1. OneLoop' = OneLoop
  BY <1>0 DEF OneLoop
<1>2. OneLoop => \A u \in Loops \ {First} : frame'[u].op = "idle" /\ batch'[u] = {}
  BY StepIdle
<1>3. CASE \A t \in Loops : ~WaitReturns(t)
  <2>1. ASSUME NEW u \in Loops, NEW e \in Taken(u)'
        PROVE  /\ e \in Taken(u) /\ e.fd # ep'
               /\ table'[e.fd] = table[e.fd] /\ interest'[e.file] = interest[e.file]
    BY <1>3, <2>1, StepTaken, StepKept
  <2>2. EventsHold'
    BY <2>1 DEF EventsHold
  <2>3. OneOwner'
    BY <1>1, <1>2, <2>1 DEF OneOwner
  <2> QED
    BY <2>2, <2>3
<1>4. ASSUME NEW t \in Loops, WaitReturns(t) PROVE EventsHold' /\ OneOwner'
  <2>1. UNCHANGED <<table, ep>>
    BY <1>4 DEF WaitReturns
  <2>2. ASSUME NEW e \in Taken(t)'
        PROVE  /\ e \in Events /\ table'[e.fd] = e.file /\ e.fd # ep'
               /\ interest[e.file] = "armed" /\ interest'[e.file] # "none"
               /\ ~OneLoop => interest'[e.file] = "disarmed"
    BY <1>4, <2>1, Woken DEF Careful, OneLoop, Style
  <2>3. CASE OneLoop
    <3>1. \A u \in Loops \ {t} : Taken(u)' = {}
      BY <1>2, <1>4, <2>3, LoopSteps DEF Taken, OneOwner
    <3> QED
      BY <1>1, <1>2, <2>2, <2>3, <3>1 DEF EventsHold, OneOwner
  <2>4. CASE ~OneLoop
    <3>1. ASSUME NEW u \in Loops \ {t}, NEW e \in Taken(u)'
          PROVE  e \in Taken(u) /\ interest'[e.file] = "disarmed"
      BY <1>4, <2>4, WokenOthers
    <3>2. ASSUME NEW u \in Loops \ {t}, NEW e \in Taken(u)' PROVE e \notin Taken(t)'
      BY <2>2, <2>4, <3>1 DEF OneOwner
    <3>3. EventsHold'
      BY <2>1, <2>2, <3>1 DEF EventsHold
    <3>4. OneOwner'
      BY <1>1, <2>2, <2>4, <3>1, <3>2 DEF OneOwner
    <3> QED
      BY <3>3, <3>4
  <2> QED
    BY <2>3, <2>4
<1> QED
  BY <1>3, <1>4

\* The events a loop did not read yet, those it just got included, are about
\* streams that had data before the step.
LEMMA UnreadReady ==
  ASSUME TypeOK, Unwatched, EventsHold, DataThere, InHand, Next, NEW u \in Loops,
         NEW e, e \in batch'[u] \/ (frame'[u].op = "read" /\ e = frame'[u].ev)
  PROVE  Ready(e.file) /\ e \in Taken(u)'
<1>1. e \in Taken(u)'
  BY DEF Taken
<1>2. CASE WaitReturns(u)
  BY <1>1, <1>2, Woken
<1>3. CASE ~WaitReturns(u) /\ e \in batch'[u]
  BY <1>1, <1>3, StepBatch, LoopSteps DEF DataThere
<1>4. CASE frame'[u].op = "read" /\ e = frame'[u].ev
  BY <1>1, <1>4, StepBegins, LoopSteps DEF DataThere
<1> QED
  BY <1>2, <1>3, <1>4

\* Until the event is read, nobody else takes the bytes it announced.
LEMMA StepDataThere ==
  ASSUME TypeOK, Roles, Careful, OneNumber, Unwatched, EventsHold, DataThere, InHand,
         OneOwner, Next
  PROVE  DataThere'
<1> SUFFICES ASSUME NEW u \in Loops, NEW e,
                    \/ e \in batch'[u]
                    \/ frame'[u].op = "read" /\ e = frame'[u].ev
             PROVE  Ready(e.file)'
  BY DEF DataThere
<1>1. Ready(e.file) /\ e \in Taken(u)'
  BY UnreadReady
<1>2. stream \in [Files -> Streams] /\ TableTypeOK
  BY DEF TypeOK
<1>3. ASSUME stream'[e.file] = stream[e.file] PROVE Ready(e.file)'
  BY <1>1, <1>3 DEF Ready
<1>4. e \in Taken(u) \/ WaitReturns(u)
  BY <1>1, StepTaken
<1>5. /\ e \in Events /\ table[e.fd] = e.file /\ e.file \in Files
      /\ e.fd \in Fds
  BY <1>1, <1>4, Woken DEF EventsHold, Events
<1>6. CASE Connect
  <2>1. e.file # opened + 1
    BY <1>5, TableFacts
  <2> QED
    BY <1>2, <1>3, <1>6, <2>1 DEF Connect
<1>7. ASSUME NEW t \in Loops, ReadTakes(t) PROVE Ready(e.file)'
  <2>1. /\ frame[t].op = "read" /\ frame'[t] = Handling(t) /\ batch' = batch
        /\ frame[t].ev \in Taken(t)
    BY <1>7 DEF ReadTakes, Calls, TypeOK, Threads, Taken
  <2>2. Source(t) = frame[t].ev.file
    BY <2>1 DEF EventsHold, Source
  <2>3. u = t => e \in batch[t]
    BY <2>1, FrameFields
  <2>4. e \in Taken(u)
    BY <1>4, <2>1, <2>3, LoopSteps, FrameFields DEF Taken
  <2>5. e.file # Source(t)
    BY <2>1, <2>2, <2>3, <2>4, Alone
  <2> QED
    BY <1>2, <1>3, <1>5, <1>7, <2>5 DEF ReadTakes
<1>8. ASSUME NEW t \in Loops, NEW n \in Fds, Close(t, n) PROVE Ready(e.file)'
  <2>1. table[n] # NoFile
    BY <1>8 DEF Close, IsStream
  <2>2. e.file # table[n]
    BY <1>1, <1>5, <1>8, <2>1, Dropped DEF OneNumber
  <2> QED
    BY <1>2, <1>3, <1>5, <1>8, <2>2 DEF Close
<1>9. ASSUME NEW f \in Files, NEW how \in {"closed", "reset"}, ClosePeer(f, how)
      PROVE  Ready(e.file)'
  <2>1. stream' = [stream EXCEPT ![f] = Hangup(@, how)]
    BY <1>9 DEF ClosePeer
  <2>2. CASE f # e.file
    BY <1>2, <1>3, <1>5, <2>1, <2>2
  <2>3. CASE f = e.file
    <3>1. stream'[e.file].peer = how
      BY <1>2, <2>1, <2>3, StreamFields
    <3> QED
      BY <3>1 DEF Ready
  <2> QED
    BY <2>2, <2>3
<1>10. CASE WriteTakes
  <2>1. PICK k \in 1 .. frame[Writer].len :
          stream' = [stream EXCEPT ![Target] = Accept(@, k)]
    BY <1>10 DEF WriteTakes
  <2>2. k \in Nat
    BY DEF TypeOK, Frames, Threads
  <2>3. CASE Target # e.file
    BY <1>2, <1>3, <1>5, <2>1, <2>3
  <2>4. CASE Target = e.file
    <3>1. stream'[e.file] = Accept(stream[e.file], k) /\ stream[e.file] \in Streams
      BY <1>2, <1>5, <2>1, <2>4
    <3>2. /\ stream'[e.file].peer = stream[e.file].peer
          /\ stream'[e.file].buffered = stream[e.file].buffered + k
          /\ stream[e.file].buffered \in Nat
      BY <2>2, <3>1, StreamFields
    <3> QED
      BY <1>1, <2>2, <3>2 DEF Ready
  <2> QED
    BY <2>3, <2>4
<1>11. CASE stream' = stream
  BY <1>3, <1>11
<1> QED
  BY <1>6, <1>7, <1>8, <1>9, <1>10, <1>11, StepFlows DEF Flows, Create

\* All of it, as one inductive invariant.
IInv == TypeOK /\ Accounts /\ Roles /\ Settled

\* The invariant holds at the start.
LEMMA InitIInv == Init => IInv
<1> SUFFICES ASSUME Init PROVE IInv
  OBVIOUS
<1>1. TypeOK
  BY InitType
<1>2. Accounts
  BY DEF Init, Accounts, NoStream
<1>3. \A t \in Threads : frame[t] = Idle /\ Idle.op = "idle"
  BY <1>1, FrameFields DEF Init
<1>4. Roles /\ EventsHold /\ DataThere /\ InHand /\ OneOwner
  BY <1>3 DEF Init, Roles, EventsHold, DataThere, InHand, OneOwner, Taken, Threads
<1>5. OneNumber /\ Unwatched
  BY FdTableAssumption
     DEF Init, TableInit, OneNumber, Unwatched, Invalid, Fds, Files, NoFile
<1> QED
  BY <1>1, <1>2, <1>4, <1>5 DEF IInv, Settled

\* Every step keeps it.
LEMMA StepIInv == IInv /\ [Next]_vars => IInv'
<1> SUFFICES ASSUME IInv, [Next]_vars PROVE IInv'
  OBVIOUS
<1>1. TypeOK' /\ Accounts' /\ Roles'
  BY StepType, StepAccounts, StepRoles DEF IInv
<1>2. CASE Next
  <2>1. Careful' = Careful
    BY <1>2, StepProgram DEF Careful
  <2> QED
    BY <1>1, <1>2, <2>1, StepOneNumber, StepUnwatched, StepHolds, StepDataThere,
       StepInHand DEF IInv, Settled
<1>3. CASE UNCHANGED vars
  BY <1>1, <1>3
     DEF vars, kernel, IInv, Settled, OneNumber, Unwatched, Careful, EventsHold, DataThere,
         InHand, OneOwner, OneLoop, Taken, Ready
<1> QED
  BY <1>2, <1>3

\* In a program that shares entries only as one-shot and closes no descriptor
\* with a pending event, read() is only called on the stream the event was
\* about, with bytes or the end of the stream waiting.
THEOREM ReadsAfterEvents == Spec => []ReadsFindData
<1>1. IInv => ReadsFindData
  BY DEF IInv, Settled, ReadsFindData, EventsHold, DataThere, Taken, Source
<1> QED
  BY <1>1, InitIInv, StepIInv, PTL DEF Spec

\* The assertions of mod() and read() hold in such a program, and throwErrno()
\* aborts only for the hazards "zero" and "reset".
THEOREM AbortsExplained == Spec => []AbortsOnlyByHazard
<1>1. Init => AbortsOnlyByHazard
  BY DEF Init, AbortsOnlyByHazard
<1>2. IInv /\ AbortsOnlyByHazard /\ [Next]_vars => AbortsOnlyByHazard'
  <2> SUFFICES ASSUME IInv, AbortsOnlyByHazard, [Next]_vars
               PROVE  AbortsOnlyByHazard'
    OBVIOUS
  <2>1. program' = program
    BY StepProgram DEF vars
  <2>2. CASE aborted' = aborted
    BY <2>1, <2>2 DEF AbortsOnlyByHazard, Careful, Style
  <2>3. ASSUME NEW t \in Loops, Mod(t) PROVE AbortsOnlyByHazard'
    <3>1. Careful => Registered(frame[t].ev.fd)
      <4>1. Careful => frame[t].ev \in Taken(t) /\ EventsHold
        BY <2>3 DEF Mod, Calls, Taken, IInv, Settled
      <4>2. Careful => /\ frame[t].ev.file # NoFile
                       /\ table[frame[t].ev.fd] = frame[t].ev.file
                       /\ interest[frame[t].ev.file] # "none"
                       /\ frame[t].ev.fd # ep
        BY <4>1, FdTableAssumption DEF EventsHold, Events, Files, NoFile
      <4> QED
        BY <4>2 DEF Registered, IsStream
    <3>2. CASE Registered(frame[t].ev.fd)
      BY <2>2, <2>3, <3>2 DEF Mod
    <3>3. CASE ~Registered(frame[t].ev.fd)
      <4>1. aborted' \in {"EBADF", "ENOENT"} /\ ~Careful
        BY <2>3, <3>1, <3>3 DEF Mod
      <4> QED
        BY <2>1, <4>1 DEF AbortsOnlyByHazard, Careful
    <3> QED
      BY <3>2, <3>3
  <2>4. ASSUME NEW t \in Loops, NEW e \in {"EBADF", "ECONNRESET"}, ReadFails(t, e)
        PROVE  AbortsOnlyByHazard'
    <3>1. frame[t].op = "read" /\ frame[t].ev \in Events
      BY <2>4 DEF ReadFails, Calls, IInv, Roles
    <3>2. Careful => Source(t) = frame[t].ev.file
      BY <3>1 DEF IInv, Settled, EventsHold, Taken, Source
    <3>3. e = "EBADF" => ~Careful
      BY <2>4, <3>1, <3>2, FdTableAssumption DEF ReadFails, Events, Files, NoFile
    <3>4. e = "ECONNRESET" => Style("reset")
      <4>1. Source(t) # NoFile => Source(t) \in Files
        BY <3>1, TableFacts DEF IInv, Source, Events
      <4> QED
        BY <2>4, <4>1 DEF ReadFails, IInv, Accounts
    <3>5. aborted' = "no" \/ aborted' = e
      BY <2>4 DEF ReadFails
    <3> QED
      BY <2>1, <3>3, <3>4, <3>5 DEF AbortsOnlyByHazard, Careful, Style
  <2>5. CASE WritePipe
    <3>1. aborted' = "no"
      BY <2>5 DEF WritePipe, Thrown
    <3> QED
      BY <3>1 DEF AbortsOnlyByHazard
  <2>6. CASE WriteZero
    <3>1. Style("zero")
      BY <2>6 DEF WriteZero, Calls, IInv, Roles
    <3>2. errno[Writer] \in {"0", "EINTR", "EAGAIN", "EPIPE"}
      BY DEF IInv, TypeOK, Threads, Errnos
    <3>3. aborted' \in {"no", "0"}
      BY <2>6, <3>2 DEF WriteZero, Thrown
    <3> QED
      BY <2>1, <3>1, <3>3 DEF AbortsOnlyByHazard, Style
  <2>7. \/ aborted' = aborted \/ WritePipe \/ WriteZero
        \/ \E t \in Loops : \/ Mod(t)
                            \/ \E e \in {"EBADF", "ECONNRESET"} : ReadFails(t, e)
    BY DEF vars, Next, LoopCalls, WriterCalls, Returns, Create, Finish, Add, Del, Close,
       Wait, StartRead, StartWrite, ClosePeer, WaitEnds, WaitReturns, WaitTimesOut,
       WaitInterrupted, ReadEnds, ReadTakes, ReadEof, ReadAgain, WriteEnds, WriteTakes,
       WriteAgain, Tick, Connect, CloseEpoll
  <2> QED
    BY <2>2, <2>3, <2>4, <2>5, <2>6, <2>7
<1> QED
  BY <1>1, <1>2, InitIInv, StepIInv, PTL DEF Spec
-----------------------------------------------------------------------------
\* A step that ends a read, or a write, leaves the thread in another call.
LEMMA EndsLeave ==
  ASSUME TypeOK
  PROVE  /\ \A t \in Loops : ReadEnds(t) => frame'[t].op # "read"
         /\ WriteEnds => ~Writes'
<1>1. ASSUME NEW t \in Loops, ReadEnds(t) PROVE frame'[t].op # "read"
  <2>1. frame'[t] = Handling(t) /\ Handling(t).op = "handle"
    BY <1>1 DEF ReadEnds, ReadTakes, ReadEof, Handling, Idle, TypeOK, Threads
  <2> QED
    BY <2>1
<1>2. ASSUME WriteEnds PROVE ~Writes'
  <2>1. frame'[Writer] = Idle /\ Idle.op = "idle"
    BY <1>2 DEF WriteEnds, WriteTakes, WritePipe, Idle, TypeOK, Threads
  <2> QED
    BY <2>1 DEF Writes, Calls
<1> QED
  BY <1>1, <1>2

\* The kernel answers each thread; a program stays harmless.
LEMMA FairToAll ==
  Spec => TickFair /\ WriteFair /\ \A t \in Loops : WaitFair(t) /\ ReadFair(t)
<1>1. Fairness => TickFair /\ WriteFair /\ \A t \in Loops : WaitFair(t) /\ ReadFair(t)
  BY DEF Fairness
<1> QED
  BY <1>1, PTL DEF Spec

\* No step brings a hazard.
LEMMA StaysHarmless == Harmless /\ [Next]_vars => Harmless'
BY StepProgram DEF Harmless, vars

\* In a program without hazards nothing aborts and no read is stuck.
LEMMA Unblocked == IInv /\ ReadsFindData /\ AbortsOnlyByHazard => CallsUnblocked
<1> SUFFICES ASSUME IInv, ReadsFindData, AbortsOnlyByHazard, Harmless
             PROVE  /\ aborted = "no"
                    /\ \A t \in Loops : frame[t].op = "read" => MayRead(t)
  BY DEF CallsUnblocked
<1>1. aborted = "no" /\ Careful /\ ~Style("reset")
  BY DEF AbortsOnlyByHazard, Harmless, Careful, Hazards, Style
<1>2. ASSUME NEW t \in Loops, frame[t].op = "read" PROVE MayRead(t)
  <2>1. Source(t) = frame[t].ev.file /\ Ready(Source(t)) /\ frame[t].ev \in Events
    BY <1>1, <1>2 DEF ReadsFindData, IInv, Roles
  <2>2. Source(t) \in Files /\ Source(t) # NoFile
    BY <2>1, FdTableAssumption DEF Events, Files, NoFile
  <2>3. stream[Source(t)].peer # "reset"
    BY <1>1, <2>2 DEF IInv, Accounts
  <2> QED
    BY <1>1, <1>2, <2>1, <2>2, <2>3 DEF MayRead, Calls, Ready
<1> QED
  BY <1>1, <1>2

\* A program without hazards goes on, and each of its reads has bytes or the end
\* of a stream to return (ReadableDescriptor.hxx:46-53).
\* With that the run's property holds wherever its steps are possible, which is a
\* matter of each action alone, and which the run checks.
THEOREM NoDeadlock == Spec => [](CallsUnblocked /\ (StepsEnabled => CallsGoOn))
BY Unblocked, ReadsAfterEvents, AbortsExplained, InitIInv, StepIInv, PTL DEF Spec, CallsGoOn

\* In a program without hazards, every read() of an event returns: it neither
\* blocks nor spins.  That its step is possible is checked by the run.
THEOREM ReadsComplete == Spec /\ []StepsEnabled => ReadsEnd
<1>1. ASSUME NEW t \in Loops
      PROVE  Spec /\ []StepsEnabled => (Harmless /\ frame[t].op = "read" ~> frame[t].op # "read")
  <2>1. Spec => ReadFair(t)
    BY FairToAll
  <2>2. TypeOK /\ <<ReadEnds(t)>>_vars => (frame[t].op # "read")'
    BY EndsLeave
  <2>3. StepsEnabled /\ CallsUnblocked /\ Harmless /\ frame[t].op = "read"
          => ENABLED <<ReadEnds(t)>>_vars
    BY DEF StepsEnabled, CallsUnblocked
  <2>4. frame[t].op # "read" <=> ~(frame[t].op = "read")
    OBVIOUS
  <2> QED
    BY <2>1, <2>2, <2>3, <2>4, NoDeadlock, StaysHarmless, InitType, StepType, PTL
       DEF Spec, ReadFair
<1> QED
  BY <1>1 DEF ReadsEnd

\* So does every write(), unless it meets a full stream: interrupted, partial
\* and failing transfers do not make it start again for ever.
THEOREM WritesComplete == Spec /\ []StepsEnabled => WritesEnd
<1>1. Spec => WriteFair
  BY FairToAll
<1>2. TypeOK /\ <<WriteEnds>>_vars => (~Writes)'
  BY EndsLeave
<1>3. StepsEnabled /\ Writes /\ ~Full => ENABLED <<WriteEnds>>_vars
  BY DEF StepsEnabled, MayWrite
<1> QED
  BY <1>1, <1>2, <1>3, StaysHarmless, InitType, StepType, PTL
     DEF Spec, WriteFair, WritesEnd
-----------------------------------------------------------------------------
\* The waits whose time is up, which have to return before time goes on.
Due == {u \in Timed : frame[u].left = 0}

\* What can still happen while loop t waits: signals, for each of them the whole
\* timeout, and at each instant the waits that are due.
Signals == MaxSignals - signals
Instants == ((0 .. MaxSignals) \X (0 .. Timeout)) \X Threads
Ahead(t) ==
  {p \in Instants :
     \/ p[1][1] < Signals
     \/ p[1][1] = Signals /\ p[1][2] < frame[t].left
     \/ p[1][1] = Signals /\ p[1][2] = frame[t].left /\ p[2] \in Due}
Rank(t) == Cardinality(Ahead(t))

\* There is only so much of it.
Ranked == \A t \in Loops : IsFiniteSet(Ahead(t)) /\ Rank(t) \in Nat

LEMMA RankType == Ranked
<1>1. IsFiniteSet(Threads)
  BY FiniteLoops, FS_AddElement DEF Threads
<1>2. MaxSignals \in Int /\ Timeout \in Int /\ 0 \in Int
  BY EventLoopAssumption
<1>3. IsFiniteSet(0 .. MaxSignals) /\ IsFiniteSet(0 .. Timeout)
  BY <1>2, FS_Interval
<1>4. IsFiniteSet((0 .. MaxSignals) \X (0 .. Timeout))
  BY <1>3, FS_Product
<1>5. IsFiniteSet(Instants)
  BY <1>1, <1>4, FS_Product DEF Instants
<1>6. \A t : Ahead(t) \in SUBSET Instants
  BY DEF Ahead
<1> QED
  BY <1>5, <1>6, FS_Subset, FS_CardinalityType DEF Rank, Ranked

\* The signals and the time that are left.
InTime ==
  /\ Signals \in 0 .. MaxSignals
  /\ \A t \in Timed : frame[t].left \in 0 .. Timeout

LEMMA TimeLeft == TypeOK => InTime
<1> SUFFICES ASSUME TypeOK PROVE InTime
  OBVIOUS
<1>1. signals \in 0 .. MaxSignals /\ MaxSignals \in Nat
  BY EventLoopAssumption DEF TypeOK
<1>2. ASSUME NEW t \in Timed PROVE frame[t].left \in 0 .. Timeout
  BY DEF Timed, TypeOK, Threads, Frames
<1> QED
  BY <1>1, <1>2 DEF InTime, Signals

\* A signal, an instant or a wait that was due never comes again.
LEMMA RankLess ==
  ASSUME NEW t \in Loops, TypeOK, TypeOK', t \in Timed, t \in Timed',
         \/ Signals' < Signals
         \/ Signals' = Signals /\ frame'[t].left < frame[t].left
         \/ /\ Signals' = Signals /\ frame'[t].left = frame[t].left
            /\ Due' \subseteq Due /\ Due' # Due
  PROVE  Rank(t)' < Rank(t)
<1>1. PICK k \in 0 .. MaxSignals, l \in 0 .. Timeout :
        k = Signals /\ l = frame[t].left
  BY TimeLeft DEF InTime
<1>2. PICK j \in 0 .. MaxSignals, m \in 0 .. Timeout :
        j = Signals' /\ m = frame'[t].left
  <2>1. InTime'
    BY TimeLeft, PTL
  <2> QED
    BY <2>1 DEF InTime
<1>3. /\ Ahead(t) = {p \in Instants : \/ p[1][1] < k
                                      \/ p[1][1] = k /\ p[1][2] < l
                                      \/ p[1][1] = k /\ p[1][2] = l /\ p[2] \in Due}
      /\ Ahead(t)' = {p \in Instants : \/ p[1][1] < j
                                       \/ p[1][1] = j /\ p[1][2] < m
                                       \/ p[1][1] = j /\ p[1][2] = m /\ p[2] \in Due'}
  BY <1>1, <1>2 DEF Ahead, Instants, Threads
<1>4. /\ MaxSignals \in Nat /\ Timeout \in Nat /\ Writer \notin Loops
      /\ Due \subseteq Loops /\ Due' \subseteq Loops
  BY EventLoopAssumption DEF Due, Timed
<1>5. \/ j < k
      \/ j = k /\ m < l
      \/ j = k /\ m = l /\ Due' \subseteq Due /\ Due' # Due
  BY <1>1, <1>2
<1>6. Ahead(t)' \subseteq Ahead(t)
  <2> SUFFICES ASSUME NEW p \in Ahead(t)' PROVE p \in Ahead(t)
    OBVIOUS
  <2>1. p \in Instants /\ p[1][1] \in 0 .. MaxSignals /\ p[1][2] \in 0 .. Timeout
    BY <1>3 DEF Instants
  <2> QED
    BY <1>3, <1>5, <2>1
<1>7. \E p \in Ahead(t) : p \notin Ahead(t)'
  <2> DEFINE At(a, b, u) == <<<<a, b>>, u>>
  <2>1. \A a \in 0 .. MaxSignals, b \in 0 .. Timeout, u \in Threads :
          /\ At(a, b, u) \in Instants
          /\ At(a, b, u)[1][1] = a /\ At(a, b, u)[1][2] = b /\ At(a, b, u)[2] = u
    BY DEF Instants
  <2> HIDE DEF At
  <2>2. Writer \in Threads /\ Writer \notin Due' /\ Loops \subseteq Threads
    BY <1>4 DEF Threads
  <2>3. CASE j < k
    <3>1. At(j, Timeout, Writer) \in Ahead(t) \ Ahead(t)'
      BY <1>3, <1>4, <2>1, <2>2, <2>3
    <3> QED
      BY <3>1
  <2>4. CASE j = k /\ m < l
    <3>1. At(k, m, Writer) \in Ahead(t) \ Ahead(t)'
      BY <1>3, <1>4, <2>1, <2>2, <2>4
    <3> QED
      BY <3>1
  <2>5. CASE j = k /\ m = l /\ Due' \subseteq Due /\ Due' # Due
    <3>1. PICK u \in Loops : u \in Due /\ u \notin Due'
      BY <1>4, <2>5
    <3>2. At(k, l, u) \in Ahead(t) \ Ahead(t)'
      BY <1>3, <1>4, <2>1, <2>2, <2>5, <3>1
    <3> QED
      BY <3>2
  <2> QED
    BY <1>5, <2>3, <2>4, <2>5
<1>8. IsFiniteSet(Ahead(t)) /\ Ahead(t)' \in SUBSET Ahead(t) /\ Ahead(t)' # Ahead(t)
  BY <1>6, <1>7, RankType DEF Ranked
<1>9. Cardinality(Ahead(t)') < Cardinality(Ahead(t))
  BY <1>8, FS_Subset, FS_CardinalityType
<1> QED
  BY <1>9 DEF Rank

\* Nothing makes another wait due but the time that passes.
LEMMA StepDue ==
  ASSUME TypeOK, Next, ~Tick
  PROVE  Due' \subseteq Due
<1> SUFFICES ASSUME NEW u \in Due' PROVE u \in Due
  OBVIOUS
<1>1. u \in Loops /\ frame'[u].op = "wait" /\ frame'[u].left = 0
  BY DEF Due, Timed
<1>2. WaitTime # 0
  BY EventLoopAssumption DEF WaitTime, Forever
<1>3. frame[u] \in Frames
  BY <1>1 DEF TypeOK, Threads
<1>4. frame'[u] = frame[u]
  <2>1. frame'[u] # Idle /\ frame'[u] # Handling(u)
    BY <1>1, FrameFields
  <2>2. \A e \in Events : frame'[u] # [Idle EXCEPT !.op = "read", !.ev = e]
    BY <1>1, FrameFields
  <2>3. frame'[u] # [Idle EXCEPT !.op = "wait", !.left = WaitTime]
    BY <1>1, <1>2, FrameFields
  <2>4. frame'[u] # [frame[u] EXCEPT !.left = WaitTime,
                                     !.interrupts = frame[u].interrupts + 1]
    BY <1>1, <1>2, <1>3 DEF Frames
  <2> QED
    BY <1>1, <2>1, <2>2, <2>3, <2>4, StepFrame
<1> QED
  BY <1>1, <1>4 DEF Due, Timed, Forever

\* A signal is never taken back.
LEMMA StepSignals == Next => signals' = signals \/ signals' = signals + 1
BY DEF Next, LoopCalls, WriterCalls, Returns, Create, Mod, Finish, Add, Del, Close,
   Wait, StartRead, StartWrite, ClosePeer, WaitEnds, WaitReturns, WaitTimesOut,
   WaitInterrupted, ReadEnds, ReadTakes, ReadEof, ReadAgain, ReadFails, WriteEnds,
   WriteTakes, WritePipe, WriteZero, WriteAgain, Tick, Connect, CloseEpoll

\* While t waits a step brings the end of the wait nearer, or leaves the time and
\* what is due alone; the passing of time, and a wait that ends, do the former.
LEMMA WaitMoves ==
  ASSUME NEW t \in Loops, TypeOK, TypeOK', t \in Timed, t \in Timed', [Next]_vars
  PROVE  \/ Rank(t)' < Rank(t)
         \/ /\ Rank(t)' = Rank(t) /\ Due' = Due /\ Signals' = Signals
            /\ frame'[t].left = frame[t].left
<1>0. CASE UNCHANGED vars
  <2>1. Due' = Due /\ Signals' = Signals /\ frame' = frame
    BY <1>0 DEF vars, Due, Timed, Signals
  <2>2. Ahead(t)' = Ahead(t)
    BY <2>1 DEF Ahead, Instants, Threads
  <2> QED
    BY <2>1, <2>2 DEF Rank
<1>1. CASE Next
  <2>1. /\ frame[t] \in Frames /\ frame[t].op = "wait" /\ frame'[t].op = "wait"
        /\ frame[t].left \in 0 .. Timeout
    BY TimeLeft DEF InTime, Timed, TypeOK, Threads
  <2>2. signals \in Nat /\ MaxSignals \in Nat
    BY EventLoopAssumption DEF TypeOK
  <2>3. CASE signals' = signals + 1
    <3>1. Signals' < Signals
      BY <2>2, <2>3 DEF Signals
    <3> QED
      BY <3>1, RankLess
  <2>4. CASE signals' = signals /\ Tick
    <3>1. Signals' = Signals
      BY <2>4 DEF Signals
    <3>2. frame'[t] = [frame[t] EXCEPT !.left = @ - 1, !.elapsed = @ + 1]
      BY <2>4 DEF Tick, Threads
    <3>3. frame'[t].left = frame[t].left - 1
      BY <2>1, <3>2 DEF Frames
    <3>4. frame'[t].left < frame[t].left
      BY <2>1, <3>3
    <3> QED
      BY <3>1, <3>4, RankLess
  <2>5. CASE signals' = signals /\ ~Tick
    <3>1. Signals' = Signals
      BY <2>5 DEF Signals
    <3>2. frame'[t] = frame[t]
      <4>1. frame'[t] # Idle /\ frame'[t] # Handling(t)
        BY <2>1, FrameFields
      <4>2. \A e \in Events : frame'[t] # [Idle EXCEPT !.op = "read", !.ev = e]
        BY <2>1, FrameFields
      <4>3. signals' # signals + 1
        BY <2>2, <2>5
      <4> QED
        BY <1>1, <2>1, <2>5, <4>1, <4>2, <4>3, StepFrame
    <3>3. Due' \subseteq Due
      BY <1>1, <2>5, StepDue
    <3>4. CASE Due' = Due
      <4>1. Ahead(t)' = Ahead(t)
        BY <3>1, <3>2, <3>4 DEF Ahead, Instants, Threads
      <4> QED
        BY <3>1, <3>2, <3>4, <4>1 DEF Rank
    <3>5. CASE Due' # Due
      BY <3>1, <3>2, <3>3, <3>5, RankLess
    <3> QED
      BY <3>4, <3>5
  <2> QED
    BY <1>1, <2>3, <2>4, <2>5, StepSignals
<1> QED
  BY <1>0, <1>1

\* Loop t waits, with n things that can still happen; its wait is over, or there
\* are fewer.
Waiting(t) == Harmless /\ t \in Timed
Left(t, n) == Waiting(t) /\ Rank(t) = n
Less(t, n) == t \notin Timed \/ (Waiting(t) /\ Rank(t) \in 0 .. n - 1)

\* The waits that are due stay so, and time may still pass, until less is left.
LEMMA LeftMoves ==
  ASSUME NEW w \in Loops, NEW n \in Nat, TypeOK, TypeOK', CallsUnblocked,
         CallsUnblocked', Left(w, n), [Next]_vars
  PROVE  \/ Less(w, n)'
         \/ /\ Left(w, n)' /\ Due' = Due
            /\ \A t \in Loops : TimeIsUp(t) => TimeIsUp(t)'
            /\ MayTick => MayTick'
<1> SUFFICES ASSUME ~Less(w, n)'
             PROVE  /\ Left(w, n)' /\ Due' = Due
                    /\ \A t \in Loops : TimeIsUp(t) => TimeIsUp(t)'
                    /\ MayTick => MayTick'
  OBVIOUS
<1>1. /\ w \in Timed /\ w \in Timed' /\ Rank(w) = n /\ Harmless /\ Harmless'
      /\ aborted = "no" /\ aborted' = "no"
  BY StaysHarmless DEF Left, Less, Waiting, CallsUnblocked
<1>2. Rank(w)' \in Nat
  <2>1. Ranked'
    BY RankType, PTL
  <2> QED
    BY <2>1 DEF Ranked
<1>3. ~(Rank(w)' < Rank(w))
  <2> SUFFICES ASSUME Rank(w)' < n PROVE FALSE
    BY <1>1
  <2>1. Rank(w)' \in 0 .. n - 1
    BY <1>2
  <2> QED
    BY <1>1, <2>1 DEF Less, Waiting
<1>4. Rank(w)' = Rank(w) /\ Due' = Due
  BY <1>1, <1>3, WaitMoves
<1>5. \A t \in Loops : TimeIsUp(t) <=> aborted = "no" /\ t \in Due
  BY DEF TimeIsUp, Due
<1>6. \A t \in Loops : TimeIsUp(t)' <=> aborted' = "no" /\ t \in Due'
  BY DEF TimeIsUp, Due
<1>7. MayTick /\ Due = {} => MayTick'
  <2> SUFFICES ASSUME Due' = {} PROVE MayTick'
    BY <1>4
  <2>1. InTime'
    BY TimeLeft, PTL
  <2>2. \A t \in Timed' : frame'[t].left > 0
    BY <2>1, EventLoopAssumption DEF InTime, Due
  <2> QED
    BY <1>1, <2>2 DEF MayTick
<1>8. MayTick => Due = {}
  BY DEF MayTick, Due
<1> QED
  BY <1>1, <1>4, <1>5, <1>6, <1>7, <1>8 DEF Left, Waiting

\* A wait that was due ends, and time that passes brings the end nearer.
LEMMA LeftEnds ==
  ASSUME NEW w \in Loops, NEW n \in Nat, TypeOK, TypeOK', CallsUnblocked,
         CallsUnblocked', Left(w, n), [Next]_vars
  PROVE  /\ \A t \in Loops : TimeIsUp(t) /\ WaitEnds(t) => Less(w, n)'
         /\ Tick => Less(w, n)'
<1>1. ASSUME NEW t \in Loops, TimeIsUp(t), WaitEnds(t) PROVE Less(w, n)'
  <2>1. frame'[t] = Idle /\ Idle.op # "wait"
    BY <1>1, FrameFields DEF WaitEnds, WaitReturns, WaitTimesOut, TypeOK, Threads
  <2>2. t \in Due /\ t \notin Due'
    BY <1>1, <2>1 DEF TimeIsUp, Due, Timed
  <2> QED
    BY <2>2, LeftMoves
<1>2. ASSUME Tick PROVE Less(w, n)'
  <2>1. w \in Timed /\ Rank(w) = n /\ frame[w].left \in 0 .. Timeout /\ frame[w] \in Frames
    BY TimeLeft DEF Left, Waiting, InTime, Timed, TypeOK, Threads
  <2>2. frame'[w] = [frame[w] EXCEPT !.left = @ - 1, !.elapsed = @ + 1]
    BY <1>2, <2>1 DEF Tick, Threads
  <2>3. frame'[w].left = frame[w].left - 1
    BY <2>1, <2>2 DEF Frames
  <2>4. frame'[w].left # frame[w].left
    BY <2>1, <2>3
  <2>5. CASE Left(w, n)'
    <3>1. w \in Timed' /\ Rank(w)' = n
      BY <2>5 DEF Left, Waiting
    <3>2. ~(Rank(w)' < Rank(w))
      BY <2>1, <3>1
    <3> QED
      BY <2>1, <2>4, <3>1, <3>2, WaitMoves
  <2> QED
    BY <2>5, LeftMoves
<1> QED
  BY <1>1, <1>2

\* A step of a program, the states before and after it being what they should.
Steady == TypeOK /\ CallsUnblocked /\ TypeOK' /\ CallsUnblocked' /\ [Next]_vars

\* Whatever is due, or if nothing is, less is left some day.
LEMMA Progress ==
  ASSUME NEW w \in Loops, NEW n \in Nat
  PROVE  Spec /\ []StepsEnabled => (Left(w, n) ~> Less(w, n))
<1>1. Spec => [](TypeOK /\ CallsUnblocked) /\ [][Next]_vars
  BY NoDeadlock, InitType, StepType, PTL DEF Spec
<1>2. Spec /\ []StepsEnabled => [](Left(w, n) /\ MayTick => <>Less(w, n))
  <2>1. Spec => TickFair
    BY FairToAll
  <2>2. Steady /\ Left(w, n) /\ MayTick => (Left(w, n)' /\ MayTick') \/ Less(w, n)'
    BY LeftMoves DEF Steady
  <2>3. Steady /\ Left(w, n) /\ <<Tick>>_vars => Less(w, n)'
    BY LeftEnds DEF Steady
  <2>4. StepsEnabled /\ MayTick => ENABLED <<Tick>>_vars
    BY DEF StepsEnabled
  <2> QED
    BY <1>1, <2>1, <2>2, <2>3, <2>4, PTL DEF TickFair, Steady
<1>3. Spec /\ []StepsEnabled =>
        []((\E t \in Loops : Left(w, n) /\ TimeIsUp(t)) => <>Less(w, n))
  <2>1. ASSUME NEW t \in Loops
        PROVE  Spec /\ []StepsEnabled => [](Left(w, n) /\ TimeIsUp(t) => <>Less(w, n))
    <3>1. Spec => WaitFair(t)
      BY FairToAll
    <3>2. Steady /\ Left(w, n) /\ TimeIsUp(t)
            => (Left(w, n)' /\ TimeIsUp(t)') \/ Less(w, n)'
      BY LeftMoves DEF Steady
    <3>3. Steady /\ Left(w, n) /\ TimeIsUp(t) /\ <<WaitEnds(t)>>_vars => Less(w, n)'
      BY LeftEnds DEF Steady
    <3>4. StepsEnabled /\ TimeIsUp(t) => ENABLED <<WaitEnds(t)>>_vars
      BY DEF StepsEnabled
    <3> QED
      BY <1>1, <3>1, <3>2, <3>3, <3>4, PTL DEF WaitFair, Steady
  <2>2. Spec /\ []StepsEnabled =>
          \A t \in Loops : [](Left(w, n) /\ TimeIsUp(t) => <>Less(w, n))
    BY <2>1
  <2>3. (\A t \in Loops : [](Left(w, n) /\ TimeIsUp(t) => <>Less(w, n)))
          => [](\A t \in Loops : Left(w, n) /\ TimeIsUp(t) => <>Less(w, n))
    OBVIOUS
  <2>4. (\A t \in Loops : Left(w, n) /\ TimeIsUp(t) => <>Less(w, n))
          => ((\E t \in Loops : Left(w, n) /\ TimeIsUp(t)) => <>Less(w, n))
    OBVIOUS
  <2> QED
    BY <2>2, <2>3, <2>4, PTL
<1>4. TypeOK /\ CallsUnblocked /\ Left(w, n) =>
        MayTick \/ \E t \in Loops : Left(w, n) /\ TimeIsUp(t)
  <2> SUFFICES ASSUME TypeOK, CallsUnblocked, Left(w, n)
               PROVE  MayTick \/ \E t \in Loops : TimeIsUp(t)
    OBVIOUS
  <2>1. aborted = "no" /\ w \in Timed
    BY DEF CallsUnblocked, Left, Waiting
  <2>2. \A t \in Timed : t \in Loops /\ (frame[t].left = 0 \/ frame[t].left > 0)
    BY TimeLeft, EventLoopAssumption DEF InTime, Timed
  <2> QED
    BY <2>1, <2>2 DEF MayTick, TimeIsUp
<1> QED
  BY <1>1, <1>2, <1>3, <1>4, PTL

\* The wait of t is over some day if n things can still happen; induction on n,
\* which holds of any formula, and which the provers cannot instantiate with
\* this one.
Ends(t, n) == [](Left(t, n) => <>(t \notin Timed))
Inducts(t) ==
  (\A n \in Nat : (\A m \in 0 .. n - 1 : Ends(t, m)) => Ends(t, n))
    => \A n \in Nat : Ends(t, n)

\* A wait() with a timeout returns (EpollDescriptor.hxx:299-304), whatever the
\* number of loops, signals and streams: a signal starts the timeout again, but
\* the signals are finitely many.
THEOREM WaitsComplete ==
  Spec /\ []StepsEnabled /\ (\A t \in Loops : Inducts(t)) => WaitsEnd
<1>1. ASSUME NEW w \in Loops
      PROVE  Spec /\ []StepsEnabled /\ Inducts(w)
               => (Harmless /\ w \in Timed ~> w \notin Timed)
  <2>1. ASSUME NEW n \in Nat
        PROVE  Spec /\ []StepsEnabled =>
                 ((\A m \in 0 .. n - 1 : Ends(w, m)) => Ends(w, n))
    <3>1. (\A m \in 0 .. n - 1 : Ends(w, m)) =>
            [](\A m \in 0 .. n - 1 : Left(w, m) => <>(w \notin Timed))
      BY DEF Ends
    <3>2. (\A m \in 0 .. n - 1 : Left(w, m) => <>(w \notin Timed))
            => ((\E m \in 0 .. n - 1 : Left(w, m)) => <>(w \notin Timed))
      OBVIOUS
    <3>3. Less(w, n) => w \notin Timed \/ \E m \in 0 .. n - 1 : Left(w, m)
      BY DEF Less, Left
    <3> QED
      BY <3>1, <3>2, <3>3, Progress, PTL DEF Ends
  <2>2. Spec /\ []StepsEnabled =>
          \A n \in Nat : (\A m \in 0 .. n - 1 : Ends(w, m)) => Ends(w, n)
    BY <2>1
  <2>3. Spec /\ []StepsEnabled /\ Inducts(w) => \A n \in Nat : Ends(w, n)
    BY <2>2 DEF Inducts
  <2>4. (\A n \in Nat : Ends(w, n)) =>
          [](\A n \in Nat : Left(w, n) => <>(w \notin Timed))
    BY DEF Ends
  <2>5. (\A n \in Nat : Left(w, n) => <>(w \notin Timed))
          => ((\E n \in Nat : Left(w, n)) => <>(w \notin Timed))
    OBVIOUS
  <2>6. Harmless /\ w \in Timed => \E n \in Nat : Left(w, n)
    BY RankType DEF Ranked, Left, Waiting
  <2> QED
    BY <2>3, <2>4, <2>5, <2>6, PTL
<1> QED
  BY <1>1 DEF WaitsEnd

\* Every call of a program without hazards ends, but a write to a full stream.
THEOREM CallsComplete ==
  Spec /\ []StepsEnabled /\ (\A t \in Loops : Inducts(t)) => CallsEnd
BY ReadsComplete, WritesComplete, WaitsComplete DEF CallsEnd
=============================================================================
