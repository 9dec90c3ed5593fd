------------------------------ MODULE EventLoop ------------------------------
(***************************************************************************)
(* Loops over an EpollDescriptor, which read (ReadableInterface) the       *)
(* streams whose events they get, while a thread at the other ends writes  *)
(* (WritableInterface).  A stream is a pipe or a connection: its read end  *)
(* is a number of the table, its write end belongs to the writer.          *)
(*                                                                         *)
(* An event holds a number, as EpollEvent(events, fd) does; the file it    *)
(* was about is a ghost.  A step is a system call, with what the library   *)
(* does when it returns; a retry is a call that goes on.  Each behaviour   *)
(* chooses a kind of program: its style, and the hazards it meets.         *)
(***************************************************************************)
EXTENDS FdTable, FiniteSetsExt

CONSTANTS
  Loops,       \* the threads that wait for events
  Writer,      \* the thread at the other ends
  MaxEvents,   \* the size of the array given to wait()
  Capacity,    \* bytes the kernel keeps for a stream
  MaxBytes,    \* bound: bytes written to the open streams
  Timeout,     \* the finite timeout of a wait()
  MaxSignals,  \* bound: signals that interrupt a call
  Programs     \* kinds of programs

\* oneshot: several loops, the entries registered with EPOLLONESHOT.
\* nonblock: descriptors with O_NONBLOCK.
\* handler: calls with an error handler, instead of those that retry and throw.
\* timed: waits with a timeout, instead of -1.
\* signals: some of its calls are interrupted.
Styles == {"oneshot", "nonblock", "handler", "timed", "signals"}

\* shared: several loops without EPOLLONESHOT.
\* crossclose: a handler closes a descriptor that has a pending event.
\* zero: a write() of no bytes.
\* reset: connections that peers reset.
Hazards == {"shared", "crossclose", "zero", "reset"}

ASSUME EventLoopAssumption ==
  /\ Writer \notin Loops
  /\ MaxEvents \in Nat \ {0} /\ Capacity \in Nat \ {0} /\ MaxBytes \in Nat
  /\ Timeout \in Nat \ {0} /\ MaxSignals \in Nat
  /\ Programs \subseteq SUBSET (Styles \cup Hazards)

ASSUME FiniteLoops == IsFiniteSet(Loops)

VARIABLES
  ep,          \* _fd of the EpollDescriptor
  interest,    \* interest[f]: the state of file f in its interest list
  stream,      \* stream[f]: the stream opened as file f
  batch,       \* batch[t]: the events t got and did not handle yet
  frame,       \* frame[t]: the call of thread t, or the handler it runs
  errno,       \* errno[t]
  signals,     \* number of signals that interrupted a call
  aborted,     \* the errno the program was aborted for, or "no"
  program      \* the kind of program

kernel == <<table, opened, interest, stream>>
vars == <<kernel, ep, batch, frame, errno, signals, aborted, program>>

Threads == Loops \cup {Writer}
Forever == -1
Errnos == {"0", "EINTR", "EAGAIN", "EPIPE"}
Events == [fd : Fds, file : Files]
NoEvent == [fd |-> Invalid, file |-> NoFile]

\* sent: what the writer was told; got: what the loops were told.
Streams == [peer : {"none", "open", "closed", "reset"}, sent : Nat,
            buffered : 0 .. Capacity, got : Nat]
NoStream == [peer |-> "none", sent |-> 0, buffered |-> 0, got |-> 0]

Frames == [op : {"idle", "wait", "read", "handle", "write"},
           ev : [fd : Numbers, file : 0 .. MaxOpens], len : 0 .. MaxBytes,
           left : {Forever} \cup (0 .. Timeout), elapsed : Nat, interrupts : Nat]

\* The kernel takes k bytes from the writer, gives k to a reader, and notes the
\* end of the writer; a reset drops the bytes.
Accept(s, k) == [s EXCEPT !.buffered = @ + k, !.sent = @ + k]
Give(s, k) == [s EXCEPT !.buffered = @ - k, !.got = @ + k]
Hangup(s, how) ==
  [s EXCEPT !.peer = how, !.buffered = IF how = "reset" THEN 0 ELSE @]

Idle == [op |-> "idle", ev |-> NoEvent, len |-> 0,
         left |-> 0, elapsed |-> 0, interrupts |-> 0]

Style(s) == s \in program
HasHandler == Style("handler")
Careful == program \cap {"shared", "crossclose"} = {}
Harmless == program \cap Hazards = {}
OneLoop == program \cap {"oneshot", "shared"} = {}

Is(f) == \E n \in Fds : table[n] = f
Ready(f) == stream[f].buffered > 0 \/ stream[f].peer \in {"closed", "reset"}
IsStream(n) == table[n] # NoFile /\ n # ep
Registered(n) == IsStream(n) /\ interest[table[n]] # "none"

\* A call that blocks may be interrupted.
MaySignal == Style("signals") /\ signals < MaxSignals

\* Thread t runs code of the program: between two calls, or in a handler.
Running(t) == aborted = "no" /\ frame[t].op \in {"idle", "handle"}
Calls(t, op) == aborted = "no" /\ frame[t].op = op
-----------------------------------------------------------------------------
Init ==
  /\ TableInit
  /\ ep = Invalid
  /\ interest = [f \in Files |-> "none"]
  /\ stream = [f \in Files |-> NoStream]
  /\ batch = [t \in Loops |-> {}]
  /\ frame = [t \in Threads |-> Idle]
  /\ errno = [t \in Threads |-> "0"]
  /\ signals = 0
  /\ aborted = "no"
  /\ program \in Programs

\* The loops of this program.
First == CHOOSE t \in Loops : TRUE
Runs(t) == OneLoop => t = First

\* create(), createinit(); a failing epoll_create(2) leaves -1.
Create(t) ==
  /\ Running(t) /\ Runs(t) /\ ep = Invalid
  /\ \E n \in Fds : SysOpen(n) /\ ep' = n
  /\ UNCHANGED <<interest, stream, batch, frame, errno, signals, aborted, program>>

\* The EpollDescriptor is closed, when no loop needs it any more.
CloseEpoll ==
  /\ aborted = "no" /\ ep # Invalid
  /\ \A t \in Loops : frame[t] = Idle /\ batch[t] = {}
  /\ SysClose(ep)
  /\ ep' = Invalid
  /\ interest' = [f \in Files |-> "none"]
  /\ UNCHANGED <<stream, batch, frame, errno, signals, aborted, program>>

\* A pipe or a connection is opened.
Connect ==
  /\ aborted = "no"
  /\ \E n \in Fds : SysOpen(n)
  /\ stream' = [stream EXCEPT ![opened + 1].peer = "open"]
  /\ UNCHANGED <<interest, ep, batch, frame, errno, signals, aborted, program>>

\* add() of a stream that is not registered: throwctl() asserts EEXIST away.
Add(t, n) ==
  /\ Running(t) /\ Runs(t) /\ ep # Invalid /\ IsStream(n) /\ ~Registered(n)
  /\ interest' = [interest EXCEPT ![table[n]] = "armed"]
  /\ UNCHANGED <<table, opened, stream, ep, batch, frame, errno, signals,
                 aborted, program>>

\* Where a careful program drops a stream: a single loop, when it has no event
\* of it left; one of several, in the handler of that stream.
MayDrop(t, n) ==
  IF OneLoop THEN \/ n \notin {e.fd : e \in batch[t]}
                  \/ Style("crossclose")
             ELSE frame[t].op = "handle" /\ frame[t].ev.fd = n

\* A handler that drops its own stream is done.
Drop(t, n) ==
  /\ interest' = [interest EXCEPT ![table[n]] = "none"]
  /\ frame' = IF frame[t].ev.fd = n THEN [frame EXCEPT ![t] = Idle] ELSE frame

\* del().
Del(t, n) ==
  /\ Running(t) /\ Runs(t) /\ ep # Invalid /\ Registered(n) /\ MayDrop(t, n)
  /\ Drop(t, n)
  /\ UNCHANGED <<table, opened, stream, ep, batch, errno, signals, aborted,
                 program>>

\* The read end of a stream is closed: its entry and its bytes go with it.
Close(t, n) ==
  /\ Running(t) /\ Runs(t) /\ IsStream(n) /\ MayDrop(t, n)
  /\ SysClose(n)
  /\ Drop(t, n)
  /\ stream' = [stream EXCEPT ![table[n]] =
                  [NoStream EXCEPT !.peer = stream[table[n]].peer]]
  /\ UNCHANGED <<ep, batch, errno, signals, aborted, program>>

\* mod() at the end of a handler, which arms the entry again; throwctl()
\* asserts the errors of a number that is closed or not registered away.
Mod(t) ==
  LET n == frame[t].ev.fd
  IN  /\ Calls(t, "handle") /\ ep # Invalid
      /\ Style("oneshot") \/ ~Careful
      /\ IF Registered(n)
         THEN /\ interest' = [interest EXCEPT ![table[n]] = "armed"]
              /\ aborted' = aborted
         ELSE /\ aborted' = IF table[n] = NoFile THEN "EBADF" ELSE "ENOENT"
              /\ interest' = interest
      /\ frame' = [frame EXCEPT ![t] = Idle]
      /\ UNCHANGED <<table, opened, stream, ep, batch, errno, signals, program>>

\* The handler of an event returns.
Finish(t) ==
  /\ Calls(t, "handle")
  /\ frame' = [frame EXCEPT ![t] = Idle]
  /\ UNCHANGED <<kernel, ep, batch, errno, signals, aborted, program>>
-----------------------------------------------------------------------------
WaitTime == IF Style("timed") THEN Timeout ELSE Forever

\* wait(events, MaxEvents, timeout), in the form that retries or with a handler.
Wait(t) ==
  /\ Calls(t, "idle") /\ Runs(t) /\ batch[t] = {} /\ ep # Invalid
  /\ frame' = [frame EXCEPT ![t] =
                 [Idle EXCEPT !.op = "wait", !.left = WaitTime]]
  /\ UNCHANGED <<kernel, ep, batch, errno, signals, aborted, program>>

\* What the kernel may report.
Pending == {e \in Events : /\ table[e.fd] = e.file
                           /\ interest[e.file] = "armed" /\ Ready(e.file)}

\* epoll_wait(2) returns events; those of a one-shot entry disarm it.
WaitReturns(t) ==
  /\ Calls(t, "wait") /\ Pending # {}
  /\ \E s \in SUBSET Pending :
       /\ Cardinality(s) <= MaxEvents
       /\ s = Pending \/ Cardinality(s) = MaxEvents
       /\ batch' = [batch EXCEPT ![t] = s]
       /\ interest' = [f \in Files |->
            IF Style("oneshot") /\ f \in {e.file : e \in s} THEN "disarmed"
            ELSE interest[f]]
  /\ frame' = [frame EXCEPT ![t] = Idle]
  /\ UNCHANGED <<table, opened, stream, ep, errno, signals, aborted, program>>

\* Mutant: a return of 0 is looked up in errno, as write() does.
WaitTimesOut_retriesOnZero(t) ==
  /\ Calls(t, "wait") /\ Pending = {} /\ frame[t].left = 0
  /\ frame' = [frame EXCEPT ![t] =
       IF errno[t] = "EINTR" THEN [@ EXCEPT !.left = Timeout] ELSE Idle]
  /\ UNCHANGED <<kernel, ep, batch, errno, signals, aborted, program>>

\* It returns 0 at the end of the timeout.
WaitTimesOut(t) ==
  /\ Calls(t, "wait") /\ Pending = {} /\ frame[t].left = 0
  /\ frame' = [frame EXCEPT ![t] = Idle]
  /\ UNCHANGED <<kernel, ep, batch, errno, signals, aborted, program>>

\* EINTR: the handler gets it, the other form starts again with the whole
\* timeout.
WaitInterrupted(t) ==
  /\ Calls(t, "wait") /\ Pending = {} /\ MaySignal
  /\ signals' = signals + 1
  /\ errno' = [errno EXCEPT ![t] = "EINTR"]
  /\ frame' = [frame EXCEPT ![t] =
       IF HasHandler THEN Idle
       ELSE [@ EXCEPT !.left = WaitTime,
                      !.interrupts = frame[t].interrupts + 1]]
  /\ UNCHANGED <<kernel, ep, batch, aborted, program>>

\* The loops that wait with a timeout.
Timed == {t \in Loops : frame[t].op = "wait" /\ frame[t].left # Forever}

\* Time passes; the kernel is punctual.
Tick ==
  /\ aborted = "no"
  /\ Timed # {} /\ \A t \in Timed : frame[t].left > 0
  /\ frame' = [t \in Threads |->
       IF t \in Timed THEN [frame[t] EXCEPT !.left = @ - 1, !.elapsed = @ + 1]
       ELSE frame[t]]
  /\ UNCHANGED <<kernel, ep, batch, errno, signals, aborted, program>>
-----------------------------------------------------------------------------
\* The loop takes an event out of its batch and reads that descriptor.
StartRead(t, e) ==
  /\ Calls(t, "idle") /\ e \in batch[t]
  /\ batch' = [batch EXCEPT ![t] = @ \ {e}]
  /\ frame' = [frame EXCEPT ![t] =
                 [Idle EXCEPT !.op = "read", !.ev = e]]
  /\ UNCHANGED <<kernel, ep, errno, signals, aborted, program>>

\* The file read(2) finds behind the number.
Source(t) == table[frame[t].ev.fd]

Handling(t) == [Idle EXCEPT !.op = "handle", !.ev = frame[t].ev]

\* Mutant: the form that throws reads until its buffer is full.
ReadTakes_fillsBuffer(t) ==
  /\ Calls(t, "read") /\ Source(t) # NoFile
  /\ \E k \in 1 .. stream[Source(t)].buffered :
       /\ stream' = [stream EXCEPT ![Source(t)].buffered = @ - k,
                                   ![Source(t)].got = @ + k]
       /\ frame' = [frame EXCEPT ![t] =
            IF ~HasHandler /\ k = 1 THEN @ ELSE Handling(t)]
  /\ UNCHANGED <<table, opened, interest, ep, batch, errno, signals, aborted,
                 program>>

\* read(2) returns some bytes, and read() their number.
ReadTakes(t) ==
  /\ Calls(t, "read") /\ Source(t) # NoFile
  /\ \E k \in 1 .. stream[Source(t)].buffered :
       stream' = [stream EXCEPT ![Source(t)] = Give(@, k)]
  /\ frame' = [frame EXCEPT ![t] = Handling(t)]
  /\ UNCHANGED <<table, opened, interest, ep, batch, errno, signals, aborted,
                 program>>

\* Mutant: a return of 0 is looked up in errno, as write() does.
ReadEof_retries(t) ==
  /\ Calls(t, "read") /\ Source(t) # NoFile
  /\ stream[Source(t)].peer = "closed" /\ stream[Source(t)].buffered = 0
  /\ errno[t] \notin {"EINTR", "EAGAIN"}
  /\ frame' = [frame EXCEPT ![t] = Handling(t)]
  /\ UNCHANGED <<kernel, ep, batch, errno, signals, aborted, program>>

\* read(2) returns 0.
ReadEof(t) ==
  /\ Calls(t, "read") /\ Source(t) # NoFile
  /\ stream[Source(t)].peer = "closed" /\ stream[Source(t)].buffered = 0
  /\ frame' = [frame EXCEPT ![t] = Handling(t)]
  /\ UNCHANGED <<kernel, ep, batch, errno, signals, aborted, program>>

\* Nothing to read yet: EAGAIN, or EINTR of a read that blocks.  The handler
\* gets it, the other form tries again.
ReadAgain(t, e) ==
  /\ Calls(t, "read") /\ Source(t) # NoFile /\ ~Ready(Source(t))
  /\ IF Style("nonblock")
     THEN e = "EAGAIN" /\ UNCHANGED signals
     ELSE e = "EINTR" /\ MaySignal /\ signals' = signals + 1
  /\ errno' = [errno EXCEPT ![t] = e]
  /\ frame' = [frame EXCEPT ![t] =
                 IF HasHandler THEN Handling(t) ELSE @]
  /\ UNCHANGED <<kernel, ep, batch, aborted, program>>

\* EBADF, which throwread() asserts away, or ECONNRESET, which throwErrno()
\* has no exception for; a handler gets either.
ReadFails(t, e) ==
  /\ Calls(t, "read")
  /\ \/ e = "EBADF" /\ Source(t) = NoFile
     \/ e = "ECONNRESET" /\ Source(t) # NoFile /\ stream[Source(t)].peer = "reset"
  /\ aborted' = IF HasHandler THEN "no" ELSE e
  /\ frame' = [frame EXCEPT ![t] = Handling(t)]
  /\ UNCHANGED <<kernel, ep, batch, errno, signals, program>>
-----------------------------------------------------------------------------
\* The other end is closed or, a connection with "reset", reset.
ClosePeer(f, how) ==
  /\ aborted = "no" /\ stream[f].peer = "open"
  /\ frame[Writer].op = "write" => frame[Writer].ev.file # f
  /\ how = "closed" \/ (how = "reset" /\ Style("reset"))
  /\ stream' = [stream EXCEPT ![f] = Hangup(@, how)]
  /\ UNCHANGED <<table, opened, interest, ep, batch, frame, errno, signals,
                 aborted, program>>

\* The bytes written to the streams whose read end is open, for the bound.
Written == MapThenSumSet(LAMBDA f : stream[f].sent, Files)

\* write(src, len) begins.
StartWrite(f, len) ==
  /\ Calls(Writer, "idle") /\ stream[f].peer = "open"
  /\ Written + len <= MaxBytes
  /\ len = 0 => Style("zero")
  /\ frame' = [frame EXCEPT ![Writer] =
                 [Idle EXCEPT !.op = "write", !.len = len,
                              !.ev = [NoEvent EXCEPT !.file = f]]]
  /\ UNCHANGED <<kernel, ep, batch, errno, signals, aborted, program>>

Target == frame[Writer].ev.file
Full == stream[Target].buffered = Capacity
Writes == Calls(Writer, "write") /\ frame[Writer].len > 0

\* Mutant: errno is looked at whatever write(2) returned.
WriteTakes_looksAtErrno ==
  /\ Writes /\ Is(Target)
  /\ \E k \in 1 .. frame[Writer].len :
       /\ stream[Target].buffered + k <= Capacity
       /\ IF ~HasHandler /\ errno[Writer] \in {"EINTR", "EAGAIN"}
          THEN /\ stream' = [stream EXCEPT ![Target].buffered = @ + k]
               /\ UNCHANGED frame
          ELSE /\ stream' = [stream EXCEPT ![Target].buffered = @ + k,
                                           ![Target].sent = @ + k]
               /\ frame' = [frame EXCEPT ![Writer] = Idle]
  /\ UNCHANGED <<table, opened, interest, ep, batch, errno, signals, aborted,
                 program>>

\* write(2) takes some of the bytes, and write() returns their number.
WriteTakes ==
  /\ Writes /\ Is(Target)
  /\ \E k \in 1 .. frame[Writer].len :
       /\ stream[Target].buffered + k <= Capacity
       /\ stream' = [stream EXCEPT ![Target] = Accept(@, k)]
  /\ frame' = [frame EXCEPT ![Writer] = Idle]
  /\ UNCHANGED <<table, opened, interest, ep, batch, errno, signals, aborted,
                 program>>

\* No room: EAGAIN, or EINTR of a write that blocks, as in ReadAgain.
WriteAgain(e) ==
  /\ Writes /\ Is(Target) /\ Full
  /\ IF Style("nonblock")
     THEN e = "EAGAIN" /\ UNCHANGED signals
     ELSE e = "EINTR" /\ MaySignal /\ signals' = signals + 1
  /\ errno' = [errno EXCEPT ![Writer] = e]
  /\ frame' = [frame EXCEPT ![Writer] = IF HasHandler THEN Idle ELSE @]
  /\ UNCHANGED <<kernel, ep, batch, aborted, program>>

\* Mutant: there is no exception for EPIPE.
Thrown_forgetsPipe == {}

\* SystemException::throwErrno: of the errors that end a write, it throws
\* EPIPE and aborts for 0.
Thrown == {"EPIPE"}

\* Mutant: EPIPE makes the form that throws try again.
WritePipe_retries ==
  /\ Writes /\ ~Is(Target)
  /\ errno' = [errno EXCEPT ![Writer] = "EPIPE"]
  /\ frame' = IF HasHandler THEN [frame EXCEPT ![Writer] = Idle] ELSE frame
  /\ UNCHANGED <<kernel, ep, batch, signals, aborted, program>>

\* EPIPE of a stream whose read end is closed.
WritePipe ==
  /\ Writes /\ ~Is(Target)
  /\ errno' = [errno EXCEPT ![Writer] = "EPIPE"]
  /\ aborted' = IF HasHandler \/ "EPIPE" \in Thrown
                THEN "no" ELSE "EPIPE"
  /\ frame' = [frame EXCEPT ![Writer] = Idle]
  /\ UNCHANGED <<kernel, ep, batch, signals, program>>

\* write(2) of nothing returns 0, which write() takes for an error and looks up
\* in errno: it tries again for ever (no step), throws an old error, or aborts.
WriteZero ==
  /\ Calls(Writer, "write") /\ frame[Writer].len = 0
  /\ ~HasHandler => errno[Writer] \notin {"EINTR", "EAGAIN"}
  /\ aborted' = IF HasHandler \/ errno[Writer] \in Thrown
                THEN "no" ELSE errno[Writer]
  /\ frame' = [frame EXCEPT ![Writer] = Idle]
  /\ UNCHANGED <<kernel, ep, batch, errno, signals, program>>
-----------------------------------------------------------------------------
LoopCalls(t) ==
  \/ Create(t) \/ Mod(t) \/ Finish(t)
  \/ \E n \in Fds : Add(t, n) \/ Del(t, n) \/ Close(t, n)
  \/ Wait(t)
  \/ \E e \in batch[t] : StartRead(t, e)

WriterCalls ==
  \/ \E f \in Files, len \in 0 .. MaxBytes : StartWrite(f, len)
  \/ \E f \in Files, how \in {"closed", "reset"} : ClosePeer(f, how)

WaitEnds(t) == WaitReturns(t) \/ WaitTimesOut(t)
ReadEnds(t) == ReadTakes(t) \/ ReadEof(t)
WriteEnds == WriteTakes \/ WritePipe

Returns ==
  \/ \E t \in Loops :
       \/ WaitEnds(t) \/ WaitInterrupted(t) \/ ReadEnds(t)
       \/ \E e \in {"EAGAIN", "EINTR"} : ReadAgain(t, e)
       \/ \E e \in {"EBADF", "ECONNRESET"} : ReadFails(t, e)
  \/ WriteEnds \/ WriteZero
  \/ \E e \in {"EAGAIN", "EINTR"} : WriteAgain(e)

Next ==
  \/ \E t \in Loops : LoopCalls(t)
  \/ WriterCalls \/ Returns \/ Tick \/ Connect \/ CloseEpoll

\* The kernel answers a call it can answer, and time passes.
TickFair == WF_vars(Tick)
WriteFair == WF_vars(WriteEnds)
WaitFair(t) == WF_vars(WaitEnds(t))
ReadFair(t) == WF_vars(ReadEnds(t))

Fairness ==
  /\ TickFair /\ WriteFair
  /\ \A t \in Loops : WaitFair(t) /\ ReadFair(t)

Spec == Init /\ [][Next]_vars /\ Fairness
-----------------------------------------------------------------------------
TypeOK ==
  /\ TableTypeOK
  /\ ep \in Numbers
  /\ interest \in [Files -> {"none", "armed", "disarmed"}]
  /\ stream \in [Files -> Streams]
  /\ batch \in [Loops -> SUBSET Events]
  /\ frame \in [Threads -> Frames]
  /\ errno \in [Threads -> Errnos]
  /\ signals \in 0 .. MaxSignals

\* What the writer was told it wrote is what the loops were told they read and
\* what the stream still holds: interrupted and partial transfers lose and
\* repeat nothing (ReadableDescriptor.hxx:46-53, WritableDescriptor.hxx:48-56).
BytesOnce ==
  \A f \in Files : Is(f) /\ stream[f].peer # "reset" =>
    stream[f].sent = stream[f].got + stream[f].buffered

\* The state keeps its types and no byte is lost or repeated.
Conserved == TypeOK /\ BytesOnce

\* In a program that shares entries only as one-shot and closes no descriptor
\* with a pending event, a read done for an event meets the file of the event
\* and finds bytes or its end: it neither blocks, nor spins on EAGAIN, nor takes
\* what belongs to another (EpollDescriptor.hxx:279, ReadableDescriptor.hxx:48).
ReadsFindData ==
  Careful => \A t \in Loops : frame[t].op = "read" =>
    Source(t) = frame[t].ev.file /\ Ready(Source(t))

\* An assertion about EBADF or ENOENT fails only after a descriptor with a
\* pending event was closed; throwErrno() has no exception only for the old
\* errno of an empty write and for a reset connection.
AbortsOnlyByHazard ==
  /\ aborted \in {"EBADF", "ENOENT"} => ~Careful
  /\ aborted = "0" => Style("zero")
  /\ aborted = "ECONNRESET" => Style("reset")
  /\ aborted \in {"no", "EBADF", "ENOENT", "0", "ECONNRESET"}

\* A wait lasts longer than its timeout only by the signals that interrupted
\* it, and then by less than a timeout each (EpollDescriptor.hxx:299-304).
LateOnlyBySignals ==
  \A t \in Timed : LET c == frame[t] IN
    c.elapsed + c.left <= Timeout * (1 + c.interrupts)

\* read(2) has bytes to give, or the end of the stream; write(2) has room for a
\* byte, or nobody to give it to; a wait's time is up; time can pass.
MayRead(t) ==
  /\ Calls(t, "read") /\ Source(t) # NoFile
  /\ stream[Source(t)].buffered > 0 \/ stream[Source(t)].peer = "closed"
MayWrite == Writes /\ ~Full
TimeIsUp(t) == aborted = "no" /\ t \in Timed /\ frame[t].left = 0
MayTick == aborted = "no" /\ Timed # {} /\ \A t \in Timed : frame[t].left > 0

\* The steps that fairness is about are possible where the system lets them be.
StepsEnabled ==
  /\ \A t \in Loops : MayRead(t) => ENABLED <<ReadEnds(t)>>_vars
  /\ MayWrite => ENABLED <<WriteEnds>>_vars
  /\ \A t \in Loops : TimeIsUp(t) => ENABLED <<WaitEnds(t)>>_vars
  /\ MayTick => ENABLED <<Tick>>_vars

\* A read of a program without hazards is never stuck, and the program goes on.
CallsUnblocked ==
  Harmless => /\ aborted = "no"
              /\ \A t \in Loops : frame[t].op = "read" => MayRead(t)

\* Calls go on: a read finds bytes or the end, a write does room or a closed read
\* end unless its stream is full, a wait whose time is up returns, and else time
\* goes on (ReadableDescriptor.hxx:46-53, WritableDescriptor.hxx:48-56,
\* EpollDescriptor.hxx:299-304).
CallsGoOn == StepsEnabled /\ CallsUnblocked

\* In a program without hazards a read done for an event ends, a write ends
\* unless the stream gets full, and so does a wait with a timeout, as the
\* signals are finitely many.
ReadsEnd == \A t \in Loops : Harmless /\ frame[t].op = "read" ~> frame[t].op # "read"
WritesEnd == Harmless /\ Writes ~> ~Writes \/ Full
WaitsEnd == \A w \in Loops : Harmless /\ w \in Timed ~> w \notin Timed

CallsEnd == ReadsEnd /\ WritesEnd /\ WaitsEnd
=============================================================================
