-------------------------------- MODULE Tcp --------------------------------
(***************************************************************************)
(* TcpServerSocket and TcpSocket: handles of TCP sockets, used by several  *)
(* threads that compete for ports.  What matters in them are the calls of  *)
(* several steps, listeninit() and connectinit(): each step may fail, and  *)
(* between the steps other threads bind, listen and connect.               *)
(*                                                                         *)
(* Every call comes in two forms: one throws (throwconnect(), throwbind()  *)
(* and so on assert that errno is none of those a correct program cannot   *)
(* get, then SystemException throws, or aborts for an errno it has no      *)
(* exception for), one hands the result to the caller's handler.  Moving   *)
(* handles is left to ClosingDescriptor, their base.                       *)
(***************************************************************************)
EXTENDS TcpStack, FiniteSets

CONSTANTS
  Threads, Servers, Clients, NoHandle,
  Programs     \* the kinds of programs: sets of Hazards they may meet

\* short:       listeninit() with a handler, in an overload with defaults
\* reconnect:   connect() again, before the result of the last is known
\* aborted:     a peer gives a connection up before it is accepted
\* unreachable: connect(2) fails with an errno such as ENETUNREACH
Hazards == {"short", "reconnect", "aborted", "unreachable"}
Forms == {"throws", "handler", "short"}

ASSUME TcpProgramsAssumption ==
  /\ Servers \cap Clients = {} /\ NoHandle \notin Servers \cup Clients
  /\ Threads \cap (Servers \cup Clients) = {}
  /\ Programs \subseteq SUBSET Hazards

VARIABLES
  sock,        \* sock[h]: the socket _fd of h names, or NoSocket
  asked,       \* asked[s]: the program asked that s shares its port
  frame,       \* frame[t]: the listeninit() or connectinit() t is inside
  outcome,     \* "runs", or "abort": an assertion or abort()
  hazards      \* this program's kind

vars == <<sk, made, sock, asked, frame, outcome, hazards>>

Handles == Servers \cup Clients

Errnos == {"none", "ENOBUFS", "EMFILE", "EADDRINUSE", "ECONNREFUSED", "EINTR", "EINPROGRESS",
           "EALREADY", "EISCONN", "ECONNABORTED", "ENETUNREACH", "EIO"}

Idle == [op |-> "idle", step |-> "none", this |-> NoHandle, sock |-> NoSocket,
         form |-> "throws", share |-> FALSE, port |-> NoPort,
         errno |-> "none", cause |-> "none"]

\* sock is the local ret; errno is the thread's errno and cause what the step
\* that failed set it to.
Frames == [op : {"idle", "listeninit", "connectinit"},
           step : {"none", "setreuseport", "bind", "listen", "connect",
                   "close", "handler"},
           this : Handles \cup {NoHandle}, sock : Sockets \cup {NoSocket},
           form : Forms, share : BOOLEAN, port : Ports \cup {NoPort},
           errno : Errnos, cause : Errnos]

valid(h) == sock[h] # NoSocket

\* The flags of open() and openinit(): only connect(2) tells them apart here.
Flags(h) == IF h \in Clients THEN BOOLEAN ELSE {FALSE}

\* Thread t may start a call on h, which nobody else is using.
Usable(t, h) ==
  outcome = "runs" /\ frame[t] = Idle /\ \A u \in Threads : frame[u].this # h
-----------------------------------------------------------------------------
Init ==
  /\ TcpInit
  /\ sock = [h \in Handles |-> NoSocket]
  /\ asked = [s \in Sockets |-> FALSE]
  /\ frame = [t \in Threads |-> Idle]
  /\ outcome = "runs"
  /\ hazards \in Programs

\* Mutant: the address in use has no exception.
Thrown_forgetsInUse ==
  {"ENOBUFS", "EMFILE", "ECONNREFUSED", "EINTR", "EINPROGRESS", "EIO"}

\* SystemException::throwErrno: the errno it throws; others abort.
Thrown ==
  {"ENOBUFS", "EMFILE", "EADDRINUSE", "ECONNREFUSED", "EINTR", "EINPROGRESS", "EIO"}

\* throwconnect(): what it asserts errno is not.
ConnectAsserts == {"EALREADY", "EISCONN"}

\* A call ends with errno e.  A handler takes it; the other form throws it, or
\* is the end of the program.
Survivable(form, e) ==
  e = "none" \/ form # "throws" \/ e \in Thrown \ ConnectAsserts

After(form, e) == outcome' = IF Survivable(form, e) THEN outcome ELSE "abort"

\* sock.open() of an empty handle; a failure leaves it empty.
OpenSocket(t, h, nonblock) ==
  /\ Usable(t, h) /\ ~valid(h)
  /\ SysSocket(made + 1, nonblock)
  /\ sock' = [sock EXCEPT ![h] = made + 1]
  /\ UNCHANGED <<asked, frame, outcome, hazards>>

\* close() and the destructor.
Close(t, h) ==
  /\ Usable(t, h) /\ valid(h)
  /\ SysClose(sock[h])
  /\ sock' = [sock EXCEPT ![h] = NoSocket]
  /\ UNCHANGED <<asked, frame, outcome, hazards>>

\* setreuseport() and setreuseaddr(), before bind().
SetReusePort(t, h, allow) ==
  /\ Usable(t, h) /\ valid(h) /\ sk[sock[h]].st = "fresh"
  /\ sk' = [sk EXCEPT ![sock[h]].reuseport = allow]
  /\ asked' = [asked EXCEPT ![sock[h]] = allow]
  /\ UNCHANGED <<made, sock, frame, outcome, hazards>>

SetReuseAddr(t, h, allow) ==
  /\ Usable(t, h) /\ valid(h) /\ sk[sock[h]].st = "fresh"
  /\ sk' = [sk EXCEPT ![sock[h]].reuseaddr = allow]
  /\ UNCHANGED <<made, sock, asked, frame, outcome, hazards>>

\* bind() and listen(); EADDRINUSE changes nothing.
Bind(t, h, p) ==
  /\ Usable(t, h) /\ valid(h) /\ sk[sock[h]].st = "fresh"
  /\ ~BindConflict(sock[h], p)
  /\ SysBind(sock[h], p)
  /\ UNCHANGED <<sock, asked, frame, outcome, hazards>>

Listen(t, h) ==
  /\ Usable(t, h) /\ valid(h) /\ sk[sock[h]].st = "bound"
  /\ ~ListenConflict(sock[h])
  /\ SysListen(sock[h])
  /\ UNCHANGED <<sock, asked, frame, outcome, hazards>>

\* accept(), into a new TcpSocket.  A full descriptor table or an empty queue
\* of a non-blocking listener changes nothing.
Accept(t, h, c, form) ==
  /\ Usable(t, h) /\ Usable(t, c) /\ valid(h) /\ ~valid(c)
  /\ sk[sock[h]].st = "listening"
  /\ \/ /\ SysAccept(sock[h], made + 1)
        /\ sock' = [sock EXCEPT ![c] = made + 1]
        /\ UNCHANGED <<asked, frame, outcome, hazards>>
     \/ /\ "aborted" \in hazards /\ sk[sock[h]].queue > 0
        /\ SysAbortPending(sock[h])
        /\ After(form, "ECONNABORTED")
        /\ UNCHANGED <<sock, asked, frame, hazards>>
-----------------------------------------------------------------------------
\* connect(2) of s to p ends with the result e, "none" if it succeeds.  A
\* blocking call waits for a connection in progress; one that is interrupted,
\* or that does not block, leaves it in progress.
ConnectResult(s, p, e) ==
  LET st == sk[s].st
  IN  \/ /\ e = "none" /\ st = "fresh" /\ ~sk[s].nonblock
         /\ SysConnect(s, p, "connected")
      \/ e = "none" /\ st = "established" /\ SetState(s, "connected")
      \/ e = "ECONNREFUSED" /\ st = "refused" /\ SetState(s, "fresh")
      \/ /\ e = "ECONNREFUSED" /\ st = "fresh" /\ ~sk[s].nonblock
         /\ Listeners(p) = {} /\ UNCHANGED <<sk, made>>
      \/ /\ e = IF sk[s].nonblock THEN "EINPROGRESS" ELSE "EINTR"
         /\ st = "fresh"
         /\ sk' = [sk EXCEPT ![s].st = "connecting", ![s].peer = p]
         /\ UNCHANGED made
      \/ /\ e = "EALREADY" /\ st = "connecting" /\ sk[s].nonblock
         /\ UNCHANGED <<sk, made>>
      \/ e = "EISCONN" /\ st = "connected" /\ UNCHANGED <<sk, made>>
      \/ /\ e = "ENETUNREACH" /\ st = "fresh" /\ "unreachable" \in hazards
         /\ UNCHANGED <<sk, made>>

\* connect().  A program that does not meet "reconnect" does not call it on a
\* socket that is connected, or whose non-blocking connection is in progress.
Connect(t, h, p, form) ==
  LET s == sock[h]
  IN  /\ Usable(t, h) /\ valid(h)
      /\ sk[s].st = "connected" \/ (sk[s].st = "connecting" /\ sk[s].nonblock)
         => "reconnect" \in hazards
      /\ \E e \in Errnos : ConnectResult(s, p, e) /\ After(form, e)
      /\ UNCHANGED <<sock, asked, frame, hazards>>

\* disconnect().
Disconnect(t, h) ==
  /\ Usable(t, h) /\ valid(h)
  /\ SysDisconnect(sock[h])
  /\ UNCHANGED <<sock, asked, frame, outcome, hazards>>

\* The stack, not the library.
Background ==
  /\ outcome = "runs"
  /\ \E s \in Sockets : Handshake(s)
  /\ UNCHANGED <<sock, asked, frame, outcome, hazards>>
-----------------------------------------------------------------------------
\* The calls of several steps.  Their socket is a local until they return it.

\* The socket of thread t's call goes from step to step.
Go(t, step) == frame' = [frame EXCEPT ![t].step = step]

\* ::socket() at the start of either call, into h.  Its failure leaves nothing to
\* close: the handler is called, or the exception leaves the call.
Begin(t, h, p, op, first, form, share) ==
  /\ Usable(t, h) /\ ~valid(h)
  /\ LET call == [Idle EXCEPT !.op = op, !.this = h, !.form = form,
                              !.share = share, !.port = p]
     IN  \/ /\ \E nonblock \in Flags(h) : SysSocket(made + 1, nonblock)
            /\ frame' = [frame EXCEPT ![t] =
                           [call EXCEPT !.step = first, !.sock = made + 1]]
         \/ /\ form # "throws"
            /\ frame' = [frame EXCEPT ![t] =
                           [call EXCEPT !.step = "handler", !.errno = "EMFILE",
                                        !.cause = "EMFILE"]]
            /\ UNCHANGED <<sk, made>>
  /\ UNCHANGED <<sock, outcome, hazards>>

\* Mutant: every overload drops its template argument.
ListenInit_alwaysShares(t, h, p, form, share) ==
  /\ form = "short" => "short" \in hazards
  /\ Begin(t, h, p, "listeninit", "setreuseport", form, TRUE)
  /\ asked' = IF made' = made THEN asked ELSE [asked EXCEPT ![made'] = share]

\* listeninit<share>().  The overloads that default backlog or flags and take a
\* handler pass no template argument on: the port is shared.
ListenInit(t, h, p, form, share) ==
  LET effective == share \/ form = "short"
  IN  /\ form = "short" => "short" \in hazards
      /\ Begin(t, h, p, "listeninit", IF effective THEN "setreuseport" ELSE "bind",
               form, effective)
      /\ asked' = IF made' = made THEN asked ELSE [asked EXCEPT ![made'] = share]

ConnectInit(t, h, p, form) ==
  Begin(t, h, p, "connectinit", "connect", form, FALSE) /\ UNCHANGED asked

At(t, step) == outcome = "runs" /\ frame[t].step = step

\* A step fails with e: goto err_close, or an exception that destroys ret.
StepFails(t, e) ==
  /\ After(frame[t].form, e)
  /\ frame' = [frame EXCEPT ![t].step = "close", ![t].errno = e, ![t].cause = e]
  /\ UNCHANGED <<sock, asked, hazards>>

\* The last step is done: ret becomes the result.
Return(t) ==
  /\ sock' = [sock EXCEPT ![frame[t].this] = frame[t].sock]
  /\ frame' = [frame EXCEPT ![t] = Idle]
  /\ UNCHANGED <<asked, outcome, hazards>>

StepReusePort(t) ==
  /\ At(t, "setreuseport")
  /\ \/ /\ sk' = [sk EXCEPT ![frame[t].sock].reuseport = TRUE]
        /\ Go(t, "bind")
        /\ UNCHANGED <<made, sock, asked, outcome, hazards>>
     \/ StepFails(t, "ENOBUFS") /\ UNCHANGED <<sk, made>>

StepBind(t) ==
  LET f == frame[t]
  IN  /\ At(t, "bind")
      /\ IF BindConflict(f.sock, f.port)
         THEN StepFails(t, "EADDRINUSE") /\ UNCHANGED <<sk, made>>
         ELSE /\ SysBind(f.sock, f.port) /\ Go(t, "listen")
              /\ UNCHANGED <<sock, asked, outcome, hazards>>

\* What listen(2) fails with.
ListenErrors(s) ==
  {"ENOBUFS"} \cup IF ListenConflict(s) THEN {"EADDRINUSE"} ELSE {}

\* Mutant: the result of listen(2) is not tested.
StepListen_unchecked(t) ==
  LET s == frame[t].sock
  IN  /\ At(t, "listen")
      /\ SysListen(s) \/ UNCHANGED <<sk, made>>
      /\ Return(t)

StepListen(t) ==
  LET s == frame[t].sock
  IN  /\ At(t, "listen")
      /\ \/ ~ListenConflict(s) /\ SysListen(s) /\ Return(t)
         \/ /\ \E e \in ListenErrors(s) : StepFails(t, e)
            /\ UNCHANGED <<sk, made>>

StepConnect(t) ==
  LET f == frame[t]
  IN  /\ At(t, "connect")
      /\ \E e \in Errnos :
           /\ ConnectResult(f.sock, f.port, e)
           /\ IF e = "none" THEN Return(t) ELSE StepFails(t, e)

\* Mutant: goto err, which does not close.
CloseOnError_skips(t) ==
  LET f == frame[t]
  IN  /\ At(t, "close")
      /\ frame' = [frame EXCEPT ![t] =
                     IF f.form = "throws" THEN Idle
                     ELSE [f EXCEPT !.step = "handler", !.sock = NoSocket]]
      /\ UNCHANGED <<sk, made, sock, asked, outcome, hazards>>

\* Mutant: ret.close() with a handler that ignores the result.
CloseOnError_ignores(t) ==
  LET f == frame[t]
  IN  /\ At(t, "close")
      /\ SysClose(f.sock)
      /\ \E e \in {f.errno, "EIO"} :
           frame' = [frame EXCEPT ![t] =
                       IF f.form = "throws" THEN Idle
                       ELSE [f EXCEPT !.step = "handler", !.sock = NoSocket,
                                      !.errno = e]]
      /\ UNCHANGED <<sock, asked, outcome, hazards>>

\* ret is closed, by close() or by its destructor.  If close(2) fails, close()
\* throws, past the handler; the destructor ignores it.  Success leaves errno.
CloseOnError(t) ==
  LET f == frame[t]
  IN  /\ At(t, "close")
      /\ SysClose(f.sock)
      /\ \/ frame' = [frame EXCEPT ![t] = Idle]
         \/ /\ f.form # "throws"
            /\ frame' = [frame EXCEPT ![t].step = "handler", ![t].sock = NoSocket]
      /\ UNCHANGED <<sock, asked, outcome, hazards>>

\* Mutant: the result is built from the error code.
CallHandler_returnsError(t) ==
  /\ At(t, "handler")
  /\ sock' = [sock EXCEPT ![frame[t].this] = MaxSockets + 1]
  /\ frame' = [frame EXCEPT ![t] = Idle]
  /\ UNCHANGED <<sk, made, asked, outcome, hazards>>

\* The handler is called and ret, which is empty, returned.
CallHandler(t) ==
  /\ At(t, "handler")
  /\ Return(t)
  /\ UNCHANGED <<sk, made>>
-----------------------------------------------------------------------------
OneCall(t) ==
  \E h \in Servers :
    \/ \E nonblock \in Flags(h) : OpenSocket(t, h, nonblock)
    \/ Close(t, h) \/ Listen(t, h)
    \/ \E allow \in BOOLEAN : SetReusePort(t, h, allow) \/ SetReuseAddr(t, h, allow)
    \/ \E p \in Ports : Bind(t, h, p)
    \/ \E c \in Clients, form \in Forms \ {"short"} : Accept(t, h, c, form)

ClientCall(t) ==
  \E h \in Clients :
    \/ \E nonblock \in Flags(h) : OpenSocket(t, h, nonblock)
    \/ Close(t, h) \/ Disconnect(t, h)
    \/ \E p \in Ports, form \in Forms \ {"short"} :
         Connect(t, h, p, form) \/ ConnectInit(t, h, p, form)

InitCall(t) ==
  \E h \in Servers, p \in Ports, form \in Forms, share \in BOOLEAN :
    ListenInit(t, h, p, form, share)

Continue(t) ==
  \/ StepReusePort(t) \/ StepBind(t) \/ StepListen(t) \/ StepConnect(t)
  \/ CloseOnError(t) \/ CallHandler(t)

Next ==
  \/ \E t \in Threads : OneCall(t) \/ ClientCall(t) \/ InitCall(t) \/ Continue(t)
  \/ Background

Spec == Init /\ [][Next]_vars
-----------------------------------------------------------------------------
\* Sockets, handles and the calls in progress keep their types.
TypeOK ==
  /\ TcpTypeOK
  /\ sock \in [Handles -> Sockets \cup {NoSocket}]
  /\ asked \in [Sockets -> BOOLEAN]
  /\ frame \in [Threads -> Frames]
  /\ outcome \in {"runs", "abort"}
  /\ hazards \in Programs

\* When a handler is told that listeninit() or connectinit() failed, the socket is closed
\* already, the handle it will get is empty, and errno is the one of the step
\* that failed, not of the close(2) in between (TcpSocket.hxx:134-138,
\* TcpServerSocket.hxx:160-164).
HandlerSeesFailure ==
  \A t \in Threads : frame[t].step = "handler" =>
    /\ frame[t].sock = NoSocket /\ ~valid(frame[t].this)
    /\ frame[t].errno = frame[t].cause /\ frame[t].cause # "none"

\* A socket that listeninit() or connectinit() returns listens or is connected: no step that
\* failed is passed over.
InitReturnsReady ==
  [][\A t \in Threads :
       LET h == frame[t].this
       IN  frame[t].op # "idle" /\ frame'[t] = Idle /\ sock'[h] # NoSocket
           => sk'[sock'[h]].st = IF frame[t].op = "listeninit" THEN "listening"
                                 ELSE "connected"]_vars

\* Two sockets listen on one port only if the program asked so for both, by
\* listeninit<true> or setreuseport().
ExclusiveAsAsked ==
  \A s, u \in Sockets :
    /\ s # u /\ sk[s].st = "listening" /\ sk[u].st = "listening"
    /\ sk[s].port = sk[u].port
    => asked[s] /\ asked[u]

\* So it is, in a program that does not call the overloads of listeninit() that
\* drop the template argument.
SharedOnlyIfAsked == "short" \notin hazards => ExclusiveAsAsked

\* The program is aborted by no call that throws, unless it calls connect()
\* again too early or a peer or the network fails in a way SystemException does not
\* know (ECONNABORTED, ENETUNREACH): whatever else fails, whatever the order,
\* throws and can be caught.
AbortsOnlyByUnknown ==
  outcome = "abort" => hazards \cap {"reconnect", "aborted", "unreachable"} # {}

\* The abstract promise: a socket is held by a handle or by a call.
AbstractStatus ==
  [s \in Sockets |-> IF s > made THEN "unused"
                     ELSE IF Open(s) THEN "held" ELSE "released"]

AbstractHolders ==
  [s \in Sockets |-> {h \in Handles : sock[h] = s}
                     \cup {t \in Threads : frame[t].sock = s}]

Promise == INSTANCE Ownership WITH
  Resources <- Sockets, Places <- Handles \cup Threads,
  status <- AbstractStatus, holders <- AbstractHolders

\* Every socket is acquired once, held at one place at a time and closed once,
\* whichever step of a call fails (README.md:6, "RAII").
Owns == Promise!Spec
=============================================================================
