----------------------------- MODULE Tcp_proofs -----------------------------
(***************************************************************************)
(* Proofs about Tcp, for any number of threads, handles, sockets and ports *)
(* and any length of a listener's queue.                                   *)
(***************************************************************************)
EXTENDS Tcp, TLAPS

\* A step leaves of socket u what the properties speak of.
Same(u) ==
  /\ sk'[u].st = sk[u].st /\ sk'[u].port = sk[u].port
  /\ sk'[u].reuseport = sk[u].reuseport

\* Only socket s changes, and is then in state st.
Only(s, st) ==
  /\ TcpTypeOK' /\ sk'[s].st = st
  /\ \A u \in Sockets \ {s} : Same(u)
-----------------------------------------------------------------------------
\* What the system calls do to the sockets.
LEMMA NewRecord ==
  ASSUME NEW st \in States, NEW nonblock \in BOOLEAN
  PROVE  /\ [Closed EXCEPT !.st = st, !.nonblock = nonblock] \in Records
         /\ [Closed EXCEPT !.st = st] \in Records
<1>1. Closed \in Records
  BY TcpAssumption DEF Closed, Records, States
<1>2. \A r \in Records : /\ [r EXCEPT !.st = st] \in Records
                         /\ [r EXCEPT !.st = st, !.nonblock = nonblock] \in Records
  BY DEF Records
<1> QED
  BY <1>1, <1>2

\* socket(2): the next number opens, unbound and without options.
LEMMA NewSocket ==
  ASSUME TcpTypeOK, NEW s, NEW nonblock \in BOOLEAN, SysSocket(s, nonblock)
  PROVE  /\ s \in Sockets /\ s = made + 1 /\ made' = s
         /\ Only(s, "fresh") /\ sk'[s].reuseport = FALSE
<1> USE TcpAssumption DEF TcpTypeOK, SysSocket, Sockets
<1>1. s \in Sockets /\ s = made + 1 /\ made' = s /\ made' \in 0 .. MaxSockets
  OBVIOUS
<1>2. [Closed EXCEPT !.st = "fresh", !.nonblock = nonblock] \in Records
  BY NewRecord DEF States
<1>3. sk' \in [Sockets -> Records]
  BY <1>1, <1>2
<1>4. sk'[s].st = "fresh" /\ sk'[s].reuseport = FALSE
  BY <1>1 DEF Closed
<1> QED
  BY <1>1, <1>3, <1>4 DEF Only, Same

\* accept(2): the next number opens, connected to the client that waited.
LEMMA Accepted ==
  ASSUME TcpTypeOK, NEW s \in Sockets, NEW c, SysAccept(s, c)
  PROVE  /\ c \in Sockets /\ c = made + 1 /\ made' = made + 1
         /\ sk'[c].st = "connected" /\ sk'[c].reuseport = FALSE
         /\ TcpTypeOK' /\ \A u \in Sockets \ {c} : Same(u)
<1> USE TcpAssumption DEF TcpTypeOK, Sockets
<1>0. /\ sk[s].queue > 0 /\ c \in Sockets /\ c = made + 1 /\ made' = c
      /\ sk' = [sk EXCEPT ![s].queue = @ - 1, ![c] = [Closed EXCEPT !.st = "connected"]]
  BY DEF SysAccept
<1>1. c \in Sockets /\ c = made + 1 /\ made' = c /\ made' \in 0 .. MaxSockets
  BY <1>0
<1>2. [Closed EXCEPT !.st = "connected"] \in Records
  BY NewRecord DEF States
<1>3. sk[s] \in Records /\ [sk[s] EXCEPT !.queue = @ - 1] \in Records
  <2>1. sk[s] \in Records
    OBVIOUS
  <2>2. sk[s].queue \in 0 .. Backlog /\ sk[s].queue - 1 \in 0 .. Backlog
    BY <1>0, <2>1 DEF Records
  <2> QED
    BY <2>1, <2>2 DEF Records
<1>4. /\ sk'[c] = [Closed EXCEPT !.st = "connected"]
      /\ s # c => sk'[s] = [sk[s] EXCEPT !.queue = @ - 1]
      /\ \A u \in Sockets \ {s, c} : sk'[u] = sk[u]
  BY <1>0
<1>5. sk' \in [Sockets -> Records]
  <2>1. DOMAIN sk' = Sockets /\ sk' = [u \in Sockets |-> sk'[u]]
    BY <1>0
  <2>2. \A u \in Sockets : sk'[u] \in Records
    BY <1>2, <1>3, <1>4
  <2> QED
    BY <2>1, <2>2
<1>6. sk'[c].st = "connected" /\ sk'[c].reuseport = FALSE
  BY <1>4 DEF Closed
<1>7. \A u \in Sockets \ {c} : Same(u)
  BY <1>3, <1>4 DEF Same, Records
<1> QED
  BY <1>1, <1>5, <1>6, <1>7

\* A change of one socket's record to another.
LEMMA Changes ==
  ASSUME TcpTypeOK, NEW s \in Sockets, NEW r \in Records,
         sk' = [sk EXCEPT ![s] = r], made' = made
  PROVE  Only(s, r.st) /\ sk'[s] = r
<1>1. TcpTypeOK' /\ sk'[s] = r
  BY DEF TcpTypeOK
<1>2. \A u \in Sockets \ {s} : Same(u)
  BY DEF TcpTypeOK, Same
<1> QED
  BY <1>1, <1>2 DEF Only

\* close(2) closes the socket, and only it.
LEMMA Closes ==
  ASSUME TcpTypeOK, NEW s \in Sockets, SysClose(s)
  PROVE  made' = made /\ Only(s, "closed") /\ sk'[s].reuseport = FALSE
BY TcpAssumption DEF TcpTypeOK, SysClose, Sockets, Closed, Records, States, Only, Same

\* bind(2) gives the socket its port and keeps its option.
LEMMA Binds ==
  ASSUME TcpTypeOK, NEW s \in Sockets, NEW p \in Ports, SysBind(s, p)
  PROVE  /\ made' = made /\ Only(s, "bound")
         /\ sk'[s].reuseport = sk[s].reuseport
<1>1. PICK r : r = [sk[s] EXCEPT !.st = "bound", !.port = p]
  OBVIOUS
<1>2. r \in Records /\ r.st = "bound" /\ r.reuseport = sk[s].reuseport
  BY <1>1 DEF TcpTypeOK, Records, States
<1>3. sk' = [sk EXCEPT ![s] = r] /\ made' = made
  BY <1>1 DEF SysBind
<1> QED
  BY <1>2, <1>3, Changes

\* listen(2): the socket listens, on the port and with the option it had.
LEMMA Listens ==
  ASSUME TcpTypeOK, NEW s \in Sockets, SysListen(s)
  PROVE  /\ made' = made /\ Only(s, "listening") /\ sk'[s].port = sk[s].port
         /\ sk'[s].reuseport = sk[s].reuseport
BY DEF TcpTypeOK, SysListen, Records, States, Only, Same

\* A socket that disconnects forgets its connection, and no other changes.
LEMMA Disconnects ==
  ASSUME TcpTypeOK, NEW s \in Sockets, SysDisconnect(s)
  PROVE  /\ made' = made /\ Only(s, "fresh")
         /\ sk'[s].reuseport = sk[s].reuseport
<1>1. PICK r : r = [sk[s] EXCEPT !.st = "fresh", !.peer = NoPort]
  OBVIOUS
<1>2. r \in Records /\ r.st = "fresh" /\ r.reuseport = sk[s].reuseport
  BY <1>1 DEF TcpTypeOK, Records, States
<1>3. sk' = [sk EXCEPT ![s] = r] /\ made' = made
  BY <1>1 DEF SysDisconnect
<1> QED
  BY <1>2, <1>3, Changes

\* A change of a socket's state alone.
LEMMA Sets ==
  ASSUME TcpTypeOK, NEW s \in Sockets, NEW st \in States, SetState(s, st)
  PROVE  /\ made' = made /\ Only(s, st)
         /\ sk'[s].reuseport = sk[s].reuseport
BY DEF TcpTypeOK, SetState, Records, States, Only, Same

\* connect(2) moves its socket; a listener it reaches only queues one more.
LEMMA Connects ==
  ASSUME TcpTypeOK, NEW s \in Sockets, NEW p \in Ports \cup {NoPort}, NEW st \in States,
         sk[s].st # "listening", SysConnect(s, p, st)
  PROVE  /\ made' = made /\ Only(s, st)
         /\ sk'[s].reuseport = sk[s].reuseport
<1> USE TcpAssumption DEF TcpTypeOK, Sockets
<1>1. PICK u \in Listeners(p) :
        sk' = [sk EXCEPT ![s].st = st, ![s].peer = p, ![u].queue = @ + 1]
  BY DEF SysConnect
<1>2. u \in Sockets /\ u # s /\ sk[u].queue < Backlog
  BY DEF Listeners
<1>3. /\ sk'[s] = [sk[s] EXCEPT !.st = st, !.peer = p]
      /\ sk'[u] = [sk[u] EXCEPT !.queue = @ + 1]
      /\ \A v \in Sockets \ {s, u} : sk'[v] = sk[v]
  BY <1>1, <1>2
<1>4. sk'[s] \in Records /\ sk'[u] \in Records
  <2>1. sk[s] \in Records /\ sk[u] \in Records
    BY <1>2
  <2>2. sk[u].queue \in 0 .. Backlog /\ sk[u].queue + 1 \in 0 .. Backlog
    BY <1>2, <2>1 DEF Records
  <2> QED
    BY <1>3, <2>1, <2>2 DEF Records
<1>5. sk' \in [Sockets -> Records]
  <2>1. sk' = [v \in Sockets |-> sk'[v]]
    BY <1>1
  <2>2. \A v \in Sockets : sk'[v] \in Records
    BY <1>3, <1>4
  <2> QED
    BY <2>1, <2>2
<1>6. made' = made
  BY DEF SysConnect
<1>7. sk[s] \in Records /\ sk[u] \in Records
  BY <1>2
<1>8. sk'[s].st = st /\ sk'[s].reuseport = sk[s].reuseport
  BY <1>3, <1>7 DEF Records
<1>9. \A v \in Sockets \ {s} : Same(v)
  BY <1>3, <1>7 DEF Same, Records
<1> QED
  BY <1>5, <1>6, <1>8, <1>9 DEF Only
-----------------------------------------------------------------------------
\* Who holds a socket: handles, and calls in progress.
Places == Handles \cup Threads
Num(p) == IF p \in Handles THEN sock[p] ELSE frame[p].sock

\* A call in progress has the socket it was given, or none once that is closed;
\* it has to itself the object it fills, which is empty; the error that ends it
\* is the one of the step that failed.
CallOK(f) ==
  /\ f.op = "idle" => f = Idle
  /\ f.op = "listeninit" =>
       f.step \in {"setreuseport", "bind", "listen", "close", "handler"}
  /\ f.op = "connectinit" => f.step \in {"connect", "close", "handler"}
  /\ f.sock = NoSocket <=> f.step \in {"none", "handler"}
  /\ f.op # "idle" => f.this \in Handles /\ ~valid(f.this)
  /\ f.op = "listeninit" => f.this \in Servers /\ f.port \in Ports
  /\ f.op = "connectinit" => f.this \in Clients /\ f.port \in Ports
  /\ f.step = "connect" => sk[f.sock].st = "fresh"
  /\ f.step \in {"setreuseport", "bind"} => sk[f.sock].st = "fresh"
  /\ f.step = "listen" => sk[f.sock].st = "bound"
  /\ f.step \in {"close", "handler"} => f.errno = f.cause /\ f.cause # "none"

Calls ==
  /\ \A t \in Threads : CallOK(frame[t])
  /\ \A t, u \in Threads : t # u /\ frame[t].op # "idle" => frame[t].this # frame[u].this

\* Places hold open sockets, each its own, and all that are open.
Holding ==
  /\ \A p \in Places : Num(p) # NoSocket => Num(p) <= made /\ Open(Num(p))
  /\ \A p, q \in Places : p # q /\ Num(p) # NoSocket => Num(p) # Num(q)
  /\ \A s \in Sockets : s <= made /\ Open(s) => \E p \in Places : Num(p) = s

\* A port is shared by two listeners only if both have SO_REUSEPORT, which
\* they have only if the program asked.
Sharing ==
  /\ \A s, u \in Sockets :
       /\ s # u /\ sk[s].st = "listening" /\ sk[u].st = "listening"
       /\ sk[s].port = sk[u].port
       => BothShare(s, u)
  /\ "short" \notin hazards =>
       /\ \A s \in Sockets : sk[s].reuseport => asked[s]
       /\ \A t \in Threads : frame[t].step = "setreuseport" => asked[frame[t].sock]

IInv == TypeOK /\ Calls /\ Holding /\ Sharing /\ AbortsOnlyByUnknown
-----------------------------------------------------------------------------
\* What a step does to who holds what: nothing, or a place gets a new socket, a
\* place gives its socket back, a place hands it to another one.
Elsewhere(ps) == \A p \in Places \ ps : Num(p)' = Num(p)
OpenAsBefore(ss) == \A s \in Sockets \ ss : Open(s)' = Open(s)

Still == made' = made /\ Elsewhere({}) /\ OpenAsBefore({})

Gets(p) ==
  /\ made' = made + 1 /\ made' \in Sockets
  /\ Num(p) = NoSocket /\ Num(p)' = made' /\ sk'[made'].st # "closed"
  /\ Elsewhere({p}) /\ OpenAsBefore({made'})

GivesBack(p) ==
  /\ made' = made
  /\ Num(p) # NoSocket /\ Num(p)' = NoSocket /\ sk'[Num(p)].st = "closed"
  /\ Elsewhere({p}) /\ OpenAsBefore({Num(p)})

Hands(p, q) ==
  /\ made' = made /\ OpenAsBefore({})
  /\ Num(p) # NoSocket /\ Num(p)' = NoSocket
  /\ Num(q) = NoSocket /\ Num(q)' = Num(p)
  /\ Elsewhere({p, q})

Effect ==
  \/ Still
  \/ \E p \in Places : Gets(p) \/ GivesBack(p)
  \/ \E p, q \in Places : Hands(p, q)
-----------------------------------------------------------------------------
\* Idle is a frame; NoSocket no socket.
LEMMA IdleFrame ==
  /\ Idle \in Frames /\ Idle.op = "idle" /\ Idle.step = "none"
  /\ Idle.sock = NoSocket /\ Idle.this = NoHandle /\ NoHandle \notin Handles
  /\ NoSocket \notin Sockets
BY TcpProgramsAssumption, TcpAssumption
   DEF Idle, Frames, Forms, Errnos, Handles, NoSocket, Sockets

\* The socket a call works on is in no other thread's call.
LEMMA Apart ==
  ASSUME IInv, NEW t \in Threads, NEW s \in Sockets,
         s = made + 1 \/ (\E h \in Handles : sock[h] = s) \/ frame[t].sock = s
  PROVE  \A u \in Threads \ {t} : frame[u].sock # s
<1> SUFFICES ASSUME NEW u \in Threads \ {t}, frame[u].sock = s PROVE FALSE
  OBVIOUS
<1>1. \A v \in Threads : v \in Places /\ v \notin Handles /\ Num(v) = frame[v].sock
  BY TcpProgramsAssumption DEF Places, Handles, Num
<1>2. \A h \in Handles : h \in Places /\ Num(h) = sock[h]
  BY DEF Places, Num
<1>3. s # NoSocket /\ Holding
  BY IdleFrame DEF IInv
<1>4. CASE s = made + 1
  <2>1. s <= made
    BY <1>1, <1>3 DEF Holding
  <2> QED
    BY <2>1, <1>4 DEF IInv, TypeOK, TcpTypeOK
<1>5. ASSUME NEW h \in Handles, sock[h] = s PROVE FALSE
  BY <1>1, <1>2, <1>3, <1>5 DEF Holding
<1>6. CASE frame[t].sock = s
  BY <1>1, <1>3, <1>6 DEF Holding
<1> QED
  BY <1>4, <1>5, <1>6

\* The calls of other threads go on as they were.
LEMMA CallsStep ==
  ASSUME IInv, NEW t \in Threads, NEW h \in Handles, NEW s \in Sockets \cup {NoSocket},
         NEW f \in Frames,
         \A u \in Sockets \ {s} : Same(u),
         s \in Sockets =>
           s = made + 1 \/ (\E g \in Handles : sock[g] = s) \/ frame[t].sock = s,
         \A u \in Threads \ {t} : frame[u].this # h,
         \A g \in Handles \ {h} : sock'[g] = sock[g],
         frame' = [frame EXCEPT ![t] = f], CallOK(f)',
         f.op # "idle" => f.this = h \/ (f.this = frame[t].this /\ frame[t].op # "idle")
  PROVE  Calls'
<1>1. /\ frame \in [Threads -> Frames] /\ sock \in [Handles -> Sockets \cup {NoSocket}]
      /\ Calls
  BY DEF IInv, TypeOK
<1>2. \A u \in Threads \ {t} : frame'[u] = frame[u] /\ frame[u].sock \in Sockets \cup {NoSocket}
  BY <1>1 DEF Frames
<1>3. frame'[t] = f
  BY <1>1
<1>4. \A u \in Threads \ {t} : frame[u].sock # NoSocket =>
        frame[u].sock # s /\ Same(frame[u].sock)
  BY <1>2, Apart
<1>5. \A u \in Threads \ {t} : frame[u].op # "idle" => sock'[frame[u].this] = sock[frame[u].this]
  BY <1>1 DEF Calls, CallOK
<1>6. ASSUME NEW u \in Threads \ {t} PROVE CallOK(frame[u])'
  <2>1. CallOK(frame[u]) /\ frame'[u] = frame[u]
    BY <1>1, <1>2 DEF Calls
  <2>2. frame[u].step \in {"connect", "setreuseport", "bind", "listen"} =>
          sk'[frame[u].sock].st = sk[frame[u].sock].st
    BY <1>4, <2>1 DEF CallOK, Same
  <2>3. frame[u].op # "idle" => ~valid(frame[u].this)'
    BY <1>5, <2>1 DEF CallOK, valid
  <2> QED
    BY <2>1, <2>2, <2>3 DEF CallOK
<1>7. CallOK(frame[t])'
  BY <1>3
<1>8. ASSUME NEW u \in Threads, NEW v \in Threads, u # v, frame'[u].op # "idle"
      PROVE  frame'[u].this # frame'[v].this
  <2>1. CASE u # t /\ v # t
    BY <1>1, <1>2, <1>8, <2>1 DEF Calls
  <2>2. CASE u = t
    BY <1>1, <1>2, <1>3, <1>8, <2>2 DEF Calls
  <2>3. CASE v = t
    <3>1. frame[u].op # "idle" /\ frame[u].this \in Handles
      BY <1>1, <1>2, <1>8, <2>3 DEF Calls, CallOK
    <3>2. CASE f.op = "idle"
      <4>1. f = Idle
        BY <3>2 DEF CallOK
      <4>2. frame'[v].this \notin Handles
        BY <1>3, <2>3, <4>1, IdleFrame
      <4>3. frame'[u].this \in Handles
        BY <1>2, <1>8, <2>3, <3>1
      <4> QED
        BY <4>2, <4>3
    <3>3. CASE f.op # "idle"
      BY <1>1, <1>2, <1>3, <1>8, <2>3, <3>1, <3>3 DEF Calls
    <3> QED
      BY <3>2, <3>3
  <2> QED
    BY <2>1, <2>2, <2>3
<1> QED
  BY <1>6, <1>7, <1>8 DEF Calls

\* A socket changes how ports are shared only when it starts to listen.
LEMMA SharingStep ==
  ASSUME IInv, NEW t \in Threads, NEW s \in Sockets \cup {NoSocket}, NEW f,
         \A u \in Sockets \ {s} : Same(u),
         s \in Sockets =>
           /\ s = made + 1 \/ (\E g \in Handles : sock[g] = s) \/ frame[t].sock = s
           /\ \/ sk'[s].st # "listening" \/ Same(s)
              \/ /\ ~ListenConflict(s) /\ sk'[s].port = sk[s].port
                 /\ sk'[s].reuseport = sk[s].reuseport
           /\ "short" \notin hazards => (sk'[s].reuseport => asked'[s]),
         frame' = [frame EXCEPT ![t] = f], hazards' = hazards,
         \A u \in Sockets \ {s} : asked'[u] = asked[u],
         "short" \notin hazards /\ f.step = "setreuseport" => asked'[f.sock]
  PROVE  Sharing'
<1>1. frame \in [Threads -> Frames] /\ Sharing /\ Calls
  BY DEF IInv, TypeOK
<1>2. ASSUME NEW u \in Sockets, NEW v \in Sockets, u # v,
             sk'[u].st = "listening", sk'[v].st = "listening", sk'[u].port = sk'[v].port
      PROVE  BothShare(u, v)'
  <2>1. CASE \A w \in {u, v} : Same(w)
    BY <1>1, <1>2, <2>1 DEF Same, Sharing, BothShare
  <2>2. ASSUME NEW w \in {u, v}, ~Same(w) PROVE BothShare(u, v)'
    <3> PICK y \in {u, v} : y # w
      BY <1>2
    <3>1. w = s /\ y # s /\ Same(y)
      BY <1>2, <2>2
    <3>2. /\ ~ListenConflict(s) /\ sk'[s].port = sk[s].port
          /\ sk'[s].reuseport = sk[s].reuseport
      BY <1>2, <2>2, <3>1
    <3>3. y \in Other(s, sk[s].port) /\ sk[y].st = "listening"
      BY <1>2, <3>1, <3>2 DEF Same, Other
    <3>4. BothShare(s, y)
      BY <3>2, <3>3 DEF ListenConflict
    <3>5. sk'[s].reuseport /\ sk'[y].reuseport
      BY <3>1, <3>2, <3>4 DEF BothShare, Same
    <3>6. (u = s /\ v = y) \/ (u = y /\ v = s)
      BY <3>1
    <3> QED
      BY <3>5, <3>6 DEF BothShare
  <2> QED
    BY <2>1, <2>2
<1>3. ASSUME "short" \notin hazards', NEW u \in Sockets, sk'[u].reuseport
      PROVE  asked'[u]
  BY <1>1, <1>3 DEF Sharing, Same
<1>4. ASSUME "short" \notin hazards', NEW u \in Threads, frame'[u].step = "setreuseport"
      PROVE  asked'[frame'[u].sock]
  <2>1. CASE u = t
    BY <1>1, <1>4, <2>1
  <2>2. CASE u # t
    <3>1. frame'[u] = frame[u] /\ frame[u].sock \in Sockets \cup {NoSocket}
      BY <1>1, <2>2 DEF Frames
    <3>2. frame[u].sock \in Sockets
      BY <1>1, <1>4, <3>1 DEF Calls, CallOK
    <3>3. frame[u].sock # s
      BY <2>2, <3>2, Apart
    <3> QED
      BY <1>1, <1>4, <3>1, <3>2, <3>3 DEF Sharing
  <2> QED
    BY <2>1, <2>2
<1> QED
  BY <1>2, <1>3, <1>4 DEF Sharing
-----------------------------------------------------------------------------
\* Options, and a connection that goes on after connect(2) returned.
LEMMA Options ==
  ASSUME TcpTypeOK, NEW s \in Sockets, NEW allow \in BOOLEAN
  PROVE  /\ sk' = [sk EXCEPT ![s].reuseport = allow] /\ made' = made =>
              Only(s, sk[s].st) /\ sk'[s].reuseport = allow
         /\ sk' = [sk EXCEPT ![s].reuseaddr = allow] /\ made' = made =>
              Only(s, sk[s].st) /\ Same(s)
BY DEF TcpTypeOK, Records, Only, Same

\* The connection that goes on in the background is its socket's alone.
LEMMA StartsConnecting ==
  ASSUME TcpTypeOK, NEW s \in Sockets, NEW p \in Ports, made' = made,
         sk' = [sk EXCEPT ![s].st = "connecting", ![s].peer = p]
  PROVE  Only(s, "connecting") /\ sk'[s].reuseport = sk[s].reuseport
<1>1. PICK r : r = [sk[s] EXCEPT !.st = "connecting", !.peer = p]
  OBVIOUS
<1>2. r \in Records /\ r.st = "connecting" /\ r.reuseport = sk[s].reuseport
  BY <1>1 DEF TcpTypeOK, Records, States
<1>3. sk' = [sk EXCEPT ![s] = r] /\ made' = made
  BY <1>1
<1> QED
  BY <1>2, <1>3, Changes

\* A connection aborted in a queue leaves what the properties speak of.
LEMMA Aborted ==
  ASSUME TcpTypeOK, NEW s \in Sockets, SysAbortPending(s)
  PROVE  made' = made /\ TcpTypeOK' /\ \A u \in Sockets : Same(u)
<1>1. sk[s].queue \in 0 .. Backlog /\ sk[s].queue - 1 \in 0 .. Backlog
  BY TcpAssumption DEF TcpTypeOK, Records, SysAbortPending
<1> QED
  BY <1>1 DEF TcpTypeOK, SysAbortPending, Records, Same

\* connect(2) moves only its socket, which is none that listens, and reports
\* what became of it.
LEMMA ConnectEnds ==
  ASSUME TcpTypeOK, NEW s \in Sockets, NEW p \in Ports, NEW e \in Errnos, ConnectResult(s, p, e)
  PROVE  /\ made' = made /\ TcpTypeOK' /\ \A u \in Sockets \ {s} : Same(u)
         /\ sk[s].st # "listening" /\ sk'[s].st # "listening"
         /\ sk'[s].reuseport = sk[s].reuseport /\ Open(s) /\ Open(s)'
         /\ e = "none" => sk'[s].st = "connected"
         /\ e = "EALREADY" => sk[s].st = "connecting" /\ sk[s].nonblock
         /\ e = "EISCONN" => sk[s].st = "connected"
         /\ e = "ENETUNREACH" => "unreachable" \in hazards
         /\ e \in Thrown \cup {"none", "EALREADY", "EISCONN", "ENETUNREACH"}
<1> USE DEF ConnectResult
<1>1. CASE e = "none"
  <2>1. CASE sk[s].st = "fresh" /\ SysConnect(s, p, "connected")
    <3>1. "connected" \in States
      BY DEF States
    <3>2. Only(s, "connected") /\ made' = made /\ sk'[s].reuseport = sk[s].reuseport
      BY <2>1, <3>1, Connects
    <3> QED
      BY <1>1, <2>1, <3>2 DEF Only, Open
  <2>2. CASE sk[s].st = "established" /\ SetState(s, "connected")
    <3>1. "connected" \in States
      BY DEF States
    <3> QED
      BY <1>1, <2>2, <3>1, Sets DEF Only, Open
  <2> QED
    BY <1>1, <2>1, <2>2
<1>2. CASE e = "ECONNREFUSED" /\ sk[s].st = "refused" /\ SetState(s, "fresh")
  <2>1. "fresh" \in States
    BY DEF States
  <2> QED
    BY <1>2, <2>1, Sets DEF Only, Open, Thrown
<1>3. CASE /\ e \in {"EINPROGRESS", "EINTR"} /\ sk[s].st = "fresh" /\ made' = made
           /\ sk' = [sk EXCEPT ![s].st = "connecting", ![s].peer = p]
  BY <1>3, StartsConnecting DEF Only, Open, Thrown
<1>4. CASE UNCHANGED <<sk, made>> /\ e # "none"
  BY <1>4 DEF TcpTypeOK, Same, Open, Thrown
<1> QED
  BY <1>1, <1>2, <1>3, <1>4
-----------------------------------------------------------------------------
\* All but who holds what, after a step of thread t that concerns one handle
\* and one socket, or none.
LEMMA CallStep ==
  ASSUME IInv, NEW t \in Threads, NEW h \in Handles, NEW s \in Sockets \cup {NoSocket},
         NEW x \in Sockets \cup {NoSocket}, NEW f \in Frames,
         TcpTypeOK', \A u \in Sockets \ {s} : Same(u),
         s \in Sockets =>
           /\ s = made + 1 \/ (\E g \in Handles : sock[g] = s) \/ frame[t].sock = s
           /\ \/ sk'[s].st # "listening" \/ Same(s)
              \/ /\ ~ListenConflict(s) /\ sk'[s].port = sk[s].port
                 /\ sk'[s].reuseport = sk[s].reuseport
           /\ "short" \notin hazards => (sk'[s].reuseport => asked'[s]),
         \A u \in Threads \ {t} : frame[u].this # h,
         sock' = [sock EXCEPT ![h] = x],
         frame' = [frame EXCEPT ![t] = f], CallOK(f)',
         f.op # "idle" => f.this = h \/ (f.this = frame[t].this /\ frame[t].op # "idle"),
         asked' \in [Sockets -> BOOLEAN], \A u \in Sockets \ {s} : asked'[u] = asked[u],
         "short" \notin hazards /\ f.step = "setreuseport" => asked'[f.sock],
         hazards' = hazards, outcome' \in {"runs", "abort"}
  PROVE  TypeOK' /\ Calls' /\ Sharing'
<1>0. \A g \in Handles \ {h} : sock'[g] = sock[g]
  BY DEF IInv, TypeOK
<1>1. Calls' /\ Sharing'
  BY <1>0, CallsStep, SharingStep
<1>2. TypeOK'
  BY DEF IInv, TypeOK
<1> QED
  BY <1>1, <1>2

\* The same of a call that is over when it returns.
LEMMA PlainStep ==
  ASSUME IInv, NEW t \in Threads, NEW h \in Handles, NEW s \in Sockets \cup {NoSocket},
         NEW x \in Sockets \cup {NoSocket}, Usable(t, h),
         TcpTypeOK', \A u \in Sockets \ {s} : Same(u),
         s \in Sockets =>
           /\ s = made + 1 \/ (\E g \in Handles : sock[g] = s)
           /\ \/ sk'[s].st # "listening" \/ Same(s)
              \/ /\ ~ListenConflict(s) /\ sk'[s].port = sk[s].port
                 /\ sk'[s].reuseport = sk[s].reuseport
           /\ "short" \notin hazards => (sk'[s].reuseport => asked'[s]),
         sock' = [sock EXCEPT ![h] = x], frame' = frame,
         asked' \in [Sockets -> BOOLEAN], \A u \in Sockets \ {s} : asked'[u] = asked[u],
         hazards' = hazards, outcome' \in {"runs", "abort"}
  PROVE  TypeOK' /\ Calls' /\ Sharing'
<1>1. frame' = [frame EXCEPT ![t] = Idle]
  BY DEF IInv, TypeOK, Usable
<1>2. CallOK(Idle)'
  BY DEF CallOK, Idle, NoSocket
<1>3. \A u \in Threads \ {t} : frame[u].this # h
  BY DEF Usable
<1>4. Idle \in Frames /\ Idle.op = "idle" /\ Idle.step = "none"
  BY IdleFrame
<1> QED
  BY <1>1, <1>2, <1>3, <1>4, CallStep

\* What the places hold.
LEMMA Nums ==
  /\ \A h \in Handles : h \in Places /\ Num(h) = sock[h] /\ Num(h)' = sock'[h]
  /\ \A t \in Threads : /\ t \in Places /\ t \notin Handles
                        /\ Num(t) = frame[t].sock /\ Num(t)' = frame'[t].sock
  /\ \A p \in Places : p \in Handles \/ p \in Threads
BY TcpProgramsAssumption DEF Places, Handles, Num

\* A step that moves no socket has the effect Still.
LEMMA Unmoved ==
  ASSUME made' = made, sock' = sock, \A t \in Threads : frame'[t].sock = frame[t].sock,
         \A u \in Sockets : Open(u)' = Open(u)
  PROVE  Effect
BY Nums DEF Effect, Still, Elsewhere, OpenAsBefore

\* A valid handle of nobody's call holds an open socket.
LEMMA Own ==
  ASSUME IInv, NEW h \in Handles, valid(h)
  PROVE  sock[h] \in Sockets /\ sock[h] <= made /\ Open(sock[h])
BY Nums DEF IInv, TypeOK, Holding, valid
-----------------------------------------------------------------------------
\* What every step does.
Kept == TypeOK' /\ Calls' /\ Sharing' /\ AbortsOnlyByUnknown' /\ Effect

\* A handle gets the new socket.
LEMMA NewIn ==
  ASSUME NEW h \in Handles, sock \in [Handles -> Sockets \cup {NoSocket}], sock[h] = NoSocket,
         made' = made + 1, made' \in Sockets, sock' = [sock EXCEPT ![h] = made + 1],
         frame' = frame, sk'[made'].st # "closed", \A u \in Sockets \ {made'} : Same(u)
  PROVE  Effect
<1>1. \A u \in Sockets \ {made'} : Open(u)' = Open(u)
  BY DEF Open, Same
<1>2. Num(h) = NoSocket /\ Num(h)' = made'
  BY Nums
<1>3. Elsewhere({h})
  BY Nums DEF Elsewhere
<1> QED
  BY <1>1, <1>2, <1>3, Nums DEF Effect, Gets, OpenAsBefore

\* One lemma per action; first those that are over when they return.
LEMMA OpenSocketStep ==
  ASSUME IInv, NEW t \in Threads, NEW h \in Handles, NEW nonblock \in BOOLEAN,
         OpenSocket(t, h, nonblock)
  PROVE  Kept
<1> DEFINE s == made + 1
<1>1. /\ Usable(t, h) /\ sock[h] = NoSocket /\ SysSocket(s, nonblock)
      /\ sock' = [sock EXCEPT ![h] = s]
      /\ asked' = asked /\ frame' = frame /\ outcome' = outcome /\ hazards' = hazards
  BY DEF OpenSocket, valid
<1>2. /\ s \in Sockets /\ made' = s /\ Only(s, "fresh") /\ sk'[s].reuseport = FALSE
      /\ TcpTypeOK' /\ \A u \in Sockets \ {s} : Same(u)
  BY <1>1, NewSocket DEF IInv, TypeOK, Only
<1>3. /\ asked \in [Sockets -> BOOLEAN] /\ sock \in [Handles -> Sockets \cup {NoSocket}]
      /\ outcome = "runs"
  BY <1>1 DEF IInv, TypeOK, Usable
<1>4. sk'[s].st # "listening"
  BY <1>2 DEF Only
<1>5. TypeOK' /\ Calls' /\ Sharing'
  BY <1>1, <1>2, <1>3, <1>4, PlainStep
<1>6. Effect
  BY <1>1, <1>2, <1>3, NewIn DEF Only
<1> QED
  BY <1>1, <1>3, <1>5, <1>6 DEF Kept, AbortsOnlyByUnknown

\* close() keeps the invariant and gives its socket back.
LEMMA CloseStep ==
  ASSUME IInv, NEW t \in Threads, NEW h \in Handles, Close(t, h)
  PROVE  Kept
<1> DEFINE s == sock[h]
<1>1. /\ Usable(t, h) /\ valid(h) /\ SysClose(s)
      /\ sock' = [sock EXCEPT ![h] = NoSocket]
      /\ asked' = asked /\ frame' = frame /\ outcome' = outcome /\ hazards' = hazards
  BY DEF Close
<1>2. s \in Sockets /\ Open(s)
  BY <1>1, Own
<1>3. /\ made' = made /\ Only(s, "closed") /\ sk'[s].reuseport = FALSE
      /\ TcpTypeOK' /\ \A u \in Sockets \ {s} : Same(u)
  BY <1>1, <1>2, Closes DEF IInv, TypeOK, Only
<1>4. /\ asked \in [Sockets -> BOOLEAN] /\ sock \in [Handles -> Sockets \cup {NoSocket}]
      /\ outcome = "runs"
  BY <1>1 DEF IInv, TypeOK, Usable
<1>5. sk'[s].st # "listening"
  BY <1>3 DEF Only
<1>6. TypeOK' /\ Calls' /\ Sharing'
  BY <1>1, <1>2, <1>3, <1>4, <1>5, PlainStep
<1>7. Effect
  <2>1. \A u \in Sockets \ {s} : Open(u)' = Open(u)
    BY <1>3 DEF Open, Same
  <2>2. Num(h) = s /\ Num(h)' = NoSocket /\ sk'[Num(h)].st = "closed"
    BY <1>1, <1>2, <1>3, <1>4, Nums DEF Open, Only
  <2>3. Elsewhere({h})
    BY <1>1, <1>4, Nums DEF Elsewhere
  <2>4. GivesBack(h)
    BY <1>1, <1>3, <2>1, <2>2, <2>3 DEF GivesBack, OpenAsBefore, valid
  <2> QED
    BY <2>4, Nums DEF Effect
<1> QED
  BY <1>1, <1>4, <1>6, <1>7 DEF Kept, AbortsOnlyByUnknown

\* A call on an open socket that moves nothing.
LEMMA OnSocketStep ==
  ASSUME IInv, NEW t \in Threads, NEW h \in Handles, Usable(t, h), valid(h),
         TcpTypeOK', made' = made, Open(sock[h])', hazards' = hazards,
         \A u \in Sockets \ {sock[h]} : Same(u),
         \/ sk'[sock[h]].st # "listening" \/ Same(sock[h])
         \/ /\ ~ListenConflict(sock[h]) /\ sk'[sock[h]].port = sk[sock[h]].port
            /\ sk'[sock[h]].reuseport = sk[sock[h]].reuseport,
         asked' \in [Sockets -> BOOLEAN],
         \A u \in Sockets \ {sock[h]} : asked'[u] = asked[u],
         \/ sk'[sock[h]].reuseport = asked'[sock[h]]
         \/ /\ sk'[sock[h]].reuseport = sk[sock[h]].reuseport
            /\ asked'[sock[h]] = asked[sock[h]],
         sock' = sock, frame' = frame, outcome' \in {"runs", "abort"}, AbortsOnlyByUnknown'
  PROVE  Kept
<1> DEFINE s == sock[h]
<1>1. s \in Sockets /\ Open(s)
  BY Own
<1>2. sock \in [Handles -> Sockets \cup {NoSocket}] /\ sock' = [sock EXCEPT ![h] = s]
  BY DEF IInv, TypeOK
<1>3. "short" \notin hazards => (sk'[s].reuseport => asked'[s])
  BY <1>1 DEF IInv, Sharing
<1>4. TypeOK' /\ Calls' /\ Sharing'
  BY <1>1, <1>2, <1>3, PlainStep
<1>5. \A u \in Sockets : Open(u)' = Open(u)
  BY <1>1 DEF Open, Same
<1>6. Effect
  BY <1>5, Unmoved
<1> QED
  BY <1>4, <1>6 DEF Kept

\* The calls that set an option of a socket.
LEMMA OptionStep ==
  ASSUME IInv, NEW t \in Threads, NEW h \in Handles, NEW allow \in BOOLEAN,
         SetReusePort(t, h, allow) \/ SetReuseAddr(t, h, allow)
  PROVE  Kept
<1> DEFINE s == sock[h]
<1>1. /\ Usable(t, h) /\ valid(h) /\ sk[s].st = "fresh" /\ made' = made
      /\ sock' = sock /\ frame' = frame /\ outcome' = outcome /\ hazards' = hazards
  BY DEF SetReusePort, SetReuseAddr
<1>2. s \in Sockets
  BY <1>1, Own
<1>3. TcpTypeOK /\ asked \in [Sockets -> BOOLEAN] /\ outcome = "runs" /\ AbortsOnlyByUnknown'
  BY <1>1 DEF IInv, TypeOK, Usable, AbortsOnlyByUnknown
<1>4. CASE SetReusePort(t, h, allow)
  <2>1. /\ sk' = [sk EXCEPT ![s].reuseport = allow] /\ made' = made
        /\ asked' = [asked EXCEPT ![s] = allow]
    BY <1>4 DEF SetReusePort
  <2>2. Only(s, "fresh") /\ sk'[s].reuseport = allow
    BY <1>1, <1>2, <1>3, <2>1, Options
  <2>3. /\ asked'[s] = allow /\ asked' \in [Sockets -> BOOLEAN]
        /\ \A u \in Sockets \ {s} : asked'[u] = asked[u]
    BY <1>2, <1>3, <2>1
  <2> QED
    BY <1>1, <1>3, <2>1, <2>2, <2>3, OnSocketStep DEF Only, Open
<1>5. CASE SetReuseAddr(t, h, allow)
  <2>1. sk' = [sk EXCEPT ![s].reuseaddr = allow] /\ made' = made /\ asked' = asked
    BY <1>5 DEF SetReuseAddr
  <2>2. Only(s, "fresh") /\ Same(s)
    BY <1>1, <1>2, <1>3, <2>1, Options
  <2> QED
    BY <1>1, <1>3, <2>1, <2>2, OnSocketStep DEF Only, Open, Same
<1> QED
  BY <1>4, <1>5

\* bind(), in its two forms.
LEMMA BindStep ==
  ASSUME IInv, NEW t \in Threads, NEW h \in Handles, NEW p \in Ports, Bind(t, h, p)
  PROVE  Kept
<1> DEFINE s == sock[h]
<1>1. /\ Usable(t, h) /\ valid(h) /\ SysBind(s, p)
      /\ sock' = sock /\ asked' = asked /\ frame' = frame
      /\ outcome' = outcome /\ hazards' = hazards
  BY DEF Bind
<1>2. s \in Sockets
  BY <1>1, Own
<1>3. TcpTypeOK /\ asked \in [Sockets -> BOOLEAN] /\ outcome = "runs" /\ AbortsOnlyByUnknown'
  BY <1>1 DEF IInv, TypeOK, Usable, AbortsOnlyByUnknown
<1>4. made' = made /\ Only(s, "bound") /\ sk'[s].reuseport = sk[s].reuseport
  BY <1>1, <1>2, <1>3, Binds
<1> QED
  BY <1>1, <1>3, <1>4, OnSocketStep DEF Only, Open

\* listen().
LEMMA ListenStep ==
  ASSUME IInv, NEW t \in Threads, NEW h \in Handles, Listen(t, h)
  PROVE  Kept
<1> DEFINE s == sock[h]
<1>1. /\ Usable(t, h) /\ valid(h) /\ ~ListenConflict(s) /\ SysListen(s)
      /\ sock' = sock /\ asked' = asked /\ frame' = frame
      /\ outcome' = outcome /\ hazards' = hazards
  BY DEF Listen
<1>2. s \in Sockets
  BY <1>1, Own
<1>3. TcpTypeOK /\ asked \in [Sockets -> BOOLEAN] /\ outcome = "runs" /\ AbortsOnlyByUnknown'
  BY <1>1 DEF IInv, TypeOK, Usable, AbortsOnlyByUnknown
<1>4. /\ made' = made /\ Only(s, "listening") /\ sk'[s].reuseport = sk[s].reuseport
      /\ sk'[s].port = sk[s].port
  BY <1>1, <1>2, <1>3, Listens
<1> QED
  BY <1>1, <1>3, <1>4, OnSocketStep DEF Only, Open

\* disconnect().
LEMMA DisconnectStep ==
  ASSUME IInv, NEW t \in Threads, NEW h \in Handles, Disconnect(t, h)
  PROVE  Kept
<1> DEFINE s == sock[h]
<1>1. /\ Usable(t, h) /\ valid(h) /\ SysDisconnect(s)
      /\ sock' = sock /\ asked' = asked /\ frame' = frame
      /\ outcome' = outcome /\ hazards' = hazards
  BY DEF Disconnect
<1>2. s \in Sockets
  BY <1>1, Own
<1>3. TcpTypeOK /\ asked \in [Sockets -> BOOLEAN] /\ outcome = "runs" /\ AbortsOnlyByUnknown'
  BY <1>1 DEF IInv, TypeOK, Usable, AbortsOnlyByUnknown
<1>4. made' = made /\ Only(s, "fresh") /\ sk'[s].reuseport = sk[s].reuseport
  BY <1>1, <1>2, <1>3, Disconnects
<1> QED
  BY <1>1, <1>3, <1>4, OnSocketStep DEF Only, Open

\* connect() aborts only for what the program does, or the network.
LEMMA ConnectStep ==
  ASSUME IInv, NEW t \in Threads, NEW h \in Handles, NEW p \in Ports, NEW form \in Forms,
         Connect(t, h, p, form)
  PROVE  Kept
<1> DEFINE s == sock[h]
<1>1. /\ Usable(t, h) /\ valid(h)
      /\ sk[s].st = "connected" \/ (sk[s].st = "connecting" /\ sk[s].nonblock)
         => "reconnect" \in hazards
      /\ sock' = sock /\ asked' = asked /\ frame' = frame /\ hazards' = hazards
  BY DEF Connect
<1>2. PICK e \in Errnos : ConnectResult(s, p, e) /\ After(form, e)
  BY DEF Connect
<1>3. s \in Sockets
  BY <1>1, Own
<1>4. TcpTypeOK /\ asked \in [Sockets -> BOOLEAN] /\ outcome = "runs"
  BY <1>1 DEF IInv, TypeOK, Usable
<1>5. /\ made' = made /\ TcpTypeOK' /\ \A u \in Sockets \ {s} : Same(u)
      /\ sk'[s].st # "listening" /\ sk'[s].reuseport = sk[s].reuseport /\ Open(s)'
  BY <1>1, <1>2, <1>3, <1>4, ConnectEnds
<1>6. outcome' \in {"runs", "abort"} /\ AbortsOnlyByUnknown'
  <2>1. e \notin Thrown \cup {"none"} => hazards \cap {"reconnect", "unreachable"} # {}
    BY <1>1, <1>2, <1>3, <1>4, ConnectEnds
  <2>2. e \in Thrown => e \notin ConnectAsserts
    BY DEF Thrown, ConnectAsserts
  <2> QED
    BY <1>1, <1>2, <1>4, <2>1, <2>2 DEF After, Survivable, AbortsOnlyByUnknown
<1> QED
  BY <1>1, <1>4, <1>5, <1>6, OnSocketStep

\* accept(), which may hand a new socket to another handle.
LEMMA AcceptStep ==
  ASSUME IInv, NEW t \in Threads, NEW h \in Handles, NEW c \in Handles, NEW form \in Forms,
         Accept(t, h, c, form)
  PROVE  Kept
<1>0. PICK s : s = made + 1
  OBVIOUS
<1>1. /\ Usable(t, h) /\ Usable(t, c) /\ valid(h) /\ sock[c] = NoSocket
      /\ asked' = asked /\ frame' = frame /\ hazards' = hazards
  BY DEF Accept, valid
<1>2. sock[h] \in Sockets
  BY <1>1, Own
<1>3. /\ asked \in [Sockets -> BOOLEAN] /\ sock \in [Handles -> Sockets \cup {NoSocket}]
      /\ TcpTypeOK /\ outcome = "runs"
  BY <1>1 DEF IInv, TypeOK, Usable
<1>4. CASE /\ SysAccept(sock[h], s) /\ sock' = [sock EXCEPT ![c] = s]
           /\ outcome' = outcome
  <2>1. /\ s \in Sockets /\ made' = s /\ sk'[s].st = "connected" /\ sk'[s].reuseport = FALSE
        /\ TcpTypeOK' /\ \A u \in Sockets \ {s} : Same(u)
    BY <1>2, <1>3, <1>4, Accepted
  <2>2. /\ sk'[s].st # "listening"
        /\ "short" \notin hazards => (sk'[s].reuseport => asked'[s])
        /\ asked' \in [Sockets -> BOOLEAN] /\ \A u \in Sockets \ {s} : asked'[u] = asked[u]
        /\ outcome' \in {"runs", "abort"}
    BY <1>1, <1>3, <1>4, <2>1
  <2>3. TypeOK' /\ Calls' /\ Sharing'
    BY <1>0, <1>1, <1>3, <1>4, <2>1, <2>2, PlainStep
  <2>4. Effect
    BY <1>0, <1>1, <1>3, <1>4, <2>1, NewIn
  <2> QED
    BY <1>1, <1>3, <1>4, <2>3, <2>4 DEF Kept, AbortsOnlyByUnknown
<1>5. CASE /\ "aborted" \in hazards /\ SysAbortPending(sock[h]) /\ sock' = sock
           /\ After(form, "ECONNABORTED")
  <2>1. made' = made /\ TcpTypeOK' /\ \A u \in Sockets : Same(u)
    BY <1>2, <1>3, <1>5, Aborted
  <2>2. outcome' \in {"runs", "abort"} /\ AbortsOnlyByUnknown'
    BY <1>1, <1>3, <1>5 DEF After, AbortsOnlyByUnknown
  <2>3. Open(sock[h])'
    BY <1>1, <1>2, <1>5, <2>1, Own DEF Open, Same
  <2> QED
    BY <1>1, <1>2, <1>3, <1>5, <2>1, <2>2, <2>3, OnSocketStep DEF Same
<1> QED
  BY <1>0, <1>4, <1>5 DEF Accept

\* What the network does on its own.
LEMMA BackgroundStep == IInv /\ Background => Kept
<1> SUFFICES ASSUME IInv, Background PROVE Kept
  OBVIOUS
<1>1. PICK s \in Sockets : Handshake(s)
  BY DEF Background
<1>2. /\ sock' = sock /\ asked' = asked /\ frame' = frame /\ outcome' = outcome
      /\ hazards' = hazards /\ sk[s].st = "connecting"
  BY <1>1 DEF Background, Handshake
<1>3. TypeOK /\ TcpTypeOK /\ Calls /\ Sharing /\ AbortsOnlyByUnknown
  BY DEF IInv, TypeOK
<1>4. /\ made' = made /\ TcpTypeOK' /\ \A u \in Sockets \ {s} : Same(u)
      /\ sk'[s].st \in {"established", "refused"} /\ sk'[s].reuseport = sk[s].reuseport
  <2>1. sk[s].peer \in Ports \cup {NoPort} /\ "established" \in States
    BY <1>3 DEF TcpTypeOK, Records, States
  <2>2. CASE SysConnect(s, sk[s].peer, "established")
    <3>1. PICK p \in Ports \cup {NoPort} : p = sk[s].peer
      BY <2>1
    <3>2. made' = made /\ Only(s, "established") /\ sk'[s].reuseport = sk[s].reuseport
      BY <1>2, <1>3, <2>1, <2>2, <3>1, Connects
    <3> QED
      BY <3>2 DEF Only
  <2>3. CASE sk' = [sk EXCEPT ![s].st = "refused"] /\ made' = made
    BY <1>3, <2>3 DEF TcpTypeOK, Records, States, Same
  <2> QED
    BY <1>1, <2>2, <2>3 DEF Handshake
<1>5. TypeOK'
  BY <1>2, <1>3, <1>4 DEF TypeOK
<1>6. ASSUME NEW t \in Threads PROVE CallOK(frame[t])'
  <2>1. CallOK(frame[t]) /\ frame[t].sock \in Sockets \cup {NoSocket}
    BY <1>3 DEF Calls, TypeOK, Frames
  <2>2. frame[t].step \in {"connect", "setreuseport", "bind", "listen"} =>
          sk'[frame[t].sock].st = sk[frame[t].sock].st
    BY <1>2, <1>4, <2>1 DEF CallOK, Same
  <2> QED
    BY <1>2, <2>1, <2>2 DEF CallOK, valid
<1>7. Calls'
  BY <1>2, <1>3, <1>6 DEF Calls
<1>8. Sharing'
  <2>1. \A u \in Sockets : /\ sk'[u].reuseport = sk[u].reuseport
                           /\ sk'[u].st = "listening" => Same(u)
    BY <1>4 DEF Same
  <2> QED
    BY <1>2, <1>3, <2>1 DEF Sharing, Same, BothShare
<1>9. Effect
  <2>1. \A u \in Sockets : Open(u)' = Open(u)
    BY <1>2, <1>4 DEF Open, Same
  <2> QED
    BY <1>2, <1>4, <2>1, Unmoved
<1> QED
  BY <1>2, <1>3, <1>5, <1>7, <1>8, <1>9 DEF Kept, AbortsOnlyByUnknown
-----------------------------------------------------------------------------
\* The calls of several steps.
Working == {"setreuseport", "bind", "listen", "connect", "close"}

\* What the invariant says of a thread in a call of several steps.
LEMMA InCall ==
  ASSUME IInv, NEW t \in Threads, frame[t].step # "none"
  PROVE  /\ frame[t] \in Frames /\ CallOK(frame[t]) /\ frame[t].op # "idle"
         /\ frame[t].this \in Handles /\ ~valid(frame[t].this)
         /\ \A u \in Threads \ {t} : frame[u].this # frame[t].this
         /\ frame[t].step \in Working => frame[t].sock \in Sockets /\ Open(frame[t].sock)
<1>1. frame[t] \in Frames /\ CallOK(frame[t]) /\ Calls /\ Holding
  BY DEF IInv, TypeOK, Calls
<1>2. frame[t].op # "idle"
  BY <1>1, IdleFrame DEF CallOK
<1>3. frame[t].this \in Handles /\ ~valid(frame[t].this)
  BY <1>1, <1>2 DEF CallOK
<1>4. \A u \in Threads \ {t} : frame[u].this # frame[t].this
  BY <1>1, <1>2 DEF Calls
<1>5. frame[t].sock \in Sockets \cup {NoSocket}
  BY <1>1 DEF Frames
<1>6. frame[t].step \in Working => frame[t].sock # NoSocket
  BY <1>1 DEF CallOK, Working
<1>7. frame[t].step \in Working => Open(frame[t].sock)
  BY <1>1, <1>6, Nums DEF Holding
<1> QED
  BY <1>1, <1>2, <1>3, <1>4, <1>5, <1>6, <1>7

\* A step of a call that leaves its socket where it is.
LEMMA GoOnStep ==
  ASSUME IInv, NEW t \in Threads, frame[t].step \in Working, NEW f \in Frames,
         f.op = frame[t].op, f.this = frame[t].this, f.sock = frame[t].sock,
         frame' = [frame EXCEPT ![t] = f], CallOK(f)', f.step # "setreuseport",
         made' = made, TcpTypeOK', \A u \in Sockets \ {f.sock} : Same(u),
         sk'[f.sock].st # "closed", sk'[f.sock].st # "listening" \/ Same(f.sock),
         "short" \notin hazards => (sk'[f.sock].reuseport => asked[f.sock]),
         sock' = sock, asked' = asked, hazards' = hazards,
         outcome' \in {"runs", "abort"}, AbortsOnlyByUnknown'
  PROVE  Kept
<1>0. PICK h, s : h = frame[t].this /\ s = frame[t].sock
  OBVIOUS
<1>1. /\ frame[t].op # "idle" /\ h \in Handles /\ s \in Sockets /\ Open(s)
      /\ \A u \in Threads \ {t} : frame[u].this # h
  <2>1. frame[t].step # "none"
    BY DEF Working
  <2> QED
    BY <1>0, <2>1, InCall
<1>2. /\ sock' = [sock EXCEPT ![h] = sock[h]] /\ sock[h] \in Sockets \cup {NoSocket}
      /\ asked' \in [Sockets -> BOOLEAN] /\ frame \in [Threads -> Frames]
  BY <1>1 DEF IInv, TypeOK
<1>3. TypeOK' /\ Calls' /\ Sharing'
  <2>1. /\ \A u \in Sockets \ {s} : Same(u)
        /\ sk'[s].st # "listening" \/ Same(s)
        /\ "short" \notin hazards => (sk'[s].reuseport => asked'[s])
        /\ \A u \in Sockets \ {s} : asked'[u] = asked[u]
    BY <1>0
  <2>2. frame[t].sock = s /\ (f.op # "idle" => f.this = h)
    BY <1>0
  <2>3. Calls'
    <3>1. \A g \in Handles \ {h} : sock'[g] = sock[g]
      OBVIOUS
    <3> QED
      BY <1>1, <1>2, <2>1, <2>2, <3>1, CallsStep
  <2>4. Sharing'
    BY <1>1, <1>2, <2>1, <2>2, SharingStep
  <2>5. TypeOK'
    BY <1>2 DEF IInv, TypeOK
  <2> QED
    BY <2>3, <2>4, <2>5
<1>4. \A u \in Sockets : Open(u)' = Open(u)
  BY <1>0, <1>1 DEF Open, Same
<1>5. \A u \in Threads : frame'[u].sock = frame[u].sock
  BY <1>2
<1> QED
  BY <1>3, <1>4, <1>5, Unmoved DEF Kept

\* A step that fails.
LEMMA FailStep ==
  ASSUME IInv, NEW t \in Threads, NEW e \in Errnos, outcome = "runs",
         frame[t].step \in Working \ {"close"}, StepFails(t, e),
         e # "none", e \notin Thrown => "unreachable" \in hazards,
         made' = made, TcpTypeOK', \A u \in Sockets \ {frame[t].sock} : Same(u),
         sk'[frame[t].sock].st # "closed",
         sk'[frame[t].sock].st # "listening" \/ Same(frame[t].sock),
         sk'[frame[t].sock].reuseport = sk[frame[t].sock].reuseport
  PROVE  Kept
<1> DEFINE f0 == frame[t]
<1>0. PICK f : f = [f0 EXCEPT !.step = "close", !.errno = e, !.cause = e]
  OBVIOUS
<1>1. /\ f0 \in Frames /\ CallOK(f0) /\ ~valid(f0.this) /\ f0.sock \in Sockets
      /\ f0.op # "idle"
  <2>1. frame[t].step # "none" /\ frame[t].step \in Working
    BY DEF Working
  <2> QED
    BY <2>1, InCall
<1>2. /\ frame' = [frame EXCEPT ![t] = f] /\ sock' = sock /\ asked' = asked
      /\ hazards' = hazards
  BY <1>0 DEF StepFails
<1>3. /\ f \in Frames /\ f.step = "close" /\ f.op = f0.op /\ f.this = f0.this
      /\ f.sock = f0.sock /\ f.port = f0.port /\ f.errno = e /\ f.cause = e
  BY <1>0, <1>1 DEF Frames
<1>4. CallOK(f)'
  BY <1>1, <1>2, <1>3, IdleFrame DEF CallOK, valid, Working
<1>5. outcome' \in {"runs", "abort"} /\ AbortsOnlyByUnknown'
  <2>1. e \in Thrown => e \notin ConnectAsserts
    BY DEF Thrown, ConnectAsserts
  <2> QED
    BY <1>2, <2>1 DEF StepFails, After, Survivable, AbortsOnlyByUnknown
<1>6. "short" \notin hazards => (sk'[f0.sock].reuseport => asked[f0.sock])
  BY <1>1 DEF IInv, Sharing
<1>8. frame[t].step \in Working
  OBVIOUS
<1> QED
  BY <1>2, <1>3, <1>4, <1>5, <1>6, <1>8, GoOnStep

\* The last step, which hands the socket to the handle.
LEMMA ReturnStep ==
  ASSUME IInv, NEW t \in Threads, outcome = "runs", frame[t].step \in Working, Return(t),
         NEW s, s = frame[t].sock, made' = made, TcpTypeOK',
         \A u \in Sockets \ {s} : Same(u), sk'[s].st # "closed",
         sk'[s].reuseport = sk[s].reuseport,
         \/ sk'[s].st # "listening"
         \/ ~ListenConflict(s) /\ sk'[s].port = sk[s].port
  PROVE  Kept
<1>0. PICK h : h = frame[t].this
  OBVIOUS
<1>1. /\ frame[t].op # "idle" /\ h \in Handles /\ ~valid(h) /\ s \in Sockets /\ Open(s)
      /\ \A u \in Threads \ {t} : frame[u].this # h
  <2>1. frame[t].step # "none"
    BY DEF Working
  <2> QED
    BY <1>0, <2>1, InCall
<1>2. /\ sock' = [sock EXCEPT ![h] = s] /\ frame' = [frame EXCEPT ![t] = Idle]
      /\ asked' = asked /\ outcome' = outcome /\ hazards' = hazards
  BY <1>0 DEF Return
<1>3. /\ sock \in [Handles -> Sockets \cup {NoSocket}] /\ asked \in [Sockets -> BOOLEAN]
      /\ frame \in [Threads -> Frames]
  BY DEF IInv, TypeOK
<1>4. TypeOK' /\ Calls' /\ Sharing'
  <2>1. /\ Idle \in Frames /\ Idle.op = "idle" /\ Idle.step = "none" /\ CallOK(Idle)'
    BY IdleFrame DEF CallOK
  <2>2. "short" \notin hazards => (sk'[s].reuseport => asked'[s])
    BY <1>1, <1>2 DEF IInv, Sharing
  <2>3. /\ asked' \in [Sockets -> BOOLEAN] /\ \A u \in Sockets \ {s} : asked'[u] = asked[u]
        /\ outcome' \in {"runs", "abort"}
    BY <1>2, <1>3
  <2> QED
    BY <1>1, <1>2, <2>1, <2>2, <2>3, CallStep
<1>5. Hands(t, h)
  <2>1. OpenAsBefore({})
    BY <1>1 DEF OpenAsBefore, Open, Same
  <2>2. Num(t) = s /\ Num(h) = NoSocket /\ Num(h)' = s /\ Num(t)' = NoSocket /\ s # NoSocket
    BY <1>1, <1>2, <1>3, IdleFrame, Nums DEF valid
  <2>3. Elsewhere({t, h})
    BY <1>2, <1>3, Nums DEF Elsewhere
  <2> QED
    BY <2>1, <2>2, <2>3 DEF Hands
<1> QED
  BY <1>1, <1>2, <1>4, <1>5, Nums DEF Kept, Effect, AbortsOnlyByUnknown

\* setreuseport() inside listeninit().
LEMMA StepReusePortStep ==
  ASSUME IInv, NEW t \in Threads, StepReusePort(t)
  PROVE  Kept
<1>0. PICK s : s = frame[t].sock
  OBVIOUS
<1>1. outcome = "runs" /\ frame[t].step = "setreuseport" /\ TcpTypeOK
  BY DEF StepReusePort, At, IInv, TypeOK
<1>2. /\ frame[t] \in Frames /\ CallOK(frame[t]) /\ s \in Sockets /\ Open(s)
      /\ frame[t].op # "idle" /\ frame[t].this \in Handles /\ ~valid(frame[t].this)
  BY <1>0, <1>1, InCall DEF Working
<1>3. CASE /\ sk' = [sk EXCEPT ![s].reuseport = TRUE] /\ Go(t, "bind")
           /\ UNCHANGED <<made, sock, asked, outcome, hazards>>
  <2>0. PICK f : f = [frame[t] EXCEPT !.step = "bind"]
    OBVIOUS
  <2>1. /\ f \in Frames /\ f.step = "bind" /\ f.op = frame[t].op /\ f.this = frame[t].this
        /\ f.sock = s /\ f.port = frame[t].port
    BY <1>0, <1>2, <2>0 DEF Frames
  <2>2. Only(s, "fresh") /\ sk'[s].reuseport = TRUE
    <3>1. sk[s].st = "fresh"
      BY <1>0, <1>1, <1>2 DEF CallOK
    <3> QED
      BY <1>1, <1>2, <1>3, <3>1, Options
  <2>3. CallOK(f)'
    BY <1>0, <1>1, <1>2, <1>3, <2>1, <2>2, IdleFrame DEF CallOK, valid, Only
  <2>4. frame' = [frame EXCEPT ![t] = f] /\ AbortsOnlyByUnknown'
    BY <1>1, <1>3, <2>0 DEF Go, AbortsOnlyByUnknown
  <2>5. "short" \notin hazards => asked[f.sock]
    BY <1>0, <1>1, <2>1 DEF IInv, Sharing
  <2>6. frame[t].step \in Working
    BY <1>1 DEF Working
  <2> QED
    BY <1>0, <1>1, <1>3, <2>1, <2>2, <2>3, <2>4, <2>5, <2>6, GoOnStep DEF Only
<1>4. CASE StepFails(t, "ENOBUFS") /\ UNCHANGED <<sk, made>>
  <2>1. "ENOBUFS" \in Errnos /\ "ENOBUFS" \in Thrown /\ frame[t].step \in Working \ {"close"}
    BY <1>1 DEF Errnos, Thrown, Working
  <2>2. TcpTypeOK' /\ \A u \in Sockets : Same(u)
    BY <1>1, <1>4 DEF TcpTypeOK, Same
  <2>3. sk'[frame[t].sock].st # "closed"
    BY <1>0, <1>2, <1>4 DEF Open
  <2> QED
    BY <1>0, <1>1, <1>2, <1>4, <2>1, <2>2, <2>3, FailStep
<1> QED
  BY <1>0, <1>3, <1>4 DEF StepReusePort

\* bind() inside listeninit().
LEMMA StepBindStep ==
  ASSUME IInv, NEW t \in Threads, StepBind(t)
  PROVE  Kept
<1>0. PICK s : s = frame[t].sock
  OBVIOUS
<1>1. outcome = "runs" /\ frame[t].step = "bind" /\ TcpTypeOK
  BY DEF StepBind, At, IInv, TypeOK
<1>2. /\ frame[t] \in Frames /\ CallOK(frame[t]) /\ s \in Sockets /\ Open(s)
      /\ frame[t].op # "idle" /\ frame[t].this \in Handles /\ ~valid(frame[t].this)
  BY <1>0, <1>1, InCall DEF Working
<1>3. CASE /\ SysBind(s, frame[t].port) /\ Go(t, "listen")
           /\ UNCHANGED <<sock, asked, outcome, hazards>>
  <2>0. PICK f : f = [frame[t] EXCEPT !.step = "listen"]
    OBVIOUS
  <2>1. /\ f \in Frames /\ f.step = "listen" /\ f.op = frame[t].op /\ f.this = frame[t].this
        /\ f.sock = s /\ f.port = frame[t].port
    BY <1>0, <1>2, <2>0 DEF Frames
  <2>2. made' = made /\ Only(s, "bound") /\ sk'[s].reuseport = sk[s].reuseport
    <3>1. PICK p \in Ports : p = frame[t].port
      BY <1>1, <1>2 DEF CallOK, Frames
    <3> QED
      BY <1>1, <1>2, <1>3, <3>1, Binds
  <2>3. CallOK(f)'
    BY <1>0, <1>1, <1>2, <1>3, <2>1, <2>2, IdleFrame DEF CallOK, valid, Only
  <2>4. frame' = [frame EXCEPT ![t] = f] /\ AbortsOnlyByUnknown'
    BY <1>1, <1>3, <2>0 DEF Go, AbortsOnlyByUnknown
  <2>5. "short" \notin hazards => (sk'[f.sock].reuseport => asked[f.sock])
    BY <1>2, <2>1, <2>2 DEF IInv, Sharing
  <2>6. frame[t].step \in Working
    BY <1>1 DEF Working
  <2> QED
    BY <1>0, <1>1, <1>3, <2>1, <2>2, <2>3, <2>4, <2>5, <2>6, GoOnStep DEF Only
<1>4. CASE StepFails(t, "EADDRINUSE") /\ UNCHANGED <<sk, made>>
  <2>1. /\ "EADDRINUSE" \in Errnos /\ "EADDRINUSE" \in Thrown
        /\ frame[t].step \in Working \ {"close"}
    BY <1>1 DEF Errnos, Thrown, Working
  <2>2. TcpTypeOK' /\ \A u \in Sockets : Same(u)
    BY <1>1, <1>4 DEF TcpTypeOK, Same
  <2>3. sk'[frame[t].sock].st # "closed"
    BY <1>0, <1>2, <1>4 DEF Open
  <2> QED
    BY <1>0, <1>1, <1>2, <1>4, <2>1, <2>2, <2>3, FailStep
<1> QED
  BY <1>0, <1>3, <1>4 DEF StepBind

\* listen() inside listeninit(), whose success returns the socket.
LEMMA StepListenStep ==
  ASSUME IInv, NEW t \in Threads, StepListen(t)
  PROVE  Kept
<1>0. PICK s : s = frame[t].sock
  OBVIOUS
<1>1. outcome = "runs" /\ frame[t].step = "listen" /\ TcpTypeOK
  BY DEF StepListen, At, IInv, TypeOK
<1>2. s \in Sockets /\ Open(s)
  BY <1>0, <1>1, InCall DEF Working
<1>3. CASE ~ListenConflict(s) /\ SysListen(s) /\ Return(t)
  <2>1. /\ made' = made /\ Only(s, "listening") /\ sk'[s].port = sk[s].port
        /\ sk'[s].reuseport = sk[s].reuseport
    BY <1>1, <1>2, <1>3, Listens
  <2>2. frame[t].step \in Working
    BY <1>1 DEF Working
  <2> QED
    BY <1>0, <1>1, <1>3, <2>1, <2>2, ReturnStep DEF Only
<1>4. ASSUME NEW e \in ListenErrors(s), StepFails(t, e), UNCHANGED <<sk, made>>
      PROVE  Kept
  <2>1. e \in Errnos /\ e # "none" /\ e \in Thrown /\ frame[t].step \in Working \ {"close"}
    BY <1>1 DEF Errnos, Thrown, Working, ListenErrors
  <2>2. TcpTypeOK' /\ \A u \in Sockets : Same(u)
    BY <1>1, <1>4 DEF TcpTypeOK, Same
  <2>3. sk'[frame[t].sock].st # "closed"
    BY <1>0, <1>2, <1>4 DEF Open
  <2> QED
    BY <1>0, <1>1, <1>2, <1>4, <2>1, <2>2, <2>3, FailStep
<1> QED
  BY <1>0, <1>3, <1>4 DEF StepListen

\* connect() inside connectinit(), whose success returns the socket.
LEMMA StepConnectStep ==
  ASSUME IInv, NEW t \in Threads, StepConnect(t)
  PROVE  Kept
<1>0. PICK s, p : s = frame[t].sock /\ p = frame[t].port
  OBVIOUS
<1>1. outcome = "runs" /\ frame[t].step = "connect" /\ TcpTypeOK
  BY DEF StepConnect, At, IInv, TypeOK
<1>2. /\ CallOK(frame[t]) /\ frame[t] \in Frames /\ s \in Sockets /\ Open(s)
      /\ frame[t].op # "idle"
  BY <1>0, <1>1, InCall DEF Working
<1>3. sk[s].st = "fresh" /\ p \in Ports
  BY <1>0, <1>1, <1>2 DEF CallOK, Frames
<1>4. PICK e \in Errnos : /\ ConnectResult(s, p, e)
                          /\ IF e = "none" THEN Return(t) ELSE StepFails(t, e)
  BY <1>0 DEF StepConnect
<1>5. /\ made' = made /\ TcpTypeOK' /\ \A u \in Sockets \ {s} : Same(u)
      /\ sk'[s].st # "listening" /\ sk'[s].reuseport = sk[s].reuseport
      /\ sk'[s].st # "closed"
      /\ e \in Thrown \cup {"none"} \/ (e = "ENETUNREACH" /\ "unreachable" \in hazards)
  <2>1. e \notin {"EALREADY", "EISCONN"}
    BY <1>1, <1>2, <1>3, <1>4, ConnectEnds
  <2>2. /\ made' = made /\ TcpTypeOK' /\ \A u \in Sockets \ {s} : Same(u)
        /\ sk'[s].st # "listening" /\ sk'[s].reuseport = sk[s].reuseport
        /\ Open(s)'
    BY <1>1, <1>2, <1>3, <1>4, ConnectEnds
  <2>3. /\ e \in Thrown \cup {"none", "EALREADY", "EISCONN", "ENETUNREACH"}
        /\ e = "ENETUNREACH" => "unreachable" \in hazards
    BY <1>1, <1>2, <1>3, <1>4, ConnectEnds
  <2> QED
    BY <2>1, <2>2, <2>3 DEF Open
<1>6. frame[t].step \in Working \ {"close"}
  BY <1>1 DEF Working
<1>7. CASE e = "none"
  BY <1>0, <1>1, <1>4, <1>5, <1>6, <1>7, ReturnStep
<1>8. CASE e # "none"
  BY <1>0, <1>1, <1>4, <1>5, <1>6, <1>8, FailStep
<1> QED
  BY <1>7, <1>8

\* err_close: the socket of the failed call is closed.
LEMMA CloseOnErrorStep ==
  ASSUME IInv, NEW t \in Threads, CloseOnError(t)
  PROVE  Kept
<1>0. PICK h, s : h = frame[t].this /\ s = frame[t].sock
  OBVIOUS
<1>1. /\ outcome = "runs" /\ frame[t].step = "close" /\ TcpTypeOK
      /\ frame \in [Threads -> Frames] /\ sock \in [Handles -> Sockets \cup {NoSocket}]
      /\ asked \in [Sockets -> BOOLEAN]
  BY DEF CloseOnError, At, IInv, TypeOK
<1>2. /\ CallOK(frame[t]) /\ frame[t] \in Frames /\ s \in Sockets /\ Open(s)
      /\ frame[t].op # "idle" /\ h \in Handles /\ ~valid(h)
      /\ \A u \in Threads \ {t} : frame[u].this # h
  BY <1>0, <1>1, InCall DEF Working
<1>3. /\ SysClose(s) /\ sock' = sock /\ asked' = asked /\ outcome' = outcome
      /\ hazards' = hazards
  BY <1>0 DEF CloseOnError
<1>4. /\ made' = made /\ TcpTypeOK' /\ sk'[s].st = "closed" /\ sk'[s].reuseport = FALSE
      /\ \A u \in Sockets \ {s} : Same(u)
  BY <1>1, <1>2, <1>3, Closes DEF Only
<1>5. PICK f \in Frames :
        /\ frame' = [frame EXCEPT ![t] = f] /\ f.sock = NoSocket
        /\ f.step # "setreuseport" /\ (f.op # "idle" => f.this = h) /\ CallOK(f)'
  <2>1. CASE frame' = [frame EXCEPT ![t] = Idle]
    <3>1. CallOK(Idle)'
      BY IdleFrame DEF CallOK
    <3> QED
      BY <2>1, <3>1, IdleFrame
  <2>2. CASE frame' = [frame EXCEPT ![t].step = "handler", ![t].sock = NoSocket]
    <3>1. PICK f : f = [frame[t] EXCEPT !.step = "handler", !.sock = NoSocket]
      OBVIOUS
    <3>2. /\ f \in Frames /\ f.step = "handler" /\ f.op = frame[t].op /\ f.this = frame[t].this
          /\ f.sock = NoSocket /\ f.port = frame[t].port
          /\ f.errno = frame[t].errno /\ f.cause = frame[t].cause
      BY <1>2, <3>1 DEF Frames, NoSocket
    <3>3. CallOK(f)'
      BY <1>0, <1>1, <1>2, <1>3, <3>2, IdleFrame DEF CallOK, valid
    <3> QED
      BY <1>0, <2>2, <3>1, <3>2, <3>3
  <2> QED
    BY <2>1, <2>2 DEF CloseOnError
<1>6. TypeOK' /\ Calls' /\ Sharing'
  <2>2. /\ asked' \in [Sockets -> BOOLEAN] /\ \A u \in Sockets \ {s} : asked'[u] = asked[u]
        /\ outcome' \in {"runs", "abort"} /\ sk'[s].st # "listening"
        /\ "short" \notin hazards => (sk'[s].reuseport => asked'[s])
    BY <1>1, <1>3, <1>4
  <2>3. frame[t].sock = s
    BY <1>0
  <2>4. Calls'
    BY <1>2, <1>3, <1>4, <1>5, <2>3, CallsStep
  <2>5. Sharing'
    BY <1>2, <1>3, <1>4, <1>5, <2>2, <2>3, SharingStep
  <2>6. TypeOK'
    BY <1>1, <1>3, <1>4, <1>5, <2>2 DEF IInv, TypeOK
  <2> QED
    BY <2>4, <2>5, <2>6
<1>7. GivesBack(t)
  <2>1. OpenAsBefore({s})
    BY <1>4 DEF OpenAsBefore, Open, Same
  <2>2. Num(t) = s /\ Num(t)' = NoSocket /\ s # NoSocket
    BY <1>0, <1>1, <1>2, <1>5, IdleFrame, Nums
  <2>3. Elsewhere({t})
    BY <1>1, <1>3, <1>5, Nums DEF Elsewhere
  <2> QED
    BY <1>4, <2>1, <2>2, <2>3 DEF GivesBack
<1> QED
  BY <1>1, <1>3, <1>6, <1>7, Nums DEF Kept, Effect, AbortsOnlyByUnknown

\* err: the handler is called and an empty object returned.
LEMMA CallHandlerStep ==
  ASSUME IInv, NEW t \in Threads, CallHandler(t)
  PROVE  Kept
<1>0. PICK h : h = frame[t].this
  OBVIOUS
<1>1. /\ outcome = "runs" /\ frame[t].step = "handler" /\ TcpTypeOK
      /\ frame \in [Threads -> Frames] /\ sock \in [Handles -> Sockets \cup {NoSocket}]
      /\ asked \in [Sockets -> BOOLEAN]
  BY DEF CallHandler, At, IInv, TypeOK
<1>2. /\ CallOK(frame[t]) /\ h \in Handles /\ ~valid(h)
      /\ \A u \in Threads \ {t} : frame[u].this # h
  BY <1>0, <1>1, InCall
<1>3. frame[t].sock = NoSocket /\ sock[h] = NoSocket
  BY <1>1, <1>2 DEF CallOK, valid
<1>4. /\ sock' = [sock EXCEPT ![h] = NoSocket] /\ frame' = [frame EXCEPT ![t] = Idle]
      /\ asked' = asked /\ outcome' = outcome /\ hazards' = hazards
      /\ sk' = sk /\ made' = made
  BY <1>0, <1>3 DEF CallHandler, Return
<1>5. TypeOK' /\ Calls' /\ Sharing'
  <2>1. /\ Idle \in Frames /\ Idle.op = "idle" /\ Idle.step = "none" /\ CallOK(Idle)'
    BY IdleFrame DEF CallOK
  <2>2. /\ asked' \in [Sockets -> BOOLEAN] /\ \A u \in Sockets : asked'[u] = asked[u]
        /\ outcome' \in {"runs", "abort"} /\ TcpTypeOK' /\ \A u \in Sockets : Same(u)
    BY <1>1, <1>4 DEF TcpTypeOK, Same
  <2>3. NoSocket \notin Sockets
    BY IdleFrame
  <2> QED
    <3>1. PICK s : s = NoSocket
      OBVIOUS
    <3>2. /\ s \notin Sockets /\ s \in Sockets \cup {NoSocket}
          /\ \A u \in Sockets \ {s} : Same(u) /\ asked'[u] = asked[u]
      BY <2>2, <2>3, <3>1
    <3>3. Calls'
      BY <1>1, <1>2, <1>4, <2>1, <3>2, CallsStep
    <3>4. Sharing'
      BY <1>4, <2>1, <3>2, SharingStep
    <3>5. TypeOK'
      BY <1>2, <1>4, <2>1, <2>2 DEF IInv, TypeOK
    <3> QED
      BY <3>3, <3>4, <3>5
<1>6. Effect
  <2>1. sock' = sock /\ \A u \in Threads : frame'[u].sock = frame[u].sock
    BY <1>1, <1>3, <1>4, IdleFrame
  <2>2. \A u \in Sockets : Open(u)' = Open(u)
    BY <1>4 DEF Open
  <2> QED
    BY <1>4, <2>1, <2>2, Unmoved
<1> QED
  BY <1>1, <1>4, <1>5, <1>6 DEF Kept, AbortsOnlyByUnknown

\* listeninit() and connectinit() begin: a socket for the call, or the handler.
LEMMA BeginStep ==
  ASSUME IInv, NEW t \in Threads, NEW h \in Handles, NEW p \in Ports, NEW form \in Forms,
         NEW op, NEW first, NEW share \in BOOLEAN, Begin(t, h, p, op, first, form, share),
         \/ op = "listeninit" /\ first \in {"setreuseport", "bind"} /\ h \in Servers
         \/ op = "connectinit" /\ first = "connect" /\ h \in Clients,
         asked' \in [Sockets -> BOOLEAN], \A u \in Sockets \ {made + 1} : asked'[u] = asked[u],
         made' = made => asked' = asked,
         "short" \notin hazards /\ first = "setreuseport" /\ made' # made => asked'[made']
  PROVE  Kept
<1>1. /\ outcome = "runs" /\ TcpTypeOK
      /\ frame \in [Threads -> Frames] /\ sock \in [Handles -> Sockets \cup {NoSocket}]
      /\ \A u \in Threads : frame[u].this # h
      /\ frame[t] = Idle /\ sock[h] = NoSocket
  BY DEF Begin, Usable, valid, IInv, TypeOK
<1>2. sock' = sock /\ outcome' = outcome /\ hazards' = hazards
  BY DEF Begin
<1>3. sock' = [sock EXCEPT ![h] = NoSocket] /\ outcome' \in {"runs", "abort"}
  BY <1>1, <1>2
<1>4. CASE \E nonblock \in BOOLEAN :
             /\ SysSocket(made + 1, nonblock)
             /\ frame' = [frame EXCEPT ![t] =
                            [Idle EXCEPT !.op = op, !.this = h, !.form = form,
                                         !.share = share, !.port = p,
                                         !.step = first, !.sock = made + 1]]
  <2>0. PICK s : s = made + 1
    OBVIOUS
  <2>1. /\ s \in Sockets /\ made' = s /\ TcpTypeOK' /\ \A u \in Sockets \ {s} : Same(u)
        /\ sk'[s].st = "fresh" /\ sk'[s].reuseport = FALSE
    BY <1>1, <1>4, <2>0, NewSocket DEF Only
  <2>2. PICK f : f = [Idle EXCEPT !.op = op, !.this = h, !.form = form, !.share = share,
                                  !.port = p, !.step = first, !.sock = made + 1]
    OBVIOUS
  <2>3. /\ f.op = op /\ f.this = h /\ f.port = p /\ f.step = first /\ f.sock = s
        /\ f \in Frames /\ frame' = [frame EXCEPT ![t] = f]
    BY <1>4, <2>0, <2>1, <2>2, IdleFrame DEF Idle, Frames
  <2>4. CallOK(f)'
    BY <1>1, <1>2, <2>1, <2>3, IdleFrame DEF CallOK, valid
  <2>5. /\ made' # made /\ \A u \in Sockets \ {s} : asked'[u] = asked[u]
        /\ sk'[s].st # "listening" /\ s # NoSocket
        /\ "short" \notin hazards /\ f.step = "setreuseport" => asked'[f.sock]
    BY <1>1, <2>0, <2>1, <2>3, IdleFrame DEF TcpTypeOK
  <2>6. TypeOK' /\ Calls' /\ Sharing'
    <3>1. Calls'
      <4>1. /\ \A u \in Threads \ {t} : frame[u].this # h
            /\ \A g \in Handles \ {h} : sock'[g] = sock[g]
            /\ f \in Frames /\ frame' = [frame EXCEPT ![t] = f] /\ f.this = h
        BY <1>1, <1>2, <2>3
      <4>2. s \in Sockets /\ s = made + 1 /\ \A u \in Sockets \ {s} : Same(u)
        BY <2>0, <2>1
      <4> QED
        BY <2>4, <4>1, <4>2, CallsStep
    <3>2. Sharing'
      BY <1>2, <2>0, <2>1, <2>3, <2>5, SharingStep
    <3>3. TypeOK'
      BY <1>1, <1>2, <2>1, <2>3 DEF IInv, TypeOK
    <3> QED
      BY <3>1, <3>2, <3>3
  <2>7. Gets(t)
    <3>1. OpenAsBefore({s}) /\ Elsewhere({t})
      BY <1>1, <1>2, <2>1, <2>3, Nums DEF OpenAsBefore, Elsewhere, Open, Same
    <3>2. Num(t) = NoSocket /\ Num(t)' = made'
      BY <1>1, <2>1, <2>3, IdleFrame, Nums
    <3> QED
      BY <2>0, <2>1, <3>1, <3>2 DEF Gets
  <2> QED
    BY <1>1, <1>2, <2>6, <2>7, Nums DEF Kept, Effect, AbortsOnlyByUnknown
<1>5. CASE /\ UNCHANGED <<sk, made>>
           /\ frame' = [frame EXCEPT ![t] =
                          [Idle EXCEPT !.op = op, !.this = h, !.form = form,
                                       !.share = share, !.port = p, !.step = "handler",
                                       !.errno = "EMFILE", !.cause = "EMFILE"]]
  <2>2. PICK f : f = [Idle EXCEPT !.op = op, !.this = h, !.form = form, !.share = share,
                                  !.port = p, !.step = "handler", !.errno = "EMFILE",
                                  !.cause = "EMFILE"]
    OBVIOUS
  <2>3. /\ f.op = op /\ f.this = h /\ f.port = p /\ f.step = "handler"
        /\ f.sock = NoSocket /\ f.errno = "EMFILE" /\ f.cause = "EMFILE"
        /\ f \in Frames /\ frame' = [frame EXCEPT ![t] = f]
    BY <1>5, <2>2, IdleFrame DEF Idle, Frames, Errnos
  <2>4. CallOK(f)'
    BY <1>1, <1>2, <2>3, IdleFrame DEF CallOK, valid
  <2>5. /\ TcpTypeOK' /\ \A u \in Sockets : Same(u) /\ asked'[u] = asked[u]
        /\ NoSocket \notin Sockets
    BY <1>1, <1>5, IdleFrame DEF TcpTypeOK, Same
  <2>6. TypeOK' /\ Calls' /\ Sharing'
    <3>1. PICK s : s = NoSocket
      OBVIOUS
    <3>2. /\ s \notin Sockets /\ s \in Sockets \cup {NoSocket}
          /\ \A u \in Sockets \ {s} : Same(u) /\ asked'[u] = asked[u]
      BY <2>5, <3>1
    <3>3. Calls'
      <4>1. /\ \A u \in Threads \ {t} : frame[u].this # h
            /\ \A g \in Handles \ {h} : sock'[g] = sock[g]
            /\ f \in Frames /\ frame' = [frame EXCEPT ![t] = f] /\ f.this = h
        BY <1>1, <1>2, <2>3
      <4> QED
        BY <2>4, <3>2, <4>1, CallsStep
    <3>4. Sharing'
      BY <1>2, <2>3, <3>2, SharingStep
    <3>5. TypeOK'
      BY <1>1, <1>2, <2>3, <2>5 DEF IInv, TypeOK
    <3> QED
      BY <3>3, <3>4, <3>5
  <2>7. Effect
    <3>1. \A u \in Threads : frame'[u].sock = frame[u].sock
      BY <1>1, <2>3, IdleFrame
    <3>2. \A u \in Sockets : Open(u)' = Open(u)
      BY <1>5 DEF Open
    <3> QED
      BY <1>2, <1>5, <3>1, <3>2, Unmoved
  <2> QED
    BY <1>1, <1>2, <2>6, <2>7 DEF Kept, AbortsOnlyByUnknown
<1> QED
  BY <1>4, <1>5, TcpProgramsAssumption DEF Begin, Flags

\* listeninit() opens its socket, or fails to.
LEMMA ListenInitStep ==
  ASSUME IInv, NEW t \in Threads, NEW h \in Servers, NEW p \in Ports, NEW form \in Forms,
         NEW share \in BOOLEAN, ListenInit(t, h, p, form, share)
  PROVE  Kept
<1> DEFINE effective == share \/ form = "short"
           first == IF effective THEN "setreuseport" ELSE "bind"
<1>1. /\ form = "short" => "short" \in hazards
      /\ Begin(t, h, p, "listeninit", first, form, effective)
      /\ asked' = IF made' = made THEN asked ELSE [asked EXCEPT ![made'] = share]
  BY DEF ListenInit
<1>2. /\ h \in Handles /\ made \in 0 .. MaxSockets /\ asked \in [Sockets -> BOOLEAN]
      /\ first \in {"setreuseport", "bind"} /\ effective \in BOOLEAN
  BY DEF Handles, IInv, TypeOK, TcpTypeOK
<1>3. made' # made => made' = made + 1 /\ made' \in Sockets
  <2>1. TcpTypeOK
    BY DEF IInv, TypeOK
  <2> QED
    BY <1>1, <2>1 DEF Begin, SysSocket
<1>4. /\ asked' \in [Sockets -> BOOLEAN] /\ (made' = made => asked' = asked)
      /\ \A u \in Sockets \ {made + 1} : asked'[u] = asked[u]
      /\ "short" \notin hazards /\ first = "setreuseport" /\ made' # made => asked'[made']
  BY <1>1, <1>2, <1>3
<1> HIDE DEF effective, first
<1> QED
  BY <1>1, <1>2, <1>4, BeginStep

\* connectinit() opens its socket, or fails to.
LEMMA ConnectInitStep ==
  ASSUME IInv, NEW t \in Threads, NEW h \in Clients, NEW p \in Ports, NEW form \in Forms,
         ConnectInit(t, h, p, form)
  PROVE  Kept
<1>1. /\ Begin(t, h, p, "connectinit", "connect", form, FALSE) /\ asked' = asked
      /\ h \in Handles /\ asked \in [Sockets -> BOOLEAN]
  BY DEF ConnectInit, Handles, IInv, TypeOK
<1> QED
  BY <1>1, BeginStep
-----------------------------------------------------------------------------
\* The invariant.
LEMMA NextStep == IInv /\ Next => Kept
<1> SUFFICES ASSUME IInv, Next PROVE Kept
  OBVIOUS
<1>1. Servers \subseteq Handles /\ Clients \subseteq Handles
      /\ \A h : Flags(h) \subseteq BOOLEAN
  BY DEF Handles, Flags
<1>2. ASSUME NEW t \in Threads, OneCall(t) PROVE Kept
  BY <1>1, <1>2, OpenSocketStep, CloseStep, ListenStep, OptionStep, BindStep, AcceptStep
     DEF OneCall
<1>3. ASSUME NEW t \in Threads, ClientCall(t) PROVE Kept
  BY <1>1, <1>3, OpenSocketStep, CloseStep, DisconnectStep, ConnectStep, ConnectInitStep
     DEF ClientCall
<1>4. ASSUME NEW t \in Threads, InitCall(t) PROVE Kept
  BY <1>4, ListenInitStep DEF InitCall
<1>5. ASSUME NEW t \in Threads, Continue(t) PROVE Kept
  BY <1>5, StepReusePortStep, StepBindStep, StepListenStep, StepConnectStep,
     CloseOnErrorStep, CallHandlerStep DEF Continue
<1> QED
  BY <1>2, <1>3, <1>4, <1>5, BackgroundStep DEF Next

\* What the places hold after any of the four effects.
LEMMA HoldingStep ==
  ASSUME IInv, Effect, TypeOK'
  PROVE  Holding'
<1>1. /\ Holding /\ made \in Nat /\ made' \in Nat
      /\ \A p \in Places : Num(p) \in Sockets \cup {NoSocket}
  BY Nums DEF IInv, TypeOK, TcpTypeOK, Frames
<1>2. \A p \in Places : Num(p) # NoSocket =>
        Num(p) \in Sockets /\ Num(p) <= made /\ Open(Num(p))
  BY <1>1 DEF Holding
<1>3. CASE Still
  BY <1>1, <1>2, <1>3 DEF Still, Elsewhere, OpenAsBefore, Holding
<1>4. ASSUME NEW p \in Places, Gets(p) PROVE Holding'
  <2>1. /\ made' = made + 1 /\ made' \in Sockets /\ Num(p)' = made' /\ Num(p) = NoSocket
        /\ sk'[made'].st # "closed"
        /\ \A q \in Places : q # p => Num(q)' = Num(q)
        /\ \A s \in Sockets : s # made' => Open(s)' = Open(s)
    BY <1>4 DEF Gets, Elsewhere, OpenAsBefore
  <2>2. made' # NoSocket
    BY <2>1, IdleFrame
  <2>3. \A q \in Places : Num(q)' # NoSocket => Num(q)' <= made' /\ Open(Num(q))'
    <3> SUFFICES ASSUME NEW q \in Places, q # p, Num(q)' # NoSocket
                 PROVE  Num(q)' <= made' /\ Open(Num(q))'
      BY <1>1, <2>1 DEF Open
    <3>1. Num(q)' = Num(q) /\ Num(q) # NoSocket
      BY <2>1
    <3>2. Num(q) \in Sockets /\ Num(q) <= made /\ Open(Num(q)) /\ Num(q) # made'
      BY <1>1, <1>2, <2>1, <3>1 DEF Sockets
    <3>3. sk'[Num(q)].st # "closed"
      BY <2>1, <3>2 DEF Open
    <3> QED
      BY <1>1, <2>1, <3>1, <3>2, <3>3 DEF Open, Sockets
  <2>4. \A q, r \in Places : q # r /\ Num(q)' # NoSocket => Num(q)' # Num(r)'
    BY <1>1, <1>2, <2>1 DEF Holding
  <2>5. \A s \in Sockets : s <= made' /\ Open(s)' => \E q \in Places : Num(q)' = s
    <3> SUFFICES ASSUME NEW s \in Sockets, s <= made', Open(s)', s # made'
                 PROVE  \E q \in Places : Num(q)' = s
      BY <2>1
    <3>1. s <= made /\ Open(s)
      BY <1>1, <2>1 DEF Sockets
    <3>2. PICK q \in Places : Num(q) = s
      BY <1>1, <3>1 DEF Holding
    <3>3. q # p
      BY <2>1, <3>2, IdleFrame
    <3> QED
      BY <2>1, <3>2, <3>3
  <2> QED
    BY <2>3, <2>4, <2>5 DEF Holding
<1>5. ASSUME NEW p \in Places, GivesBack(p) PROVE Holding'
  <2>1. /\ made' = made /\ Num(p)' = NoSocket /\ Num(p) # NoSocket
        /\ sk'[Num(p)].st = "closed"
        /\ \A q \in Places : q # p => Num(q)' = Num(q)
        /\ \A s \in Sockets : s # Num(p) => Open(s)' = Open(s)
    BY <1>5 DEF GivesBack, Elsewhere, OpenAsBefore
  <2>2. \A q \in Places : q # p /\ Num(q) # NoSocket => Num(q) # Num(p)
    BY <1>1, <2>1 DEF Holding
  <2>3. \A q \in Places : Num(q)' # NoSocket => Num(q)' <= made' /\ Open(Num(q))'
    <3> SUFFICES ASSUME NEW q \in Places, Num(q)' # NoSocket
                 PROVE  Num(q)' <= made' /\ Open(Num(q))'
      OBVIOUS
    <3>1. q # p /\ Num(q)' = Num(q) /\ Num(q) # NoSocket
      BY <2>1
    <3>2. Num(q) \in Sockets /\ Num(q) # Num(p) /\ Num(q) <= made /\ Open(Num(q))
      BY <1>2, <2>2, <3>1
    <3>3. sk'[Num(q)].st # "closed"
      BY <2>1, <3>2 DEF Open
    <3> QED
      BY <2>1, <3>1, <3>2, <3>3 DEF Open
  <2>4. \A q, r \in Places : q # r /\ Num(q)' # NoSocket => Num(q)' # Num(r)'
    BY <1>1, <2>1 DEF Holding
  <2>5. \A s \in Sockets : s <= made' /\ Open(s)' => \E q \in Places : Num(q)' = s
    <3> SUFFICES ASSUME NEW s \in Sockets, s <= made', Open(s)'
                 PROVE  \E q \in Places : Num(q)' = s
      OBVIOUS
    <3>1. s # Num(p)
      BY <2>1 DEF Open
    <3>2. PICK q \in Places : Num(q) = s
      BY <1>1, <2>1, <3>1 DEF Holding
    <3> QED
      BY <2>1, <3>1, <3>2
  <2> QED
    BY <2>3, <2>4, <2>5 DEF Holding
<1>6. ASSUME NEW p \in Places, NEW q \in Places, Hands(p, q) PROVE Holding'
  <2>1. /\ made' = made /\ \A s \in Sockets : Open(s)' = Open(s)
        /\ Num(p) # NoSocket /\ Num(p)' = NoSocket
        /\ Num(q) = NoSocket /\ Num(q)' = Num(p)
        /\ \A r \in Places : r # p /\ r # q => Num(r)' = Num(r)
    BY <1>6 DEF Hands, Elsewhere, OpenAsBefore
  <2>2. \A r \in Places : Num(r)' # NoSocket => Num(r)' <= made' /\ Open(Num(r))'
    BY <1>2, <2>1 DEF Open
  <2>3. \A r, x \in Places : r # x /\ Num(r)' # NoSocket => Num(r)' # Num(x)'
    BY <1>1, <2>1 DEF Holding
  <2>4. \A s \in Sockets : s <= made' /\ Open(s)' => \E r \in Places : Num(r)' = s
    <3> SUFFICES ASSUME NEW s \in Sockets, s <= made', Open(s)'
                 PROVE  \E r \in Places : Num(r)' = s
      OBVIOUS
    <3>1. PICK r \in Places : Num(r) = s
      BY <1>1, <2>1 DEF Holding
    <3>2. s # NoSocket
      BY IdleFrame
    <3> QED
      BY <2>1, <3>1, <3>2
  <2> QED
    BY <2>2, <2>3, <2>4 DEF Holding
<1> QED
  BY <1>3, <1>4, <1>5, <1>6 DEF Effect

\* Nothing is held at first, and the invariant is kept.
LEMMA Invariant == (Init => IInv) /\ (IInv /\ [Next]_vars => IInv' /\ Effect)
<1>1. ASSUME Init PROVE IInv
  <2>1. Closed \in Records /\ Closed.st = "closed" /\ Closed.reuseport = FALSE
    BY TcpAssumption DEF Closed, Records, States
  <2>2. TypeOK
    BY <1>1, <2>1, TcpAssumption, IdleFrame DEF Init, TcpInit, TypeOK, TcpTypeOK
  <2>3. \A p \in Places : Num(p) = NoSocket
    BY <1>1, Nums, IdleFrame DEF Init
  <2>4. \A s \in Sockets : ~Open(s) /\ sk[s].st # "listening" /\ sk[s].reuseport = FALSE
    BY <1>1, <2>1 DEF Init, TcpInit, Open
  <2>5. CallOK(Idle)
    BY IdleFrame DEF CallOK
  <2>6. \A t \in Threads : frame[t] = Idle
    BY <1>1 DEF Init
  <2>7. Calls
    BY <2>5, <2>6, IdleFrame DEF Calls
  <2>8. Holding
    BY <2>3, <2>4 DEF Holding
  <2>9. Sharing
    BY <2>4, <2>6, IdleFrame DEF Sharing
  <2> QED
    BY <1>1, <2>2, <2>7, <2>8, <2>9 DEF Init, IInv, AbortsOnlyByUnknown
<1>2. ASSUME IInv, Next PROVE IInv' /\ Effect
  <2>1. Kept
    BY <1>2, NextStep
  <2>2. Holding'
    BY <1>2, <2>1, HoldingStep DEF Kept
  <2> QED
    BY <2>1, <2>2 DEF Kept, IInv
<1>3. ASSUME IInv, UNCHANGED vars PROVE IInv' /\ Effect
  <2>1. /\ sk' = sk /\ made' = made /\ sock' = sock /\ asked' = asked /\ frame' = frame
        /\ outcome' = outcome /\ hazards' = hazards
    BY <1>3 DEF vars
  <2>2. Effect
    BY <2>1, Unmoved DEF Open
  <2>3. TypeOK' /\ AbortsOnlyByUnknown'
    BY <1>3, <2>1 DEF IInv, TypeOK, TcpTypeOK, AbortsOnlyByUnknown
  <2>4. Calls'
    BY <1>3, <2>1 DEF IInv, Calls, CallOK, valid
  <2>5. Sharing'
    BY <1>3, <2>1 DEF IInv, Sharing, BothShare
  <2>6. Holding'
    BY <1>3, <2>2, <2>3, HoldingStep
  <2> QED
    BY <2>2, <2>3, <2>4, <2>5, <2>6 DEF IInv
<1> QED
  BY <1>1, <1>2, <1>3

\* The invariant holds, for any number of threads, handles, sockets and ports.
THEOREM Invariance == Spec => []IInv
BY Invariant, PTL DEF Spec

\* Sockets, handles and calls in progress keep their types.
THEOREM TypeCorrect == Spec => []TypeOK
<1>1. IInv => TypeOK
  BY DEF IInv
<1> QED
  BY <1>1, Invariance, PTL

\* A handler that is told of a failure finds the socket closed, its handle empty
\* and the errno of the step that failed.
THEOREM HandlerIsTold == Spec => []HandlerSeesFailure
<1>1. IInv => HandlerSeesFailure
  <2> SUFFICES ASSUME IInv, NEW t \in Threads, frame[t].step = "handler"
               PROVE  /\ frame[t].sock = NoSocket /\ ~valid(frame[t].this)
                      /\ frame[t].errno = frame[t].cause /\ frame[t].cause # "none"
    BY DEF HandlerSeesFailure
  <2>1. CallOK(frame[t]) /\ ~valid(frame[t].this)
    BY InCall
  <2> QED
    BY <2>1 DEF CallOK
<1> QED
  BY <1>1, Invariance, PTL

\* Two sockets listen on one port only if the program asked for it, in a program
\* that does not call the overloads of listeninit() that drop the argument.
THEOREM PortsExclusive == Spec => []SharedOnlyIfAsked
<1>1. IInv => SharedOnlyIfAsked
  BY DEF IInv, Sharing, SharedOnlyIfAsked, ExclusiveAsAsked, BothShare
<1> QED
  BY <1>1, Invariance, PTL

\* A call that throws aborts only for an errno SystemException does not know, or
\* because the program repeats a connect() too early.
THEOREM AbortsExplained == Spec => []AbortsOnlyByUnknown
<1>1. IInv => AbortsOnlyByUnknown
  BY DEF IInv
<1> QED
  BY <1>1, Invariance, PTL
-----------------------------------------------------------------------------
\* What thread t's listeninit() or connectinit() returns is ready.
Ready(t) ==
  LET h == frame[t].this
  IN  frame[t].op # "idle" /\ frame'[t] = Idle /\ sock'[h] # NoSocket
      => sk'[sock'[h]].st = IF frame[t].op = "listeninit" THEN "listening" ELSE "connected"

\* A call in progress goes on only by steps of its own thread.
LEMMA OwnSteps ==
  ASSUME IInv, Next, NEW t \in Threads, frame[t].op # "idle", frame'[t] # frame[t]
  PROVE  Continue(t)
<1>1. frame \in [Threads -> Frames] /\ frame[t] # Idle
  BY IdleFrame DEF IInv, TypeOK
<1>2. ASSUME NEW u \in Threads, OneCall(u) PROVE frame' = frame
  BY <1>2 DEF OneCall, OpenSocket, Close, Listen, SetReusePort, SetReuseAddr, Bind, Accept
<1>3. ASSUME NEW u \in Threads, ClientCall(u) \/ InitCall(u) PROVE frame'[t] = frame[t]
  <2>1. ASSUME NEW h, NEW p, NEW op, NEW first, NEW form, NEW share,
               Begin(u, h, p, op, first, form, share)
        PROVE  frame'[t] = frame[t]
    <3>1. u # t
      BY <1>1, <2>1 DEF Begin, Usable
    <3> QED
      BY <1>1, <2>1, <3>1 DEF Begin
  <2>2. CASE InitCall(u)
    BY <2>1, <2>2 DEF InitCall, ListenInit
  <2>3. CASE ClientCall(u)
    BY <2>1, <2>3 DEF ClientCall, OpenSocket, Close, Disconnect, Connect, ConnectInit
  <2> QED
    BY <1>3, <2>2, <2>3
<1>4. ASSUME NEW u \in Threads \ {t}, Continue(u) PROVE frame'[t] = frame[t]
  BY <1>1, <1>4 DEF Continue, StepReusePort, StepBind, StepListen, StepConnect, CloseOnError,
     CallHandler, Return, StepFails, Go
<1>5. Background => frame' = frame
  BY DEF Background
<1> QED
  BY <1>2, <1>3, <1>4, <1>5 DEF Next

\* A call of several steps returns a socket only by the last of them.
LEMMA ReadyStep == ASSUME IInv, Next, NEW t \in Threads PROVE Ready(t)
<1> SUFFICES ASSUME frame[t].op # "idle", frame'[t] = Idle, sock'[frame[t].this] # NoSocket
             PROVE  sk'[sock'[frame[t].this]].st =
                      IF frame[t].op = "listeninit" THEN "listening" ELSE "connected"
  BY DEF Ready
<1>0. PICK h, s : h = frame[t].this /\ s = frame[t].sock
  OBVIOUS
<1>1. Continue(t)
  BY OwnSteps, IdleFrame
<1>2. frame \in [Threads -> Frames] /\ sock \in [Handles -> Sockets \cup {NoSocket}]
      /\ TcpTypeOK
  BY DEF IInv, TypeOK
<1>3. frame[t].step # "none"
  BY <1>1 DEF Continue, StepReusePort, StepBind, StepListen, StepConnect, CloseOnError,
     CallHandler, At
<1>4. /\ CallOK(frame[t]) /\ frame[t] \in Frames /\ h \in Handles /\ sock[h] = NoSocket
      /\ frame[t].step \in Working => s \in Sockets
  BY <1>0, <1>3, InCall DEF valid
<1>5. ~(\E e : StepFails(t, e)) /\ ~Go(t, "bind") /\ ~Go(t, "listen")
  <2>1. ASSUME NEW e, StepFails(t, e) PROVE FALSE
    <3>1. frame'[t] = [frame[t] EXCEPT !.step = "close", !.errno = e, !.cause = e]
      BY <1>2, <2>1 DEF StepFails
    <3>2. frame'[t].step = "close"
      BY <1>4, <3>1 DEF Frames
    <3> QED
      BY <3>2, IdleFrame
  <2>2. ASSUME NEW step \in {"bind", "listen"}, Go(t, step) PROVE FALSE
    <3>1. frame'[t] = [frame[t] EXCEPT !.step = step]
      BY <1>2, <2>2 DEF Go
    <3>2. frame'[t].step = step
      BY <1>4, <3>1 DEF Frames
    <3> QED
      BY <3>2, IdleFrame
  <2> QED
    BY <2>1, <2>2
<1>6. CASE StepListen(t)
  <2>1. frame[t].step = "listen" /\ SysListen(s) /\ sock'[h] = s
    BY <1>0, <1>2, <1>4, <1>5, <1>6 DEF StepListen, At, Return
  <2>2. s \in Sockets /\ frame[t].op = "listeninit"
    BY <1>4, <2>1 DEF CallOK, Working, Frames
  <2>3. sk'[s].st = "listening"
    BY <1>2, <2>1, <2>2, Listens DEF Only
  <2> QED
    BY <1>0, <2>1, <2>2, <2>3
<1>7. CASE StepConnect(t)
  <2>1. /\ frame[t].step = "connect" /\ sock'[h] = s
        /\ ConnectResult(s, frame[t].port, "none")
    BY <1>0, <1>2, <1>4, <1>5, <1>7 DEF StepConnect, At, Return
  <2>2. s \in Sockets /\ frame[t].op = "connectinit" /\ frame[t].port \in Ports
    BY <1>4, <2>1 DEF CallOK, Working, Frames
  <2>3. PICK p \in Ports : ConnectResult(s, p, "none")
    BY <2>1, <2>2
  <2>4. sk'[s].st = "connected"
    BY <1>2, <2>2, <2>3, ConnectEnds DEF Errnos
  <2> QED
    BY <1>0, <2>1, <2>2, <2>4
<1>8. CASE StepReusePort(t) \/ StepBind(t)
  BY <1>5, <1>8 DEF StepReusePort, StepBind
<1>9. CASE CloseOnError(t) \/ CallHandler(t)
  <2>1. CASE CloseOnError(t)
    BY <1>0, <1>4, <2>1 DEF CloseOnError
  <2>2. CASE CallHandler(t)
    <3>1. s = NoSocket /\ sock'[h] = s
      BY <1>0, <1>2, <1>4, <2>2 DEF CallHandler, At, Return, CallOK
    <3> QED
      BY <1>0, <3>1
  <2> QED
    BY <1>9, <2>1, <2>2
<1> QED
  BY <1>1, <1>6, <1>7, <1>8, <1>9 DEF Continue

\* A socket that listeninit() or connectinit() returns listens or is connected.
THEOREM ReturnsReady == Spec => InitReturnsReady
<1>1. IInv /\ [Next]_vars => [\A t \in Threads : Ready(t)]_vars
  BY ReadyStep
<1> QED
  BY <1>1, Invariance, PTL DEF Spec, InitReturnsReady, Ready
-----------------------------------------------------------------------------
\* The refinement: a socket's place is found through its number, so that the
\* distinctness in Holding makes it the only holder.
MapOK ==
  /\ AbstractStatus \in [Sockets -> {"unused", "held", "released"}]
  /\ AbstractHolders \in [Sockets -> SUBSET Places]
  /\ \A s \in Sockets :
       IF AbstractStatus[s] = "held" THEN \E p \in Places : AbstractHolders[s] = {p}
       ELSE AbstractHolders[s] = {}
  /\ \A s, u \in Sockets : s # u => AbstractHolders[s] \cap AbstractHolders[u] = {}

Advances(s) ==
  \/ AbstractStatus'[s] = AbstractStatus[s]
  \/ AbstractStatus[s] = "unused" /\ AbstractStatus'[s] = "held"
  \/ AbstractStatus[s] = "held" /\ AbstractStatus'[s] = "released"

\* The refinement mapping is well typed: a held socket has one place.
LEMMA Mapped == IInv => MapOK
<1> SUFFICES ASSUME IInv PROVE MapOK
  OBVIOUS
<1>1. Holding /\ made \in Nat
  BY DEF IInv, TypeOK, TcpTypeOK
<1>2. \A s \in Sockets : AbstractHolders[s] = {p \in Places : Num(p) = s}
  <2> SUFFICES ASSUME NEW s \in Sockets
               PROVE  {h \in Handles : sock[h] = s} \cup {t \in Threads : frame[t].sock = s}
                      = {p \in Places : Num(p) = s}
    BY DEF AbstractHolders
  <2> QED
    BY Nums
<1>3. \A s \in Sockets : AbstractStatus[s] = "held" <=> s <= made /\ Open(s)
  BY <1>1 DEF AbstractStatus, Sockets
<1>4. /\ AbstractStatus \in [Sockets -> {"unused", "held", "released"}]
      /\ AbstractHolders \in [Sockets -> SUBSET Places]
  BY DEF AbstractStatus, AbstractHolders, Places
<1>5. ASSUME NEW s \in Sockets, AbstractStatus[s] = "held"
      PROVE  \E p \in Places : AbstractHolders[s] = {p}
  <2>1. PICK p \in Places : Num(p) = s
    BY <1>1, <1>3, <1>5 DEF Holding
  <2>2. \A q \in Places : Num(q) = s => q = p
    BY <1>1, <2>1, IdleFrame DEF Holding
  <2> QED
    BY <1>2, <2>1, <2>2
<1>6. ASSUME NEW s \in Sockets, AbstractStatus[s] # "held"
      PROVE  AbstractHolders[s] = {}
  BY <1>1, <1>2, <1>3, <1>6, IdleFrame DEF Holding
<1>7. \A s, u \in Sockets : s # u => AbstractHolders[s] \cap AbstractHolders[u] = {}
  BY <1>2
<1> QED
  BY <1>4, <1>5, <1>6, <1>7 DEF MapOK

\* A socket goes from unused to held to released.
LEMMA StatusStep ==
  ASSUME IInv, Effect, NEW s \in Sockets
  PROVE  Advances(s)
<1>1. /\ Holding /\ made \in Nat /\ s \in Nat
      /\ \A p \in Places : Num(p) # NoSocket => Num(p) <= made /\ Open(Num(p))
  BY DEF IInv, TypeOK, TcpTypeOK, Holding, Sockets
<1>2. /\ AbstractStatus[s] = IF s > made THEN "unused" ELSE IF Open(s) THEN "held"
                             ELSE "released"
      /\ AbstractStatus'[s] = IF s > made' THEN "unused" ELSE IF Open(s)' THEN "held"
                              ELSE "released"
  BY DEF AbstractStatus
<1>3. CASE made' = made /\ Open(s)' = Open(s)
  BY <1>2, <1>3 DEF Advances
<1>4. ASSUME NEW p \in Places, Gets(p) PROVE Advances(s)
  <2>1. /\ made' = made + 1 /\ (s = made' => Open(s)')
        /\ s # made' => Open(s)' = Open(s)
    BY <1>4 DEF Gets, OpenAsBefore, Open
  <2> QED
    BY <1>1, <1>2, <2>1 DEF Advances
<1>5. ASSUME NEW p \in Places, GivesBack(p) PROVE Advances(s)
  <2>1. /\ made' = made /\ Num(p) # NoSocket /\ sk'[Num(p)].st = "closed"
        /\ s # Num(p) => Open(s)' = Open(s)
    BY <1>5 DEF GivesBack, OpenAsBefore
  <2>2. CASE s = Num(p)
    <3>1. s <= made /\ Open(s) /\ ~Open(s)'
      BY <1>1, <2>1, <2>2 DEF Open
    <3> QED
      BY <1>1, <1>2, <2>1, <3>1 DEF Advances
  <2> QED
    BY <1>3, <2>1, <2>2
<1>6. Still \/ (\E p, q \in Places : Hands(p, q)) => made' = made /\ Open(s)' = Open(s)
  BY DEF Still, Hands, OpenAsBefore
<1> QED
  BY <1>3, <1>4, <1>5, <1>6 DEF Effect

\* Every step is a step of Ownership, or leaves it alone.
LEMMA StepImplements ==
  ASSUME MapOK, MapOK', \A s \in Sockets : Advances(s)
  PROVE  Promise!Next
<1>1. ASSUME NEW s \in Sockets
      PROVE  \/ Promise!Keep(s) \/ Promise!Acquire(s)
             \/ Promise!Transfer(s) \/ Promise!Release(s)
  <2> DEFINE held  == AbstractStatus[s] = "held"
             heldN == AbstractStatus'[s] = "held"
  <2>1. /\ held => \E p \in Places : AbstractHolders[s] = {p}
        /\ ~held => AbstractHolders[s] = {}
        /\ heldN => \E p \in Places : AbstractHolders'[s] = {p}
        /\ ~heldN => AbstractHolders'[s] = {}
    BY DEF MapOK, Places
  <2>2. CASE held /\ heldN
    BY <2>1, <2>2 DEF Promise!Transfer, Promise!Held, Places
  <2>3. CASE held /\ ~heldN
    BY <2>1, <2>3 DEF Promise!Release, Promise!Held, Advances, Places
  <2>4. CASE ~held /\ heldN
    BY <2>1, <2>4 DEF Promise!Acquire, Promise!Held, Advances, Places
  <2>5. CASE ~held /\ ~heldN
    BY <2>1, <2>5 DEF Promise!Keep, Advances
  <2> QED
    BY <2>2, <2>3, <2>4, <2>5
<1>2. /\ AbstractStatus' \in [Sockets -> {"unused", "held", "released"}]
      /\ AbstractHolders' \in [Sockets -> SUBSET (Handles \cup Threads)]
      /\ \A s, u \in Sockets :
           s # u => AbstractHolders'[s] \cap AbstractHolders'[u] = {}
  BY DEF MapOK, Places
<1> QED
  BY <1>1, <1>2 DEF Promise!Next

\* Tcp keeps the promise of Ownership: every socket is acquired once, held at one
\* place at a time and closed once, whichever step of a call fails.
THEOREM Implements == Spec => Owns
<1>1. Init => Promise!Init
  <2> SUFFICES ASSUME Init PROVE Promise!Init
    OBVIOUS
  <2>1. AbstractStatus = [s \in Sockets |-> "unused"]
    BY TcpAssumption DEF AbstractStatus, Init, TcpInit, Sockets
  <2>2. \A p \in Places : Num(p) = NoSocket
    BY Nums, IdleFrame DEF Init
  <2>3. AbstractHolders = [s \in Sockets |-> {}]
    BY <2>2, Nums, IdleFrame DEF AbstractHolders
  <2> QED
    BY <2>1, <2>3 DEF Promise!Init
<1>2. IInv /\ MapOK /\ MapOK' /\ [Next]_vars => Promise!Next
  BY Invariant, StatusStep, StepImplements
<1> QED
  BY <1>1, <1>2, Mapped, Invariance, PTL DEF Spec, Owns, Promise!Spec
=============================================================================
