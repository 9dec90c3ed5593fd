------------------------------ MODULE TcpStack ------------------------------
(***************************************************************************)
(* TCP as the library sees it through the socket calls (external: the      *)
(* kernel).  A socket is identified by the rank of the call that made it;  *)
(* that its descriptor number is reused after close(2) is the subject of   *)
(* ClosingDescriptor and is left out here.  Each operator is one system    *)
(* call that succeeds, or the condition under which it fails.              *)
(***************************************************************************)
EXTENDS Naturals

CONSTANTS
  MaxSockets,  \* bound: how many sockets are made in a behaviour
  Ports,
  NoPort,
  Backlog      \* bound: connections that wait in a listener's queue

ASSUME TcpAssumption ==
  MaxSockets \in Nat /\ Backlog \in Nat /\ NoPort \notin Ports

VARIABLES
  sk,          \* sk[s]: socket s, as the kernel keeps it
  made         \* how many sockets were made

Sockets == 1 .. MaxSockets
NoSocket == 0

\* The states of a socket (port is its own, peer the one it connects to); of a connection in progress the stack knows the
\* outcome before connect(2) reports it.
States == {"closed", "fresh", "bound", "listening",
           "connecting", "established", "refused", "connected"}

Records == [st : States, port : Ports \cup {NoPort},
            peer : Ports \cup {NoPort}, queue : 0 .. Backlog,
            reuseport : BOOLEAN, reuseaddr : BOOLEAN, nonblock : BOOLEAN]

Closed == [st |-> "closed", port |-> NoPort, peer |-> NoPort, queue |-> 0,
           reuseport |-> FALSE, reuseaddr |-> FALSE, nonblock |-> FALSE]

TcpInit == sk = [s \in Sockets |-> Closed] /\ made = 0

TcpTypeOK == made \in 0 .. MaxSockets /\ sk \in [Sockets -> Records]

Open(s) == sk[s].st # "closed"

\* socket(2): s is the new socket.
SysSocket(s, nonblock) ==
  /\ s \in Sockets /\ s = made + 1 /\ made' = s
  /\ sk' = [sk EXCEPT ![s] = [Closed EXCEPT !.st = "fresh", !.nonblock = nonblock]]

SysClose(s) == sk' = [sk EXCEPT ![s] = Closed] /\ UNCHANGED made

Other(s, p) == {u \in Sockets \ {s} : sk[u].port = p}

BothShare(s, u) == sk[s].reuseport /\ sk[u].reuseport

\* EADDRINUSE of bind(2): another socket has the port, unless both share it,
\* or both reuse the address and the other does not listen.
BindConflict(s, p) ==
  \E u \in Other(s, p) :
    /\ ~BothShare(s, u)
    /\ ~(sk[s].reuseaddr /\ sk[u].reuseaddr /\ sk[u].st # "listening")

SysBind(s, p) ==
  sk' = [sk EXCEPT ![s].st = "bound", ![s].port = p] /\ UNCHANGED made

\* EADDRINUSE of listen(2): the port is tested again.
ListenConflict(s) ==
  \E u \in Other(s, sk[s].port) : ~BothShare(s, u) /\ sk[u].st = "listening"

SysListen(s) == sk' = [sk EXCEPT ![s].st = "listening"] /\ UNCHANGED made

\* The listener of port p the stack gives a connection to; two that share the
\* port share its connections.
Listeners(p) ==
  {u \in Sockets : sk[u].st = "listening" /\ sk[u].port = p /\ sk[u].queue < Backlog}

\* A connection of s to p is made, and s is then in state st.
SysConnect(s, p, st) ==
  \E u \in Listeners(p) :
    /\ sk' = [sk EXCEPT ![s].st = st, ![s].peer = p, ![u].queue = @ + 1]
    /\ UNCHANGED made

\* The stack goes on with a connection in progress.
Handshake(s) ==
  /\ sk[s].st = "connecting"
  /\ \/ SysConnect(s, sk[s].peer, "established")
     \/ /\ Listeners(sk[s].peer) = {}
        /\ sk' = [sk EXCEPT ![s].st = "refused"] /\ UNCHANGED made

\* connect(2) to AF_UNSPEC.
SysDisconnect(s) ==
  /\ sk' = [sk EXCEPT ![s].st = "fresh", ![s].peer = NoPort]
  /\ UNCHANGED made

SetState(s, st) == sk' = [sk EXCEPT ![s].st = st] /\ UNCHANGED made

\* accept4(2): the oldest connection of listener s becomes socket c.
SysAccept(s, c) ==
  /\ sk[s].queue > 0
  /\ c \in Sockets /\ c = made + 1 /\ made' = c
  /\ sk' = [sk EXCEPT ![s].queue = @ - 1,
                      ![c] = [Closed EXCEPT !.st = "connected"]]

\* A connection that waits is aborted by its peer.
SysAbortPending(s) ==
  /\ sk[s].queue > 0
  /\ sk' = [sk EXCEPT ![s].queue = @ - 1]
  /\ UNCHANGED made
=============================================================================
