---------------------------- MODULE InetAddress ----------------------------
(***************************************************************************)
(* InetAddress keeps a port and an IPv4 address in network byte order in a *)
(* struct sockaddr_in.  Its constructors, accessors and order, as          *)
(* functions of the fields of _sin.                                        *)
(***************************************************************************)
EXTENDS NetBits

Sin == [sin_port : Uint(2), s_addr : Uint(4)]

INADDR_ANY == <<0, 0, 0, 0>>
INADDR_LOOPBACK == <<127, 0, 0, 1>>

\* InetAddress(), InetAddress(port), InetAddress::localhost(port).
Default == [sin_port |-> <<0, 0>>, s_addr |-> <<0, 0, 0, 0>>]

FromPort(p) == [sin_port |-> hton(p, 2), s_addr |-> hton(INADDR_ANY, 4)]

localhost(p) == [sin_port |-> hton(p, 2), s_addr |-> hton(INADDR_LOOPBACK, 4)]

\* InetAddress(ip, port): the four bytes are read as a uint32_t.
FromArray(bytes, p) ==
  [sin_port |-> hton(p, 2), s_addr |-> FromMemory(bytes, 4)]

\* InetAddress(ip0, ip1, ip2, ip3, port).
FromBytes(ip0, ip1, ip2, ip3, p) ==
  [sin_port |-> hton(p, 2), s_addr |-> hton(<<ip0, ip1, ip2, ip3>>, 4)]

\* port(), port(val) and ip().
port(a) == ntoh(a.sin_port, 2)

\* Mutant: the port is stored as it is.
WithPort_hostOrder(a, val) == [a EXCEPT !.sin_port = val]

WithPort(a, val) == [a EXCEPT !.sin_port = hton(val, 2)]

ip(a) == Memory(a.s_addr, 4)

\* operator<=>: the first byte that differs decides, then the port.
Before(a, b) ==
  \/ \E i \in 1 .. 4 :
       /\ ip(a)[i] < ip(b)[i]
       /\ \A j \in 1 .. i - 1 : ip(a)[j] = ip(b)[j]
  \/ /\ \A i \in 1 .. 4 : ip(a)[i] = ip(b)[i]
     /\ Value16(port(a)) < Value16(port(b))
=============================================================================
