------------------------- MODULE LibcHandle_proofs -------------------------
(***************************************************************************)
(* Proofs about LibcHandle, for any number of handles, blocks, descriptors,*)
(* allocations and openings, and first about the addresses that its calls  *)
(* return (InetAddress, NetBits): the port and the bytes given to a        *)
(* constructor come back, they lie in memory in network order, and         *)
(* operator<=> is a strict total order, the numerical one.                 *)
(***************************************************************************)
EXTENDS LibcHandle, TLAPS
-----------------------------------------------------------------------------
\* Addresses, on a machine of either byte order.


\* The bytes of an integer, read one by one.
LEMMA UintBytes ==
  ASSUME NEW n \in Nat, NEW v \in Uint(n), NEW i \in 1 .. n
  PROVE  v[i] \in Byte /\ v[n + 1 - i] \in Byte /\ n + 1 - i \in 1 .. n
BY SMT DEF Uint

\* bswap() of an integer of any width is one of the same width, and undoes
\* itself (bit.hxx:32-56).
THEOREM SwapInvolution ==
  ASSUME NEW n \in Nat, NEW v \in Uint(n)
  PROVE  bswap(v, n) \in Uint(n) /\ bswap(bswap(v, n), n) = v
<1>1. bswap(v, n) \in [1 .. n -> Byte]
  BY UintBytes DEF bswap
<1>2. bswap(bswap(v, n), n) \in [1 .. n -> Byte]
  BY <1>1, UintBytes DEF bswap, Uint
<1>3. ASSUME NEW i \in 1 .. n
      PROVE  bswap(bswap(v, n), n)[i] = v[i]
  BY SMT DEF bswap
<1> QED BY <1>1, <1>2, <1>3 DEF Uint

\* ntoh() undoes hton() and the other way round, for any byte order
\* (bit.hxx:59-116).
THEOREM NetworkRoundTrip ==
  ASSUME NEW n \in Nat, NEW v \in Uint(n)
  PROVE  /\ hton(v, n) \in Uint(n)
         /\ ntoh(hton(v, n), n) = v /\ hton(ntoh(v, n), n) = v
BY SwapInvolution DEF hton, ntoh

\* What hton() returns lies in memory with its most significant byte first,
\* whatever the machine: that is what the network gets.
THEOREM NetworkOrder ==
  ASSUME NEW n \in Nat, NEW v \in Uint(n)
  PROVE  Memory(hton(v, n), n) = v
<1>1. Memory(bswap(v, n), n) = v \/ Endian # "little"
  BY SwapInvolution DEF Memory, bswap
<1> QED BY <1>1 DEF Memory, hton

\* The two constructors from four bytes agree, on any machine, and their port
\* and bytes come back (InetAddress.hxx:66-82, 135-154).
THEOREM ConstructorsAgree ==
  ASSUME NEW bytes \in Uint(4), NEW p \in Uint(2)
  PROVE  /\ FromArray(bytes, p) = FromBytes(bytes[1], bytes[2], bytes[3], bytes[4], p)
         /\ ip(FromArray(bytes, p)) = bytes
         /\ port(FromArray(bytes, p)) = p
<1>1. bytes = <<bytes[1], bytes[2], bytes[3], bytes[4]>>
  BY DEF Uint
<1>2. FromMemory(bytes, 4) = hton(bytes, 4)
  BY DEF FromMemory, hton, bswap
<1>3. hton(<<bytes[1], bytes[2], bytes[3], bytes[4]>>, 4) = hton(bytes, 4)
  BY <1>1
<1>4. ip(FromArray(bytes, p)) = bytes
  BY <1>2, NetworkOrder DEF ip, FromArray
<1>5. port(FromArray(bytes, p)) = p
  BY NetworkRoundTrip DEF port, FromArray
<1> QED BY <1>2, <1>3, <1>4, <1>5 DEF FromArray, FromBytes

\* port(val) sets what port() returns and leaves the address alone.
THEOREM PortRoundTrip ==
  ASSUME NEW a \in Sin, NEW val \in Uint(2)
  PROVE  port(WithPort(a, val)) = val /\ ip(WithPort(a, val)) = ip(a)
<1>1. WithPort(a, val).sin_port = hton(val, 2) /\ WithPort(a, val).s_addr = a.s_addr
  BY DEF WithPort, Sin
<1> QED BY <1>1, NetworkRoundTrip DEF port, ip

\* The numbers of two bytes.
Port == {n \in Int : 0 <= n /\ n < 65536}

\* A number of two bytes.
LEMMA ValueRange ==
  ASSUME NEW v \in Uint(2)
  PROVE  v[1] \in 0 .. 255 /\ v[2] \in 0 .. 255 /\ Value16(v) \in Port
<1>1. v[1] \in 0 .. 255 /\ v[2] \in 0 .. 255
  BY SMT DEF Uint, Byte
<1>2. ASSUME NEW x \in 0 .. 255, NEW y \in 0 .. 255
      PROVE  256 * x + y \in Port
  BY SMT DEF Port
<1>3. 256 * v[1] + v[2] \in Port
  BY ONLY <1>1, <1>2
<1> QED BY <1>1, <1>3 DEF Value16

\* The bytes and the port of an address, for the order.
LEMMA AddressBytes ==
  ASSUME NEW a \in Sin
  PROVE  /\ ip(a) \in Uint(4) /\ port(a) \in Uint(2)
         /\ \A i \in 1 .. 4 : ip(a)[i] \in 0 .. 255
         /\ Value16(port(a)) \in Port
<1>1. a.sin_port \in Uint(2) /\ a.s_addr \in Uint(4)
  BY DEF Sin
<1>2. port(a) \in Uint(2)
  BY <1>1, SwapInvolution DEF port, ntoh
<1>3. ip(a) \in Uint(4)
  BY <1>1, SwapInvolution DEF ip, Memory, bswap
<1>4. ASSUME NEW i \in 1 .. 4 PROVE ip(a)[i] \in 0 .. 255
  BY <1>3 DEF Uint, Byte
<1>5. Value16(port(a)) \in Port
  BY <1>2, ValueRange
<1> QED BY <1>2, <1>3, <1>4, <1>5

\* An address as one number, its bytes in network order before its port.
Number(a) ==
  65536 * (16777216 * ip(a)[1] + 65536 * ip(a)[2] + 256 * ip(a)[3] + ip(a)[4])
  + Value16(port(a))

\* The order written out, byte after byte.
LEMMA BeforeUnfolds ==
  ASSUME NEW a \in Sin, NEW b \in Sin
  PROVE  Before(a, b) <=>
           \/ ip(a)[1] < ip(b)[1]
           \/ ip(a)[1] = ip(b)[1] /\ ip(a)[2] < ip(b)[2]
           \/ ip(a)[1] = ip(b)[1] /\ ip(a)[2] = ip(b)[2] /\ ip(a)[3] < ip(b)[3]
           \/ /\ ip(a)[1] = ip(b)[1] /\ ip(a)[2] = ip(b)[2] /\ ip(a)[3] = ip(b)[3]
              /\ ip(a)[4] < ip(b)[4]
           \/ /\ ip(a)[1] = ip(b)[1] /\ ip(a)[2] = ip(b)[2] /\ ip(a)[3] = ip(b)[3]
              /\ ip(a)[4] = ip(b)[4]
              /\ Value16(port(a)) < Value16(port(b))
BY SMT DEF Before

\* operator<=> compares the numbers: bytes one by one, most significant first,
\* then the ports (InetAddress.hxx:96-106).
THEOREM OrderIsNumerical ==
  ASSUME NEW a \in Sin, NEW b \in Sin
  PROVE  Before(a, b) <=> Number(a) < Number(b)
<1>1. /\ \A i \in 1 .. 4 : ip(a)[i] \in 0 .. 255 /\ ip(b)[i] \in 0 .. 255
      /\ Value16(port(a)) \in Port /\ Value16(port(b)) \in Port
  BY AddressBytes
<1>2. PICK a1, a2, a3, a4, b1, b2, b3, b4 \in 0 .. 255, ap, bp \in Port :
        /\ a1 = ip(a)[1] /\ a2 = ip(a)[2] /\ a3 = ip(a)[3] /\ a4 = ip(a)[4]
        /\ b1 = ip(b)[1] /\ b2 = ip(b)[2] /\ b3 = ip(b)[3] /\ b4 = ip(b)[4]
        /\ ap = Value16(port(a)) /\ bp = Value16(port(b))
  <2>1. /\ ip(a)[1] \in 0 .. 255 /\ ip(a)[2] \in 0 .. 255
        /\ ip(a)[3] \in 0 .. 255 /\ ip(a)[4] \in 0 .. 255
        /\ ip(b)[1] \in 0 .. 255 /\ ip(b)[2] \in 0 .. 255
        /\ ip(b)[3] \in 0 .. 255 /\ ip(b)[4] \in 0 .. 255
    BY <1>1
  <2> QED BY <1>1, <2>1, ZenonT(40)
<1>3. Before(a, b) <=>
        \/ a1 < b1
        \/ a1 = b1 /\ a2 < b2
        \/ a1 = b1 /\ a2 = b2 /\ a3 < b3
        \/ a1 = b1 /\ a2 = b2 /\ a3 = b3 /\ a4 < b4
        \/ a1 = b1 /\ a2 = b2 /\ a3 = b3 /\ a4 = b4 /\ ap < bp
  BY <1>2, BeforeUnfolds
<1>4. Number(a) < Number(b) <=>
        65536 * (16777216 * a1 + 65536 * a2 + 256 * a3 + a4) + ap
        < 65536 * (16777216 * b1 + 65536 * b2 + 256 * b3 + b4) + bp
  BY <1>2 DEF Number
<1>5. (\/ a1 < b1
       \/ a1 = b1 /\ a2 < b2
       \/ a1 = b1 /\ a2 = b2 /\ a3 < b3
       \/ a1 = b1 /\ a2 = b2 /\ a3 = b3 /\ a4 < b4
       \/ a1 = b1 /\ a2 = b2 /\ a3 = b3 /\ a4 = b4 /\ ap < bp)
      <=> 65536 * (16777216 * a1 + 65536 * a2 + 256 * a3 + a4) + ap
          < 65536 * (16777216 * b1 + 65536 * b2 + 256 * b3 + b4) + bp
  BY SMT DEF Port
<1> QED BY <1>3, <1>4, <1>5

\* Two addresses with the same bytes and port are the same.
LEMMA SameNumber ==
  ASSUME NEW a \in Sin, NEW b \in Sin,
         \A i \in 1 .. 4 : ip(a)[i] = ip(b)[i],
         Value16(port(a)) = Value16(port(b))
  PROVE  a = b
<1>1. /\ a.sin_port \in Uint(2) /\ a.s_addr \in Uint(4)
      /\ b.sin_port \in Uint(2) /\ b.s_addr \in Uint(4)
  BY DEF Sin
<1>2. ip(a) = ip(b)
  BY AddressBytes DEF Uint
<1>3. a.s_addr = b.s_addr
  <2>1. ASSUME NEW m \in Uint(4) PROVE FromMemory(Memory(m, 4), 4) = m
    <3>1. Endian = "little" =>
            /\ Memory(m, 4) = bswap(m, 4)
            /\ FromMemory(bswap(m, 4), 4) = bswap(bswap(m, 4), 4)
      BY DEF FromMemory, Memory, bswap
    <3>2. Endian # "little" => Memory(m, 4) = m /\ FromMemory(m, 4) = m
      BY DEF FromMemory, Memory
    <3>3. bswap(bswap(m, 4), 4) = m
      BY SwapInvolution
    <3> QED BY <3>1, <3>2, <3>3
  <2> QED BY <1>1, <1>2, <2>1 DEF ip
<1>4. port(a) = port(b)
  <2>1. port(a) \in Uint(2) /\ port(b) \in Uint(2)
    BY AddressBytes
  <2>2. /\ port(a)[1] \in 0 .. 255 /\ port(a)[2] \in 0 .. 255
        /\ port(b)[1] \in 0 .. 255 /\ port(b)[2] \in 0 .. 255
    BY <2>1, SMT DEF Uint, Byte
  <2>3. port(a)[1] = port(b)[1] /\ port(a)[2] = port(b)[2]
    <3>1. PICK x, y, z, w \in 0 .. 255 :
            /\ x = port(a)[1] /\ y = port(a)[2]
            /\ z = port(b)[1] /\ w = port(b)[2]
      BY <2>2
    <3>2. 256 * x + y = 256 * z + w
      BY <3>1 DEF Value16
    <3>3. x = z /\ y = w
      BY <3>2, SMT
    <3> QED BY <3>1, <3>3
  <2>4. \A i \in 1 .. 2 : port(a)[i] = port(b)[i]
    BY <2>3
  <2> QED BY <2>1, <2>4 DEF Uint
<1>5. a.sin_port = b.sin_port
  BY <1>1, <1>4, NetworkRoundTrip DEF port
<1> QED BY <1>3, <1>5 DEF Sin

\* operator<=> is a strict total order, so that addresses can be keys of a map
\* or be sorted; it says "equal" of equal addresses only.
THEOREM OrderIsTotal ==
  ASSUME NEW a \in Sin, NEW b \in Sin, NEW c \in Sin
  PROVE  /\ ~Before(a, a)
         /\ Before(a, b) /\ Before(b, c) => Before(a, c)
         /\ Before(a, b) \/ Before(b, a) \/ a = b
<1>1. Number(a) \in Int /\ Number(b) \in Int /\ Number(c) \in Int
  <2>1. ASSUME NEW x \in Sin PROVE Number(x) \in Int
    <3>1. /\ ip(x)[1] \in Int /\ ip(x)[2] \in Int /\ ip(x)[3] \in Int
          /\ ip(x)[4] \in Int /\ Value16(port(x)) \in Int
      BY AddressBytes, SMTT(30) DEF Port
    <3> QED BY <3>1, SMT DEF Number
  <2> QED BY <2>1
<1>2. ~Before(a, a)
  BY <1>1, OrderIsNumerical
<1>3. Before(a, b) /\ Before(b, c) => Before(a, c)
  BY <1>1, OrderIsNumerical
<1>4. Before(a, b) \/ Before(b, a) \/ a = b
  <2>1. SUFFICES ASSUME ~Before(a, b), ~Before(b, a) PROVE a = b
    OBVIOUS
  <2>2. /\ ip(a)[1] \in Int /\ ip(a)[2] \in Int /\ ip(a)[3] \in Int
        /\ ip(a)[4] \in Int /\ Value16(port(a)) \in Int
        /\ ip(b)[1] \in Int /\ ip(b)[2] \in Int /\ ip(b)[3] \in Int
        /\ ip(b)[4] \in Int /\ Value16(port(b)) \in Int
    <3>1. ASSUME NEW x \in Sin
          PROVE  /\ ip(x)[1] \in Int /\ ip(x)[2] \in Int /\ ip(x)[3] \in Int
                 /\ ip(x)[4] \in Int /\ Value16(port(x)) \in Int
      BY AddressBytes, SMTT(30) DEF Port
    <3> QED BY <3>1
  <2>3. /\ ip(a)[1] = ip(b)[1] /\ ip(a)[2] = ip(b)[2] /\ ip(a)[3] = ip(b)[3]
        /\ ip(a)[4] = ip(b)[4] /\ Value16(port(a)) = Value16(port(b))
    BY <2>1, <2>2, BeforeUnfolds, SMT
  <2>4. \A i \in 1 .. 4 : ip(a)[i] = ip(b)[i]
    BY <2>3, SMT
  <2> QED BY <2>3, <2>4, SameNumber
<1> QED BY <1>2, <1>3, <1>4

-----------------------------------------------------------------------------
\* Directory and AddressInfo.

Careful == hazards \cap {"reclose", "sharefd", "iterfree"} = {}

\* What a handle claims, and what the local list of an instance() is.
Val == [h \in Handles |-> IF Claims(h) THEN ptr[h] ELSE Null]
List == frame.list

Frames == [op : {"idle", "take", "service", "port"},
           this : Handles \cup {NoHandle}, other : Handles \cup {NoHandle},
           list : Pointers, port : Uint(2)]

Results == [call : {"none", "resolve", "instance"}, this : Handles \cup {NoHandle},
            port : Uint(2), addr : Sin]

\* The shape of calls in progress and of results; an object that does not
\* exist points to nothing.
Calls ==
  /\ kind \in {"Directory", "AddressInfo"}
  /\ frame \in Frames /\ result \in Results
  /\ frame.op = "idle" => frame = Idle
  /\ frame.op = "take" =>
       /\ frame.this \in Handles /\ alive[frame.this]
       /\ frame.other \in Handles /\ alive[frame.other]
       /\ frame.this = frame.other => May("selfmove")
  /\ frame.op \in {"service", "port"} <=> List # Null
  /\ List # Null => ~IsDirectory
  /\ frame # Idle => result = NoResult
  /\ result.call = "resolve" => result.this \in Handles
  /\ \A h \in Handles : ~alive[h] => ptr[h] = Null

\* Only live streams have a descriptor; nothing lives in two places.
Library ==
  /\ \A b \in Blocks : heap[b] = Free \/ ~IsDirectory => dirfd[b] = Invalid
  /\ \A b, c \in Blocks : heap[b] # Free /\ heap[b] = heap[c] => b = c
  /\ \A n, m \in Fds : table[n] # NoFile /\ table[n] = table[m] => n = m

\* What is held is live, and held once: by a handle (v), as the list of a call
\* in progress (l) or by the rest of the program (o).
BlocksHeld(v, l, o, hp, it) ==
  /\ \A h, g \in Handles : h # g /\ v[h] # Null => v[h] # v[g]
  /\ \A h \in Handles : v[h] # Null => v[h] \notin o /\ v[h] # l /\ hp[v[h]] # Free
  /\ l # Null => l \notin o /\ hp[l] # Free /\ it # l
  /\ \A b \in o : hp[b] # Free
  /\ it # Null => hp[it] # Free

Streams(v, df) == \A h \in Handles : v[h] # Null => df[v[h]] # Invalid

FdsHeld(df, fs, tb) ==
  /\ \A b, c \in Blocks : b # c /\ df[b] # Invalid => df[b] # df[c]
  /\ \A b \in Blocks : df[b] # Invalid => df[b] \notin fs /\ tb[df[b]] # NoFile
  /\ \A n \in fs : tb[n] # NoFile

\* What lives is held.
BlocksFound(v, l, o, hp) ==
  \A b \in Blocks : hp[b] # Free => b \in o \/ l = b \/ \E h \in Handles : v[h] = b

FdsFound(df, fs, tb) ==
  \A n \in Fds : tb[n] # NoFile => n \in fs \/ \E b \in Blocks : df[b] = n

Holding ==
  /\ Careful => /\ outcome = "runs"
                /\ BlocksHeld(Val, List, others, heap, iter)
                /\ FdsHeld(dirfd, fds, table)
                /\ IsDirectory => Streams(Val, dirfd)
  /\ outcome = "runs" =>
       /\ ~May("selfmove") => BlocksFound(Val, List, others, heap)
       /\ ~May("failtake") => FdsFound(dirfd, fds, table)

IInv == TypeOK /\ Calls /\ Library /\ Holding /\ ResultsRight
-----------------------------------------------------------------------------
\* What a step does to blocks: nothing, or one is allocated for a holder, freed
\* by its holder, or handed from holder to holder.
Quiet ==
  /\ Val' = Val /\ List' = List
  /\ UNCHANGED <<others, heap, dirfd>>
  /\ iter' \in {iter, Null} \/ \E h \in Handles : iter' = Val[h]

AllocFor(b, n) ==
  /\ heap[b] = Free /\ heap' = [heap EXCEPT ![b] = allocated + 1]
  /\ dirfd' = [dirfd EXCEPT ![b] = n] /\ iter' = iter
  /\ \/ /\ List' = List /\ others' = others /\ (IsDirectory => n # Invalid)
        /\ \E h \in Handles : Val[h] = Null /\ Val' = [Val EXCEPT ![h] = b]
     \/ List = Null /\ List' = b /\ Val' = Val /\ others' = others
     \/ others' = others \cup {b} /\ Val' = Val /\ List' = List

FreedBy(b) ==
  /\ heap' = [heap EXCEPT ![b] = Free]
  /\ dirfd' = [dirfd EXCEPT ![b] = Invalid] /\ iter' = iter
  /\ \/ /\ List' = List /\ others' = others /\ (May("iterfree") \/ iter # b)
        /\ \E h \in Handles : Val[h] = b /\ Val' = [Val EXCEPT ![h] = Null]
     \/ List = b /\ List' = Null /\ Val' = Val /\ others' = others
     \/ /\ b \in others /\ others' = others \ {b} /\ Val' = Val /\ List' = List
        /\ May("iterfree") \/ iter # b
     \/ May("reclose") /\ Val' = Val /\ List' = List /\ others' = others

Hands ==
  /\ UNCHANGED <<heap, dirfd, iter>> /\ List' = List
  /\ \/ /\ others' = others
        /\ \E h, g \in Handles :
             h # g /\ Val[h] = Null /\ Val' = [Val EXCEPT ![h] = Val[g], ![g] = Null]
     \/ /\ others' = others
        /\ \E h \in Handles :
             /\ May("selfmove") \/ \E g \in Handles \ {h} : Val[g] = Val[h]
             /\ Val' = [Val EXCEPT ![h] = Null]
     \/ \E h \in Handles, b \in Pointers :
          /\ b = Null \/ (b \in others /\ (IsDirectory => dirfd[b] # Invalid))
          /\ others' = (others \ {b}) \cup ({Val[h]} \ {Null})
          /\ Val' = [Val EXCEPT ![h] = b]

BlockEffect ==
  \/ Quiet \/ Hands
  \/ \E b \in Blocks, n \in Numbers : AllocFor(b, n)
  \/ \E b \in Blocks : FreedBy(b)

\* What a step does to descriptors.
FdOpens(n) ==
  /\ table[n] = NoFile /\ table' = [table EXCEPT ![n] = opened + 1]
  /\ \/ fds' = fds \cup {n} /\ dirfd' = dirfd
     \/ /\ fds' = fds
        /\ \E b \in Blocks : dirfd[b] = Invalid /\ dirfd' = [dirfd EXCEPT ![b] = n]

FdMoves(n) ==
  /\ n \in fds /\ table' = table
  /\ \/ /\ fds' = fds \ {n} \/ (May("sharefd") /\ fds' = fds)
        /\ \E b \in Blocks : dirfd[b] = Invalid /\ dirfd' = [dirfd EXCEPT ![b] = n]
     \/ May("failtake") /\ fds' = fds \ {n} /\ dirfd' = dirfd

FdCloses(n) ==
  /\ table' = [table EXCEPT ![n] = NoFile]
  /\ \/ n \in fds /\ fds' = fds \ {n} /\ dirfd' = dirfd
     \/ /\ fds' = fds
        /\ \E b \in Blocks : dirfd[b] = n /\ dirfd' = [dirfd EXCEPT ![b] = Invalid]

FdEffect ==
  \/ dirfd' = dirfd /\ fds' = fds /\ table' = table
  \/ \E n \in Fds : FdOpens(n) \/ FdMoves(n) \/ FdCloses(n)
-----------------------------------------------------------------------------
\* Each effect keeps what is held once, and loses nothing.
LEMMA Alloced ==
  ASSUME NEW v \in [Handles -> Pointers], NEW l \in Pointers, NEW o \in SUBSET Blocks,
         NEW hp \in [Blocks -> Nat], NEW it \in Pointers, NEW b \in Blocks,
         NEW r \in Nat \ {Free}, hp[b] = Free,
         NEW v1 \in [Handles -> Pointers], NEW l1 \in Pointers, NEW o1 \in SUBSET Blocks,
         \/ l1 = l /\ o1 = o /\ \E h \in Handles : v[h] = Null /\ v1 = [v EXCEPT ![h] = b]
         \/ l = Null /\ l1 = b /\ v1 = v /\ o1 = o
         \/ o1 = o \cup {b} /\ v1 = v /\ l1 = l
  PROVE  /\ BlocksHeld(v, l, o, hp, it) =>
              BlocksHeld(v1, l1, o1, [hp EXCEPT ![b] = r], it)
         /\ BlocksFound(v, l, o, hp) => BlocksFound(v1, l1, o1, [hp EXCEPT ![b] = r])
<1> USE DEF Null, Free, Blocks, Pointers
<1>1. CASE l1 = l /\ o1 = o /\ \E h \in Handles : v[h] = Null /\ v1 = [v EXCEPT ![h] = b]
  BY <1>1 DEF BlocksHeld, BlocksFound
<1>2. CASE l = Null /\ l1 = b /\ v1 = v /\ o1 = o
  BY <1>2 DEF BlocksHeld, BlocksFound
<1>3. CASE o1 = o \cup {b} /\ v1 = v /\ l1 = l
  BY <1>3 DEF BlocksHeld, BlocksFound
<1> QED
  BY <1>1, <1>2, <1>3

\* A block that its holder frees.
LEMMA Freed ==
  ASSUME NEW v \in [Handles -> Pointers], NEW l \in Pointers, NEW o \in SUBSET Blocks,
         NEW hp \in [Blocks -> Nat], NEW it \in Pointers, NEW b \in Blocks,
         NEW v1 \in [Handles -> Pointers], NEW l1 \in Pointers, NEW o1 \in SUBSET Blocks,
         \/ l1 = l /\ o1 = o /\ \E h \in Handles : v[h] = b /\ v1 = [v EXCEPT ![h] = Null]
         \/ l = b /\ l1 = Null /\ v1 = v /\ o1 = o
         \/ b \in o /\ o1 = o \ {b} /\ v1 = v /\ l1 = l
  PROVE  /\ BlocksHeld(v, l, o, hp, it) /\ (l # b => it # b) =>
              BlocksHeld(v1, l1, o1, [hp EXCEPT ![b] = Free], it)
         /\ BlocksFound(v, l, o, hp) => BlocksFound(v1, l1, o1, [hp EXCEPT ![b] = Free])
<1> USE DEF Null, Free, Blocks, Pointers
<1>1. CASE l1 = l /\ o1 = o /\ \E h \in Handles : v[h] = b /\ v1 = [v EXCEPT ![h] = Null]
  BY <1>1 DEF BlocksHeld, BlocksFound
<1>2. CASE l = b /\ l1 = Null /\ v1 = v /\ o1 = o
  BY <1>2 DEF BlocksHeld, BlocksFound
<1>3. CASE b \in o /\ o1 = o \ {b} /\ v1 = v /\ l1 = l
  BY <1>3 DEF BlocksHeld, BlocksFound
<1> QED
  BY <1>1, <1>2, <1>3

\* Blocks that change hands, or that a holder forgets.
LEMMA Handed ==
  ASSUME NEW v \in [Handles -> Pointers], NEW l \in Pointers, NEW o \in SUBSET Blocks,
         NEW hp \in [Blocks -> Nat], NEW it \in Pointers,
         NEW v1 \in [Handles -> Pointers], NEW o1 \in SUBSET Blocks,
         \/ /\ o1 = o
            /\ \E h, g \in Handles :
                 h # g /\ v[h] = Null /\ v1 = [v EXCEPT ![h] = v[g], ![g] = Null]
         \/ o1 = o /\ \E h \in Handles : v1 = [v EXCEPT ![h] = Null]
         \/ \E h \in Handles, b \in Pointers :
              /\ b = Null \/ b \in o
              /\ o1 = (o \ {b}) \cup ({v[h]} \ {Null}) /\ v1 = [v EXCEPT ![h] = b]
  PROVE  BlocksHeld(v, l, o, hp, it) => BlocksHeld(v1, l, o1, hp, it)
<1> USE DEF Null, Free, Blocks, Pointers
<1>1. CASE /\ o1 = o
           /\ \E h, g \in Handles :
                h # g /\ v[h] = Null /\ v1 = [v EXCEPT ![h] = v[g], ![g] = Null]
  BY <1>1 DEF BlocksHeld
<1>2. CASE o1 = o /\ \E h \in Handles : v1 = [v EXCEPT ![h] = Null]
  BY <1>2 DEF BlocksHeld
<1>3. CASE \E h \in Handles, b \in Pointers :
              /\ b = Null \/ b \in o
              /\ o1 = (o \ {b}) \cup ({v[h]} \ {Null}) /\ v1 = [v EXCEPT ![h] = b]
  BY <1>3 DEF BlocksHeld
<1> QED
  BY <1>1, <1>2, <1>3

\* Nothing is lost where a block changes hands, or is forgotten by one of two.
LEMMA HandedFound ==
  ASSUME NEW v \in [Handles -> Pointers], NEW l \in Pointers, NEW o \in SUBSET Blocks,
         NEW hp \in [Blocks -> Nat],
         NEW v1 \in [Handles -> Pointers], NEW o1 \in SUBSET Blocks,
         \/ /\ o1 = o
            /\ \E h, g \in Handles :
                 h # g /\ v[h] = Null /\ v1 = [v EXCEPT ![h] = v[g], ![g] = Null]
         \/ /\ o1 = o
            /\ \E h \in Handles, g \in Handles :
                 h # g /\ v[g] = v[h] /\ v1 = [v EXCEPT ![h] = Null]
         \/ \E h \in Handles, b \in Pointers :
              /\ o1 = (o \ {b}) \cup ({v[h]} \ {Null}) /\ v1 = [v EXCEPT ![h] = b]
  PROVE  BlocksFound(v, l, o, hp) => BlocksFound(v1, l, o1, hp)
<1> USE DEF Null, Free, Blocks, Pointers
<1>1. CASE /\ o1 = o
           /\ \E h, g \in Handles :
                h # g /\ v[h] = Null /\ v1 = [v EXCEPT ![h] = v[g], ![g] = Null]
  BY <1>1 DEF BlocksFound
<1>2. CASE /\ o1 = o
            /\ \E h \in Handles, g \in Handles :
                 h # g /\ v[g] = v[h] /\ v1 = [v EXCEPT ![h] = Null]
  BY <1>2 DEF BlocksFound
<1>3. CASE \E h \in Handles, b \in Pointers :
              /\ o1 = (o \ {b}) \cup ({v[h]} \ {Null}) /\ v1 = [v EXCEPT ![h] = b]
  BY <1>3 DEF BlocksFound
<1> QED
  BY <1>1, <1>2, <1>3

\* A descriptor that is opened, for a stream or for the program.
LEMMA FdsOpened ==
  ASSUME NEW df \in [Blocks -> Numbers], NEW fs \in SUBSET Fds, NEW tb \in [Fds -> Nat],
         NEW n \in Fds, NEW x \in Nat \ {NoFile}, tb[n] = NoFile,
         NEW df1 \in [Blocks -> Numbers], NEW fs1 \in SUBSET Fds,
         \/ fs1 = fs \cup {n} /\ df1 = df
         \/ fs1 = fs /\ \E b \in Blocks : df[b] = Invalid /\ df1 = [df EXCEPT ![b] = n]
  PROVE  /\ FdsHeld(df, fs, tb) => FdsHeld(df1, fs1, [tb EXCEPT ![n] = x])
         /\ FdsFound(df, fs, tb) => FdsFound(df1, fs1, [tb EXCEPT ![n] = x])
<1> USE DEF NoFile, Invalid, Numbers, Fds
<1>1. CASE fs1 = fs \cup {n} /\ df1 = df
  BY <1>1 DEF FdsHeld, FdsFound
<1>2. CASE fs1 = fs /\ \E b \in Blocks : df[b] = Invalid /\ df1 = [df EXCEPT ![b] = n]
  BY <1>2 DEF FdsHeld, FdsFound
<1> QED
  BY <1>1, <1>2

\* A descriptor that its holder closes.
LEMMA FdsClosed ==
  ASSUME NEW df \in [Blocks -> Numbers], NEW fs \in SUBSET Fds, NEW tb \in [Fds -> Nat],
         NEW n \in Fds,
         NEW df1 \in [Blocks -> Numbers], NEW fs1 \in SUBSET Fds,
         \/ n \in fs /\ fs1 = fs \ {n} /\ df1 = df
         \/ fs1 = fs /\ \E b \in Blocks : df[b] = n /\ df1 = [df EXCEPT ![b] = Invalid]
  PROVE  /\ FdsHeld(df, fs, tb) => FdsHeld(df1, fs1, [tb EXCEPT ![n] = NoFile])
         /\ FdsFound(df, fs, tb) => FdsFound(df1, fs1, [tb EXCEPT ![n] = NoFile])
<1> USE DEF NoFile, Invalid, Numbers, Fds
<1>1. CASE n \in fs /\ fs1 = fs \ {n} /\ df1 = df
  BY <1>1 DEF FdsHeld, FdsFound
<1>2. CASE fs1 = fs /\ \E b \in Blocks : df[b] = n /\ df1 = [df EXCEPT ![b] = Invalid]
  BY <1>2 DEF FdsHeld, FdsFound
<1> QED
  BY <1>1, <1>2

\* A descriptor of the program that a stream takes, shares or fails to take.
LEMMA FdsMoved ==
  ASSUME NEW df \in [Blocks -> Numbers], NEW fs \in SUBSET Fds, NEW tb \in [Fds -> Nat],
         NEW n \in fs, NEW df1 \in [Blocks -> Numbers], NEW fs1 \in SUBSET Fds
  PROVE  /\ FdsHeld(df, fs, tb) /\ fs1 = fs \ {n}
            /\ (df1 = df \/ \E b \in Blocks : df[b] = Invalid /\ df1 = [df EXCEPT ![b] = n])
            => FdsHeld(df1, fs1, tb)
         /\ FdsFound(df, fs, tb) /\ fs1 \in {fs, fs \ {n}}
            /\ (\E b \in Blocks : df[b] = Invalid /\ df1 = [df EXCEPT ![b] = n])
            => FdsFound(df1, fs1, tb)
<1> USE DEF NoFile, Invalid, Numbers, Fds
<1>1. ASSUME FdsHeld(df, fs, tb), fs1 = fs \ {n}, df1 = df PROVE FdsHeld(df1, fs1, tb)
  BY <1>1 DEF FdsHeld
<1>2. ASSUME FdsHeld(df, fs, tb), fs1 = fs \ {n},
             \E b \in Blocks : df[b] = Invalid /\ df1 = [df EXCEPT ![b] = n]
      PROVE  FdsHeld(df1, fs1, tb)
  BY <1>2 DEF FdsHeld
<1>3. ASSUME FdsFound(df, fs, tb), fs1 \in {fs, fs \ {n}},
             \E b \in Blocks : df[b] = Invalid /\ df1 = [df EXCEPT ![b] = n]
      PROVE  FdsFound(df1, fs1, tb)
  BY <1>3 DEF FdsFound
<1> QED
  BY <1>1, <1>2, <1>3
-----------------------------------------------------------------------------
\* The types of what the effects speak of.
LEMMA Types ==
  ASSUME TypeOK, Calls
  PROVE  /\ Val \in [Handles -> Pointers] /\ List \in Pointers
         /\ others \in SUBSET Blocks /\ heap \in [Blocks -> Nat] /\ iter \in Pointers
         /\ dirfd \in [Blocks -> Numbers] /\ fds \in SUBSET Fds /\ table \in [Fds -> Nat]
         /\ allocated \in Nat /\ opened \in Nat
<1>1. Val \in [Handles -> Pointers]
  BY LibcHandleAssumption DEF Val, TypeOK, Pointers, Null
<1>2. allocated \in Nat /\ opened \in Nat
  BY LibcHandleAssumption, FdTableAssumption DEF TypeOK, TableTypeOK
<1>3. heap \in [Blocks -> Nat] /\ table \in [Fds -> Nat]
  BY <1>2 DEF TypeOK, TableTypeOK
<1> QED
  BY <1>1, <1>2, <1>3 DEF TypeOK, Calls, Frames, List

\* The same after a step.
LEMMA NextTypes ==
  ASSUME TypeOK', Calls'
  PROVE  /\ Val' \in [Handles -> Pointers] /\ List' \in Pointers
         /\ others' \in SUBSET Blocks /\ heap' \in [Blocks -> Nat] /\ iter' \in Pointers
         /\ dirfd' \in [Blocks -> Numbers] /\ fds' \in SUBSET Fds /\ table' \in [Fds -> Nat]
<1>1. Val' \in [Handles -> Pointers]
  BY LibcHandleAssumption DEF Val, TypeOK, Pointers, Null
<1>2. allocated' \in Nat /\ opened' \in Nat
  BY LibcHandleAssumption, FdTableAssumption DEF TypeOK, TableTypeOK
<1>3. heap' \in [Blocks -> Nat] /\ table' \in [Fds -> Nat]
  BY <1>2 DEF TypeOK, TableTypeOK
<1> QED
  BY <1>1, <1>2, <1>3 DEF TypeOK, Calls, Frames, List

\* The blocks of a careful program.
LEMMA BlocksStep ==
  ASSUME TypeOK, Calls, TypeOK', Calls', BlockEffect,
         Careful, BlocksHeld(Val, List, others, heap, iter)
  PROVE  BlocksHeld(Val', List', others', heap', iter')
<1> USE Types, NextTypes
<1>1. CASE Quiet
  <2>1. BlocksHeld(Val, List, others, heap, iter')
    BY <1>1 DEF Quiet, BlocksHeld, Null
  <2> QED
    BY <1>1, <2>1 DEF Quiet
<1>2. CASE Hands
  <2>1. iter' = iter /\ heap' = heap /\ List' = List
    BY <1>2 DEF Hands
  <2>2. BlocksHeld(Val', List, others', heap, iter)
    BY <1>2, Handed DEF Hands
  <2> QED
    BY <2>1, <2>2
<1>3. ASSUME NEW b \in Blocks, NEW n \in Numbers, AllocFor(b, n)
      PROVE  BlocksHeld(Val', List', others', heap', iter')
  <2>1. PICK r \in Nat \ {Free} : r = allocated + 1
    BY DEF Free
  <2>2. BlocksHeld(Val', List', others', [heap EXCEPT ![b] = r], iter)
    BY <1>3, <2>1, Alloced DEF AllocFor
  <2> QED
    BY <1>3, <2>1, <2>2 DEF AllocFor
<1>4. ASSUME NEW b \in Blocks, FreedBy(b)
      PROVE  BlocksHeld(Val', List', others', heap', iter')
  <2>1. ~May("iterfree") /\ ~May("reclose")
    BY DEF Careful, May
  <2>2. List # b => iter # b
    BY <1>4, <2>1 DEF FreedBy
  <2>3. BlocksHeld(Val', List', others', [heap EXCEPT ![b] = Free], iter)
    BY <1>4, <2>1, <2>2, Freed DEF FreedBy
  <2> QED
    BY <1>4, <2>3 DEF FreedBy
<1> QED
  BY <1>1, <1>2, <1>3, <1>4 DEF BlockEffect

\* The blocks of a program that assigns no object to itself.
LEMMA FoundStep ==
  ASSUME TypeOK, Calls, TypeOK', Calls', BlockEffect,
         ~May("selfmove"), BlocksFound(Val, List, others, heap)
  PROVE  BlocksFound(Val', List', others', heap')
<1> USE Types, NextTypes
<1>1. CASE Quiet
  BY <1>1 DEF Quiet
<1>2. CASE Hands
  <2>1. heap' = heap /\ List' = List
    BY <1>2 DEF Hands
  <2>2. BlocksFound(Val', List, others', heap)
    BY <1>2, HandedFound DEF Hands
  <2> QED
    BY <2>1, <2>2
<1>3. ASSUME NEW b \in Blocks, NEW n \in Numbers, AllocFor(b, n)
      PROVE  BlocksFound(Val', List', others', heap')
  <2>1. PICK r \in Nat \ {Free} : r = allocated + 1
    BY DEF Free
  <2>2. BlocksFound(Val', List', others', [heap EXCEPT ![b] = r])
    BY <1>3, <2>1, Alloced DEF AllocFor
  <2> QED
    BY <1>3, <2>1, <2>2 DEF AllocFor
<1>4. ASSUME NEW b \in Blocks, FreedBy(b)
      PROVE  BlocksFound(Val', List', others', heap')
  <2>1. CASE Val' = Val /\ List' = List /\ others' = others
    BY <1>4, <2>1 DEF FreedBy, BlocksFound, Free
  <2>2. CASE ~(Val' = Val /\ List' = List /\ others' = others)
    <3>1. BlocksFound(Val', List', others', [heap EXCEPT ![b] = Free])
      BY <1>4, <2>2, Freed DEF FreedBy
    <3> QED
      BY <1>4, <3>1 DEF FreedBy
  <2> QED
    BY <2>1, <2>2
<1> QED
  BY <1>1, <1>2, <1>3, <1>4 DEF BlockEffect

\* The streams of a careful program keep their descriptors.
LEMMA StreamsStep ==
  ASSUME TypeOK, Calls, TypeOK', Calls', BlockEffect, IsDirectory,
         Careful, BlocksHeld(Val, List, others, heap, iter), Streams(Val, dirfd)
  PROVE  Streams(Val', dirfd')
<1> USE Types, NextTypes DEF Null, Blocks, Pointers
<1>1. CASE Quiet
  BY <1>1 DEF Quiet
<1>2. CASE Hands
  BY <1>2 DEF Hands, Streams
<1>3. ASSUME NEW b \in Blocks, NEW n \in Numbers, AllocFor(b, n)
      PROVE  Streams(Val', dirfd')
  <2>1. \A h \in Handles : Val[h] # b
    BY <1>3 DEF AllocFor, BlocksHeld
  <2>2. List = Null
    BY DEF Calls
  <2> QED
    BY <1>3, <2>1, <2>2 DEF AllocFor, Streams
<1>4. ASSUME NEW b \in Blocks, FreedBy(b)
      PROVE  Streams(Val', dirfd')
  <2>1. ~May("reclose")
    BY DEF Careful, May
  <2>2. \A h \in Handles : Val[h] # Null /\ Val[h] = b => Val'[h] = Null
    BY <1>4, <2>1 DEF FreedBy, BlocksHeld
  <2>3. \A h \in Handles : Val'[h] # Null => Val'[h] = Val[h]
    BY <1>4 DEF FreedBy
  <2>4. dirfd' = [dirfd EXCEPT ![b] = Invalid]
    BY <1>4 DEF FreedBy
  <2> QED
    BY <2>2, <2>3, <2>4 DEF Streams
<1> QED
  BY <1>1, <1>2, <1>3, <1>4 DEF BlockEffect

\* The descriptors.
LEMMA FdsStep ==
  ASSUME TypeOK, Calls, TypeOK', Calls', FdEffect
  PROVE  /\ Careful /\ FdsHeld(dirfd, fds, table) => FdsHeld(dirfd', fds', table')
         /\ ~May("failtake") /\ FdsFound(dirfd, fds, table)
            => FdsFound(dirfd', fds', table')
<1> USE Types, NextTypes
<1>0. Careful => ~May("sharefd")
  BY DEF Careful, May
<1>1. CASE dirfd' = dirfd /\ fds' = fds /\ table' = table
  BY <1>1
<1>2. ASSUME NEW n \in Fds, FdOpens(n)
      PROVE  /\ FdsHeld(dirfd, fds, table) => FdsHeld(dirfd', fds', table')
             /\ FdsFound(dirfd, fds, table) => FdsFound(dirfd', fds', table')
  <2>1. PICK x \in Nat \ {NoFile} : x = opened + 1
    BY DEF NoFile
  <2>2. table' = [table EXCEPT ![n] = x]
    BY <1>2, <2>1 DEF FdOpens
  <2>3. /\ FdsHeld(dirfd, fds, table) => FdsHeld(dirfd', fds', [table EXCEPT ![n] = x])
        /\ FdsFound(dirfd, fds, table) => FdsFound(dirfd', fds', [table EXCEPT ![n] = x])
    BY <1>2, FdsOpened DEF FdOpens
  <2> QED
    BY <2>2, <2>3
<1>3. ASSUME NEW n \in Fds, FdMoves(n)
      PROVE  /\ Careful /\ FdsHeld(dirfd, fds, table) => FdsHeld(dirfd', fds', table')
             /\ ~May("failtake") /\ FdsFound(dirfd, fds, table)
                => FdsFound(dirfd', fds', table')
  BY <1>0, <1>3, FdsMoved DEF FdMoves
<1>4. ASSUME NEW n \in Fds, FdCloses(n)
      PROVE  /\ FdsHeld(dirfd, fds, table) => FdsHeld(dirfd', fds', table')
             /\ FdsFound(dirfd, fds, table) => FdsFound(dirfd', fds', table')
  <2>1. table' = [table EXCEPT ![n] = NoFile]
    BY <1>4 DEF FdCloses
  <2>2. /\ FdsHeld(dirfd, fds, table)
             => FdsHeld(dirfd', fds', [table EXCEPT ![n] = NoFile])
        /\ FdsFound(dirfd, fds, table)
             => FdsFound(dirfd', fds', [table EXCEPT ![n] = NoFile])
    BY <1>4, FdsClosed DEF FdCloses
  <2> QED
    BY <2>1, <2>2
<1> QED
  BY <1>1, <1>2, <1>3, <1>4 DEF FdEffect

\* No call in progress but a move assignment to another object takes a claim
\* from a pointer.
LEMMA ValNow ==
  ASSUME TypeOK, Calls
  PROVE  /\ frame.op # "take" \/ frame.this = frame.other => Val = ptr
         /\ frame.op = "take" /\ frame.this # frame.other
            => Val = [ptr EXCEPT ![frame.this] = Null]
BY DEF TypeOK, Calls, Val, Claims, valid

\* The same after a step.
LEMMA ValNext ==
  ASSUME TypeOK', Calls'
  PROVE  /\ frame'.op # "take" \/ frame'.this = frame'.other => Val' = ptr'
         /\ frame'.op = "take" /\ frame'.this # frame'.other
            => Val' = [ptr' EXCEPT ![frame'.this] = Null]
BY DEF TypeOK, Calls, Val, Claims, valid

\* The constants of the calls.
LEMMA IdleFrame ==
  /\ Idle \in Frames /\ Idle.op = "idle" /\ Idle.list = Null /\ Null = Free
  /\ NoResult \in Results /\ NoResult.call = "none" /\ NoResult.addr \in Sin
  /\ Null \in Pointers /\ Blocks \subseteq Pointers /\ \A b \in Blocks : b # Null
<1>1. <<0, 0>> \in Uint(2)
  BY DEF Uint, Byte
<1>2. <<0, 0, 0, 0>> \in Uint(4)
  BY DEF Uint, Byte
<1>3. Default \in Sin
  BY <1>1, <1>2 DEF Default, Sin
<1>4. Null \in Pointers /\ Blocks \subseteq Pointers /\ \A b \in Blocks : b # Null
  BY LibcHandleAssumption DEF Null, Pointers, Blocks
<1> QED
  BY <1>1, <1>3, <1>4 DEF Idle, Frames, NoResult, Results, Null, Free

\* What a step does to the C library and the table, each at most once.
LibcStep ==
  /\ \/ UNCHANGED <<heap, dirfd, allocated>>
     \/ \E b \in Blocks, n \in Numbers : Alloc(b, n) /\ (IsDirectory \/ n = Invalid)
     \/ \E b \in Blocks : /\ heap' = [heap EXCEPT ![b] = Free]
                          /\ dirfd' = [dirfd EXCEPT ![b] = Invalid]
                          /\ allocated' = allocated
  /\ \/ UNCHANGED <<table, opened>>
     \/ \E n \in Fds : SysOpen(n) \/ SysClose(n)

\* A step of the library leaves each block to one allocation.
LEMMA HeapStep ==
  ASSUME TypeOK, Library, LibcStep, kind' = kind
  PROVE  /\ allocated' \in 0 .. MaxAllocs /\ heap' \in [Blocks -> 0 .. allocated']
         /\ dirfd' \in [Blocks -> Numbers]
         /\ \A b \in Blocks : heap'[b] = Free \/ ~IsDirectory => dirfd'[b] = Invalid
         /\ \A b, c \in Blocks : heap'[b] # Free /\ heap'[b] = heap'[c] => b = c
<1> USE LibcHandleAssumption DEF Free
<1>0. /\ allocated \in 0 .. MaxAllocs /\ heap \in [Blocks -> 0 .. allocated]
      /\ dirfd \in [Blocks -> Numbers]
  BY DEF TypeOK
<1>1. CASE UNCHANGED <<heap, dirfd, allocated>>
  BY <1>0, <1>1 DEF Library
<1>2. ASSUME NEW b \in Blocks, NEW n \in Numbers, Alloc(b, n), IsDirectory \/ n = Invalid
      PROVE  /\ allocated' \in 0 .. MaxAllocs /\ heap' \in [Blocks -> 0 .. allocated']
             /\ dirfd' \in [Blocks -> Numbers]
             /\ \A c \in Blocks : heap'[c] = Free \/ ~IsDirectory => dirfd'[c] = Invalid
             /\ \A c, d \in Blocks : heap'[c] # Free /\ heap'[c] = heap'[d] => c = d
  <2>1. allocated' \in 0 .. MaxAllocs /\ allocated' = allocated + 1
    BY <1>0, <1>2 DEF Alloc
  <2>2. heap' \in [Blocks -> 0 .. allocated'] /\ dirfd' \in [Blocks -> Numbers]
    BY <1>0, <1>2, <2>1 DEF Alloc
  <2>3. \A c \in Blocks : heap'[c] = Free \/ ~IsDirectory => dirfd'[c] = Invalid
    BY <1>0, <1>2 DEF Alloc, Library
  <2>4. \A c, d \in Blocks : heap'[c] # Free /\ heap'[c] = heap'[d] => c = d
    BY <1>0, <1>2 DEF Alloc, Library
  <2> QED
    BY <2>1, <2>2, <2>3, <2>4
<1>3. ASSUME NEW b \in Blocks, heap' = [heap EXCEPT ![b] = Free],
             dirfd' = [dirfd EXCEPT ![b] = Invalid], allocated' = allocated
      PROVE  /\ allocated' \in 0 .. MaxAllocs /\ heap' \in [Blocks -> 0 .. allocated']
             /\ dirfd' \in [Blocks -> Numbers]
             /\ \A c \in Blocks : heap'[c] = Free \/ ~IsDirectory => dirfd'[c] = Invalid
             /\ \A c, d \in Blocks : heap'[c] # Free /\ heap'[c] = heap'[d] => c = d
  BY <1>0, <1>3 DEF Library, Numbers
<1> QED
  BY <1>1, <1>2, <1>3 DEF LibcStep, IsDirectory

\* A step of the table leaves each descriptor to one file.
LEMMA TableStep ==
  ASSUME TypeOK, Library, LibcStep
  PROVE  /\ TableTypeOK'
         /\ \A n, m \in Fds : table'[n] # NoFile /\ table'[n] = table'[m] => n = m
<1> USE FdTableAssumption DEF NoFile, TableTypeOK, Library
<1>0. opened \in 0 .. MaxOpens /\ table \in [Fds -> 0 .. opened]
  BY DEF TypeOK
<1>1. CASE UNCHANGED <<table, opened>>
  BY <1>0, <1>1
<1>2. ASSUME NEW n \in Fds, SysOpen(n)
      PROVE  /\ TableTypeOK'
             /\ \A k, m \in Fds : table'[k] # NoFile /\ table'[k] = table'[m] => k = m
  BY <1>0, <1>2 DEF SysOpen
<1>3. ASSUME NEW n \in Fds, SysClose(n)
      PROVE  /\ TableTypeOK'
             /\ \A k, m \in Fds : table'[k] # NoFile /\ table'[k] = table'[m] => k = m
  BY <1>0, <1>3 DEF SysClose
<1> QED
  BY <1>1, <1>2, <1>3 DEF LibcStep

\* A call of no more than one step, and what it needs.
LEMMA PlainCall ==
  ASSUME IInv, Ready, LibcStep, kind' = kind, hazards' = hazards, frame' = frame,
         result' \in Results, ResultsRight',
         result'.call = "resolve" => result'.this \in Handles,
         alive' \in [Handles -> BOOLEAN], ptr' \in [Handles -> Pointers],
         others' \subseteq Blocks, fds' \subseteq Fds, iter' \in Pointers,
         outcome' \in {"runs", "EBADF", "undefined"},
         \A h \in Handles : ~alive'[h] => ptr'[h] = Null
  PROVE  /\ TypeOK' /\ Calls' /\ Val = ptr /\ Val' = ptr' /\ List = Null /\ List' = Null
<1>1. frame = Idle /\ TypeOK /\ Calls /\ Library
  BY DEF Ready, IInv
<1>2. result'.addr \in Sin
  BY DEF Results
<1>3. TypeOK'
  BY <1>1, <1>2, HeapStep, TableStep DEF TypeOK
<1>4. Calls'
  BY <1>1, IdleFrame DEF Calls, List, IsDirectory, May
<1>5. Val = ptr /\ Val' = ptr'
  BY <1>1, <1>3, <1>4, ValNow, ValNext, IdleFrame
<1> QED
  BY <1>1, <1>3, <1>4, <1>5, IdleFrame DEF List

\* A step of the rest of the program.
LEMMA OtherStep ==
  ASSUME IInv, LibcStep,
         UNCHANGED <<kind, hazards, frame, result, alive, ptr, iter, outcome>>,
         others' \subseteq Blocks, fds' \subseteq Fds
  PROVE  TypeOK' /\ Calls' /\ ResultsRight' /\ Val' = Val /\ List' = List
<1>1. TypeOK /\ Calls /\ Library /\ ResultsRight
  BY DEF IInv
<1>2. TypeOK'
  BY <1>1, HeapStep, TableStep DEF TypeOK
<1>3. Calls'
  BY <1>1 DEF Calls, List, IsDirectory, May
<1>4. ResultsRight'
  BY <1>1 DEF ResultsRight, May, valid
<1> QED
  BY <1>2, <1>3, <1>4 DEF Val, Claims, valid, List

\* closedir(3) and freeaddrinfo(3).
LEMMA Disposes ==
  ASSUME TypeOK, Calls, Library, outcome = "runs", NEW b \in Blocks, Dispose(b), fds' = fds
  PROVE  /\ LibcStep /\ outcome' \in {"runs", "EBADF", "undefined"}
         /\ outcome' = "runs" =>
              /\ heap[b] # Free /\ heap' = [heap EXCEPT ![b] = Free]
              /\ dirfd' = [dirfd EXCEPT ![b] = Invalid] /\ FdEffect
         /\ /\ FdsHeld(dirfd, fds, table) /\ heap[b] # Free
            /\ IsDirectory => dirfd[b] # Invalid
            => outcome' = "runs"
<1>0. dirfd \in [Blocks -> Numbers]
  BY DEF TypeOK
<1>1. CASE heap[b] = Free \/ (IsDirectory /\ dirfd[b] = Invalid)
  BY <1>1 DEF Dispose, LibcStep, libc
<1>2. CASE ~(heap[b] = Free \/ (IsDirectory /\ dirfd[b] = Invalid)) /\ IsDirectory
  <2>1. dirfd[b] \in Fds
    BY <1>0, <1>2 DEF Numbers
  <2>2. /\ heap' = [heap EXCEPT ![b] = Free] /\ dirfd' = [dirfd EXCEPT ![b] = Invalid]
        /\ outcome' = IF table[dirfd[b]] = NoFile THEN "EBADF" ELSE outcome
        /\ SysClose(dirfd[b]) /\ allocated' = allocated
    BY <1>2 DEF Dispose
  <2>3. LibcStep
    BY <2>1, <2>2 DEF LibcStep
  <2>4. FdCloses(dirfd[b])
    BY <2>2 DEF FdCloses, SysClose
  <2>5. FdEffect
    BY <2>1, <2>4 DEF FdEffect
  <2> QED
    BY <1>2, <2>2, <2>3, <2>5 DEF FdsHeld
<1>3. CASE heap[b] # Free /\ ~IsDirectory
  <2>1. /\ heap' = [heap EXCEPT ![b] = Free] /\ dirfd' = [dirfd EXCEPT ![b] = Invalid]
        /\ UNCHANGED <<table, opened, outcome, allocated>>
    BY <1>3 DEF Dispose
  <2>2. dirfd' = dirfd
    BY <1>0, <1>3, <2>1 DEF Library
  <2> QED
    BY <1>3, <2>1, <2>2 DEF LibcStep, FdEffect
<1> QED
  BY <1>1, <1>2, <1>3
-----------------------------------------------------------------------------
\* What each action keeps, and which effect it has while nothing goes wrong.
Kept ==
  /\ LibcStep /\ kind' = kind /\ hazards' = hazards
  /\ TypeOK' /\ Calls' /\ ResultsRight'
  /\ Careful => outcome' = "runs"
  /\ outcome' = "runs" => BlockEffect /\ FdEffect

\* A call that resolves nothing.
LEMMA Unresolved ==
  ASSUME result' = NoResult
  PROVE  /\ result' \in Results /\ ResultsRight'
         /\ result'.call = "resolve" => result'.this \in Handles
BY IdleFrame DEF ResultsRight

\* What a handle has, in a careful program.
LEMMA CarefulHandle ==
  ASSUME IInv, Careful, NEW h \in Handles, Val[h] # Null
  PROVE  /\ heap[Val[h]] # Free /\ (IsDirectory => dirfd[Val[h]] # Invalid)
         /\ FdsHeld(dirfd, fds, table)
BY DEF IInv, Holding, BlocksHeld, Streams

\* What a step of no effect on the library is.
LEMMA NoLibcStep ==
  ASSUME UNCHANGED libc
  PROVE  LibcStep /\ (fds' = fds => FdEffect)
BY DEF libc, LibcStep, FdEffect

\* A constructor without arguments.
LEMMA ConstructStep ==
  ASSUME IInv, NEW h \in Handles, Construct(h)
  PROVE  Kept
<1>1. /\ Ready /\ alive' = [alive EXCEPT ![h] = TRUE] /\ ptr' = [ptr EXCEPT ![h] = Null]
      /\ result' = NoResult /\ UNCHANGED libc /\ kind' = kind /\ others' = others
      /\ fds' = fds /\ iter' = iter /\ frame' = frame /\ outcome' = outcome
      /\ hazards' = hazards /\ ~alive[h]
  BY DEF Construct
<1>2. TypeOK /\ Calls
  BY DEF IInv
<1>3. ptr' = ptr
  BY <1>1, <1>2 DEF TypeOK, Calls
<1>4. /\ alive' \in [Handles -> BOOLEAN] /\ ptr' \in [Handles -> Pointers]
      /\ \A g \in Handles : ~alive'[g] => ptr'[g] = Null
  BY <1>1, <1>2, <1>3 DEF TypeOK, Calls
<1>5. TypeOK' /\ Calls' /\ Val' = Val /\ List' = List /\ LibcStep /\ FdEffect /\ ResultsRight'
  BY <1>1, <1>2, <1>3, <1>4, Unresolved, NoLibcStep, PlainCall DEF TypeOK
<1>6. BlockEffect
  BY <1>1, <1>5 DEF libc, BlockEffect, Quiet
<1> QED
  BY <1>1, <1>5, <1>6 DEF Kept, Ready

\* A pointer that comes from the program.
LEMMA AdoptStep ==
  ASSUME IInv, NEW h \in Handles, NEW b \in Blocks, Adopt(h, b)
  PROVE  Kept
<1>1. /\ Ready /\ alive' = [alive EXCEPT ![h] = TRUE] /\ ptr' = [ptr EXCEPT ![h] = b]
      /\ result' = NoResult /\ UNCHANGED libc /\ kind' = kind /\ others' = others \ {b}
      /\ fds' = fds /\ iter' = iter /\ frame' = frame /\ outcome' = outcome
      /\ hazards' = hazards /\ ~alive[h] /\ b \in others /\ (IsDirectory => dirfd[b] # Invalid)
  BY DEF Adopt
<1>2. TypeOK /\ Calls
  BY DEF IInv
<1>3. ptr[h] = Null /\ b \in Pointers
  BY <1>1, <1>2, IdleFrame DEF Calls
<1>4. /\ alive' \in [Handles -> BOOLEAN] /\ ptr' \in [Handles -> Pointers]
      /\ others' \subseteq Blocks /\ \A g \in Handles : ~alive'[g] => ptr'[g] = Null
  BY <1>1, <1>2, <1>3 DEF TypeOK, Calls
<1>5. /\ TypeOK' /\ Calls' /\ Val = ptr /\ Val' = ptr' /\ List' = List
      /\ LibcStep /\ FdEffect /\ ResultsRight'
  BY <1>1, <1>2, <1>4, Unresolved, NoLibcStep, PlainCall DEF TypeOK
<1>6. others' = (others \ {b}) \cup ({Val[h]} \ {Null})
  BY <1>1, <1>3, <1>5
<1>7. Hands
  BY <1>1, <1>3, <1>5, <1>6 DEF Hands, libc
<1> QED
  BY <1>1, <1>5, <1>7 DEF Kept, Ready, BlockEffect

\* reset() hands the old pointer to the program.
LEMMA ResetStep ==
  ASSUME IInv, NEW h \in Handles, NEW b \in Pointers, Reset(h, b)
  PROVE  Kept
<1>1. /\ Ready /\ alive[h] /\ ptr' = [ptr EXCEPT ![h] = b] /\ result' = NoResult
      /\ UNCHANGED libc /\ kind' = kind /\ others' = (others \ {b}) \cup ({ptr[h]} \ {Null})
      /\ fds' = fds /\ iter' = iter /\ frame' = frame /\ outcome' = outcome
      /\ hazards' = hazards /\ alive' = alive
      /\ b = Null \/ (b \in others /\ (IsDirectory => dirfd[b] # Invalid))
  BY DEF Reset
<1>2. TypeOK /\ Calls
  BY DEF IInv
<1>3. ptr' \in [Handles -> Pointers] /\ \A g \in Handles : ~alive'[g] => ptr'[g] = Null
  BY <1>1, <1>2 DEF TypeOK, Calls
<1>4. others' \subseteq Blocks
  <2>1. ptr[h] # Null => ptr[h] \in Blocks
    BY <1>2 DEF TypeOK, Pointers, Blocks, Null
  <2> QED
    BY <1>1, <1>2, <2>1 DEF TypeOK
<1>5. /\ TypeOK' /\ Calls' /\ Val = ptr /\ Val' = ptr' /\ List' = List
      /\ LibcStep /\ FdEffect /\ ResultsRight'
  BY <1>1, <1>2, <1>3, <1>4, Unresolved, NoLibcStep, PlainCall DEF TypeOK
<1>6. Hands
  BY <1>1, <1>5 DEF Hands, libc
<1> QED
  BY <1>1, <1>5, <1>6 DEF Kept, Ready, BlockEffect

\* A move constructor empties the source.
LEMMA MoveConstructStep ==
  ASSUME IInv, NEW h \in Handles, NEW g \in Handles, MoveConstruct(h, g)
  PROVE  Kept
<1>1. /\ Ready /\ ~alive[h] /\ alive[g] /\ alive' = [alive EXCEPT ![h] = TRUE]
      /\ ptr' = [ptr EXCEPT ![h] = ptr[g], ![g] = Null] /\ result' = NoResult
      /\ UNCHANGED libc /\ kind' = kind /\ others' = others
      /\ fds' = fds /\ iter' = iter /\ frame' = frame /\ outcome' = outcome
      /\ hazards' = hazards
  BY DEF MoveConstruct
<1>2. TypeOK /\ Calls
  BY DEF IInv
<1>3. h # g /\ ptr[h] = Null
  BY <1>1, <1>2 DEF Calls
<1>4. /\ alive' \in [Handles -> BOOLEAN] /\ ptr' \in [Handles -> Pointers]
      /\ \A k \in Handles : ~alive'[k] => ptr'[k] = Null
  BY <1>1, <1>2, IdleFrame DEF TypeOK, Calls
<1>5. /\ TypeOK' /\ Calls' /\ Val = ptr /\ Val' = ptr' /\ List' = List
      /\ LibcStep /\ FdEffect /\ ResultsRight'
  BY <1>1, <1>2, <1>4, Unresolved, NoLibcStep, PlainCall DEF TypeOK
<1>6. Hands
  BY <1>1, <1>3, <1>5 DEF Hands, libc
<1> QED
  BY <1>1, <1>5, <1>6 DEF Kept, Ready, BlockEffect

\* Opening a directory, by its name or on a descriptor.
LEMMA OpenNameStep ==
  ASSUME IInv, NEW h \in Handles, OpenName(h)
  PROVE  Kept
<1>1. PICK b \in Blocks, n \in Fds :
        SysOpen(n) /\ Alloc(b, n) /\ ptr' = [ptr EXCEPT ![h] = b]
  BY DEF OpenName
<1>2. /\ Ready /\ IsDirectory /\ (alive[h] => ptr[h] = Null)
      /\ alive' = [alive EXCEPT ![h] = TRUE] /\ result' = NoResult
      /\ kind' = kind /\ others' = others /\ fds' = fds /\ iter' = iter /\ frame' = frame
      /\ outcome' = outcome /\ hazards' = hazards
  BY DEF OpenName, Opens, valid
<1>3. TypeOK /\ Calls /\ Library
  BY DEF IInv
<1>4. ptr[h] = Null /\ b \in Pointers /\ n \in Numbers /\ n # Invalid
  BY <1>2, <1>3, IdleFrame DEF Calls, Numbers, Fds, Invalid
<1>5. LibcStep
  BY <1>1, <1>2, <1>4 DEF LibcStep
<1>6. /\ alive' \in [Handles -> BOOLEAN] /\ ptr' \in [Handles -> Pointers]
      /\ \A g \in Handles : ~alive'[g] => ptr'[g] = Null
  BY <1>1, <1>2, <1>3, <1>4 DEF TypeOK, Calls
<1>7. TypeOK' /\ Calls' /\ Val = ptr /\ Val' = ptr' /\ List' = List /\ ResultsRight'
  BY <1>2, <1>3, <1>5, <1>6, Unresolved, PlainCall DEF TypeOK
<1>8. AllocFor(b, n)
  BY <1>1, <1>2, <1>4, <1>7 DEF AllocFor, Alloc
<1>9. FdOpens(n)
  <2>1. dirfd[b] = Invalid /\ dirfd' = [dirfd EXCEPT ![b] = n]
    BY <1>1, <1>3 DEF Alloc, Library
  <2>2. table[n] = NoFile /\ table' = [table EXCEPT ![n] = opened + 1]
    BY <1>1 DEF SysOpen, Lowest, FreeFds
  <2> QED
    BY <1>2, <2>1, <2>2 DEF FdOpens
<1>10. BlockEffect /\ FdEffect
  BY <1>4, <1>8, <1>9 DEF BlockEffect, FdEffect
<1> QED
  BY <1>2, <1>5, <1>7, <1>10 DEF Kept, Ready

\* An open by name that fails changes no pointer.
LEMMA OpenFailsStep ==
  ASSUME IInv, NEW h \in Handles, NEW throws \in BOOLEAN, OpenFails(h, throws)
  PROVE  Kept
<1>1. /\ Ready /\ (alive[h] => ptr[h] = Null) /\ alive' = [alive EXCEPT ![h] = @ \/ ~throws]
      /\ ptr' = [ptr EXCEPT ![h] = Null]
      /\ result' = NoResult /\ UNCHANGED libc /\ kind' = kind /\ others' = others
      /\ fds' = fds /\ iter' = iter /\ frame' = frame /\ outcome' = outcome
      /\ hazards' = hazards
  BY DEF OpenFails, Opens, valid
<1>2. TypeOK /\ Calls
  BY DEF IInv
<1>3. ptr' = ptr
  BY <1>1, <1>2 DEF TypeOK, Calls
<1>4. /\ alive' \in [Handles -> BOOLEAN] /\ ptr' \in [Handles -> Pointers]
      /\ \A g \in Handles : ~alive'[g] => ptr'[g] = Null
  <2>1. alive' \in [Handles -> BOOLEAN]
    BY <1>1, <1>2 DEF TypeOK
  <2>2. \A g \in Handles : ~alive'[g] => ~alive[g]
    BY <1>1, <1>2 DEF TypeOK
  <2> QED
    BY <1>2, <1>3, <2>1, <2>2 DEF TypeOK, Calls
<1>5. TypeOK' /\ Calls' /\ Val' = Val /\ List' = List /\ LibcStep /\ FdEffect /\ ResultsRight'
  BY <1>1, <1>2, <1>3, <1>4, Unresolved, NoLibcStep, PlainCall DEF TypeOK
<1>6. BlockEffect
  BY <1>1, <1>5 DEF libc, BlockEffect, Quiet
<1> QED
  BY <1>1, <1>5, <1>6 DEF Kept, Ready

\* Opening on a descriptor takes it from the program, or shares it.
LEMMA OpenFdStep ==
  ASSUME IInv, NEW h \in Handles, NEW n \in Fds, NEW shared \in BOOLEAN,
         OpenFd(h, n, shared)
  PROVE  Kept
<1>1. PICK b \in Blocks : Alloc(b, n) /\ ptr' = [ptr EXCEPT ![h] = b]
  BY DEF OpenFd
<1>2. /\ Ready /\ IsDirectory /\ (alive[h] => ptr[h] = Null) /\ n \in fds
      /\ fds' = IF shared THEN fds ELSE fds \ {n}
      /\ alive' = [alive EXCEPT ![h] = TRUE] /\ result' = NoResult
      /\ kind' = kind /\ others' = others /\ iter' = iter /\ frame' = frame
      /\ outcome' = outcome /\ hazards' = hazards /\ table' = table /\ opened' = opened
      /\ shared => May("sharefd")
  BY DEF OpenFd, Opens, valid
<1>3. TypeOK /\ Calls /\ Library
  BY DEF IInv
<1>4. ptr[h] = Null /\ b \in Pointers /\ n \in Numbers /\ n # Invalid
  BY <1>2, <1>3, IdleFrame DEF Calls, Numbers, Fds, Invalid
<1>5. LibcStep
  BY <1>1, <1>2, <1>4 DEF LibcStep
<1>6. /\ alive' \in [Handles -> BOOLEAN] /\ ptr' \in [Handles -> Pointers]
      /\ fds' \subseteq Fds /\ \A g \in Handles : ~alive'[g] => ptr'[g] = Null
  BY <1>1, <1>2, <1>3, <1>4 DEF TypeOK, Calls
<1>7. TypeOK' /\ Calls' /\ Val = ptr /\ Val' = ptr' /\ List' = List /\ ResultsRight'
  BY <1>2, <1>3, <1>5, <1>6, Unresolved, PlainCall DEF TypeOK
<1>8. AllocFor(b, n)
  BY <1>1, <1>2, <1>4, <1>7 DEF AllocFor, Alloc
<1>9. FdMoves(n)
  BY <1>1, <1>2, <1>3 DEF FdMoves, Alloc, Library
<1>10. BlockEffect /\ FdEffect
  BY <1>4, <1>8, <1>9 DEF BlockEffect, FdEffect
<1> QED
  BY <1>2, <1>5, <1>7, <1>10 DEF Kept, Ready

\* A failing open on a descriptor that was moved in forgets it.
LEMMA OpenFdFailsStep ==
  ASSUME IInv, NEW h \in Handles, NEW n \in Fds, NEW throws \in BOOLEAN,
         OpenFdFails(h, n, throws)
  PROVE  Kept
<1>1. /\ Ready /\ ~alive[h] /\ alive' = [alive EXCEPT ![h] = ~throws] /\ ptr' = ptr
      /\ result' = NoResult /\ UNCHANGED libc /\ kind' = kind /\ others' = others
      /\ fds' = fds \ {n} /\ iter' = iter /\ frame' = frame /\ outcome' = outcome
      /\ hazards' = hazards /\ n \in fds /\ May("failtake")
  BY DEF OpenFdFails, Opens
<1>2. TypeOK /\ Calls
  BY DEF IInv
<1>4. /\ alive' \in [Handles -> BOOLEAN] /\ ptr' \in [Handles -> Pointers]
      /\ fds' \subseteq Fds /\ \A g \in Handles : ~alive'[g] => ptr'[g] = Null
  BY <1>1, <1>2 DEF TypeOK, Calls
<1>5. TypeOK' /\ Calls' /\ Val' = Val /\ List' = List /\ LibcStep /\ ResultsRight'
  BY <1>1, <1>2, <1>4, Unresolved, NoLibcStep, PlainCall DEF TypeOK
<1>6. FdMoves(n)
  BY <1>1 DEF FdMoves, libc
<1>7. BlockEffect /\ FdEffect
  BY <1>1, <1>5, <1>6 DEF libc, BlockEffect, Quiet, FdEffect
<1> QED
  BY <1>1, <1>5, <1>7 DEF Kept, Ready

\* Directory::close(), after which the object still claims its stream.
LEMMA CloseStep ==
  ASSUME IInv, NEW h \in Handles, Close(h)
  PROVE  Kept
<1>1. /\ Ready /\ alive[h] /\ valid(h) /\ May("reclose") /\ Dispose(ptr[h])
      /\ result' = NoResult /\ kind' = kind /\ alive' = alive /\ ptr' = ptr
      /\ others' = others /\ fds' = fds /\ iter' = iter /\ frame' = frame
      /\ hazards' = hazards
  BY DEF Close
<1>2. TypeOK /\ Calls /\ Library /\ outcome = "runs"
  BY <1>1 DEF IInv, Ready
<1>3. ptr[h] \in Blocks
  BY <1>1, <1>2 DEF TypeOK, valid, Pointers, Blocks, Null
<1>4. PICK b \in Blocks : b = ptr[h]
  BY <1>3
<1>5. /\ LibcStep /\ outcome' \in {"runs", "EBADF", "undefined"}
      /\ outcome' = "runs" =>
           /\ heap' = [heap EXCEPT ![b] = Free]
           /\ dirfd' = [dirfd EXCEPT ![b] = Invalid] /\ FdEffect
  BY <1>1, <1>2, <1>4, Disposes
<1>6. TypeOK' /\ Calls' /\ Val' = Val /\ List' = List /\ ResultsRight'
  BY <1>1, <1>2, <1>5, Unresolved, PlainCall DEF TypeOK, Calls
<1>7. outcome' = "runs" => FreedBy(b)
  BY <1>1, <1>5, <1>6 DEF FreedBy
<1>8. ~Careful
  BY <1>1 DEF Careful, May
<1> QED
  BY <1>1, <1>5, <1>6, <1>7, <1>8 DEF Kept, BlockEffect

\* A handle disposes of what it has and points to nothing.
LEMMA LetGo ==
  ASSUME IInv, NEW h \in Handles, Ready, Spares(h),
         IF valid(h) THEN Dispose(ptr[h]) ELSE UNCHANGED <<libc, outcome>>,
         ptr' = [ptr EXCEPT ![h] = Null], alive' \in [Handles -> BOOLEAN],
         \A g \in Handles \ {h} : alive'[g] = alive[g], result' = NoResult,
         UNCHANGED <<kind, others, fds, iter, frame, hazards>>
  PROVE  Kept
<1>1. TypeOK /\ Calls /\ Library /\ outcome = "runs"
  BY DEF IInv, Ready
<1>2. ptr' \in [Handles -> Pointers] /\ \A g \in Handles : ~alive'[g] => ptr'[g] = Null
  BY <1>1, IdleFrame DEF TypeOK, Calls
<1>3. CASE valid(h)
  <2>1. ptr[h] \in Blocks
    BY <1>1, <1>3 DEF TypeOK, valid, Pointers, Blocks, Null
  <2>2. PICK b \in Blocks : b = ptr[h]
    BY <2>1
  <2>3. /\ LibcStep /\ outcome' \in {"runs", "EBADF", "undefined"}
        /\ outcome' = "runs" =>
             /\ heap' = [heap EXCEPT ![b] = Free]
             /\ dirfd' = [dirfd EXCEPT ![b] = Invalid] /\ FdEffect
        /\ /\ FdsHeld(dirfd, fds, table) /\ heap[b] # Free
           /\ IsDirectory => dirfd[b] # Invalid
           => outcome' = "runs"
    BY <1>1, <1>3, <2>2, Disposes
  <2>4. /\ TypeOK' /\ Calls' /\ Val = ptr /\ Val' = ptr' /\ List' = List /\ ResultsRight'
    BY <1>1, <1>2, <2>3, Unresolved, PlainCall DEF TypeOK
  <2>5. Careful => outcome' = "runs"
    BY <1>3, <2>2, <2>3, <2>4, CarefulHandle DEF valid
  <2>6. outcome' = "runs" => FreedBy(b)
    BY <1>3, <2>2, <2>3, <2>4 DEF FreedBy, Spares
  <2> QED
    BY <2>3, <2>4, <2>5, <2>6 DEF Kept, BlockEffect
<1>4. CASE ~valid(h)
  <2>1. UNCHANGED libc /\ outcome' = outcome
    BY <1>4
  <2>2. ptr' = ptr
    BY <1>1, <1>4 DEF TypeOK, valid
  <2>3. /\ TypeOK' /\ Calls' /\ Val' = Val /\ List' = List /\ LibcStep /\ FdEffect
        /\ ResultsRight'
    BY <1>1, <1>2, <2>1, <2>2, Unresolved, NoLibcStep, PlainCall DEF TypeOK
  <2>4. BlockEffect
    BY <2>1, <2>3 DEF libc, BlockEffect, Quiet
  <2> QED
    BY <1>1, <2>1, <2>3, <2>4 DEF Kept
<1> QED
  BY <1>3, <1>4

\* AddressInfo::free().
LEMMA FreeListStep ==
  ASSUME IInv, NEW h \in Handles, FreeList(h)
  PROVE  Kept
<1>1. alive' \in [Handles -> BOOLEAN] /\ alive' = alive
  BY DEF FreeList, IInv, TypeOK
<1> QED
  BY <1>1, LetGo DEF FreeList

\* The destructors.
LEMMA DestroyStep ==
  ASSUME IInv, NEW h \in Handles, Destroy(h)
  PROVE  Kept
<1>1. alive \in [Handles -> BOOLEAN] /\ alive' = [alive EXCEPT ![h] = FALSE]
  BY DEF Destroy, IInv, TypeOK
<1> QED
  BY <1>1, LetGo DEF Destroy

\* The two steps of a move assignment.
LEMMA MoveAssignStep ==
  ASSUME IInv, NEW h \in Handles, NEW g \in Handles, MoveAssign(h, g)
  PROVE  Kept
<1>1. /\ Ready /\ alive[h] /\ alive[g] /\ Spares(h) /\ (h = g => May("selfmove"))
      /\ frame' = [Idle EXCEPT !.op = "take", !.this = h, !.other = g]
      /\ result' = NoResult /\ kind' = kind /\ alive' = alive /\ others' = others
      /\ fds' = fds /\ iter' = iter /\ hazards' = hazards
  BY DEF MoveAssign
<1>2. TypeOK /\ Calls /\ Library /\ outcome = "runs" /\ frame = Idle
  BY <1>1 DEF IInv, Ready
<1>3. Val = ptr /\ List = Null
  BY <1>2, IdleFrame, ValNow DEF List
<1>4. /\ frame' \in Frames /\ frame'.op = "take" /\ frame'.this = h /\ frame'.other = g
      /\ frame'.list = Null
  BY <1>1, IdleFrame DEF Idle, Frames
<1>5. ASSUME LibcStep, outcome' \in {"runs", "EBADF", "undefined"},
             ptr' = ptr \/ ptr' = [ptr EXCEPT ![h] = Null]
      PROVE  /\ TypeOK' /\ Calls' /\ List' = List /\ ResultsRight'
             /\ h # g => Val' = [Val EXCEPT ![h] = Null]
             /\ h = g => Val' = ptr'
  <2>1. ptr' \in [Handles -> Pointers] /\ \A k \in Handles : ~alive'[k] => ptr'[k] = Null
    BY <1>1, <1>2, <1>5, IdleFrame DEF TypeOK, Calls
  <2>2. result' \in Results /\ ResultsRight' /\ result'.call # "resolve" /\ result'.addr \in Sin
    BY <1>1, IdleFrame, Unresolved
  <2>3. TypeOK'
    BY <1>1, <1>2, <1>5, <2>1, <2>2, HeapStep, TableStep DEF TypeOK
  <2>4. Calls'
    BY <1>1, <1>2, <1>4, <2>1, <2>2 DEF Calls, List, IsDirectory, May
  <2>5. /\ h # g => Val' = [ptr' EXCEPT ![h] = Null]
        /\ h = g => Val' = ptr'
    BY <1>4, <2>3, <2>4, ValNext
  <2>6. h # g => Val' = [Val EXCEPT ![h] = Null]
    BY <1>2, <1>3, <1>5, <2>5 DEF TypeOK
  <2> QED
    BY <1>3, <1>4, <2>2, <2>3, <2>4, <2>5, <2>6 DEF List
<1>6. CASE valid(h) /\ ptr[h] # ptr[g]
  <2>1. Dispose(ptr[h]) /\ (ptr' = ptr \/ ptr' = [ptr EXCEPT ![h] = Null])
    BY <1>6 DEF MoveAssign
  <2>2. ptr[h] \in Blocks
    BY <1>2, <1>6 DEF TypeOK, valid, Pointers, Blocks, Null
  <2>3. PICK b \in Blocks : b = ptr[h]
    BY <2>2
  <2>4. /\ LibcStep /\ outcome' \in {"runs", "EBADF", "undefined"}
        /\ outcome' = "runs" =>
             /\ heap' = [heap EXCEPT ![b] = Free]
             /\ dirfd' = [dirfd EXCEPT ![b] = Invalid] /\ FdEffect
        /\ /\ FdsHeld(dirfd, fds, table) /\ heap[b] # Free
           /\ IsDirectory => dirfd[b] # Invalid
           => outcome' = "runs"
    BY <1>1, <1>2, <2>1, <2>3, Disposes
  <2>5. Careful => outcome' = "runs"
    BY <1>3, <1>6, <2>3, <2>4, CarefulHandle DEF valid
  <2>6. outcome' = "runs" => FreedBy(b)
    BY <1>1, <1>3, <1>5, <1>6, <2>1, <2>3, <2>4 DEF FreedBy, Spares
  <2> QED
    BY <1>1, <1>5, <2>1, <2>4, <2>5, <2>6 DEF Kept, BlockEffect
<1>7. CASE ~(valid(h) /\ ptr[h] # ptr[g])
  <2>1. UNCHANGED libc /\ ptr' = ptr /\ outcome' = outcome
    BY <1>7 DEF MoveAssign
  <2>2. /\ TypeOK' /\ Calls' /\ List' = List /\ ResultsRight' /\ LibcStep /\ FdEffect
        /\ h # g => Val' = [Val EXCEPT ![h] = Null]
        /\ h = g => Val' = Val
    BY <1>1, <1>2, <1>3, <1>5, <2>1, NoLibcStep
  <2>3. CASE h = g \/ ~valid(h)
    <3>1. Val' = Val
      BY <1>2, <1>3, <2>2, <2>3 DEF TypeOK, valid
    <3>2. Quiet
      BY <1>1, <2>1, <2>2, <3>1 DEF Quiet, libc
    <3> QED
      BY <1>1, <1>2, <2>1, <2>2, <3>2 DEF Kept, BlockEffect
  <2>4. CASE h # g /\ valid(h)
    <3>1. Hands
      BY <1>1, <1>3, <1>7, <2>1, <2>2, <2>4 DEF Hands, libc
    <3> QED
      BY <1>1, <1>2, <2>1, <2>2, <3>1 DEF Kept, BlockEffect
  <2> QED
    BY <2>3, <2>4
<1> QED
  BY <1>6, <1>7

\* The pointer goes from the source to the target.
LEMMA TakeStep ==
  ASSUME IInv, Take
  PROVE  Kept
<1>1. PICK h, g : h = frame.this /\ g = frame.other
  OBVIOUS
<1>2. /\ outcome = "runs" /\ frame.op = "take"
      /\ ptr' = [ptr EXCEPT ![h] = ptr[g], ![g] = Null] /\ frame' = Idle
      /\ UNCHANGED libc /\ kind' = kind /\ alive' = alive /\ others' = others
      /\ fds' = fds /\ iter' = iter /\ result' = result /\ outcome' = outcome
      /\ hazards' = hazards
  BY <1>1 DEF Take
<1>3. TypeOK /\ Calls /\ Library
  BY DEF IInv
<1>4. /\ h \in Handles /\ g \in Handles /\ alive[h] /\ alive[g] /\ result = NoResult
      /\ List = Null /\ (h = g => May("selfmove"))
  BY <1>1, <1>2, <1>3, IdleFrame DEF Calls
<1>5. ptr' \in [Handles -> Pointers] /\ \A k \in Handles : ~alive'[k] => ptr'[k] = Null
  BY <1>2, <1>3, <1>4, IdleFrame DEF TypeOK, Calls
<1>6. result' \in Results /\ ResultsRight' /\ result'.call # "resolve" /\ result'.addr \in Sin
  BY <1>2, <1>4, IdleFrame, Unresolved
<1>7. LibcStep /\ FdEffect
  BY <1>2, NoLibcStep
<1>8. TypeOK'
  BY <1>2, <1>3, <1>5, <1>6, <1>7, HeapStep, TableStep DEF TypeOK
<1>9. Calls'
  BY <1>2, <1>3, <1>5, <1>6, IdleFrame DEF Calls, List, IsDirectory, May
<1>10. Val' = ptr' /\ List' = List
  BY <1>2, <1>4, <1>8, <1>9, IdleFrame, ValNext DEF List
<1>11. Hands
  <2>1. CASE h = g
    <3>1. Val = ptr /\ ptr' = [ptr EXCEPT ![h] = Null]
      BY <1>1, <1>2, <1>3, <1>4, <2>1, ValNow DEF TypeOK
    <3> QED
      BY <1>2, <1>4, <1>10, <2>1, <3>1 DEF Hands, libc
  <2>2. CASE h # g
    <3>1. Val = [ptr EXCEPT ![h] = Null]
      BY <1>1, <1>2, <1>3, <2>2, ValNow
    <3>2. Val[h] = Null /\ ptr' = [Val EXCEPT ![h] = Val[g], ![g] = Null]
      BY <1>2, <1>3, <1>4, <2>2, <3>1 DEF TypeOK
    <3> QED
      BY <1>2, <1>4, <1>10, <2>2, <3>2 DEF Hands, libc
  <2> QED
    BY <2>1, <2>2
<1> QED
  BY <1>2, <1>6, <1>7, <1>8, <1>9, <1>11 DEF Kept, BlockEffect
-----------------------------------------------------------------------------
\* Lists of addresses.
LEMMA ResolveStep ==
  ASSUME IInv, NEW h \in Handles, Resolve(h)
  PROVE  Kept
<1>1. PICK b \in Blocks : Alloc(b, Invalid) /\ ptr' = [ptr EXCEPT ![h] = b]
  BY DEF Resolve
<1>2. /\ Ready /\ ~IsDirectory /\ alive[h] /\ ptr[h] = Null
      /\ result' = [NoResult EXCEPT !.call = "resolve", !.this = h]
      /\ kind' = kind /\ alive' = alive /\ others' = others /\ fds' = fds /\ iter' = iter
      /\ frame' = frame /\ outcome' = outcome /\ hazards' = hazards
      /\ table' = table /\ opened' = opened
  BY DEF Resolve, valid
<1>3. TypeOK /\ Calls /\ Library
  BY DEF IInv
<1>4. b \in Pointers /\ b # Null /\ Invalid \in Numbers
  BY IdleFrame DEF Numbers
<1>5. LibcStep
  BY <1>1, <1>2, <1>4 DEF LibcStep
<1>6. ptr' \in [Handles -> Pointers] /\ \A g \in Handles : ~alive'[g] => ptr'[g] = Null
  BY <1>1, <1>2, <1>3, <1>4 DEF TypeOK, Calls
<1>7. /\ result' \in Results /\ result'.call = "resolve" /\ result'.this = h
      /\ result'.this \in Handles
  BY <1>2, IdleFrame DEF NoResult, Results
<1>8. ptr'[h] # Null
  BY <1>1, <1>3, <1>4 DEF TypeOK
<1>9. ResultsRight'
  BY <1>7, <1>8 DEF ResultsRight, valid
<1>10. TypeOK' /\ Calls' /\ Val = ptr /\ Val' = ptr' /\ List' = List
  BY <1>2, <1>3, <1>5, <1>6, <1>7, <1>9, PlainCall DEF TypeOK
<1>11. AllocFor(b, Invalid)
  BY <1>1, <1>2, <1>10 DEF AllocFor, Alloc
<1>12. dirfd' = dirfd
  BY <1>1, <1>3 DEF Alloc, Library, TypeOK
<1>13. BlockEffect /\ FdEffect
  BY <1>2, <1>4, <1>11, <1>12 DEF BlockEffect, FdEffect
<1> QED
  BY <1>2, <1>5, <1>9, <1>10, <1>13 DEF Kept, Ready

\* A code without an exception is returned only in a program that may get one.
LEMMA ResolveFailsStep ==
  ASSUME IInv, NEW h \in Handles, NEW code \in Codes, ResolveFails(h, code)
  PROVE  Kept
<1>1. /\ Ready /\ UNCHANGED libc /\ kind' = kind /\ alive' = alive /\ ptr' = ptr
      /\ others' = others /\ fds' = fds /\ iter' = iter /\ frame' = frame
      /\ outcome' = outcome /\ hazards' = hazards
      /\ result' = IF code \in Listed THEN NoResult
                   ELSE [NoResult EXCEPT !.call = "resolve", !.this = h]
  BY DEF ResolveFails
<1>2. TypeOK /\ Calls
  BY DEF IInv
<1>3. /\ result' \in Results /\ ResultsRight'
      /\ result'.call = "resolve" => result'.this \in Handles
  <2>1. CASE code \in Listed
    BY <1>1, <2>1, Unresolved
  <2>2. CASE code \notin Listed
    <3>1. May("unlisted")'
      BY <1>1, <2>2 DEF Codes, Listed, May
    <3>2. result' \in Results /\ result'.call = "resolve" /\ result'.this = h
      BY <1>1, <2>2, IdleFrame DEF NoResult, Results
    <3> QED
      BY <3>1, <3>2 DEF ResultsRight
  <2> QED
    BY <2>1, <2>2
<1>4. ptr' \in [Handles -> Pointers] /\ \A g \in Handles : ~alive'[g] => ptr'[g] = Null
  BY <1>1, <1>2 DEF TypeOK, Calls
<1>5. TypeOK' /\ Calls' /\ Val' = Val /\ List' = List /\ LibcStep /\ FdEffect
  BY <1>1, <1>2, <1>3, <1>4, NoLibcStep, PlainCall DEF TypeOK
<1>6. BlockEffect
  BY <1>1, <1>5 DEF libc, BlockEffect, Quiet
<1> QED
  BY <1>1, <1>3, <1>5, <1>6 DEF Kept, Ready

\* An iterator of h, its end, or one that goes on.
LEMMA IterateStep ==
  ASSUME IInv, (\E h \in Handles : Iterate(h)) \/ \E last \in BOOLEAN : Follow(last)
  PROVE  Kept
<1>1. /\ Ready /\ UNCHANGED libc /\ kind' = kind /\ alive' = alive /\ ptr' = ptr
      /\ others' = others /\ fds' = fds /\ frame' = frame /\ hazards' = hazards
      /\ result' = result
  BY DEF Iterate, Follow
<1>2. TypeOK /\ Calls /\ ResultsRight /\ outcome = "runs"
  BY <1>1 DEF IInv, Ready
<1>3. iter' \in {iter, Null} \/ \E h \in Handles : iter' = ptr[h]
  BY DEF Iterate, Follow
<1>4. iter' \in Pointers
  BY <1>2, <1>3, IdleFrame DEF TypeOK
<1>5. outcome' \in {"runs", "EBADF", "undefined"} /\ (Careful => outcome' = "runs")
  <2>1. CASE \E h \in Handles : Iterate(h)
    BY <1>2, <2>1 DEF Iterate
  <2>2. CASE \E last \in BOOLEAN : Follow(last)
    <3>1. /\ iter # Null
          /\ outcome' = IF heap[iter] = Free THEN "undefined" ELSE outcome
      BY <2>2 DEF Follow
    <3>2. Careful => heap[iter] # Free
      BY <3>1 DEF IInv, Holding, BlocksHeld
    <3> QED
      BY <1>2, <3>1, <3>2
  <2> QED
    BY <2>1, <2>2
<1>6. ResultsRight'
  BY <1>1, <1>2 DEF ResultsRight, May, valid
<1>7. ptr' \in [Handles -> Pointers] /\ \A g \in Handles : ~alive'[g] => ptr'[g] = Null
  BY <1>1, <1>2 DEF TypeOK, Calls
<1>8. result' \in Results /\ (result'.call = "resolve" => result'.this \in Handles)
  BY <1>1, <1>2 DEF Calls
<1>9. TypeOK' /\ Calls' /\ Val = ptr /\ Val' = ptr' /\ List' = List /\ LibcStep /\ FdEffect
  BY <1>1, <1>2, <1>4, <1>5, <1>6, <1>7, <1>8, NoLibcStep, PlainCall DEF TypeOK
<1>10. BlockEffect
  BY <1>1, <1>3, <1>9 DEF libc, BlockEffect, Quiet
<1> QED
  BY <1>1, <1>5, <1>6, <1>9, <1>10 DEF Kept

\* TcpAddress::instance(): its list is a local.
LEMMA InstanceStep ==
  ASSUME IInv, NEW p \in Ports, NEW service \in BOOLEAN, Instance(p, service)
  PROVE  Kept
<1>1. PICK b \in Blocks :
        /\ Alloc(b, Invalid)
        /\ frame' = [Idle EXCEPT !.list = b, !.port = p,
                       !.op = IF service THEN "service" ELSE "port"]
  BY DEF Instance
<1>2. /\ Ready /\ ~IsDirectory /\ result' = NoResult
      /\ kind' = kind /\ alive' = alive /\ ptr' = ptr /\ others' = others /\ fds' = fds
      /\ iter' = iter /\ outcome' = outcome /\ hazards' = hazards
      /\ table' = table /\ opened' = opened
  BY DEF Instance
<1>3. TypeOK /\ Calls /\ Library /\ outcome = "runs" /\ frame = Idle
  BY <1>2 DEF IInv, Ready
<1>4. b \in Pointers /\ b # Null /\ Invalid \in Numbers /\ p \in Uint(2)
  BY IdleFrame, LibcHandleAssumption DEF Numbers
<1>5. LibcStep
  BY <1>1, <1>2, <1>4 DEF LibcStep
<1>6. /\ frame' \in Frames /\ frame'.op \in {"service", "port"} /\ frame'.list = b
      /\ frame'.port = p
  BY <1>1, <1>4, IdleFrame DEF Idle, Frames
<1>7. result' \in Results /\ ResultsRight' /\ result'.call # "resolve" /\ result'.addr \in Sin
  BY <1>2, IdleFrame, Unresolved
<1>8. TypeOK'
  BY <1>2, <1>3, <1>5, <1>7, HeapStep, TableStep DEF TypeOK
<1>9. Calls'
  BY <1>2, <1>3, <1>4, <1>6, <1>7 DEF Calls, List, IsDirectory, May
<1>10. Val' = Val /\ List = Null /\ List' = b
  BY <1>2, <1>3, <1>6, <1>8, <1>9, IdleFrame, ValNow, ValNext DEF List
<1>11. AllocFor(b, Invalid)
  BY <1>1, <1>2, <1>10 DEF AllocFor, Alloc
<1>12. dirfd' = dirfd
  BY <1>1, <1>3 DEF Alloc, Library, TypeOK
<1>13. BlockEffect /\ FdEffect
  BY <1>2, <1>4, <1>11, <1>12 DEF BlockEffect, FdEffect
<1> QED
  BY <1>2, <1>3, <1>5, <1>7, <1>8, <1>9, <1>13 DEF Kept

\* instance() that fails throws, whatever the code.
LEMMA InstanceFailsStep ==
  ASSUME IInv, NEW p \in Ports, NEW code \in Codes, InstanceFails(p, code)
  PROVE  Kept
<1>1. /\ Ready /\ UNCHANGED libc /\ kind' = kind /\ alive' = alive /\ ptr' = ptr
      /\ others' = others /\ fds' = fds /\ iter' = iter /\ frame' = frame
      /\ outcome' = outcome /\ hazards' = hazards /\ result' = NoResult
  BY DEF InstanceFails, Codes, Listed
<1>2. TypeOK /\ Calls
  BY DEF IInv
<1>3. ptr' \in [Handles -> Pointers] /\ \A g \in Handles : ~alive'[g] => ptr'[g] = Null
  BY <1>1, <1>2 DEF TypeOK, Calls
<1>4. TypeOK' /\ Calls' /\ Val' = Val /\ List' = List /\ LibcStep /\ FdEffect /\ ResultsRight'
  BY <1>1, <1>2, <1>3, Unresolved, NoLibcStep, PlainCall DEF TypeOK
<1>5. BlockEffect
  BY <1>1, <1>4 DEF libc, BlockEffect, Quiet
<1> QED
  BY <1>1, <1>4, <1>5 DEF Kept, Ready

\* The address an instance() returns: the node and the port that were asked for.
LEMMA Resolved ==
  ASSUME NEW p \in Uint(2)
  PROVE  LET a == FromBytes(Node[1], Node[2], Node[3], Node[4], p)
             z == FromBytes(Node[1], Node[2], Node[3], Node[4], <<0, 0>>)
         IN  /\ a \in Sin /\ port(a) = p /\ ip(a) = Node
             /\ WithPort(z, p) \in Sin /\ port(WithPort(z, p)) = p /\ ip(WithPort(z, p)) = Node
<1>1. Node \in Uint(4)
  BY LibcHandleAssumption
<1>2. <<0, 0>> \in Uint(2)
  BY DEF Uint, Byte
<1>3. ASSUME NEW q \in Uint(2)
      PROVE  /\ FromBytes(Node[1], Node[2], Node[3], Node[4], q) \in Sin
             /\ port(FromBytes(Node[1], Node[2], Node[3], Node[4], q)) = q
             /\ ip(FromBytes(Node[1], Node[2], Node[3], Node[4], q)) = Node
  <2>1. FromArray(Node, q) = FromBytes(Node[1], Node[2], Node[3], Node[4], q)
        /\ ip(FromArray(Node, q)) = Node /\ port(FromArray(Node, q)) = q
    BY <1>1, ConstructorsAgree
  <2>2. hton(q, 2) \in Uint(2)
    BY NetworkRoundTrip
  <2>3. FromMemory(Node, 4) \in Uint(4)
    BY <1>1, SMT DEF FromMemory, Uint
  <2>4. FromArray(Node, q) \in Sin
    BY <2>2, <2>3 DEF FromArray, Sin
  <2> QED
    BY <2>1, <2>4
<1>4. ASSUME NEW z \in Sin PROVE WithPort(z, p) \in Sin
  BY NetworkRoundTrip DEF WithPort, Sin
<1> QED
  BY <1>2, <1>3, <1>4, PortRoundTrip

\* The local list is freed, the address is what was asked for.
LEMMA InstanceReturnsStep ==
  ASSUME IInv, InstanceReturns
  PROVE  Kept
<1>1. /\ outcome = "runs" /\ frame.op \in {"service", "port"} /\ Dispose(List)
      /\ frame' = Idle /\ kind' = kind /\ alive' = alive /\ ptr' = ptr /\ others' = others
      /\ fds' = fds /\ iter' = iter /\ hazards' = hazards
      /\ result' = [NoResult EXCEPT !.call = "instance", !.port = frame.port,
                      !.addr = IF frame.op = "service" THEN First
                               ELSE WithPort(First, frame.port)]
  BY DEF InstanceReturns, List
<1>2. TypeOK /\ Calls /\ Library
  BY DEF IInv
<1>3. List # Null /\ ~IsDirectory /\ frame.port \in Uint(2) /\ List \in Pointers
  BY <1>1, <1>2 DEF Calls, Frames, List
<1>4. PICK b \in Blocks : b = List
  BY <1>3 DEF Pointers, Blocks, Null
<1>5. /\ LibcStep /\ outcome' \in {"runs", "EBADF", "undefined"}
      /\ outcome' = "runs" =>
           /\ heap' = [heap EXCEPT ![b] = Free]
           /\ dirfd' = [dirfd EXCEPT ![b] = Invalid] /\ FdEffect
      /\ FdsHeld(dirfd, fds, table) /\ heap[b] # Free => outcome' = "runs"
  BY <1>1, <1>2, <1>3, <1>4, Disposes
<1>6. PICK a : a = IF frame.op = "service" THEN First ELSE WithPort(First, frame.port)
  OBVIOUS
<1>7. a \in Sin /\ port(a) = frame.port /\ ip(a) = Node
  BY <1>3, <1>6, Resolved DEF First
<1>8. /\ result' \in Results /\ result'.call = "instance" /\ result'.port = frame.port
      /\ result'.addr = a
  BY <1>1, <1>3, <1>6, <1>7, IdleFrame DEF NoResult, Results
<1>9. ResultsRight'
  BY <1>7, <1>8 DEF ResultsRight
<1>10. TypeOK'
  BY <1>1, <1>2, <1>5, <1>7, <1>8, HeapStep, TableStep DEF TypeOK
<1>11. Calls'
  BY <1>1, <1>2, <1>8, IdleFrame DEF Calls, List, IsDirectory, May
<1>12. Val' = Val /\ List' = Null
  BY <1>1, <1>2, <1>10, <1>11, IdleFrame, ValNow, ValNext DEF List
<1>13. outcome' = "runs" => FreedBy(b)
  BY <1>1, <1>4, <1>5, <1>12 DEF FreedBy
<1>14. Careful => outcome' = "runs"
  BY <1>3, <1>4, <1>5 DEF IInv, Holding, BlocksHeld
<1> QED
  BY <1>1, <1>5, <1>9, <1>10, <1>11, <1>13, <1>14 DEF Kept, BlockEffect
-----------------------------------------------------------------------------
\* The rest of the program.
LEMMA OtherAllocsStep ==
  ASSUME IInv, OtherAllocs
  PROVE  Kept
<1>1. PICK b \in Blocks : Alloc(b, Invalid) /\ others' = others \cup {b}
  BY DEF OtherAllocs
<1>2. /\ outcome = "runs" /\ table' = table /\ opened' = opened /\ fds' = fds
      /\ UNCHANGED <<kind, hazards, frame, result, alive, ptr, iter, outcome>>
  BY DEF OtherAllocs
<1>3. TypeOK /\ Library /\ Invalid \in Numbers
  BY DEF IInv, Numbers
<1>4. LibcStep
  BY <1>1, <1>2, <1>3 DEF LibcStep
<1>5. TypeOK' /\ Calls' /\ ResultsRight' /\ Val' = Val /\ List' = List
  BY <1>1, <1>2, <1>3, <1>4, OtherStep DEF TypeOK
<1>6. AllocFor(b, Invalid) /\ dirfd' = dirfd
  BY <1>1, <1>2, <1>3, <1>5 DEF AllocFor, Alloc, Library, TypeOK
<1> QED
  BY <1>2, <1>3, <1>4, <1>5, <1>6 DEF Kept, BlockEffect, FdEffect

\* The program frees, or closes a stream.
LEMMA OtherFreesStep ==
  ASSUME IInv, NEW b \in Blocks, OtherFrees(b)
  PROVE  Kept
<1>1. /\ outcome = "runs" /\ b \in others /\ (May("iterfree") \/ iter # b)
      /\ others' = others \ {b} /\ heap' = [heap EXCEPT ![b] = Free]
      /\ dirfd' = [dirfd EXCEPT ![b] = Invalid] /\ fds' = fds /\ allocated' = allocated
      /\ IF dirfd[b] # Invalid THEN SysClose(dirfd[b]) ELSE UNCHANGED <<table, opened>>
      /\ UNCHANGED <<kind, hazards, frame, result, alive, ptr, iter, outcome>>
  BY DEF OtherFrees
<1>2. TypeOK /\ dirfd[b] \in Numbers
  BY DEF IInv, TypeOK
<1>3. LibcStep /\ FdEffect
  <2>1. CASE dirfd[b] # Invalid
    <3>1. dirfd[b] \in Fds /\ SysClose(dirfd[b])
      BY <1>1, <1>2, <2>1 DEF Numbers
    <3>2. FdCloses(dirfd[b])
      BY <1>1, <3>1 DEF FdCloses, SysClose
    <3> QED
      BY <1>1, <3>1, <3>2 DEF LibcStep, FdEffect
  <2>2. CASE dirfd[b] = Invalid
    <3>1. dirfd' = dirfd
      BY <1>1, <1>2, <2>2 DEF TypeOK
    <3> QED
      BY <1>1, <2>2, <3>1 DEF LibcStep, FdEffect
  <2> QED
    BY <2>1, <2>2
<1>4. TypeOK' /\ Calls' /\ ResultsRight' /\ Val' = Val /\ List' = List
  BY <1>1, <1>2, <1>3, OtherStep DEF TypeOK
<1>5. FreedBy(b)
  BY <1>1, <1>4 DEF FreedBy
<1> QED
  BY <1>1, <1>3, <1>4, <1>5 DEF Kept, BlockEffect

\* The program opens and closes descriptors.
LEMMA OtherFdStep ==
  ASSUME IInv, OtherOpens \/ \E n \in Fds : OtherCloses(n)
  PROVE  Kept
<1>1. /\ outcome = "runs" /\ UNCHANGED <<heap, dirfd, allocated>> /\ others' = others
      /\ UNCHANGED <<kind, hazards, frame, result, alive, ptr, iter, outcome>>
  BY DEF OtherOpens, OtherCloses
<1>2. PICK n \in Fds : \/ SysOpen(n) /\ fds' = fds \cup {n}
                       \/ n \in fds /\ SysClose(n) /\ fds' = fds \ {n}
  BY DEF OtherOpens, OtherCloses
<1>3. TypeOK
  BY DEF IInv
<1>4. LibcStep
  BY <1>1, <1>2 DEF LibcStep
<1>5. fds' \subseteq Fds /\ others' \subseteq Blocks
  BY <1>1, <1>2, <1>3 DEF TypeOK
<1>6. TypeOK' /\ Calls' /\ ResultsRight' /\ Val' = Val /\ List' = List
  BY <1>1, <1>4, <1>5, OtherStep
<1>7. FdOpens(n) \/ FdCloses(n)
  BY <1>1, <1>2 DEF FdOpens, FdCloses, SysOpen, SysClose, Lowest, FreeFds
<1>8. BlockEffect /\ FdEffect
  BY <1>1, <1>6, <1>7 DEF BlockEffect, Quiet, FdEffect
<1> QED
  BY <1>1, <1>4, <1>6, <1>8 DEF Kept

\* Every step keeps the types and has an effect of each kind.
LEMMA NextStep == IInv /\ Next => Kept
<1> SUFFICES ASSUME IInv, Next PROVE Kept
  OBVIOUS
<1>1. ASSUME NEW h \in Handles, Construct(h) \/ Destroy(h) \/ DirectoryCalls(h) PROVE Kept
  BY <1>1, ConstructStep, DestroyStep, OpenNameStep, CloseStep, OpenFailsStep,
     OpenFdFailsStep, OpenFdStep DEF DirectoryCalls
<1>2. ASSUME NEW h \in Handles, ListCalls(h) PROVE Kept
  BY <1>2, FreeListStep, ResolveStep, IterateStep, ResolveFailsStep DEF ListCalls
<1>3. ASSUME NEW h \in Handles, \/ \E b \in Blocks : Adopt(h, b)
                                \/ \E b \in Pointers : Reset(h, b)
                                \/ \E g \in Handles : MoveConstruct(h, g) \/ MoveAssign(h, g)
      PROVE  Kept
  BY <1>3, AdoptStep, ResetStep, MoveConstructStep, MoveAssignStep
<1>4. ASSUME NEW p \in Ports, \/ \E service \in BOOLEAN : Instance(p, service)
                              \/ \E code \in Codes : InstanceFails(p, code)
      PROVE  Kept
  BY <1>4, InstanceStep, InstanceFailsStep
<1> QED
  BY <1>1, <1>2, <1>3, <1>4, TakeStep, InstanceReturnsStep, IterateStep, OtherAllocsStep,
     OtherFreesStep, OtherFdStep DEF Next

\* The invariant holds.
LEMMA Invariant == (Init => IInv) /\ (IInv /\ [Next]_vars => IInv')
<1>1. ASSUME Init PROVE IInv
  <2>1. /\ alive = [h \in Handles |-> FALSE] /\ ptr = [h \in Handles |-> Null]
        /\ heap = [b \in Blocks |-> Free] /\ dirfd = [b \in Blocks |-> Invalid]
        /\ allocated = 0 /\ others = {} /\ fds = {} /\ iter = Null /\ frame = Idle
        /\ result = NoResult /\ outcome = "runs"
        /\ table = [n \in Fds |-> NoFile] /\ opened = 0 /\ kind \in Kinds
    BY <1>1 DEF Init, TableInit
  <2>2. TypeOK
    BY <2>1, IdleFrame, LibcHandleAssumption, FdTableAssumption
       DEF TypeOK, TableTypeOK, Free, NoFile, Numbers
  <2>3. Calls
    BY <2>1, IdleFrame, LibcHandleAssumption DEF Calls, List
  <2>4. Library
    BY <2>1 DEF Library
  <2>5. ResultsRight
    BY <2>1, IdleFrame DEF ResultsRight
  <2>6. Val = ptr /\ List = Null
    BY <2>1, <2>2, <2>3, ValNow, IdleFrame DEF List
  <2>7. Holding
    BY <2>1, <2>6 DEF Holding, BlocksHeld, Streams, FdsHeld, BlocksFound, FdsFound
  <2> QED
    BY <2>2, <2>3, <2>4, <2>5, <2>7 DEF IInv
<1>2. ASSUME IInv, Next PROVE IInv'
  <2>1. Kept /\ TypeOK /\ Calls /\ Library /\ Holding
    BY <1>2, NextStep DEF IInv
  <2>2. /\ TypeOK' /\ Calls' /\ ResultsRight' /\ hazards' = hazards /\ kind' = kind
        /\ (Careful => outcome' = "runs") /\ (outcome' = "runs" => BlockEffect /\ FdEffect)
    BY <2>1 DEF Kept
  <2>3. Library'
    BY <2>1, <2>2, HeapStep, TableStep DEF Kept, Library, IsDirectory
  <2>4. outcome' = "runs" => outcome = "runs"
    BY <1>2 DEF Next, Construct, Destroy, DirectoryCalls, ListCalls, OpenName, Close, OpenFails,
       OpenFdFails, OpenFd, FreeList, Resolve, Iterate, ResolveFails, Adopt, Reset,
       MoveConstruct, MoveAssign, Instance, InstanceFails, Take, InstanceReturns, Follow,
       OtherAllocs, OtherOpens, OtherFrees, OtherCloses, Opens, Ready
  <2>5. Careful' = Careful /\ \A x : May(x)' = May(x)
    BY <2>2 DEF Careful, May
  <2>6. Careful => /\ outcome' = "runs"
                   /\ BlocksHeld(Val', List', others', heap', iter')
                   /\ FdsHeld(dirfd', fds', table')
                   /\ IsDirectory => Streams(Val', dirfd')
    BY <2>1, <2>2, BlocksStep, FdsStep, StreamsStep DEF Holding
  <2>7. outcome' = "runs" =>
          /\ ~May("selfmove") => BlocksFound(Val', List', others', heap')
          /\ ~May("failtake") => FdsFound(dirfd', fds', table')
    BY <2>1, <2>2, <2>4, FoundStep, FdsStep DEF Holding
  <2>8. Holding'
    BY <2>2, <2>5, <2>6, <2>7 DEF Holding, IsDirectory
  <2> QED
    BY <2>2, <2>3, <2>8 DEF IInv
<1>3. ASSUME IInv, UNCHANGED vars PROVE IInv'
  <2>1. /\ UNCHANGED <<table, opened, heap, dirfd, allocated>>
        /\ UNCHANGED <<kind, alive, ptr, others, fds, iter, frame, result, outcome, hazards>>
    BY <1>3 DEF vars, libc
  <2>2. Val' = Val /\ List' = List
    BY <2>1 DEF Val, Claims, valid, List
  <2>3. TypeOK'
    BY <1>3, <2>1 DEF IInv, TypeOK, TableTypeOK
  <2>4. Calls'
    BY <1>3, <2>1, <2>2 DEF IInv, Calls, IsDirectory, May
  <2>5. Library' /\ ResultsRight'
    BY <1>3, <2>1 DEF IInv, Library, IsDirectory, ResultsRight, May, valid
  <2>6. Holding'
    BY <1>3, <2>1, <2>2 DEF IInv, Holding, Careful, May, IsDirectory
  <2> QED
    BY <2>3, <2>4, <2>5, <2>6 DEF IInv
<1> QED
  BY <1>1, <1>2, <1>3
-----------------------------------------------------------------------------
\* The invariant holds, for any number of handles, blocks, descriptors,
\* allocations and openings.
THEOREM Invariance == Spec => []IInv
BY Invariant, PTL DEF Spec

\* Who holds a block, and who a descriptor.
LEMMA HoldersOf ==
  ASSUME IInv, NEW b \in Blocks
  PROVE  \A x : x \in Holders(b) <=> \/ x \in Handles /\ Val[x] = b
                                     \/ x = "others" /\ b \in others
                                     \/ x = "local" /\ List = b
<1>1. b # Null
  BY IdleFrame
<1>2. \A h \in Handles : Claims(h) /\ ptr[h] = b <=> Val[h] = b
  BY <1>1 DEF Val, Claims, valid
<1>3. Holders(b) = {h \in Handles : Val[h] = b} \cup {x \in {"others"} : b \in others}
                   \cup {x \in {"local"} : List = b}
  BY <1>2 DEF Holders, List
<1> QED
  BY <1>3

\* The same for a descriptor: a stream, or the program.
LEMMA FdHoldersOf ==
  ASSUME IInv, NEW n \in Fds
  PROVE  \A x : x \in FdHolders(n) <=> \/ x \in Blocks /\ dirfd[x] = n
                                       \/ x = -1 /\ n \in fds
<1>1. \A b \in Blocks : dirfd[b] = n => heap[b] # Free
  BY DEF IInv, Library, Fds, Invalid
<1>2. FdHolders(n) = {b \in Blocks : dirfd[b] = n} \cup {x \in {-1} : n \in fds}
  BY <1>1 DEF FdHolders
<1> QED
  BY <1>2

\* What the invariant says in a careful program.
LEMMA CarefulOnce == IInv /\ Careful => HeldOnce
<1> SUFFICES ASSUME IInv, Careful PROVE HeldOnce
  OBVIOUS
<1>1. /\ outcome = "runs" /\ BlocksHeld(Val, List, others, heap, iter)
      /\ FdsHeld(dirfd, fds, table)
  BY DEF IInv, Holding
<1>2. ASSUME NEW b \in Blocks
      PROVE  /\ AtMostOne(Holders(b)) /\ (Holders(b) # {} => heap[b] # Free)
             /\ iter = b => heap[b] # Free
  <2>1. b # Null
    BY IdleFrame
  <2>2. ASSUME NEW x \in Holders(b), NEW y \in Holders(b) PROVE x = y
    BY <1>1, <2>1, HoldersOf DEF BlocksHeld
  <2>3. ASSUME NEW x \in Holders(b) PROVE heap[b] # Free
    BY <1>1, <2>1, HoldersOf DEF BlocksHeld
  <2>4. iter = b => heap[b] # Free
    BY <1>1, <2>1 DEF BlocksHeld
  <2> QED
    BY <2>2, <2>3, <2>4 DEF AtMostOne
<1>3. ASSUME NEW n \in Fds
      PROVE  AtMostOne(FdHolders(n)) /\ (FdHolders(n) # {} => table[n] # NoFile)
  <2>1. n # Invalid
    BY DEF Fds, Invalid
  <2>2. ASSUME NEW x \in FdHolders(n), NEW y \in FdHolders(n) PROVE x = y
    BY <1>1, <2>1, FdHoldersOf DEF FdsHeld
  <2>3. ASSUME NEW x \in FdHolders(n) PROVE table[n] # NoFile
    BY <1>1, <2>1, FdHoldersOf DEF FdsHeld
  <2> QED
    BY <2>2, <2>3 DEF AtMostOne
<1> QED
  BY <1>1, <1>2, <1>3 DEF HeldOnce

\* A careful program holds every block and every descriptor once and live, so
\* that nothing is freed twice and closedir(3) never fails.
THEOREM HeldByOne == Spec => []CarefulHoldOnce
<1>1. IInv => CarefulHoldOnce
  BY CarefulOnce DEF CarefulHoldOnce, Careful, IInv
<1> QED
  BY <1>1, Invariance, PTL

\* What the invariant says of forgotten blocks and descriptors.
LEMMA AllFound ==
  ASSUME IInv, outcome = "runs"
  PROVE  /\ ~May("selfmove") => \A b \in Blocks : heap[b] # Free => Holders(b) # {}
         /\ ~May("failtake") => \A n \in Fds : table[n] # NoFile => FdHolders(n) # {}
<1>1. ASSUME ~May("selfmove"), NEW b \in Blocks, heap[b] # Free PROVE Holders(b) # {}
  <2>1. b \in others \/ List = b \/ \E h \in Handles : Val[h] = b
    BY <1>1 DEF IInv, Holding, BlocksFound
  <2> QED
    BY <2>1, HoldersOf
<1>2. ASSUME ~May("failtake"), NEW n \in Fds, table[n] # NoFile PROVE FdHolders(n) # {}
  <2>1. n \in fds \/ \E b \in Blocks : dirfd[b] = n
    BY <1>2 DEF IInv, Holding, FdsFound
  <2> QED
    BY <2>1, FdHoldersOf
<1> QED
  BY <1>1, <1>2

\* A block is forgotten only by an object that is assigned to itself, a
\* descriptor only by an fdopendir(3) that fails, whatever else the program does.
THEOREM NothingLost == Spec => []LeaksOnlyByHazard
<1>1. IInv => LeaksOnlyByHazard
  BY AllFound DEF LeaksOnlyByHazard
<1> QED
  BY <1>1, Invariance, PTL

\* What resolve() and instance() return is what was asked for.
THEOREM ResolvedRight == Spec => []ResultsRight
<1>1. IInv => ResultsRight
  BY DEF IInv
<1> QED
  BY <1>1, Invariance, PTL
-----------------------------------------------------------------------------
\* The refinement, for the blocks and the descriptors of a program without
\* hazards.
Resources == ({"block"} \X (1 .. MaxAllocs)) \cup ({"file"} \X Files)
Holds == Handles \cup {"others", "local"}
Places == (Blocks \X Holds) \cup ({"fd"} \X Fds \X (Blocks \cup {-1}))

MapOK ==
  /\ AbstractStatus \in [Resources -> {"unused", "held", "released"}]
  /\ AbstractHolders \in [Resources -> SUBSET Places]
  /\ \A r \in Resources :
       IF AbstractStatus[r] = "held" THEN \E p \in Places : AbstractHolders[r] = {p}
       ELSE AbstractHolders[r] = {}
  /\ \A r, s \in Resources : r # s => AbstractHolders[r] \cap AbstractHolders[s] = {}

Advances(r) ==
  \/ AbstractStatus'[r] = AbstractStatus[r]
  \/ AbstractStatus[r] = "unused" /\ AbstractStatus'[r] = "held"
  \/ AbstractStatus[r] = "held" /\ AbstractStatus'[r] = "released"

\* A resource is a block or a file, with its rank.
LEMMA ResourceKinds ==
  ASSUME NEW r \in Resources
  PROVE  /\ \/ r[1] = "block" /\ r[2] \in 1 .. MaxAllocs
            \/ r[1] = "file" /\ r[2] \in 1 .. MaxOpens
         /\ r[2] \in Nat /\ r[2] > 0
         /\ \A s \in Resources : r[1] = s[1] /\ r[2] = s[2] => r = s
BY LibcHandleAssumption, FdTableAssumption DEF Resources, Files

\* Places differ if what is held there does.
LEMMA PlaceKinds ==
  ASSUME NEW a, NEW b, NEW c, NEW d, NEW e
  PROVE  /\ <<a, b>> # <<c, d, e>>
         /\ <<a, b>> = <<c, d>> => a = c
         /\ <<e, a, b>> = <<e, c, d>> => a = c
OBVIOUS

\* The mapping, for a resource of either kind.
LEMMA StatusOf ==
  ASSUME NEW r \in Resources
  PROVE  /\ r[1] = "block" => AbstractStatus[r] =
              IF r[2] > allocated THEN "unused"
              ELSE IF \E b \in Blocks : heap[b] = r[2] THEN "held" ELSE "released"
         /\ r[1] = "file" => AbstractStatus[r] =
              IF r[2] > opened THEN "unused"
              ELSE IF \E n \in Fds : table[n] = r[2] THEN "held" ELSE "released"
BY ResourceKinds DEF AbstractStatus, Resources

\* Where a resource is held, through the slots that hold its rank.
LEMMA HoldersMap ==
  ASSUME NEW r \in Resources
  PROVE  /\ r[1] = "block" => AbstractHolders[r] =
              UNION {{<<b, x>> : x \in Holders(b)} : b \in {c \in Blocks : heap[c] = r[2]}}
         /\ r[1] = "file" => AbstractHolders[r] =
              UNION {{<<"fd", n, x>> : x \in FdHolders(n)} : n \in {m \in Fds : table[m] = r[2]}}
BY ResourceKinds DEF AbstractHolders, Resources

\* A live block, and an open descriptor, has one holder.
LEMMA OneEach ==
  ASSUME IInv, hazards = {}
  PROVE  /\ \A b \in Blocks : Holders(b) \subseteq Holds /\
              IF heap[b] # Free THEN \E x \in Holds : Holders(b) = {x} ELSE Holders(b) = {}
         /\ \A n \in Fds : FdHolders(n) \subseteq Blocks \cup {-1} /\
              IF table[n] # NoFile THEN \E x \in Blocks \cup {-1} : FdHolders(n) = {x}
              ELSE FdHolders(n) = {}
<1>1. HeldOnce /\ ~May("selfmove") /\ ~May("failtake")
  BY CarefulOnce DEF Careful, May
<1>2. outcome = "runs"
  BY <1>1 DEF HeldOnce
<1>3. ASSUME NEW b \in Blocks
      PROVE  /\ Holders(b) \subseteq Holds
             /\ IF heap[b] # Free THEN \E x \in Holds : Holders(b) = {x} ELSE Holders(b) = {}
  <2>1. Holders(b) \subseteq Holds
    BY DEF Holders, Holds
  <2>2. AtMostOne(Holders(b)) /\ (Holders(b) # {} => heap[b] # Free)
    BY <1>1 DEF HeldOnce
  <2>3. heap[b] # Free => Holders(b) # {}
    BY <1>1, <1>2, AllFound
  <2> QED
    BY <2>1, <2>2, <2>3 DEF AtMostOne
<1>4. ASSUME NEW n \in Fds
      PROVE  /\ FdHolders(n) \subseteq Blocks \cup {-1}
             /\ IF table[n] # NoFile THEN \E x \in Blocks \cup {-1} : FdHolders(n) = {x}
                ELSE FdHolders(n) = {}
  <2>1. FdHolders(n) \subseteq Blocks \cup {-1}
    BY DEF FdHolders
  <2>2. AtMostOne(FdHolders(n)) /\ (FdHolders(n) # {} => table[n] # NoFile)
    BY <1>1 DEF HeldOnce
  <2>3. table[n] # NoFile => FdHolders(n) # {}
    BY <1>1, <1>2, AllFound
  <2> QED
    BY <2>1, <2>2, <2>3 DEF AtMostOne
<1> QED
  BY <1>3, <1>4

\* The mapping of one resource.
LEMMA MappedOne ==
  ASSUME IInv, hazards = {}, NEW r \in Resources
  PROVE  /\ AbstractStatus[r] \in {"unused", "held", "released"}
         /\ AbstractHolders[r] \subseteq Places
         /\ IF AbstractStatus[r] = "held" THEN \E p \in Places : AbstractHolders[r] = {p}
            ELSE AbstractHolders[r] = {}
<1>0. r[2] \in Nat /\ r[2] > 0
  BY ResourceKinds
<1>1. CASE r[1] = "block"
  <2>1. /\ AbstractStatus[r] = IF r[2] > allocated THEN "unused"
              ELSE IF \E b \in Blocks : heap[b] = r[2] THEN "held" ELSE "released"
        /\ AbstractHolders[r] = UNION {{<<b, x>> : x \in Holders(b)} :
                                         b \in {c \in Blocks : heap[c] = r[2]}}
    BY <1>1, StatusOf, HoldersMap
  <2>2. CASE \E b \in Blocks : heap[b] = r[2]
    <3>1. PICK b \in Blocks : heap[b] = r[2]
      BY <2>2
    <3>2. r[2] <= allocated /\ allocated \in Nat
      BY <3>1, LibcHandleAssumption DEF IInv, TypeOK
    <3>3. {c \in Blocks : heap[c] = r[2]} = {b}
      BY <1>0, <3>1 DEF IInv, Library, Free
    <3>4. PICK x \in Holds : Holders(b) = {x}
      BY <1>0, <3>1, OneEach DEF Free
    <3>5. AbstractHolders[r] = {<<b, x>>}
      BY <2>1, <3>3, <3>4
    <3>6. AbstractStatus[r] = "held"
      BY <1>0, <2>1, <2>2, <3>2
    <3>7. <<b, x>> \in Places
      BY DEF Places
    <3> QED
      BY <3>5, <3>6, <3>7
  <2>3. CASE ~\E b \in Blocks : heap[b] = r[2]
    <3>1. AbstractHolders[r] = {}
      BY <2>1, <2>3
    <3>2. AbstractStatus[r] \in {"unused", "released"}
      BY <2>1, <2>3
    <3> QED
      BY <3>1, <3>2
  <2> QED
    BY <2>2, <2>3
<1>2. CASE r[1] = "file"
  <2>1. /\ AbstractStatus[r] = IF r[2] > opened THEN "unused"
              ELSE IF \E n \in Fds : table[n] = r[2] THEN "held" ELSE "released"
        /\ AbstractHolders[r] = UNION {{<<"fd", n, x>> : x \in FdHolders(n)} :
                                         n \in {m \in Fds : table[m] = r[2]}}
    BY <1>2, StatusOf, HoldersMap
  <2>2. CASE \E n \in Fds : table[n] = r[2]
    <3>1. PICK n \in Fds : table[n] = r[2]
      BY <2>2
    <3>2. r[2] <= opened /\ opened \in Nat
      BY <3>1, FdTableAssumption DEF IInv, TypeOK, TableTypeOK
    <3>3. {m \in Fds : table[m] = r[2]} = {n}
      BY <1>0, <3>1 DEF IInv, Library, NoFile
    <3>4. PICK x \in Blocks \cup {-1} : FdHolders(n) = {x}
      BY <1>0, <3>1, OneEach DEF NoFile
    <3>5. AbstractHolders[r] = {<<"fd", n, x>>}
      BY <2>1, <3>3, <3>4
    <3>6. AbstractStatus[r] = "held"
      BY <1>0, <2>1, <2>2, <3>2
    <3>7. <<"fd", n, x>> \in Places
      BY DEF Places
    <3> QED
      BY <3>5, <3>6, <3>7
  <2>3. CASE ~\E n \in Fds : table[n] = r[2]
    <3>1. AbstractHolders[r] = {}
      BY <2>1, <2>3
    <3>2. AbstractStatus[r] \in {"unused", "released"}
      BY <2>1, <2>3
    <3> QED
      BY <3>1, <3>2
  <2> QED
    BY <2>2, <2>3
<1> QED
  BY <1>1, <1>2, ResourceKinds

\* The mapping is right in every state of a program without hazards.
LEMMA Mapped == IInv /\ hazards = {} => MapOK
<1> SUFFICES ASSUME IInv, hazards = {} PROVE MapOK
  OBVIOUS
<1>1. /\ AbstractStatus \in [Resources -> {"unused", "held", "released"}]
      /\ AbstractHolders \in [Resources -> SUBSET Places]
  <2>1. /\ AbstractStatus = [r \in Resources |-> AbstractStatus[r]]
        /\ AbstractHolders = [r \in Resources |-> AbstractHolders[r]]
    BY DEF AbstractStatus, AbstractHolders, Resources
  <2>2. \A r \in Resources : /\ AbstractStatus[r] \in {"unused", "held", "released"}
                             /\ AbstractHolders[r] \in SUBSET Places
    BY MappedOne
  <2> QED
    BY <2>1, <2>2
<1>2. ASSUME NEW r \in Resources, NEW s \in Resources, r # s,
             NEW e \in AbstractHolders[r], e \in AbstractHolders[s]
      PROVE  FALSE
  <2>1. CASE r[1] = "block" /\ s[1] = "block"
    <3>1. PICK b, x : b \in Blocks /\ x \in Holders(b) /\ heap[b] = r[2] /\ e = <<b, x>>
      BY <1>2, <2>1, HoldersMap
    <3>2. PICK c, y : c \in Blocks /\ y \in Holders(c) /\ heap[c] = s[2] /\ e = <<c, y>>
      BY <1>2, <2>1, HoldersMap
    <3>3. b = c
      BY <3>1, <3>2
    <3> QED
      BY <1>2, <2>1, <3>1, <3>2, <3>3, ResourceKinds
  <2>2. CASE r[1] = "file" /\ s[1] = "file"
    <3>1. PICK n, x : n \in Fds /\ x \in FdHolders(n) /\ table[n] = r[2] /\ e = <<"fd", n, x>>
      BY <1>2, <2>2, HoldersMap
    <3>2. PICK m, y : m \in Fds /\ y \in FdHolders(m) /\ table[m] = s[2] /\ e = <<"fd", m, y>>
      BY <1>2, <2>2, HoldersMap
    <3>3. n = m
      BY <3>1, <3>2
    <3> QED
      BY <1>2, <2>2, <3>1, <3>2, <3>3, ResourceKinds
  <2>3. CASE (r[1] = "block" /\ s[1] = "file") \/ (r[1] = "file" /\ s[1] = "block")
    <3>1. /\ \E b, x : e = <<b, x>>
          /\ \E n, x : e = <<"fd", n, x>>
      BY <1>2, <2>3, HoldersMap
    <3> QED
      BY <3>1, PlaceKinds
  <2> QED
    BY <2>1, <2>2, <2>3, ResourceKinds
<1>3. \A r, s \in Resources : r # s => AbstractHolders[r] \cap AbstractHolders[s] = {}
  BY <1>2
<1> QED
  BY <1>1, <1>3, MappedOne DEF MapOK

\* The same, in the state a step leads to.
LEMMA NextStatusOf ==
  ASSUME NEW r \in Resources
  PROVE  /\ r[1] = "block" => AbstractStatus'[r] =
              IF r[2] > allocated' THEN "unused"
              ELSE IF \E b \in Blocks : heap'[b] = r[2] THEN "held" ELSE "released"
         /\ r[1] = "file" => AbstractStatus'[r] =
              IF r[2] > opened' THEN "unused"
              ELSE IF \E n \in Fds : table'[n] = r[2] THEN "held" ELSE "released"
BY ResourceKinds DEF AbstractStatus, Resources

\* A resource goes from unused to held to released.
LEMMA StatusStep ==
  ASSUME IInv, LibcStep, NEW r \in Resources
  PROVE  Advances(r)
<1>0. r[2] \in Nat /\ r[2] > 0
  BY ResourceKinds
<1>1. CASE r[1] = "block"
  <2>0. heap \in [Blocks -> 0 .. allocated] /\ allocated \in Nat
    BY LibcHandleAssumption DEF IInv, TypeOK
  <2>1. /\ AbstractStatus[r] = IF r[2] > allocated THEN "unused"
              ELSE IF \E b \in Blocks : heap[b] = r[2] THEN "held" ELSE "released"
        /\ AbstractStatus'[r] = IF r[2] > allocated' THEN "unused"
              ELSE IF \E b \in Blocks : heap'[b] = r[2] THEN "held" ELSE "released"
    BY <1>1, StatusOf, NextStatusOf
  <2>2. CASE UNCHANGED <<heap, dirfd, allocated>>
    BY <2>1, <2>2 DEF Advances
  <2>3. ASSUME NEW b \in Blocks, NEW n \in Numbers, Alloc(b, n) PROVE Advances(r)
    <3>1. /\ heap[b] = Free /\ heap' = [heap EXCEPT ![b] = allocated + 1]
          /\ allocated' = allocated + 1
      BY <2>3 DEF Alloc
    <3>2. CASE r[2] = allocated + 1
      <4>1. heap'[b] = r[2]
        BY <2>0, <3>1, <3>2
      <4> QED
        BY <1>0, <2>0, <2>1, <3>1, <3>2, <4>1 DEF Advances
    <3>3. CASE r[2] # allocated + 1
      <4>1. \A c \in Blocks : heap'[c] = r[2] <=> heap[c] = r[2]
        BY <1>0, <2>0, <3>1, <3>3 DEF Free
      <4>2. r[2] > allocated' <=> r[2] > allocated
        BY <1>0, <2>0, <3>1, <3>3
      <4> QED
        BY <2>1, <4>1, <4>2 DEF Advances
    <3> QED
      BY <3>2, <3>3
  <2>4. ASSUME NEW b \in Blocks, heap' = [heap EXCEPT ![b] = Free], allocated' = allocated
        PROVE  Advances(r)
    <3>1. \A c \in Blocks : heap'[c] = r[2] => heap[c] = r[2]
      BY <1>0, <2>0, <2>4 DEF Free
    <3> QED
      BY <2>1, <2>4, <3>1 DEF Advances
  <2> QED
    BY <2>2, <2>3, <2>4 DEF LibcStep
<1>2. CASE r[1] = "file"
  <2>0. table \in [Fds -> 0 .. opened] /\ opened \in Nat
    BY FdTableAssumption DEF IInv, TypeOK, TableTypeOK
  <2>1. /\ AbstractStatus[r] = IF r[2] > opened THEN "unused"
              ELSE IF \E n \in Fds : table[n] = r[2] THEN "held" ELSE "released"
        /\ AbstractStatus'[r] = IF r[2] > opened' THEN "unused"
              ELSE IF \E n \in Fds : table'[n] = r[2] THEN "held" ELSE "released"
    BY <1>2, StatusOf, NextStatusOf
  <2>2. CASE UNCHANGED <<table, opened>>
    BY <2>1, <2>2 DEF Advances
  <2>3. ASSUME NEW n \in Fds, SysOpen(n) PROVE Advances(r)
    <3>1. /\ table[n] = NoFile /\ table' = [table EXCEPT ![n] = opened + 1]
          /\ opened' = opened + 1
      BY <2>3 DEF SysOpen, Lowest, FreeFds
    <3>2. CASE r[2] = opened + 1
      <4>1. table'[n] = r[2]
        BY <2>0, <3>1, <3>2
      <4> QED
        BY <1>0, <2>0, <2>1, <3>1, <3>2, <4>1 DEF Advances
    <3>3. CASE r[2] # opened + 1
      <4>1. \A m \in Fds : table'[m] = r[2] <=> table[m] = r[2]
        BY <1>0, <2>0, <3>1, <3>3 DEF NoFile
      <4>2. r[2] > opened' <=> r[2] > opened
        BY <1>0, <2>0, <3>1, <3>3
      <4> QED
        BY <2>1, <4>1, <4>2 DEF Advances
    <3> QED
      BY <3>2, <3>3
  <2>4. ASSUME NEW n \in Fds, SysClose(n) PROVE Advances(r)
    <3>1. /\ opened' = opened
          /\ \A m \in Fds : table'[m] = r[2] => table[m] = r[2]
      BY <1>0, <2>0, <2>4 DEF SysClose, NoFile
    <3> QED
      BY <2>1, <3>1 DEF Advances
  <2> QED
    BY <2>2, <2>3, <2>4 DEF LibcStep
<1> QED
  BY <1>1, <1>2, ResourceKinds

\* A step between two states the mapping is right in is a step of Ownership.
LEMMA StepImplements ==
  ASSUME MapOK, MapOK', \A r \in Resources : Advances(r)
  PROVE  Promise!Next
<1>1. ASSUME NEW r \in Resources
      PROVE  \/ Promise!Keep(r) \/ Promise!Acquire(r)
             \/ Promise!Transfer(r) \/ Promise!Release(r)
  <2> DEFINE held  == AbstractStatus[r] = "held"
             heldN == AbstractStatus'[r] = "held"
  <2>1. /\ held => \E p \in Places : AbstractHolders[r] = {p}
        /\ ~held => AbstractHolders[r] = {}
        /\ heldN => \E p \in Places : AbstractHolders'[r] = {p}
        /\ ~heldN => AbstractHolders'[r] = {}
    BY DEF MapOK
  <2>2. CASE held /\ heldN
    BY <2>1, <2>2 DEF Promise!Transfer, Promise!Held, Places, Holds
  <2>3. CASE held /\ ~heldN
    BY <2>1, <2>3 DEF Promise!Release, Promise!Held, Advances, Places, Holds
  <2>4. CASE ~held /\ heldN
    BY <2>1, <2>4 DEF Promise!Acquire, Promise!Held, Advances, Places, Holds
  <2>5. CASE ~held /\ ~heldN
    BY <2>1, <2>5 DEF Promise!Keep, Advances
  <2> QED
    BY <2>2, <2>3, <2>4, <2>5
<1>2. /\ AbstractStatus' \in [Resources -> {"unused", "held", "released"}]
      /\ AbstractHolders' \in [Resources -> SUBSET Places]
      /\ \A r, s \in Resources :
           r # s => AbstractHolders'[r] \cap AbstractHolders'[s] = {}
  BY DEF MapOK
<1> QED
  BY <1>1, <1>2 DEF Promise!Next, Resources, Places, Holds

\* In a program without hazards every block and every descriptor is acquired
\* once, held at one place at a time and given back once.
THEOREM Implements == Spec => Owns
<1>1. Init => Promise!Init
  <2> SUFFICES ASSUME Init PROVE Promise!Init
    OBVIOUS
  <2>0. /\ heap = [b \in Blocks |-> Free] /\ allocated = 0
        /\ table = [n \in Fds |-> NoFile] /\ opened = 0
    BY DEF Init, TableInit
  <2>1. ASSUME NEW r \in Resources
        PROVE  AbstractStatus[r] = "unused" /\ AbstractHolders[r] = {}
    <3>1. CASE r[1] = "block"
      BY <2>0, <3>1, ResourceKinds, StatusOf, HoldersMap DEF Free
    <3>2. CASE r[1] = "file"
      BY <2>0, <3>2, ResourceKinds, StatusOf, HoldersMap DEF NoFile
    <3> QED
      BY <3>1, <3>2, ResourceKinds
  <2>2. /\ AbstractStatus = [r \in Resources |-> AbstractStatus[r]]
        /\ AbstractHolders = [r \in Resources |-> AbstractHolders[r]]
    BY DEF AbstractStatus, AbstractHolders, Resources
  <2>3. AbstractStatus = [r \in Resources |-> "unused"] /\ AbstractHolders = [r \in Resources |-> {}]
    BY <2>1, <2>2
  <2> QED
    BY <2>3 DEF Promise!Init, Resources
<1>2. IInv /\ (hazards = {} => MapOK) /\ (hazards = {} => MapOK)' /\ [Next]_vars
      => [hazards = {} => [Promise!Next]_(Promise!vars)]_vars
  <2> SUFFICES ASSUME IInv, Next, hazards = {}, MapOK, hazards' = {} => MapOK'
               PROVE  Promise!Next
    OBVIOUS
  <2>1. hazards' = {} /\ LibcStep
    BY NextStep DEF Kept
  <2> QED
    BY <2>1, StatusStep, StepImplements
<1>3. IInv => (hazards = {} => MapOK)
  BY Mapped
<1> QED
  BY <1>1, <1>2, <1>3, Invariance, PTL DEF Spec, Owns
=============================================================================
