----------------------------- MODULE LibcHandle -----------------------------
(***************************************************************************)
(* Directory and AddressInfo: objects that own what the C library returns  *)
(* by a pointer, a directory stream with a descriptor in it or a list of   *)
(* addresses.  The handles of a behaviour are all of one kind.             *)
(*                                                                         *)
(* One thread runs their calls.  The rest of the program has blocks and    *)
(* descriptors of its own and allocates, frees, opens and closes between   *)
(* any two steps; the C library hands out any free block.  A step of a     *)
(* call covers one call of the C library.                                  *)
(***************************************************************************)
EXTENDS FdTable, InetAddress

CONSTANTS
  Handles,
  NoHandle,
  MaxBlock,    \* how many blocks the heap has
  MaxAllocs,   \* bound: how many blocks are allocated in a behaviour
  Ports,       \* the ports asked for, in host byte order
  Node,        \* the address of the node asked for
  Kinds,       \* the classes: "Directory", "AddressInfo"
  Programs     \* kinds of programs: the hazards each of them meets

\* reclose: Directory::close() is called.
\* sharefd: a stream is opened on a descriptor its owner keeps.
\* failtake: fdopendir(3) fails on a descriptor that was moved in.
\* selfmove: an object is assigned to itself.
\* unlisted: an error of getaddrinfo(3) that has no exception.
\* iterfree: a list is dropped while it is iterated over.
Hazards == {"reclose", "sharefd", "failtake", "selfmove", "unlisted", "iterfree"}

ASSUME LibcHandleAssumption ==
  /\ NoHandle \notin Handles
  /\ MaxBlock \in Nat \ {0} /\ MaxAllocs \in Nat
  /\ Ports \subseteq Uint(2) /\ Node \in Uint(4)
  /\ Kinds \subseteq {"Directory", "AddressInfo"}
  /\ Programs \subseteq SUBSET Hazards

VARIABLES
  kind,        \* the class of the handles
  alive,       \* alive[h]: h is constructed and not yet destroyed
  ptr,         \* ptr[h]: its _dh or _ais
  heap,        \* heap[b]: the rank of the allocation in block b, or Free
  dirfd,       \* dirfd[b]: the descriptor of a stream in block b
  allocated,   \* number of blocks allocated so far
  others,      \* the blocks of the rest of the program
  fds,         \* its descriptors
  iter,        \* an Iterator: the list it goes through
  frame,       \* the library call in progress
  result,      \* what the last call resolved
  outcome,     \* "runs", "EBADF" or "undefined"
  hazards      \* the hazards this program meets

libc == <<table, opened, heap, dirfd, allocated>>
vars == <<libc, kind, alive, ptr, others, fds, iter, frame, result, outcome,
          hazards>>

Null == 0
Free == 0
Blocks == 1 .. MaxBlock
Pointers == 0 .. MaxBlock

Idle == [op |-> "idle", this |-> NoHandle, other |-> NoHandle, list |-> Null,
         port |-> <<0, 0>>]
NoResult == [call |-> "none", this |-> NoHandle, port |-> <<0, 0>>,
             addr |-> Default]

IsDirectory == kind = "Directory"
Ready == outcome = "runs" /\ frame = Idle
valid(h) == ptr[h] # Null
May(hazard) == hazard \in hazards

\* A careful program neither destroys nor overwrites a list it iterates over.
Spares(h) == May("iterfree") \/ ~valid(h) \/ iter # ptr[h]
-----------------------------------------------------------------------------
Init ==
  /\ TableInit
  /\ kind \in Kinds
  /\ alive = [h \in Handles |-> FALSE]
  /\ ptr = [h \in Handles |-> Null]
  /\ heap = [b \in Blocks |-> Free]
  /\ dirfd = [b \in Blocks |-> Invalid]
  /\ allocated = 0
  /\ others = {} /\ fds = {} /\ iter = Null
  /\ frame = Idle /\ result = NoResult /\ outcome = "runs"
  /\ hazards \in Programs

\* malloc(3), within the calls that return a block with descriptor n in it.
Alloc(b, n) ==
  /\ allocated < MaxAllocs /\ heap[b] = Free
  /\ heap' = [heap EXCEPT ![b] = allocated + 1]
  /\ dirfd' = [dirfd EXCEPT ![b] = n]
  /\ allocated' = allocated + 1

\* closedir(3) and freeaddrinfo(3) of block b.  A block that is not live, or
\* not a stream, is undefined behaviour.  The stream's descriptor is closed
\* with it; if that was closed already, closedir(3) returns an error, which
\* close() asserts away.
Dispose(b) ==
  IF heap[b] = Free \/ (IsDirectory /\ dirfd[b] = Invalid)
  THEN outcome' = "undefined" /\ UNCHANGED libc
  ELSE /\ heap' = [heap EXCEPT ![b] = Free]
       /\ dirfd' = [dirfd EXCEPT ![b] = Invalid]
       /\ IF IsDirectory
          THEN /\ outcome' = IF table[dirfd[b]] = NoFile THEN "EBADF" ELSE outcome
               /\ SysClose(dirfd[b])
          ELSE UNCHANGED <<table, opened, outcome>>
       /\ UNCHANGED allocated

\* Directory d; AddressInfo ais;
Construct(h) ==
  /\ Ready /\ ~alive[h]
  /\ alive' = [alive EXCEPT ![h] = TRUE]
  /\ ptr' = [ptr EXCEPT ![h] = Null]
  /\ result' = NoResult
  /\ UNCHANGED <<libc, kind, others, fds, iter, frame, outcome, hazards>>

\* Directory(DIR *), AddressInfo(struct addrinfo *): a block of the program.
Adopt(h, b) ==
  /\ Ready /\ ~alive[h]
  /\ b \in others /\ heap[b] # Free
  /\ IsDirectory => dirfd[b] # Invalid
  /\ alive' = [alive EXCEPT ![h] = TRUE]
  /\ ptr' = [ptr EXCEPT ![h] = b]
  /\ others' = others \ {b}
  /\ result' = NoResult
  /\ UNCHANGED <<libc, kind, fds, iter, frame, outcome, hazards>>

\* h is where a constructor or open() may put a stream.
Opens(h) == Ready /\ IsDirectory /\ (alive[h] => ~valid(h))

\* Directory(name), open(name).
OpenName(h) ==
  /\ Opens(h)
  /\ \E b \in Blocks, n \in Fds :
       /\ SysOpen(n) /\ Alloc(b, n)
       /\ ptr' = [ptr EXCEPT ![h] = b]
  /\ alive' = [alive EXCEPT ![h] = TRUE]
  /\ result' = NoResult
  /\ UNCHANGED <<kind, others, fds, iter, frame, outcome, hazards>>

\* A failing opendir(3): the constructor that throws leaves no object, the one
\* with a handler an empty one.
OpenFails(h, throws) ==
  /\ Opens(h)
  /\ alive' = [alive EXCEPT ![h] = @ \/ ~throws]
  /\ ptr' = [ptr EXCEPT ![h] = Null]
  /\ result' = NoResult
  /\ UNCHANGED <<libc, kind, others, fds, iter, frame, outcome, hazards>>

\* Mutant: the descriptor is read out of its owner, as by value(), and stays.
OpenFd_reads(h, n, shared) ==
  /\ Opens(h) /\ n \in fds
  /\ shared => May("sharefd")
  /\ \E b \in Blocks : Alloc(b, n) /\ ptr' = [ptr EXCEPT ![h] = b]
  /\ alive' = [alive EXCEPT ![h] = TRUE]
  /\ result' = NoResult
  /\ UNCHANGED <<table, opened, kind, others, fds, iter, frame, outcome, hazards>>

\* Directory(FileDescriptor &&), or a descriptor that the program released:
\* the stream owns it from now on.  Shared: Directory(const FileDescriptor &)
\* and open() of a FileDescriptor, even of an rvalue, which leave the number
\* with its owner too.
OpenFd(h, n, shared) ==
  /\ Opens(h) /\ n \in fds
  /\ shared => May("sharefd")
  /\ \E b \in Blocks : Alloc(b, n) /\ ptr' = [ptr EXCEPT ![h] = b]
  /\ fds' = IF shared THEN fds ELSE fds \ {n}
  /\ alive' = [alive EXCEPT ![h] = TRUE]
  /\ result' = NoResult
  /\ UNCHANGED <<table, opened, kind, others, iter, frame, outcome, hazards>>

\* Directory(FileDescriptor &&) when fdopendir(3) fails: the descriptor was
\* reset and nobody closes it.
OpenFdFails(h, n, throws) ==
  /\ Opens(h) /\ ~alive[h] /\ n \in fds /\ May("failtake")
  /\ fds' = fds \ {n}
  /\ alive' = [alive EXCEPT ![h] = ~throws]
  /\ result' = NoResult
  /\ UNCHANGED <<libc, kind, ptr, others, iter, frame, outcome, hazards>>

\* Directory::close(): the pointer stays.
Close(h) ==
  /\ Ready /\ IsDirectory /\ alive[h] /\ valid(h) /\ May("reclose")
  /\ Dispose(ptr[h])
  /\ result' = NoResult
  /\ UNCHANGED <<kind, alive, ptr, others, fds, iter, frame, hazards>>

\* AddressInfo::free(): the pointer goes.
FreeList(h) ==
  /\ Ready /\ ~IsDirectory /\ alive[h] /\ Spares(h)
  /\ IF valid(h) THEN Dispose(ptr[h]) ELSE UNCHANGED <<libc, outcome>>
  /\ ptr' = [ptr EXCEPT ![h] = Null]
  /\ result' = NoResult
  /\ UNCHANGED <<kind, alive, others, fds, iter, frame, hazards>>

\* reset(b): the old block goes to the program, one of the program's or none
\* comes.
Reset(h, b) ==
  /\ Ready /\ alive[h]
  /\ \/ b = Null
     \/ b \in others /\ heap[b] # Free /\ (IsDirectory => dirfd[b] # Invalid)
  /\ ptr' = [ptr EXCEPT ![h] = b]
  /\ others' = (others \ {b}) \cup ({ptr[h]} \ {Null})
  /\ result' = NoResult
  /\ UNCHANGED <<libc, kind, alive, fds, iter, frame, outcome, hazards>>

\* Mutant: the source is not emptied.
MoveConstruct_keepsSource(h, g) ==
  /\ Ready /\ ~alive[h] /\ alive[g]
  /\ alive' = [alive EXCEPT ![h] = TRUE]
  /\ ptr' = [ptr EXCEPT ![h] = ptr[g]]
  /\ result' = NoResult
  /\ UNCHANGED <<libc, kind, others, fds, iter, frame, outcome, hazards>>

\* Directory(Directory &&), AddressInfo(AddressInfo &&).
MoveConstruct(h, g) ==
  /\ Ready /\ ~alive[h] /\ alive[g]
  /\ alive' = [alive EXCEPT ![h] = TRUE]
  /\ ptr' = [ptr EXCEPT ![h] = ptr[g], ![g] = Null]
  /\ result' = NoResult
  /\ UNCHANGED <<libc, kind, others, fds, iter, frame, outcome, hazards>>

\* Mutant: what the target held is overwritten.
MoveAssign_noClose(h, g) ==
  /\ Ready /\ alive[h] /\ alive[g] /\ Spares(h)
  /\ h = g => May("selfmove")
  /\ frame' = [Idle EXCEPT !.op = "take", !.this = h, !.other = g]
  /\ result' = NoResult
  /\ UNCHANGED <<libc, kind, alive, ptr, others, fds, iter, outcome, hazards>>

\* h = std::move(g) begins: close() or free(), unless both are the same.
MoveAssign(h, g) ==
  /\ Ready /\ alive[h] /\ alive[g] /\ Spares(h)
  /\ h = g => May("selfmove")
  /\ IF valid(h) /\ ptr[h] # ptr[g]
     THEN /\ Dispose(ptr[h])
          /\ ptr' = IF IsDirectory THEN ptr ELSE [ptr EXCEPT ![h] = Null]
     ELSE UNCHANGED <<libc, ptr, outcome>>
  /\ frame' = [Idle EXCEPT !.op = "take", !.this = h, !.other = g]
  /\ result' = NoResult
  /\ UNCHANGED <<kind, alive, others, fds, iter, hazards>>

\* The pointer is copied, then that of the source emptied.
Take ==
  /\ outcome = "runs" /\ frame.op = "take"
  /\ ptr' = [ptr EXCEPT ![frame.this] = ptr[frame.other], ![frame.other] = Null]
  /\ frame' = Idle
  /\ UNCHANGED <<libc, kind, alive, others, fds, iter, result, outcome, hazards>>

\* ~Directory(), ~AddressInfo(); freeaddrinfo(3) of NULL does nothing.
Destroy(h) ==
  /\ Ready /\ alive[h] /\ Spares(h)
  /\ IF valid(h) THEN Dispose(ptr[h]) ELSE UNCHANGED <<libc, outcome>>
  /\ alive' = [alive EXCEPT ![h] = FALSE]
  /\ ptr' = [ptr EXCEPT ![h] = Null]
  /\ result' = NoResult
  /\ UNCHANGED <<kind, others, fds, iter, frame, hazards>>
-----------------------------------------------------------------------------
\* The codes of getaddrinfo(3) a program with correct hints gets.
Codes == {"EAI_NONAME", "EAI_AGAIN"} \cup
         (IF May("unlisted") THEN {"EAI_IDN_ENCODE"} ELSE {})

\* resolvethrow(): the codes it throws an exception for; others return.
Listed == {"EAI_NONAME", "EAI_AGAIN"}

\* ais.resolve(node, service, hints), in the form that throws; one with a
\* handler hands it the code.
Resolve(h) ==
  /\ Ready /\ ~IsDirectory /\ alive[h] /\ ~valid(h)
  /\ \E b \in Blocks : Alloc(b, Invalid) /\ ptr' = [ptr EXCEPT ![h] = b]
  /\ result' = [NoResult EXCEPT !.call = "resolve", !.this = h]
  /\ UNCHANGED <<table, opened, kind, alive, others, fds, iter, frame, outcome,
                 hazards>>

ResolveFails(h, code) ==
  /\ Ready /\ ~IsDirectory /\ alive[h] /\ ~valid(h) /\ code \in Codes
  /\ result' = IF code \in Listed THEN NoResult
               ELSE [NoResult EXCEPT !.call = "resolve", !.this = h]
  /\ UNCHANGED <<libc, kind, alive, ptr, others, fds, iter, frame, outcome,
                 hazards>>

\* TcpAddress::instance(node, port), and with a service, begins: a local
\* AddressInfo resolves.
Instance(p, service) ==
  /\ Ready /\ ~IsDirectory
  /\ \E b \in Blocks :
       /\ Alloc(b, Invalid)
       /\ frame' = [Idle EXCEPT !.list = b, !.port = p,
                      !.op = IF service THEN "service" ELSE "port"]
  /\ result' = NoResult
  /\ UNCHANGED <<table, opened, kind, alive, ptr, others, fds, iter, outcome,
                 hazards>>

\* It fails: resolvethrow() throws, or the empty address is returned.  Its hints
\* have no flags, so that each code it gets has an exception.
InstanceFails(p, code) ==
  /\ Ready /\ ~IsDirectory /\ code \in Codes \ {"EAI_IDN_ENCODE"}
  /\ result' = IF code \in Listed THEN NoResult
               ELSE [NoResult EXCEPT !.call = "instance", !.port = p]
  /\ UNCHANGED <<libc, kind, alive, ptr, others, fds, iter, frame, outcome,
                 hazards>>

\* The first address of the list: getaddrinfo(3) has set the port of the
\* service in it, or 0.
First == FromBytes(Node[1], Node[2], Node[3], Node[4],
                   IF frame.op = "service" THEN frame.port ELSE <<0, 0>>)

\* The first address is copied, with the port asked for in it, and the local
\* list freed.
InstanceReturns ==
  /\ outcome = "runs" /\ frame.op \in {"service", "port"}
  /\ result' = [NoResult EXCEPT !.call = "instance", !.port = frame.port,
                  !.addr = IF frame.op = "service" THEN First
                           ELSE WithPort(First, frame.port)]
  /\ Dispose(frame.list)
  /\ frame' = Idle
  /\ UNCHANGED <<kind, alive, ptr, others, fds, iter, hazards>>

\* begin(), cbegin() and the first ++: an iterator into the list of h, or the
\* end of it.
Iterate(h) ==
  /\ Ready /\ ~IsDirectory /\ alive[h]
  /\ iter' = ptr[h]
  /\ UNCHANGED <<libc, kind, alive, ptr, others, fds, frame, result, outcome,
                 hazards>>

\* ++ and * follow ai_next and read the node: undefined in a freed list.
Follow(last) ==
  /\ Ready /\ iter # Null
  /\ outcome' = IF heap[iter] = Free THEN "undefined" ELSE outcome
  /\ iter' = IF last THEN Null ELSE iter
  /\ UNCHANGED <<libc, kind, alive, ptr, others, fds, frame, result, hazards>>
-----------------------------------------------------------------------------
\* The rest of the program.
OtherAllocs ==
  /\ outcome = "runs"
  /\ \E b \in Blocks : Alloc(b, Invalid) /\ others' = others \cup {b}
  /\ UNCHANGED <<table, opened, kind, alive, ptr, fds, iter, frame, result,
                 outcome, hazards>>

OtherFrees(b) ==
  /\ outcome = "runs" /\ b \in others /\ heap[b] # Free
  /\ May("iterfree") \/ iter # b
  /\ others' = others \ {b}
  /\ heap' = [heap EXCEPT ![b] = Free]
  /\ dirfd' = [dirfd EXCEPT ![b] = Invalid]
  /\ IF dirfd[b] # Invalid THEN SysClose(dirfd[b]) ELSE UNCHANGED <<table, opened>>
  /\ UNCHANGED <<allocated, kind, alive, ptr, fds, iter, frame, result, outcome,
                 hazards>>

OtherOpens ==
  /\ outcome = "runs" /\ IsDirectory
  /\ \E n \in Fds : SysOpen(n) /\ fds' = fds \cup {n}
  /\ UNCHANGED <<heap, dirfd, allocated, kind, alive, ptr, others, iter, frame,
                 result, outcome, hazards>>

OtherCloses(n) ==
  /\ outcome = "runs" /\ n \in fds
  /\ SysClose(n) /\ fds' = fds \ {n}
  /\ UNCHANGED <<heap, dirfd, allocated, kind, alive, ptr, others, iter, frame,
                 result, outcome, hazards>>

DirectoryCalls(h) ==
  \/ OpenName(h) \/ Close(h)
  \/ \E throws \in BOOLEAN :
       \/ OpenFails(h, throws)
       \/ \E n \in Fds : OpenFdFails(h, n, throws)
  \/ \E n \in Fds, shared \in BOOLEAN : OpenFd(h, n, shared)

ListCalls(h) ==
  \/ FreeList(h) \/ Resolve(h) \/ Iterate(h)
  \/ \E code \in Codes : ResolveFails(h, code)

Next ==
  \/ \E h \in Handles :
       \/ Construct(h) \/ Destroy(h) \/ DirectoryCalls(h) \/ ListCalls(h)
       \/ \E b \in Blocks : Adopt(h, b)
       \/ \E b \in Pointers : Reset(h, b)
       \/ \E g \in Handles : MoveConstruct(h, g) \/ MoveAssign(h, g)
  \/ \E p \in Ports :
       \/ \E service \in BOOLEAN : Instance(p, service)
       \/ \E code \in Codes : InstanceFails(p, code)
  \/ Take \/ InstanceReturns
  \/ \E last \in BOOLEAN : Follow(last)
  \/ OtherAllocs \/ OtherOpens
  \/ \E b \in Blocks : OtherFrees(b)
  \/ \E n \in Fds : OtherCloses(n)

Spec == Init /\ [][Next]_vars
-----------------------------------------------------------------------------
TypeOK ==
  /\ TableTypeOK
  /\ alive \in [Handles -> BOOLEAN]
  /\ ptr \in [Handles -> Pointers]
  /\ allocated \in 0 .. MaxAllocs
  /\ heap \in [Blocks -> 0 .. allocated]
  /\ dirfd \in [Blocks -> Numbers]
  /\ others \subseteq Blocks /\ fds \subseteq Fds /\ iter \in Pointers
  /\ result.addr \in Sin
  /\ outcome \in {"runs", "EBADF", "undefined"}

\* A pointer that an assignment is about to overwrite is no claim any more.
Claims(h) ==
  alive[h] /\ valid(h) /\ ~(frame.op = "take" /\ frame.this = h /\ frame.other # h)

\* Who holds block b: handles, the rest of the program, a local of instance().
Holders(b) ==
  {h \in Handles : Claims(h) /\ ptr[h] = b}
  \cup {x \in {"others"} : b \in others}
  \cup {x \in {"local"} : frame.list = b}

\* Who holds descriptor n: streams, or FileDescriptors of the program.
FdHolders(n) ==
  {b \in Blocks : heap[b] # Free /\ dirfd[b] = n} \cup {x \in {-1} : n \in fds}

AtMostOne(s) == \A x, y \in s : x = y

\* What is held is live, and by one holder only.
HeldOnce ==
  /\ \A b \in Blocks : /\ AtMostOne(Holders(b))
                       /\ Holders(b) # {} => heap[b] # Free
                       /\ iter = b => heap[b] # Free
  /\ \A n \in Fds : /\ AtMostOne(FdHolders(n))
                    /\ FdHolders(n) # {} => table[n] # NoFile
  /\ outcome = "runs"

\* The state keeps its types.  A program that does not call Directory::close(),
\* gives each stream a descriptor of its own and drops no list it iterates over
\* holds every block and every descriptor once and live: nothing is freed
\* twice, closedir(3) never fails (Directory.hxx:175), iterators survive moves.
CarefulHoldOnce ==
  TypeOK /\ (hazards \cap {"reclose", "sharefd", "iterfree"} = {} => HeldOnce)

\* Only an object assigned to itself forgets its block, and only a stream that
\* could not be opened on a moved descriptor forgets that.
LeaksOnlyByHazard ==
  outcome = "runs" =>
    /\ ~May("selfmove") => \A b \in Blocks : heap[b] # Free => Holders(b) # {}
    /\ ~May("failtake") => \A n \in Fds : table[n] # NoFile => FdHolders(n) # {}

\* A resolve() that returns without an exception leaves a list, unless the code
\* has none; an instance() that returns without one gives the node that was
\* asked for, with the port that was asked for (TcpAddress.hxx:121-133).
ResultsRight ==
  /\ result.call = "resolve" /\ ~May("unlisted") => valid(result.this)
  /\ result.call = "instance" =>
       port(result.addr) = result.port /\ ip(result.addr) = Node

\* The abstract promise, for the blocks and for the descriptors in them.
AbstractStatus ==
  [r \in ({"block"} \X (1 .. MaxAllocs)) \cup ({"file"} \X Files) |->
     IF r[1] = "block"
     THEN IF r[2] > allocated THEN "unused"
          ELSE IF \E b \in Blocks : heap[b] = r[2] THEN "held" ELSE "released"
     ELSE IF r[2] > opened THEN "unused"
          ELSE IF \E n \in Fds : table[n] = r[2] THEN "held" ELSE "released"]

AbstractHolders ==
  [r \in ({"block"} \X (1 .. MaxAllocs)) \cup ({"file"} \X Files) |->
     IF r[1] = "block"
     THEN UNION {{<<b, x>> : x \in Holders(b)} : b \in {c \in Blocks : heap[c] = r[2]}}
     ELSE UNION {{<<"fd", n, x>> : x \in FdHolders(n)} : n \in {m \in Fds : table[m] = r[2]}}]

Promise == INSTANCE Ownership WITH
  Resources <- ({"block"} \X (1 .. MaxAllocs)) \cup ({"file"} \X Files),
  Places <- (Blocks \X (Handles \cup {"others", "local"}))
            \cup ({"fd"} \X Fds \X (Blocks \cup {-1})),
  status <- AbstractStatus, holders <- AbstractHolders

\* In a program without hazards every block and every descriptor is acquired
\* once, held at one place at a time and given back once.
Owns ==
  Promise!Init /\ [][hazards = {} => [Promise!Next]_(Promise!vars)]_vars
=============================================================================
